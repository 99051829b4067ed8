# Verification of nats-auth-operator

TLA+ models of the operator under `src/`, TLC runs on small instances, and
TLAPS proofs for all instances. The operator manages NATS authentication in a
Kubernetes cluster: users create `NatsAuthConfig`, `NatsAccount` and `NatsUser`
objects, the operator generates key pairs, signs JWTs, and keeps the Secrets
that NATS servers and clients mount.

## 1. Inventory

| part | state it keeps | operations | talks to |
|---|---|---|---|
| NatsAccount controller (`internal/controller/natsaccount_controller.go`) | finalizer and status of `NatsAccount`; the Secret `<name>-account-jwt` (seed and JWT) | fetch, finalizer, read configuration and seeds, sign, store the secret, trigger, save status, release on deletion | reads `NatsAuthConfig` and the operator's seed; writes an annotation of `NatsAuthConfig` (the trigger) |
| NatsAuthConfig controller (`natsauthconfig_controller.go`) | finalizer and status of `NatsAuthConfig`; the Secret `<name>-operator-seed`; the *aggregate*, the Secret or ConfigMap the NATS servers mount | validate, choose by mode, create or import the operator's seed, collect account JWTs, publish, save status, release | lists `NatsAccount`s and reads their secrets |
| NatsUser controller (`natsuser_controller.go`) | status of `NatsUser`; the Secret `<name>-user-creds` | JWT credentials signed with the account's seed, or token credentials | reads configuration, account, account's seed |
| manager (`main.go`) | informers, three work queues of one worker each | start, stop | API server |
| JWT managers (`internal/jwt`) | none | key pairs from a seed or new, claims, signatures | nkeys, jwt libraries |
| resolver writer (`internal/resolver/writer.go`) | none | create the object or set one key of it | API server |
| renderer, resolver builder, token generator | none | text, files and random strings | - |

Nothing is shared in memory between the controllers. They interact through
objects of the API server, whose updates carry the `resourceVersion` of the copy
they were computed from, and read through informer caches that lag. A
reconciliation is a chain of up to four writes (finalizer, secret, trigger,
status); any of them may be refused or lose its answer, the process may end
between any two, and users and the other controller act meanwhile.

What makes each part correct:

- **accounts**: an announced account ID is that of the stored seed (once `Ready`);
  no retry, crash or conflict replaces a seed whose ID is announced, and a
  mismatch between the two is noticed at once, however it came about;
- **configurations**: one operator key signs everything; the status tells the
  truth about the current spec; the aggregate ends up with exactly the JWTs of
  the accounts that exist;
- **both**: users' edits and deletions are never reverted, and no object is
  left without anything that will look at it again;
- **users**: stored credentials name the account's announced ID as their issuer,
  nobody who saw an announced key replaces it, `Ready` describes the current spec,
  a user that came before its account is served in the end, and credentials stop
  changing.

The hazards behind these properties, each at its line, are listed in
`PROJECT.json`; those without a property carry a note that says why.

## 2. Modules

| module | content |
|---|---|
| `ApiServer` | an API server as a controller meets it, for any kinds of objects: optimistic concurrency, lagging informers, work queues, requeue timers, lost answers, users' writes. External, modelled from the calls under `src/` |
| `Cluster` | accounts, the configuration and their secrets on an `ApiServer`; garbage collector, users, process. Names, types, watches and ownership from their lines |
| `AccountReconciler` | the NatsAccount controller, an action per step of `Reconcile` |
| `AuthConfigReconciler` | the NatsAuthConfig controller, likewise; the reads the aggregate is made of are steps of their own |
| `NatsAuthOperator` | both in one process on one cluster: `Init`, `Next`, `Spec`, `TypeOK`, key generation, restart |
| `AccountIdentity` | abstract: what the operator promises of an account's key, without workers, caches, retries or crashes |
| `OperatorProperties` | the properties of accounts and configurations, the refinement mapping to `AccountIdentity`, and the fairness |
| `UserReconciler` | the NatsUser controller, with the users, their credentials and the secrets their specs name on an `ApiServer` of their own, `U` |
| `UserOperator` | all three controllers in one process: `FullInit`, `FullNext`, `FullSpec` |
| `UserIdentity` | abstract: what the operator promises of a JWT user's key; permissions are no part of it |
| `UserProperties` | the properties of users, the refinement mapping to `UserIdentity`, and the fairness |
| `MCOperator`, `MCUsers` | values of the constants for TLC |
| `OperatorTypes`, `OperatorProofs`, `IdentityProofs`, `AttentionProofs`, `ConfigProofs` | theorems and proofs about accounts and configurations |
| `UserTypes`, `UserProofs`, `UserReadyProofs` | theorems and proofs about users |

**Composition.** The user controller reads configurations, accounts and account
secrets and writes none of them; the other two never touch users or their
credentials. So `UserOperator` superposes it: a step of the users changes only the
variables of `UserReconciler` (`UserStep`, `UserClusterStep`), a step of the others
only theirs (`OperatorStep`), and a restart both. The two halves meet in what the
user controller reads (`Cached(Account(a))`, `Cached(JWTSecret(a))`,
`Cached(AuthConfig)`) and in the process. `FullSpec => Spec` is a theorem
(`UsersChangeNothing`), so every safety property of `Spec` holds with users.

### State and steps

`store` maps every object to its content or `Absent`. `resourceVersion`s are only
ever compared for equality, so they are not numbered: `current[h]` is the set of
objects of which the holder `h` (the informers, or one of the two reconcilers)
has a copy with the server's version. `Put` removes a written object from every
other holder's set; `Update` succeeds exactly if the object exists and the
writer's copy is current. `cache` is what the lagging informers hold (`Lag` names
the kinds that may lag; the others follow the server at once).

Each controller has a program counter (`apc`, `cpc`, `upc`) naming what it is about
to do and the objects it holds in memory. **A step ends at each write.** The
reads between two writes are one step where an earlier value of a read is what a
lagging informer returns anyway, so that reading later adds no behaviour when the
kind lags. For kinds that do not lag in a run, interleavings inside such a group
are not explored; each run's `Lag` says which ones are. Where the result of several
reads is put together, **each read is a step of its own**, so that other
controllers run in between whatever lags:

- the aggregate: a refused `Create` of the operator's seed and the `Get` after it
  (`CreateOperatorSeed`, `ReadOperatorSeed`), the list of accounts (`ListAccounts`),
  the secret of each account on the list (`CollectAccountJWT`, in any order, as
  `List` promises none), and the secret to update (`ReadServerSecret`);
- a user's JWT: the account's ID (`ChooseUserKey`) and its seed (`SignUser`), and the
  two looks for the credentials in these two steps.

A conflict is an error the controllers handle like any other. `Send` gives every
write its outcomes: accepted; accepted without change (same content within the
same second, hence no event); refused; or, with a `fault`, the request or only the
answer is lost. An error return requeues with backoff (`Backoff`), a success with
`RequeueAfter` (`"period"`, one or five minutes); the delaying queue keeps the
earlier deadline.

| code | actions |
|---|---|
| account `Reconcile` up to the first write, deletion branch | `FetchAccount` |
| `AddFinalizer`, `Update` | `FinalizeAccount` |
| `getAuthConfig`, mode check, the early return, seeds, claims, signature | `RejectAccount`, `SkipAccount`, `PanicOnAccount`, `SignAccount` |
| Create/Update of the secret, ID in memory | `StoreAccountSecret` |
| `triggerAuthConfigReconcile` | `TriggerConfig` |
| the four `Status().Update` calls | `SaveAccountStatus` |
| `handleDeletion` | `UntriggerConfig`, `ReleaseAccount` |
| config `Reconcile` up to the first write | `FetchConfig`, `FinalizeConfig` |
| `validateSpec`, the switch, `reconcileTokenMode`, imports | `ChooseMode` |
| `getOrCreateOperatorSeed` | `CreateOperatorSeed`, `ReadOperatorSeed` |
| `NewOperatorManager`, `secretData`, `collectAccountJWTs` | `ListAccounts`, `CollectAccountJWT` |
| the look for the object to update | `ReadServerSecret` |
| Create/Update of the aggregate, `WriteResolverConfig` | `PublishAggregate` |
| the three `Status().Update` calls | `SaveConfigStatus` |
| `handleDeletion` | `ReleaseConfig` |
| user `Reconcile` up to the first write, deletion branch | `FetchUser`, `FinalizeUser` |
| `getAuthConfig` fails | `MissConfig` |
| the auth type, `accountRef`, the wait for the account, imports | `RejectUser` |
| "User credentials already exist, skipping regeneration" | `SkipUser` |
| `getOrCreateUserSeed`, `NewUserManager` | `ChooseUserKey` |
| `getAccountSeed`, `SignUserJWT`, the second look for the secret | `SignUser` |
| `reconcileTokenUser` up to its write | `IssueToken` |
| Create/Update of the credentials, public key in memory | `StoreCredentials` |
| the three `Status().Update` calls | `SaveUserStatus` |
| `handleDeletion` | `ReleaseUser` |

### Abstractions

- A key pair is a number; a seed and its public key are the same number; `NoKey` is
  the empty string. A JWT is the record it authenticates: subject, issuer,
  limits. A new key is the least number not in use anywhere (`Fresh`), which
  makes every choice of a new key the same up to renaming and lets a small pool
  serve long behaviours. The pools of the passing runs never run dry: in every
  state there is a key left to draw.
- `limits` is one value. `"zero"` stands for a limit of 0 or false, which
  `omitempty` drops from every full update and the CRD default replaces by
  `"unlimited"` (`Resent`).
- Conditions are reduced to `ready`; `observed` says whether `observedGeneration` is
  the current generation; timestamps only matter as "same second or not".
- A user's seed and its public key are kept apart (`KeyPairs`), because an empty
  imported seed is stored as it is while the JWT is about a generated key.
  Permissions are one value of the spec, which users edit and the JWT copies.
  Username and password of a token user are one draw
  of a random string that nobody holds (`FreshStrings`).
- One `NatsAuthConfig` named `main`; all objects in one namespace. The object the
  servers mount keeps its name, and its kind varies with the spec.
- `Deliver` hands over the newest state; events of several writes may coalesce,
  as informers and the work queue do.
- An object that is being deleted has its finalizer, so `handleDeletion` does not
  meet one without.
- Secrets are read as a whole: an imported secret that lacks its key is not told
  apart from one that does not exist (both are the same error).

## 3. Properties

Several properties depend on whether a reconciliation works from an up-to-date
copy. The client is the cached one of the manager (`main.go:89`), so it may not; a
write with an outdated `resourceVersion` is refused, but a write of *another* object
is not. These properties therefore say exactly what a stale copy may do, instead
of assuming that there is none.

Of accounts and configurations (`OperatorProperties`):

- `TypeOK`.
- `ReadyMeansSound`: a `Ready` account has a secret whose seed and JWT carry the
  announced ID.
- `AnnouncedSeedKept`: a stored seed whose ID the account announces is replaced only
  by a reconciliation whose copy of the account is out of date.
- `IdentityKept`: an announced ID is given up for another one only after the seed it
  stands for is gone: deleted, or replaced.
- `IdentityRefined`: the operator implements `AccountIdentity`. There, a key is
  *settled* when the stored one is announced. Keys may be chosen again and again
  until one is settled; a settled key is replaced only by someone who is not
  `informed`; what is announced of a settled key does not change; only a stored key,
  or one that was lost meanwhile, is announced; and nothing is ready without an
  announced key. The mapping reads the stored key off the secret, the announced
  one and readiness off the status, and `informed` off the versions of the copies
  in memory; workers, caches, retries, crashes and the configuration controller are
  stutters.
- `MismatchAttended`: whenever status and secret disagree, the request is queued,
  in hand, about to be retried, or an event for it is to come. Repair never
  waits for the five-minute timer.
- `OneOperator`: everything signed or published is signed by the key in the
  operator's seed secret, whichever controller came first.
- `ReadyMeansPublished`: a configuration that is `Ready` for its current spec has
  written what its mode writes: the operator's JWT in a Secret in jwt and mixed
  mode, `auth.conf` in an object of the kind the spec names in token mode.
- `OperatorAnnounced`: between two reconciliations it announces the operator key that
  was published.
- `PublishedAsAnnounced`: every account JWT in the object the servers mount is about
  the ID which that account announces, if the account exists. The list of accounts,
  the secret of each and the object to update are read one after the other, the
  account controller runs between any two of these reads, and a crash makes it sign
  an account twice.
- `UsersWin`: no write of a controller reverts a spec, undoes a deletion, removes an
  object that nobody deleted, or touches a re-created object with a copy of the
  old one.
- `NothingForgotten`: while the process runs, every object that exists is queued,
  timed, in hand, or about to cause an event.
- `Settles == <>[]Converged`: the aggregate ends up with exactly the JWTs of the
  accounts that exist, and deleted accounts leave nothing behind.

Of users (`UserProperties`):

- `FullTypeOK`.
- `SignedByAccount`: as long as the account of a user exists, the user's stored JWT
  has the ID that account announces as its issuer. The ID and the seed are two
  reads, and the account controller runs in between.
- `AnnouncedCredentialsKept`: credentials whose key the user's status announces get
  another key only from a reconciliation whose copy of the user, or whose first look
  at the credentials, was out of date. It is about the key: other permissions for
  the same key would satisfy it.
- `UserReadyMeansServed`: a user that is `Ready` for its current spec has the kind of
  credentials that spec names (a JWT and an announced key; or a token, with the
  username of the spec if there is one), or is about to be looked at again. It
  says nothing of permissions: see `PermissionsApplied`.
- `UserIdentityRefined`: the operator implements `UserIdentity`, the counterpart of
  `AccountIdentity` for the key a JWT user's credentials hold.
- `UsersServed`: every user ends up `Ready`, a JWT user with credentials its account
  signed, a token user with the password its spec names.
- `CredentialsSettle`: in the end no credentials change.

Statements of the repository that do not hold, each with a run that shows it:
`TriggerFindsAccount`, `NoPanic`, `PermissionsApplied`, `CredentialsSettle` for generated
token credentials, and `SignedByAccount` when the informer of secrets lags behind a
crash.

## 4. Runs

The runs of users check `MCUsers`, the others `MCOperator`. A "budget" bounds how
often users, the network or the kubelet may act; the kinds allowed are the run's
`Disturbances` (and `UserDisturbances`, `UserBudget` for users' objects).

| run | instance | question | result |
|---|---|---|---|
| `Identity` | 1 account, limits `zero` and `unlimited`; accounts and their secrets lag; 2 of fault, crash, edit, deletion, re-creation, deletion of the secret; `ConfigAway` | who may replace a settled key, what may follow, is every mismatch attended, is the abstract life of a key implemented, do users win? | holds |
| `Shared` | 1 account; configuration, operator seed and account secret lag; 1 of fault, crash, deletion, edit of the configuration (with or without `jwt`), equal timestamps | is there one operator key, is `Ready` true, is nothing forgotten, does the trigger revert nothing? | holds |
| `Modes` | 1 account; 2 of change of mode, deletion and re-creation of the configuration, crash; four specs | does the status describe the current spec, and is what is published what is announced? | holds |
| `Settle` | 1 account; 1 of fault, crash, deletion of account, secret or aggregate; equal timestamps | does publication converge? | holds |
| `SettleTwo` | 2 accounts, equal timestamps | do concurrent triggers converge? | holds |
| `Users` | 1 account, 1 user with one of three specs; credentials lag; a crash, or 2 of fault, creation, edit (permissions, jwt or token), deletion, deletion of the credentials; `ConfigAway`, `OneDisturbance` | are JWTs issued by the announced ID, who may replace an announced key, is `Ready` true or attended, is the abstract life of a user's key implemented? | holds |
| `UsersSettle` | jwt or token mode; 1 user that inherits it, with an imported seed and a stored password; a fault or a new password; `ConfigApart` | are users served, do credentials settle? | holds |
| `TriggerTooEarly` | 1 account, nothing disturbed | "Update status first (so the NatsAuthConfig controller can find it)" | violated |
| `NoJWTSection` | mixed mode without `jwt` | is a missing section only a status condition? | violated |
| `TokenChurn` | 1 token user, generated credentials, nothing disturbed, fairness | "User Credentials Keep Regenerating": fixed? (README.md:366) | violated |
| `StaleSeed` | 1 account whose secret lags, 1 JWT user, a crash | does the ID in the status match the seed used? (README.md:287) | violated |
| `PermissionEdit` | 1 account, 1 JWT user, an edit of its permissions | "The operator will automatically update the user JWT" (examples/jwt-auth/README.md:286) | violated |

**Why the bounds suffice.** Accounts do not interact except through the
aggregate and the single worker of their controller, so one account shows the
races between the two controllers and two show the races for the aggregate. Users
do not interact at all except through their single worker, so one is enough for
the safety properties. A hazard needs at most two disturbances (delete and
re-create, delete and edit); more of them repeat the same window. Faults and
crashes are bounded by the budget but may hit any write. Every step of the model
is fired by a passing run.

**State constraints** keep the workers of several controllers within reach.

- `ConfigAway` (`Identity`, `Users`): the configuration controller does not get beyond
  its queue. With an imported operator key it writes nothing the other two depend
  on, save the `resourceVersion` of the configuration, which may refuse a trigger; a
  refused trigger ends like one the network loses, which the budget allows.
  `Shared`, `Modes` and the `Settle` runs have both controllers at work.
- `ConfigApart` (`UsersSettle`): the configuration controller and the user controller
  are not explored in the middle of a reconciliation at once; neither writes what
  the other reads (a user reads the configuration's mode, which no controller
  changes), so their steps commute, and a step of one can be moved past a
  reconciliation of the other. Nothing fair is asked of the configuration
  controller, and for users a behaviour in which it stops half-way differs in
  nothing from one in which it goes on, so no infinite behaviour that matters is cut. TLC
  finds no error without the constraint either (411,415 states), but takes longer.
- `OneDisturbance` (`Users`): something may go wrong in the core or with the users,
  not both. The theorems of section 6 have no such bounds.

Deadlock is checked in every run: an operator that still has an object to look
after always has a timer left.

**What the violations show.**

- `TriggerTooEarly`: the status that is said to be updated "first" is only changed
  in memory; the trigger goes out before `Status().Update`. The configuration
  controller may run in between, find no ID and skip the account, and then only
  its five-minute timer publishes it. `Settles` shows that the timer does.
- `NoJWTSection`: the account controller accepts mixed mode and dereferences the nil
  `jwt` section that only the other controller validates. controller-runtime
  v0.16.3 (`go.mod`) does not recover panics unless asked to.
- `TokenChurn`: `reconcileTokenUser` draws a new username or password at each
  reconciliation and compares it with the stored one, which never matches; the
  update is an event of an owned secret and queues the next reconciliation.
- `StaleSeed`: the process ends after an account's secret was stored and before its
  status was saved. After the restart the account controller replaces the seed,
  whose ID nobody was told, and announces the new one. The user controller sees
  that ID and reads the old seed from an informer that is behind; the JWT it signs
  has an issuer no server knows, and `natsuser_controller.go:170` keeps it.
- `PermissionEdit`: the same line 170 returns before the permissions are looked at, and
  `Reconcile` then declares the new generation observed and `Ready`.

More sentences of the repository are contradicted by the code, and no run is spent
on them, because a single line or a window described elsewhere shows it:

- README.md:287, "The operator now verifies that the account ID in status matches the
  seed in the secret", as the solution of "Account IDs Keep Changing": the ID that is
  compared is the one of a cached copy. A `NatsAccount` that is reconciled again
  right after its own status update may still be read without its ID; the seed is
  taken for a mismatch and replaced, the status update is refused, and the ID
  changes on the retry. `Identity` runs with this lag: `AnnouncedSeedKept`,
  `IdentityKept` and `IdentityRefined` name the case, and `MismatchAttended` shows that
  it is repaired without waiting for a timer. `PublishedAsAnnounced` and
  `ReadyMeansSound` do not hold in this window.
- README.md:362, after deleting an account's secret "the operator will regenerate the
  JWT using the existing seed": the seed is in that secret and nowhere else, so a
  new identity is made.
- examples/jwt-auth/README.md:294, "Update limits" of an existing account:
  `reconcileAccount` returns before it looks at them (`natsaccount_controller.go:167`).
- api/v1alpha1/natsauthconfig_types.go:47-50, the type of the object, "ConfigMap or
  Secret", by default ConfigMap: jwt and mixed mode ignore it and write a Secret
  (`natsauthconfig_controller.go:194-226`). `Modes` has such a spec (`Mixed`), and
  `ReadyMeansPublished` states the object that is written.
- natsauthconfig_controller.go:260, "For mixed mode, we need both JWT and token configs":
  only the JWT entries are written. `ReadyMeansPublished` asks for these only.

## 5. Fairness

`FairSpec` assumes weak fairness of every informer delivery, timer, garbage
collection, of the restart (kubelet), and of each worker's steps: a reconciliation
that has started makes no blocking call but API requests, which return. Fetching a
particular account is strongly fair: the worker is busy with others in between, and
the work queue is first in, first out. Nothing is assumed of users, faults
or crashes; they are bounded by the budget, so `Settles` reads "once they stop".
`Settles` uses the periodic timers: without them publication does not converge
(that is its mutant `ConfigForgets`).

`FullFairSpec` assumes the same of the user controller and the account controller,
and nothing of the configuration controller: `UsersServed` does not depend on it,
because the account controller reads an imported operator seed by itself. `UsersServed`
depends on `Backoff` (its mutant is `UserForgets`): neither the account nor its
secret is watched by the user controller, so a user that came first waits for its
account by retries alone, and a changed password is seen by the periodic timer only.

## 6. Proofs

`tlapm` checks every leaf; the proofs hold for all values of the constants that
satisfy the named assumptions of `Cluster` (`SpecAssumption`, `KeyAssumption`,
`AbsentAssumption`) and, for users, of `UserReconciler` (`UserSpecAssumption`,
`UserKeyAssumption`, `UserAbsentAssumption`): any accounts, users, key pools, specs,
lagging kinds, disturbances and budgets.

| theorem | statement | by |
|---|---|---|
| `OperatorTypes!TypeCorrect` | `Spec => []TypeOK` | one lemma per action |
| `OperatorProofs!NothingIsForgotten` | `Spec => []NothingForgotten` | `RememberInv` |
| `OperatorProofs!UsersPrevail` | `Spec => UsersWin` | `RememberInv`, `CopiesOK`, `ReleasesDeleted` |
| `IdentityProofs!IdentityImplemented` | `Spec => IdentityRefined` | `LifeInv`, step simulation |
| `IdentityProofs!AnnouncedSeedSafe` | `Spec => AnnouncedSeedKept` | `LifeInv` |
| `IdentityProofs!IdentityStable` | `Spec => IdentityKept` | `LifeInv` |
| `AttentionProofs!MismatchIsAttended` | `Spec => []MismatchAttended` | `AttentionInv` |
| `ConfigProofs!OneOperatorSigns` | `OneSource => (Spec => []OneOperator)` | `KeyInv` |
| `ConfigProofs!ReadyIsPublished` | `ServersKept => (Spec => []ReadyMeansPublished)` | `ServedInv` |
| `ConfigProofs!OperatorIsAnnounced` | `ServersKept /\ "operator" \notin Accounts => (Spec => []OperatorAnnounced)` | `ServedInv` |
| `UserTypes!UsersChangeNothing` | `FullSpec => Spec` | superposition |
| `UserTypes!FullTypeCorrect` | `FullSpec => []FullTypeOK` | one lemma per action |
| `UserProofs!CredentialsSafe` | `FullSpec => AnnouncedCredentialsKept` | `KeyInv` |
| `UserProofs!UserIdentityImplemented` | `FullSpec => UserIdentityRefined` | `KeyInv`, step simulation |
| `UserReadyProofs!UserReadyIsServed` | `FullSpec => []UserReadyMeansServed` | `KeyInv`, `ServedInv` |

Only the three theorems of `ConfigProofs` have a proviso. None assumes that an
informer is up to date, that a request is answered, or that an object is not
re-created (except a configuration whose operator seed would be inherited).

**Why each invariant is needed.** `NothingForgotten` is not inductive: an object
whose cached copy is missing is fetched as "not found" and dropped from the
queue, which is safe only if its event is still to come, so `RememberInv` adds
`CacheOK` (a copy with the server's version is the server's object). `UsersWin`
needs `CopiesOK`: whenever a reconciler's copy passes the version check, the fields
users decide are the server's; it is preserved because every foreign write takes
the object out of `current`. `ReleasesDeleted` says that a finalizer is removed only
by a reconciliation that saw the deletion.

The three theorems on identities share `LifeInv`. Of the reconciliation in hand it
says that a copy of the account that is up to date announces what the server does
(`IDCopied`); that the secret about to be replaced, if it is the current one, did
not match that ID (`ReplacedOK`), so that a settled key is in danger only from an
outdated copy; that the ID about to be announced is the stored one, unless the
secret is gone or its seed empty (`AnnouncesOK`); and that no account is ready
without an ID (`ReadyInHand`, `ReadyOK`). Under it each action is one of `Choose`,
`Judge`, `Lose`, `Retire`, `Appear` for the account in hand and a stutter for the others
(`Lives`).

`MismatchAttended` needs what a `Reconcile` knows when it returns without an error:
`AttentionInv` says that an ID about to be announced is the one of the stored secret,
or that the account is going to be looked at again (`AnnouncementOK`). Whatever changes
the secret in between is an event of an owned object. It also says that a JWT about to
replace one next to an empty seed differs from it (`NewJWT`), so that the write is an
event at all.

`OneOperator` needs every place a signature or a key may wait to be written: stored
and cached secrets, the accounts' draft, the configuration in the account
controller's hand, the aggregate being put together, and the key in the
configuration controller's hand (`KeyInv` of `ConfigProofs`). `TheKey` never changes once
there is one, because a second `Create` is refused whatever the cache says, and the
loser reads the winner's key, at once or on its retry.

`ReadyMeansPublished` and `OperatorAnnounced` share one invariant (`ServedInv` of
`ConfigProofs`). A verdict in memory is true of the spec in hand (`VerdictOK`), because
the draft was (`DraftCovers`), and it can only be saved if that spec is still the
current one: a status that describes the current spec, or a copy that passes the
version check, implies that the informer shows this spec (`SpecSeen`), so that no
reconciliation starts from an older one any more. Between the write of a new key
and its announcement the configuration is attended (`KeyAnnounced`).

`AnnouncedCredentialsKept` spans two looks for the secret and two writes. `KeyInv` of
`UserProofs` says that from the choice of a key pair to the write, a user whose
credentials hold a JWT announces no key, as far as an up-to-date reconciliation can
see (`KeyNeeded`); that a draft is about the key pair in hand, or adds a token to the
JWT that is stored (`DraftFits`); and that a verdict which can still be saved announces
what is announced, or the key of the stored JWT (`VerdictFits`). `UserMoves` says of every
step what it may do to one user, and each such move is a step of `UserIdentity`.

`UserReadyMeansServed` is proved from what makes a user *pending*: `HandServes` says that
a verdict which may be saved is true of the stored credentials, or that the user is
queued or an event for it is to come (`VerdictTrue`), and that a draft has what the
spec in hand names (`DraftServes`). Every write of a user or of its credentials makes
it pending (`PutStirs`), and a reconciliation lets go of a user only when it is served,
pending or gone (`LetsGo`).

**The provisos, and what happens without them.**

- `OneSource`: either every spec imports the operator's seed, from a secret that has
  one, or none does, and then the generated seed is not deleted and no second
  configuration inherits it. A deleted seed is made anew; a re-created configuration
  adopts its predecessor's seed without becoming its owner, and loses it to the
  garbage collector; a spec that turns from one source to the other changes the
  key. In each case the JWTs of accounts keep the old issuer, because
  `reconcileAccount` returns before it looks at the operator's key.
- `ServersKept`: nothing watches the object the servers mount if it is deleted, and the
  status says `Ready` until the next periodic reconciliation. (`Settle` checks that it
  is made again.)
- `"operator" \notin Accounts`: the JWT of an account of that name takes the place of the
  operator's own in the aggregate.

**Only model-checked.** `Settles`, `UsersServed` and `CredentialsSettle` are liveness under
fairness, which is outside the proof system's reach. Three safety properties hold
in their runs but not for every value of the constants, so there is no theorem:

- `ReadyMeansSound` (`Shared`, where the informer of accounts does not lag and nobody
  deletes secrets): a stale `NatsAccount` has its seed replaced while the status says
  `Ready`, and a deleted secret leaves `Ready` behind until it is made again. What holds
  without exception is `MismatchAttended`.
- `PublishedAsAnnounced` (`Modes`): next to that stale copy, a lagging account secret
  breaks it. A seed is stored, the process ends before its ID is announced, the
  restarted account controller replaces the seed and announces the new ID; the
  configuration controller sees that ID next to the old secret and publishes the
  old JWT. Unlike a user's JWT it is replaced at the next reconciliation. `Modes`
  shows that without lag the reads of `collectAccountJWTs` one after the other do no
  harm: they read the ID before the secret, and a settled key stays.
- `SignedByAccount` (`Users`): with a lagging account secret `StaleSeed` violates it; an
  account that is re-keyed leaves its users' JWTs behind (`natsuser_controller.go:170`),
  and so does an edited `spec.accountRef`.

## 7. Not modelled

- The auth.conf renderer: pure text. Outside tests it is only called with an empty
  user list (`natsauthconfig_controller.go:241`), although the comment at 240 says
  that users will be added by the NatsUser controller, so what is published is the
  empty string.
- The resolver directory builder: pure, and called by its tests only.
- Generated deep copies, CRDs, chart, samples.
- Of the manager: flags, probes and leader election. The flag `--leader-elect` is
  off by default in the binary and on in the chart; the model assumes a single
  replica. RBAC denials are not modelled.
- More than one namespace or configuration. (An account named `operator` is a value of
  `Accounts` the theorems allow unless they say otherwise; no run has one.)
- Key prefixes: a seed of the wrong kind in an imported secret.

## 8. Plan

Done: all three controllers, alone and together, the refinements of
`AccountIdentity` and `UserIdentity`, their runs, and a theorem for every safety
property that holds without assumptions on informers. Left:

1. Pure operators against reference definitions: limits through `omitempty` and
   defaults field by field, the merge of `Data` and `StringData`, the file layout of
   the resolver directory.
2. Several namespaces in `collectAccountJWTs`.
3. Liveness of accounts when the configuration's informer lags.
