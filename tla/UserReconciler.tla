--------------------------- MODULE UserReconciler ---------------------------
(***************************************************************************)
(* NatsUserReconciler (natsuser_controller.go) with the objects only it    *)
(* works on: the users, their credentials, and the secrets their specs     *)
(* refer to. It reads the configuration and the accounts of Cluster and    *)
(* writes neither, so its objects form an API server of their own, U.      *)
(***************************************************************************)
EXTENDS Cluster

CONSTANTS
  Users,             \* names of NatsUser objects
  UserSpecs,         \* specs a NatsUser may be given
  Permissions,       \* values spec.permissions may have
  UserKeys,          \* pool of user key pairs, a number each
  Random,            \* pool of random strings, a number each
  Chosen,            \* strings that users choose
  ImportableUserSeeds,   \* what a user may put in a secret a NatsUser imports
  StoredPasswords,   \* what users may put in a secret a NatsUser refers to
  UserLag,           \* kinds of user object whose informer may lag
  UserDisturbances,  \* what users and the network may do to them
  UserBudget         \* how often

User(u)         == <<"NatsUser", u>>
Credentials(u)  == <<"user-creds", u>>      \* <name>-user-creds
UserSeed(u)     == <<"user-seed", u>>       \* spec.existingSeedSecret
PasswordOf(u)   == <<"user-password", u>>   \* spec.passwordFrom.secretRef

UserRequests == {User(u) : u \in Users}
UserObjects  ==
  UserRequests \cup {Credentials(u) : u \in Users}
    \cup {UserSeed(u) : u \in Users} \cup {PasswordOf(u) : u \in Users}

(* "look": the credentials as the first look found them (:165).            *)
UserHolders == {"cache", "worker", "look"}
UserSeeds   == UserKeys \cup {NoKey}
Strings     == Random \cup Chosen \cup {NoKey}

(* A user JWT, which names the key of the account that signed it, and the  *)
(* seed stored next to it; and what a token user is given.                 *)
UserJWT   == [seed : UserSeeds, sub : UserSeeds, iss : Seeds, perms : Permissions]
UserToken == [name : Strings, password : Strings]
KeyPairs  == [seed : UserSeeds, pub : UserSeeds]

UserObject ==
  [uid : 0..UserBudget, deleting : BOOLEAN, fin : BOOLEAN, spec : UserSpecs,
   pub : UserSeeds, state : {"Pending", "Ready", "Error"},
   ready : BOOLEAN, observed : BOOLEAN]
UserCredentials ==
  [owner : 0..UserBudget, jwt : UserJWT \cup {Absent}, token : UserToken \cup {Absent}]

UserContent(o) ==
  CASE o[1] = "NatsUser"   -> UserObject
    [] o[1] = "user-creds" -> UserCredentials
    [] o[1] = "user-seed"  -> [seed : UserSeeds]
    [] OTHER               -> [password : Strings]

(* What a spec of a user may say: an account or none, a username or none,  *)
(* and where the password comes from ("neither": passwordFrom is empty).   *)
ASSUME UserSpecAssumption ==
  /\ UserSpecs \subseteq
       [auth : {"jwt", "token", "inherit"}, account : Accounts \cup {Absent},
        import : BOOLEAN, perms : Permissions, name : Chosen \cup {NoKey},
        password : {"generate", "secret", "neither"}]
  /\ ImportableUserSeeds \subseteq UserSeeds
  /\ StoredPasswords \subseteq Chosen \cup {NoKey}
  /\ UserBudget \in Nat

(* NoKey is no key and no random string.                                   *)
ASSUME UserKeyAssumption == NoKey \notin UserKeys \cup Random

(* An absent object is not one.                                            *)
ASSUME UserAbsentAssumption ==
  /\ Absent \notin Users /\ Absent \notin UserKeys
  /\ Absent \notin UserJWT \cup UserToken \cup KeyPairs
  /\ \A o \in UserObjects : Absent \notin UserContent(o)

VARIABLES
  ustore, ucache, ucurrent, udue, utimer, ubudget,   \* as in ApiServer
  upc,     \* what Reconcile is about to do, or "idle"
  ureq,    \* name of the user being reconciled, Absent when idle
  uobj,    \* user: the copy of the NatsUser in memory
  ukey,    \* userMgr: the key pair to be signed for
  udraft,  \* the secret about to be stored
  uerr     \* Reconcile is about to return an error

userCluster == <<ustore, ucache, ucurrent, udue, utimer, ubudget>>
userWorker  == <<upc, ureq, uobj, ukey, udraft, uerr>>
userVars    == <<userCluster, userWorker>>

(* Mutant: the controller watches no secrets (Owns left out).              *)
UserWatchersOfOwn(o) == IF o[1] = "NatsUser" THEN {o} ELSE {}

(* For() and Owns(): the credentials are watched, imports are not.         *)
UserWatchers(o) == IF o[1] \in {"NatsUser", "user-creds"} THEN {User(o[2])} ELSE {}

(* Any save of a status may fall into the second of the save before it.    *)
AnySecond(h, o) == TRUE

U == INSTANCE ApiServer WITH
       Objects <- UserObjects, Requests <- UserRequests, Holders <- UserHolders,
       Watchers <- UserWatchers, SameSecond <- AnySecond, Lag <- UserLag,
       Disturbances <- UserDisturbances,
       store <- ustore, cache <- ucache, current <- ucurrent,
       due <- udue, timer <- utimer, budget <- ubudget

UserSteps == {"idle", "finalize", "read", "sign", "create", "update", "status", "release"}

UserTypeOK ==
  /\ DOMAIN ustore = UserObjects /\ DOMAIN ucache = UserObjects
  /\ \A o \in UserObjects : ustore[o] \in UserContent(o) \cup {Absent}
  /\ \A o \in UserObjects : ucache[o] \in UserContent(o) \cup {Absent}
  /\ ucurrent \in [UserHolders -> SUBSET UserObjects]
  /\ udue \subseteq UserRequests
  /\ utimer \in [UserRequests -> Timers]
  /\ ubudget \in 0..UserBudget
  /\ upc \in UserSteps
  /\ ureq \in Users \cup {Absent}
  /\ uobj \in UserObject \cup {Absent}
  /\ ukey \in KeyPairs \cup {Absent}
  /\ udraft \in UserCredentials \cup {Absent}
  /\ uerr \in BOOLEAN
  /\ upc # "idle" => ureq \in Users /\ uobj \in UserObject
  /\ upc = "sign" => ukey # Absent /\ uobj.spec.account \in Accounts
  /\ upc \in {"create", "update"} => udraft # Absent

-----------------------------------------------------------------------------
(* What Reconcile computes.                                                *)

AuthTypeOf(spec, conf) == IF spec.auth = "inherit" THEN conf.spec.mode ELSE spec.auth

(* Mutant: an account that exists is taken for ready.                      *)
AccountExists(spec) == spec.account # Absent /\ Cached(Account(spec.account)) # Absent

(* The account exists and announces an ID.                                 *)
AccountReady(spec) ==
  /\ spec.account # Absent
  /\ Cached(Account(spec.account)) # Absent
  /\ Cached(Account(spec.account)).id # NoKey

(* Mutant: credentials are made anew at every reconciliation.              *)
NeverKept(obj, secret) == FALSE

(* "User credentials already exist, skipping regeneration"                 *)
HasCredentials(obj, secret) == obj.pub # NoKey /\ secret # Absent /\ secret.jwt # Absent

(* A secret the spec refers to is not there.                               *)
UserSeedMissing(u, spec) == spec.import /\ U!Cached(UserSeed(u)) = Absent
PasswordMissing(u, spec) == spec.password = "secret" /\ U!Cached(PasswordOf(u)) = Absent

(* getOrCreateUserSeed and NewUserManager: imported, or new; never the     *)
(* stored one. An empty seed makes the manager generate a key pair.        *)
KeyPairFor(u, spec, fresh) ==
  LET seed == IF spec.import THEN U!Cached(UserSeed(u)).seed ELSE fresh
  IN  [seed |-> seed, pub |-> KeyOf(seed, fresh)]

(* The JWT, signed with the seed of the account. Signed with an empty one, *)
(* its issuer is a key pair made on the spot that nobody keeps: NoKey.     *)
JWTFor(obj, key, accountSeed) ==
  [seed |-> key.seed, sub |-> key.pub, iss |-> accountSeed, perms |-> obj.spec.perms]

(* Mutant: the secret the spec refers to is ignored.                       *)
DrawnPassword(u, spec, random) == random

(* Username and password; one draw stands for the random strings.          *)
PasswordFor(u, spec, random) ==
  CASE spec.password = "generate" -> random
    [] spec.password = "secret"   -> U!Cached(PasswordOf(u)).password
    [] OTHER                      -> NoKey
TokenFor(u, spec, random) ==
  [name |-> IF spec.name = NoKey THEN random ELSE spec.name,
   password |-> PasswordFor(u, spec, random)]

FailedUser(obj) == [obj EXCEPT !.state = "Error", !.ready = FALSE, !.observed = TRUE]
ServedUser(obj) == [obj EXCEPT !.state = "Ready", !.ready = TRUE, !.observed = TRUE]

-----------------------------------------------------------------------------
(* How a step of Reconcile ends.                                           *)

UserProceeds(pc, obj, key, draft, err) ==
  /\ upc' = pc /\ uobj' = obj /\ ukey' = key /\ udraft' = draft /\ uerr' = err
  /\ UNCHANGED <<ureq, utimer>>

(* Mutant: after the error Reconcile goes on.                              *)
UserCarriesOn(obj) == UserProceeds("create", FailedUser(obj), Absent, Absent, TRUE)

(* Mutant: the key is announced although its secret was not stored.        *)
UserFailsAnnouncing(obj) ==
  UserProceeds("status", FailedUser(IF ukey = Absent THEN obj ELSE [obj EXCEPT !.pub = ukey.pub]),
               Absent, Absent, TRUE)

UserFails(obj) == UserProceeds("status", FailedUser(obj), Absent, Absent, TRUE)
UserServed(obj) == UserProceeds("status", ServedUser(obj), Absent, Absent, FALSE)

UserIdle ==
  /\ upc = "idle" /\ ureq = Absent /\ uobj = Absent
  /\ ukey = Absent /\ udraft = Absent /\ uerr = FALSE
UserReturns ==
  /\ upc' = "idle" /\ ureq' = Absent /\ uobj' = Absent
  /\ ukey' = Absent /\ udraft' = Absent /\ uerr' = FALSE

UserForgets == UserReturns /\ UNCHANGED utimer
UserRetries == UserReturns /\ U!Backoff(User(ureq))
UserWaits   == UserReturns /\ U!RequeueAfter(User(ureq))

-----------------------------------------------------------------------------
(* Reconcile, from its Get to the first write.                             *)
FetchUser(u) ==
  /\ process = "running"
  /\ upc = "idle" /\ User(u) \in udue
  /\ udue' = udue \ {User(u)}
  /\ UNCHANGED <<ustore, ucache, utimer, ubudget, process, ukey, udraft, uerr>>
  /\ LET obj == U!Cached(User(u)) IN
     \/ /\ obj = Absent
        /\ UNCHANGED <<ucurrent, upc, ureq, uobj>>
     \/ /\ obj # Absent
        /\ ureq' = u /\ uobj' = obj
        /\ upc' = IF obj.deleting THEN "release" ELSE IF obj.fin THEN "read" ELSE "finalize"
        /\ U!Got("worker", {}, {User(u)})

(* AddFinalizer and Update; the answer replaces the copy in memory.        *)
FinalizeUser ==
  /\ process = "running"
  /\ upc = "finalize"
  /\ LET obj == [uobj EXCEPT !.fin = TRUE]
     IN  U!Update("worker", User(ureq), obj, {User(ureq)},
                  UserProceeds("read", obj, Absent, Absent, FALSE), UserRetries)

UserReads ==
  /\ process = "running"
  /\ upc = "read"
  /\ UNCHANGED <<ustore, ucache, udue, ubudget, process>>

(* The configuration is not found: the state is set, the condition is not. *)
MissConfig ==
  /\ UserReads
  /\ Cached(AuthConfig) = Absent
  /\ UserProceeds("status", [uobj EXCEPT !.state = "Error"], Absent, Absent, TRUE)
  /\ U!Got("worker", {User(ureq)}, {})

(* The mode of the user's configuration, once that is known.               *)
UserReadsMode(mode) ==
  /\ UserReads
  /\ Cached(AuthConfig) # Absent
  /\ AuthTypeOf(uobj.spec, Cached(AuthConfig)) = mode

(* A mode no user can have, or something the user needs is not there yet.  *)
RejectUser ==
  /\ \/ UserReadsMode("mixed")
     \/ /\ UserReadsMode("jwt")
        /\ \/ ~AccountReady(uobj.spec)
           \/ /\ ~HasCredentials(uobj, U!Cached(Credentials(ureq)))
              /\ UserSeedMissing(ureq, uobj.spec)
     \/ UserReadsMode("token") /\ PasswordMissing(ureq, uobj.spec)
  /\ UserFails(uobj)
  /\ U!Got("worker", {User(ureq)}, {})

SkipUser ==
  /\ UserReadsMode("jwt")
  /\ AccountReady(uobj.spec)
  /\ HasCredentials(uobj, U!Cached(Credentials(ureq)))
  /\ UserServed(uobj)
  /\ U!Got("worker", {User(ureq)}, {})

(* The key pair of a JWT user; the account's seed is read afterwards.      *)
ChooseUserKey(keys) ==
  /\ UserReadsMode("jwt")
  /\ AccountReady(uobj.spec)
  /\ ~HasCredentials(uobj, U!Cached(Credentials(ureq)))
  /\ ~UserSeedMissing(ureq, uobj.spec)
  /\ \E key \in keys :
       UserProceeds("sign", uobj, KeyPairFor(ureq, uobj.spec, key), Absent, FALSE)
  /\ ucurrent' = [ucurrent EXCEPT
       !["worker"] = @ \cap {User(ureq)},
       !["look"] = {o \in {Credentials(ureq)} : U!UpToDate(o)}]

(* A secret that exists keeps its owner; a JWT replaces all of its data,   *)
(* a token is merged into them (StringData).                               *)
DraftJWT(jwt, secret) ==
  [owner |-> IF secret = Absent THEN uobj.uid ELSE secret.owner, jwt |-> jwt, token |-> Absent]
DraftToken(token, secret) ==
  IF secret = Absent THEN [owner |-> uobj.uid, jwt |-> Absent, token |-> token]
                     ELSE [secret EXCEPT !.token = token]
StepFor(secret) == IF secret = Absent THEN "create" ELSE "update"

(* getAccountSeed, SignUserJWT, and the second look for the secret.        *)
SignUser ==
  /\ process = "running"
  /\ upc = "sign"
  /\ LET signer == Cached(JWTSecret(uobj.spec.account))
         secret == U!Cached(Credentials(ureq))
     IN  \/ /\ signer = Absent
            /\ UserFails(uobj)
            /\ U!Got("worker", {User(ureq)}, {})
         \/ /\ signer # Absent
            /\ UserProceeds(StepFor(secret), uobj, ukey,
                            DraftJWT(JWTFor(uobj, ukey, signer.seed), secret), FALSE)
            /\ U!Got("worker", {User(ureq)}, {Credentials(ureq)})
  /\ UNCHANGED <<ustore, ucache, udue, ubudget, process>>

(* reconcileTokenUser, up to the write of a secret that has to change.     *)
IssueToken(strings) ==
  /\ UserReadsMode("token")
  /\ ~PasswordMissing(ureq, uobj.spec)
  /\ \E random \in strings :
       LET token  == TokenFor(ureq, uobj.spec, random)
           secret == U!Cached(Credentials(ureq))
       IN  IF secret # Absent /\ secret.token = token
             THEN UserServed(uobj)
             ELSE UserProceeds(StepFor(secret), uobj, Absent, DraftToken(token, secret), FALSE)
  /\ U!Got("worker", {User(ureq)}, {Credentials(ureq)})

(* user.Status.PublicKey, in memory: that of the key pair a JWT was signed *)
(* for, once its secret is stored.                                         *)
WithKey(obj) == IF ukey = Absent THEN obj ELSE [obj EXCEPT !.pub = ukey.pub]

(* Create or Update of the secret.                                         *)
StoreCredentials ==
  /\ process = "running"
  /\ LET ok == UserServed(WithKey(uobj))
     IN  \/ /\ upc = "create"
            /\ U!Create("worker", Credentials(ureq), udraft, {User(ureq)}, ok, UserFails(uobj))
         \/ /\ upc = "update"
            /\ U!Update("worker", Credentials(ureq), udraft, {User(ureq)}, ok, UserFails(uobj))

(* Status().Update: the status of the copy in memory, nothing else.        *)
SaveUserStatus ==
  /\ process = "running"
  /\ upc = "status"
  /\ LET saved == [ustore[User(ureq)] EXCEPT !.pub = uobj.pub, !.state = uobj.state,
                     !.ready = uobj.ready, !.observed = uobj.observed]
     IN  U!Update("worker", User(ureq), saved, {},
                  IF uerr THEN UserRetries ELSE UserWaits, UserRetries)

(* handleDeletion: the finalizer goes, the secret is left to the collector. *)
ReleaseUser ==
  /\ process = "running"
  /\ upc = "release"
  /\ U!Update("worker", User(ureq), Absent, {}, UserForgets, UserRetries)

UserReconcile(keys, strings) ==
  \/ \E u \in Users : FetchUser(u)
  \/ FinalizeUser
  \/ MissConfig
  \/ RejectUser
  \/ SkipUser
  \/ ChooseUserKey(keys)
  \/ SignUser
  \/ IssueToken(strings)
  \/ StoreCredentials
  \/ SaveUserStatus
  \/ ReleaseUser

-----------------------------------------------------------------------------
(* Those who write NatsUser objects and the secrets these refer to.        *)

NewUser(uid, s) ==
  [uid |-> uid, deleting |-> FALSE, fin |-> FALSE, spec |-> s, pub |-> NoKey,
   state |-> "Pending", ready |-> FALSE, observed |-> FALSE]

EditUser(u, s) ==
  /\ U!Exists(User(u)) /\ ~ustore[User(u)].deleting
  /\ ustore[User(u)].spec # s
  /\ U!ByUser("editUser", User(u), [ustore[User(u)] EXCEPT !.spec = s, !.observed = FALSE])

CreateUser(u, s) ==
  ~U!Exists(User(u)) /\ U!ByUser("createUser", User(u), NewUser(ubudget', s))

DeleteCredentials(u) ==
  U!Exists(Credentials(u)) /\ U!ByUser("user-creds", Credentials(u), Absent)

ChangePassword(u, p) ==
  /\ U!Exists(PasswordOf(u)) /\ ustore[PasswordOf(u)].password # p
  /\ U!ByUser("password", PasswordOf(u), [password |-> p])

(* The garbage collector removes credentials whose user is gone.           *)
CollectCredentials(u) ==
  /\ U!Exists(Credentials(u))
  /\ U!Exists(User(u)) => ustore[User(u)].uid # ustore[Credentials(u)].owner
  /\ U!Put("gc", Credentials(u), Absent, {})
  /\ UNCHANGED <<ucache, utimer, process, ubudget>>

UserEnvironment ==
  \/ \E u \in Users, s \in UserSpecs : EditUser(u, s) \/ CreateUser(u, s)
  \/ \E u \in Users : U!Delete("deleteUser", User(u)) \/ DeleteCredentials(u)
  \/ \E u \in Users, p \in StoredPasswords : ChangePassword(u, p)
  \/ \E u \in Users : CollectCredentials(u)

UserInformers ==
  (\E o \in UserObjects : U!Deliver(o)) \/ (\E r \in UserRequests : U!TimerFires(r))

(* The users' objects have just been created, or will be later; what their *)
(* specs refer to is there. Passwords are alike: the first is the least.   *)
UserInit ==
  /\ \E s \in [Users -> UserSpecs], i \in [Users -> ImportableUserSeeds],
        p \in [Users -> Fresh(StoredPasswords, {})],
        later \in SUBSET (IF "createUser" \in UserDisturbances THEN Users ELSE {}) :
       ustore = [o \in UserObjects |->
         CASE o[1] = "NatsUser"      -> IF o[2] \in later THEN Absent
                                          ELSE NewUser(UserBudget, s[o[2]])
           [] o[1] = "user-seed"     -> IF \E t \in UserSpecs : t.import
                                          THEN [seed |-> i[o[2]]] ELSE Absent
           [] o[1] = "user-password" -> IF \E t \in UserSpecs : t.password = "secret"
                                          THEN [password |-> p[o[2]]] ELSE Absent
           [] OTHER                  -> Absent]
  /\ ucache = [o \in UserObjects |-> Absent]
  /\ ucurrent = [h \in UserHolders |->
       IF h = "cache" THEN {o \in UserObjects : o[1] \in UserLag => ustore[o] = Absent} ELSE {}]
  /\ udue = {r \in UserRequests : r[1] \notin UserLag /\ U!Exists(r)}
  /\ utimer = [r \in UserRequests |-> "none"]
  /\ ubudget = UserBudget
  /\ UserIdle

=============================================================================
