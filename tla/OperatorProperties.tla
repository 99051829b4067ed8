------------------------- MODULE OperatorProperties -------------------------
(***************************************************************************)
(* What the operator is to guarantee, and the fairness its runtime gives.  *)
(***************************************************************************)
EXTENDS NatsAuthOperator

Operating == AccountStep \/ ConfigStep

-----------------------------------------------------------------------------
(* Users' specifications.                                                  *)

(* What the server holds of o in a step is what users put there: the       *)
(* object is not brought back, and its identity, deletion and spec are     *)
(* kept, and an object is removed only when users deleted it. A limit of 0 *)
(* is the exception: every full update has the server replace it by the    *)
(* default.                                                                *)
SpecKept(o, v, w) ==
  /\ w = Absent /\ v # Absent => v.deleting
  /\ w # Absent =>
       /\ v # Absent
       /\ w.uid = v.uid /\ w.deleting = v.deleting
       /\ IF o = AuthConfig THEN w.spec = v.spec
                            ELSE w.limits \in {v.limits, Resent(v.limits)}

(* A reconciler that works from a stale copy never overwrites an edit, a   *)
(* deletion or a re-creation of the object it reconciles or triggers, and  *)
(* never removes the finalizer of an object that was re-created meanwhile  *)
(* (r.Update and Status().Update in both controllers).                     *)
UsersWin ==
  [][Operating => \A o \in Requests : SpecKept(o, store[o], store'[o])]_vars

-----------------------------------------------------------------------------
(* Scheduling.                                                             *)

EventPending(o) == o \notin current["cache"]
InHand(r) == IF r = AuthConfig THEN cpc # "idle" ELSE areq = r[2]

(* An object that exists is never forgotten: as long as the process runs,  *)
(* its request is queued, waits for a timer, is being reconciled, or an    *)
(* event for it is still to be delivered. (A Reconcile that returns an     *)
(* empty Result and no error must have seen the last of its object.)       *)
NothingForgotten ==
  process = "running" =>
    \A r \in Requests : Exists(r) =>
      r \in due \/ timer[r] # "none" \/ InHand(r) \/ EventPending(r)

-----------------------------------------------------------------------------
(* Accounts' identities.                                                   *)

(* reconcileAccount replaces a stored seed whose public key the account's  *)
(* status announces only if the copy of the account it works from is out   *)
(* of date, and then it does not announce the new one (its status update   *)
(* is refused): natsaccount_controller.go:59, 155-184.                     *)
AnnouncedSeedKept ==
  [][Operating => \A a \in Accounts :
       LET before == store[JWTSecret(a)]
           after  == store'[JWTSecret(a)]
       IN  before # Absent /\ after # Absent /\ after # before /\ before.seed # NoKey
             /\ Exists(Account(a))
           => \/ before.seed = after.seed
              \/ store[Account(a)].id # before.seed
              \/ Account(a) \notin current["account"]]_vars

(* The account ID of an account object is given up for another one only    *)
(* after the seed it stands for is gone: its secret was deleted, or the    *)
(* seed in it was replaced (README.md:287; natsaccount_controller.go:155,  *)
(* 249, 138).                                                              *)
IdentityKept ==
  [][\A a \in Accounts :
       Exists(Account(a)) /\ store'[Account(a)] # Absent
         /\ store'[Account(a)].uid = store[Account(a)].uid
         /\ store[Account(a)].id # NoKey
         /\ store'[Account(a)].id # store[Account(a)].id
       => ~Exists(JWTSecret(a)) \/ store[JWTSecret(a)].seed # store[Account(a)].id]_vars

Sound(a) ==
  /\ Exists(JWTSecret(a))
  /\ store[JWTSecret(a)].seed = store[Account(a)].id
  /\ store[JWTSecret(a)].jwt.sub = store[Account(a)].id

(* Ready says that the secret with the announced identity is there.        *)
ReadyMeansSound ==
  \A a \in Accounts : Exists(Account(a)) /\ store[Account(a)].ready => Sound(a)

(* The whole operator implements the abstract life of an account's key     *)
(* (AccountIdentity): the secret holds the key, the status announces it. A *)
(* reconciliation is informed while its copy of the account is the newest. *)
Identity == INSTANCE AccountIdentity WITH
  Keys      <- AccountKeys,
  None      <- Absent,
  alive     <- [a \in Accounts |-> Exists(Account(a))],
  stored    <- [a \in Accounts |->
                 IF Exists(JWTSecret(a)) THEN store[JWTSecret(a)].seed ELSE Absent],
  announced <- [a \in Accounts |-> IF Exists(Account(a)) THEN store[Account(a)].id ELSE NoKey],
  ready     <- [a \in Accounts |-> Exists(Account(a)) /\ store[Account(a)].ready],
  informed  <- [a \in Accounts |-> Account(a) \in current["account"]]

(* natsaccount_controller.go:147-267, with its retries, crashes, stale     *)
(* reads, deletions and re-creations, chooses, announces and gives up keys *)
(* as AccountIdentity says.                                                *)
IdentityRefined == Identity!Spec

(* When the announced ID is not that of the stored seed, somebody is about *)
(* to notice: the request is queued, an event for it is on its way, or it  *)
(* is being reconciled. No repair waits for the five-minute timer.         *)
Attended(a) ==
  \/ process # "running"
  \/ areq = a
  \/ Account(a) \in due \/ timer[Account(a)] = "backoff"
  \/ EventPending(Account(a)) \/ EventPending(JWTSecret(a))

MismatchAttended ==
  \A a \in Accounts : Exists(Account(a)) /\ ~Sound(a) => Attended(a)

-----------------------------------------------------------------------------
(* The aggregate and the operator's key.                                   *)

StoredOperator ==
  LET source == OperatorSource(store[AuthConfig].spec)
  IN  IF Exists(source) THEN store[source].key ELSE NoKey

Published == IF Exists(ServerSecret) THEN store[ServerSecret].jwts
                                     ELSE [n \in Entries |-> Absent]

(* Everything that was ever signed or published, was signed by the key in  *)
(* the operator's seed secret, whichever of the two controllers came first *)
(* and whatever answer of the API server was lost.                         *)
OneOperator ==
  Exists(AuthConfig) =>
    /\ \A a \in Accounts : Exists(JWTSecret(a)) => store[JWTSecret(a)].jwt.iss = StoredOperator
    /\ \A n \in Entries : Published[n] # Absent => Published[n].iss = StoredOperator
    /\ store[AuthConfig].pub \in {NoKey, StoredOperator}

(* A configuration that is Ready for its current spec has written what its *)
(* mode writes: the operator's JWT in a Secret in jwt and mixed mode,      *)
(* auth.conf in an object of the kind the spec names in token mode. The    *)
(* status is never the verdict on an earlier spec                          *)
(* (natsauthconfig_controller.go:95-138, 200-252).                         *)
ReadyMeansPublished ==
  LET conf == store[AuthConfig] IN
  Exists(AuthConfig) /\ conf.ready /\ conf.observed =>
    IF conf.spec.mode = "token"
      THEN Exists(Target(conf.spec)) /\ store[Target(conf.spec)].conf
      ELSE Published["operator"] # Absent

(* Between two reconciliations a Ready configuration announces the key the *)
(* servers were given, even when the seed was replaced, or imported,       *)
(* meanwhile (reconcileJWTMode, natsauthconfig_controller.go:167-231).     *)
OperatorAnnounced ==
  LET conf == store[AuthConfig] IN
  Exists(AuthConfig) /\ conf.ready /\ conf.observed /\ conf.spec.mode # "token"
    /\ process = "running" /\ cpc = "idle" /\ AuthConfig \notin due
    /\ timer[AuthConfig] # "backoff"
    => Published["operator"] # Absent /\ Published["operator"].sub = conf.pub

(* A JWT the servers are given for an account is about the ID which that   *)
(* account announces: the list of accounts, the secret of each and the     *)
(* secret to update are read one after the other, the account controller   *)
(* stores and announces keys between these reads, and may sign an account  *)
(* twice before it announces a key (collectAccountJWTs,                    *)
(* natsauthconfig_controller.go:200-222, 270-322).                         *)
PublishedAsAnnounced ==
  \A a \in Accounts :
    Exists(Account(a)) /\ Published[a] # Absent =>
      Published[a].sub = store[Account(a)].id

(* Only the periodic timers are left to do anything.                       *)
Quiet ==
  /\ process = "running" /\ apc = "idle" /\ cpc = "idle" /\ due = {}
  /\ \A r \in Requests : timer[r] # "backoff"
  /\ \A o \in Objects : ~EventPending(o)

Announced(a) ==
  Exists(Account(a)) /\ ~store[Account(a)].deleting /\ store[Account(a)].ready

(* "Update status first (so the NatsAuthConfig controller can find it)"    *)
(* (natsaccount_controller.go:252): the reconciliation the trigger causes  *)
(* finds the account, so that nothing is missing when all is quiet.        *)
TriggerFindsAccount ==
  Quiet => \A a \in Accounts :
    Announced(a) /\ Exists(AuthConfig) => Published[a] = store[JWTSecret(a)].jwt

(* A spec without a jwt section is answered with a status condition        *)
(* ("JWT configuration is required for JWT or mixed mode",                 *)
(* natsauthconfig_controller.go:144), not with the end of the process.     *)
NoPanic == process # "panicked"

-----------------------------------------------------------------------------
(* Eventually.                                                             *)

(* Informers deliver, timers fire, the collector collects, the kubelet     *)
(* restarts the process, and a worker that started a reconciliation        *)
(* finishes it. The queue is fair to its requests.                         *)
Lagging == {o \in Objects : o[1] \in Lag}
Owned   == {o \in Objects : o[1] \in {"account-jwt", "operator-seed"}}
Fairness ==
  /\ \A o \in Lagging : WF_vars(Deliver(o) /\ UNCHANGED <<accountWorker, configWorker>>)
  /\ \A r \in Requests : WF_vars(TimerFires(r) /\ UNCHANGED <<accountWorker, configWorker>>)
  /\ \A o \in Owned : WF_vars(CollectGarbage(o) /\ UNCHANGED <<accountWorker, configWorker>>)
  /\ WF_vars(Restart)
  /\ WF_vars(AccountStep)
  /\ WF_vars(ConfigStep)
  /\ \A a \in Accounts : SF_vars(FetchAccount(a) /\ UNCHANGED configWorker)

FairSpec == Spec /\ Fairness

(* The servers can verify exactly the accounts that exist.                 *)
Converged ==
  \A a \in Accounts :
    IF Exists(Account(a)) /\ ~store[Account(a)].deleting
      THEN Sound(a) /\ Published[a] = store[JWTSecret(a)].jwt
      ELSE Published[a] = Absent /\ ~Exists(Account(a)) /\ ~Exists(JWTSecret(a))

(* Once users and failures leave it alone, the operator publishes every    *)
(* account and withdraws every deleted one, and it stays so.               *)
Settles == <>[]Converged

=============================================================================
