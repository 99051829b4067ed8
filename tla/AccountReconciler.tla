------------------------- MODULE AccountReconciler -------------------------
(***************************************************************************)
(* NatsAccountReconciler (natsaccount_controller.go): one worker takes a   *)
(* request from the queue and runs Reconcile. A step ends at each write to *)
(* the API server; the reads between two writes come from the informers    *)
(* and form one step, because an informer that lags gives the same values  *)
(* as a read made earlier.                                                 *)
(***************************************************************************)
EXTENDS Cluster

VARIABLES
  apc,     \* the write Reconcile is about to make, or "idle"
  areq,    \* name of the account being reconciled, Absent when idle
  aobj,    \* account: the copy of the NatsAccount in memory
  aconf,   \* authConfig: the copy of the NatsAuthConfig in memory
  adraft,  \* the secret about to be stored
  aerr     \* Reconcile is about to return an error

accountWorker == <<apc, areq, aobj, aconf, adraft, aerr>>

AccountSteps == {"idle", "finalize", "read", "create", "update", "trigger",
                 "status", "untrigger", "release"}

AccountWorkerTypeOK ==
  /\ apc \in AccountSteps
  /\ areq \in Accounts \cup {Absent}
  /\ aobj \in AccountObject \cup {Absent}
  /\ aconf \in ConfigObject \cup {Absent}
  /\ adraft \in AccountSecret \cup {Absent}
  /\ aerr \in BOOLEAN
  /\ apc # "idle" => areq \in Accounts /\ aobj \in AccountObject
  /\ apc \in {"trigger", "untrigger"} => aconf \in ConfigObject
  /\ apc \in {"create", "update"} => adraft \in AccountSecret /\ aconf \in ConfigObject

AccountIdle ==
  /\ apc = "idle" /\ areq = Absent /\ aobj = Absent
  /\ aconf = Absent /\ adraft = Absent /\ aerr = FALSE

-----------------------------------------------------------------------------
(* What Reconcile computes.                                                *)

(* r.Update sends the whole object. A limit that is 0 or false is left out *)
(* (omitempty) and the server fills in the default of the CRD, unlimited.  *)
Resent(l) == IF l = "zero" THEN "unlimited" ELSE l
Serialised(obj) ==
  [obj EXCEPT !.limits = Resent(@), !.observed = @ /\ Resent(obj.limits) = obj.limits]

(* The configuration exists and its mode is jwt or mixed.                  *)
SupportsAccounts(conf) == conf # Absent /\ conf.spec.mode # "token"

(* Mutant: a secret that exists is taken for the account's.                *)
SecretIsThere(obj, secret) == secret # Absent

(* The stored seed is the one the status announces.                        *)
MatchesStatus(obj, secret) ==
  /\ secret # Absent
  /\ obj.id # NoKey
  /\ secret.seed # NoKey
  /\ secret.seed = obj.id

Failed(obj) == [obj EXCEPT !.ready = FALSE]
Succeeded(obj) == [obj EXCEPT !.ready = TRUE, !.observed = TRUE]

(* getOperatorSeed: the secret that holds the operator's key.              *)
OperatorSource(spec) == IF spec.jwt = "import" THEN ImportedOperator ELSE OperatorSeed

(* A secret reconcileAccount has to read is not there (or lacks its key).  *)
SeedMissing(a, spec) ==
  \/ a \in Imports /\ Cached(ImportedSeed(a)) = Absent
  \/ spec.jwt # "none" /\ Cached(OperatorSource(spec)) = Absent

(* getOrCreateAccountSeed: imported, or new; never the stored one.         *)
SeedFor(a, fresh) == IF a \in Imports THEN Cached(ImportedSeed(a)).seed ELSE fresh

(* SignAccountJWT of the claims made from the spec, stored with the seed.  *)
(* An existing secret keeps its owner, a new one is owned by the account.  *)
SignedSecret(obj, owner, seed, signer, fresh) ==
  [owner |-> owner, seed |-> seed,
   jwt |-> [sub |-> KeyOf(seed, fresh), iss |-> signer, limits |-> obj.limits]]

-----------------------------------------------------------------------------
(* How a step of Reconcile ends.                                           *)

Proceed(pc, obj, conf, draft, err) ==
  /\ apc' = pc /\ aobj' = obj /\ aconf' = conf /\ adraft' = draft /\ aerr' = err
  /\ UNCHANGED <<areq, timer>>

(* Mutant: after the error Reconcile goes on, without a configuration.     *)
CarryOn(obj) == Proceed("trigger", Failed(obj), Absent, Absent, TRUE)

(* reconcileAccount returned an error: Ready becomes False in memory.      *)
GiveUp(obj) == Proceed("status", Failed(obj), Absent, Absent, TRUE)

AccountReturns ==
  /\ apc' = "idle" /\ areq' = Absent /\ aobj' = Absent
  /\ aconf' = Absent /\ adraft' = Absent /\ aerr' = FALSE

(* return ctrl.Result{}, nil                                               *)
AccountForgets == AccountReturns /\ UNCHANGED timer

(* return ctrl.Result{}, err: the queue hands the request out again.       *)
AccountRetries ==
  AccountReturns /\ Backoff(Account(areq))

(* return ctrl.Result{RequeueAfter: ...}, nil                              *)
AccountWaits ==
  AccountReturns /\ RequeueAfter(Account(areq))

-----------------------------------------------------------------------------
(* Reconcile, from its Get to the first write.                             *)
FetchAccount(a) ==
  /\ process = "running"
  /\ apc = "idle" /\ Account(a) \in due
  /\ due' = due \ {Account(a)}
  /\ UNCHANGED <<store, cache, timer, process, budget, adraft, aerr>>
  /\ LET obj == Cached(Account(a)) IN
     \/ /\ obj = Absent
        /\ UNCHANGED <<current, apc, areq, aobj, aconf>>
     \/ /\ obj # Absent /\ obj.deleting
        /\ areq' = a /\ aobj' = obj
        /\ aconf' = Cached(AuthConfig)
        /\ apc' = IF aconf' = Absent THEN "release" ELSE "untrigger"
        /\ Got("account", {}, {Account(a), AuthConfig})
     \/ /\ obj # Absent /\ ~obj.deleting
        /\ areq' = a /\ aobj' = obj
        /\ apc' = IF obj.fin THEN "read" ELSE "finalize"
        /\ Got("account", {}, {Account(a)})
        /\ UNCHANGED aconf

(* AddFinalizer and Update; the answer replaces the copy in memory.        *)
FinalizeAccount ==
  /\ process = "running"
  /\ apc = "finalize"
  /\ LET obj == Serialised([aobj EXCEPT !.fin = TRUE])
     IN  Update("account", Account(areq), obj, {Account(areq)},
                Proceed("read", obj, Absent, Absent, FALSE), AccountRetries)

(* After the fetch Reconcile reads the configuration, the stored secret    *)
(* and what it needs for signing; four things can follow.                  *)
AccountReads ==
  /\ process = "running"
  /\ apc = "read"
  /\ UNCHANGED <<store, cache, due, budget>>

(* No configuration, one in token mode, or a seed secret not found.        *)
RejectAccount ==
  /\ AccountReads /\ UNCHANGED process
  /\ LET conf == Cached(AuthConfig)
     IN  SupportsAccounts(conf) =>
           ~MatchesStatus(aobj, Cached(JWTSecret(areq))) /\ SeedMissing(areq, conf.spec)
  /\ GiveUp(aobj)
  /\ Got("account", {Account(areq)}, {})

(* "JWT exists, status matches seed - no need to regenerate"               *)
SkipAccount ==
  /\ AccountReads /\ UNCHANGED process
  /\ SupportsAccounts(Cached(AuthConfig))
  /\ MatchesStatus(aobj, Cached(JWTSecret(areq)))
  /\ Proceed("status", Succeeded(aobj), Absent, Absent, FALSE)
  /\ Got("account", {Account(areq)}, {})

(* authConfig.Spec.JWT.OperatorSeedSecret with a nil JWT: the process dies. *)
PanicOnAccount ==
  /\ AccountReads
  /\ LET conf == Cached(AuthConfig) IN
     /\ SupportsAccounts(conf) /\ conf.spec.jwt = "none"
     /\ ~MatchesStatus(aobj, Cached(JWTSecret(areq)))
     /\ ~SeedMissing(areq, conf.spec)
  /\ process' = "panicked"
  /\ UNCHANGED <<current, timer, accountWorker>>

(* A new JWT, with key pairs generated from keys and signers.              *)
SignAccount(keys, signers) ==
  /\ AccountReads /\ UNCHANGED process
  /\ LET conf   == Cached(AuthConfig)
         secret == Cached(JWTSecret(areq))
         step   == IF secret = Absent THEN "create" ELSE "update"
         owner  == IF secret = Absent THEN aobj.uid ELSE secret.owner
     IN  /\ SupportsAccounts(conf) /\ conf.spec.jwt # "none"
         /\ ~MatchesStatus(aobj, secret)
         /\ ~SeedMissing(areq, conf.spec)
         /\ \E key \in keys, signer \in signers :
              LET operator == KeyOf(Cached(OperatorSource(conf.spec)).key, signer)
              IN  Proceed(step, aobj, conf,
                          SignedSecret(aobj, owner, SeedFor(areq, key), operator, key), FALSE)
  /\ Got("account", {Account(areq)}, {AuthConfig, JWTSecret(areq)})

(* Mutant: the secret is overwritten if the create is refused.             *)
OverwriteAccountSecret ==
  /\ process = "running"
  /\ apc \in {"create", "update"}
  /\ LET announced == [aobj EXCEPT !.id = adraft.jwt.sub]
     IN  Send("account", JWTSecret(areq), TRUE, adraft, {Account(areq), AuthConfig},
              Proceed("trigger", announced, aconf, Absent, FALSE), GiveUp(aobj), GiveUp(aobj))

(* Mutant: the key enters the status before its secret is stored.          *)
AnnounceBeforeStoring ==
  /\ process = "running"
  /\ apc \in {"create", "update"}
  /\ LET announced == [aobj EXCEPT !.id = adraft.jwt.sub]
     IN  Send("account", JWTSecret(areq),
              IF apc = "create" THEN ~Exists(JWTSecret(areq))
                ELSE Exists(JWTSecret(areq)) /\ JWTSecret(areq) \in current["account"],
              adraft, {Account(areq), AuthConfig},
              Proceed("trigger", announced, aconf, Absent, FALSE),
              GiveUp(announced), GiveUp(announced))

(* Create or Update of the secret; then the new key enters account.Status, *)
(* in memory only.                                                         *)
StoreAccountSecret ==
  /\ process = "running"
  /\ LET held == {Account(areq), AuthConfig}
         announced == [aobj EXCEPT !.id = adraft.jwt.sub]
         ok == Proceed("trigger", announced, aconf, Absent, FALSE)
     IN  \/ /\ apc = "create"
            /\ Create("account", JWTSecret(areq), adraft, held, ok, GiveUp(aobj))
         \/ /\ apc = "update"
            /\ Update("account", JWTSecret(areq), adraft, held, ok, GiveUp(aobj))

(* Mutant: the configuration is updated whatever its resourceVersion.      *)
TriggerAnyConfig ==
  /\ process = "running"
  /\ apc = "trigger"
  /\ Send("account", AuthConfig, Exists(AuthConfig), aconf, {Account(areq)},
          Proceed("status", Succeeded(aobj), Absent, Absent, FALSE), GiveUp(aobj), GiveUp(aobj))

(* triggerAuthConfigReconcile: an annotation with the time of day.         *)
TriggerConfig ==
  /\ process = "running"
  /\ apc = "trigger"
  /\ Update("account", AuthConfig, aconf, {Account(areq)},
            Proceed("status", Succeeded(aobj), Absent, Absent, FALSE), GiveUp(aobj))

(* Status().Update: the status of the copy in memory, nothing else.        *)
SaveAccountStatus ==
  /\ process = "running"
  /\ apc = "status"
  /\ LET saved == [store[Account(areq)] EXCEPT
           !.id = aobj.id, !.ready = aobj.ready, !.observed = aobj.observed]
     IN  Update("account", Account(areq), saved, {},
                IF aerr THEN AccountRetries ELSE AccountWaits, AccountRetries)

(* handleDeletion: the trigger, whose error is ignored, then the finalizer. *)
UntriggerConfig ==
  /\ process = "running"
  /\ apc = "untrigger"
  /\ LET next == Proceed("release", aobj, Absent, Absent, FALSE)
     IN  Update("account", AuthConfig, aconf, {Account(areq)}, next, next)

(* Mutant: the finalizer is removed whatever the resourceVersion.          *)
ReleaseAnyAccount ==
  /\ process = "running"
  /\ apc = "release"
  /\ Send("account", Account(areq), Exists(Account(areq)), Absent, {},
          AccountForgets, AccountRetries, AccountRetries)

ReleaseAccount ==
  /\ process = "running"
  /\ apc = "release"
  /\ Update("account", Account(areq), Absent, {}, AccountForgets, AccountRetries)

AccountReconcile(keys, signers) ==
  \/ \E a \in Accounts : FetchAccount(a)
  \/ FinalizeAccount
  \/ RejectAccount
  \/ SkipAccount
  \/ PanicOnAccount
  \/ SignAccount(keys, signers)
  \/ StoreAccountSecret
  \/ TriggerConfig
  \/ SaveAccountStatus
  \/ UntriggerConfig
  \/ ReleaseAccount

=============================================================================
