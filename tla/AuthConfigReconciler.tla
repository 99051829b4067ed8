------------------------ MODULE AuthConfigReconciler ------------------------
(***************************************************************************)
(* NatsAuthConfigReconciler (natsauthconfig_controller.go): one worker     *)
(* that keeps the object the NATS servers mount, the aggregate, in step    *)
(* with the accounts. A step ends at each write, as in AccountReconciler,  *)
(* and between two reads on which the aggregate depends.                   *)
(***************************************************************************)
EXTENDS Cluster

VARIABLES
  cpc,     \* what Reconcile is about to do, or "idle"
  cobj,    \* authConfig: the copy of the NatsAuthConfig in memory
  ckey,    \* the operator's key pair of this reconciliation
  cdraft,  \* the aggregate about to be stored
  clist,   \* accounts listed with an ID, whose secrets are still to be read
  cends    \* how Reconcile returns after its status update

configWorker == <<cpc, cobj, ckey, cdraft, clist, cends>>

ConfigSteps == {"idle", "finalize", "mode", "seed", "found", "list", "collect",
                "create", "update", "status", "release"}

ConfigWorkerTypeOK ==
  /\ cpc \in ConfigSteps
  /\ cobj \in ConfigObject \cup {Absent}
  /\ ckey \in Operators
  /\ cdraft \in ServerObject \cup {Absent}
  /\ clist \subseteq Accounts
  /\ cends \in {"ready", "invalid", "error"}
  /\ cpc # "idle" => cobj \in ConfigObject
  /\ cpc \in {"collect", "create", "update"} => cdraft \in ServerObject

ConfigIdle ==
  /\ cpc = "idle" /\ cobj = Absent /\ ckey = NoKey
  /\ cdraft = Absent /\ clist = {} /\ cends = "ready"

-----------------------------------------------------------------------------
(* What Reconcile computes.                                                *)

(* validateSpec *)
ValidSpec(spec) == spec.mode = "token" \/ spec.jwt # "none"

(* JWT mode always writes a Secret, token mode the kind the spec names.    *)
Target(spec) ==
  IF spec.mode = "token" /\ spec.target = "ConfigMap" THEN ServerConfigMap
                                                      ELSE ServerSecret

(* Mutant: accounts that announce no ID yet are collected, too.            *)
ListedUnannounced == {a \in Accounts : Cached(Account(a)) # Absent}

(* collectAccountJWTs: List, and the ID each account of the list announces. *)
Listed == {a \in Accounts : Cached(Account(a)) # Absent /\ Cached(Account(a)).id # NoKey}

(* secretData, before the accounts are added: the operator's entry.        *)
OperatorEntry(key) ==
  [jwts |-> [n \in Entries |-> IF n = "operator" THEN OperatorJWT(key) ELSE Absent],
   conf |-> FALSE]

(* writeToConfigMap, writeToSecret: one key is set, the others are kept.   *)
WithAuthConf(existing) ==
  IF existing = Absent THEN [jwts |-> [n \in Entries |-> Absent], conf |-> TRUE]
                       ELSE [existing EXCEPT !.conf = TRUE]

-----------------------------------------------------------------------------
(* How a step of Reconcile ends.                                           *)

ProceedConfig(pc, obj, key, draft, ends) ==
  /\ cpc' = pc /\ cobj' = obj /\ ckey' = key /\ cdraft' = draft /\ cends' = ends
  /\ clist' = {} /\ UNCHANGED timer

(* The status Reconcile is going to save, by how it ends.                  *)
ConfigFails(obj) ==
  ProceedConfig("status", [obj EXCEPT !.ready = FALSE, !.observed = TRUE],
                NoKey, Absent, "error")
ConfigInvalid(obj) ==
  ProceedConfig("status", [obj EXCEPT !.ready = FALSE], NoKey, Absent, "invalid")
ConfigSucceeds(obj) ==
  ProceedConfig("status", [obj EXCEPT !.ready = TRUE, !.observed = TRUE],
                NoKey, Absent, "ready")

ConfigReturns ==
  /\ cpc' = "idle" /\ cobj' = Absent /\ ckey' = NoKey
  /\ cdraft' = Absent /\ clist' = {} /\ cends' = "ready"

ConfigRetries == ConfigReturns /\ Backoff(AuthConfig)
ConfigForgets == ConfigReturns /\ UNCHANGED timer
ConfigWaits   == ConfigReturns /\ RequeueAfter(AuthConfig)

-----------------------------------------------------------------------------

FetchConfig ==
  /\ process = "running"
  /\ cpc = "idle" /\ AuthConfig \in due
  /\ due' = due \ {AuthConfig}
  /\ UNCHANGED <<store, cache, timer, process, budget, ckey, cdraft, clist, cends>>
  /\ LET obj == Cached(AuthConfig) IN
     \/ /\ obj = Absent
        /\ UNCHANGED <<current, cpc, cobj>>
     \/ /\ obj # Absent
        /\ cobj' = obj
        /\ cpc' = IF obj.deleting THEN "release" ELSE IF obj.fin THEN "mode" ELSE "finalize"
        /\ Got("config", {}, {AuthConfig})

FinalizeConfig ==
  /\ process = "running"
  /\ cpc = "finalize"
  /\ LET obj == [cobj EXCEPT !.fin = TRUE]
     IN  Update("config", AuthConfig, obj, {AuthConfig},
                ProceedConfig("mode", obj, NoKey, Absent, "ready"), ConfigRetries)

(* validateSpec, the switch on the mode, and the reads of the branch taken. *)
ChooseMode ==
  /\ process = "running"
  /\ cpc = "mode"
  /\ UNCHANGED <<store, cache, due, process, budget>>
  /\ LET spec     == cobj.spec
         existing == Cached(Target(spec))
         import   == Cached(ImportedOperator)
         only     == Got("config", {AuthConfig}, {})
     IN  \/ ~ValidSpec(spec) /\ ConfigInvalid(cobj) /\ only
         \/ /\ spec.mode = "token"
            /\ ProceedConfig(IF existing = Absent THEN "create" ELSE "update",
                             cobj, NoKey, WithAuthConf(existing), "ready")
            /\ Got("config", {AuthConfig}, {Target(spec)})
         \/ /\ ValidSpec(spec) /\ spec.mode # "token" /\ spec.jwt = "generate"
            /\ ProceedConfig("seed", cobj, NoKey, Absent, "ready") /\ only
         \/ /\ ValidSpec(spec) /\ spec.mode # "token" /\ spec.jwt = "import"
            /\ import = Absent
            /\ ConfigFails(cobj) /\ only
         \/ /\ ValidSpec(spec) /\ spec.mode # "token" /\ spec.jwt = "import"
            /\ import # Absent
            /\ ProceedConfig("list", cobj, import.key, Absent, "ready") /\ only

(* Mutant: a refused create is ignored.                                    *)
KeepGeneratedSeed(keys) ==
  /\ process = "running"
  /\ cpc = "seed"
  /\ \E key \in keys :
     LET goes == ProceedConfig("list", cobj, key, Absent, "ready")
     IN  Send("config", OperatorSeed, ~Exists(OperatorSeed),
              [owner |-> cobj.uid, key |-> key], {AuthConfig}, goes, goes, ConfigFails(cobj))

(* getOrCreateOperatorSeed: create first; if that is refused because the   *)
(* secret exists, read it, from the informer.                              *)
CreateOperatorSeed(keys) ==
  /\ process = "running"
  /\ cpc = "seed"
  /\ \E key \in keys :
       Send("config", OperatorSeed, ~Exists(OperatorSeed),
            [owner |-> cobj.uid, key |-> key], {AuthConfig},
            ProceedConfig("list", cobj, key, Absent, "ready"),
            ProceedConfig("found", cobj, NoKey, Absent, "ready"),
            ConfigFails(cobj))

(* Reads of the informers between two writes.                              *)
ConfigReads(pc) ==
  /\ process = "running"
  /\ cpc = pc
  /\ UNCHANGED <<store, cache, due, process, budget>>

ReadOperatorSeed ==
  /\ ConfigReads("found")
  /\ LET found == Cached(OperatorSeed) IN
     \/ found = Absent /\ ConfigFails(cobj)
     \/ found # Absent /\ ProceedConfig("list", cobj, found.key, Absent, "ready")
  /\ Got("config", {AuthConfig}, {})

(* reconcileJWTMode: the operator's entry and the list of accounts. An     *)
(* empty operator seed makes NewOperatorManager generate a key pair.       *)
ListAccounts(signers) ==
  /\ ConfigReads("list")
  /\ cpc' = "collect"
  /\ \E signer \in signers :
       LET key == KeyOf(ckey, signer)
       IN  ckey' = key /\ cdraft' = OperatorEntry(key)
  /\ clist' = Listed
  /\ UNCHANGED <<timer, cobj, cends>>
  /\ Got("config", {AuthConfig}, {})

(* Mutant: each account replaces the one collected before.                 *)
CollectOnlyOne ==
  /\ ConfigReads("collect")
  /\ \E a \in clist :
     /\ clist' = clist \ {a}
     /\ cdraft' = LET secret == Cached(JWTSecret(a))
                  IN  IF secret = Absent THEN cdraft
                      ELSE [OperatorEntry(ckey) EXCEPT !.jwts[a] = secret.jwt]
  /\ UNCHANGED <<timer, cpc, cobj, ckey, cends>>
  /\ Got("config", {AuthConfig}, {})

(* collectAccountJWTs reads the secrets of the listed accounts one by one  *)
(* and skips those that are not there.                                     *)
CollectAccountJWT ==
  /\ ConfigReads("collect")
  /\ \E a \in clist :
     /\ clist' = clist \ {a}
     /\ cdraft' = LET secret == Cached(JWTSecret(a))
                  IN  IF secret = Absent THEN cdraft
                      ELSE [cdraft EXCEPT !.jwts[a] = secret.jwt]
  /\ UNCHANGED <<timer, cpc, cobj, ckey, cends>>
  /\ Got("config", {AuthConfig}, {})

(* Is there a secret to update?                                            *)
ReadServerSecret ==
  /\ ConfigReads("collect")
  /\ clist = {}
  /\ ProceedConfig(IF Cached(ServerSecret) = Absent THEN "create" ELSE "update",
                   cobj, ckey, cdraft, "ready")
  /\ Got("config", {AuthConfig}, {ServerSecret})

(* Mutant: the public key is recorded once.                                *)
PublishKeepingKey ==
  /\ process = "running"
  /\ cpc \in {"create", "update"}
  /\ LET target == Target(cobj.spec)
         pub    == IF cobj.spec.mode = "token" \/ cobj.pub # NoKey THEN cobj.pub ELSE ckey
     IN  Send("config", target, IF cpc = "create" THEN ~Exists(target)
                                  ELSE Exists(target) /\ target \in current["config"],
              cdraft, {AuthConfig},
              ConfigSucceeds([cobj EXCEPT !.pub = pub, !.resolver = TRUE]),
              ConfigFails(cobj), ConfigFails(cobj))

(* The operator's public key enters authConfig.Status, in memory.          *)
PublishAggregate ==
  /\ process = "running"
  /\ LET target == Target(cobj.spec)
         pub    == IF cobj.spec.mode = "token" THEN cobj.pub ELSE ckey
         ok     == ConfigSucceeds([cobj EXCEPT !.pub = pub, !.resolver = TRUE])
     IN  \/ /\ cpc = "create"
            /\ Create("config", target, cdraft, {AuthConfig}, ok, ConfigFails(cobj))
         \/ /\ cpc = "update"
            /\ Update("config", target, cdraft, {AuthConfig}, ok, ConfigFails(cobj))

(* Mutant: a refused status update is repeated on the latest object.       *)
SaveStatusOnLatest ==
  /\ process = "running"
  /\ cpc = "status"
  /\ LET saved == [store[AuthConfig] EXCEPT
           !.pub = cobj.pub, !.resolver = cobj.resolver,
           !.ready = cobj.ready, !.observed = cobj.observed]
     IN  Send("config", AuthConfig, Exists(AuthConfig), saved, {},
              IF cends = "error" THEN ConfigRetries ELSE ConfigWaits,
              ConfigRetries, ConfigRetries)

SaveConfigStatus ==
  /\ process = "running"
  /\ cpc = "status"
  /\ LET saved == [store[AuthConfig] EXCEPT
           !.pub = cobj.pub, !.resolver = cobj.resolver,
           !.ready = cobj.ready, !.observed = cobj.observed]
     IN  Update("config", AuthConfig, saved, {},
                IF cends = "error" THEN ConfigRetries ELSE ConfigWaits, ConfigRetries)

(* handleDeletion *)
ReleaseConfig ==
  /\ process = "running"
  /\ cpc = "release"
  /\ Update("config", AuthConfig, Absent, {}, ConfigForgets, ConfigRetries)

ConfigReconcile(keys) ==
  \/ FetchConfig
  \/ FinalizeConfig
  \/ ChooseMode
  \/ CreateOperatorSeed(keys)
  \/ ReadOperatorSeed
  \/ ListAccounts(keys)
  \/ CollectAccountJWT
  \/ ReadServerSecret
  \/ PublishAggregate
  \/ SaveConfigStatus
  \/ ReleaseConfig

=============================================================================
