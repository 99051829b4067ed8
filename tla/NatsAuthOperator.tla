-------------------------- MODULE NatsAuthOperator --------------------------
(***************************************************************************)
(* The operator: the account and the configuration controller in one       *)
(* process, on one cluster.                                                *)
(***************************************************************************)
EXTENDS AccountReconciler, AuthConfigReconciler

vars == <<cluster, accountWorker, configWorker>>

(* A generated key is one that is nowhere in the system.                   *)
Secrets(o) == {store[o], cache[o]} \ {Absent}
Aggregates == (Secrets(ServerSecret) \cup {cdraft}) \ {Absent}
JWTsInUse ==
  ((UNION {{g.jwts[n] : n \in Entries} : g \in Aggregates})
     \cup {s.jwt : s \in UNION {Secrets(JWTSecret(a)) : a \in Accounts}}
     \cup {s.jwt : s \in {adraft} \ {Absent}}) \ {Absent}

UsedAccountKeys ==
  {j.sub : j \in JWTsInUse}
    \cup {s.seed : s \in UNION {Secrets(JWTSecret(a)) \cup Secrets(ImportedSeed(a)) : a \in Accounts}}
    \cup {s.seed : s \in {adraft} \ {Absent}}
    \cup {s.id : s \in (UNION {Secrets(Account(a)) : a \in Accounts}) \cup ({aobj} \ {Absent})}

UsedOperatorKeys ==
  {j.iss : j \in JWTsInUse} \cup {ckey}
    \cup {s.key : s \in Secrets(OperatorSeed) \cup Secrets(ImportedOperator)}
    \cup {s.pub : s \in Secrets(AuthConfig) \cup ({aconf, cobj} \ {Absent})}

FreshAccountKeys  == Fresh(AccountKeys, UsedAccountKeys)
FreshOperatorKeys == Fresh(OperatorKeys, UsedOperatorKeys)

-----------------------------------------------------------------------------

Init == ClusterInit /\ AccountIdle /\ ConfigIdle

AccountStep ==
  AccountReconcile(FreshAccountKeys, FreshOperatorKeys) /\ UNCHANGED configWorker

ConfigStep == ConfigReconcile(FreshOperatorKeys) /\ UNCHANGED accountWorker

(* The kubelet starts the process again: nothing survives in memory.       *)
Restart ==
  /\ Start
  /\ apc' = "idle" /\ areq' = Absent /\ aobj' = Absent
  /\ aconf' = Absent /\ adraft' = Absent /\ aerr' = FALSE
  /\ cpc' = "idle" /\ cobj' = Absent /\ ckey' = NoKey /\ cdraft' = Absent
  /\ clist' = {} /\ cends' = "ready"

ClusterStep == (Informers \/ Environment) /\ UNCHANGED <<accountWorker, configWorker>>

Next == AccountStep \/ ConfigStep \/ Restart \/ ClusterStep

Spec == Init /\ [][Next]_vars

TypeOK == ClusterTypeOK /\ AccountWorkerTypeOK /\ ConfigWorkerTypeOK

=============================================================================
