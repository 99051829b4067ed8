---------------------------- MODULE UserOperator ----------------------------
(***************************************************************************)
(* The whole operator: the user controller in the same process as the two  *)
(* controllers of NatsAuthOperator. Its steps leave their variables alone, *)
(* so what holds of NatsAuthOperator holds here.                           *)
(***************************************************************************)
EXTENDS NatsAuthOperator, UserReconciler

userOperatorVars == <<vars, userVars>>

(* A generated key, or string, is one that is nowhere in use.              *)
HeldUsers(u) == {ustore[User(u)], ucache[User(u)]} \ {Absent}
HeldCredentials(u) == {ustore[Credentials(u)], ucache[Credentials(u)], udraft} \ {Absent}

UsedUserKeys ==
  {o.pub : o \in (UNION {HeldUsers(u) : u \in Users}) \cup ({uobj} \ {Absent})}
    \cup {k.pub : k \in {ukey} \ {Absent}}
    \cup {j.sub : j \in {c.jwt : c \in UNION {HeldCredentials(u) : u \in Users}} \ {Absent}}
    \cup {s.seed : s \in {ustore[UserSeed(u)] : u \in Users} \ {Absent}}

UsedStrings ==
  UNION {{t.name, t.password} :
    t \in {c.token : c \in UNION {HeldCredentials(u) : u \in Users}} \ {Absent}}

FreshUserKeys == Fresh(UserKeys, UsedUserKeys)
FreshStrings  == Fresh(Random, UsedStrings)

-----------------------------------------------------------------------------

FullInit == Init /\ UserInit

OperatorStep ==
  (AccountStep \/ ConfigStep \/ ClusterStep) /\ UNCHANGED userVars

UserStep == UserReconcile(FreshUserKeys, FreshStrings) /\ UNCHANGED vars

UserClusterStep ==
  (UserInformers \/ UserEnvironment) /\ UNCHANGED <<userWorker, vars>>

(* The kubelet starts the process again: nothing survives in memory.       *)
FullRestart ==
  /\ Restart
  /\ U!Relist
  /\ UserReturns
  /\ UNCHANGED <<ustore, ubudget>>

FullNext == OperatorStep \/ UserStep \/ UserClusterStep \/ FullRestart

FullSpec == FullInit /\ [][FullNext]_userOperatorVars

FullTypeOK == TypeOK /\ UserTypeOK

=============================================================================
