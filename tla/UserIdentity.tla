---------------------------- MODULE UserIdentity ----------------------------
(***************************************************************************)
(* What the operator promises of the identity of a JWT user, without       *)
(* workers, caches, retries or crashes; permissions are no part of it. The *)
(* identity is settled when the status announces the key of the JWT in the *)
(* credentials. Nobody who saw the latest of both gives a settled user     *)
(* another key, what is announced of one never changes, and only with an   *)
(* announced key a JWT user is called ready.                               *)
(***************************************************************************)
CONSTANTS Users, Keys, NoKey, None

VARIABLES
  alive,      \* [Users -> BOOLEAN]: the object exists
  held,       \* the key of the JWT in the user's credentials, or None
  announced,  \* the public key in its status, or NoKey
  ready,      \* its spec asks for a JWT, and its status says it has one
  informed    \* its reconciliation saw the latest of object and credentials

identityVars == <<alive, held, announced, ready, informed>>

IdentityTypeOK ==
  /\ alive \in [Users -> BOOLEAN]
  /\ held \in [Users -> Keys \cup {None}]
  /\ announced \in [Users -> Keys \cup {NoKey}]
  /\ ready \in [Users -> BOOLEAN]
  /\ informed \in [Users -> BOOLEAN]

Init ==
  /\ alive \in [Users -> BOOLEAN]
  /\ held = [u \in Users |-> None]
  /\ announced = [u \in Users |-> NoKey]
  /\ ready = [u \in Users |-> FALSE]
  /\ informed \in [Users -> BOOLEAN]

Settled(u) == announced[u] # NoKey /\ held[u] = announced[u]

Keeps(u) == alive'[u] = alive[u] /\ announced'[u] = announced[u] /\ ready'[u] = ready[u]
Stays(u) == Keeps(u) /\ held'[u] = held[u]

(* A JWT is stored: not in place of a settled one, except unwittingly.     *)
Issue(u) ==
  /\ ~(Settled(u) /\ informed[u])
  /\ held'[u] \in Keys
  /\ Keeps(u)

(* The verdict on a user. It may announce the key that is held, or one     *)
(* whose JWT was deleted meanwhile.                                        *)
Judge(u) ==
  /\ alive[u] /\ alive'[u]
  /\ held'[u] = held[u]
  /\ \/ announced'[u] = announced[u]
     \/ ~Settled(u) /\ announced'[u] # NoKey /\ held[u] \in {announced'[u], None}
  /\ ready'[u] => announced'[u] # NoKey

(* The credentials are deleted, or collected.                              *)
Lose(u) == held'[u] = None /\ Keeps(u)

(* The user is removed; it may be created again, and inherits credentials  *)
(* at most.                                                                *)
Retire(u) ==
  /\ alive[u] /\ ~alive'[u]
  /\ held'[u] = held[u]
  /\ announced'[u] = NoKey /\ ~ready'[u]
Appear(u) ==
  /\ ~alive[u] /\ alive'[u]
  /\ held'[u] = held[u]
  /\ announced'[u] = NoKey /\ ~ready'[u]

(* Users are independent of each other.                                    *)
Next ==
  /\ IdentityTypeOK'
  /\ \A u \in Users :
       Stays(u) \/ Issue(u) \/ Judge(u) \/ Lose(u) \/ Retire(u) \/ Appear(u)

Spec == Init /\ [][Next]_identityVars

=============================================================================
