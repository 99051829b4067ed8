-------------------------- MODULE AccountIdentity --------------------------
(***************************************************************************)
(* What the operator promises of the identity of an account, without       *)
(* workers, caches, retries or crashes. The identity is settled when the   *)
(* status announces the stored key. Nobody who knows the newest state of   *)
(* the account replaces a settled key, and nobody changes what is          *)
(* announced of one: a new identity needs a secret that was lost, or that  *)
(* somebody uninformed has replaced.                                       *)
(***************************************************************************)
CONSTANTS Accounts, Keys, NoKey, None

VARIABLES
  alive,      \* [Accounts -> BOOLEAN]: the object exists
  stored,     \* the key in the account's secret, NoKey, or None: no secret
  announced,  \* the account ID in its status, or NoKey
  ready,      \* its Ready condition
  informed    \* its reconciliation knows the newest state of the object

identityVars == <<alive, stored, announced, ready, informed>>

IdentityTypeOK ==
  /\ alive \in [Accounts -> BOOLEAN]
  /\ stored \in [Accounts -> Keys \cup {NoKey, None}]
  /\ announced \in [Accounts -> Keys \cup {NoKey}]
  /\ ready \in [Accounts -> BOOLEAN]
  /\ informed \in [Accounts -> BOOLEAN]

Init ==
  /\ alive = [a \in Accounts |-> TRUE]
  /\ stored = [a \in Accounts |-> None]
  /\ announced = [a \in Accounts |-> NoKey]
  /\ ready = [a \in Accounts |-> FALSE]
  /\ informed \in [Accounts -> BOOLEAN]

Settled(a) == announced[a] # NoKey /\ stored[a] = announced[a]

Lives(a) == alive'[a] = alive[a] /\ announced'[a] = announced[a] /\ ready'[a] = ready[a]
Stays(a) == Lives(a) /\ stored'[a] = stored[a]

(* A key is stored: not in place of a settled one, except unwittingly.     *)
Choose(a) ==
  /\ ~(Settled(a) /\ informed[a])
  /\ stored'[a] \in Keys \cup {NoKey}
  /\ Lives(a)

(* The verdict on an account. It may announce a key that is stored, was    *)
(* lost, or is drawn anew whenever it is read (NoKey).                     *)
Judge(a) ==
  /\ alive[a] /\ alive'[a] /\ informed[a]
  /\ stored'[a] = stored[a]
  /\ \/ announced'[a] = announced[a]
     \/ /\ ~Settled(a)
        /\ announced'[a] # NoKey
        /\ stored[a] \in {announced'[a], NoKey, None}
  /\ ready'[a] => announced'[a] # NoKey

(* The secret is deleted, or collected.                                    *)
Lose(a) == stored'[a] = None /\ Lives(a)

(* The account is removed, with or without having been announced; it may   *)
(* be created again, and inherits a secret at most.                        *)
Retire(a) ==
  /\ alive[a] /\ ~alive'[a]
  /\ stored'[a] = stored[a]
  /\ announced'[a] = NoKey /\ ~ready'[a]
Appear(a) ==
  /\ ~alive[a] /\ alive'[a]
  /\ stored'[a] = stored[a]
  /\ announced'[a] = NoKey /\ ~ready'[a]

(* Accounts are independent of each other.                                 *)
Next ==
  /\ IdentityTypeOK'
  /\ \A a \in Accounts :
       Stays(a) \/ Choose(a) \/ Judge(a) \/ Lose(a) \/ Retire(a) \/ Appear(a)

Spec == Init /\ [][Next]_identityVars

=============================================================================
