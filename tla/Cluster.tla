------------------------------ MODULE Cluster ------------------------------
(***************************************************************************)
(* The Kubernetes cluster the operator runs in, as the code under          *)
(* src/internal/controller uses it: the accounts, the configuration and    *)
(* their secrets on an API server (ApiServer), the garbage collector, the  *)
(* users who own the accounts and the configuration, and the kubelet.      *)
(***************************************************************************)
EXTENDS Naturals, FiniteSets

CONSTANTS
  Accounts,          \* names of NatsAccount objects
  Imports,           \* the accounts whose spec names an existingSeedSecret
  ConfigSpecs,       \* specs a NatsAuthConfig may be given
  Limits,            \* values spec.limits of an account may be given
  AccountKeys,       \* pool of account key pairs, a number each
  OperatorKeys,      \* pool of operator key pairs, a number each
  ImportableSeeds,   \* what a user may put in a secret an account imports
  ImportableOperators,   \* what a user may put in a secret a config imports
  Lag,               \* kinds of object whose informer may lag
  Disturbances,      \* what users, the network and the kubelet may do
  Budget,            \* how often they may do it
  NoKey,             \* an empty string or an empty seed
  Absent             \* no such object

Holders == {"cache", "account", "config"}

Account(a)       == <<"NatsAccount", a>>
JWTSecret(a)     == <<"account-jwt", a>>         \* <name>-account-jwt
ImportedSeed(a)  == <<"account-seed", a>>        \* spec.existingSeedSecret
AuthConfig       == <<"NatsAuthConfig", "main">>
OperatorSeed     == <<"operator-seed", "main">>  \* <name>-operator-seed
ImportedOperator == <<"operator-import", "main">> \* jwt.operatorSeedSecret
ServerSecret     == <<"server-auth", "Secret">>  \* spec.serverAuthConfig
ServerConfigMap  == <<"server-auth", "ConfigMap">>

Objects ==
  {Account(a) : a \in Accounts} \cup {JWTSecret(a) : a \in Accounts}
    \cup {ImportedSeed(a) : a \in Accounts}
    \cup {AuthConfig, OperatorSeed, ImportedOperator, ServerSecret, ServerConfigMap}

Requests == {Account(a) : a \in Accounts} \cup {AuthConfig}

(* Keys and entries of the data of the objects. *)
Seeds     == AccountKeys \cup {NoKey}
Operators == OperatorKeys \cup {NoKey}
Entries   == Accounts \cup {"operator"}

AccountJWT == [sub : Seeds, iss : Operators, limits : Limits]
OperatorJWT(k) == [sub |-> k, iss |-> k]
JWTs == AccountJWT \cup {OperatorJWT(k) : k \in Operators} \cup {Absent}

AccountObject ==
  [uid : 0..Budget, deleting : BOOLEAN, fin : BOOLEAN, limits : Limits,
   id : Seeds, ready : BOOLEAN, observed : BOOLEAN]
ConfigObject ==
  [uid : 0..Budget, deleting : BOOLEAN, fin : BOOLEAN, spec : ConfigSpecs,
   pub : Operators, resolver : BOOLEAN, ready : BOOLEAN, observed : BOOLEAN]
AccountSecret == [owner : 0..Budget, seed : Seeds, jwt : AccountJWT]
SeedSecret    == [seed : Seeds]
OperatorSecret == [owner : 0..Budget, key : Operators]
OperatorImport == [key : Operators]
ServerObject  == [jwts : [Entries -> JWTs], conf : BOOLEAN]

(* What may be stored under each object. *)
Content(o) ==
  CASE o[1] = "NatsAccount"     -> AccountObject
    [] o[1] = "account-jwt"     -> AccountSecret
    [] o[1] = "account-seed"    -> SeedSecret
    [] o[1] = "NatsAuthConfig"  -> ConfigObject
    [] o[1] = "operator-seed"   -> OperatorSecret
    [] o[1] = "operator-import" -> OperatorImport
    [] OTHER                    -> ServerObject

(* What the specs may say, and what users may import.                      *)
ASSUME SpecAssumption ==
  /\ Imports \subseteq Accounts
  /\ ConfigSpecs \subseteq [mode : {"jwt", "mixed", "token"},
                          jwt : {"generate", "import", "none"},
                          target : {"Secret", "ConfigMap"}]
  /\ ImportableSeeds \subseteq Seeds
  /\ ImportableOperators \subseteq Operators
  /\ "zero" \in Limits => "unlimited" \in Limits
  /\ Budget \in Nat

(* NoKey is no key.                                                        *)
ASSUME KeyAssumption == NoKey \notin AccountKeys \cup OperatorKeys

(* An absent object or entry is not one; Absent names no account or key.   *)
ASSUME AbsentAssumption ==
  /\ Absent \notin Accounts
  /\ Absent \notin Seeds
  /\ Absent \notin AccountJWT \cup {OperatorJWT(k) : k \in Operators}
  /\ \A o \in Objects : Absent \notin Content(o)

VARIABLES
  store,     \* the API server: [Objects -> content or Absent]
  cache,     \* what the lagging informers hold
  current,   \* [Holders -> objects held at the server's resourceVersion]
  due,       \* requests in the work queues
  timer,     \* for each request, the timer that will queue it again
  process,   \* the operator's process: "running", "killed" or "panicked"
  budget     \* disturbances still to come

cluster == <<store, cache, current, due, timer, process, budget>>

Timers == {"none", "backoff", "period"}

ClusterTypeOK ==
  /\ DOMAIN store = Objects /\ DOMAIN cache = Objects
  /\ \A o \in Objects : store[o] \in Content(o) \cup {Absent}
  /\ \A o \in Objects : cache[o] \in Content(o) \cup {Absent}
  /\ current \in [Holders -> SUBSET Objects]
  /\ due \subseteq Requests
  /\ timer \in [Requests -> Timers]
  /\ process \in {"running", "killed", "panicked"}
  /\ budget \in 0..Budget

-----------------------------------------------------------------------------
(* Objects, and who is told of their changes.                             *)

NewAccount(uid, l) ==
  [uid |-> uid, deleting |-> FALSE, fin |-> FALSE, limits |-> l,
   id |-> NoKey, ready |-> FALSE, observed |-> FALSE]
NewConfig(uid, s) ==
  [uid |-> uid, deleting |-> FALSE, fin |-> FALSE, spec |-> s, pub |-> NoKey,
   resolver |-> FALSE, ready |-> FALSE, observed |-> FALSE]

(* Mutant: the controllers watch no secrets (Owns left out).               *)
WatchersOfOwn(o) == IF o \in {AuthConfig} \cup {Account(a) : a \in Accounts} THEN {o} ELSE {}

(* For() and Owns(): the requests an event of o is mapped to.              *)
Watchers(o) ==
  CASE o[1] \in {"NatsAccount", "account-jwt"}      -> {Account(o[2])}
    [] o[1] \in {"NatsAuthConfig", "operator-seed"} -> {AuthConfig}
    [] OTHER                                        -> {}

(* Timestamps have a resolution of a second. A reconciliation may follow   *)
(* the write that caused it within the second; two triggers do so only     *)
(* where Disturbances says.                                                *)
SameSecond(h, o) == h = "account" /\ o = AuthConfig => "sameSecond" \in Disturbances

INSTANCE ApiServer

-----------------------------------------------------------------------------
(* The garbage collector removes a secret whose controller is gone.        *)
OwnerOf(o) ==
  IF o[1] = "account-jwt" THEN Account(o[2]) ELSE AuthConfig
Orphaned(o) ==
  /\ o[1] \in {"account-jwt", "operator-seed"}
  /\ Exists(o)
  /\ Exists(OwnerOf(o)) => store[OwnerOf(o)].uid # store[o].owner
CollectGarbage(o) ==
  /\ Orphaned(o)
  /\ Put("gc", o, Absent, {})
  /\ UNCHANGED <<cache, timer, process, budget>>

-----------------------------------------------------------------------------
(* Users and the kubelet.                                                  *)

EditAccount(a, l) ==
  /\ Exists(Account(a)) /\ ~store[Account(a)].deleting
  /\ store[Account(a)].limits # l
  /\ ByUser("edit", Account(a),
            [store[Account(a)] EXCEPT !.limits = l, !.observed = FALSE])

EditConfig(s) ==
  /\ Exists(AuthConfig) /\ ~store[AuthConfig].deleting
  /\ store[AuthConfig].spec # s
  /\ ByUser("reconfigure", AuthConfig,
            [store[AuthConfig] EXCEPT !.spec = s, !.observed = FALSE])

CreateAccount(a, l) ==
  ~Exists(Account(a)) /\ ByUser("recreate", Account(a), NewAccount(budget', l))

CreateConfig(s) ==
  ~Exists(AuthConfig) /\ ByUser("recreateConfig", AuthConfig, NewConfig(budget', s))

DeleteSecret(o) ==
  /\ o[1] \in {"account-jwt", "operator-seed", "server-auth"}
  /\ Exists(o)
  /\ ByUser(o[1], o, Absent)

Kill ==
  /\ process = "running"
  /\ Disturb("crash")
  /\ process' = "killed"
  /\ UNCHANGED <<store, cache, current, due, timer>>

(* main: the kubelet starts the process again.                             *)
Start ==
  /\ process # "running"
  /\ process' = "running"
  /\ Relist
  /\ UNCHANGED <<store, budget>>

Environment ==
  \/ \E o \in Objects : CollectGarbage(o) \/ DeleteSecret(o)
  \/ \E a \in Accounts, l \in Limits : EditAccount(a, l) \/ CreateAccount(a, l)
  \/ \E s \in ConfigSpecs : EditConfig(s) \/ CreateConfig(s)
  \/ \E a \in Accounts : Delete("delete", Account(a))
  \/ Delete("deleteConfig", AuthConfig)
  \/ Kill

Informers == (\E o \in Objects : Deliver(o)) \/ (\E r \in Requests : TimerFires(r))

(* The operator runs and the users have just created their objects.        *)
ClusterInit ==
  /\ \E l \in [Accounts -> Limits], s \in ConfigSpecs,
        i \in [Imports -> ImportableSeeds], k \in ImportableOperators :
       store = [o \in Objects |->
         CASE o[1] = "NatsAccount"     -> NewAccount(Budget, l[o[2]])
           [] o[1] = "NatsAuthConfig"  -> NewConfig(Budget, s)
           [] o[1] = "account-seed"    -> IF o[2] \in Imports
                                            THEN [seed |-> i[o[2]]] ELSE Absent
           [] o[1] = "operator-import" -> IF \E spec \in ConfigSpecs : spec.jwt = "import"
                                            THEN [key |-> k] ELSE Absent
           [] OTHER                    -> Absent]
  /\ cache = [o \in Objects |-> Absent]
  /\ current = [h \in Holders |->
       IF h = "cache" THEN {o \in Objects : o[1] \in Lag => store[o] = Absent} ELSE {}]
  /\ due = {r \in Requests : r[1] \notin Lag}
  /\ timer = [r \in Requests |-> "none"]
  /\ process = "running"
  /\ budget = Budget

-----------------------------------------------------------------------------
(* Key generation: the least key of a pool that is nowhere in use.         *)
Fresh(pool, used) ==
  LET free == pool \ used IN {k \in free : \A j \in free : k <= j}

(* An empty seed makes the managers generate a key pair (len(seed) > 0).   *)
KeyOf(seed, fresh) == IF seed = NoKey THEN fresh ELSE seed

=============================================================================
