--------------------------- MODULE IdentityProofs ---------------------------
(***************************************************************************)
(* The identity of an account. A reconciliation that knows the newest      *)
(* state of the account never replaces the seed its status announces, and  *)
(* only such a reconciliation can change what is announced, because the    *)
(* status update of any other is refused. With stale informers of every    *)
(* kind, lost answers, crashes, deletions and re-creations, the operator   *)
(* implements AccountIdentity.                                             *)
(***************************************************************************)
EXTENDS OperatorProofs

-----------------------------------------------------------------------------
(* What each part of the system does to accounts and their secrets.        *)

LEMMA Distinct ==
  \A a, b :
    /\ Account(a) # AuthConfig /\ JWTSecret(a) # AuthConfig /\ ImportedSeed(a) # AuthConfig
    /\ Account(a) # JWTSecret(b) /\ Account(a) # ImportedSeed(b) /\ JWTSecret(a) # ImportedSeed(b)
    /\ Account(a) = Account(b) => a = b
    /\ JWTSecret(a) = JWTSecret(b) => a = b
    /\ \A o \in {Account(a), JWTSecret(a), ImportedSeed(a)} :
         o \notin {OperatorSeed, ImportedOperator, ServerSecret, ServerConfigMap}
BY DEF Account, JWTSecret, ImportedSeed, AuthConfig, OperatorSeed, ImportedOperator,
       ServerSecret, ServerConfigMap

AccountObjects(a) == {Account(a), JWTSecret(a), ImportedSeed(a)}

(* The configuration controller writes none of them.                       *)
LEMMA ConfigStepFrame ==
  ASSUME TypeOK, ConfigStep, NEW a \in Accounts, NEW o \in AccountObjects(a)
  PROVE  store'[o] = store[o] /\ (o \in current'["account"] => o \in current["account"])
<1>1. o \in Objects /\ o # AuthConfig /\ o \notin {OperatorSeed, ServerSecret, ServerConfigMap}
  BY AccountKinds, Distinct DEF AccountObjects
<1>2. ASSUME NEW p \in Objects, p # o, NEW allowed, NEW v, NEW held, Sent("config", p, allowed, v, held)
      PROVE  store'[o] = store[o] /\ (o \in current'["account"] => o \in current["account"])
  BY <1>1, <1>2, SentHere, SentElsewhere
<1>3. ASSUME UNCHANGED store, NEW held, NEW objs, Got("config", held, objs)
      PROVE  store'[o] = store[o] /\ (o \in current'["account"] => o \in current["account"])
  BY <1>3 DEF Got, TypeOK, ClusterTypeOK, Holders
<1>4. \/ UNCHANGED <<store, current>>
      \/ UNCHANGED store /\ \E held, objs : Got("config", held, objs)
      \/ \E p \in {AuthConfig, OperatorSeed, ServerSecret, ServerConfigMap} : \E allowed, v, held :
           Sent("config", p, allowed, v, held)
  <2>1. ASSUME \/ FetchConfig \/ ChooseMode \/ ReadOperatorSeed
               \/ ListAccounts(FreshOperatorKeys) \/ CollectAccountJWT \/ ReadServerSecret
        PROVE  \/ UNCHANGED <<store, current>>
               \/ UNCHANGED store /\ \E held, objs : Got("config", held, objs)
    BY <2>1 DEF FetchConfig, ChooseMode, ConfigReads, ReadOperatorSeed, ListAccounts,
                CollectAccountJWT, ReadServerSecret
  <2>2. ASSUME FinalizeConfig \/ SaveConfigStatus \/ ReleaseConfig
        PROVE  \E allowed, v, held : Sent("config", AuthConfig, allowed, v, held)
    BY <2>2 DEF FinalizeConfig, SaveConfigStatus, ReleaseConfig, Update, Send, Sent
  <2>3. ASSUME CreateOperatorSeed(FreshOperatorKeys)
        PROVE  \E allowed, v, held : Sent("config", OperatorSeed, allowed, v, held)
    BY <2>3 DEF CreateOperatorSeed, Send, Sent
  <2>4. ASSUME PublishAggregate
        PROVE  \E p \in {ServerSecret, ServerConfigMap} : \E allowed, v, held :
                 Sent("config", p, allowed, v, held)
    BY <2>4 DEF PublishAggregate, Create, Update, Send, Sent, Target
  <2> QED
    BY <2>1, <2>2, <2>3, <2>4 DEF ConfigStep, ConfigReconcile
<1> QED
  BY <1>1, <1>2, <1>3, <1>4, ConfigKinds

(* Users, the garbage collector and the informers.                         *)
AccountChanged(a) ==
  LET v == store[Account(a)]
      w == store'[Account(a)]
  IN  \/ w = v
      \/ w = Absent
      \/ v # Absent /\ w # Absent /\ w.uid = v.uid /\ w.id = v.id /\ (w.ready = v.ready)
      \/ "recreate" \in Disturbances /\ v = Absent /\ w # Absent /\ w.id = NoKey /\ ~w.ready
SecretChanged(a) ==
  LET v == store[JWTSecret(a)]
      w == store'[JWTSecret(a)]
  IN  \/ w = v
      \/ w = Absent /\ ("account-jwt" \in Disturbances \/ Orphaned(JWTSecret(a)))

LEMMA ClusterStepFrame ==
  ASSUME TypeOK, ClusterStep, NEW a \in Accounts
  PROVE  /\ AccountChanged(a) /\ SecretChanged(a)
         /\ store'[Account(a)] = store[Account(a)] \/ store'[JWTSecret(a)] = store[JWTSecret(a)]
         /\ store'[ImportedSeed(a)] = store[ImportedSeed(a)]
         /\ \A o \in AccountObjects(a) :
              o \in current'["account"] => o \in current["account"] /\ store'[o] = store[o]
<1> DEFINE Goal == /\ AccountChanged(a) /\ SecretChanged(a)
                   /\ store'[Account(a)] = store[Account(a)] \/ store'[JWTSecret(a)] = store[JWTSecret(a)]
                   /\ store'[ImportedSeed(a)] = store[ImportedSeed(a)]
                   /\ \A o \in AccountObjects(a) :
                        o \in current'["account"] => o \in current["account"] /\ store'[o] = store[o]
<1>1. /\ AccountObjects(a) \subseteq Objects /\ DOMAIN store = Objects
      /\ Content(Account(a)) = AccountObject
  BY AccountKinds DEF AccountObjects, TypeOK, ClusterTypeOK
<1>2. ASSUME UNCHANGED store, current' = current \/ \E o : current' = [current EXCEPT !["cache"] = @ \cup {o}]
      PROVE  Goal
  BY <1>2 DEF AccountChanged, SecretChanged, TypeOK, ClusterTypeOK, Holders
<1>3. ASSUME NEW h \in {"gc", "user"}, NEW o \in Objects, NEW v, Put(h, o, v, {})
      PROVE  /\ store' = [store EXCEPT ![o] = v]
             /\ \A p \in Objects : p \in current'["account"] => p \in current["account"] /\ store'[p] = store[p]
  <2>1. store' = [store EXCEPT ![o] = v]
    BY <1>3 DEF Put
  <2>2. h # "account"
    OBVIOUS
  <2> QED
    BY <1>3, <2>1, <2>2, PutElsewhere
<1>4. ASSUME NEW o \in Objects, CollectGarbage(o)
      PROVE  Goal
  <2>1. o # Account(a) /\ o # ImportedSeed(a)
    BY <1>4 DEF CollectGarbage, Orphaned, Account, ImportedSeed
  <2> QED
    BY <1>1, <1>3, <1>4, <2>1 DEF CollectGarbage, AccountChanged, SecretChanged, AccountObjects
<1>5. ASSUME NEW o \in Objects, DeleteSecret(o)
      PROVE  Goal
  <2>1. o # Account(a) /\ o # ImportedSeed(a)
    BY <1>5 DEF DeleteSecret, Account, ImportedSeed
  <2>2. o = JWTSecret(a) => "account-jwt" \in Disturbances
    BY <1>5 DEF DeleteSecret, ByUser, Disturb, JWTSecret
  <2> QED
    BY <1>1, <1>3, <1>5, <2>1, <2>2
       DEF DeleteSecret, ByUser, AccountChanged, SecretChanged, AccountObjects
<1>6. ASSUME NEW b \in Accounts, NEW l \in Limits, EditAccount(b, l)
      PROVE  Goal
  <2> DEFINE v == [store[Account(b)] EXCEPT !.limits = l, !.observed = FALSE]
  <2>1. store[Account(b)] \in AccountObject /\ Account(b) \in Objects
    BY <1>6, AccountKinds DEF EditAccount, Exists, TypeOK, ClusterTypeOK
  <2>2. v.uid = store[Account(b)].uid /\ v.id = store[Account(b)].id /\ v.ready = store[Account(b)].ready
        /\ v \in AccountObject
    BY <2>1 DEF AccountObject
  <2>3. v # Absent
    <3>1. Absent \notin AccountObject
      BY AccountKinds, AbsentAssumption
    <3> HIDE DEF v
    <3> QED
      BY <2>2, <3>1
  <2>4. Put("user", Account(b), v, {}) /\ store[Account(b)] # Absent
    BY <1>6 DEF EditAccount, ByUser, Exists
  <2> HIDE DEF v
  <2> QED
    BY <1>1, <1>3, <2>1, <2>2, <2>3, <2>4, Distinct DEF AccountChanged, SecretChanged, AccountObjects
<1>7. ASSUME NEW b \in Accounts, NEW l \in Limits, CreateAccount(b, l)
      PROVE  Goal
  <2>1. Put("user", Account(b), NewAccount(budget', l), {}) /\ store[Account(b)] = Absent
        /\ "recreate" \in Disturbances
    BY <1>7 DEF CreateAccount, ByUser, Disturb, Exists
  <2>2. NewAccount(budget', l).id = NoKey /\ ~NewAccount(budget', l).ready
    BY DEF NewAccount
  <2> QED
    BY <1>1, <1>3, <2>1, <2>2, AccountKinds, Distinct DEF AccountChanged, SecretChanged, AccountObjects
<1>8. ASSUME NEW b \in Accounts, Delete("delete", Account(b))
      PROVE  Goal
  <2> DEFINE v == [store[Account(b)] EXCEPT !.deleting = TRUE]
  <2>1. store[Account(b)] \in AccountObject /\ Account(b) \in Objects
    BY <1>8, AccountKinds DEF Delete, Exists, TypeOK, ClusterTypeOK
  <2>2. v.uid = store[Account(b)].uid /\ v.id = store[Account(b)].id /\ v.ready = store[Account(b)].ready
        /\ v \in AccountObject
    BY <2>1 DEF AccountObject
  <2>3. v # Absent
    <3>1. Absent \notin AccountObject
      BY AccountKinds, AbsentAssumption
    <3> HIDE DEF v
    <3> QED
      BY <2>2, <3>1
  <2>4. /\ Put("user", Account(b), v, {}) \/ Put("user", Account(b), Absent, {})
        /\ store[Account(b)] # Absent
    BY <1>8 DEF Delete, ByUser, Exists
  <2> HIDE DEF v
  <2> QED
    BY <1>1, <1>3, <2>1, <2>2, <2>3, <2>4, Distinct DEF AccountChanged, SecretChanged, AccountObjects
<1>9. ASSUME \/ Delete("deleteConfig", AuthConfig)
             \/ \E s \in ConfigSpecs : EditConfig(s) \/ CreateConfig(s)
      PROVE  Goal
  <2>1. \E v : Put("user", AuthConfig, v, {})
    BY <1>9 DEF Delete, EditConfig, CreateConfig, ByUser
  <2> QED
    BY <1>1, <1>3, <2>1, ConfigKinds, Distinct DEF AccountChanged, SecretChanged, AccountObjects
<1>10. ASSUME Informers \/ Kill
       PROVE  Goal
  BY <1>2, <1>10 DEF Informers, Deliver, TimerFires, Kill
<1> QED
  BY <1>4, <1>5, <1>6, <1>7, <1>8, <1>9, <1>10 DEF ClusterStep, Environment


(* The account controller writes the objects of the account it reconciles. *)
LEMMA AccountStepFrame ==
  ASSUME TypeOK, AccountStep, NEW a \in Accounts
  PROVE  /\ UNCHANGED <<cache, configWorker>>
         /\ store'[ImportedSeed(a)] = store[ImportedSeed(a)]
         /\ store'[Account(a)] = store[Account(a)]
            \/ (a = areq /\ apc \in {"finalize", "status", "release"})
         /\ store'[JWTSecret(a)] = store[JWTSecret(a)]
            \/ (a = areq /\ apc \in {"create", "update"})
<1>1. UNCHANGED <<cache, configWorker>>
  BY DEF AccountStep, AccountReconcile, FetchAccount, FinalizeAccount, RejectAccount, SkipAccount,
         PanicOnAccount, SignAccount, AccountReads, StoreAccountSecret, TriggerConfig,
         SaveAccountStatus, UntriggerConfig, ReleaseAccount, Create, Update, Send
<1>2. ASSUME NEW p \in Objects, NEW allowed, NEW v, NEW held, Sent("account", p, allowed, v, held),
             NEW o \in AccountObjects(a), o # p
      PROVE  store'[o] = store[o]
  BY <1>2, AccountKinds, SentHere DEF AccountObjects
<1>3. \/ UNCHANGED store
      \/ /\ apc \in {"finalize", "status", "release"}
         /\ \E allowed, v, held : Sent("account", Account(areq), allowed, v, held)
      \/ /\ apc \in {"create", "update"}
         /\ \E allowed, v, held : Sent("account", JWTSecret(areq), allowed, v, held)
      \/ \E allowed, v, held : Sent("account", AuthConfig, allowed, v, held)
  <2>1. ASSUME FinalizeAccount \/ SaveAccountStatus \/ ReleaseAccount
        PROVE  /\ apc \in {"finalize", "status", "release"}
               /\ \E allowed, v, held : Sent("account", Account(areq), allowed, v, held)
    BY <2>1 DEF FinalizeAccount, SaveAccountStatus, ReleaseAccount, Update, Send, Sent
  <2>2. ASSUME StoreAccountSecret
        PROVE  /\ apc \in {"create", "update"}
               /\ \E allowed, v, held : Sent("account", JWTSecret(areq), allowed, v, held)
    BY <2>2 DEF StoreAccountSecret, Create, Update, Send, Sent
  <2>3. ASSUME TriggerConfig \/ UntriggerConfig
        PROVE  \E allowed, v, held : Sent("account", AuthConfig, allowed, v, held)
    BY <2>3 DEF TriggerConfig, UntriggerConfig, Update, Send, Sent
  <2>4. ASSUME \/ \E b \in Accounts : FetchAccount(b)
               \/ RejectAccount \/ SkipAccount \/ PanicOnAccount
               \/ SignAccount(FreshAccountKeys, FreshOperatorKeys)
        PROVE  UNCHANGED store
    BY <2>4 DEF FetchAccount, RejectAccount, SkipAccount, PanicOnAccount, SignAccount, AccountReads
  <2> QED
    BY <2>1, <2>2, <2>3, <2>4 DEF AccountStep, AccountReconcile
<1>4. apc # "idle" => areq \in Accounts /\ Account(areq) \in Objects /\ JWTSecret(areq) \in Objects
  BY AccountInHand
<1>5. store'[ImportedSeed(a)] = store[ImportedSeed(a)]
  BY <1>2, <1>3, <1>4, ConfigKinds, Distinct DEF AccountObjects
<1>6. store'[Account(a)] = store[Account(a)] \/ (a = areq /\ apc \in {"finalize", "status", "release"})
  BY <1>2, <1>3, <1>4, ConfigKinds, Distinct DEF AccountObjects
<1>7. store'[JWTSecret(a)] = store[JWTSecret(a)] \/ (a = areq /\ apc \in {"create", "update"})
  BY <1>2, <1>3, <1>4, ConfigKinds, Distinct DEF AccountObjects
<1> QED
  BY <1>1, <1>5, <1>6, <1>7

-----------------------------------------------------------------------------
(* The life of an account, as the refinement mapping shows it.             *)

Living(a)   == Exists(Account(a))
Key(a)      == IF Exists(JWTSecret(a)) THEN store[JWTSecret(a)].seed ELSE Absent
ID(a)       == IF Exists(Account(a)) THEN store[Account(a)].id ELSE NoKey
Told(a)     == Exists(Account(a)) /\ store[Account(a)].ready
Informed(a) == Account(a) \in current["account"]
Settled(a)  == ID(a) # NoKey /\ Key(a) = ID(a)

Unmoved(a) == Living(a)' = Living(a) /\ ID(a)' = ID(a) /\ Told(a)' = Told(a)
Stays(a)   == Unmoved(a) /\ Key(a)' = Key(a)
Chooses(a) == ~(Settled(a) /\ Informed(a)) /\ Key(a)' \in Seeds /\ Unmoved(a)
Judges(a) ==
  /\ Living(a) /\ Living(a)' /\ Informed(a)
  /\ Key(a)' = Key(a)
  /\ \/ ID(a)' = ID(a)
     \/ ~Settled(a) /\ ID(a)' # NoKey /\ Key(a) \in {ID(a)', NoKey, Absent}
  /\ Told(a)' => ID(a)' # NoKey
Loses(a)   == Key(a)' = Absent /\ Unmoved(a)
Retires(a) == Living(a) /\ ~Living(a)' /\ Key(a)' = Key(a) /\ ID(a)' = NoKey /\ ~Told(a)'
Appears(a) == ~Living(a) /\ Living(a)' /\ Key(a)' = Key(a) /\ ID(a)' = NoKey /\ ~Told(a)'

Lives(a) ==
  Stays(a) \/ Chooses(a) \/ Judges(a) \/ Loses(a) \/ Retires(a) \/ Appears(a)

-----------------------------------------------------------------------------
(* The inductive invariant: what Reconcile may rely on.                    *)

(* A JWT is about a key, that of the seed stored beside it unless the seed *)
(* is empty.                                                               *)
DraftOK ==
  apc \in {"create", "update"} =>
    adraft.jwt.sub # NoKey /\ adraft.seed \in {NoKey, adraft.jwt.sub}

(* Until a new secret is stored, a copy of the account that is not out of  *)
(* date announces what the server's object does.                           *)
IDCopied ==
  apc \in {"finalize", "read", "create", "update"} /\ Informed(areq) =>
    Exists(Account(areq)) /\ store[Account(areq)].id = aobj.id

(* A secret about to be replaced did not match what the copy announces.    *)
ReplacedOK ==
  apc = "update" /\ JWTSecret(areq) \in current["account"] =>
    Exists(JWTSecret(areq)) /\ ~MatchesStatus(aobj, store[JWTSecret(areq)])

(* A new ID that is about to be announced is that of the stored seed,      *)
(* unless the secret is gone or its seed is empty.                         *)
AnnouncesOK ==
  apc \in {"trigger", "status"} /\ Informed(areq) /\ aobj.id # store[Account(areq)].id =>
    /\ aobj.id # NoKey
    /\ Exists(JWTSecret(areq)) => store[JWTSecret(areq)].seed \in {NoKey, aobj.id}

(* No account is Ready without an ID.                                      *)
ReadyHasID(obj) == obj # Absent /\ obj.ready => obj.id # NoKey
ReadyInHand == /\ apc # "idle" => ReadyHasID(aobj)
               /\ apc = "trigger" => aobj.id # NoKey
ReadyOK == \A a \in Accounts : ReadyHasID(store[Account(a)]) /\ ReadyHasID(cache[Account(a)])

HandOK == DraftOK /\ IDCopied /\ ReplacedOK /\ AnnouncesOK /\ ReadyInHand
LifeInv == RememberInv /\ HandOK /\ ReadyOK

LivesOn == \A a \in Accounts : Lives(a) /\ ReadyHasID(store'[Account(a)])

LEMMA HandInLife ==
  ASSUME LifeInv, apc # "idle"
  PROVE  /\ TypeOK /\ CacheOK /\ HandOK /\ DOMAIN store = Objects
         /\ areq \in Accounts /\ aobj \in AccountObject /\ aobj # Absent
         /\ Account(areq) \in Objects /\ JWTSecret(areq) \in Objects
         /\ Account(areq) # JWTSecret(areq)
         /\ Exists(Account(areq)) => store[Account(areq)] \in AccountObject
         /\ ReadyHasID(aobj) /\ ReadyHasID(store[Account(areq)])
<1>1. TypeOK /\ CacheOK /\ HandOK /\ ReadyOK
  BY DEF LifeInv, RememberInv
<1>2. /\ areq \in Accounts /\ aobj \in AccountObject
      /\ Account(areq) \in Objects /\ JWTSecret(areq) \in Objects
      /\ Content(Account(areq)) = AccountObject
  BY <1>1, AccountInHand
<1>3. aobj # Absent
  BY <1>2, AbsentAssumption
<1> QED
  BY <1>1, <1>2, <1>3, Distinct DEF TypeOK, ClusterTypeOK, Exists, HandOK, ReadyInHand, ReadyOK

(* An account nothing is written of stays as it is.                        *)
LEMMA SameStays ==
  ASSUME LifeInv, NEW a \in Accounts, store'[Account(a)] = store[Account(a)],
         store'[JWTSecret(a)] = store[JWTSecret(a)]
  PROVE  Lives(a) /\ ReadyHasID(store'[Account(a)])
BY DEF LifeInv, ReadyOK, ReadyHasID, Lives, Stays, Unmoved, Living, Key, ID, Told, Exists

LEMMA OnlyInHand ==
  ASSUME LifeInv, AccountStep,
         \A a \in Accounts : a = areq => Lives(a) /\ ReadyHasID(store'[Account(a)])
  PROVE  LivesOn
<1> SUFFICES ASSUME NEW a \in Accounts, a # areq
             PROVE  Lives(a) /\ ReadyHasID(store'[Account(a)])
  BY DEF LivesOn
<1>1. store'[Account(a)] = store[Account(a)] /\ store'[JWTSecret(a)] = store[JWTSecret(a)]
  BY AccountStepFrame DEF LifeInv, RememberInv
<1> QED
  BY <1>1, SameStays

LEMMA NothingWritten ==
  ASSUME LifeInv, AccountStep, apc \in {"idle", "read", "trigger", "untrigger"}
  PROVE  /\ LivesOn
         /\ \A a \in Accounts : /\ store'[Account(a)] = store[Account(a)]
                                /\ store'[JWTSecret(a)] = store[JWTSecret(a)]
<1>1. \A a \in Accounts : /\ store'[Account(a)] = store[Account(a)]
                          /\ store'[JWTSecret(a)] = store[JWTSecret(a)]
  BY AccountStepFrame DEF LifeInv, RememberInv
<1> QED
  BY <1>1, SameStays DEF LivesOn

-----------------------------------------------------------------------------
(* The account controller, one lemma per action.                           *)

LEMMA FetchLives ==
  ASSUME LifeInv, AccountStep, NEW a \in Accounts, FetchAccount(a)
  PROVE  LivesOn /\ HandOK'
<1> DEFINE obj == Cached(Account(a))
<1>1. /\ LivesOn /\ store'[Account(a)] = store[Account(a)] /\ UNCHANGED <<store, cache>>
      /\ apc = "idle" /\ TypeOK /\ CacheOK
      /\ Account(a) \in Objects /\ AuthConfig \in Objects
  BY AccountKinds, ConfigKinds, NothingWritten DEF FetchAccount, LifeInv, RememberInv
<1>2. CASE apc' = "idle"
  BY <1>1, <1>2 DEF HandOK, DraftOK, IDCopied, ReplacedOK, AnnouncesOK, ReadyInHand
<1>3. CASE apc' # "idle"
  <2>1. /\ obj # Absent /\ areq' = a /\ aobj' = obj
        /\ apc' \in {"release", "untrigger", "read", "finalize"}
        /\ \E objs \in {{Account(a)}, {Account(a), AuthConfig}} : Got("account", {}, objs)
    BY <1>1, <1>3 DEF FetchAccount
  <2>2. Account(a) \in current'["account"] => obj = store[Account(a)]
    <3>1. PICK objs \in SUBSET Objects : Got("account", {}, objs)
      BY <1>1, <2>1
    <3> QED
      BY <1>1, <3>1, GotCopies
  <2>3. ReadyHasID(obj)
    BY DEF LifeInv, ReadyOK, Cached
  <2> QED
    BY <1>1, <2>1, <2>2, <2>3
       DEF HandOK, DraftOK, IDCopied, ReplacedOK, AnnouncesOK, ReadyInHand, ReadyHasID, Informed, Exists
<1> QED
  BY <1>1, <1>2, <1>3

LEMMA FinalizeLives ==
  ASSUME LifeInv, AccountStep, FinalizeAccount
  PROVE  LivesOn /\ HandOK'
<1> DEFINE obj == Serialised([aobj EXCEPT !.fin = TRUE])
           o == Account(areq)
<1>1. apc = "finalize"
  BY DEF FinalizeAccount
<1>2. store'[JWTSecret(areq)] = store[JWTSecret(areq)]
  BY <1>1, HandInLife, AccountStepFrame
<1>3. obj.id = aobj.id /\ obj.ready = aobj.ready /\ obj # Absent
  <2>1. obj.id = aobj.id /\ obj.ready = aobj.ready
    BY <1>1, HandInLife DEF Serialised, AccountObject
  <2>2. obj \in AccountObject
    BY <1>1, HandInLife, SerialisedType
  <2>3. Absent \notin AccountObject
    BY <1>1, HandInLife, AccountKinds, AbsentAssumption
  <2> HIDE DEF obj
  <2> QED
    BY <2>1, <2>2, <2>3
<1>4. \/ Exists(o) /\ Informed(areq) /\ store'[o] = obj
      \/ store'[o] = store[o] /\ apc' = "idle"
  BY <1>1, HandInLife
     DEF FinalizeAccount, Update, Send, Put, AccountRetries, AccountReturns, Informed
<1>5. apc' = "idle" \/ (apc' = "read" /\ areq' = areq /\ aobj' = obj /\ store'[o] = obj)
  BY <1>1, HandInLife DEF FinalizeAccount, Update, Send, Put, Proceed, AccountRetries, AccountReturns
<1> HIDE DEF obj
<1>6. ReadyHasID(obj)
  BY <1>1, <1>3, HandInLife DEF ReadyHasID
<1>7. ASSUME NEW a \in Accounts, a = areq
      PROVE  Lives(a) /\ ReadyHasID(store'[Account(a)])
  <2>1. CASE Exists(o) /\ Informed(areq) /\ store'[o] = obj
    <3>1. store[o].id = aobj.id
      BY <1>1, <2>1, HandInLife DEF HandOK, IDCopied
    <3>2. Judges(a)
      BY <1>2, <1>3, <1>6, <1>7, <2>1, <3>1
         DEF Judges, Living, Key, ID, Told, Informed, ReadyHasID, Exists
    <3> QED
      BY <1>6, <1>7, <2>1, <3>2 DEF Lives
  <2>2. CASE store'[o] = store[o]
    BY <1>2, <1>7, <2>2, SameStays
  <2> QED
    BY <1>4, <2>1, <2>2
<1>8. HandOK'
  BY <1>3, <1>5, <1>6
     DEF HandOK, DraftOK, IDCopied, ReplacedOK, AnnouncesOK, ReadyInHand, Exists
<1> QED
  BY <1>7, <1>8, OnlyInHand

(* "JWT exists, status matches seed", a rejection, or a panic: the ID in   *)
(* memory stays the one that was read.                                     *)
LEMMA DecideLives ==
  ASSUME LifeInv, AccountStep, RejectAccount \/ SkipAccount \/ PanicOnAccount
  PROVE  LivesOn /\ HandOK'
<1>1. apc = "read" /\ UNCHANGED <<store, cache>>
  BY DEF RejectAccount, SkipAccount, PanicOnAccount, AccountReads
<1>2. LivesOn
  BY <1>1, NothingWritten
<1>3. CASE PanicOnAccount
  <2>1. UNCHANGED <<current, accountWorker>>
    BY <1>3 DEF PanicOnAccount
  <2> QED
    BY <1>1, <1>2, <2>1, HandInLife
       DEF HandOK, DraftOK, IDCopied, ReplacedOK, AnnouncesOK, ReadyInHand, ReadyHasID, Informed,
           Exists, accountWorker
<1>4. CASE RejectAccount \/ SkipAccount
  <2>1. /\ apc' = "status" /\ areq' = areq /\ Got("account", {Account(areq)}, {})
        /\ aobj' = Failed(aobj) \/ (aobj' = Succeeded(aobj) /\ aobj.id # NoKey)
    BY <1>4 DEF RejectAccount, SkipAccount, GiveUp, Proceed, MatchesStatus
  <2>2. aobj'.id = aobj.id /\ (aobj'.ready => aobj'.id # NoKey)
    BY <1>1, <2>1, HandInLife DEF Failed, Succeeded, AccountObject
  <2>3. Informed(areq)' => Informed(areq) /\ store'[Account(areq)] = store[Account(areq)]
    BY <1>1, <2>1, HandInLife DEF Informed, Got, TypeOK, ClusterTypeOK, Holders
  <2>4. Informed(areq) => store[Account(areq)].id = aobj.id
    BY <1>1, HandInLife DEF HandOK, IDCopied
  <2> QED
    BY <1>2, <2>1, <2>2, <2>3, <2>4
       DEF HandOK, DraftOK, IDCopied, ReplacedOK, AnnouncesOK, ReadyInHand, ReadyHasID
<1> QED
  BY <1>3, <1>4

LEMMA SignLives ==
  ASSUME LifeInv, AccountStep, SignAccount(FreshAccountKeys, FreshOperatorKeys)
  PROVE  LivesOn /\ HandOK'
<1> DEFINE o == JWTSecret(areq)
<1>1. /\ apc = "read" /\ UNCHANGED <<store, cache>> /\ areq' = areq /\ aobj' = aobj
      /\ apc' = IF Cached(o) = Absent THEN "create" ELSE "update"
      /\ ~MatchesStatus(aobj, Cached(o))
      /\ Got("account", {Account(areq)}, {AuthConfig, o})
  BY DEF SignAccount, AccountReads, Proceed
<1>2. LivesOn
  BY <1>1, NothingWritten
<1>3. DraftOK'
  <2>1. PICK key \in FreshAccountKeys : \E owner, signer :
          adraft' = SignedSecret(aobj, owner, SeedFor(areq, key), signer, key)
    BY DEF SignAccount, Proceed
  <2>2. key # NoKey
    BY KeyAssumption DEF FreshAccountKeys, Fresh
  <2> QED
    BY <2>1, <2>2 DEF DraftOK, SignedSecret, KeyOf
<1>4. /\ Informed(areq)' => Informed(areq)
      /\ o \in current'["account"] => Cached(o) = store[o]
  <2>1. {AuthConfig, o} \in SUBSET Objects /\ Account(areq) \notin {AuthConfig, o}
    BY <1>1, HandInLife, ConfigKinds, Distinct
  <2> QED
    BY <1>1, <2>1, HandInLife, GotCopies, Distinct DEF Informed
<1>5. IDCopied'
  BY <1>1, <1>4, HandInLife DEF HandOK, IDCopied, Exists
<1>6. ReplacedOK'
  BY <1>1, <1>4 DEF ReplacedOK, Exists
<1>7. AnnouncesOK' /\ ReadyInHand'
  BY <1>1, HandInLife DEF AnnouncesOK, ReadyInHand, ReadyHasID
<1> QED
  BY <1>2, <1>3, <1>5, <1>6, <1>7 DEF HandOK

(* Whoever knows the newest state of the account replaces no settled key,  *)
(* and announces the key that was stored.                                  *)
LEMMA StoreLives ==
  ASSUME LifeInv, AccountStep, StoreAccountSecret
  PROVE  LivesOn /\ HandOK'
<1> DEFINE o == JWTSecret(areq)
           announced == [aobj EXCEPT !.id = adraft.jwt.sub]
           allowed == \/ apc = "create" /\ ~Exists(o)
                      \/ apc = "update" /\ Exists(o) /\ o \in current["account"]
<1>1. apc \in {"create", "update"} /\ adraft \in AccountSecret
  BY DEF StoreAccountSecret, LifeInv, RememberInv, TypeOK, AccountWorkerTypeOK
<1>2. store'[Account(areq)] = store[Account(areq)]
  BY <1>1, HandInLife, AccountStepFrame
<1>3. adraft.seed \in Seeds /\ adraft # Absent
  <2>1. Absent \notin AccountSecret
    BY <1>1, HandInLife, AccountKinds, AbsentAssumption
  <2> QED
    BY <1>1, <2>1 DEF AccountSecret
<1>4. /\ announced.id = adraft.jwt.sub /\ announced.ready = aobj.ready
      /\ Failed(aobj).id = aobj.id /\ ~Failed(aobj).ready
  BY <1>1, HandInLife DEF Failed, AccountObject
<1>5. \/ allowed /\ store'[o] = adraft /\ Proceed("trigger", announced, aconf, Absent, FALSE)
      \/ (store'[o] = store[o] \/ (allowed /\ store'[o] = adraft)) /\ GiveUp(aobj)
  BY <1>1, HandInLife DEF StoreAccountSecret, Create, Update, Send, Put
<1>6. areq' = areq /\ (Informed(areq)' => Informed(areq))
  <2>1. \E sends : Sent("account", o, sends, adraft, {Account(areq), AuthConfig})
    BY DEF StoreAccountSecret, Create, Update, Send, Sent
  <2>2. areq' = areq
    BY <1>5 DEF Proceed, GiveUp
  <2> QED
    BY <1>1, <2>1, <2>2, HandInLife, SentHere DEF Informed
<1> HIDE DEF announced
<1>7. allowed => ~(Settled(areq) /\ Informed(areq))
  <2>1. CASE apc = "create" /\ ~Exists(o)
    BY <1>1, <2>1, HandInLife, AbsentAssumption DEF Settled, Key, ID, AccountObject, Exists
  <2>2. CASE apc = "update" /\ Exists(o) /\ o \in current["account"]
    BY <2>2, HandInLife DEF Settled, Key, ID, HandOK, IDCopied, ReplacedOK, MatchesStatus, Exists
  <2> QED
    BY <2>1, <2>2
<1>8. ASSUME NEW a \in Accounts, a = areq
      PROVE  Lives(a) /\ ReadyHasID(store'[Account(a)])
  <2>1. CASE store'[o] = store[o]
    BY <1>2, <1>8, <2>1, SameStays
  <2>2. CASE allowed /\ store'[o] = adraft
    <3>1. Chooses(a)
      BY <1>2, <1>3, <1>7, <1>8, <2>2 DEF Chooses, Unmoved, Living, Key, ID, Told, Exists
    <3> QED
      BY <1>1, <1>2, <1>8, <3>1, HandInLife DEF Lives
  <2> QED
    BY <1>5, <2>1, <2>2
<1>9. HandOK'
  <2>1. CASE store'[o] = adraft /\ Proceed("trigger", announced, aconf, Absent, FALSE)
    <3>1. apc' = "trigger" /\ areq' = areq /\ aobj' = announced
      BY <2>1 DEF Proceed
    <3>2. adraft.jwt.sub # NoKey /\ adraft.seed \in {NoKey, adraft.jwt.sub}
      BY <1>1, HandInLife DEF HandOK, DraftOK
    <3> QED
      BY <1>4, <2>1, <3>1, <3>2
         DEF HandOK, DraftOK, IDCopied, ReplacedOK, AnnouncesOK, ReadyInHand, ReadyHasID, Exists
  <2>2. CASE GiveUp(aobj)
    <3>1. apc' = "status" /\ areq' = areq /\ aobj' = Failed(aobj)
      BY <2>2 DEF GiveUp, Proceed
    <3>2. Informed(areq) => store[Account(areq)].id = aobj.id
      BY <1>1, HandInLife DEF HandOK, IDCopied
    <3> QED
      BY <1>2, <1>4, <1>6, <3>1, <3>2
         DEF HandOK, DraftOK, IDCopied, ReplacedOK, AnnouncesOK, ReadyInHand, ReadyHasID
  <2> QED
    BY <1>5, <2>1, <2>2
<1> QED
  BY <1>8, <1>9, OnlyInHand

LEMMA TriggerLives ==
  ASSUME LifeInv, AccountStep, TriggerConfig \/ UntriggerConfig
  PROVE  LivesOn /\ HandOK'
<1>1. apc \in {"trigger", "untrigger"}
  BY DEF TriggerConfig, UntriggerConfig
<1>2. LivesOn /\ store'[Account(areq)] = store[Account(areq)]
      /\ store'[JWTSecret(areq)] = store[JWTSecret(areq)]
  BY <1>1, HandInLife, NothingWritten
<1>3. /\ areq' = areq
      /\ \/ apc = "trigger" /\ apc' = "status" /\ aobj' \in {Failed(aobj), Succeeded(aobj)}
         \/ apc' = "release" /\ aobj' = aobj
  BY DEF TriggerConfig, UntriggerConfig, Update, Send, Proceed, GiveUp
<1>4. /\ aobj'.id = aobj.id
      /\ aobj'.ready => aobj'.id # NoKey
  BY <1>1, <1>3, HandInLife DEF Failed, Succeeded, AccountObject, HandOK, ReadyInHand, ReadyHasID
<1>5. Informed(areq)' => Informed(areq)
  <2>1. \E sends : Sent("account", AuthConfig, sends, aconf, {Account(areq)})
    BY DEF TriggerConfig, UntriggerConfig, Update, Send, Sent
  <2> QED
    BY <1>1, <1>3, <2>1, HandInLife, ConfigKinds, SentHere, Distinct DEF Informed
<1> QED
  BY <1>1, <1>2, <1>3, <1>4, <1>5, HandInLife
     DEF HandOK, DraftOK, IDCopied, ReplacedOK, AnnouncesOK, ReadyInHand, ReadyHasID, Exists

LEMMA SaveOrReleaseLives ==
  ASSUME LifeInv, AccountStep, SaveAccountStatus \/ ReleaseAccount
  PROVE  LivesOn /\ HandOK'
<1> DEFINE o == Account(areq)
           saved == [store[o] EXCEPT
                      !.id = aobj.id, !.ready = aobj.ready, !.observed = aobj.observed]
<1>1. apc \in {"status", "release"} /\ apc' = "idle"
  BY DEF SaveAccountStatus, ReleaseAccount, Update, Send, AccountRetries, AccountWaits,
         AccountForgets, AccountReturns
<1>2. store'[JWTSecret(areq)] = store[JWTSecret(areq)]
  BY <1>1, HandInLife, AccountStepFrame
<1>3. \/ store'[o] = store[o]
      \/ Exists(o) /\ store'[o] = Absent
      \/ apc = "status" /\ Exists(o) /\ Informed(areq) /\ store'[o] = saved
  BY <1>1, HandInLife DEF SaveAccountStatus, ReleaseAccount, Update, Send, Put, Informed
<1>4. Exists(o) => saved.id = aobj.id /\ saved.ready = aobj.ready /\ saved # Absent
  <2>1. Exists(o) => /\ saved.id = aobj.id /\ saved.ready = aobj.ready
                     /\ saved \in AccountObject
    BY <1>1, HandInLife DEF AccountObject
  <2>2. Absent \notin AccountObject
    BY <1>1, HandInLife, AccountKinds, AbsentAssumption
  <2> HIDE DEF saved
  <2> QED
    BY <2>1, <2>2
<1> HIDE DEF saved
<1>5. ASSUME NEW a \in Accounts, a = areq
      PROVE  Lives(a) /\ ReadyHasID(store'[Account(a)])
  <2>1. CASE store'[o] = store[o]
    BY <1>2, <1>5, <2>1, SameStays
  <2>2. CASE Exists(o) /\ store'[o] = Absent
    BY <1>2, <1>5, <2>2 DEF Lives, Retires, Living, Key, ID, Told, ReadyHasID, Exists
  <2>3. CASE apc = "status" /\ Exists(o) /\ Informed(areq) /\ store'[o] = saved
    <3>1. ReadyHasID(saved)
      BY <1>1, <1>4, <2>3, HandInLife DEF ReadyHasID
    <3>2. \/ aobj.id = store[o].id
          \/ aobj.id # NoKey /\ Key(a) \in {aobj.id, NoKey, Absent}
      BY <1>1, <1>5, <2>3, HandInLife DEF HandOK, AnnouncesOK, Key
    <3>3. store[o].id \in Seeds /\ Absent \notin Seeds
      BY <1>1, <2>3, HandInLife, AbsentAssumption DEF AccountObject
    <3>4. Judges(a)
      BY <1>2, <1>4, <1>5, <2>3, <3>1, <3>2, <3>3
         DEF Judges, Settled, Living, Key, ID, Told, Informed, ReadyHasID, Exists
    <3> QED
      BY <1>5, <2>3, <3>1, <3>4 DEF Lives
  <2> QED
    BY <1>3, <2>1, <2>2, <2>3
<1>6. HandOK'
  BY <1>1 DEF HandOK, DraftOK, IDCopied, ReplacedOK, AnnouncesOK, ReadyInHand
<1> QED
  BY <1>5, <1>6, OnlyInHand

LEMMA AccountStepLives ==
  ASSUME LifeInv, AccountStep
  PROVE  LivesOn /\ HandOK'
BY FetchLives, FinalizeLives, DecideLives, SignLives, StoreLives, TriggerLives, SaveOrReleaseLives
   DEF AccountStep, AccountReconcile

-----------------------------------------------------------------------------
(* Everybody else.                                                         *)

LEMMA OthersLive ==
  ASSUME LifeInv, ConfigStep \/ ClusterStep
  PROVE  LivesOn /\ HandOK'
<1>1. TypeOK /\ UNCHANGED accountWorker
  BY DEF LifeInv, RememberInv, ConfigStep, ClusterStep
<1>2. ASSUME NEW a \in Accounts
      PROVE  /\ AccountChanged(a)
             /\ store'[JWTSecret(a)] \in {store[JWTSecret(a)], Absent}
             /\ store'[Account(a)] # store[Account(a)] => store'[JWTSecret(a)] = store[JWTSecret(a)]
             /\ \A o \in AccountObjects(a) :
                  o \in current'["account"] => o \in current["account"] /\ store'[o] = store[o]
  BY <1>1, <1>2, ConfigStepFrame, ClusterStepFrame
     DEF AccountObjects, AccountChanged, SecretChanged
<1>3. LivesOn
  <2> SUFFICES ASSUME NEW a \in Accounts
               PROVE  Lives(a) /\ ReadyHasID(store'[Account(a)])
    BY DEF LivesOn
  <2>1. CASE store'[Account(a)] = store[Account(a)] /\ store'[JWTSecret(a)] = store[JWTSecret(a)]
    BY <2>1, SameStays
  <2>2. CASE store'[Account(a)] = store[Account(a)] /\ store'[JWTSecret(a)] = Absent
    BY <2>2 DEF Lives, Loses, Unmoved, Living, Key, ID, Told, Exists, LifeInv, ReadyOK, ReadyHasID
  <2>3. CASE store'[Account(a)] # store[Account(a)]
    BY <1>2, <2>3 DEF AccountChanged, Lives, Stays, Unmoved, Retires, Appears, Living, Key, ID,
                      Told, Exists, LifeInv, ReadyOK, ReadyHasID
  <2> QED
    BY <1>2, <2>1, <2>2, <2>3
<1>4. HandOK'
  <2>1. CASE apc = "idle"
    BY <1>1, <2>1
       DEF HandOK, DraftOK, IDCopied, ReplacedOK, AnnouncesOK, ReadyInHand, accountWorker
  <2>2. CASE apc # "idle"
    <3>1. areq \in Accounts /\ HandOK
      BY <2>2, HandInLife
    <3>2. /\ Informed(areq)' => Informed(areq) /\ store'[Account(areq)] = store[Account(areq)]
          /\ JWTSecret(areq) \in current'["account"] =>
               JWTSecret(areq) \in current["account"] /\ store'[JWTSecret(areq)] = store[JWTSecret(areq)]
          /\ store'[JWTSecret(areq)] \in {store[JWTSecret(areq)], Absent}
      BY <1>1, <1>2, <3>1 DEF Informed, AccountObjects, accountWorker
    <3> QED
      BY <1>1, <3>1, <3>2
         DEF HandOK, DraftOK, IDCopied, ReplacedOK, AnnouncesOK, ReadyInHand, ReadyHasID, Exists,
             accountWorker
  <2> QED
    BY <2>1, <2>2
<1> QED
  BY <1>3, <1>4

(* Informers only ever hold what the server held.                          *)
LEMMA CacheFollows ==
  ASSUME TypeOK, [Next]_vars, NEW o \in Objects
  PROVE  cache'[o] \in {cache[o], store[o], Absent}
<1>1. CASE AccountStep \/ ConfigStep
  <2>1. UNCHANGED cache
    BY <1>1 DEF AccountStep, AccountReconcile, FetchAccount, FinalizeAccount, RejectAccount,
                SkipAccount, PanicOnAccount, SignAccount, AccountReads, StoreAccountSecret,
                TriggerConfig, SaveAccountStatus, UntriggerConfig, ReleaseAccount, ConfigStep,
                ConfigReconcile, FetchConfig, FinalizeConfig, ChooseMode, CreateOperatorSeed,
                ReadOperatorSeed, ListAccounts, CollectAccountJWT, ReadServerSecret, ConfigReads,
                PublishAggregate, SaveConfigStatus, ReleaseConfig, Create, Update, Send
  <2> QED
    BY <2>1
<1>2. CASE ClusterStep
  BY <1>2 DEF ClusterStep, Informers, Deliver, TimerFires, Environment, CollectGarbage,
              DeleteSecret, EditAccount, CreateAccount, EditConfig, CreateConfig, Delete, ByUser,
              Kill, TypeOK, ClusterTypeOK
<1>3. CASE Restart
  BY <1>3 DEF Restart, Start, Relist
<1> QED
  BY <1>1, <1>2, <1>3 DEF Next, vars, cluster

LEMMA InitLife == Init => LifeInv
<1> SUFFICES ASSUME Init
             PROVE  LifeInv
  OBVIOUS
<1>1. RememberInv /\ HandOK
  BY InitRemembers
     DEF Init, AccountIdle, HandOK, DraftOK, IDCopied, ReplacedOK, AnnouncesOK, ReadyInHand
<1>2. ASSUME NEW a \in Accounts
      PROVE  cache[Account(a)] = Absent /\ ~store[Account(a)].ready
  <2>1. Account(a) \in Objects /\ Account(a)[1] = "NatsAccount"
    BY <1>2, AccountKinds DEF Account
  <2>2. \E l : store[Account(a)] = NewAccount(Budget, l[Account(a)[2]])
    BY <2>1 DEF Init, ClusterInit
  <2> QED
    BY <2>1, <2>2 DEF Init, ClusterInit, NewAccount
<1>3. ReadyOK
  BY <1>2 DEF ReadyOK, ReadyHasID
<1> QED
  BY <1>1, <1>3 DEF LifeInv

LEMMA NextLives == LifeInv /\ [Next]_vars => LifeInv' /\ LivesOn
<1> SUFFICES ASSUME LifeInv, [Next]_vars
             PROVE  LifeInv' /\ LivesOn
  OBVIOUS
<1>1. RememberInv' /\ TypeOK
  BY NextRemembers DEF LifeInv, RememberInv
<1>2. ASSUME Restart
      PROVE  LivesOn /\ HandOK'
  <2>1. UNCHANGED store /\ apc' = "idle"
    BY <1>2 DEF Restart, Start
  <2> QED
    BY <2>1, SameStays
       DEF LivesOn, HandOK, DraftOK, IDCopied, ReplacedOK, AnnouncesOK, ReadyInHand
<1>3. ASSUME UNCHANGED vars
      PROVE  LivesOn /\ HandOK'
  <2>1. UNCHANGED <<store, current, accountWorker>>
    BY <1>3 DEF vars, cluster
  <2> QED
    BY <2>1, SameStays
       DEF LivesOn, LifeInv, HandOK, DraftOK, IDCopied, ReplacedOK, AnnouncesOK, ReadyInHand,
           ReadyHasID, Informed, Exists, accountWorker
<1>4. LivesOn /\ HandOK'
  BY <1>2, <1>3, AccountStepLives, OthersLive DEF Next
<1>5. ReadyOK'
  <2> SUFFICES ASSUME NEW a \in Accounts
               PROVE  ReadyHasID(store'[Account(a)]) /\ ReadyHasID(cache'[Account(a)])
    BY DEF ReadyOK, ReadyHasID
  <2>1. cache'[Account(a)] \in {cache[Account(a)], store[Account(a)], Absent}
    BY <1>1, AccountKinds, CacheFollows
  <2> QED
    BY <1>4, <2>1 DEF LivesOn, LifeInv, ReadyOK, ReadyHasID
<1> QED
  BY <1>1, <1>4, <1>5 DEF LifeInv

-----------------------------------------------------------------------------
(* Theorems.                                                               *)

LEMMA InitIdentity == Init => Identity!Init
<1> SUFFICES ASSUME Init
             PROVE  Identity!Init
  OBVIOUS
<1>1. ASSUME NEW a \in Accounts
      PROVE  /\ store[Account(a)] # Absent /\ store[JWTSecret(a)] = Absent
             /\ store[Account(a)].id = NoKey /\ store[Account(a)].ready = FALSE
  <2>1. PICK l \in [Accounts -> Limits], s \in ConfigSpecs,
             i \in [Imports -> ImportableSeeds], k \in ImportableOperators :
          store = [o \in Objects |->
            CASE o[1] = "NatsAccount"     -> NewAccount(Budget, l[o[2]])
              [] o[1] = "NatsAuthConfig"  -> NewConfig(Budget, s)
              [] o[1] = "account-seed"    -> IF o[2] \in Imports
                                               THEN [seed |-> i[o[2]]] ELSE Absent
              [] o[1] = "operator-import" -> IF \E spec \in ConfigSpecs : spec.jwt = "import"
                                               THEN [key |-> k] ELSE Absent
              [] OTHER                    -> Absent]
    BY DEF Init, ClusterInit
  <2>2. /\ Account(a) \in Objects /\ JWTSecret(a) \in Objects
        /\ Account(a)[1] = "NatsAccount" /\ JWTSecret(a)[1] = "account-jwt"
    BY <1>1, AccountKinds DEF Account, JWTSecret
  <2>3. store[Account(a)] = NewAccount(Budget, l[Account(a)[2]]) /\ store[JWTSecret(a)] = Absent
    BY <2>1, <2>2
  <2>4. store[Account(a)] # Absent
    <3>1. NewAccount(Budget, l[Account(a)[2]]) \in AccountObject
      BY <1>1, SpecAssumption DEF NewAccount, AccountObject, Account, Seeds
    <3>2. Absent \notin AccountObject
      BY <1>1, AccountKinds, AbsentAssumption
    <3> QED
      BY <2>3, <3>1, <3>2
  <2> QED
    BY <2>3, <2>4 DEF NewAccount
<1>2. [a \in Accounts |-> Account(a) \in current["account"]] \in [Accounts -> BOOLEAN]
  <2>1. ASSUME NEW a \in Accounts
        PROVE  (Account(a) \in current["account"]) \in BOOLEAN
    BY Z3
  <2> QED
    BY <2>1
<1> QED
  BY <1>1, <1>2 DEF Identity!Init, Exists

(* What is announced and stored is of the types AccountIdentity gives it.  *)
LEMMA MappedTypes ==
  ASSUME LifeInv'
  PROVE  Identity!IdentityTypeOK'
<1>1. ASSUME NEW a \in Accounts
      PROVE  /\ Living(a)' \in BOOLEAN /\ Informed(a)' \in BOOLEAN /\ Told(a)' \in BOOLEAN
             /\ Key(a)' \in Seeds \cup {Absent} /\ ID(a)' \in Seeds
  <2>1. /\ store'[Account(a)] \in AccountObject \cup {Absent}
        /\ store'[JWTSecret(a)] \in AccountSecret \cup {Absent}
    BY AccountKinds DEF LifeInv, RememberInv, TypeOK, ClusterTypeOK
  <2>2. Living(a)' \in BOOLEAN /\ Informed(a)' \in BOOLEAN
    BY DEF Living, Informed, Exists
  <2>3. Told(a)' \in BOOLEAN
    BY Zenon DEF Told
  <2>4. Key(a)' \in Seeds \cup {Absent} /\ ID(a)' \in Seeds
    BY <2>1 DEF Key, ID, Exists, AccountObject, AccountSecret, Seeds
  <2> QED
    BY <2>2, <2>3, <2>4
<1> QED
  BY <1>1 DEF Identity!IdentityTypeOK, Key, ID, Told, Living, Informed, Seeds

(* The account controller, with its retries, lost answers, crashes and     *)
(* stale reads of every kind, and whatever is deleted, lost and created    *)
(* again meanwhile, implements AccountIdentity                             *)
(* (natsaccount_controller.go:141-269).                                    *)
THEOREM IdentityImplemented == Spec => IdentityRefined
<1>1. LifeInv /\ [Next]_vars => [Identity!Next]_(Identity!identityVars)
  <2> SUFFICES ASSUME LifeInv, [Next]_vars
               PROVE  Identity!Next
    OBVIOUS
  <2>1. LifeInv' /\ LivesOn
    BY NextLives
  <2>2. Identity!IdentityTypeOK'
    BY <2>1, MappedTypes
  <2>3. ASSUME NEW a \in Accounts
        PROVE  \/ Identity!Stays(a) \/ Identity!Choose(a) \/ Identity!Judge(a)
               \/ Identity!Lose(a) \/ Identity!Retire(a) \/ Identity!Appear(a)
    <3>1. Lives(a)
      BY <2>1 DEF LivesOn
    <3> QED
      BY <3>1 DEF Lives, Stays, Unmoved, Chooses, Judges, Loses, Retires, Appears, Settled,
                  Living, Key, ID, Told, Informed, Seeds, Identity!Settled, Identity!Lives,
                  Identity!Stays, Identity!Choose, Identity!Judge, Identity!Lose,
                  Identity!Retire, Identity!Appear
  <2> QED
    BY <2>2, <2>3 DEF Identity!Next
<1>2. IdentityRefined <=> Identity!Init /\ [][Identity!Next]_(Identity!identityVars)
  BY DEF IdentityRefined, Identity!Spec
<1> QED
  BY <1>1, <1>2, InitIdentity, InitLife, NextLives, PTL DEF Spec

(* Neither a retry, nor a crash, nor a stale copy makes the operator       *)
(* replace a seed the status announces, unless the copy of the account is  *)
(* out of date; then the new key is never announced.                       *)
THEOREM AnnouncedSeedSafe == Spec => AnnouncedSeedKept
<1>1. LifeInv /\ [Next]_vars =>
        [Operating => \A a \in Accounts :
           LET before == store[JWTSecret(a)]
               after  == store'[JWTSecret(a)]
           IN  before # Absent /\ after # Absent /\ after # before /\ before.seed # NoKey
                 /\ Exists(Account(a))
               => \/ before.seed = after.seed
                  \/ store[Account(a)].id # before.seed
                  \/ Account(a) \notin current["account"]]_vars
  <2> SUFFICES ASSUME LifeInv, [Next]_vars, NEW a \in Accounts,
                      store[JWTSecret(a)] # Absent, store'[JWTSecret(a)] # Absent,
                      store[JWTSecret(a)].seed # NoKey, Exists(Account(a))
               PROVE  \/ store[JWTSecret(a)].seed = store'[JWTSecret(a)].seed
                      \/ store[Account(a)].id # store[JWTSecret(a)].seed
                      \/ Account(a) \notin current["account"]
    OBVIOUS
  <2>1. Lives(a)
    BY NextLives DEF LivesOn
  <2>2. LifeInv'
    BY NextLives
  <2>3. store'[JWTSecret(a)] \in AccountSecret
    BY <2>2, AccountKinds DEF LifeInv, RememberInv, TypeOK, ClusterTypeOK
  <2>4. store'[JWTSecret(a)].seed # Absent
    BY <2>3, AbsentAssumption DEF AccountSecret
  <2> QED
    BY <2>1, <2>4 DEF Lives, Stays, Chooses, Judges, Loses, Retires, Appears, Settled, Key, ID,
                      Informed, Exists
<1> QED
  BY <1>1, InitLife, NextLives, PTL DEF Spec, AnnouncedSeedKept

(* An account ID is given up for another one only after the seed it stands *)
(* for was lost, or replaced.                                              *)
THEOREM IdentityStable == Spec => IdentityKept
<1>1. LifeInv /\ [Next]_vars =>
        [\A a \in Accounts :
           Exists(Account(a)) /\ store'[Account(a)] # Absent
             /\ store'[Account(a)].uid = store[Account(a)].uid
             /\ store[Account(a)].id # NoKey
             /\ store'[Account(a)].id # store[Account(a)].id
           => ~Exists(JWTSecret(a)) \/ store[JWTSecret(a)].seed # store[Account(a)].id]_vars
  <2> SUFFICES ASSUME LifeInv, [Next]_vars, NEW a \in Accounts,
                      Exists(Account(a)), store'[Account(a)] # Absent,
                      store[Account(a)].id # NoKey,
                      store'[Account(a)].id # store[Account(a)].id,
                      Exists(JWTSecret(a))
               PROVE  store[JWTSecret(a)].seed # store[Account(a)].id
    OBVIOUS
  <2>1. Lives(a)
    BY NextLives DEF LivesOn
  <2> QED
    BY <2>1 DEF Lives, Stays, Unmoved, Chooses, Judges, Loses, Retires, Appears, Settled, Living,
                Key, ID, Exists
<1> QED
  BY <1>1, InitLife, NextLives, PTL DEF Spec, IdentityKept

=============================================================================
