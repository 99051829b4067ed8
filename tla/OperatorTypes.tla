--------------------------- MODULE OperatorTypes ---------------------------
(***************************************************************************)
(* Type correctness of the operator, for every set of accounts, pool of    *)
(* keys, lag and budget: Spec => []TypeOK.                                 *)
(***************************************************************************)
EXTENDS OperatorProperties, TLAPS

-----------------------------------------------------------------------------
(* Objects and what may be stored under them.                              *)

LEMMA AccountKinds ==
  \A a \in Accounts :
    /\ Account(a) \in Objects /\ Content(Account(a)) = AccountObject
    /\ JWTSecret(a) \in Objects /\ Content(JWTSecret(a)) = AccountSecret
    /\ ImportedSeed(a) \in Objects /\ Content(ImportedSeed(a)) = SeedSecret
    /\ Account(a) \in Requests
BY DEF Account, JWTSecret, ImportedSeed, Objects, Requests, Content

LEMMA ConfigKinds ==
  /\ AuthConfig \in Objects /\ Content(AuthConfig) = ConfigObject
  /\ OperatorSeed \in Objects /\ Content(OperatorSeed) = OperatorSecret
  /\ ImportedOperator \in Objects /\ Content(ImportedOperator) = OperatorImport
  /\ ServerSecret \in Objects /\ Content(ServerSecret) = ServerObject
  /\ ServerConfigMap \in Objects /\ Content(ServerConfigMap) = ServerObject
  /\ AuthConfig \in Requests
BY DEF AuthConfig, OperatorSeed, ImportedOperator, ServerSecret, ServerConfigMap,
       Objects, Requests, Content

LEMMA WatchersAreRequests == \A o \in Objects : Watchers(o) \subseteq Requests
BY DEF Watchers, Objects, Requests, Account, JWTSecret, ImportedSeed, AuthConfig,
       OperatorSeed, ImportedOperator, ServerSecret, ServerConfigMap

(* The informers hold nothing but objects.                                 *)
LEMMA CachedType ==
  ASSUME ClusterTypeOK, NEW o \in Objects
  PROVE  Cached(o) \in Content(o) \cup {Absent}
BY DEF ClusterTypeOK, Cached

-----------------------------------------------------------------------------
(* The part of the type invariant a write can disturb.                     *)
StoreTypeOK ==
  /\ DOMAIN store = Objects
  /\ \A o \in Objects : store[o] \in Content(o) \cup {Absent}
  /\ current \in [Holders -> SUBSET Objects]
  /\ due \subseteq Requests

LEMMA PutType ==
  ASSUME ClusterTypeOK, NEW h, NEW o \in Objects, NEW v \in Content(o) \cup {Absent},
         NEW held, Put(h, o, v, held)
  PROVE  StoreTypeOK'
BY WatchersAreRequests DEF ClusterTypeOK, StoreTypeOK, Put, Holders

LEMMA DropType ==
  ASSUME ClusterTypeOK, NEW h, NEW held, UNCHANGED <<store, due>>,
         current' = [current EXCEPT ![h] = @ \cap held]
  PROVE  StoreTypeOK'
BY DEF ClusterTypeOK, StoreTypeOK, Holders

LEMMA GotType ==
  ASSUME ClusterTypeOK, NEW h, NEW held, NEW objs \in SUBSET Objects,
         UNCHANGED store, due' \subseteq due, Got(h, held, objs)
  PROVE  StoreTypeOK'
BY DEF ClusterTypeOK, StoreTypeOK, Holders, Got

LEMMA BackoffType ==
  ASSUME ClusterTypeOK, NEW r \in Requests, Backoff(r) \/ RequeueAfter(r)
  PROVE  timer' \in [Requests -> Timers]
BY DEF ClusterTypeOK, Timers, Backoff, RequeueAfter

-----------------------------------------------------------------------------
(* What a write that h sends can do to the cluster, whatever the answer.   *)
Sent(h, o, allowed, v, held) ==
  /\ UNCHANGED <<cache, process>>
  /\ \/ allowed /\ (Put(h, o, v, held) \/ Put(h, o, v, held \ {o}))
     \/ UNCHANGED <<store, due>> /\ current' = [current EXCEPT ![h] = @ \cap held]
  /\ budget' = budget \/ Disturb("fault")

LEMMA SentType ==
  ASSUME ClusterTypeOK,
         NEW h, NEW o \in Objects, NEW v \in Content(o) \cup {Absent}, NEW held,
         NEW allowed, Sent(h, o, allowed, v, held), timer' \in [Requests -> Timers]
  PROVE  ClusterTypeOK'
<1>1. budget' \in 0..Budget
  BY SpecAssumption DEF ClusterTypeOK, Sent, Disturb
<1>2. StoreTypeOK'
  BY PutType, DropType DEF Sent
<1> QED
  BY <1>1, <1>2 DEF ClusterTypeOK, StoreTypeOK, Sent

-----------------------------------------------------------------------------
(* The account controller, one lemma per action.                           *)

(* While a reconciliation runs there is an account in hand.                *)
LEMMA AccountInHand ==
  ASSUME TypeOK, apc # "idle"
  PROVE  /\ areq \in Accounts /\ aobj \in AccountObject
         /\ Account(areq) \in Objects /\ Content(Account(areq)) = AccountObject
         /\ JWTSecret(areq) \in Objects /\ Content(JWTSecret(areq)) = AccountSecret
         /\ ImportedSeed(areq) \in Objects /\ Content(ImportedSeed(areq)) = SeedSecret
         /\ Account(areq) \in Requests
BY AccountKinds DEF TypeOK, AccountWorkerTypeOK

(* How a step of Reconcile may end.                                        *)
AccountEnds ==
  \/ \E pc \in {"read", "status", "release"}, obj \in AccountObject, err \in BOOLEAN :
       Proceed(pc, obj, Absent, Absent, err)
  \/ \E obj \in AccountObject, conf \in ConfigObject : Proceed("trigger", obj, conf, Absent, FALSE)
  \/ AccountRetries
  \/ AccountForgets
  \/ AccountWaits

LEMMA AccountEndsType ==
  ASSUME TypeOK, apc # "idle", AccountEnds
  PROVE  AccountWorkerTypeOK' /\ timer' \in [Requests -> Timers]
<1>1. ClusterTypeOK /\ AccountWorkerTypeOK /\ areq \in Accounts /\ Account(areq) \in Requests
  BY AccountInHand DEF TypeOK
<1>2. timer' \in [Requests -> Timers]
  BY <1>1, BackoffType DEF ClusterTypeOK, AccountEnds, Proceed, AccountRetries, AccountForgets, AccountWaits
<1>3. AccountWorkerTypeOK'
  BY <1>1 DEF AccountWorkerTypeOK, AccountSteps, AccountEnds, Proceed, AccountRetries,
              AccountForgets, AccountWaits, AccountReturns
<1> QED
  BY <1>2, <1>3

LEMMA SerialisedType ==
  ASSUME NEW obj \in AccountObject
  PROVE  Serialised([obj EXCEPT !.fin = TRUE]) \in AccountObject
BY SpecAssumption DEF AccountObject, Serialised, Resent

LEMMA FailedType ==
  ASSUME NEW obj \in AccountObject
  PROVE  Failed(obj) \in AccountObject /\ Succeeded(obj) \in AccountObject
BY DEF AccountObject, Failed, Succeeded

LEMMA FinalizeAccountType ==
  ASSUME TypeOK, FinalizeAccount
  PROVE  ClusterTypeOK' /\ AccountWorkerTypeOK'
<1> DEFINE obj == Serialised([aobj EXCEPT !.fin = TRUE])
<1>1. apc = "finalize" /\ obj \in AccountObject
  BY AccountInHand, SerialisedType DEF FinalizeAccount
<1>2. \E allowed : Sent("account", Account(areq), allowed, obj, {Account(areq)})
  BY DEF FinalizeAccount, Update, Send, Sent
<1>3. AccountEnds
  BY <1>1 DEF FinalizeAccount, Update, Send, AccountEnds
<1> HIDE DEF obj
<1> QED
  BY <1>1, <1>2, <1>3, AccountInHand, AccountEndsType, SentType DEF TypeOK

LEMMA StoreAccountSecretType ==
  ASSUME TypeOK, StoreAccountSecret
  PROVE  ClusterTypeOK' /\ AccountWorkerTypeOK'
<1> DEFINE announced == [aobj EXCEPT !.id = adraft.jwt.sub]
<1>1. apc \in {"create", "update"} /\ adraft \in AccountSecret /\ aconf \in ConfigObject
  BY DEF TypeOK, AccountWorkerTypeOK, StoreAccountSecret
<1>2. announced \in AccountObject /\ Failed(aobj) \in AccountObject
  BY <1>1, AccountInHand, FailedType DEF AccountObject, AccountSecret, AccountJWT
<1>3. \E allowed : Sent("account", JWTSecret(areq), allowed, adraft, {Account(areq), AuthConfig})
  BY DEF StoreAccountSecret, Create, Update, Send, Sent
<1>4. Proceed("trigger", announced, aconf, Absent, FALSE) \/ GiveUp(aobj)
  BY DEF StoreAccountSecret, Create, Update, Send
<1> HIDE DEF announced
<1>5. AccountEnds
  BY <1>1, <1>2, <1>4 DEF GiveUp, AccountEnds
<1> QED
  BY <1>1, <1>3, <1>5, AccountInHand, AccountEndsType, SentType DEF TypeOK

LEMMA TriggerConfigType ==
  ASSUME TypeOK, TriggerConfig
  PROVE  ClusterTypeOK' /\ AccountWorkerTypeOK'
<1>1. apc = "trigger" /\ aconf \in ConfigObject
  BY DEF TypeOK, AccountWorkerTypeOK, TriggerConfig
<1>2. \E allowed : Sent("account", AuthConfig, allowed, aconf, {Account(areq)})
  BY DEF TriggerConfig, Update, Send, Sent
<1>3. Proceed("status", Succeeded(aobj), Absent, Absent, FALSE) \/ GiveUp(aobj)
  BY DEF TriggerConfig, Update, Send
<1>4. AccountEnds
  BY <1>1, <1>3, AccountInHand, FailedType DEF GiveUp, AccountEnds
<1> QED
  BY <1>1, <1>2, <1>4, ConfigKinds, AccountEndsType, SentType DEF TypeOK

LEMMA SaveAccountStatusType ==
  ASSUME TypeOK, SaveAccountStatus
  PROVE  ClusterTypeOK' /\ AccountWorkerTypeOK'
<1> DEFINE saved == [store[Account(areq)] EXCEPT
             !.id = aobj.id, !.ready = aobj.ready, !.observed = aobj.observed]
           allowed == Exists(Account(areq)) /\ Account(areq) \in current["account"]
<1>1. apc = "status"
  BY DEF SaveAccountStatus
<1>2. allowed => saved \in AccountObject
  <2>1. aobj.id \in Seeds /\ aobj.ready \in BOOLEAN /\ aobj.observed \in BOOLEAN
    BY <1>1, AccountInHand DEF AccountObject
  <2>2. allowed => store[Account(areq)] \in AccountObject
    BY <1>1, AccountInHand DEF Exists, TypeOK, ClusterTypeOK
  <2> QED
    BY <2>1, <2>2 DEF AccountObject
<1>3. Sent("account", Account(areq), allowed, saved, {})
  BY DEF SaveAccountStatus, Update, Send, Sent
<1>4. AccountEnds
  BY DEF SaveAccountStatus, Update, Send, AccountEnds
<1> HIDE DEF saved, allowed
<1>5. Sent("account", Account(areq), TRUE, IF allowed THEN saved ELSE Absent, {})
  BY <1>3 DEF Sent
<1> QED
  BY <1>1, <1>2, <1>4, <1>5, AccountInHand, AccountEndsType, SentType DEF TypeOK

LEMMA UntriggerConfigType ==
  ASSUME TypeOK, UntriggerConfig
  PROVE  ClusterTypeOK' /\ AccountWorkerTypeOK'
<1>1. apc = "untrigger" /\ aconf \in ConfigObject
  BY DEF TypeOK, AccountWorkerTypeOK, UntriggerConfig
<1>2. \E allowed : Sent("account", AuthConfig, allowed, aconf, {Account(areq)})
  BY DEF UntriggerConfig, Update, Send, Sent
<1>3. Proceed("release", aobj, Absent, Absent, FALSE)
  BY DEF UntriggerConfig, Update, Send
<1>4. AccountEnds
  BY <1>1, <1>3, AccountInHand DEF AccountEnds
<1> QED
  BY <1>1, <1>2, <1>4, ConfigKinds, AccountEndsType, SentType DEF TypeOK

LEMMA ReleaseAccountType ==
  ASSUME TypeOK, ReleaseAccount
  PROVE  ClusterTypeOK' /\ AccountWorkerTypeOK'
<1>1. apc = "release"
  BY DEF ReleaseAccount
<1>2. \E allowed : Sent("account", Account(areq), allowed, Absent, {})
  BY DEF ReleaseAccount, Update, Send, Sent
<1>3. AccountEnds
  BY DEF ReleaseAccount, Update, Send, AccountEnds
<1> QED
  BY <1>1, <1>2, <1>3, AccountInHand, AccountEndsType, SentType DEF TypeOK

LEMMA FetchAccountType ==
  ASSUME TypeOK, NEW a \in Accounts, FetchAccount(a)
  PROVE  ClusterTypeOK' /\ AccountWorkerTypeOK'
<1> DEFINE obj == Cached(Account(a))
<1>1. obj \in AccountObject \cup {Absent} /\ Cached(AuthConfig) \in ConfigObject \cup {Absent}
  BY AccountKinds, ConfigKinds, CachedType DEF TypeOK
<1>2. {Account(a)} \subseteq Objects /\ {Account(a), AuthConfig} \subseteq Objects
  BY AccountKinds, ConfigKinds
<1>3. apc = "idle" /\ ClusterTypeOK /\ AccountWorkerTypeOK
  BY DEF FetchAccount, TypeOK
<1>4. due' \subseteq due /\ UNCHANGED <<store, cache, timer, process, budget, adraft, aerr>>
  BY DEF FetchAccount
<1> HIDE DEF obj
<1>5. CASE obj = Absent /\ UNCHANGED <<current, apc, areq, aobj, aconf>>
  BY <1>3, <1>4, <1>5 DEF ClusterTypeOK, AccountWorkerTypeOK
<1>6. CASE /\ obj # Absent
           /\ areq' = a /\ aobj' = obj /\ aconf' = Cached(AuthConfig)
           /\ apc' = IF aconf' = Absent THEN "release" ELSE "untrigger"
           /\ Got("account", {}, {Account(a), AuthConfig})
  <2>1. StoreTypeOK'
    BY <1>2, <1>3, <1>4, <1>6, GotType
  <2> QED
    BY <1>1, <1>3, <1>4, <1>6, <2>1, AbsentAssumption
       DEF ClusterTypeOK, StoreTypeOK, AccountWorkerTypeOK, AccountSteps
<1>7. CASE /\ obj # Absent
           /\ areq' = a /\ aobj' = obj
           /\ apc' = IF obj.fin THEN "read" ELSE "finalize"
           /\ Got("account", {}, {Account(a)})
           /\ UNCHANGED aconf
  <2>1. StoreTypeOK'
    BY <1>2, <1>3, <1>4, <1>7, GotType
  <2> QED
    BY <1>1, <1>3, <1>4, <1>7, <2>1
       DEF ClusterTypeOK, StoreTypeOK, AccountWorkerTypeOK, AccountSteps
<1> QED
  BY <1>5, <1>6, <1>7 DEF FetchAccount, obj

(* Steps that read: nothing is written, and Reconcile goes on.             *)
LEMMA ReadType ==
  ASSUME TypeOK, UNCHANGED <<store, cache, due, process, budget>>,
         NEW h, NEW held, NEW objs \in SUBSET Objects, Got(h, held, objs),
         timer' \in [Requests -> Timers]
  PROVE  ClusterTypeOK'
BY GotType DEF TypeOK, ClusterTypeOK, StoreTypeOK

LEMMA RejectOrSkipType ==
  ASSUME TypeOK, RejectAccount \/ SkipAccount
  PROVE  ClusterTypeOK' /\ AccountWorkerTypeOK'
<1>1. apc = "read" /\ UNCHANGED <<store, cache, due, process, budget>>
  BY DEF RejectAccount, SkipAccount, AccountReads
<1>2. AccountEnds
  BY <1>1, AccountInHand, FailedType DEF RejectAccount, SkipAccount, GiveUp, AccountEnds
<1>3. Got("account", {Account(areq)}, {})
  BY DEF RejectAccount, SkipAccount
<1> QED
  BY <1>1, <1>2, <1>3, AccountEndsType, ReadType

LEMMA PanicOnAccountType ==
  ASSUME TypeOK, PanicOnAccount
  PROVE  ClusterTypeOK' /\ AccountWorkerTypeOK'
BY DEF TypeOK, ClusterTypeOK, AccountWorkerTypeOK, PanicOnAccount, AccountReads, accountWorker

(* What is signed is a proper secret: the seed, and a JWT of its key.      *)
LEMMA SignedSecretType ==
  ASSUME NEW obj \in AccountObject, NEW owner \in 0..Budget, NEW seed \in Seeds,
         NEW signer \in Operators, NEW fresh \in AccountKeys
  PROVE  SignedSecret(obj, owner, seed, signer, fresh) \in AccountSecret
BY DEF SignedSecret, KeyOf, AccountSecret, AccountJWT, AccountObject, Seeds

LEMMA SignAccountType ==
  ASSUME TypeOK, NEW keys \in SUBSET AccountKeys, NEW signers \in SUBSET OperatorKeys,
         SignAccount(keys, signers)
  PROVE  ClusterTypeOK' /\ AccountWorkerTypeOK'
<1> DEFINE conf == Cached(AuthConfig)
           secret == Cached(JWTSecret(areq))
           step == IF secret = Absent THEN "create" ELSE "update"
           owner == IF secret = Absent THEN aobj.uid ELSE secret.owner
           source == OperatorSource(conf.spec)
<1>1. apc = "read" /\ UNCHANGED <<store, cache, due, process, budget>>
  BY DEF SignAccount, AccountReads
<1>2. conf \in ConfigObject
  BY ConfigKinds, CachedType DEF TypeOK, SignAccount, SupportsAccounts
<1>3. owner \in 0..Budget
  <2>1. secret \in AccountSecret \cup {Absent} /\ aobj \in AccountObject
    BY <1>1, AccountInHand, CachedType DEF TypeOK
  <2> QED
    BY <2>1 DEF AccountObject, AccountSecret
<1>4. Cached(source).key \in Operators
  <2>1. /\ Cached(OperatorSeed) \in OperatorSecret \cup {Absent}
        /\ Cached(ImportedOperator) \in OperatorImport \cup {Absent}
    BY ConfigKinds, CachedType DEF TypeOK
  <2>2. Cached(source) # Absent /\ source \in {OperatorSeed, ImportedOperator}
    BY DEF SignAccount, SeedMissing, OperatorSource
  <2> QED
    BY <2>1, <2>2 DEF OperatorSecret, OperatorImport
<1>5. \A key \in keys : SeedFor(areq, key) \in Seeds
  <2>1. Cached(ImportedSeed(areq)) \in SeedSecret \cup {Absent}
    BY <1>1, AccountInHand, CachedType DEF TypeOK
  <2>2. areq \in Imports => Cached(ImportedSeed(areq)) # Absent
    BY DEF SignAccount, SeedMissing
  <2> QED
    BY <2>1, <2>2 DEF SeedFor, SeedSecret, Seeds
<1>6. PICK key \in keys, signer \in signers :
        Proceed(step, aobj, conf,
                SignedSecret(aobj, owner, SeedFor(areq, key), KeyOf(Cached(source).key, signer), key), FALSE)
  BY DEF SignAccount
<1>7. KeyOf(Cached(source).key, signer) \in Operators
  BY <1>4 DEF KeyOf, Operators
<1> HIDE DEF conf, owner, source
<1>8. SignedSecret(aobj, owner, SeedFor(areq, key), KeyOf(Cached(source).key, signer), key) \in AccountSecret
  BY <1>1, <1>3, <1>5, <1>7, AccountInHand, SignedSecretType
<1>9. AccountWorkerTypeOK' /\ UNCHANGED timer
  BY <1>1, <1>2, <1>6, <1>8, AccountInHand DEF Proceed, TypeOK, AccountWorkerTypeOK, AccountSteps
<1>10. Got("account", {Account(areq)}, {AuthConfig, JWTSecret(areq)})
  BY DEF SignAccount
<1> QED
  BY <1>1, <1>9, <1>10, AccountInHand, ConfigKinds, ReadType DEF TypeOK, ClusterTypeOK

LEMMA AccountStepType ==
  ASSUME TypeOK, AccountStep
  PROVE  TypeOK'
<1>1. FreshAccountKeys \in SUBSET AccountKeys /\ FreshOperatorKeys \in SUBSET OperatorKeys
  BY DEF FreshAccountKeys, FreshOperatorKeys, Fresh
<1>2. ClusterTypeOK' /\ AccountWorkerTypeOK'
  BY <1>1, FetchAccountType, FinalizeAccountType, RejectOrSkipType, PanicOnAccountType,
     SignAccountType, StoreAccountSecretType, TriggerConfigType, SaveAccountStatusType,
     UntriggerConfigType, ReleaseAccountType
     DEF AccountStep, AccountReconcile
<1>3. ConfigWorkerTypeOK'
  BY DEF TypeOK, ConfigWorkerTypeOK, AccountStep, configWorker
<1> QED
  BY <1>2, <1>3 DEF TypeOK

-----------------------------------------------------------------------------
(* The configuration controller, one lemma per action.                     *)

LEMMA ConfigInHand ==
  ASSUME TypeOK, cpc # "idle"
  PROVE  /\ cobj \in ConfigObject /\ cobj.spec.jwt \in {"generate", "import", "none"}
         /\ Target(cobj.spec) \in {ServerSecret, ServerConfigMap}
BY SpecAssumption DEF TypeOK, ConfigWorkerTypeOK, ConfigObject, Target

ConfigEnds ==
  \/ \E pc \in {"mode", "seed", "found", "list", "status"}, obj \in ConfigObject, key \in Operators,
        ends \in {"ready", "invalid", "error"} : ProceedConfig(pc, obj, key, Absent, ends)
  \/ \E pc \in {"create", "update"}, key \in Operators, draft \in ServerObject :
        ProceedConfig(pc, cobj, key, draft, "ready")
  \/ ConfigRetries
  \/ ConfigForgets
  \/ ConfigWaits

LEMMA ConfigEndsType ==
  ASSUME TypeOK, cpc # "idle", ConfigEnds
  PROVE  ConfigWorkerTypeOK' /\ timer' \in [Requests -> Timers]
<1>1. ClusterTypeOK /\ ConfigWorkerTypeOK /\ AuthConfig \in Requests /\ cobj \in ConfigObject
  BY ConfigInHand, ConfigKinds DEF TypeOK
<1>2. timer' \in [Requests -> Timers]
  BY <1>1, BackoffType
     DEF ClusterTypeOK, ConfigEnds, ProceedConfig, ConfigRetries, ConfigForgets, ConfigWaits
<1>3. ConfigWorkerTypeOK'
  BY <1>1 DEF ConfigWorkerTypeOK, ConfigSteps, ConfigEnds, ProceedConfig, ConfigRetries,
              ConfigForgets, ConfigWaits, ConfigReturns, Operators
<1> QED
  BY <1>2, <1>3

LEMMA ConfigVerdicts ==
  ASSUME NEW obj \in ConfigObject,
         ConfigFails(obj) \/ ConfigInvalid(obj) \/ ConfigSucceeds(obj)
  PROVE  ConfigEnds
<1>1. /\ [obj EXCEPT !.ready = FALSE, !.observed = TRUE] \in ConfigObject
      /\ [obj EXCEPT !.ready = FALSE] \in ConfigObject
      /\ [obj EXCEPT !.ready = TRUE, !.observed = TRUE] \in ConfigObject
  BY DEF ConfigObject
<1> QED
  BY <1>1 DEF ConfigFails, ConfigInvalid, ConfigSucceeds, ConfigEnds, Operators

LEMMA FetchConfigType ==
  ASSUME TypeOK, FetchConfig
  PROVE  ClusterTypeOK' /\ ConfigWorkerTypeOK'
<1> DEFINE obj == Cached(AuthConfig)
<1>1. obj \in ConfigObject \cup {Absent} /\ {AuthConfig} \subseteq Objects
  BY ConfigKinds, CachedType DEF TypeOK
<1>2. /\ cpc = "idle" /\ ClusterTypeOK /\ ConfigWorkerTypeOK
      /\ due' \subseteq due /\ UNCHANGED <<store, cache, timer, process, budget, ckey, cdraft, clist, cends>>
  BY DEF FetchConfig, TypeOK
<1> HIDE DEF obj
<1>3. CASE obj = Absent /\ UNCHANGED <<current, cpc, cobj>>
  BY <1>2, <1>3 DEF ClusterTypeOK, ConfigWorkerTypeOK
<1>4. CASE /\ obj # Absent /\ cobj' = obj /\ Got("config", {}, {AuthConfig})
           /\ cpc' = IF obj.deleting THEN "release" ELSE IF obj.fin THEN "mode" ELSE "finalize"
  <2>1. StoreTypeOK'
    BY <1>1, <1>2, <1>4, GotType
  <2> QED
    BY <1>1, <1>2, <1>4, <2>1 DEF ClusterTypeOK, StoreTypeOK, ConfigWorkerTypeOK, ConfigSteps
<1> QED
  BY <1>3, <1>4 DEF FetchConfig, obj

LEMMA FinalizeConfigType ==
  ASSUME TypeOK, FinalizeConfig
  PROVE  ClusterTypeOK' /\ ConfigWorkerTypeOK'
<1> DEFINE obj == [cobj EXCEPT !.fin = TRUE]
<1>1. cpc = "finalize" /\ obj \in ConfigObject
  BY ConfigInHand DEF FinalizeConfig, ConfigObject
<1>2. \E allowed : Sent("config", AuthConfig, allowed, obj, {AuthConfig})
  BY DEF FinalizeConfig, Update, Send, Sent
<1>3. ConfigEnds
  BY <1>1 DEF FinalizeConfig, Update, Send, ConfigEnds, Operators
<1> HIDE DEF obj
<1> QED
  BY <1>1, <1>2, <1>3, ConfigKinds, ConfigEndsType, SentType DEF TypeOK

LEMMA WithAuthConfType ==
  ASSUME NEW existing \in ServerObject \cup {Absent}
  PROVE  WithAuthConf(existing) \in ServerObject
BY DEF WithAuthConf, ServerObject, JWTs

LEMMA ChooseModeType ==
  ASSUME TypeOK, ChooseMode
  PROVE  ClusterTypeOK' /\ ConfigWorkerTypeOK'
<1> DEFINE existing == Cached(Target(cobj.spec))
           import == Cached(ImportedOperator)
<1>1. cpc = "mode" /\ UNCHANGED <<store, cache, due, process, budget>>
  BY DEF ChooseMode
<1>2. /\ cobj \in ConfigObject /\ Target(cobj.spec) \in Objects
      /\ WithAuthConf(existing) \in ServerObject
      /\ import \in OperatorImport \cup {Absent}
  BY <1>1, ConfigInHand, ConfigKinds, CachedType, WithAuthConfType DEF TypeOK
<1>3. import # Absent => import.key \in Operators
  BY <1>2 DEF OperatorImport
<1>4. ConfigEnds
  <2>1. CASE ConfigFails(cobj) \/ ConfigInvalid(cobj)
    BY <2>1, <1>2, ConfigVerdicts
  <2>2. CASE ProceedConfig(IF existing = Absent THEN "create" ELSE "update",
                           cobj, NoKey, WithAuthConf(existing), "ready")
    BY <2>2, <1>2 DEF ConfigEnds, Operators
  <2>3. CASE ProceedConfig("seed", cobj, NoKey, Absent, "ready")
    BY <2>3, <1>2 DEF ConfigEnds, Operators
  <2>4. CASE import # Absent /\ ProceedConfig("list", cobj, import.key, Absent, "ready")
    BY <2>4, <1>2, <1>3 DEF ConfigEnds
  <2> QED
    BY <2>1, <2>2, <2>3, <2>4 DEF ChooseMode
<1>5. Got("config", {AuthConfig}, {}) \/ Got("config", {AuthConfig}, {Target(cobj.spec)})
  BY DEF ChooseMode
<1> HIDE DEF existing, import
<1> QED
  BY <1>1, <1>2, <1>4, <1>5, ConfigEndsType, ReadType

LEMMA CreateOperatorSeedType ==
  ASSUME TypeOK, NEW keys \in SUBSET OperatorKeys, CreateOperatorSeed(keys)
  PROVE  ClusterTypeOK' /\ ConfigWorkerTypeOK'
<1> DEFINE made(key) == [owner |-> cobj.uid, key |-> key]
<1>1. cpc = "seed" /\ cobj \in ConfigObject
  BY ConfigInHand DEF CreateOperatorSeed
<1>2. PICK key \in keys :
        /\ Sent("config", OperatorSeed, ~Exists(OperatorSeed), made(key), {AuthConfig})
        /\ \/ ProceedConfig("list", cobj, key, Absent, "ready")
           \/ ProceedConfig("found", cobj, NoKey, Absent, "ready")
           \/ ConfigFails(cobj)
  BY DEF CreateOperatorSeed, Send, Sent
<1>3. made(key) \in OperatorSecret
  BY <1>1 DEF ConfigObject, OperatorSecret, Operators
<1>4. ConfigEnds
  BY <1>1, <1>2, ConfigVerdicts DEF ConfigEnds, Operators
<1> HIDE DEF made
<1> QED
  BY <1>1, <1>2, <1>3, <1>4, ConfigKinds, ConfigEndsType, SentType DEF TypeOK

LEMMA ReadOperatorSeedType ==
  ASSUME TypeOK, ReadOperatorSeed
  PROVE  ClusterTypeOK' /\ ConfigWorkerTypeOK'
<1> DEFINE found == Cached(OperatorSeed)
<1>1. cpc = "found" /\ UNCHANGED <<store, cache, due, process, budget>> /\ cobj \in ConfigObject
  BY ConfigInHand DEF ReadOperatorSeed, ConfigReads
<1>2. found # Absent => found.key \in Operators
  <2>1. found \in OperatorSecret \cup {Absent}
    BY ConfigKinds, CachedType DEF TypeOK
  <2> QED
    BY <2>1 DEF OperatorSecret
<1>3. ConfigEnds
  <2>1. CASE ConfigFails(cobj)
    BY <2>1, <1>1, ConfigVerdicts
  <2>2. CASE found # Absent /\ ProceedConfig("list", cobj, found.key, Absent, "ready")
    BY <2>2, <1>1, <1>2 DEF ConfigEnds
  <2> QED
    BY <2>1, <2>2 DEF ReadOperatorSeed
<1>4. Got("config", {AuthConfig}, {})
  BY DEF ReadOperatorSeed
<1> QED
  BY <1>1, <1>3, <1>4, ConfigEndsType, ReadType

LEMMA OperatorEntryType ==
  ASSUME NEW key \in Operators
  PROVE  OperatorEntry(key) \in ServerObject
BY DEF OperatorEntry, ServerObject, JWTs

LEMMA ListAccountsType ==
  ASSUME TypeOK, NEW keys \in SUBSET OperatorKeys, ListAccounts(keys)
  PROVE  ClusterTypeOK' /\ ConfigWorkerTypeOK'
<1>1. cpc = "list" /\ UNCHANGED <<store, cache, due, process, budget, timer, cobj, cends>>
  BY DEF ListAccounts, ConfigReads
<1>2. PICK key \in Operators : ckey' = key /\ cdraft' = OperatorEntry(key)
  BY DEF ListAccounts, KeyOf, TypeOK, ConfigWorkerTypeOK, Operators
<1>3. cpc' = "collect" /\ clist' \subseteq Accounts /\ Got("config", {AuthConfig}, {})
  BY DEF ListAccounts, Listed
<1>4. ConfigWorkerTypeOK'
  BY <1>1, <1>2, <1>3, OperatorEntryType DEF TypeOK, ConfigWorkerTypeOK, ConfigSteps
<1> QED
  BY <1>1, <1>3, <1>4, ReadType DEF TypeOK, ClusterTypeOK

LEMMA CollectAccountJWTType ==
  ASSUME TypeOK, CollectAccountJWT
  PROVE  ClusterTypeOK' /\ ConfigWorkerTypeOK'
<1>1. /\ cpc = "collect" /\ UNCHANGED <<store, cache, due, process, budget, timer>>
      /\ UNCHANGED <<cpc, cobj, ckey, cends>>
  BY DEF CollectAccountJWT, ConfigReads
<1>2. PICK a \in clist :
        /\ clist' = clist \ {a}
        /\ cdraft' = IF Cached(JWTSecret(a)) = Absent THEN cdraft
                     ELSE [cdraft EXCEPT !.jwts[a] = Cached(JWTSecret(a)).jwt]
  BY DEF CollectAccountJWT
<1>3. a \in Accounts /\ cdraft \in ServerObject /\ ConfigWorkerTypeOK
  BY <1>1 DEF TypeOK, ConfigWorkerTypeOK
<1>4. Cached(JWTSecret(a)) \in AccountSecret \cup {Absent}
  BY <1>3, AccountKinds, CachedType DEF TypeOK
<1>5. cdraft' \in ServerObject
  BY <1>2, <1>3, <1>4 DEF ServerObject, AccountSecret, JWTs, Entries
<1>6. ConfigWorkerTypeOK'
  BY <1>1, <1>2, <1>3, <1>5 DEF ConfigWorkerTypeOK
<1>7. Got("config", {AuthConfig}, {})
  BY DEF CollectAccountJWT
<1> QED
  BY <1>1, <1>6, <1>7, ReadType DEF TypeOK, ClusterTypeOK

LEMMA ReadServerSecretType ==
  ASSUME TypeOK, ReadServerSecret
  PROVE  ClusterTypeOK' /\ ConfigWorkerTypeOK'
<1>1. cpc = "collect" /\ UNCHANGED <<store, cache, due, process, budget>>
  BY DEF ReadServerSecret, ConfigReads
<1>2. cdraft \in ServerObject /\ ckey \in Operators
  BY <1>1 DEF TypeOK, ConfigWorkerTypeOK
<1>3. ConfigEnds
  BY <1>2 DEF ReadServerSecret, ConfigEnds
<1>4. Got("config", {AuthConfig}, {ServerSecret})
  BY DEF ReadServerSecret
<1> QED
  BY <1>1, <1>3, <1>4, ConfigKinds, ConfigEndsType, ReadType

LEMMA PublishAggregateType ==
  ASSUME TypeOK, PublishAggregate
  PROVE  ClusterTypeOK' /\ ConfigWorkerTypeOK'
<1> DEFINE pub == IF cobj.spec.mode = "token" THEN cobj.pub ELSE ckey
           obj == [cobj EXCEPT !.pub = pub, !.resolver = TRUE]
           target == Target(cobj.spec)
<1>1. cpc \in {"create", "update"} /\ cdraft \in ServerObject /\ cobj \in ConfigObject /\ ckey \in Operators
  BY DEF PublishAggregate, TypeOK, ConfigWorkerTypeOK
<1>2. obj \in ConfigObject
  BY <1>1 DEF ConfigObject
<1>3. target \in Objects /\ Content(target) = ServerObject
  BY <1>1, ConfigInHand, ConfigKinds
<1>4. \E allowed : Sent("config", target, allowed, cdraft, {AuthConfig})
  BY DEF PublishAggregate, Create, Update, Send, Sent
<1>5. ConfigSucceeds(obj) \/ ConfigFails(cobj)
  BY DEF PublishAggregate, Create, Update, Send
<1> HIDE DEF obj, target
<1> QED
  BY <1>1, <1>2, <1>3, <1>4, <1>5, ConfigVerdicts, ConfigEndsType, SentType DEF TypeOK

LEMMA SaveConfigStatusType ==
  ASSUME TypeOK, SaveConfigStatus
  PROVE  ClusterTypeOK' /\ ConfigWorkerTypeOK'
<1> DEFINE saved == [store[AuthConfig] EXCEPT
             !.pub = cobj.pub, !.resolver = cobj.resolver,
             !.ready = cobj.ready, !.observed = cobj.observed]
           allowed == Exists(AuthConfig) /\ AuthConfig \in current["config"]
<1>1. cpc = "status"
  BY DEF SaveConfigStatus
<1>2. allowed => saved \in ConfigObject
  <2>1. /\ cobj.pub \in Operators /\ cobj.resolver \in BOOLEAN
        /\ cobj.ready \in BOOLEAN /\ cobj.observed \in BOOLEAN
    BY <1>1, ConfigInHand DEF ConfigObject
  <2>2. allowed => store[AuthConfig] \in ConfigObject
    BY ConfigKinds DEF Exists, TypeOK, ClusterTypeOK
  <2> QED
    BY <2>1, <2>2 DEF ConfigObject
<1>3. Sent("config", AuthConfig, allowed, saved, {})
  BY DEF SaveConfigStatus, Update, Send, Sent
<1>4. ConfigEnds
  BY DEF SaveConfigStatus, Update, Send, ConfigEnds
<1> HIDE DEF saved, allowed
<1>5. Sent("config", AuthConfig, TRUE, IF allowed THEN saved ELSE Absent, {})
  BY <1>3 DEF Sent
<1> QED
  BY <1>1, <1>2, <1>4, <1>5, ConfigKinds, ConfigEndsType, SentType DEF TypeOK

LEMMA ReleaseConfigType ==
  ASSUME TypeOK, ReleaseConfig
  PROVE  ClusterTypeOK' /\ ConfigWorkerTypeOK'
<1>1. cpc = "release"
  BY DEF ReleaseConfig
<1>2. \E allowed : Sent("config", AuthConfig, allowed, Absent, {})
  BY DEF ReleaseConfig, Update, Send, Sent
<1>3. ConfigEnds
  BY DEF ReleaseConfig, Update, Send, ConfigEnds
<1> QED
  BY <1>1, <1>2, <1>3, ConfigKinds, ConfigEndsType, SentType DEF TypeOK

LEMMA ConfigStepType ==
  ASSUME TypeOK, ConfigStep
  PROVE  TypeOK'
<1>1. FreshOperatorKeys \in SUBSET OperatorKeys
  BY DEF FreshOperatorKeys, Fresh
<1>2. ClusterTypeOK' /\ ConfigWorkerTypeOK'
  BY <1>1, FetchConfigType, FinalizeConfigType, ChooseModeType, CreateOperatorSeedType,
     ReadOperatorSeedType, ListAccountsType, CollectAccountJWTType, ReadServerSecretType,
     PublishAggregateType, SaveConfigStatusType, ReleaseConfigType
     DEF ConfigStep, ConfigReconcile
<1>3. AccountWorkerTypeOK'
  BY DEF TypeOK, AccountWorkerTypeOK, ConfigStep, accountWorker
<1> QED
  BY <1>2, <1>3 DEF TypeOK

-----------------------------------------------------------------------------
(* The rest of the cluster.                                                *)

LEMMA RequestKinds ==
  \A r \in Requests : r \in Objects /\ (Content(r) = AccountObject \/ Content(r) = ConfigObject)
BY AccountKinds, ConfigKinds DEF Requests

LEMMA InformersType ==
  ASSUME TypeOK, Informers
  PROVE  ClusterTypeOK'
<1>1. ASSUME NEW o \in Objects, Deliver(o)
      PROVE  ClusterTypeOK'
  BY <1>1, WatchersAreRequests DEF TypeOK, ClusterTypeOK, Deliver, Holders
<1>2. ASSUME NEW r \in Requests, TimerFires(r)
      PROVE  ClusterTypeOK'
  BY <1>2 DEF TypeOK, ClusterTypeOK, TimerFires, Timers
<1> QED
  BY <1>1, <1>2 DEF Informers

LEMMA ByUserType ==
  ASSUME TypeOK, NEW kind, NEW o \in Objects, NEW v \in Content(o) \cup {Absent},
         ByUser(kind, o, v)
  PROVE  ClusterTypeOK'
<1>1. StoreTypeOK'
  BY PutType DEF ByUser, TypeOK
<1> QED
  BY <1>1, SpecAssumption DEF ByUser, Disturb, TypeOK, ClusterTypeOK, StoreTypeOK

LEMMA EditType ==
  ASSUME TypeOK,
         \/ \E a \in Accounts, l \in Limits : EditAccount(a, l)
         \/ \E s \in ConfigSpecs : EditConfig(s)
  PROVE  ClusterTypeOK'
<1>1. ASSUME NEW a \in Accounts, NEW l \in Limits, EditAccount(a, l)
      PROVE  ClusterTypeOK'
  <2>1. store[Account(a)] \in AccountObject
    BY <1>1, AccountKinds DEF TypeOK, ClusterTypeOK, Exists, EditAccount
  <2>2. [store[Account(a)] EXCEPT !.limits = l, !.observed = FALSE] \in AccountObject
    BY <2>1 DEF AccountObject
  <2> QED
    BY <1>1, <2>2, AccountKinds, ByUserType DEF EditAccount
<1>2. ASSUME NEW s \in ConfigSpecs, EditConfig(s)
      PROVE  ClusterTypeOK'
  <2>1. store[AuthConfig] \in ConfigObject
    BY <1>2, ConfigKinds DEF TypeOK, ClusterTypeOK, Exists, EditConfig
  <2>2. [store[AuthConfig] EXCEPT !.spec = s, !.observed = FALSE] \in ConfigObject
    BY <2>1 DEF ConfigObject
  <2> QED
    BY <1>2, <2>2, ConfigKinds, ByUserType DEF EditConfig
<1> QED
  BY <1>1, <1>2

LEMMA CreateType ==
  ASSUME TypeOK,
         \/ \E a \in Accounts, l \in Limits : CreateAccount(a, l)
         \/ \E s \in ConfigSpecs : CreateConfig(s)
  PROVE  ClusterTypeOK'
<1>1. PICK o, v, kind : o \in Objects /\ ByUser(kind, o, v) /\ v \in Content(o)
  <2>1. budget' \in 0..Budget
    BY SpecAssumption DEF CreateAccount, CreateConfig, ByUser, Disturb, TypeOK, ClusterTypeOK
  <2>2. ASSUME NEW a \in Accounts, NEW l \in Limits, CreateAccount(a, l)
        PROVE  ByUser("recreate", Account(a), NewAccount(budget', l))
               /\ NewAccount(budget', l) \in AccountObject
    BY <2>1, <2>2 DEF CreateAccount, NewAccount, AccountObject, Seeds
  <2>3. ASSUME NEW s \in ConfigSpecs, CreateConfig(s)
        PROVE  ByUser("recreateConfig", AuthConfig, NewConfig(budget', s))
               /\ NewConfig(budget', s) \in ConfigObject
    BY <2>1, <2>3 DEF CreateConfig, NewConfig, ConfigObject, Operators
  <2> QED
    BY <2>2, <2>3, AccountKinds, ConfigKinds
<1> QED
  BY <1>1, ByUserType

LEMMA DeleteType ==
  ASSUME TypeOK, NEW kind, NEW o \in Requests, Delete(kind, o)
  PROVE  ClusterTypeOK'
<1>1. Exists(o) => [store[o] EXCEPT !.deleting = TRUE] \in Content(o)
  <2>1. Exists(o) => store[o] \in Content(o)
    BY RequestKinds DEF TypeOK, ClusterTypeOK, Exists
  <2> QED
    <3>1. \A v \in AccountObject : [v EXCEPT !.deleting = TRUE] \in AccountObject
      BY DEF AccountObject
    <3>2. \A v \in ConfigObject : [v EXCEPT !.deleting = TRUE] \in ConfigObject
      BY DEF ConfigObject
    <3> QED
      BY <2>1, <3>1, <3>2, RequestKinds
<1> QED
  BY <1>1, RequestKinds, ByUserType DEF Delete

LEMMA EnvironmentType ==
  ASSUME TypeOK, Environment
  PROVE  ClusterTypeOK'
<1>1. ASSUME NEW o \in Objects, CollectGarbage(o)
      PROVE  ClusterTypeOK'
  BY <1>1, PutType DEF CollectGarbage, TypeOK, ClusterTypeOK, StoreTypeOK
<1>2. ASSUME NEW o \in Objects, DeleteSecret(o)
      PROVE  ClusterTypeOK'
  BY <1>2, ByUserType DEF DeleteSecret
<1>3. ASSUME Kill
      PROVE  ClusterTypeOK'
  BY <1>3, SpecAssumption DEF Kill, Disturb, TypeOK, ClusterTypeOK
<1>4. ASSUME NEW a \in Accounts, Delete("delete", Account(a))
      PROVE  ClusterTypeOK'
  BY <1>4, AccountKinds, DeleteType
<1>5. ASSUME Delete("deleteConfig", AuthConfig)
      PROVE  ClusterTypeOK'
  BY <1>5, ConfigKinds, DeleteType
<1> QED
  BY <1>1, <1>2, <1>3, <1>4, <1>5, EditType, CreateType DEF Environment

LEMMA RestartType ==
  ASSUME TypeOK, Restart
  PROVE  TypeOK'
<1>1. ClusterTypeOK'
  BY WatchersAreRequests DEF Restart, Start, Relist, TypeOK, ClusterTypeOK, Timers, Holders
<1>2. AccountWorkerTypeOK' /\ ConfigWorkerTypeOK'
  BY DEF Restart, AccountWorkerTypeOK, AccountSteps, ConfigWorkerTypeOK, ConfigSteps, Operators
<1> QED
  BY <1>1, <1>2 DEF TypeOK

LEMMA InitType == Init => TypeOK
<1> SUFFICES ASSUME Init
             PROVE  TypeOK
  OBVIOUS
<1>1. PICK l \in [Accounts -> Limits], s \in ConfigSpecs,
           i \in [Imports -> ImportableSeeds], k \in ImportableOperators :
        store = [o \in Objects |->
          CASE o[1] = "NatsAccount"     -> NewAccount(Budget, l[o[2]])
            [] o[1] = "NatsAuthConfig"  -> NewConfig(Budget, s)
            [] o[1] = "account-seed"    -> IF o[2] \in Imports
                                             THEN [seed |-> i[o[2]]] ELSE Absent
            [] o[1] = "operator-import" -> IF \E spec \in ConfigSpecs : spec.jwt = "import"
                                             THEN [key |-> k] ELSE Absent
            [] OTHER                    -> Absent]
  BY DEF Init, ClusterInit
<1>2. /\ \A a \in Accounts : NewAccount(Budget, l[a]) \in AccountObject
      /\ NewConfig(Budget, s) \in ConfigObject
      /\ \A a \in Imports : [seed |-> i[a]] \in SeedSecret
      /\ [key |-> k] \in OperatorImport
  BY SpecAssumption DEF NewAccount, AccountObject, NewConfig, ConfigObject, SeedSecret,
                        OperatorImport, Seeds, Operators
<1>3. \A o \in Objects : store[o] \in Content(o) \cup {Absent}
  BY <1>1, <1>2 DEF Objects, Content, Account, JWTSecret, ImportedSeed, AuthConfig,
       OperatorSeed, ImportedOperator, ServerSecret, ServerConfigMap
<1>4. ClusterTypeOK
  BY <1>1, <1>3, SpecAssumption DEF Init, ClusterInit, ClusterTypeOK, Timers, Holders, Requests
<1>5. AccountWorkerTypeOK /\ ConfigWorkerTypeOK
  BY DEF Init, AccountIdle, ConfigIdle, AccountWorkerTypeOK, AccountSteps, ConfigWorkerTypeOK,
         ConfigSteps, Operators
<1> QED
  BY <1>4, <1>5 DEF TypeOK

LEMMA NextType == TypeOK /\ [Next]_vars => TypeOK'
<1> SUFFICES ASSUME TypeOK, [Next]_vars
             PROVE  TypeOK'
  OBVIOUS
<1>1. CASE ClusterStep
  BY <1>1, InformersType, EnvironmentType
     DEF ClusterStep, TypeOK, AccountWorkerTypeOK, ConfigWorkerTypeOK, accountWorker, configWorker
<1>2. CASE UNCHANGED vars
  BY <1>2 DEF vars, cluster, accountWorker, configWorker, TypeOK, ClusterTypeOK,
              AccountWorkerTypeOK, ConfigWorkerTypeOK
<1> QED
  BY <1>1, <1>2, AccountStepType, ConfigStepType, RestartType DEF Next

(* The variables of the operator keep their types: no step of Reconcile    *)
(* goes on without the objects it needs, and everything it writes to the   *)
(* API server is an object of the right kind.                              *)
THEOREM TypeCorrect == Spec => []TypeOK
BY InitType, NextType, PTL DEF Spec

=============================================================================
