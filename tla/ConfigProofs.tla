---------------------------- MODULE ConfigProofs ----------------------------
(***************************************************************************)
(* What the servers are given: everything is signed by one operator key,   *)
(* and a configuration that is Ready has published what its spec asks for. *)
(***************************************************************************)
EXTENDS IdentityProofs

-----------------------------------------------------------------------------
(* One operator: the provisos, and the inductive invariant.                *)

(* The secret that holds the key never changes: every spec imports the     *)
(* operator's seed, and the secret has one; or none does, the generated    *)
(* seed is not deleted, and no second configuration inherits it.           *)
Imported == \E s \in ConfigSpecs : s.jwt = "import"
OneSource ==
  IF Imported THEN (\A s \in ConfigSpecs : s.jwt = "import") /\ NoKey \notin ImportableOperators
              ELSE {"operator-seed", "recreateConfig"} \cap Disturbances = {}

Source == IF Imported THEN ImportedOperator ELSE OperatorSeed
TheKey == IF Exists(Source) THEN store[Source].key ELSE NoKey

(* A generated key is collected with its configuration, and then nothing   *)
(* is said of what it signed.                                              *)
KeyMatters == Imported \/ Exists(AuthConfig)

SignedBy(k, j) == j # Absent => j.iss = k /\ k # NoKey

(* What o may hold when k is the operator's key, NoKey before there is one. *)
Clean(k, o, v) ==
  v # Absent =>
    /\ o[1] = "account-jwt" => SignedBy(k, v.jwt)
    /\ o[1] = "server-auth" => \A n \in Entries : SignedBy(k, v.jwts[n])
    /\ o = AuthConfig => v.pub \in {NoKey, k} /\ (~Imported => v.uid = Budget)
    /\ o = Source => v.key = k /\ k # NoKey /\ (~Imported => v.owner = Budget)

StoreClean == \A o \in Objects : Clean(TheKey, o, store[o]) /\ Clean(TheKey, o, cache[o])
AccountClean ==
  /\ adraft # Absent => SignedBy(TheKey, adraft.jwt)
  /\ Clean(TheKey, AuthConfig, aconf)
ConfigClean ==
  /\ Clean(TheKey, AuthConfig, cobj)
  /\ Clean(TheKey, ServerSecret, cdraft)
  /\ ckey \in {NoKey, TheKey}
  /\ cpc \in {"list", "collect"} => ckey # NoKey
  /\ cpc \in {"seed", "found"} => ~Imported

KeyInv == TypeOK /\ (KeyMatters => StoreClean /\ AccountClean /\ ConfigClean)

-----------------------------------------------------------------------------
(* There is at most one key, and what is clean stays so.                   *)

LEMMA CleanKinds ==
  ASSUME NEW k, NEW v, v # Absent
  PROVE  /\ \A a : Clean(k, JWTSecret(a), v) <=> SignedBy(k, v.jwt)
         /\ \A a : Clean(k, Account(a), v)
         /\ \A o \in {ServerSecret, ServerConfigMap} :
              Clean(k, o, v) <=> \A n \in Entries : SignedBy(k, v.jwts[n])
         /\ Clean(k, AuthConfig, v) <=> v.pub \in {NoKey, k} /\ (~Imported => v.uid = Budget)
         /\ Clean(k, Source, v) <=> v.key = k /\ k # NoKey /\ (~Imported => v.owner = Budget)
BY DEF Clean, JWTSecret, Account, ServerSecret, ServerConfigMap, AuthConfig, Source,
       OperatorSeed, ImportedOperator

LEMMA CleanGrows ==
  ASSUME NEW k, NEW m, m = k \/ k = NoKey, NEW o, NEW v, Clean(k, o, v)
  PROVE  Clean(m, o, v)
BY DEF Clean, SignedBy

KeyOnce == KeyMatters' => KeyMatters /\ (TheKey' = TheKey \/ TheKey = NoKey)

(* Steps that leave the secret with the key alone.                         *)
LEMMA SameKey ==
  ASSUME store'[Source] = store[Source],
         Imported \/ store'[AuthConfig] = Absent \/ Exists(AuthConfig)
  PROVE  KeyOnce
BY DEF KeyOnce, KeyMatters, TheKey, Exists, Source

LEMMA WorkersStayClean ==
  ASSUME KeyInv, KeyOnce, KeyMatters'
  PROVE  /\ \A o, v : Clean(TheKey, o, v) => Clean(TheKey', o, v)
         /\ UNCHANGED accountWorker => AccountClean'
         /\ UNCHANGED configWorker => ConfigClean'
<1>1. KeyMatters /\ (TheKey' = TheKey \/ TheKey = NoKey) /\ AccountClean /\ ConfigClean
  BY DEF KeyOnce, KeyInv
<1>2. \A o, v : Clean(TheKey, o, v) => Clean(TheKey', o, v)
  BY <1>1, CleanGrows
<1>3. UNCHANGED accountWorker => AccountClean'
  BY <1>1, <1>2 DEF AccountClean, accountWorker, SignedBy
<1>4. UNCHANGED configWorker => ConfigClean'
  BY <1>1, <1>2 DEF ConfigClean, configWorker
<1> QED
  BY <1>2, <1>3, <1>4

LEMMA StoreStaysClean ==
  ASSUME KeyInv, KeyOnce, KeyMatters',
         \A o \in Objects : cache'[o] \in {cache[o], store[o], Absent},
         \A o \in Objects : store'[o] \in {store[o], Absent} \/ Clean(TheKey', o, store'[o])
  PROVE  StoreClean'
<1>1. StoreClean /\ \A o, v : Clean(TheKey, o, v) => Clean(TheKey', o, v)
  BY WorkersStayClean DEF KeyInv, KeyOnce
<1>2. \A o : Clean(TheKey', o, Absent)
  BY DEF Clean
<1> QED
  BY <1>1, <1>2 DEF StoreClean

LEMMA CachedClean ==
  ASSUME KeyInv, KeyMatters, NEW o \in Objects
  PROVE  Clean(TheKey, o, Cached(o))
BY DEF KeyInv, StoreClean, Cached

LEMMA SourceKinds ==
  /\ Source \in Objects /\ Source \in {OperatorSeed, ImportedOperator}
  /\ Source \notin Requests \cup {ServerSecret, ServerConfigMap}
  /\ \A a : Source # JWTSecret(a) /\ Source # Account(a)
  /\ \A s \in ConfigSpecs : OneSource => OperatorSource(s) = Source
BY ConfigKinds
   DEF Source, OperatorSeed, ImportedOperator, ServerSecret, ServerConfigMap, Requests, Account,
       JWTSecret, AuthConfig, OperatorSource, OneSource, Imported

-----------------------------------------------------------------------------
(* Users, the collector and the informers.                                 *)

LEMMA ClusterStepClean ==
  ASSUME KeyInv, OneSource, ClusterStep
  PROVE  KeyOnce /\ (KeyMatters' => StoreClean')
<1> DEFINE Goal == KeyOnce /\ (KeyMatters' => StoreClean')
<1>1. /\ TypeOK /\ DOMAIN store = Objects /\ AuthConfig \in Objects
      /\ \A o \in Objects : cache'[o] \in {cache[o], store[o], Absent}
  BY ConfigKinds, CacheFollows DEF KeyInv, TypeOK, ClusterTypeOK, Next
<1>2. ASSUME NEW o \in Objects, NEW v, store' = [store EXCEPT ![o] = v],
             o # Source, v = Absent \/ \A k : Clean(TheKey, o, store[o]) => Clean(TheKey, o, v),
             o = AuthConfig => Imported \/ v = Absent \/ Exists(AuthConfig)
      PROVE  Goal
  <2>1. KeyOnce
    BY <1>1, <1>2, SourceKinds, SameKey DEF Exists
  <2>2. KeyMatters' => \A p \in Objects : store'[p] \in {store[p], Absent} \/ Clean(TheKey', p, store'[p])
    BY <1>1, <1>2, <2>1, WorkersStayClean DEF KeyOnce, KeyInv, StoreClean
  <2> QED
    BY <1>1, <2>1, <2>2, StoreStaysClean
<1>3. CASE Informers \/ Kill
  <2>1. UNCHANGED store
    BY <1>3 DEF Informers, Deliver, TimerFires, Kill
  <2>2. KeyOnce
    BY <2>1, SameKey DEF Exists, KeyOnce, KeyMatters, TheKey, Source
  <2> QED
    BY <1>1, <2>1, <2>2, StoreStaysClean
<1>4. ASSUME NEW o \in Objects, CollectGarbage(o)
      PROVE  Goal
  <2>1. store' = [store EXCEPT ![o] = Absent] /\ o # AuthConfig
    BY <1>4 DEF CollectGarbage, Put, Orphaned, AuthConfig
  <2>2. CASE o # Source
    BY <1>2, <2>1, <2>2
  <2>3. CASE o = Source
    <3>1. ~Imported /\ o = OperatorSeed /\ OwnerOf(o) = AuthConfig
      BY <1>4, <2>3 DEF CollectGarbage, Orphaned, Source, ImportedOperator, OperatorSeed, OwnerOf
    <3>2. ~Exists(AuthConfig)
      <4> SUFFICES ASSUME Exists(AuthConfig)
                   PROVE  FALSE
        OBVIOUS
      <4>1. StoreClean /\ Exists(o) /\ store[AuthConfig].uid # store[o].owner
        BY <1>4, <3>1 DEF KeyInv, KeyMatters, CollectGarbage, Orphaned
      <4> QED
        BY <1>1, <2>3, <3>1, <4>1, CleanKinds DEF StoreClean, Exists
    <3>3. ~KeyMatters'
      BY <1>1, <2>1, <3>1, <3>2 DEF KeyMatters, Exists
    <3> QED
      BY <3>3 DEF KeyOnce
  <2> QED
    BY <2>2, <2>3
<1>5. ASSUME NEW o \in Objects, DeleteSecret(o)
      PROVE  Goal
  <2>1. store' = [store EXCEPT ![o] = Absent] /\ o[1] \in Disturbances
        /\ o[1] \in {"account-jwt", "operator-seed", "server-auth"}
    BY <1>5 DEF DeleteSecret, ByUser, Put, Disturb
  <2>2. o # Source
    BY <2>1 DEF OneSource, Source, OperatorSeed, ImportedOperator
  <2> QED
    BY <1>2, <2>1, <2>2
<1>6. ASSUME NEW a \in Accounts, NEW v, ByUser("edit", Account(a), v) \/ ByUser("recreate", Account(a), v)
             \/ ByUser("delete", Account(a), v)
      PROVE  Goal
  <2>1. store' = [store EXCEPT ![Account(a)] = v] /\ Account(a) \in Objects
    BY <1>6, AccountKinds DEF ByUser, Put
  <2>2. v = Absent \/ Clean(TheKey, Account(a), v)
    BY CleanKinds
  <2> QED
    BY <1>2, <2>1, <2>2, SourceKinds, Distinct
<1>7. ASSUME NEW kind, NEW v, ByUser(kind, AuthConfig, v), Exists(AuthConfig),
             v = Absent \/ (v.pub = store[AuthConfig].pub /\ v.uid = store[AuthConfig].uid)
      PROVE  Goal
  <2>1. store' = [store EXCEPT ![AuthConfig] = v]
    BY <1>7 DEF ByUser, Put
  <2>2. v = Absent \/ (Clean(TheKey, AuthConfig, store[AuthConfig]) => Clean(TheKey, AuthConfig, v))
    BY <1>7, CleanKinds DEF Exists
  <2> QED
    BY <1>1, <1>2, <1>7, <2>1, <2>2, SourceKinds, ConfigKinds
<1>8. ASSUME NEW s \in ConfigSpecs, EditConfig(s)
      PROVE  Goal
  <2> DEFINE v == [store[AuthConfig] EXCEPT !.spec = s, !.observed = FALSE]
  <2>1. store[AuthConfig] \in ConfigObject /\ Exists(AuthConfig)
    BY <1>1, <1>8, ConfigKinds DEF EditConfig, Exists, TypeOK, ClusterTypeOK
  <2>2. v.pub = store[AuthConfig].pub /\ v.uid = store[AuthConfig].uid
    BY <2>1 DEF ConfigObject
  <2>3. ByUser("reconfigure", AuthConfig, v)
    BY <1>8 DEF EditConfig
  <2> HIDE DEF v
  <2> QED
    BY <1>7, <2>1, <2>2, <2>3
<1>9. ASSUME Delete("deleteConfig", AuthConfig)
      PROVE  Goal
  <2> DEFINE v == [store[AuthConfig] EXCEPT !.deleting = TRUE]
  <2>1. store[AuthConfig] \in ConfigObject /\ Exists(AuthConfig)
    BY <1>1, <1>9, ConfigKinds DEF Delete, Exists, TypeOK, ClusterTypeOK
  <2>2. v.pub = store[AuthConfig].pub /\ v.uid = store[AuthConfig].uid
    BY <2>1 DEF ConfigObject
  <2>3. ByUser("deleteConfig", AuthConfig, v) \/ ByUser("deleteConfig", AuthConfig, Absent)
    BY <1>9 DEF Delete
  <2> HIDE DEF v
  <2> QED
    BY <1>7, <2>1, <2>2, <2>3
<1>10. ASSUME NEW s \in ConfigSpecs, CreateConfig(s)
       PROVE  Goal
  <2> DEFINE v == NewConfig(budget', s)
  <2>1. "recreateConfig" \in Disturbances /\ store' = [store EXCEPT ![AuthConfig] = v]
    BY <1>10 DEF CreateConfig, ByUser, Put, Disturb
  <2>2. Imported
    BY <2>1 DEF OneSource
  <2>3. v.pub = NoKey
    BY DEF NewConfig
  <2> HIDE DEF v
  <2>4. v = Absent \/ Clean(TheKey, AuthConfig, v)
    BY <2>2, <2>3, CleanKinds
  <2> QED
    BY <1>1, <1>2, <2>1, <2>2, <2>4, SourceKinds, ConfigKinds
<1>11. \/ Informers \/ Kill
       \/ \E o \in Objects : CollectGarbage(o) \/ DeleteSecret(o)
       \/ \E a \in Accounts : \E v :
            \/ ByUser("edit", Account(a), v) \/ ByUser("recreate", Account(a), v)
            \/ ByUser("delete", Account(a), v)
       \/ \E s \in ConfigSpecs : EditConfig(s) \/ CreateConfig(s)
       \/ Delete("deleteConfig", AuthConfig)
  <2>1. ASSUME NEW a \in Accounts, (\E l \in Limits : EditAccount(a, l) \/ CreateAccount(a, l))
                                   \/ Delete("delete", Account(a))
        PROVE  \E v : \/ ByUser("edit", Account(a), v) \/ ByUser("recreate", Account(a), v)
                      \/ ByUser("delete", Account(a), v)
    BY <2>1 DEF EditAccount, CreateAccount, Delete
  <2> QED
    BY <2>1 DEF ClusterStep, Environment
<1> QED
  BY <1>3, <1>4, <1>5, <1>6, <1>8, <1>9, <1>10, <1>11

-----------------------------------------------------------------------------
(* What the two controllers write and read.                                *)

LEMMA WriteClean ==
  ASSUME KeyInv, NEW h \in {"account", "config"}, NEW o \in Objects, o # Source,
         NEW allowed, NEW v, NEW held, Sent(h, o, allowed, v, held),
         o = AuthConfig /\ allowed => Exists(AuthConfig),
         KeyMatters => v = Absent \/ Clean(TheKey, o, v)
  PROVE  KeyOnce /\ (KeyMatters' => StoreClean')
<1>1. /\ TypeOK /\ UNCHANGED cache /\ Source \in Objects /\ AuthConfig \in Objects
      /\ \A p \in Objects : p # o => store'[p] = store[p]
      /\ store'[o] = store[o] \/ (allowed /\ store'[o] = v)
  <2>1. UNCHANGED cache /\ TypeOK
    BY DEF Sent, KeyInv
  <2> QED
    BY <2>1, SourceKinds, ConfigKinds, SentHere
<1>2. KeyOnce
  BY <1>1, SameKey DEF Exists
<1>3. KeyMatters' => \A p \in Objects : store'[p] \in {store[p], Absent} \/ Clean(TheKey', p, store'[p])
  BY <1>1, <1>2, WorkersStayClean DEF KeyOnce
<1> QED
  BY <1>1, <1>2, <1>3, StoreStaysClean

LEMMA ReadClean ==
  ASSUME KeyInv, UNCHANGED <<store, cache>>
  PROVE  KeyOnce /\ (KeyMatters' => StoreClean') /\ KeyMatters' = KeyMatters /\ TheKey' = TheKey
<1>1. KeyOnce /\ KeyMatters' = KeyMatters /\ TheKey' = TheKey
  BY DEF KeyOnce, KeyMatters, TheKey, Exists, Source
<1> QED
  BY <1>1, StoreStaysClean

LEMMA AccountStepClean ==
  ASSUME KeyInv, OneSource, AccountStep
  PROVE  KeyOnce /\ (KeyMatters' => StoreClean' /\ AccountClean')
<1>1. /\ TypeOK /\ AuthConfig \in Objects /\ AuthConfig # Source
      /\ \A a \in Accounts : /\ Account(a) \in Objects /\ Account(a) # Source /\ Account(a) # AuthConfig
                             /\ JWTSecret(a) \in Objects /\ JWTSecret(a) # Source
                             /\ JWTSecret(a) # AuthConfig
      /\ apc # "idle" => areq \in Accounts
  BY AccountKinds, ConfigKinds, SourceKinds, AccountInHand, Distinct DEF KeyInv
<1>2. ASSUME UNCHANGED adraft \/ adraft' = Absent,
             aconf' \in {aconf, Absent, Cached(AuthConfig)}, KeyOnce
      PROVE  KeyMatters' => AccountClean'
  <2> SUFFICES ASSUME KeyMatters'
               PROVE  AccountClean'
    OBVIOUS
  <2>1. KeyMatters /\ AccountClean /\ (TheKey' = TheKey \/ TheKey = NoKey)
        /\ Clean(TheKey, AuthConfig, Cached(AuthConfig))
    BY <1>1, <1>2, CachedClean DEF KeyOnce, KeyInv
  <2>2. Clean(TheKey, AuthConfig, aconf')
    BY <1>2, <2>1 DEF AccountClean, Clean
  <2>3. Clean(TheKey', AuthConfig, aconf')
    BY <2>1, <2>2, CleanGrows
  <2> QED
    BY <1>2, <2>1, <2>3 DEF AccountClean, SignedBy
<1>3. ASSUME NEW a \in Accounts, FetchAccount(a)
      PROVE  KeyOnce /\ (KeyMatters' => StoreClean' /\ AccountClean')
  BY <1>2, <1>3, ReadClean DEF FetchAccount
<1>4. ASSUME RejectAccount \/ SkipAccount \/ PanicOnAccount
      PROVE  KeyOnce /\ (KeyMatters' => StoreClean' /\ AccountClean')
  <2>1. UNCHANGED <<store, cache>> /\ aconf' \in {aconf, Absent}
        /\ (UNCHANGED adraft \/ adraft' = Absent)
    BY <1>4 DEF RejectAccount, SkipAccount, PanicOnAccount, AccountReads, GiveUp, Proceed, accountWorker
  <2> QED
    BY <1>2, <2>1, ReadClean
<1>5. ASSUME SignAccount(FreshAccountKeys, FreshOperatorKeys)
      PROVE  KeyOnce /\ (KeyMatters' => StoreClean' /\ AccountClean')
  <2> DEFINE conf == Cached(AuthConfig)
  <2>1. UNCHANGED <<store, cache>> /\ aconf' = conf /\ apc = "read"
        /\ SupportsAccounts(conf) /\ conf.spec.jwt # "none" /\ ~SeedMissing(areq, conf.spec)
    BY <1>5 DEF SignAccount, AccountReads, Proceed
  <2>2. PICK signer : adraft'.jwt.iss = KeyOf(Cached(OperatorSource(conf.spec)).key, signer)
    BY <1>5 DEF SignAccount, SignedSecret, Proceed
  <2>3. conf \in ConfigObject /\ conf.spec \in ConfigSpecs
    <3>1. conf \in ConfigObject
      BY <1>1, <2>1, ConfigKinds, CachedType DEF SupportsAccounts, TypeOK
    <3> QED
      BY <3>1 DEF ConfigObject
  <2>4. OperatorSource(conf.spec) = Source /\ Cached(Source) # Absent
    BY <2>1, <2>3, SourceKinds DEF SeedMissing
  <2>5. KeyMatters => Cached(Source).key = TheKey /\ TheKey # NoKey
    BY <2>4, SourceKinds, CachedClean, CleanKinds
  <2>6. KeyMatters => SignedBy(TheKey, adraft'.jwt) /\ Clean(TheKey, AuthConfig, aconf')
    BY <1>1, <2>1, <2>2, <2>4, <2>5, CachedClean DEF SignedBy, KeyOf
  <2>7. KeyOnce /\ (KeyMatters' => StoreClean') /\ KeyMatters' = KeyMatters /\ TheKey' = TheKey
    BY <2>1, ReadClean
  <2> QED
    BY <2>6, <2>7 DEF AccountClean
<1>6. ASSUME StoreAccountSecret
      PROVE  KeyOnce /\ (KeyMatters' => StoreClean' /\ AccountClean')
  <2>1. /\ apc \in {"create", "update"}
        /\ \E allowed, held : Sent("account", JWTSecret(areq), allowed, adraft, held)
        /\ aconf' \in {aconf, Absent} /\ adraft' = Absent
    BY <1>6 DEF StoreAccountSecret, Create, Update, Send, Sent, GiveUp, Proceed
  <2>2. KeyMatters => adraft = Absent \/ Clean(TheKey, JWTSecret(areq), adraft)
    BY CleanKinds DEF KeyInv, AccountClean
  <2> QED
    BY <1>1, <1>2, <2>1, <2>2, WriteClean
<1>7. ASSUME FinalizeAccount \/ SaveAccountStatus \/ ReleaseAccount
      PROVE  KeyOnce /\ (KeyMatters' => StoreClean' /\ AccountClean')
  <2>1. /\ apc # "idle"
        /\ \E allowed, v, held : Sent("account", Account(areq), allowed, v, held)
        /\ aconf' = Absent /\ adraft' = Absent
    BY <1>7 DEF FinalizeAccount, SaveAccountStatus, ReleaseAccount, Update, Send, Sent, Proceed,
                AccountRetries, AccountWaits, AccountForgets, AccountReturns
  <2>2. \A v : v = Absent \/ Clean(TheKey, Account(areq), v)
    BY CleanKinds
  <2> QED
    BY <1>1, <1>2, <2>1, <2>2, WriteClean
<1>8. ASSUME TriggerConfig \/ UntriggerConfig
      PROVE  KeyOnce /\ (KeyMatters' => StoreClean' /\ AccountClean')
  <2> DEFINE allowed == Exists(AuthConfig) /\ AuthConfig \in current["account"]
  <2>1. /\ \E held : Sent("account", AuthConfig, allowed, aconf, held)
        /\ aconf' = Absent /\ adraft' = Absent
    BY <1>8 DEF TriggerConfig, UntriggerConfig, Update, Send, Sent, GiveUp, Proceed
  <2>2. KeyMatters => aconf = Absent \/ Clean(TheKey, AuthConfig, aconf)
    BY DEF KeyInv, AccountClean
  <2>3. allowed => Exists(AuthConfig)
    OBVIOUS
  <2> HIDE DEF allowed
  <2> QED
    BY <1>1, <1>2, <2>1, <2>2, <2>3, WriteClean
<1> QED
  BY <1>3, <1>4, <1>5, <1>6, <1>7, <1>8 DEF AccountStep, AccountReconcile

(* What the configuration controller has in hand after a step: what it had, *)
(* what it read, or the key of the operator.                               *)
LEMMA HandStaysClean ==
  ASSUME KeyInv, KeyOnce, cpc # "idle",
         cobj' # Absent => cobj'.uid = cobj.uid /\ cobj'.pub \in {cobj.pub, ckey},
         cdraft' = Absent,
         KeyMatters' => ckey' \in {NoKey, TheKey'},
         cpc' \in {"list", "collect"} => ckey' # NoKey,
         cpc' \in {"seed", "found"} => ~Imported
  PROVE  KeyMatters' => ConfigClean'
<1> SUFFICES ASSUME KeyMatters'
             PROVE  ConfigClean'
  OBVIOUS
<1>1. KeyMatters /\ ConfigClean /\ (TheKey' = TheKey \/ TheKey = NoKey) /\ cobj # Absent
  BY ConfigInHand, ConfigKinds, AbsentAssumption DEF KeyOnce, KeyInv
<1>2. cobj.pub \in {NoKey, TheKey} /\ (~Imported => cobj.uid = Budget) /\ ckey \in {NoKey, TheKey}
  BY <1>1, CleanKinds DEF ConfigClean
<1>3. Clean(TheKey', AuthConfig, cobj')
  BY <1>1, <1>2, CleanKinds DEF Clean
<1>4. Clean(TheKey', ServerSecret, cdraft')
  BY DEF Clean
<1> QED
  BY <1>3, <1>4 DEF ConfigClean

LEMMA VerdictKeepsKey ==
  ASSUME NEW obj \in ConfigObject, ConfigFails(obj) \/ ConfigInvalid(obj) \/ ConfigSucceeds(obj)
  PROVE  /\ cpc' = "status" /\ cobj'.uid = obj.uid /\ cobj'.pub = obj.pub
         /\ cdraft' = Absent /\ ckey' = NoKey
BY DEF ConfigFails, ConfigInvalid, ConfigSucceeds, ProceedConfig, ConfigObject

LEMMA ChooseModeClean ==
  ASSUME KeyInv, OneSource, ChooseMode
  PROVE  KeyOnce /\ (KeyMatters' => StoreClean' /\ ConfigClean')
<1> DEFINE existing == Cached(Target(cobj.spec))
           import == Cached(ImportedOperator)
<1>1. /\ TypeOK /\ cobj \in ConfigObject /\ cpc # "idle" /\ UNCHANGED <<store, cache>>
      /\ Target(cobj.spec) \in {ServerSecret, ServerConfigMap} /\ cobj.spec \in ConfigSpecs
  BY ConfigInHand DEF ChooseMode, KeyInv, ConfigObject
<1>2. KeyOnce /\ (KeyMatters' => StoreClean') /\ KeyMatters' = KeyMatters /\ TheKey' = TheKey
  BY <1>1, ReadClean
<1>3. CASE ConfigInvalid(cobj) \/ ConfigFails(cobj)
  BY <1>1, <1>2, <1>3, VerdictKeepsKey, HandStaysClean
<1>4. CASE ProceedConfig(IF existing = Absent THEN "create" ELSE "update",
                         cobj, NoKey, WithAuthConf(existing), "ready")
  <2>1. ASSUME KeyMatters
        PROVE  Clean(TheKey, ServerSecret, WithAuthConf(existing))
    <3>1. existing \in ServerObject \cup {Absent} /\ Clean(TheKey, Target(cobj.spec), existing)
      BY <1>1, <2>1, ConfigKinds, CachedType, CachedClean DEF TypeOK
    <3>2. existing # Absent => \A n \in Entries : SignedBy(TheKey, existing.jwts[n])
      BY <1>1, <3>1, CleanKinds
    <3>3. \A n \in Entries : SignedBy(TheKey, WithAuthConf(existing).jwts[n])
      BY <3>1, <3>2 DEF WithAuthConf, ServerObject, SignedBy
    <3>4. WithAuthConf(existing) # Absent
      BY <3>1, WithAuthConfType, ConfigKinds, AbsentAssumption
    <3> HIDE DEF existing
    <3> QED
      BY <3>3, <3>4, CleanKinds
  <2> HIDE DEF existing
  <2>2. cobj' = cobj /\ cdraft' = WithAuthConf(existing) /\ ckey' = NoKey /\ cpc' \in {"create", "update"}
    BY <1>4 DEF ProceedConfig
  <2> QED
    BY <1>2, <2>1, <2>2 DEF KeyInv, ConfigClean
<1>5. CASE cobj.spec.jwt = "generate" /\ ProceedConfig("seed", cobj, NoKey, Absent, "ready")
  <2>1. ~Imported
    BY <1>1, <1>5 DEF OneSource
  <2> QED
    BY <1>1, <1>2, <1>5, <2>1, HandStaysClean DEF ProceedConfig
<1>6. CASE /\ cobj.spec.jwt = "import" /\ import # Absent
           /\ ProceedConfig("list", cobj, import.key, Absent, "ready")
  <2>1. Imported /\ Source = ImportedOperator /\ KeyMatters
    BY <1>1, <1>6 DEF Imported, Source, KeyMatters
  <2>2. import.key = TheKey /\ TheKey # NoKey
    BY <1>6, <2>1, SourceKinds, CachedClean, CleanKinds
  <2> QED
    BY <1>1, <1>2, <1>6, <2>2, HandStaysClean DEF ProceedConfig
<1> QED
  BY <1>2, <1>3, <1>4, <1>5, <1>6 DEF ChooseMode

(* The operator's key is generated: nothing is signed yet.                 *)
LEMMA CreateOperatorSeedClean ==
  ASSUME KeyInv, OneSource, CreateOperatorSeed(FreshOperatorKeys)
  PROVE  KeyOnce /\ (KeyMatters' => StoreClean' /\ ConfigClean')
<1> DEFINE made(key) == [owner |-> cobj.uid, key |-> key]
<1>1. /\ TypeOK /\ cobj \in ConfigObject /\ cpc = "seed" /\ OperatorSeed \in Objects
      /\ Content(OperatorSeed) = OperatorSecret /\ UNCHANGED cache
  BY ConfigInHand, ConfigKinds DEF CreateOperatorSeed, KeyInv, Send
<1>2. PICK key \in FreshOperatorKeys :
        /\ Sent("config", OperatorSeed, ~Exists(OperatorSeed), made(key), {AuthConfig})
        /\ \/ /\ ~Exists(OperatorSeed) /\ store'[OperatorSeed] = made(key)
              /\ ProceedConfig("list", cobj, key, Absent, "ready")
           \/ ProceedConfig("found", cobj, NoKey, Absent, "ready")
           \/ ConfigFails(cobj)
  <2>1. PICK key \in FreshOperatorKeys :
          Send("config", OperatorSeed, ~Exists(OperatorSeed), made(key), {AuthConfig},
               ProceedConfig("list", cobj, key, Absent, "ready"),
               ProceedConfig("found", cobj, NoKey, Absent, "ready"),
               ConfigFails(cobj))
    BY DEF CreateOperatorSeed
  <2>2. made(key) \in OperatorSecret
    BY <1>1 DEF ConfigObject, OperatorSecret, Operators, FreshOperatorKeys, Fresh
  <2>3. made(key) # Absent
    BY <1>1, <2>2, AbsentAssumption
  <2>4. store' = [store EXCEPT ![OperatorSeed] = made(key)] => store'[OperatorSeed] = made(key)
    BY <1>1 DEF TypeOK, ClusterTypeOK
  <2> HIDE DEF made
  <2> QED
    BY <2>1, <2>3, <2>4 DEF Send, Sent, Put, Exists
<1>3. key # NoKey
  BY KeyAssumption DEF FreshOperatorKeys, Fresh
<1> HIDE DEF made
<1>4. /\ \A p \in Objects : p # OperatorSeed => store'[p] = store[p]
      /\ \/ store'[OperatorSeed] = store[OperatorSeed]
         \/ ~Exists(OperatorSeed) /\ store'[OperatorSeed] = made(key)
  <2>1. \E allowed, v, held : /\ Sent("config", OperatorSeed, allowed, v, held)
                              /\ v = made(key) /\ (allowed => ~Exists(OperatorSeed))
    BY <1>2
  <2> QED
    BY <1>1, <2>1, SentHere
<1>5. KeyMatters' = KeyMatters
  <2>1. AuthConfig \in Objects /\ AuthConfig # OperatorSeed
    BY ConfigKinds DEF AuthConfig, OperatorSeed
  <2> QED
    BY <1>4, <2>1 DEF KeyMatters, Exists
<1> SUFFICES ASSUME KeyMatters
             PROVE  KeyOnce /\ StoreClean' /\ ConfigClean'
  BY <1>5 DEF KeyOnce
<1>6. ~Imported /\ Source = OperatorSeed /\ cobj # Absent
  BY <1>1, ConfigKinds, AbsentAssumption DEF KeyInv, ConfigClean, Source
<1>7. made(key) # Absent => made(key).key = key /\ made(key).owner = Budget
  BY <1>6, CleanKinds DEF KeyInv, ConfigClean, made
<1>8. KeyOnce
  BY <1>4, <1>5, <1>6 DEF KeyOnce, TheKey, Exists
<1>9. store'[OperatorSeed] = made(key) => Clean(TheKey', OperatorSeed, made(key))
  BY <1>3, <1>6, <1>7, CleanKinds DEF Clean, TheKey, Exists, made
<1>10. StoreClean'
  <2>1. \A p \in Objects : store'[p] \in {store[p], Absent} \/ Clean(TheKey', p, store'[p])
    BY <1>4, <1>9
  <2> QED
    BY <1>1, <1>5, <1>8, <2>1, StoreStaysClean
<1>11. ConfigClean'
  <2>1. CASE /\ store'[OperatorSeed] = made(key)
             /\ ProceedConfig("list", cobj, key, Absent, "ready")
    <3>1. made(key) # Absent /\ key = TheKey'
      <4>1. made(key) \in OperatorSecret
        BY <1>1 DEF ConfigObject, OperatorSecret, Operators, FreshOperatorKeys, Fresh, made
      <4>2. made(key) # Absent
        BY <1>1, <4>1, AbsentAssumption
      <4> QED
        BY <1>6, <1>7, <2>1, <4>2 DEF TheKey, Exists, Source
    <3> QED
      BY <1>1, <1>3, <1>5, <1>8, <2>1, <3>1, HandStaysClean DEF ProceedConfig
  <2>2. CASE ProceedConfig("found", cobj, NoKey, Absent, "ready")
    BY <1>1, <1>5, <1>6, <1>8, <2>2, HandStaysClean DEF ProceedConfig
  <2>3. CASE ConfigFails(cobj)
    BY <1>1, <1>5, <1>8, <2>3, VerdictKeepsKey, HandStaysClean
  <2> QED
    BY <1>2, <2>1, <2>2, <2>3
<1> QED
  BY <1>8, <1>10, <1>11

(* If a seed is there already, the one read is that of the store.          *)
LEMMA ReadOperatorSeedClean ==
  ASSUME KeyInv, OneSource, ReadOperatorSeed
  PROVE  KeyOnce /\ (KeyMatters' => StoreClean' /\ ConfigClean')
<1> DEFINE found == Cached(OperatorSeed)
<1>1. /\ TypeOK /\ cobj \in ConfigObject /\ cpc = "found" /\ UNCHANGED <<store, cache>>
  BY ConfigInHand DEF ReadOperatorSeed, ConfigReads, KeyInv
<1>2. KeyOnce /\ (KeyMatters' => StoreClean') /\ KeyMatters' = KeyMatters /\ TheKey' = TheKey
  BY <1>1, ReadClean
<1>3. CASE ConfigFails(cobj)
  BY <1>1, <1>2, <1>3, VerdictKeepsKey, HandStaysClean
<1>4. CASE found # Absent /\ ProceedConfig("list", cobj, found.key, Absent, "ready")
  <2>1. KeyMatters => found.key = TheKey /\ TheKey # NoKey
    <3>1. KeyMatters => Source = OperatorSeed
      BY <1>1 DEF KeyInv, ConfigClean, Source
    <3> QED
      BY <1>4, <3>1, SourceKinds, CachedClean, CleanKinds
  <2> SUFFICES ASSUME KeyMatters
               PROVE  ConfigClean'
    BY <1>2
  <2> QED
    BY <1>1, <1>2, <1>4, <2>1, HandStaysClean DEF ProceedConfig
<1> QED
  BY <1>3, <1>4 DEF ReadOperatorSeed

(* What is collected was signed by the operator's key.                     *)
LEMMA CollectClean ==
  ASSUME KeyInv,
         ListAccounts(FreshOperatorKeys) \/ CollectAccountJWT \/ ReadServerSecret
  PROVE  KeyOnce /\ (KeyMatters' => StoreClean' /\ ConfigClean')
<1>1. /\ UNCHANGED <<store, cache>> /\ cpc \in {"list", "collect"} /\ cobj' = cobj
      /\ cpc' \in {"collect", "create", "update"} /\ TypeOK
  BY DEF ListAccounts, CollectAccountJWT, ReadServerSecret, ConfigReads, ProceedConfig, KeyInv
<1>2. KeyOnce /\ (KeyMatters' => StoreClean') /\ KeyMatters' = KeyMatters /\ TheKey' = TheKey
  BY <1>1, ReadClean
<1> SUFFICES ASSUME KeyMatters
             PROVE  ConfigClean'
  BY <1>2
<1>3. ckey = TheKey /\ TheKey # NoKey /\ TheKey \in Operators /\ ConfigClean
  BY <1>1 DEF KeyInv, ConfigClean, TypeOK, ConfigWorkerTypeOK
<1>4. ckey' = TheKey
  BY <1>3 DEF ListAccounts, KeyOf, CollectAccountJWT, ReadServerSecret, ProceedConfig
<1>5. Clean(TheKey, ServerSecret, cdraft')
  <2>1. CASE ListAccounts(FreshOperatorKeys)
    <3>1. cdraft' = OperatorEntry(TheKey)
      BY <1>3, <2>1 DEF ListAccounts, KeyOf
    <3>2. \A n \in Entries : SignedBy(TheKey, OperatorEntry(TheKey).jwts[n])
      BY <1>3 DEF OperatorEntry, SignedBy, OperatorJWT
    <3> QED
      BY <3>1, <3>2, CleanKinds DEF Clean
  <2>2. CASE CollectAccountJWT
    <3>1. PICK a \in clist :
            cdraft' = IF Cached(JWTSecret(a)) = Absent THEN cdraft
                      ELSE [cdraft EXCEPT !.jwts[a] = Cached(JWTSecret(a)).jwt]
      BY <2>2 DEF CollectAccountJWT
    <3>2. a \in Accounts /\ cdraft \in ServerObject /\ cdraft # Absent
      <4>1. cpc = "collect"
        BY <2>2 DEF CollectAccountJWT, ConfigReads
      <4>2. a \in Accounts /\ cdraft \in ServerObject
        BY <1>1, <4>1 DEF TypeOK, ConfigWorkerTypeOK
      <4> QED
        BY <4>2, ConfigKinds, AbsentAssumption
    <3>3. CASE Cached(JWTSecret(a)) = Absent
      BY <1>3, <3>1, <3>3 DEF ConfigClean
    <3>4. CASE Cached(JWTSecret(a)) # Absent
      <4>1. SignedBy(TheKey, Cached(JWTSecret(a)).jwt)
        BY <3>2, <3>4, AccountKinds, CachedClean, CleanKinds
      <4>2. \A n \in Entries : SignedBy(TheKey, cdraft.jwts[n])
        BY <1>3, <3>2, CleanKinds DEF ConfigClean
      <4>3. \A n \in Entries : SignedBy(TheKey, cdraft'.jwts[n])
        BY <3>1, <3>2, <3>4, <4>1, <4>2 DEF ServerObject
      <4> QED
        BY <4>3, CleanKinds DEF Clean
    <3> QED
      BY <3>3, <3>4
  <2>3. CASE ReadServerSecret
    BY <1>3, <2>3 DEF ReadServerSecret, ProceedConfig, ConfigClean
  <2> QED
    BY <2>1, <2>2, <2>3
<1> QED
  BY <1>1, <1>2, <1>3, <1>4, <1>5 DEF ConfigClean

LEMMA ConfigStepClean ==
  ASSUME KeyInv, OneSource, ConfigStep
  PROVE  KeyOnce /\ (KeyMatters' => StoreClean' /\ ConfigClean')
<1>1. /\ TypeOK /\ AuthConfig \in Objects /\ AuthConfig # Source
      /\ cpc # "idle" => cobj \in ConfigObject /\ Target(cobj.spec) \in {ServerSecret, ServerConfigMap}
      /\ {ServerSecret, ServerConfigMap} \subseteq Objects
      /\ Source \notin {ServerSecret, ServerConfigMap}
  BY ConfigKinds, SourceKinds, ConfigInHand DEF KeyInv
<1>2. ASSUME FetchConfig
      PROVE  KeyOnce /\ (KeyMatters' => StoreClean' /\ ConfigClean')
  <2>1. /\ UNCHANGED <<store, cache, ckey, cdraft>> /\ cpc = "idle"
        /\ cobj' = cobj \/ cobj' = Cached(AuthConfig)
        /\ cpc' \notin {"list", "collect", "seed", "found"}
    BY <1>2 DEF FetchConfig
  <2>2. KeyOnce /\ (KeyMatters' => StoreClean') /\ KeyMatters' = KeyMatters /\ TheKey' = TheKey
    BY <2>1, ReadClean
  <2>3. KeyMatters => ConfigClean /\ Clean(TheKey, AuthConfig, Cached(AuthConfig))
    BY <1>1, CachedClean DEF KeyInv
  <2> QED
    BY <2>1, <2>2, <2>3 DEF ConfigClean
<1>3. ASSUME FinalizeConfig
      PROVE  KeyOnce /\ (KeyMatters' => StoreClean' /\ ConfigClean')
  <2> DEFINE obj == [cobj EXCEPT !.fin = TRUE]
             allowed == Exists(AuthConfig) /\ AuthConfig \in current["config"]
  <2>1. cpc # "idle" /\ Sent("config", AuthConfig, allowed, obj, {AuthConfig})
    BY <1>3 DEF FinalizeConfig, Update, Send, Sent
  <2>2. obj.uid = cobj.uid /\ obj.pub = cobj.pub /\ cobj # Absent
    BY <1>1, <2>1, ConfigKinds, AbsentAssumption DEF ConfigObject
  <2>3. cdraft' = Absent /\ ckey' = NoKey /\ cpc' \in {"idle", "mode"} /\ cobj' \in {obj, Absent}
    BY <1>3 DEF FinalizeConfig, Update, Send, ProceedConfig, ConfigRetries, ConfigReturns
  <2>4. allowed => Exists(AuthConfig)
    OBVIOUS
  <2> HIDE DEF obj, allowed
  <2>5. KeyMatters => obj = Absent \/ Clean(TheKey, AuthConfig, obj)
    BY <2>2, CleanKinds DEF KeyInv, ConfigClean
  <2>6. KeyOnce /\ (KeyMatters' => StoreClean')
    BY <1>1, <2>1, <2>4, <2>5, WriteClean
  <2> QED
    BY <2>1, <2>2, <2>3, <2>6, HandStaysClean
<1>4. ASSUME PublishAggregate
      PROVE  KeyOnce /\ (KeyMatters' => StoreClean' /\ ConfigClean')
  <2> DEFINE pub == IF cobj.spec.mode = "token" THEN cobj.pub ELSE ckey
             obj == [cobj EXCEPT !.pub = pub, !.resolver = TRUE]
  <2>1. /\ cpc # "idle"
        /\ \E allowed : Sent("config", Target(cobj.spec), allowed, cdraft, {AuthConfig})
        /\ ConfigSucceeds(obj) \/ ConfigFails(cobj)
    BY <1>4 DEF PublishAggregate, Create, Update, Send, Sent
  <2>2. KeyMatters => cdraft = Absent \/ Clean(TheKey, Target(cobj.spec), cdraft)
    BY <1>1, <2>1, CleanKinds DEF KeyInv, ConfigClean
  <2>3. KeyOnce /\ (KeyMatters' => StoreClean')
    <3>1. /\ Target(cobj.spec) \in Objects /\ Target(cobj.spec) # Source
          /\ Target(cobj.spec) # AuthConfig
      BY <1>1, <2>1, ConfigKinds DEF ServerSecret, ServerConfigMap, AuthConfig
    <3> QED
      BY <2>1, <2>2, <3>1, WriteClean
  <2>4. obj \in ConfigObject /\ obj.uid = cobj.uid /\ obj.pub \in {cobj.pub, ckey}
    BY <1>1, <2>1 DEF KeyInv, TypeOK, ConfigWorkerTypeOK, ConfigObject
  <2> HIDE DEF obj
  <2> QED
    BY <1>1, <2>1, <2>3, <2>4, VerdictKeepsKey, HandStaysClean
<1>5. ASSUME SaveConfigStatus
      PROVE  KeyOnce /\ (KeyMatters' => StoreClean' /\ ConfigClean')
  <2> DEFINE saved == [store[AuthConfig] EXCEPT
               !.pub = cobj.pub, !.resolver = cobj.resolver,
               !.ready = cobj.ready, !.observed = cobj.observed]
             allowed == Exists(AuthConfig) /\ AuthConfig \in current["config"]
  <2>1. cpc # "idle" /\ Sent("config", AuthConfig, allowed, saved, {})
    BY <1>5 DEF SaveConfigStatus, Update, Send, Sent
  <2>2. allowed => /\ saved.uid = store[AuthConfig].uid /\ saved.pub = cobj.pub
                   /\ cobj # Absent /\ Exists(AuthConfig)
    <3>1. Exists(AuthConfig) => store[AuthConfig] \in ConfigObject
      BY <1>1, ConfigKinds DEF Exists, TypeOK, ClusterTypeOK
    <3> QED
      BY <1>1, <2>1, <3>1, ConfigKinds, AbsentAssumption DEF ConfigObject
  <2>3. cdraft' = Absent /\ ckey' = NoKey /\ cpc' = "idle" /\ cobj' = Absent
    BY <1>5 DEF SaveConfigStatus, Update, Send, ConfigRetries, ConfigWaits, ConfigReturns
  <2> HIDE DEF saved, allowed
  <2>4. allowed /\ KeyMatters => saved = Absent \/ Clean(TheKey, AuthConfig, saved)
    BY <1>1, <2>2, CleanKinds DEF KeyInv, ConfigClean, StoreClean, Exists
  <2>5. KeyOnce /\ (KeyMatters' => StoreClean')
    <3>1. CASE allowed
      BY <1>1, <2>1, <2>2, <2>4, <3>1, WriteClean
    <3>2. CASE ~allowed
      <4>1. Sent("config", AuthConfig, allowed, Absent, {})
        BY <2>1, <3>2 DEF Sent
      <4> QED
        BY <1>1, <3>2, <4>1, WriteClean
    <3> QED
      BY <3>1, <3>2
  <2> QED
    BY <2>1, <2>3, <2>5, HandStaysClean
<1>6. ASSUME ReleaseConfig
      PROVE  KeyOnce /\ (KeyMatters' => StoreClean' /\ ConfigClean')
  <2> DEFINE allowed == Exists(AuthConfig) /\ AuthConfig \in current["config"]
  <2>1. cpc # "idle" /\ Sent("config", AuthConfig, allowed, Absent, {})
    BY <1>6 DEF ReleaseConfig, Update, Send, Sent
  <2>2. cdraft' = Absent /\ ckey' = NoKey /\ cpc' = "idle" /\ cobj' = Absent
    BY <1>6 DEF ReleaseConfig, Update, Send, ConfigRetries, ConfigForgets, ConfigReturns
  <2>3. allowed => Exists(AuthConfig)
    OBVIOUS
  <2> HIDE DEF allowed
  <2>4. KeyOnce /\ (KeyMatters' => StoreClean')
    BY <1>1, <2>1, <2>3, WriteClean
  <2> QED
    BY <2>1, <2>2, <2>4, HandStaysClean
<1> QED
  BY <1>2, <1>3, <1>4, <1>5, <1>6, ChooseModeClean, CreateOperatorSeedClean,
     ReadOperatorSeedClean, CollectClean
     DEF ConfigStep, ConfigReconcile

LEMMA RestartClean ==
  ASSUME KeyInv, Restart
  PROVE  KeyMatters' => StoreClean' /\ AccountClean' /\ ConfigClean'
<1>1. UNCHANGED store /\ \A o \in Objects : cache'[o] \in {cache[o], store[o], Absent}
  BY CacheFollows DEF Restart, Start, KeyInv, Next
<1>2. KeyOnce
  BY <1>1 DEF KeyOnce, KeyMatters, TheKey, Exists, Source
<1>3. KeyMatters' => StoreClean'
  BY <1>1, <1>2, StoreStaysClean
<1>4. AccountClean' /\ ConfigClean'
  BY DEF Restart, AccountClean, ConfigClean, Clean
<1> QED
  BY <1>3, <1>4

LEMMA InitClean == OneSource /\ Init => KeyInv
<1> SUFFICES ASSUME OneSource, Init
             PROVE  KeyInv
  OBVIOUS
<1>1. TypeOK
  BY InitType
<1>2. PICK l \in [Accounts -> Limits], s \in ConfigSpecs, i \in [Imports -> ImportableSeeds],
           k \in ImportableOperators :
        store = [o \in Objects |->
          CASE o[1] = "NatsAccount"     -> NewAccount(Budget, l[o[2]])
            [] o[1] = "NatsAuthConfig"  -> NewConfig(Budget, s)
            [] o[1] = "account-seed"    -> IF o[2] \in Imports
                                             THEN [seed |-> i[o[2]]] ELSE Absent
            [] o[1] = "operator-import" -> IF \E spec \in ConfigSpecs : spec.jwt = "import"
                                             THEN [key |-> k] ELSE Absent
            [] OTHER                    -> Absent]
  BY DEF Init, ClusterInit
<1>3. /\ store[AuthConfig] = NewConfig(Budget, s)
      /\ Imported => store[ImportedOperator] = [key |-> k]
      /\ ~Imported => store[OperatorSeed] = Absent
      /\ \A o \in Objects : o[1] \in {"account-jwt", "server-auth"} => store[o] = Absent
  BY <1>2, ConfigKinds DEF AuthConfig, ImportedOperator, OperatorSeed, Imported
<1>4. Imported => TheKey = k /\ k # NoKey /\ store[Source].key = k
  <2> SUFFICES ASSUME Imported
               PROVE  TheKey = k /\ k # NoKey /\ store[Source].key = k
    OBVIOUS
  <2>1. store[Source] = [key |-> k] /\ store[Source] \in OperatorImport \cup {Absent}
    BY <1>1, <1>3, ConfigKinds DEF Source, TypeOK, ClusterTypeOK
  <2>2. [key |-> k] \in OperatorImport
    BY SpecAssumption DEF OperatorImport
  <2>3. Exists(Source)
    BY <2>1, <2>2, ConfigKinds, AbsentAssumption DEF Exists
  <2> QED
    BY <2>1, <2>3 DEF TheKey, OneSource
<1>5. \A o \in Objects : cache[o] = Absent
  BY DEF Init, ClusterInit
<1>6. \A o \in Objects : Clean(TheKey, o, store[o])
  <2> SUFFICES ASSUME NEW o \in Objects, store[o] # Absent
               PROVE  Clean(TheKey, o, store[o])
    BY DEF Clean
  <2>1. CASE o = AuthConfig
    BY <1>3, <2>1, CleanKinds DEF NewConfig
  <2>2. CASE o = Source
    BY <1>3, <1>4, <2>2, CleanKinds DEF Source
  <2> QED
    BY <1>3, <2>1, <2>2 DEF Clean
<1>7. StoreClean
  BY <1>5, <1>6 DEF StoreClean, Clean
<1>8. AccountClean /\ ConfigClean
  BY DEF Init, AccountIdle, ConfigIdle, AccountClean, ConfigClean, Clean
<1> QED
  BY <1>1, <1>7, <1>8 DEF KeyInv

LEMMA NextClean == OneSource /\ KeyInv /\ [Next]_vars => KeyInv'
<1> SUFFICES ASSUME OneSource, KeyInv, [Next]_vars
             PROVE  KeyInv'
  OBVIOUS
<1>1. TypeOK'
  BY NextType DEF KeyInv
<1>2. CASE AccountStep
  <2>1. UNCHANGED configWorker
    BY <1>2 DEF AccountStep
  <2> QED
    BY <1>1, <1>2, <2>1, AccountStepClean, WorkersStayClean DEF KeyInv
<1>3. CASE ConfigStep
  <2>1. UNCHANGED accountWorker
    BY <1>3 DEF ConfigStep
  <2> QED
    BY <1>1, <1>3, <2>1, ConfigStepClean, WorkersStayClean DEF KeyInv
<1>4. CASE ClusterStep
  <2>1. UNCHANGED accountWorker /\ UNCHANGED configWorker
    BY <1>4 DEF ClusterStep
  <2> QED
    BY <1>1, <1>4, <2>1, ClusterStepClean, WorkersStayClean DEF KeyInv
<1>5. CASE Restart
  BY <1>1, <1>5, RestartClean DEF KeyInv
<1>6. CASE UNCHANGED vars
  <2>1. UNCHANGED <<store, cache>> /\ UNCHANGED accountWorker /\ UNCHANGED configWorker
    BY <1>6 DEF vars, cluster
  <2> QED
    BY <1>1, <2>1, ReadClean, WorkersStayClean DEF KeyInv
<1> QED
  BY <1>2, <1>3, <1>4, <1>5, <1>6 DEF Next

(* Whichever controller comes first, whatever answer is lost and whatever  *)
(* lags: one key signs all account JWTs, is the issuer of everything that  *)
(* is published, and is the one the configuration announces.               *)
THEOREM OneOperatorSigns == OneSource => (Spec => []OneOperator)
<1>1. OneSource /\ KeyInv => OneOperator
  <2> SUFFICES ASSUME OneSource, KeyInv, Exists(AuthConfig)
               PROVE  /\ \A a \in Accounts : Exists(JWTSecret(a)) => store[JWTSecret(a)].jwt.iss = StoredOperator
                      /\ \A n \in Entries : Published[n] # Absent => Published[n].iss = StoredOperator
                      /\ store[AuthConfig].pub \in {NoKey, StoredOperator}
    BY DEF OneOperator
  <2>1. StoreClean
    BY DEF KeyInv, KeyMatters
  <2>2. store[AuthConfig] \in ConfigObject /\ store[AuthConfig].spec \in ConfigSpecs
    <3>1. store[AuthConfig] \in ConfigObject
      BY ConfigKinds DEF KeyInv, TypeOK, ClusterTypeOK, Exists
    <3> QED
      BY <3>1 DEF ConfigObject
  <2>3. StoredOperator = TheKey
    BY <2>2, SourceKinds DEF StoredOperator, TheKey
  <2>4. store[AuthConfig].pub \in {NoKey, TheKey}
    BY <2>1, ConfigKinds, CleanKinds DEF StoreClean, Exists
  <2>5. ASSUME NEW a \in Accounts, Exists(JWTSecret(a))
        PROVE  store[JWTSecret(a)].jwt.iss = TheKey
    <3>1. store[JWTSecret(a)] \in AccountSecret
      BY <2>5, AccountKinds DEF Exists, KeyInv, TypeOK, ClusterTypeOK
    <3>2. SignedBy(TheKey, store[JWTSecret(a)].jwt)
      BY <2>1, <2>5, AccountKinds, CleanKinds DEF StoreClean, Exists
    <3> QED
      BY <3>1, <3>2, AbsentAssumption DEF AccountSecret, SignedBy
  <2>6. ASSUME NEW n \in Entries, Published[n] # Absent
        PROVE  Published[n].iss = TheKey
    BY <2>1, <2>6, ConfigKinds, CleanKinds DEF Published, StoreClean, Exists, SignedBy
  <2> QED
    BY <2>3, <2>4, <2>5, <2>6
<1> SUFFICES ASSUME OneSource
             PROVE  Spec => []OneOperator
  OBVIOUS
<1>2. Init => KeyInv
  BY InitClean
<1>3. KeyInv /\ [Next]_vars => KeyInv'
  BY NextClean
<1>4. KeyInv => OneOperator
  BY <1>1
<1> QED
  BY <1>2, <1>3, <1>4, PTL DEF Spec

-----------------------------------------------------------------------------
(* Ready is true: the proviso, and the inductive invariant.                *)

(* The controllers do not watch what they publish.                         *)
ServersKept == "server-auth" \notin Disturbances

(* g is what a configuration with this spec publishes.                     *)
Covers(g, spec) ==
  /\ g # Absent
  /\ g.conf = (spec.mode = "token")
  /\ spec.mode # "token" => g.jwts["operator"] # Absent
InPlace(spec) == Covers(store[Target(spec)], spec)

(* An account named operator takes the operator's place in the aggregate.  *)
AnnouncedAs(spec, key) ==
  spec.mode # "token" /\ "operator" \notin Accounts =>
    Published["operator"] # Absent /\ Published["operator"].sub = key

(* A spec that the status is about has reached the informer; so it is the  *)
(* one the next reconciliation works from, too.                            *)
SpecCached ==
  Cached(AuthConfig) # Absent /\ Cached(AuthConfig).spec = store[AuthConfig].spec
SpecSeen ==
  Exists(AuthConfig) =>
    /\ store[AuthConfig].observed =>
         SpecCached /\ (cpc # "idle" => cobj.spec = store[AuthConfig].spec)
    /\ cpc # "idle" /\ AuthConfig \in current["config"] => SpecCached

(* The copy Finalize sends back is the whole object the server has.        *)
CopyFull ==
  cpc = "finalize" /\ AuthConfig \in current["config"] => cobj = store[AuthConfig]

JWTMode == cpc \in {"seed", "found", "list", "collect"} => cobj.spec.mode # "token"
DraftCovers ==
  cpc \in {"collect", "create", "update"} =>
    /\ Covers(cdraft, cobj.spec)
    /\ cobj.spec.mode # "token" /\ "operator" \notin Accounts =>
         cdraft.jwts["operator"] = OperatorJWT(ckey)

(* A verdict about to be saved is true when it is formed, and still when   *)
(* it is saved: nobody else writes what is published.                      *)
VerdictOK ==
  cpc = "status" /\ cobj.ready => InPlace(cobj.spec) /\ AnnouncedAs(cobj.spec, cobj.pub)

ConfigReadyOK ==
  LET conf == store[AuthConfig]
  IN  Exists(AuthConfig) /\ conf.ready /\ conf.observed => InPlace(conf.spec)

(* While another key is published than the status announces, a             *)
(* reconciliation is under way or will be at once.                         *)
ConfigAttended == cpc # "idle" \/ AuthConfig \in due \/ timer[AuthConfig] = "backoff"
KeyAnnounced ==
  LET conf == store[AuthConfig]
  IN  Exists(AuthConfig) /\ conf.ready /\ conf.observed /\ process = "running" =>
        ConfigAttended \/ AnnouncedAs(conf.spec, conf.pub)

ServedOK ==
  /\ SpecSeen /\ CopyFull
  /\ JWTMode /\ DraftCovers /\ VerdictOK
  /\ ConfigReadyOK /\ KeyAnnounced
ServedInv == RememberInv /\ CopyInv /\ ReleasesDeleted /\ ServedOK

-----------------------------------------------------------------------------
(* The steps of others.                                                    *)

SameServers ==
  store'[ServerSecret] = store[ServerSecret] /\ store'[ServerConfigMap] = store[ServerConfigMap]

(* Others leave the configuration alone, remove it, mark it for deletion,  *)
(* or give it another spec, of which the status says nothing yet.          *)
ConfigChanged ==
  LET v == store[AuthConfig]
      w == store'[AuthConfig]
  IN  \/ w \in {v, Absent}
      \/ w.observed = FALSE
      \/ /\ v # Absent /\ w.spec = v.spec /\ w.pub = v.pub
         /\ w.ready = v.ready /\ w.observed = v.observed

InformerFollows ==
  \/ cache'[AuthConfig] = cache[AuthConfig]
  \/ cache'[AuthConfig] = store[AuthConfig] /\ store'[AuthConfig] = store[AuthConfig]

LEMMA OthersServe ==
  ASSUME ServedInv, UNCHANGED configWorker, SameServers, ConfigChanged, InformerFollows,
         AuthConfig \in current'["config"] =>
           AuthConfig \in current["config"] /\ store'[AuthConfig] = store[AuthConfig],
         ConfigAttended /\ process' = "running" => ConfigAttended' /\ process = "running",
         process' = "running" => process = "running"
  PROVE  ServedOK'
<1>1. UNCHANGED <<cpc, cobj, ckey, cdraft>> /\ ServedOK
  BY DEF configWorker, ServedInv
<1>2. SpecSeen'
  BY <1>1 DEF ServedOK, SpecSeen, SpecCached, Cached, ConfigChanged, InformerFollows, Exists
<1>3. CopyFull'
  BY <1>1 DEF ServedOK, CopyFull
<1>4. JWTMode' /\ DraftCovers'
  BY <1>1 DEF ServedOK, JWTMode, DraftCovers, Covers
<1>5. VerdictOK'
  <2>1. /\ InPlace(cobj.spec) => InPlace(cobj.spec)'
        /\ AnnouncedAs(cobj.spec, cobj.pub) => AnnouncedAs(cobj.spec, cobj.pub)'
    BY <1>1 DEF SameServers, InPlace, Target, AnnouncedAs, Published, Exists
  <2> QED
    BY <1>1, <2>1 DEF ServedOK, VerdictOK
<1>6. ConfigReadyOK'
  <2> SUFFICES ASSUME Exists(AuthConfig)', store'[AuthConfig].ready, store'[AuthConfig].observed
               PROVE  InPlace(store[AuthConfig].spec)'
    BY DEF ConfigReadyOK
  <2>1. /\ Exists(AuthConfig) /\ store[AuthConfig].ready /\ store[AuthConfig].observed
        /\ store'[AuthConfig].spec = store[AuthConfig].spec
    BY DEF ConfigChanged, Exists
  <2> QED
    BY <1>1, <2>1 DEF ServedOK, ConfigReadyOK, InPlace, SameServers, Target, Covers
<1>7. KeyAnnounced'
  <2> SUFFICES ASSUME Exists(AuthConfig)', store'[AuthConfig].ready, store'[AuthConfig].observed,
                      process' = "running", ~ConfigAttended'
               PROVE  AnnouncedAs(store[AuthConfig].spec, store[AuthConfig].pub)'
    BY DEF KeyAnnounced
  <2>1. /\ Exists(AuthConfig) /\ store[AuthConfig].ready /\ store[AuthConfig].observed
        /\ store'[AuthConfig].spec = store[AuthConfig].spec
        /\ store'[AuthConfig].pub = store[AuthConfig].pub
    BY DEF ConfigChanged, Exists
  <2> QED
    BY <1>1, <2>1 DEF ServedOK, KeyAnnounced, AnnouncedAs, Published, SameServers, Exists
<1> QED
  BY <1>2, <1>3, <1>4, <1>5, <1>6, <1>7 DEF ServedOK

LEMMA AccountStepServes ==
  ASSUME ServedInv, AccountStep
  PROVE  ServedOK'
<1>1. /\ TypeOK /\ CopiesOK /\ UNCHANGED configWorker
      /\ {AuthConfig, ServerSecret, ServerConfigMap} \subseteq Objects
      /\ apc # "idle" => areq \in Accounts
      /\ \A a \in Accounts : Account(a) \in Objects /\ JWTSecret(a) \in Objects
      /\ UNCHANGED cache
  <2>1. UNCHANGED cache
    BY DEF AccountStep, AccountReconcile, FetchAccount, FinalizeAccount, RejectAccount, SkipAccount,
           PanicOnAccount, SignAccount, AccountReads, StoreAccountSecret, TriggerConfig,
           SaveAccountStatus, UntriggerConfig, ReleaseAccount, Create, Update, Send
  <2> QED
    BY <2>1, AccountKinds, ConfigKinds, AccountInHand DEF ServedInv, CopyInv, AccountStep
<1>2. \/ UNCHANGED store /\ (UNCHANGED current \/ \E held, objs : Got("account", held, objs))
      \/ /\ apc # "idle"
         /\ \E o \in {Account(areq), JWTSecret(areq)} : \E allowed, v, held :
              Sent("account", o, allowed, v, held)
      \/ /\ apc \in {"trigger", "untrigger"}
         /\ \E held :
              Sent("account", AuthConfig, Exists(AuthConfig) /\ AuthConfig \in current["account"], aconf, held)
  <2>1. ASSUME \/ \E a \in Accounts : FetchAccount(a)
               \/ RejectAccount \/ SkipAccount \/ PanicOnAccount
               \/ SignAccount(FreshAccountKeys, FreshOperatorKeys)
        PROVE  UNCHANGED store /\ (UNCHANGED current \/ \E held, objs : Got("account", held, objs))
    BY <2>1 DEF FetchAccount, RejectAccount, SkipAccount, PanicOnAccount, SignAccount, AccountReads
  <2>2. ASSUME FinalizeAccount \/ SaveAccountStatus \/ ReleaseAccount \/ StoreAccountSecret
        PROVE  /\ apc # "idle"
               /\ \E o \in {Account(areq), JWTSecret(areq)} : \E allowed, v, held :
                    Sent("account", o, allowed, v, held)
    BY <2>2 DEF FinalizeAccount, SaveAccountStatus, ReleaseAccount, StoreAccountSecret, Create,
                Update, Send, Sent
  <2>3. ASSUME TriggerConfig \/ UntriggerConfig
        PROVE  /\ apc \in {"trigger", "untrigger"}
               /\ \E held : Sent("account", AuthConfig,
                                 Exists(AuthConfig) /\ AuthConfig \in current["account"], aconf, held)
    BY <2>3 DEF TriggerConfig, UntriggerConfig, Update, Send, Sent
  <2> QED
    BY <2>1, <2>2, <2>3 DEF AccountStep, AccountReconcile
<1>3. /\ SameServers /\ store'[AuthConfig] = store[AuthConfig]
      /\ AuthConfig \in current'["config"] => AuthConfig \in current["config"]
  <2>1. CASE UNCHANGED store /\ (UNCHANGED current \/ \E held, objs : Got("account", held, objs))
    BY <1>1, <2>1 DEF SameServers, Got, TypeOK, ClusterTypeOK, Holders
  <2>2. ASSUME apc # "idle", NEW o \in {Account(areq), JWTSecret(areq)}, NEW allowed, NEW v, NEW held,
               Sent("account", o, allowed, v, held)
        PROVE  /\ SameServers /\ store'[AuthConfig] = store[AuthConfig]
               /\ AuthConfig \in current'["config"] => AuthConfig \in current["config"]
    <3>1. o \in Objects /\ o \notin {AuthConfig, ServerSecret, ServerConfigMap}
      BY <1>1, <2>2, Distinct
    <3> QED
      BY <1>1, <2>2, <3>1, SentHere, SentElsewhere DEF SameServers
  <2>3. ASSUME apc \in {"trigger", "untrigger"}, NEW held,
               Sent("account", AuthConfig, Exists(AuthConfig) /\ AuthConfig \in current["account"], aconf, held)
        PROVE  /\ SameServers /\ store'[AuthConfig] = store[AuthConfig]
               /\ AuthConfig \in current'["config"] => AuthConfig \in current["config"]
    <3> DEFINE allowed == Exists(AuthConfig) /\ AuthConfig \in current["account"]
    <3>1. AuthConfig \notin {ServerSecret, ServerConfigMap}
      BY DEF AuthConfig, ServerSecret, ServerConfigMap
    <3>2. allowed => aconf = store[AuthConfig]
      BY <1>1, <2>3 DEF CopiesOK, TriggerCopyOK
    <3>3. Sent("account", AuthConfig, allowed, aconf, held)
      BY <2>3
    <3> HIDE DEF allowed
    <3>4. \A r \in Objects : /\ r # AuthConfig => store'[r] = store[r]
                             /\ store'[AuthConfig] = store[AuthConfig] \/ (allowed /\ store'[AuthConfig] = aconf)
                             /\ r \in current'["config"] => r \in current["config"]
      BY <1>1, <3>3, SentHere, SentElsewhere
    <3> QED
      BY <1>1, <3>1, <3>2, <3>4 DEF SameServers
  <2> QED
    BY <1>2, <2>1, <2>2, <2>3
<1>4. ConfigAttended /\ process' = "running" => ConfigAttended' /\ process = "running"
  <2>1. process = "running"
    BY DEF AccountStep, AccountReconcile, FetchAccount, FinalizeAccount, RejectAccount, SkipAccount,
           PanicOnAccount, SignAccount, AccountReads, StoreAccountSecret, TriggerConfig,
           SaveAccountStatus, UntriggerConfig, ReleaseAccount
  <2>2. AuthConfig \in due => AuthConfig \in due'
    <3>1. \A a : Account(a) # AuthConfig
      BY Distinct
    <3>2. due \subseteq due' \/ \E a : due' = due \ {Account(a)}
      BY DEF AccountStep, AccountReconcile, FetchAccount, FinalizeAccount, RejectAccount, SkipAccount,
             PanicOnAccount, SignAccount, AccountReads, StoreAccountSecret, TriggerConfig,
             SaveAccountStatus, UntriggerConfig, ReleaseAccount, Create, Update, Send, Put
    <3> QED
      BY <3>1, <3>2
  <2>3. timer'[AuthConfig] = timer[AuthConfig]
    <3>1. UNCHANGED timer \/ AccountRetries \/ AccountForgets \/ AccountWaits
      BY DEF AccountStep, AccountReconcile, FetchAccount, FinalizeAccount, RejectAccount, SkipAccount,
             PanicOnAccount, SignAccount, StoreAccountSecret, TriggerConfig,
             SaveAccountStatus, UntriggerConfig, ReleaseAccount, Create, Update, Send, Proceed, GiveUp
    <3> QED
      BY <1>1, <3>1, ConfigKinds, Distinct
         DEF AccountRetries, AccountForgets, AccountWaits, Backoff, RequeueAfter, TypeOK, ClusterTypeOK
  <2> QED
    BY <1>1, <2>1, <2>2, <2>3 DEF ConfigAttended, configWorker
<1>5. process' = "running" => process = "running"
  BY DEF AccountStep, AccountReconcile, FetchAccount, FinalizeAccount, RejectAccount, SkipAccount,
         PanicOnAccount, SignAccount, AccountReads, StoreAccountSecret, TriggerConfig,
         SaveAccountStatus, UntriggerConfig, ReleaseAccount
<1> QED
  BY <1>1, <1>3, <1>4, <1>5, OthersServe DEF ConfigChanged, InformerFollows

LEMMA ClusterStepServes ==
  ASSUME ServedInv, ServersKept, ClusterStep
  PROVE  ServedOK'
<1>1. /\ TypeOK /\ CopyInv /\ DOMAIN store = Objects /\ UNCHANGED configWorker
      /\ {AuthConfig, ServerSecret, ServerConfigMap} \subseteq Objects
      /\ AuthConfig \notin {ServerSecret, ServerConfigMap}
      /\ Exists(AuthConfig) => store[AuthConfig] \in ConfigObject
  BY ConfigKinds
     DEF ServedInv, CopyInv, ClusterStep, TypeOK, ClusterTypeOK, AuthConfig, ServerSecret,
         ServerConfigMap, Exists
<1> DEFINE Goal == /\ SameServers /\ ConfigChanged /\ InformerFollows
                   /\ AuthConfig \in current'["config"] =>
                        AuthConfig \in current["config"] /\ store'[AuthConfig] = store[AuthConfig]
                   /\ ConfigAttended /\ process' = "running" => ConfigAttended' /\ process = "running"
                   /\ process' = "running" => process = "running"
<1>2. ASSUME NEW h \in {"gc", "user"}, NEW o \in Objects, o \notin {ServerSecret, ServerConfigMap},
             NEW v, Put(h, o, v, {}), UNCHANGED <<cache, timer, process>>,
             o # AuthConfig \/ v = Absent \/ v.observed = FALSE
               \/ (/\ Exists(AuthConfig) /\ v.spec = store[AuthConfig].spec
                   /\ v.pub = store[AuthConfig].pub /\ v.ready = store[AuthConfig].ready
                   /\ v.observed = store[AuthConfig].observed)
      PROVE  Goal
  <2>1. store' = [store EXCEPT ![o] = v] /\ due \subseteq due'
    BY <1>2 DEF Put
  <2>2. AuthConfig \in current'["config"] =>
          AuthConfig \in current["config"] /\ store'[AuthConfig] = store[AuthConfig]
    BY <1>1, <1>2, PutElsewhere
  <2> QED
    BY <1>1, <1>2, <2>1, <2>2
       DEF SameServers, ConfigChanged, InformerFollows, ConfigAttended, configWorker, Exists
<1>3. ASSUME NEW o \in Objects, Deliver(o)
      PROVE  Goal
  BY <1>1, <1>3 DEF Deliver, SameServers, ConfigChanged, InformerFollows, ConfigAttended,
                    configWorker, TypeOK, ClusterTypeOK, Holders
<1>4. ASSUME (\E r \in Requests : TimerFires(r)) \/ Kill
      PROVE  Goal
  BY <1>1, <1>4, ConfigKinds
     DEF TimerFires, Kill, SameServers, ConfigChanged, InformerFollows, ConfigAttended,
         configWorker, TypeOK, ClusterTypeOK
<1>5. ASSUME NEW o \in Objects, CollectGarbage(o) \/ DeleteSecret(o)
      PROVE  Goal
  <2>1. /\ \E h \in {"gc", "user"} : Put(h, o, Absent, {})
        /\ UNCHANGED <<cache, timer, process>>
    BY <1>5 DEF CollectGarbage, DeleteSecret, ByUser
  <2>2. o \notin {ServerSecret, ServerConfigMap}
    BY <1>5 DEF CollectGarbage, Orphaned, DeleteSecret, ByUser, Disturb, ServersKept,
                ServerSecret, ServerConfigMap
  <2> QED
    BY <1>2, <2>1, <2>2
<1>6. ASSUME NEW a \in Accounts, NEW kind, NEW v, ByUser(kind, Account(a), v)
      PROVE  Goal
  <2>1. /\ Put("user", Account(a), v, {}) /\ UNCHANGED <<cache, timer, process>>
        /\ Account(a) \in Objects /\ Account(a) \notin {AuthConfig, ServerSecret, ServerConfigMap}
    BY <1>6, AccountKinds, Distinct DEF ByUser
  <2> QED
    BY <1>2, <2>1
<1>7. ASSUME NEW s \in ConfigSpecs, EditConfig(s)
      PROVE  Goal
  <2> DEFINE v == [store[AuthConfig] EXCEPT !.spec = s, !.observed = FALSE]
  <2>1. v.observed = FALSE
    BY <1>1, <1>7 DEF EditConfig, ConfigObject
  <2>2. Put("user", AuthConfig, v, {}) /\ UNCHANGED <<cache, timer, process>>
    BY <1>7 DEF EditConfig, ByUser
  <2> HIDE DEF v
  <2> QED
    BY <1>1, <1>2, <2>1, <2>2
<1>8. ASSUME NEW s \in ConfigSpecs, CreateConfig(s)
      PROVE  Goal
  <2> DEFINE v == NewConfig(budget', s)
  <2>1. v.observed = FALSE
    BY DEF NewConfig
  <2>2. Put("user", AuthConfig, v, {}) /\ UNCHANGED <<cache, timer, process>>
    BY <1>8 DEF CreateConfig, ByUser
  <2> HIDE DEF v
  <2> QED
    BY <1>1, <1>2, <2>1, <2>2
<1>9. ASSUME Delete("deleteConfig", AuthConfig)
      PROVE  Goal
  <2> DEFINE v == [store[AuthConfig] EXCEPT !.deleting = TRUE]
  <2>1. /\ Exists(AuthConfig) /\ v.spec = store[AuthConfig].spec /\ v.pub = store[AuthConfig].pub
        /\ v.ready = store[AuthConfig].ready /\ v.observed = store[AuthConfig].observed
    BY <1>1, <1>9 DEF Delete, ConfigObject
  <2>2. /\ Put("user", AuthConfig, v, {}) \/ Put("user", AuthConfig, Absent, {})
        /\ UNCHANGED <<cache, timer, process>>
    BY <1>9 DEF Delete, ByUser
  <2> HIDE DEF v
  <2> QED
    BY <1>1, <1>2, <2>1, <2>2
<1>10. Goal
  <2>1. ASSUME NEW a \in Accounts, (\E l \in Limits : EditAccount(a, l) \/ CreateAccount(a, l))
                                   \/ Delete("delete", Account(a))
        PROVE  \E kind, v : ByUser(kind, Account(a), v)
    BY <2>1 DEF EditAccount, CreateAccount, Delete
  <2> HIDE DEF Goal
  <2> QED
    BY <1>3, <1>4, <1>5, <1>6, <1>7, <1>8, <1>9, <2>1 DEF ClusterStep, Informers, Environment
<1> QED
  BY <1>1, <1>10, OthersServe

LEMMA RestartServes ==
  ASSUME ServedInv, Restart
  PROVE  ServedOK'
<1>1. /\ UNCHANGED store /\ cpc' = "idle" /\ AuthConfig \in Objects /\ AuthConfig \in Requests
      /\ cache' = [o \in Objects |-> IF o[1] \in Lag THEN store[o] ELSE Absent]
  BY ConfigKinds DEF Restart, Start, Relist
<1>2. SpecSeen'
  BY <1>1 DEF SpecSeen, SpecCached, Cached, Exists
<1>3. ConfigReadyOK'
  BY <1>1 DEF ServedInv, ServedOK, ConfigReadyOK, InPlace, Exists
<1>4. Exists(AuthConfig) => AuthConfig \in due'
  BY <1>1, RequestWatchesItself DEF Restart, Start, Relist, Exists
<1>5. KeyAnnounced'
  BY <1>1, <1>4 DEF KeyAnnounced, ConfigAttended, Exists
<1> QED
  BY <1>1, <1>2, <1>3, <1>5 DEF ServedOK, CopyFull, JWTMode, DraftCovers, VerdictOK

-----------------------------------------------------------------------------
(* The steps of the configuration controller.                              *)

(* Steps that leave the configuration itself alone, and what is published. *)
LEMMA ConfigGoesOn ==
  ASSUME ServedInv, cpc # "idle", cpc' \notin {"idle", "finalize"}, cobj'.spec = cobj.spec,
         store'[AuthConfig] = store[AuthConfig], UNCHANGED cache,
         AuthConfig \in current'["config"] => AuthConfig \in current["config"]
  PROVE  SpecSeen' /\ CopyFull' /\ KeyAnnounced' /\ (SameServers => ConfigReadyOK')
<1>1. SpecSeen'
  BY DEF ServedInv, ServedOK, SpecSeen, SpecCached, Cached, Exists
<1>2. KeyAnnounced'
  BY DEF KeyAnnounced, ConfigAttended
<1>3. SameServers => ConfigReadyOK'
  BY DEF ServedInv, ServedOK, ConfigReadyOK, InPlace, SameServers, Target, Covers, Exists
<1> QED
  BY <1>1, <1>2, <1>3 DEF CopyFull

LEMMA VerdictKeepsSpec ==
  ASSUME NEW obj \in ConfigObject, ConfigFails(obj) \/ ConfigInvalid(obj) \/ ConfigSucceeds(obj)
  PROVE  /\ cpc' = "status" /\ cobj'.spec = obj.spec /\ cobj'.pub = obj.pub
         /\ ConfigFails(obj) \/ ConfigInvalid(obj) => ~cobj'.ready
BY DEF ConfigFails, ConfigInvalid, ConfigSucceeds, ProceedConfig, ConfigObject

LEMMA ChooseModeServes ==
  ASSUME ServedInv, ChooseMode
  PROVE  ServedOK'
<1> DEFINE existing == Cached(Target(cobj.spec))
           import == Cached(ImportedOperator)
<1>1. /\ TypeOK /\ cobj \in ConfigObject /\ cpc = "mode" /\ UNCHANGED <<store, cache>>
      /\ Target(cobj.spec) \in {ServerSecret, ServerConfigMap}
  BY ConfigInHand DEF ChooseMode, ServedInv, CopyInv
<1>2. AuthConfig \in current'["config"] => AuthConfig \in current["config"]
  <2>1. \/ Got("config", {AuthConfig}, {})
        \/ Got("config", {AuthConfig}, {Target(cobj.spec)})
    BY DEF ChooseMode
  <2>2. AuthConfig \notin {ServerSecret, ServerConfigMap}
    BY DEF AuthConfig, ServerSecret, ServerConfigMap
  <2> QED
    BY <1>1, <2>1, <2>2 DEF Got, TypeOK, ClusterTypeOK, Holders
<1>3. /\ cpc' \in {"status", "create", "update", "seed", "list"} /\ cobj'.spec = cobj.spec
      /\ cpc' = "status" => ~cobj'.ready
      /\ cpc' \in {"create", "update"} => cobj.spec.mode = "token" /\ cdraft' = WithAuthConf(existing)
      /\ cpc' \in {"seed", "list"} => cobj.spec.mode # "token"
  <2>1. CASE ConfigInvalid(cobj) \/ ConfigFails(cobj)
    BY <1>1, <2>1, VerdictKeepsSpec
  <2>2. CASE \/ /\ cobj.spec.mode = "token"
                /\ ProceedConfig(IF existing = Absent THEN "create" ELSE "update",
                                 cobj, NoKey, WithAuthConf(existing), "ready")
             \/ /\ cobj.spec.mode # "token"
                /\ \/ ProceedConfig("seed", cobj, NoKey, Absent, "ready")
                   \/ ProceedConfig("list", cobj, import.key, Absent, "ready")
    BY <2>2 DEF ProceedConfig
  <2> QED
    BY <2>1, <2>2 DEF ChooseMode
<1>4. SpecSeen' /\ CopyFull' /\ KeyAnnounced' /\ ConfigReadyOK'
  BY <1>1, <1>2, <1>3, ConfigGoesOn DEF SameServers
<1>5. DraftCovers'
  <2>1. WithAuthConf(existing).conf = TRUE /\ WithAuthConf(existing) # Absent
    <3>1. existing \in ServerObject \cup {Absent}
      BY <1>1, ConfigKinds, CachedType DEF TypeOK
    <3>2. WithAuthConf(existing).conf = TRUE
      BY <3>1 DEF WithAuthConf, ServerObject
    <3>3. WithAuthConf(existing) \in ServerObject
      BY <3>1, WithAuthConfType
    <3> HIDE DEF existing
    <3> QED
      BY <3>2, <3>3, ConfigKinds, AbsentAssumption
  <2> HIDE DEF existing
  <2> QED
    BY <1>3, <2>1 DEF DraftCovers, Covers
<1>6. VerdictOK' /\ JWTMode'
  BY <1>3 DEF VerdictOK, JWTMode
<1> QED
  BY <1>4, <1>5, <1>6 DEF ServedOK

LEMMA ReadsServe ==
  ASSUME ServedInv,
         \/ ReadOperatorSeed \/ ListAccounts(FreshOperatorKeys)
         \/ CollectAccountJWT \/ ReadServerSecret
  PROVE  /\ TypeOK /\ cobj \in ConfigObject /\ cobj.spec.mode # "token"
         /\ cpc \in {"found", "list", "collect"} /\ UNCHANGED <<store, cache>>
         /\ cpc' \notin {"idle", "finalize"} /\ cobj'.spec = cobj.spec
         /\ SpecSeen' /\ CopyFull' /\ KeyAnnounced' /\ ConfigReadyOK' /\ JWTMode'
<1>1. /\ TypeOK /\ cobj \in ConfigObject /\ cpc \in {"found", "list", "collect"}
      /\ UNCHANGED <<store, cache>>
      /\ \E objs \in {{}, {ServerSecret}} : Got("config", {AuthConfig}, objs)
  BY ConfigInHand
     DEF ReadOperatorSeed, ListAccounts, CollectAccountJWT, ReadServerSecret, ConfigReads,
         ServedInv, CopyInv
<1>2. cpc' \notin {"idle", "finalize"} /\ cobj'.spec = cobj.spec
  BY <1>1, VerdictKeepsSpec
     DEF ReadOperatorSeed, ListAccounts, CollectAccountJWT, ReadServerSecret, ConfigReads,
         ProceedConfig
<1>3. AuthConfig \in current'["config"] => AuthConfig \in current["config"]
  <2>1. AuthConfig # ServerSecret
    BY DEF AuthConfig, ServerSecret
  <2> QED
    BY <1>1, <2>1 DEF Got, TypeOK, ClusterTypeOK, Holders
<1>4. SpecSeen' /\ CopyFull' /\ KeyAnnounced' /\ ConfigReadyOK'
  BY <1>1, <1>2, <1>3, ConfigGoesOn DEF SameServers
<1>5. cobj.spec.mode # "token"
  BY <1>1 DEF ServedInv, ServedOK, JWTMode
<1> QED
  BY <1>1, <1>2, <1>4, <1>5 DEF JWTMode

LEMMA ReadOperatorSeedServes ==
  ASSUME ServedInv, ReadOperatorSeed
  PROVE  ServedOK'
<1>1. /\ cpc' \in {"list", "status"}
      /\ cpc' = "status" => ~cobj'.ready
  <2>1. cobj \in ConfigObject
    BY ReadsServe
  <2> QED
    BY <2>1, VerdictKeepsSpec DEF ReadOperatorSeed, ProceedConfig
<1> QED
  BY <1>1, ReadsServe DEF ServedOK, DraftCovers, VerdictOK

(* The aggregate has an entry for the operator from the beginning; that of *)
(* an account named operator takes its place.                              *)
LEMMA CollectServes ==
  ASSUME ServedInv, ListAccounts(FreshOperatorKeys) \/ CollectAccountJWT \/ ReadServerSecret
  PROVE  ServedOK'
<1>1. cpc' \in {"collect", "create", "update"} /\ cobj' = cobj
  BY DEF ListAccounts, CollectAccountJWT, ReadServerSecret, ConfigReads, ProceedConfig
<1>2. DraftCovers'
  <2>1. CASE ListAccounts(FreshOperatorKeys)
    <3>1. cdraft' = OperatorEntry(ckey') /\ ckey' \in Operators
      BY <2>1, ReadsServe
         DEF ListAccounts, KeyOf, TypeOK, ConfigWorkerTypeOK, Operators, FreshOperatorKeys, Fresh
    <3> DEFINE draft == OperatorEntry(ckey')
    <3>2. draft.conf = FALSE /\ draft.jwts["operator"] = OperatorJWT(ckey') /\ draft \in ServerObject
      BY <3>1, OperatorEntryType DEF OperatorEntry, Entries
    <3>3. OperatorJWT(ckey') # Absent
      BY <3>1, AbsentAssumption
    <3>4. draft # Absent
      <4> HIDE DEF draft
      <4> QED
        BY <3>2, ConfigKinds, AbsentAssumption
    <3> HIDE DEF draft
    <3>5. cdraft' = draft
      BY <3>1 DEF draft
    <3> QED
      BY <1>1, <3>2, <3>3, <3>4, <3>5, ReadsServe DEF DraftCovers, Covers
  <2>2. CASE CollectAccountJWT
    <3>1. cpc = "collect" /\ cpc' = "collect" /\ ckey' = ckey
      BY <2>2 DEF CollectAccountJWT, ConfigReads
    <3>2. cdraft \in ServerObject /\ DraftCovers /\ clist \subseteq Accounts
      BY <3>1, ReadsServe DEF TypeOK, ConfigWorkerTypeOK, ServedInv, ServedOK
    <3>3. PICK a \in clist :
            cdraft' = IF Cached(JWTSecret(a)) = Absent THEN cdraft
                      ELSE [cdraft EXCEPT !.jwts[a] = Cached(JWTSecret(a)).jwt]
      BY <2>2 DEF CollectAccountJWT
    <3>4. CASE Cached(JWTSecret(a)) = Absent
      BY <1>1, <3>1, <3>2, <3>3, <3>4 DEF DraftCovers, Covers
    <3>5. CASE Cached(JWTSecret(a)) # Absent
      <4>1. Cached(JWTSecret(a)) \in AccountSecret
        BY <3>2, <3>5, ReadsServe, AccountKinds, CachedType DEF TypeOK
      <4>2. Cached(JWTSecret(a)).jwt # Absent
        BY <4>1, AbsentAssumption DEF AccountSecret
      <4>3. cdraft' \in ServerObject
        <5>1. Cached(JWTSecret(a)).jwt \in JWTs /\ a \in Entries
          BY <3>2, <4>1 DEF AccountSecret, JWTs, Entries
        <5> QED
          BY <3>2, <3>3, <3>5, <5>1 DEF ServerObject
      <4>4. cdraft'.conf = cdraft.conf
            /\ \A n \in Entries : cdraft'.jwts[n] = IF n = a THEN Cached(JWTSecret(a)).jwt ELSE cdraft.jwts[n]
        BY <3>2, <3>3, <3>5 DEF ServerObject
      <4>5. cdraft' # Absent
        BY <4>3, ConfigKinds, AbsentAssumption
      <4>6. "operator" \in Entries
        BY DEF Entries
      <4> QED
        BY <1>1, <3>1, <3>2, <4>2, <4>4, <4>5, <4>6 DEF DraftCovers, Covers
    <3> QED
      BY <3>4, <3>5
  <2>3. CASE ReadServerSecret
    <3>1. cpc = "collect" /\ cdraft' = cdraft /\ ckey' = ckey
      BY <2>3 DEF ReadServerSecret, ConfigReads, ProceedConfig
    <3> QED
      BY <1>1, <3>1 DEF ServedInv, ServedOK, DraftCovers
  <2> QED
    BY <2>1, <2>2, <2>3
<1>3. VerdictOK'
  BY <1>1 DEF VerdictOK
<1> QED
  BY <1>2, <1>3, ReadsServe DEF ServedOK

LEMMA CreateOperatorSeedServes ==
  ASSUME ServedInv, CreateOperatorSeed(FreshOperatorKeys)
  PROVE  ServedOK'
<1>1. /\ TypeOK /\ cobj \in ConfigObject /\ cpc = "seed" /\ OperatorSeed \in Objects
      /\ {AuthConfig, ServerSecret, ServerConfigMap} \subseteq Objects
      /\ OperatorSeed \notin {AuthConfig, ServerSecret, ServerConfigMap}
  BY ConfigInHand, ConfigKinds
     DEF CreateOperatorSeed, ServedInv, CopyInv, OperatorSeed, AuthConfig, ServerSecret, ServerConfigMap
<1>2. /\ UNCHANGED cache
      /\ \E allowed, v : Sent("config", OperatorSeed, allowed, v, {AuthConfig})
      /\ \/ \E key : ProceedConfig("list", cobj, key, Absent, "ready")
         \/ ProceedConfig("found", cobj, NoKey, Absent, "ready")
         \/ ConfigFails(cobj)
  BY DEF CreateOperatorSeed, Send, Sent
<1>3. \A r \in Objects : /\ r # OperatorSeed => store'[r] = store[r]
                         /\ r \in current'["config"] /\ r # OperatorSeed => r \in current["config"]
  BY <1>1, <1>2, SentHere
<1>4. /\ cpc' \in {"list", "found", "status"} /\ cobj'.spec = cobj.spec
      /\ cpc' = "status" => ~cobj'.ready
  BY <1>1, <1>2, VerdictKeepsSpec DEF ProceedConfig
<1>5. SpecSeen' /\ CopyFull' /\ KeyAnnounced' /\ ConfigReadyOK'
  BY <1>1, <1>2, <1>3, <1>4, ConfigGoesOn DEF SameServers
<1>6. JWTMode' /\ DraftCovers' /\ VerdictOK'
  BY <1>1, <1>4 DEF ServedInv, ServedOK, JWTMode, DraftCovers, VerdictOK
<1> QED
  BY <1>5, <1>6 DEF ServedOK

(* What is published covers the spec it was made for; and that is the spec *)
(* of the server's object if its status speaks of it.                      *)
LEMMA PublishServes ==
  ASSUME ServedInv, PublishAggregate
  PROVE  ServedOK'
<1> DEFINE target == Target(cobj.spec)
           pub == IF cobj.spec.mode = "token" THEN cobj.pub ELSE ckey
           obj == [cobj EXCEPT !.pub = pub, !.resolver = TRUE]
<1>1. /\ TypeOK /\ cobj \in ConfigObject /\ cpc \in {"create", "update"} /\ ckey \in Operators
      /\ target \in {ServerSecret, ServerConfigMap}
      /\ {AuthConfig, ServerSecret, ServerConfigMap} \subseteq Objects
      /\ AuthConfig \notin {ServerSecret, ServerConfigMap} /\ ServerSecret # ServerConfigMap
  BY ConfigInHand, ConfigKinds
     DEF PublishAggregate, ServedInv, CopyInv, TypeOK, ConfigWorkerTypeOK, AuthConfig,
         ServerSecret, ServerConfigMap
<1>2. /\ UNCHANGED cache
      /\ \E allowed : Sent("config", target, allowed, cdraft, {AuthConfig})
      /\ \/ ConfigSucceeds(obj) /\ (store' = [store EXCEPT ![target] = cdraft]
                                     \/ (store' = store /\ store[target] = cdraft))
         \/ ConfigFails(cobj)
  BY DEF PublishAggregate, Create, Update, Send, Sent, Put
<1>3. /\ \A r \in Objects : /\ r # target => store'[r] = store[r]
                            /\ r \in current'["config"] /\ r # target => r \in current["config"]
      /\ store'[target] \in {store[target], cdraft}
  BY <1>1, <1>2, SentHere
<1>4. obj \in ConfigObject /\ obj.spec = cobj.spec /\ obj.pub = pub
  BY <1>1 DEF ConfigObject
<1>5. Covers(cdraft, cobj.spec) /\ (InPlace(cobj.spec) => InPlace(cobj.spec)')
  <2>1. DraftCovers
    BY DEF ServedInv, ServedOK
  <2>2. Covers(cdraft, cobj.spec)
    BY <1>1, <2>1 DEF DraftCovers
  <2>3. cobj' \in ConfigObject /\ cobj'.spec = cobj.spec
    <3> HIDE DEF obj
    <3>1. cobj'.spec = cobj.spec
      BY <1>1, <1>2, <1>4, VerdictKeepsSpec
    <3>2. cobj' \in ConfigObject
      <4>1. ConfigSucceeds(obj) \/ ConfigFails(cobj)
        BY <1>2
      <4> QED
        BY <1>1, <1>4, <4>1 DEF ConfigSucceeds, ConfigFails, ProceedConfig, ConfigObject
    <3> QED
      BY <3>1, <3>2
  <2> QED
    BY <1>1, <1>3, <2>2, <2>3 DEF InPlace, Covers
<1> HIDE DEF obj
<1>6. cpc' = "status" /\ cobj'.spec = cobj.spec /\ (ConfigFails(cobj) => ~cobj'.ready)
      /\ (ConfigSucceeds(obj) => cobj'.pub = pub)
  BY <1>1, <1>2, <1>4, VerdictKeepsSpec
<1>7. SpecSeen' /\ CopyFull' /\ KeyAnnounced'
  BY <1>1, <1>2, <1>3, <1>6, ConfigGoesOn
<1>8. JWTMode' /\ DraftCovers'
  BY <1>6 DEF JWTMode, DraftCovers
<1>9. ConfigReadyOK'
  <2> SUFFICES ASSUME Exists(AuthConfig), store[AuthConfig].ready, store[AuthConfig].observed
               PROVE  InPlace(store[AuthConfig].spec)'
    BY <1>1, <1>3 DEF ConfigReadyOK, Exists
  <2>1. store'[AuthConfig] = store[AuthConfig] /\ store[AuthConfig].spec = cobj.spec
        /\ InPlace(cobj.spec)
    BY <1>1, <1>3 DEF ServedInv, ServedOK, SpecSeen, ConfigReadyOK
  <2> QED
    BY <1>1, <1>3, <1>5, <2>1 DEF InPlace
<1>10. VerdictOK'
  <2> SUFFICES ASSUME cobj'.ready
               PROVE  InPlace(cobj.spec)' /\ AnnouncedAs(cobj.spec, cobj.pub)'
    BY DEF VerdictOK
  <2>1. store'[target] = cdraft /\ cobj'.pub = pub
    BY <1>1, <1>2, <1>6 DEF TypeOK, ClusterTypeOK
  <2>2. InPlace(cobj.spec)'
    BY <1>5, <1>6, <2>1 DEF InPlace
  <2>3. AnnouncedAs(cobj.spec, cobj.pub)'
    <3> SUFFICES ASSUME cobj.spec.mode # "token", "operator" \notin Accounts
                 PROVE  Published'["operator"] # Absent /\ Published'["operator"].sub = ckey
      BY <1>6, <2>1 DEF AnnouncedAs
    <3>1. target = ServerSecret /\ cdraft.jwts["operator"] = OperatorJWT(ckey)
      BY <1>1 DEF Target, ServedInv, ServedOK, DraftCovers
    <3>2. OperatorJWT(ckey) # Absent /\ OperatorJWT(ckey).sub = ckey
      BY <1>1, AbsentAssumption DEF OperatorJWT
    <3>3. cdraft # Absent
      BY <1>5 DEF Covers
    <3> QED
      BY <2>1, <3>1, <3>2, <3>3 DEF Published, Exists
  <2> QED
    BY <2>2, <2>3
<1> QED
  BY <1>7, <1>8, <1>9, <1>10 DEF ServedOK

(* A reconciliation ends. What is stored of the configuration then is what *)
(* was, nothing, or the same spec with a verdict that is true of it.       *)
LEMMA ConfigRests ==
  ASSUME ServedInv, cpc' = "idle", SameServers, UNCHANGED cache,
         \/ store'[AuthConfig] \in {store[AuthConfig], Absent}
         \/ /\ Exists(AuthConfig) /\ cpc # "idle" /\ AuthConfig \in current["config"]
            /\ store'[AuthConfig].spec = store[AuthConfig].spec
            /\ store'[AuthConfig].ready /\ store'[AuthConfig].observed =>
                 InPlace(store[AuthConfig].spec),
         \/ store'[AuthConfig] = Absent
         \/ timer'[AuthConfig] = "backoff"
         \/ store'[AuthConfig].ready =>
              AnnouncedAs(store'[AuthConfig].spec, store'[AuthConfig].pub)
  PROVE  ServedOK'
<1>1. SpecSeen'
  BY DEF ServedInv, ServedOK, SpecSeen, SpecCached, Cached, Exists
<1>2. ConfigReadyOK'
  <2> SUFFICES ASSUME Exists(AuthConfig)', store'[AuthConfig].ready, store'[AuthConfig].observed
               PROVE  InPlace(store[AuthConfig].spec)'
    BY DEF ConfigReadyOK
  <2>1. InPlace(store[AuthConfig].spec) /\ store'[AuthConfig].spec = store[AuthConfig].spec
    BY DEF ServedInv, ServedOK, ConfigReadyOK, Exists
  <2> QED
    BY <2>1 DEF InPlace, SameServers, Target, Covers
<1>3. KeyAnnounced'
  BY DEF KeyAnnounced, ConfigAttended, AnnouncedAs, Published, SameServers, Exists
<1> QED
  BY <1>1, <1>2, <1>3 DEF ServedOK, CopyFull, JWTMode, DraftCovers, VerdictOK

LEMMA FinalizeConfigServes ==
  ASSUME ServedInv, FinalizeConfig
  PROVE  ServedOK'
<1> DEFINE obj == [cobj EXCEPT !.fin = TRUE]
           allowed == Exists(AuthConfig) /\ AuthConfig \in current["config"]
<1>1. /\ TypeOK /\ cobj \in ConfigObject /\ cpc = "finalize" /\ AuthConfig \in Objects
      /\ {ServerSecret, ServerConfigMap} \subseteq Objects
      /\ AuthConfig \notin {ServerSecret, ServerConfigMap}
      /\ timer \in [Requests -> Timers] /\ AuthConfig \in Requests /\ DOMAIN store = Objects
  BY ConfigInHand, ConfigKinds
     DEF FinalizeConfig, ServedInv, CopyInv, TypeOK, ClusterTypeOK, AuthConfig, ServerSecret,
         ServerConfigMap
<1>2. obj.spec = cobj.spec /\ obj.pub = cobj.pub /\ obj.ready = cobj.ready
      /\ obj.observed = cobj.observed
  BY <1>1 DEF ConfigObject
<1>3. UNCHANGED cache /\ Sent("config", AuthConfig, allowed, obj, {AuthConfig})
  BY DEF FinalizeConfig, Update, Send, Sent
<1>4. /\ SameServers
      /\ store'[AuthConfig] = store[AuthConfig] \/ (allowed /\ store'[AuthConfig] = obj)
  <2> HIDE DEF obj, allowed
  <2> QED
    BY <1>1, <1>3, SentHere DEF SameServers
<1>5. allowed => cobj = store[AuthConfig] /\ SpecCached
  BY <1>1 DEF ServedInv, ServedOK, CopyFull, SpecSeen
<1>6. \/ allowed /\ store'[AuthConfig] = obj /\ cpc' = "mode" /\ cobj' = obj
      \/ cpc' = "idle" /\ timer'[AuthConfig] = "backoff"
  BY <1>1 DEF FinalizeConfig, Update, Send, Put, ProceedConfig, ConfigRetries, ConfigReturns, Backoff
<1> HIDE DEF obj
<1>7. CASE cpc' = "idle" /\ timer'[AuthConfig] = "backoff"
  <2>1. allowed /\ store'[AuthConfig] = obj /\ obj.ready /\ obj.observed =>
          InPlace(store[AuthConfig].spec)
    BY <1>2, <1>5 DEF ServedInv, ServedOK, ConfigReadyOK
  <2> QED
    BY <1>1, <1>2, <1>3, <1>4, <1>5, <1>7, <2>1, ConfigRests
<1>8. CASE allowed /\ store'[AuthConfig] = obj /\ cpc' = "mode" /\ cobj' = obj
  <2>1. SpecSeen'
    BY <1>2, <1>3, <1>5, <1>8 DEF SpecSeen, SpecCached, Cached, Exists
  <2>2. ConfigReadyOK'
    BY <1>2, <1>4, <1>5, <1>8
       DEF ServedInv, ServedOK, ConfigReadyOK, InPlace, SameServers, Target, Covers, Exists
  <2> QED
    BY <1>8, <2>1, <2>2
       DEF ServedOK, CopyFull, JWTMode, DraftCovers, VerdictOK, KeyAnnounced, ConfigAttended
<1> QED
  BY <1>6, <1>7, <1>8

(* The verdict saved is that on the stored spec: an update of another      *)
(* version is refused, and the informer has the spec of this one.          *)
LEMMA SaveConfigStatusServes ==
  ASSUME ServedInv, SaveConfigStatus
  PROVE  ServedOK'
<1> DEFINE saved == [store[AuthConfig] EXCEPT
             !.pub = cobj.pub, !.resolver = cobj.resolver,
             !.ready = cobj.ready, !.observed = cobj.observed]
           allowed == Exists(AuthConfig) /\ AuthConfig \in current["config"]
<1>1. /\ TypeOK /\ cobj \in ConfigObject /\ cpc = "status" /\ AuthConfig \in Objects
      /\ {ServerSecret, ServerConfigMap} \subseteq Objects
      /\ AuthConfig \notin {ServerSecret, ServerConfigMap}
      /\ timer \in [Requests -> Timers] /\ AuthConfig \in Requests /\ DOMAIN store = Objects
      /\ Exists(AuthConfig) => store[AuthConfig] \in ConfigObject
  BY ConfigInHand, ConfigKinds
     DEF SaveConfigStatus, ServedInv, CopyInv, TypeOK, ClusterTypeOK, AuthConfig, ServerSecret,
         ServerConfigMap, Exists
<1>2. allowed => /\ saved.spec = store[AuthConfig].spec /\ saved.spec = cobj.spec
                 /\ saved.pub = cobj.pub /\ saved.ready = cobj.ready
  BY <1>1 DEF ConfigObject, ServedInv, CopyInv, CopiesOK, ConfigCopyOK
<1>3. UNCHANGED cache /\ Sent("config", AuthConfig, allowed, saved, {})
  BY DEF SaveConfigStatus, Update, Send, Sent
<1>4. /\ cpc' = "idle"
      /\ timer'[AuthConfig] = "backoff" \/ (allowed /\ store'[AuthConfig] = saved)
  <2>1. cpc' = "idle"
    BY DEF SaveConfigStatus, Update, Send, ConfigRetries, ConfigWaits, ConfigReturns
  <2>2. ConfigRetries \/ (allowed /\ store'[AuthConfig] = saved)
    BY <1>1 DEF SaveConfigStatus, Update, Send, Put
  <2> QED
    BY <1>1, <2>1, <2>2 DEF ConfigRetries, Backoff
<1> HIDE DEF saved
<1>5. /\ SameServers
      /\ store'[AuthConfig] = store[AuthConfig] \/ (allowed /\ store'[AuthConfig] = saved)
  <2> HIDE DEF allowed
  <2> QED
    BY <1>1, <1>3, SentHere DEF SameServers
<1>6. cobj.ready => InPlace(cobj.spec) /\ AnnouncedAs(cobj.spec, cobj.pub)
  BY <1>1 DEF ServedInv, ServedOK, VerdictOK
<1>7. \/ store'[AuthConfig] \in {store[AuthConfig], Absent}
      \/ /\ Exists(AuthConfig) /\ cpc # "idle" /\ AuthConfig \in current["config"]
         /\ store'[AuthConfig].spec = store[AuthConfig].spec
         /\ store'[AuthConfig].ready /\ store'[AuthConfig].observed =>
              InPlace(store[AuthConfig].spec)
  BY <1>1, <1>2, <1>5, <1>6
<1>8. \/ timer'[AuthConfig] = "backoff"
      \/ store'[AuthConfig].ready =>
           AnnouncedAs(store'[AuthConfig].spec, store'[AuthConfig].pub)
  BY <1>2, <1>4, <1>6
<1> QED
  BY <1>3, <1>4, <1>5, <1>7, <1>8, ConfigRests

LEMMA ReleaseConfigServes ==
  ASSUME ServedInv, ReleaseConfig
  PROVE  ServedOK'
<1> DEFINE allowed == Exists(AuthConfig) /\ AuthConfig \in current["config"]
<1>1. /\ TypeOK /\ AuthConfig \in Objects /\ {ServerSecret, ServerConfigMap} \subseteq Objects
      /\ AuthConfig \notin {ServerSecret, ServerConfigMap}
      /\ timer \in [Requests -> Timers] /\ AuthConfig \in Requests /\ DOMAIN store = Objects
  BY ConfigKinds
     DEF ServedInv, CopyInv, TypeOK, ClusterTypeOK, AuthConfig, ServerSecret, ServerConfigMap
<1>2. UNCHANGED cache /\ cpc' = "idle" /\ Sent("config", AuthConfig, allowed, Absent, {})
  BY DEF ReleaseConfig, Update, Send, Sent, ConfigForgets, ConfigRetries, ConfigReturns
<1>3. ConfigRetries \/ store'[AuthConfig] = Absent
  BY <1>1 DEF ReleaseConfig, Update, Send, Put
<1>4. timer'[AuthConfig] = "backoff" \/ store'[AuthConfig] = Absent
  BY <1>1, <1>3 DEF ConfigRetries, Backoff
<1> HIDE DEF allowed
<1>5. SameServers /\ store'[AuthConfig] \in {store[AuthConfig], Absent}
  BY <1>1, <1>2, SentHere DEF SameServers
<1> QED
  BY <1>2, <1>4, <1>5, ConfigRests

(* The copy a reconciliation starts from has the spec that the status, if  *)
(* it is about the stored spec, is about; it is the stored object itself   *)
(* if its version is the server's.                                         *)
LEMMA FetchConfigServes ==
  ASSUME ServedInv, FetchConfig
  PROVE  ServedOK'
<1> DEFINE obj == Cached(AuthConfig)
<1>1. TypeOK /\ CacheOK /\ UNCHANGED <<store, cache>> /\ AuthConfig \in Objects /\ cpc = "idle"
  BY ConfigKinds DEF FetchConfig, ServedInv, CopyInv
<1>2. ConfigReadyOK'
  BY <1>1 DEF ServedInv, ServedOK, ConfigReadyOK, InPlace, Target, Covers, Exists
<1>3. CASE obj = Absent /\ UNCHANGED <<current, cpc, cobj>>
  <2>1. SpecSeen' /\ ~(Exists(AuthConfig) /\ store[AuthConfig].observed)
    BY <1>1, <1>3 DEF ServedInv, ServedOK, SpecSeen, SpecCached, Cached, Exists
  <2> QED
    BY <1>1, <1>2, <1>3, <2>1
       DEF ServedOK, CopyFull, JWTMode, DraftCovers, VerdictOK, KeyAnnounced, Exists
<1>4. CASE /\ obj # Absent /\ cobj' = obj /\ cpc' \in {"release", "mode", "finalize"}
           /\ Got("config", {}, {AuthConfig})
  <2>1. AuthConfig \in current'["config"] => obj = store[AuthConfig]
    BY <1>1, <1>4, GotCopies
  <2>2. SpecSeen'
    BY <1>1, <1>4, <2>1 DEF ServedInv, ServedOK, SpecSeen, SpecCached, Cached, Exists
  <2> QED
    BY <1>1, <1>2, <1>4, <2>1, <2>2
       DEF ServedOK, CopyFull, JWTMode, DraftCovers, VerdictOK, KeyAnnounced, ConfigAttended
<1> QED
  BY <1>3, <1>4 DEF FetchConfig

LEMMA InitServes == Init => ServedInv
<1> SUFFICES ASSUME Init
             PROVE  ServedInv
  OBVIOUS
<1>1. \E s \in ConfigSpecs : store[AuthConfig] = NewConfig(Budget, s)
  BY ConfigKinds DEF Init, ClusterInit, AuthConfig
<1>2. ~store[AuthConfig].ready /\ ~store[AuthConfig].observed /\ cpc = "idle"
  BY <1>1 DEF Init, ConfigIdle, NewConfig
<1>3. ServedOK
  BY <1>2 DEF ServedOK, SpecSeen, CopyFull, JWTMode, DraftCovers, VerdictOK, ConfigReadyOK, KeyAnnounced
<1>4. RememberInv /\ CopyInv /\ ReleasesDeleted
  BY InitRemembers
     DEF RememberInv, CopyInv, CopiesOK, ReleasesDeleted, Init, AccountIdle, ConfigIdle
<1> QED
  BY <1>3, <1>4 DEF ServedInv

LEMMA NextServes == ServersKept /\ ServedInv /\ [Next]_vars => ServedInv'
<1> SUFFICES ASSUME ServersKept, ServedInv, [Next]_vars
             PROVE  ServedInv'
  OBVIOUS
<1>1. RememberInv' /\ CopyInv /\ ReleasesDeleted /\ ReleasesDeleted'
  BY NextRemembers, OnlyDeletedReleased DEF ServedInv
<1>2. CopyInv'
  BY <1>1, AccountStepCopies, ConfigStepCopies, OthersCopies DEF Next, RememberInv
<1>3. ServedOK'
  <2>1. CASE ConfigStep
    BY <2>1, FetchConfigServes, FinalizeConfigServes, ChooseModeServes, CreateOperatorSeedServes,
       ReadOperatorSeedServes, CollectServes, PublishServes, SaveConfigStatusServes, ReleaseConfigServes
       DEF ConfigStep, ConfigReconcile
  <2>2. CASE UNCHANGED vars
    <3>1. UNCHANGED <<store, cache, current, due, timer, process, configWorker, cpc>>
      BY <2>2 DEF vars, cluster, configWorker
    <3> QED
      BY <3>1, OthersServe DEF SameServers, ConfigChanged, InformerFollows, ConfigAttended
  <2> QED
    BY <2>1, <2>2, AccountStepServes, ClusterStepServes, RestartServes DEF Next
<1> QED
  BY <1>1, <1>2, <1>3 DEF ServedInv

-----------------------------------------------------------------------------
(* A configuration that says it is Ready for its current spec has written  *)
(* what its current mode writes: auth.conf in an object of the kind the    *)
(* spec names in token mode, the operator's JWT in a Secret otherwise, as  *)
(* long as nobody removes that object: the controller does not watch it.   *)
THEOREM ReadyIsPublished == ServersKept => (Spec => []ReadyMeansPublished)
<1>1. ServedInv => ReadyMeansPublished
  <2> SUFFICES ASSUME ServedInv, Exists(AuthConfig), store[AuthConfig].ready,
                      store[AuthConfig].observed
               PROVE  LET spec == store[AuthConfig].spec
                      IN  IF spec.mode = "token"
                            THEN Exists(Target(spec)) /\ store[Target(spec)].conf
                            ELSE Published["operator"] # Absent
    BY DEF ReadyMeansPublished
  <2>1. InPlace(store[AuthConfig].spec)
    BY DEF ServedInv, ServedOK, ConfigReadyOK
  <2> QED
    BY <2>1 DEF InPlace, Covers, Target, Published, Exists
<1>2. CASE ServersKept
  BY <1>1, <1>2, InitServes, NextServes, PTL DEF Spec
<1> QED
  BY <1>2

(* And between two reconciliations it announces the very key under which   *)
(* the servers find the operator, whatever seed was removed, generated or  *)
(* imported meanwhile, unless an account named operator takes its entry.   *)
THEOREM OperatorIsAnnounced ==
  ServersKept /\ "operator" \notin Accounts => (Spec => []OperatorAnnounced)
<1>1. "operator" \notin Accounts /\ ServedInv => OperatorAnnounced
  BY DEF ServedInv, ServedOK, KeyAnnounced, ConfigAttended, AnnouncedAs, OperatorAnnounced
<1>2. CASE ServersKept /\ "operator" \notin Accounts
  BY <1>1, <1>2, InitServes, NextServes, PTL DEF Spec
<1> QED
  BY <1>2

=============================================================================
