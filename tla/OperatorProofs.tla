--------------------------- MODULE OperatorProofs ---------------------------
(***************************************************************************)
(* What holds whatever the informers' lag, the users' edits, the crashes   *)
(* and the lost answers: no object is forgotten, and no write undoes what  *)
(* users did.                                                              *)
(***************************************************************************)
EXTENDS OperatorTypes

-----------------------------------------------------------------------------
(* Informers: a copy that carries the server's resourceVersion is the      *)
(* server's object.                                                        *)
CacheOK ==
  \A o \in Objects :
    /\ o[1] \notin Lag => o \in current["cache"]
    /\ o[1] \in Lag /\ o \in current["cache"] => cache[o] = store[o]

LEMMA UpToDateCopy ==
  ASSUME CacheOK, NEW o \in Objects, UpToDate(o)
  PROVE  Cached(o) = store[o]
BY DEF CacheOK, UpToDate, Cached

(* What a step may do to queues and informers without losing an event: an  *)
(* object that appears is queued, or its event is to come.                 *)
EventsKept ==
  /\ due \subseteq due'
  /\ current'["cache"] \subseteq current["cache"]
  /\ \A r \in Requests : Exists(r)' => Exists(r) \/ r \in due' \/ EventPending(r)'

LEMMA RequestWatchesItself == \A r \in Requests : Watchers(r) = {r}
BY DEF Requests, Watchers, Account, AuthConfig

LEMMA PutEvents ==
  ASSUME TypeOK, CacheOK, NEW h \in {"account", "config", "gc", "user"}, NEW o \in Objects,
         NEW v, NEW held, Put(h, o, v, held), UNCHANGED cache
  PROVE  CacheOK' /\ EventsKept
<1>1. /\ DOMAIN store = Objects /\ current \in [Holders -> SUBSET Objects]
      /\ store' = [store EXCEPT ![o] = v] /\ UNCHANGED cache
      /\ current'["cache"] = IF o[1] \notin Lag THEN current["cache"] ELSE current["cache"] \ {o}
      /\ due' = IF o[1] \in Lag THEN due ELSE due \cup Watchers(o)
  BY DEF Put, Holders, TypeOK, ClusterTypeOK
<1>2. CacheOK'
  BY <1>1 DEF CacheOK
<1>3. EventsKept
  BY <1>1, RequestWatchesItself, RequestKinds DEF EventsKept, Exists, EventPending
<1> QED
  BY <1>2, <1>3

LEMMA SentEvents ==
  ASSUME TypeOK, CacheOK, NEW h \in {"account", "config"}, NEW o \in Objects,
         NEW allowed, NEW v, NEW held, Sent(h, o, allowed, v, held)
  PROVE  CacheOK' /\ EventsKept
<1>1. CASE Put(h, o, v, held) \/ Put(h, o, v, held \ {o})
  BY <1>1, PutEvents DEF Sent
<1>2. CASE UNCHANGED <<store, due>> /\ current' = [current EXCEPT ![h] = @ \cap held]
  BY <1>2 DEF Sent, TypeOK, ClusterTypeOK, CacheOK, EventsKept, Exists, EventPending, Holders
<1> QED
  BY <1>1, <1>2 DEF Sent

LEMMA GotEvents ==
  ASSUME TypeOK, CacheOK, NEW h \in {"account", "config"}, NEW held, NEW objs,
         Got(h, held, objs), UNCHANGED <<store, cache>>
  PROVE  CacheOK' /\ UNCHANGED current["cache"]
BY DEF Got, TypeOK, ClusterTypeOK, CacheOK, Holders

-----------------------------------------------------------------------------
(* Nothing is forgotten.                                                   *)

Remembered(r) == r \in due \/ timer[r] # "none" \/ InHand(r) \/ EventPending(r)

RememberInv ==
  /\ TypeOK
  /\ CacheOK
  /\ apc = "idle" => areq = Absent
  /\ process = "running" => \A r \in Requests : Exists(r) => Remembered(r)

(* A step of Reconcile between two writes: the request stays in hand, or a *)
(* timer is set for it.                                                    *)
LEMMA StepRemembers ==
  ASSUME RememberInv, TypeOK', CacheOK', EventsKept, UNCHANGED process,
         \A r \in Requests : InHand(r) /\ Exists(r)' => InHand(r)' \/ timer'[r] # "none",
         \A r \in Requests : timer[r] # "none" => timer'[r] # "none",
         apc' = "idle" => areq' = Absent
  PROVE  RememberInv'
BY DEF RememberInv, Remembered, EventsKept, EventPending, Exists

(* Every write of the account controller, and what its Reconcile does next. *)
LEMMA AccountWrites ==
  ASSUME RememberInv, apc # "idle", TypeOK',
         NEW o \in Objects, NEW allowed, NEW v, NEW held, Sent("account", o, allowed, v, held),
         UNCHANGED configWorker,
         \/ areq' = areq /\ apc' # "idle" /\ UNCHANGED timer
         \/ AccountRetries
         \/ AccountWaits
         \/ AccountForgets /\ store'[Account(areq)] = Absent
  PROVE  RememberInv'
<1>1. CacheOK' /\ EventsKept
  BY SentEvents DEF RememberInv
<1>2. UNCHANGED process /\ Account(areq) \in Requests /\ DOMAIN timer = Requests
  BY AccountInHand DEF Sent, RememberInv, TypeOK, ClusterTypeOK
<1>3. \A r \in Requests : InHand(r) /\ Exists(r)' => InHand(r)' \/ timer'[r] # "none"
  <2> SUFFICES ASSUME NEW r \in Requests, InHand(r), Exists(r)'
               PROVE  InHand(r)' \/ timer'[r] # "none"
    OBVIOUS
  <2>1. CASE r = AuthConfig
    BY <2>1 DEF InHand, configWorker
  <2>2. CASE r # AuthConfig
    <3>1. r = Account(areq)
      BY <2>2 DEF InHand, Requests, Account
    <3> QED
      BY <1>2, <2>2, <3>1 DEF InHand, Exists, AccountRetries, AccountWaits, AccountForgets, Backoff, RequeueAfter
  <2> QED
    BY <2>1, <2>2
<1>4. \A r \in Requests : timer[r] # "none" => timer'[r] # "none"
  BY <1>2 DEF AccountRetries, AccountWaits, AccountForgets, Backoff, RequeueAfter
<1>5. apc' = "idle" => areq' = Absent
  BY DEF AccountRetries, AccountWaits, AccountForgets, AccountReturns
<1> QED
  BY <1>1, <1>2, <1>3, <1>4, <1>5, StepRemembers

LEMMA ConfigWrites ==
  ASSUME RememberInv, cpc # "idle", TypeOK',
         NEW o \in Objects, NEW allowed, NEW v, NEW held, Sent("config", o, allowed, v, held),
         UNCHANGED accountWorker,
         \/ cpc' # "idle" /\ UNCHANGED timer
         \/ ConfigRetries
         \/ ConfigWaits
         \/ ConfigForgets /\ store'[AuthConfig] = Absent
  PROVE  RememberInv'
<1>1. CacheOK' /\ EventsKept
  BY SentEvents DEF RememberInv
<1>2. UNCHANGED process /\ AuthConfig \in Requests /\ DOMAIN timer = Requests
  BY ConfigKinds DEF Sent, RememberInv, TypeOK, ClusterTypeOK
<1>3. \A r \in Requests : InHand(r) /\ Exists(r)' => InHand(r)' \/ timer'[r] # "none"
  BY <1>2 DEF InHand, Exists, accountWorker, ConfigRetries, ConfigWaits, ConfigForgets, Backoff, RequeueAfter
<1>4. \A r \in Requests : timer[r] # "none" => timer'[r] # "none"
  BY <1>2 DEF ConfigRetries, ConfigWaits, ConfigForgets, Backoff, RequeueAfter
<1>5. apc' = "idle" => areq' = Absent
  BY DEF RememberInv, accountWorker
<1> QED
  BY <1>1, <1>2, <1>3, <1>4, <1>5, StepRemembers

(* Reads between two writes.                                               *)
LEMMA ReadsRemember ==
  ASSUME RememberInv, TypeOK', UNCHANGED <<store, cache, due, process, timer>>,
         NEW h \in {"account", "config"}, NEW held, NEW objs, Got(h, held, objs),
         \/ UNCHANGED configWorker /\ areq' = areq /\ apc # "idle" /\ apc' # "idle"
         \/ UNCHANGED accountWorker /\ cpc # "idle" /\ cpc' # "idle"
  PROVE  RememberInv'
<1>1. CacheOK' /\ UNCHANGED current["cache"]
  BY GotEvents DEF RememberInv
<1>2. EventsKept
  BY <1>1 DEF EventsKept, Exists
<1> QED
  BY <1>1, <1>2, StepRemembers DEF InHand, configWorker, accountWorker, RememberInv

LEMMA FetchAccountRemembers ==
  ASSUME RememberInv, TypeOK', NEW a \in Accounts, FetchAccount(a), UNCHANGED configWorker
  PROVE  RememberInv'
<1> DEFINE obj == Cached(Account(a))
<1>1. /\ areq = Absent /\ apc = "idle" /\ due' = due \ {Account(a)}
      /\ UNCHANGED <<store, cache, timer, process>>
  BY DEF FetchAccount, RememberInv
<1>2. Account(a) \in Objects /\ Account(a) # AuthConfig /\ Account(a)[2] = a /\ a # Absent
  BY AccountKinds, AbsentAssumption DEF Account, AuthConfig
<1>3. CASE obj = Absent /\ UNCHANGED <<current, apc, areq, aobj, aconf>>
  <2>1. Exists(Account(a)) => EventPending(Account(a))
    BY <1>2, <1>3 DEF RememberInv, CacheOK, Cached, Exists, EventPending
  <2> QED
    BY <1>1, <1>3, <2>1 DEF RememberInv, CacheOK, Remembered, Exists, EventPending, InHand, configWorker
<1>4. CASE /\ areq' = a /\ apc' # "idle"
           /\ \E objs : Got("account", {}, objs)
  <2>1. CacheOK' /\ UNCHANGED current["cache"]
    BY <1>1, <1>4, GotEvents DEF RememberInv
  <2>2. InHand(Account(a))'
    BY <1>2, <1>4 DEF InHand
  <2>3. \A r \in Requests : InHand(r) => r = AuthConfig /\ InHand(r)'
    BY <1>1, AbsentAssumption DEF InHand, configWorker, Requests, Account, AuthConfig
  <2> QED
    BY <1>1, <1>4, <2>1, <2>2, <2>3 DEF RememberInv, Remembered, Exists, EventPending
<1> QED
  BY <1>3, <1>4 DEF FetchAccount

LEMMA FetchConfigRemembers ==
  ASSUME RememberInv, TypeOK', FetchConfig, UNCHANGED accountWorker
  PROVE  RememberInv'
<1> DEFINE obj == Cached(AuthConfig)
<1>1. /\ cpc = "idle" /\ due' = due \ {AuthConfig}
      /\ UNCHANGED <<store, cache, timer, process>>
  BY DEF FetchConfig
<1>2. CASE obj = Absent /\ UNCHANGED <<current, cpc, cobj>>
  <2>1. Exists(AuthConfig) => EventPending(AuthConfig)
    BY <1>2, ConfigKinds DEF RememberInv, CacheOK, Cached, Exists, EventPending
  <2> QED
    BY <1>1, <1>2, <2>1
       DEF RememberInv, CacheOK, Remembered, Exists, EventPending, InHand, accountWorker
<1>3. CASE cpc' # "idle" /\ \E objs : Got("config", {}, objs)
  <2>1. CacheOK' /\ UNCHANGED current["cache"]
    BY <1>1, <1>3, GotEvents DEF RememberInv
  <2>2. \A r \in Requests : r = AuthConfig \/ InHand(r) => InHand(r)'
    BY <1>3 DEF InHand, accountWorker
  <2> QED
    BY <1>1, <1>3, <2>1, <2>2 DEF RememberInv, Remembered, Exists, EventPending, accountWorker
<1> QED
  BY <1>2, <1>3 DEF FetchConfig

LEMMA AccountStepRemembers ==
  ASSUME RememberInv, AccountStep
  PROVE  RememberInv'
<1>1. TypeOK' /\ UNCHANGED configWorker
  BY AccountStepType DEF RememberInv, AccountStep
<1>2. ASSUME FinalizeAccount
      PROVE  RememberInv'
  <2>1. apc # "idle" /\ \E allowed, v : Sent("account", Account(areq), allowed, v, {Account(areq)})
    BY <1>2 DEF FinalizeAccount, Update, Send, Sent
  <2>2. (areq' = areq /\ apc' # "idle" /\ UNCHANGED timer) \/ AccountRetries
    BY <1>2 DEF FinalizeAccount, Update, Send, Proceed
  <2> QED
    BY <1>1, <2>1, <2>2, AccountInHand, AccountWrites DEF RememberInv
<1>3. ASSUME StoreAccountSecret
      PROVE  RememberInv'
  <2>1. /\ apc # "idle"
        /\ \E allowed : Sent("account", JWTSecret(areq), allowed, adraft, {Account(areq), AuthConfig})
    BY <1>3 DEF StoreAccountSecret, Create, Update, Send, Sent
  <2>2. areq' = areq /\ apc' # "idle" /\ UNCHANGED timer
    BY <1>3 DEF StoreAccountSecret, Create, Update, Send, Proceed, GiveUp
  <2> QED
    BY <1>1, <2>1, <2>2, AccountInHand, AccountWrites DEF RememberInv
<1>4. ASSUME TriggerConfig \/ UntriggerConfig
      PROVE  RememberInv'
  <2>1. apc # "idle" /\ \E allowed : Sent("account", AuthConfig, allowed, aconf, {Account(areq)})
    BY <1>4 DEF TriggerConfig, UntriggerConfig, Update, Send, Sent
  <2>2. areq' = areq /\ apc' # "idle" /\ UNCHANGED timer
    BY <1>4 DEF TriggerConfig, UntriggerConfig, Update, Send, Proceed, GiveUp
  <2> QED
    BY <1>1, <2>1, <2>2, ConfigKinds, AccountWrites
<1>5. ASSUME SaveAccountStatus
      PROVE  RememberInv'
  <2>1. apc # "idle" /\ \E allowed, v : Sent("account", Account(areq), allowed, v, {})
    BY <1>5 DEF SaveAccountStatus, Update, Send, Sent
  <2>2. AccountRetries \/ AccountWaits
    BY <1>5 DEF SaveAccountStatus, Update, Send
  <2> QED
    BY <1>1, <2>1, <2>2, AccountInHand, AccountWrites DEF RememberInv
<1>6. ASSUME ReleaseAccount
      PROVE  RememberInv'
  <2>1. apc # "idle" /\ \E allowed : Sent("account", Account(areq), allowed, Absent, {})
    BY <1>6 DEF ReleaseAccount, Update, Send, Sent
  <2>2. AccountRetries \/ (AccountForgets /\ store'[Account(areq)] = Absent)
    BY <1>6, <2>1, AccountInHand
       DEF RememberInv, TypeOK, ClusterTypeOK, ReleaseAccount, Update, Send, Put, Exists
  <2> QED
    BY <1>1, <2>1, <2>2, AccountInHand, AccountWrites DEF RememberInv
<1>7. ASSUME RejectAccount \/ SkipAccount \/ SignAccount(FreshAccountKeys, FreshOperatorKeys)
      PROVE  RememberInv'
  <2>1. /\ apc # "idle" /\ UNCHANGED <<store, cache, due, process>>
        /\ \E held, objs : Got("account", held, objs)
    BY <1>7 DEF RejectAccount, SkipAccount, SignAccount, AccountReads
  <2>2. areq' = areq /\ apc' # "idle" /\ UNCHANGED timer
    BY <1>7 DEF RejectAccount, SkipAccount, SignAccount, GiveUp, Proceed
  <2> QED
    BY <1>1, <2>1, <2>2, ReadsRemember
<1>8. ASSUME PanicOnAccount
      PROVE  RememberInv'
  BY <1>1, <1>8 DEF PanicOnAccount, AccountReads, accountWorker, RememberInv, CacheOK
<1> QED
  BY <1>1, <1>2, <1>3, <1>4, <1>5, <1>6, <1>7, <1>8, FetchAccountRemembers
     DEF AccountStep, AccountReconcile

LEMMA ConfigStepRemembers ==
  ASSUME RememberInv, ConfigStep
  PROVE  RememberInv'
<1>1. TypeOK' /\ UNCHANGED accountWorker
  BY ConfigStepType DEF RememberInv, ConfigStep
<1>2. ASSUME FinalizeConfig
      PROVE  RememberInv'
  <2>1. cpc # "idle" /\ \E allowed, v : Sent("config", AuthConfig, allowed, v, {AuthConfig})
    BY <1>2 DEF FinalizeConfig, Update, Send, Sent
  <2>2. (cpc' # "idle" /\ UNCHANGED timer) \/ ConfigRetries
    BY <1>2 DEF FinalizeConfig, Update, Send, ProceedConfig
  <2> QED
    BY <1>1, <2>1, <2>2, ConfigKinds, ConfigWrites
<1>3. ASSUME CreateOperatorSeed(FreshOperatorKeys)
      PROVE  RememberInv'
  <2>1. cpc # "idle" /\ \E allowed, v : Sent("config", OperatorSeed, allowed, v, {AuthConfig})
    BY <1>3 DEF CreateOperatorSeed, Send, Sent
  <2>2. cpc' # "idle" /\ UNCHANGED timer
    BY <1>3 DEF CreateOperatorSeed, Send, ProceedConfig, ConfigFails
  <2> QED
    BY <1>1, <2>1, <2>2, ConfigKinds, ConfigWrites
<1>4. ASSUME PublishAggregate
      PROVE  RememberInv'
  <2>1. /\ cpc # "idle"
        /\ \E allowed : Sent("config", Target(cobj.spec), allowed, cdraft, {AuthConfig})
    BY <1>4 DEF PublishAggregate, Create, Update, Send, Sent
  <2>2. cpc' # "idle" /\ UNCHANGED timer
    BY <1>4 DEF PublishAggregate, Create, Update, Send, ProceedConfig, ConfigFails, ConfigSucceeds
  <2>3. Target(cobj.spec) \in Objects
    BY <2>1, ConfigInHand, ConfigKinds DEF RememberInv
  <2> QED
    BY <1>1, <2>1, <2>2, <2>3, ConfigWrites
<1>5. ASSUME SaveConfigStatus
      PROVE  RememberInv'
  <2>1. cpc # "idle" /\ \E allowed, v : Sent("config", AuthConfig, allowed, v, {})
    BY <1>5 DEF SaveConfigStatus, Update, Send, Sent
  <2>2. ConfigRetries \/ ConfigWaits
    BY <1>5 DEF SaveConfigStatus, Update, Send
  <2> QED
    BY <1>1, <2>1, <2>2, ConfigKinds, ConfigWrites
<1>6. ASSUME ReleaseConfig
      PROVE  RememberInv'
  <2>1. cpc # "idle" /\ \E allowed : Sent("config", AuthConfig, allowed, Absent, {})
    BY <1>6 DEF ReleaseConfig, Update, Send, Sent
  <2>2. ConfigRetries \/ (ConfigForgets /\ store'[AuthConfig] = Absent)
    BY <1>6, ConfigKinds
       DEF RememberInv, TypeOK, ClusterTypeOK, ReleaseConfig, Update, Send, Put, Exists
  <2> QED
    BY <1>1, <2>1, <2>2, ConfigKinds, ConfigWrites
<1>7. ASSUME \/ ChooseMode \/ ReadOperatorSeed \/ ListAccounts(FreshOperatorKeys)
             \/ CollectAccountJWT \/ ReadServerSecret
      PROVE  RememberInv'
  <2>1. /\ cpc # "idle" /\ UNCHANGED <<store, cache, due, process>>
        /\ \E held, objs : Got("config", held, objs)
    BY <1>7 DEF ChooseMode, ReadOperatorSeed, ListAccounts, CollectAccountJWT, ReadServerSecret,
                ConfigReads
  <2>2. cpc' # "idle" /\ UNCHANGED timer
    BY <1>7 DEF ChooseMode, ReadOperatorSeed, ListAccounts, CollectAccountJWT, ReadServerSecret,
                ConfigReads, ProceedConfig, ConfigFails, ConfigInvalid
  <2> QED
    BY <1>1, <2>1, <2>2, ReadsRemember
<1> QED
  BY <1>1, <1>2, <1>3, <1>4, <1>5, <1>6, <1>7, FetchConfigRemembers
     DEF ConfigStep, ConfigReconcile

LEMMA ClusterStepRemembers ==
  ASSUME RememberInv, ClusterStep
  PROVE  RememberInv'
<1>1. TypeOK' /\ UNCHANGED <<accountWorker, configWorker>>
  BY NextType DEF RememberInv, ClusterStep, Next
<1>2. \A r \in Requests : InHand(r) => InHand(r)'
  BY <1>1 DEF InHand, accountWorker, configWorker
<1>3. ASSUME NEW o \in Objects, Deliver(o)
      PROVE  RememberInv'
  <2>1. CacheOK'
    BY <1>3 DEF Deliver, RememberInv, TypeOK, ClusterTypeOK, CacheOK, Holders
  <2>2. \A r \in Requests : EventPending(r) => r \in due' \/ EventPending(r)'
    BY <1>3, RequestWatchesItself DEF Deliver, RememberInv, TypeOK, ClusterTypeOK, EventPending, Holders
  <2> QED
    BY <1>1, <1>2, <1>3, <2>1, <2>2
       DEF Deliver, RememberInv, Remembered, Exists, accountWorker
<1>4. ASSUME NEW r \in Requests, TimerFires(r)
      PROVE  RememberInv'
  <2>1. \A q \in Requests : timer[q] # "none" => q \in due' \/ timer'[q] # "none"
    BY <1>4 DEF TimerFires, RememberInv, TypeOK, ClusterTypeOK
  <2> QED
    BY <1>1, <1>2, <1>4, <2>1
       DEF TimerFires, RememberInv, CacheOK, Remembered, Exists, EventPending, accountWorker
<1>5. ASSUME NEW h \in {"gc", "user"}, NEW o \in Objects, NEW v, Put(h, o, v, {}),
             UNCHANGED <<cache, timer, process>>
      PROVE  RememberInv'
  <2>1. CacheOK' /\ EventsKept
    BY <1>5, PutEvents DEF RememberInv
  <2> QED
    BY <1>1, <1>2, <1>5, <2>1, StepRemembers DEF RememberInv, accountWorker
<1>6. ASSUME NEW o \in Objects, CollectGarbage(o)
      PROVE  RememberInv'
  BY <1>5, <1>6 DEF CollectGarbage
<1>7. ASSUME NEW o \in Objects, NEW kind, NEW v, ByUser(kind, o, v)
      PROVE  RememberInv'
  BY <1>5, <1>7 DEF ByUser
<1>8. ASSUME Kill
      PROVE  RememberInv'
  BY <1>1, <1>8 DEF Kill, RememberInv, CacheOK, accountWorker
<1> QED
  BY <1>3, <1>4, <1>6, <1>7, <1>8, AccountKinds, ConfigKinds
     DEF ClusterStep, Informers, Environment, DeleteSecret, EditAccount, CreateAccount, EditConfig,
         CreateConfig, Delete

LEMMA RestartRemembers ==
  ASSUME RememberInv, Restart
  PROVE  RememberInv'
<1>1. TypeOK'
  BY RestartType DEF RememberInv
<1>2. CacheOK'
  BY DEF Restart, Start, Relist, CacheOK, Holders
<1>3. \A r \in Requests : Exists(r)' => r \in due'
  BY RequestKinds, RequestWatchesItself DEF Restart, Start, Relist, Exists
<1> QED
  BY <1>1, <1>2, <1>3 DEF Restart, RememberInv, Remembered

LEMMA InitRemembers == Init => RememberInv
<1> SUFFICES ASSUME Init
             PROVE  RememberInv
  OBVIOUS
<1>1. CacheOK
  BY DEF Init, ClusterInit, CacheOK, Holders
<1>2. \A r \in Requests : Exists(r) => r \in due \/ EventPending(r)
  BY RequestKinds DEF Init, ClusterInit, Exists, EventPending, Holders
<1> QED
  BY <1>1, <1>2, InitType DEF Init, AccountIdle, RememberInv, Remembered

LEMMA NextRemembers == RememberInv /\ [Next]_vars => RememberInv'
<1> SUFFICES ASSUME RememberInv, [Next]_vars
             PROVE  RememberInv'
  OBVIOUS
<1>1. CASE UNCHANGED vars
  BY <1>1, NextType DEF RememberInv, CacheOK, Remembered, Exists, InHand, EventPending,
                        vars, cluster, accountWorker, configWorker
<1> QED
  BY <1>1, AccountStepRemembers, ConfigStepRemembers, RestartRemembers, ClusterStepRemembers DEF Next

(* No existing object is ever forgotten by the queue of its controller: no *)
(* path through either Reconcile, whatever answers the API server gives,   *)
(* drops the request of an object that is still there.                     *)
THEOREM NothingIsForgotten == Spec => []NothingForgotten
<1>1. RememberInv => NothingForgotten
  BY DEF RememberInv, Remembered, NothingForgotten
<1> QED
  BY <1>1, InitRemembers, NextRemembers, PTL DEF Spec

-----------------------------------------------------------------------------
(* Users win.                                                              *)

(* A copy that carries the server's resourceVersion has what users decide  *)
(* of the object as the server has it.                                     *)
AccountCopyOK ==
  Account(areq) \in current["account"] =>
    /\ Exists(Account(areq))
    /\ store[Account(areq)].uid = aobj.uid
    /\ store[Account(areq)].deleting = aobj.deleting
    /\ store[Account(areq)].limits = aobj.limits
TriggerCopyOK ==
  AuthConfig \in current["account"] => aconf = store[AuthConfig]
ConfigCopyOK ==
  AuthConfig \in current["config"] =>
    /\ Exists(AuthConfig)
    /\ store[AuthConfig].uid = cobj.uid
    /\ store[AuthConfig].deleting = cobj.deleting
    /\ store[AuthConfig].spec = cobj.spec

CopiesOK ==
  /\ apc # "idle" => AccountCopyOK
  /\ apc \in {"create", "update", "trigger", "untrigger"} => TriggerCopyOK
  /\ cpc # "idle" => ConfigCopyOK

CopyInv == TypeOK /\ CacheOK /\ CopiesOK

(* A finalizer is removed only by a Reconcile that saw the deletion.       *)
ReleasesDeleted ==
  /\ apc \in {"untrigger", "release"} => aobj.deleting
  /\ cpc = "release" => cobj.deleting

LEMMA OnlyDeletedReleased == ReleasesDeleted /\ [Next]_vars => ReleasesDeleted'
<1> SUFFICES ASSUME ReleasesDeleted, [Next]_vars
             PROVE  ReleasesDeleted'
  OBVIOUS
<1>1. CASE AccountStep
  <2>1. UNCHANGED <<cpc, cobj>>
    BY <1>1 DEF AccountStep, configWorker
  <2>2. ASSUME NEW a \in Accounts, FetchAccount(a)
        PROVE  ReleasesDeleted'
    BY <2>1, <2>2 DEF FetchAccount, ReleasesDeleted
  <2>3. ASSUME UntriggerConfig
        PROVE  ReleasesDeleted'
    BY <2>1, <2>3 DEF UntriggerConfig, Update, Send, Proceed, ReleasesDeleted
  <2>4. ASSUME \/ FinalizeAccount \/ RejectAccount \/ SkipAccount \/ StoreAccountSecret
               \/ SignAccount(FreshAccountKeys, FreshOperatorKeys)
               \/ TriggerConfig \/ SaveAccountStatus \/ ReleaseAccount
        PROVE  ReleasesDeleted'
    <3>1. apc' \notin {"untrigger", "release"}
      BY <2>4 DEF FinalizeAccount, RejectAccount, SkipAccount, StoreAccountSecret, SignAccount,
                  TriggerConfig, SaveAccountStatus, ReleaseAccount, Create, Update, Send, Proceed,
                  GiveUp, AccountRetries, AccountWaits, AccountForgets, AccountReturns
    <3> QED
      BY <2>1, <3>1 DEF ReleasesDeleted
  <2>5. ASSUME PanicOnAccount
        PROVE  ReleasesDeleted'
    BY <2>1, <2>5 DEF PanicOnAccount, accountWorker, ReleasesDeleted
  <2> QED
    BY <1>1, <2>2, <2>3, <2>4, <2>5 DEF AccountStep, AccountReconcile
<1>2. CASE ConfigStep
  <2>1. UNCHANGED <<apc, aobj>>
    BY <1>2 DEF ConfigStep, accountWorker
  <2>2. ASSUME FetchConfig
        PROVE  ReleasesDeleted'
    BY <2>1, <2>2 DEF FetchConfig, ReleasesDeleted
  <2>3. ASSUME \/ FinalizeConfig \/ ChooseMode \/ CreateOperatorSeed(FreshOperatorKeys)
               \/ ReadOperatorSeed \/ ListAccounts(FreshOperatorKeys) \/ CollectAccountJWT
               \/ ReadServerSecret \/ PublishAggregate \/ SaveConfigStatus \/ ReleaseConfig
        PROVE  ReleasesDeleted'
    <3>1. cpc' # "release"
      BY <2>3 DEF FinalizeConfig, ChooseMode, CreateOperatorSeed, ReadOperatorSeed, ListAccounts,
                  CollectAccountJWT, ReadServerSecret, PublishAggregate, SaveConfigStatus,
                  ReleaseConfig, ConfigReads, Create, Update, Send, ProceedConfig, ConfigFails,
                  ConfigInvalid, ConfigSucceeds, ConfigRetries, ConfigWaits, ConfigForgets,
                  ConfigReturns
    <3> QED
      BY <2>1, <3>1 DEF ReleasesDeleted
  <2> QED
    BY <1>2, <2>2, <2>3 DEF ConfigStep, ConfigReconcile
<1> QED
  BY <1>1, <1>2 DEF Next, Restart, ClusterStep, vars, accountWorker, configWorker, ReleasesDeleted

(* Others' writes: a copy of what was written is no longer up to date, and *)
(* nothing else changed.                                                   *)
LEMMA PutElsewhere ==
  ASSUME TypeOK, NEW h, NEW o \in Objects, NEW v, NEW held, Put(h, o, v, held),
         NEW g \in {"account", "config"}, g # h, NEW r \in Objects
  PROVE  r \in current'[g] => r \in current[g] /\ store'[r] = store[r]
BY DEF Put, TypeOK, ClusterTypeOK, Holders

(* One's own write: what is held then is the object written, or was held   *)
(* before.                                                                 *)
LEMMA PutHere ==
  ASSUME TypeOK, NEW h \in {"account", "config"}, NEW o \in Objects, NEW v, NEW held,
         Put(h, o, v, held), NEW r \in Objects
  PROVE  /\ store'[o] = v
         /\ r \in current'[h] /\ r # o => r \in current[h] /\ store'[r] = store[r]
         /\ r # o => store'[r] = store[r]
         /\ r \in current'[h] => r \in held
BY DEF Put, TypeOK, ClusterTypeOK, Holders

LEMMA SentElsewhere ==
  ASSUME TypeOK, NEW h \in {"account", "config"}, NEW o \in Objects, NEW allowed, NEW v, NEW held,
         Sent(h, o, allowed, v, held),
         NEW g \in {"account", "config"}, g # h, NEW r \in Objects
  PROVE  r \in current'[g] => r \in current[g] /\ store'[r] = store[r]
<1>1. CASE Put(h, o, v, held) \/ Put(h, o, v, held \ {o})
  BY <1>1, PutElsewhere
<1>2. CASE UNCHANGED <<store, due>> /\ current' = [current EXCEPT ![h] = @ \cap held]
  BY <1>2 DEF TypeOK, ClusterTypeOK, Holders
<1> QED
  BY <1>1, <1>2 DEF Sent

LEMMA SentHere ==
  ASSUME TypeOK, NEW h \in {"account", "config"}, NEW o \in Objects, NEW allowed, NEW v, NEW held,
         Sent(h, o, allowed, v, held), NEW r \in Objects
  PROVE  /\ r # o => store'[r] = store[r]
         /\ store'[o] = store[o] \/ (allowed /\ store'[o] = v)
         /\ r \in current'[h] => r \in held
         /\ r \in current'[h] /\ r # o => r \in current[h]
<1>1. CASE allowed /\ (Put(h, o, v, held) \/ Put(h, o, v, held \ {o}))
  BY <1>1, PutHere
<1>2. CASE UNCHANGED <<store, due>> /\ current' = [current EXCEPT ![h] = @ \cap held]
  BY <1>2 DEF TypeOK, ClusterTypeOK, Holders
<1> QED
  BY <1>1, <1>2 DEF Sent

LEMMA GotCopies ==
  ASSUME TypeOK, CacheOK, NEW h \in {"account", "config"}, NEW held, NEW objs \in SUBSET Objects,
         Got(h, held, objs), UNCHANGED <<store, cache>>,
         NEW r \in Objects
  PROVE  /\ r \in current'[h] => (r \in current[h] /\ r \in held) \/ (r \in objs /\ Cached(r) = store[r])
         /\ \A g \in {"account", "config"} \ {h} : current'[g] = current[g]
BY UpToDateCopy DEF Got, TypeOK, ClusterTypeOK, Holders

(* What a step of the account controller leaves of the configuration       *)
(* controller's copy, and the other way round.                             *)
LEMMA OtherCopy ==
  ASSUME CopyInv
  PROVE  /\ /\ UNCHANGED configWorker
            /\ AuthConfig \in current'["config"] =>
                 AuthConfig \in current["config"] /\ store'[AuthConfig] = store[AuthConfig]
            => (cpc # "idle" => ConfigCopyOK)'
         /\ /\ UNCHANGED accountWorker
            /\ \A r \in Objects : r \in current'["account"] =>
                 r \in current["account"] /\ store'[r] = store[r]
            => /\ (apc # "idle" => AccountCopyOK)'
               /\ (apc \in {"create", "update", "trigger", "untrigger"} => TriggerCopyOK)'
BY ConfigKinds, AccountInHand
   DEF CopyInv, CopiesOK, ConfigCopyOK, AccountCopyOK, TriggerCopyOK, Exists, configWorker, accountWorker

LEMMA SpecKeptSelf == \A o, v : SpecKept(o, v, v)
BY DEF SpecKept

(* The account controller's writes of the objects users specify.           *)
SpecsKept == \A r \in Requests : SpecKept(r, store[r], store'[r])

LEMMA AccountSentKeepsSpecs ==
  ASSUME CopyInv, apc # "idle", NEW o \in Objects, NEW v, NEW held,
         Sent("account", o, Exists(o) /\ o \in current["account"], v, held),
         o \in Requests =>
           (Exists(o) /\ o \in current["account"] => SpecKept(o, store[o], v))
  PROVE  SpecsKept
<1> DEFINE allowed == Exists(o) /\ o \in current["account"]
<1> SUFFICES ASSUME NEW r \in Requests
             PROVE  SpecKept(r, store[r], store'[r])
  BY DEF SpecsKept
<1>1. TypeOK /\ r \in Objects /\ Sent("account", o, allowed, v, held)
  BY RequestKinds DEF CopyInv
<1>2. (r # o => store'[r] = store[r]) /\ (store'[o] = store[o] \/ (allowed /\ store'[o] = v))
  <2> HIDE DEF allowed
  <2> QED
    BY <1>1, SentHere
<1> QED
  BY <1>2, SpecKeptSelf

LEMMA FinalizeAccountCopies ==
  ASSUME CopyInv, FinalizeAccount, TypeOK', CacheOK', UNCHANGED configWorker
  PROVE  CopyInv' /\ SpecsKept
<1> DEFINE obj == Serialised([aobj EXCEPT !.fin = TRUE])
           o == Account(areq)
<1>1. /\ apc = "finalize" /\ AccountCopyOK /\ aobj \in AccountObject /\ o \in Objects
      /\ o # AuthConfig /\ o \in Requests
  BY AccountInHand DEF FinalizeAccount, CopyInv, CopiesOK, Account, AuthConfig
<1>2. Sent("account", o, Exists(o) /\ o \in current["account"], obj, {o})
  BY DEF FinalizeAccount, Update, Send, Sent
<1>3. \/ Proceed("read", obj, Absent, Absent, FALSE) /\ store'[o] = obj
      \/ AccountRetries
  <2>1. DOMAIN store = Objects
    BY DEF CopyInv, TypeOK, ClusterTypeOK
  <2> QED
    BY <1>1, <2>1 DEF FinalizeAccount, Update, Send, Put
<1>4. /\ obj.uid = aobj.uid /\ obj.deleting = aobj.deleting
      /\ obj.limits \in {aobj.limits, Resent(aobj.limits)} /\ obj # Absent
  <2>1. obj # Absent
    <3>1. obj \in AccountObject
      BY <1>1, SerialisedType
    <3>2. Absent \notin AccountObject
      BY <1>1, AccountInHand, AbsentAssumption DEF CopyInv
    <3> QED
      BY <3>1, <3>2
  <2> QED
    BY <1>1, <2>1 DEF Serialised, AccountObject
<1> HIDE DEF obj
<1>5. SpecsKept
  <2>1. Exists(o) /\ o \in current["account"] => SpecKept(o, store[o], obj)
    BY <1>1, <1>4 DEF AccountCopyOK, SpecKept, Exists
  <2> QED
    BY <1>1, <1>2, <2>1, AccountSentKeepsSpecs
<1>6. (cpc # "idle" => ConfigCopyOK)'
  BY <1>1, <1>2, SentElsewhere, OtherCopy, ConfigKinds DEF CopyInv
<1>7. (apc # "idle" => AccountCopyOK)'
  BY <1>1, <1>3, <1>4 DEF AccountCopyOK, Exists, Proceed, AccountRetries, AccountReturns
<1>8. (apc \in {"create", "update", "trigger", "untrigger"} => TriggerCopyOK)'
  BY <1>3 DEF Proceed, AccountRetries, AccountReturns
<1> QED
  BY <1>5, <1>6, <1>7, <1>8 DEF CopyInv, CopiesOK

LEMMA StoreAccountSecretCopies ==
  ASSUME CopyInv, StoreAccountSecret, TypeOK', CacheOK', UNCHANGED configWorker
  PROVE  CopyInv' /\ SpecsKept
<1> DEFINE announced == [aobj EXCEPT !.id = adraft.jwt.sub]
           o == JWTSecret(areq)
           r == Account(areq)
<1>1. /\ apc \in {"create", "update"} /\ AccountCopyOK /\ TriggerCopyOK
      /\ aobj \in AccountObject /\ o \in Objects /\ r \in Objects
      /\ o \notin Requests /\ o # AuthConfig /\ o # r
  BY AccountInHand DEF StoreAccountSecret, CopyInv, CopiesOK, Account, AuthConfig, JWTSecret, Requests
<1>2. \E allowed : Sent("account", o, allowed, adraft, {r, AuthConfig})
  BY DEF StoreAccountSecret, Create, Update, Send, Sent
<1>3. Proceed("trigger", announced, aconf, Absent, FALSE) \/ GiveUp(aobj)
  BY DEF StoreAccountSecret, Create, Update, Send
<1>4. \A p \in Objects : p # o => store'[p] = store[p]
  BY <1>1, <1>2, SentHere DEF CopyInv
<1>5. SpecsKept
  BY <1>1, <1>4, SpecKeptSelf, RequestKinds DEF SpecsKept
<1>6. (cpc # "idle" => ConfigCopyOK)'
  BY <1>1, <1>2, SentElsewhere, OtherCopy, ConfigKinds DEF CopyInv
<1>7. \A p \in {r, AuthConfig} : p \in current'["account"] => p \in current["account"]
  BY <1>1, <1>2, SentHere, ConfigKinds DEF CopyInv
<1>8. /\ areq' = areq /\ apc' \in {"trigger", "status"} /\ (apc' = "trigger" => aconf' = aconf)
      /\ aobj' \in {announced, Failed(aobj)}
  BY <1>3 DEF Proceed, GiveUp
<1>9. aobj'.uid = aobj.uid /\ aobj'.deleting = aobj.deleting /\ aobj'.limits = aobj.limits
  BY <1>1, <1>8 DEF Failed, AccountObject
<1> HIDE DEF announced
<1>10. (apc # "idle" => AccountCopyOK)'
  BY <1>1, <1>4, <1>7, <1>8, <1>9 DEF AccountCopyOK, Exists
<1>11. (apc \in {"create", "update", "trigger", "untrigger"} => TriggerCopyOK)'
  BY <1>1, <1>4, <1>7, <1>8, ConfigKinds DEF TriggerCopyOK
<1> QED
  BY <1>5, <1>6, <1>10, <1>11 DEF CopyInv, CopiesOK

LEMMA TriggerCopies ==
  ASSUME CopyInv, TriggerConfig \/ UntriggerConfig, TypeOK', CacheOK', UNCHANGED configWorker
  PROVE  CopyInv' /\ SpecsKept
<1> DEFINE r == Account(areq)
<1>1. /\ apc \in {"trigger", "untrigger"} /\ AccountCopyOK /\ TriggerCopyOK
      /\ aobj \in AccountObject /\ r \in Objects /\ AuthConfig # r
  BY AccountInHand DEF TriggerConfig, UntriggerConfig, CopyInv, CopiesOK, Account, AuthConfig
<1>2. Sent("account", AuthConfig, Exists(AuthConfig) /\ AuthConfig \in current["account"], aconf, {r})
  BY DEF TriggerConfig, UntriggerConfig, Update, Send, Sent
<1>3. \A p \in Objects : store'[p] = store[p]
  <2> DEFINE allowed == Exists(AuthConfig) /\ AuthConfig \in current["account"]
  <2>1. allowed => aconf = store[AuthConfig]
    BY <1>1 DEF TriggerCopyOK
  <2>2. TypeOK /\ Sent("account", AuthConfig, allowed, aconf, {r})
    BY <1>2 DEF CopyInv
  <2> HIDE DEF allowed
  <2> QED
    BY <2>1, <2>2, SentHere, ConfigKinds
<1>4. SpecsKept
  BY <1>3, SpecKeptSelf, RequestKinds DEF SpecsKept
<1>5. (cpc # "idle" => ConfigCopyOK)'
  BY <1>1, <1>2, SentElsewhere, OtherCopy, ConfigKinds DEF CopyInv
<1>6. r \in current'["account"] => r \in current["account"]
  BY <1>1, <1>2, SentHere, ConfigKinds DEF CopyInv
<1>7. /\ areq' = areq /\ apc' \in {"status", "release"}
      /\ aobj' \in {aobj, Failed(aobj), Succeeded(aobj)}
  BY DEF TriggerConfig, UntriggerConfig, Update, Send, Proceed, GiveUp
<1>8. aobj'.uid = aobj.uid /\ aobj'.deleting = aobj.deleting /\ aobj'.limits = aobj.limits
  BY <1>1, <1>7 DEF Failed, Succeeded, AccountObject
<1>9. AccountCopyOK'
  BY <1>1, <1>3, <1>6, <1>7, <1>8 DEF AccountCopyOK, Exists
<1> QED
  BY <1>4, <1>5, <1>7, <1>9 DEF CopyInv, CopiesOK

LEMMA SaveOrReleaseCopies ==
  ASSUME CopyInv, ReleasesDeleted, SaveAccountStatus \/ ReleaseAccount, TypeOK', CacheOK',
         UNCHANGED configWorker
  PROVE  CopyInv' /\ SpecsKept
<1> DEFINE saved == [store[Account(areq)] EXCEPT
             !.id = aobj.id, !.ready = aobj.ready, !.observed = aobj.observed]
           o == Account(areq)
<1>1. apc # "idle" /\ o \in Objects /\ Content(o) = AccountObject
  BY AccountInHand DEF SaveAccountStatus, ReleaseAccount, CopyInv
<1>2. \/ Sent("account", o, Exists(o) /\ o \in current["account"], saved, {})
      \/ /\ aobj.deleting
         /\ Sent("account", o, Exists(o) /\ o \in current["account"], Absent, {})
  BY DEF SaveAccountStatus, ReleaseAccount, Update, Send, Sent, ReleasesDeleted
<1>3. SpecsKept
  <2>1. Exists(o) => store[o] \in AccountObject
    BY <1>1 DEF CopyInv, TypeOK, ClusterTypeOK, Exists
  <2>2. /\ Exists(o) => SpecKept(o, store[o], saved)
        /\ Exists(o) /\ store[o].deleting => SpecKept(o, store[o], Absent)
    <3>1. Exists(o) => saved # Absent
      <4>1. Exists(o) => saved \in AccountObject
        <5>1. aobj \in AccountObject
          BY <1>1, AccountInHand DEF CopyInv
        <5> QED
          BY <2>1, <5>1 DEF AccountObject
      <4> QED
        BY <1>1, <4>1, AbsentAssumption
    <3>2. Exists(o) => /\ saved.uid = store[o].uid /\ saved.deleting = store[o].deleting
                       /\ saved.limits = store[o].limits
      BY <2>1 DEF AccountObject
    <3>3. o # AuthConfig
      BY DEF Account, AuthConfig
    <3> QED
      BY <3>1, <3>2, <3>3 DEF SpecKept, Exists
  <2>3. o \in current["account"] => store[o].deleting = aobj.deleting
    BY <1>1 DEF CopyInv, CopiesOK, AccountCopyOK
  <2> HIDE DEF saved
  <2> QED
    BY <1>1, <1>2, <2>2, <2>3, AccountSentKeepsSpecs
<1>4. (cpc # "idle" => ConfigCopyOK)'
  <2> HIDE DEF saved
  <2> QED
    BY <1>1, <1>2, SentElsewhere, OtherCopy, ConfigKinds DEF CopyInv
<1>5. apc' = "idle"
  BY DEF SaveAccountStatus, ReleaseAccount, Update, Send, AccountRetries, AccountWaits,
         AccountForgets, AccountReturns
<1> QED
  BY <1>3, <1>4, <1>5 DEF CopyInv, CopiesOK

LEMMA FetchAccountCopies ==
  ASSUME CopyInv, NEW a \in Accounts, FetchAccount(a), TypeOK', CacheOK', UNCHANGED configWorker
  PROVE  CopyInv' /\ SpecsKept
<1> DEFINE r == Account(a)
           obj == Cached(r)
<1>1. /\ apc = "idle" /\ UNCHANGED <<store, cache>> /\ r \in Objects /\ r # AuthConfig
      /\ {r} \in SUBSET Objects /\ {r, AuthConfig} \in SUBSET Objects
  BY AccountKinds, ConfigKinds DEF FetchAccount, Account, AuthConfig
<1>2. SpecsKept
  BY <1>1, SpecKeptSelf DEF SpecsKept
<1>3. CASE UNCHANGED <<current, apc, areq, aobj, aconf>>
  BY <1>1, <1>2, <1>3 DEF CopyInv, CopiesOK, ConfigCopyOK, Exists, configWorker
<1>4. CASE /\ obj # Absent /\ areq' = a /\ aobj' = obj /\ aconf' = Cached(AuthConfig)
           /\ apc' \in {"release", "untrigger"}
           /\ Got("account", {}, {r, AuthConfig})
  <2>1. \A p \in {r, AuthConfig} : p \in current'["account"] => Cached(p) = store[p]
    BY <1>1, <1>4, ConfigKinds, GotCopies DEF CopyInv
  <2>2. AccountCopyOK' /\ TriggerCopyOK'
    BY <1>1, <1>4, <2>1 DEF AccountCopyOK, TriggerCopyOK, Exists
  <2>3. (cpc # "idle" => ConfigCopyOK)'
    BY <1>1, <1>4, ConfigKinds, GotCopies, OtherCopy DEF CopyInv
  <2> QED
    BY <1>2, <2>2, <2>3 DEF CopyInv, CopiesOK
<1>5. CASE /\ obj # Absent /\ areq' = a /\ aobj' = obj
           /\ apc' \in {"read", "finalize"}
           /\ Got("account", {}, {r})
  <2>1. r \in current'["account"] => Cached(r) = store[r]
    BY <1>1, <1>5, GotCopies DEF CopyInv
  <2>2. AccountCopyOK'
    BY <1>1, <1>5, <2>1 DEF AccountCopyOK, Exists
  <2>3. (cpc # "idle" => ConfigCopyOK)'
    BY <1>1, <1>5, ConfigKinds, GotCopies, OtherCopy DEF CopyInv
  <2> QED
    BY <1>2, <1>5, <2>2, <2>3 DEF CopyInv, CopiesOK
<1> QED
  BY <1>3, <1>4, <1>5 DEF FetchAccount

LEMMA ReadAccountCopies ==
  ASSUME CopyInv, TypeOK', CacheOK', UNCHANGED configWorker,
         RejectAccount \/ SkipAccount \/ SignAccount(FreshAccountKeys, FreshOperatorKeys)
  PROVE  CopyInv' /\ SpecsKept
<1> DEFINE r == Account(areq)
<1>1. /\ apc = "read" /\ UNCHANGED <<store, cache>> /\ AccountCopyOK
      /\ aobj \in AccountObject /\ r \in Objects /\ AuthConfig # r
      /\ {AuthConfig, JWTSecret(areq)} \in SUBSET Objects
      /\ r \notin {AuthConfig, JWTSecret(areq)}
  BY AccountInHand, ConfigKinds
     DEF RejectAccount, SkipAccount, SignAccount, AccountReads, CopyInv, CopiesOK, Account,
         AuthConfig, JWTSecret
<1>2. SpecsKept
  BY <1>1, SpecKeptSelf DEF SpecsKept
<1>3. /\ areq' = areq /\ aobj' \in {aobj, Failed(aobj), Succeeded(aobj)}
      /\ \/ apc' = "status" /\ Got("account", {r}, {})
         \/ /\ apc' \in {"create", "update"} /\ aconf' = Cached(AuthConfig)
            /\ Got("account", {r}, {AuthConfig, JWTSecret(areq)})
  BY DEF RejectAccount, SkipAccount, SignAccount, GiveUp, Proceed
<1>4. aobj'.uid = aobj.uid /\ aobj'.deleting = aobj.deleting /\ aobj'.limits = aobj.limits
  BY <1>1, <1>3 DEF Failed, Succeeded, AccountObject
<1>5. r \in current'["account"] => r \in current["account"]
  BY <1>1, <1>3, GotCopies DEF CopyInv
<1>6. AccountCopyOK'
  BY <1>1, <1>3, <1>4, <1>5 DEF AccountCopyOK, Exists
<1>7. apc' \in {"create", "update"} => TriggerCopyOK'
  BY <1>1, <1>3, ConfigKinds, GotCopies DEF CopyInv, TriggerCopyOK
<1>8. (cpc # "idle" => ConfigCopyOK)'
  BY <1>1, <1>3, ConfigKinds, GotCopies, OtherCopy DEF CopyInv
<1> QED
  BY <1>2, <1>3, <1>6, <1>7, <1>8 DEF CopyInv, CopiesOK

LEMMA AccountStepCopies ==
  ASSUME CopyInv, ReleasesDeleted, AccountStep, TypeOK', CacheOK'
  PROVE  CopyInv' /\ SpecsKept
<1>1. UNCHANGED configWorker
  BY DEF AccountStep
<1>2. ASSUME PanicOnAccount
      PROVE  CopyInv' /\ SpecsKept
  <2>1. UNCHANGED <<store, cache, current, accountWorker>>
    BY <1>2 DEF PanicOnAccount, AccountReads
  <2> QED
    BY <1>1, <2>1, SpecKeptSelf
       DEF CopyInv, CopiesOK, ConfigCopyOK, AccountCopyOK, TriggerCopyOK, SpecsKept, Exists,
           accountWorker, configWorker
<1> QED
  BY <1>1, <1>2, FetchAccountCopies, FinalizeAccountCopies, ReadAccountCopies,
     StoreAccountSecretCopies, TriggerCopies, SaveOrReleaseCopies
     DEF AccountStep, AccountReconcile

(* The configuration controller never changes, in memory, what users       *)
(* decide of its object.                                                   *)
SameConfig == cobj'.uid = cobj.uid /\ cobj'.deleting = cobj.deleting /\ cobj'.spec = cobj.spec

LEMMA VerdictKeepsConfig ==
  ASSUME NEW obj \in ConfigObject, obj.uid = cobj.uid, obj.deleting = cobj.deleting,
         obj.spec = cobj.spec,
         ConfigFails(obj) \/ ConfigInvalid(obj) \/ ConfigSucceeds(obj)
  PROVE  SameConfig /\ cpc' = "status"
BY DEF ConfigFails, ConfigInvalid, ConfigSucceeds, ProceedConfig, ConfigObject, SameConfig

(* Writes of objects other than the configuration.                         *)
LEMMA ConfigWritesOther ==
  ASSUME CopyInv, TypeOK', CacheOK', UNCHANGED accountWorker, cpc # "idle",
         NEW o \in Objects \ Requests, NEW allowed, NEW v,
         Sent("config", o, allowed, v, {AuthConfig}), SameConfig
  PROVE  CopyInv' /\ SpecsKept
<1>1. \A p \in Objects : p # o => store'[p] = store[p]
  BY SentHere DEF CopyInv
<1>2. SpecsKept
  BY <1>1, SpecKeptSelf, RequestKinds DEF SpecsKept
<1>3. /\ (apc # "idle" => AccountCopyOK)'
      /\ (apc \in {"create", "update", "trigger", "untrigger"} => TriggerCopyOK)'
  BY SentElsewhere, OtherCopy DEF CopyInv
<1>4. AuthConfig \in Objects /\ AuthConfig # o
  BY ConfigKinds
<1>5. AuthConfig \in current'["config"] => AuthConfig \in current["config"]
  BY <1>4, SentHere DEF CopyInv
<1>6. ConfigCopyOK'
  BY <1>1, <1>4, <1>5 DEF CopyInv, CopiesOK, ConfigCopyOK, SameConfig, Exists
<1> QED
  BY <1>2, <1>3, <1>6 DEF CopyInv, CopiesOK

LEMMA ConfigReadsCopies ==
  ASSUME CopyInv, TypeOK', CacheOK', UNCHANGED accountWorker, cpc # "idle",
         UNCHANGED <<store, cache>>, SameConfig,
         NEW objs \in SUBSET (Objects \ {AuthConfig}), Got("config", {AuthConfig}, objs)
  PROVE  CopyInv' /\ SpecsKept
<1>1. SpecsKept
  BY SpecKeptSelf DEF SpecsKept
<1>2. /\ (apc # "idle" => AccountCopyOK)'
      /\ (apc \in {"create", "update", "trigger", "untrigger"} => TriggerCopyOK)'
  BY GotCopies, OtherCopy DEF CopyInv
<1>3. AuthConfig \in current'["config"] => AuthConfig \in current["config"]
  BY ConfigKinds, GotCopies DEF CopyInv
<1>4. ConfigCopyOK'
  BY <1>3 DEF CopyInv, CopiesOK, ConfigCopyOK, SameConfig, Exists
<1> QED
  BY <1>1, <1>2, <1>4 DEF CopyInv, CopiesOK

(* Writes of the configuration itself.                                     *)
LEMMA ConfigWritesOwn ==
  ASSUME CopyInv, TypeOK', CacheOK', UNCHANGED accountWorker, cpc # "idle",
         NEW v, NEW held,
         Sent("config", AuthConfig, Exists(AuthConfig) /\ AuthConfig \in current["config"], v, held),
         Exists(AuthConfig) /\ AuthConfig \in current["config"] =>
           IF v = Absent THEN store[AuthConfig].deleting
             ELSE /\ v.uid = store[AuthConfig].uid /\ v.deleting = store[AuthConfig].deleting
                  /\ v.spec = store[AuthConfig].spec,
         \/ cpc' = "idle"
         \/ store'[AuthConfig] = v /\ v # Absent /\ cobj' = v
  PROVE  CopyInv' /\ SpecsKept
<1> DEFINE allowed == Exists(AuthConfig) /\ AuthConfig \in current["config"]
<1>1. allowed => SpecKept(AuthConfig, store[AuthConfig], v)
  BY DEF SpecKept, Exists
<1>2. TypeOK /\ AuthConfig \in Objects /\ Sent("config", AuthConfig, allowed, v, held)
  BY ConfigKinds DEF CopyInv
<1> HIDE DEF allowed
<1>3. SpecsKept
  <2> SUFFICES ASSUME NEW r \in Requests
               PROVE  SpecKept(r, store[r], store'[r])
    BY DEF SpecsKept
  <2>1. /\ r # AuthConfig => store'[r] = store[r]
        /\ store'[AuthConfig] = store[AuthConfig] \/ (allowed /\ store'[AuthConfig] = v)
    BY <1>2, RequestKinds, SentHere
  <2> QED
    BY <1>1, <2>1, SpecKeptSelf
<1>4. /\ (apc # "idle" => AccountCopyOK)'
      /\ (apc \in {"create", "update", "trigger", "untrigger"} => TriggerCopyOK)'
  BY <1>2, SentElsewhere, OtherCopy
<1>5. (cpc # "idle" => ConfigCopyOK)'
  BY DEF ConfigCopyOK, Exists
<1> QED
  BY <1>3, <1>4, <1>5 DEF CopyInv, CopiesOK

LEMMA ConfigStepCopies ==
  ASSUME CopyInv, ReleasesDeleted, ConfigStep, TypeOK', CacheOK'
  PROVE  CopyInv' /\ SpecsKept
<1>1. UNCHANGED accountWorker /\ DOMAIN store = Objects
  BY DEF ConfigStep, CopyInv, TypeOK, ClusterTypeOK
<1>2. ASSUME FetchConfig
      PROVE  CopyInv' /\ SpecsKept
  <2>1. UNCHANGED <<store, cache>> /\ cpc = "idle"
    BY <1>2 DEF FetchConfig
  <2>2. SpecsKept
    BY <2>1, SpecKeptSelf DEF SpecsKept
  <2>3. CASE UNCHANGED <<current, cpc>>
    BY <1>1, <2>1, <2>2, <2>3
       DEF CopyInv, CopiesOK, AccountCopyOK, TriggerCopyOK, Exists, accountWorker
  <2>4. CASE Cached(AuthConfig) # Absent /\ cobj' = Cached(AuthConfig) /\ Got("config", {}, {AuthConfig})
    <3>1. AuthConfig \in current'["config"] => Cached(AuthConfig) = store[AuthConfig]
      BY <2>1, <2>4, ConfigKinds, GotCopies DEF CopyInv
    <3>2. ConfigCopyOK'
      BY <2>1, <2>4, <3>1 DEF ConfigCopyOK, Exists
    <3>3. /\ (apc # "idle" => AccountCopyOK)'
          /\ (apc \in {"create", "update", "trigger", "untrigger"} => TriggerCopyOK)'
      BY <1>1, <2>1, <2>4, ConfigKinds, GotCopies, OtherCopy DEF CopyInv
    <3> QED
      BY <2>2, <3>2, <3>3 DEF CopyInv, CopiesOK
  <2> QED
    BY <1>2, <2>3, <2>4 DEF FetchConfig
<1>3. ASSUME FinalizeConfig
      PROVE  CopyInv' /\ SpecsKept
  <2> DEFINE obj == [cobj EXCEPT !.fin = TRUE]
  <2>1. cpc # "idle" /\ ConfigCopyOK /\ cobj \in ConfigObject
    BY <1>3, ConfigInHand DEF FinalizeConfig, CopyInv, CopiesOK
  <2>2. /\ obj \in ConfigObject /\ obj.uid = cobj.uid /\ obj.deleting = cobj.deleting
        /\ obj.spec = cobj.spec
    BY <2>1 DEF ConfigObject
  <2>3. obj # Absent
    BY <2>2, ConfigKinds, AbsentAssumption
  <2>4. Sent("config", AuthConfig, Exists(AuthConfig) /\ AuthConfig \in current["config"], obj, {AuthConfig})
    BY <1>3 DEF FinalizeConfig, Update, Send, Sent
  <2>5. cpc' = "idle" \/ (store'[AuthConfig] = obj /\ cobj' = obj)
    BY <1>1, <1>3, ConfigKinds
       DEF FinalizeConfig, Update, Send, Put, ProceedConfig, ConfigRetries, ConfigReturns
  <2> HIDE DEF obj
  <2> QED
    BY <1>1, <2>1, <2>2, <2>3, <2>4, <2>5, ConfigWritesOwn DEF ConfigCopyOK
<1>4. ASSUME ChooseMode
      PROVE  CopyInv' /\ SpecsKept
  <2>1. cpc # "idle" /\ cobj \in ConfigObject /\ UNCHANGED <<store, cache>>
    BY <1>4, ConfigInHand DEF ChooseMode, CopyInv
  <2>2. SameConfig
    BY <1>4, <2>1, VerdictKeepsConfig DEF ChooseMode, ProceedConfig, SameConfig
  <2>3. Target(cobj.spec) \in Objects \ {AuthConfig}
    BY <2>1, ConfigInHand, ConfigKinds DEF CopyInv, ServerSecret, ServerConfigMap, AuthConfig
  <2>4. \/ Got("config", {AuthConfig}, {})
        \/ Got("config", {AuthConfig}, {Target(cobj.spec)})
    BY <1>4 DEF ChooseMode
  <2> QED
    BY <1>1, <2>1, <2>2, <2>3, <2>4, ConfigReadsCopies
<1>5. ASSUME CreateOperatorSeed(FreshOperatorKeys)
      PROVE  CopyInv' /\ SpecsKept
  <2>1. cpc # "idle" /\ cobj \in ConfigObject
    BY <1>5, ConfigInHand DEF CreateOperatorSeed, CopyInv
  <2>2. SameConfig
    BY <1>5, <2>1, VerdictKeepsConfig DEF CreateOperatorSeed, Send, ProceedConfig, SameConfig
  <2>3. \E allowed, v : Sent("config", OperatorSeed, allowed, v, {AuthConfig})
    BY <1>5 DEF CreateOperatorSeed, Send, Sent
  <2>4. OperatorSeed \in Objects \ Requests
    BY ConfigKinds DEF OperatorSeed, Requests, Account, AuthConfig
  <2> QED
    BY <1>1, <2>1, <2>2, <2>3, <2>4, ConfigWritesOther
<1>6. ASSUME \/ ReadOperatorSeed \/ ListAccounts(FreshOperatorKeys)
             \/ CollectAccountJWT \/ ReadServerSecret
      PROVE  CopyInv' /\ SpecsKept
  <2>1. cpc # "idle" /\ cobj \in ConfigObject /\ UNCHANGED <<store, cache>>
    BY <1>6, ConfigInHand
       DEF ReadOperatorSeed, ListAccounts, CollectAccountJWT, ReadServerSecret, ConfigReads, CopyInv
  <2>2. SameConfig
    BY <1>6, <2>1, VerdictKeepsConfig
       DEF ReadOperatorSeed, ListAccounts, CollectAccountJWT, ReadServerSecret, ProceedConfig,
           SameConfig
  <2>3. \/ Got("config", {AuthConfig}, {})
        \/ Got("config", {AuthConfig}, {ServerSecret})
    BY <1>6 DEF ReadOperatorSeed, ListAccounts, CollectAccountJWT, ReadServerSecret
  <2>4. ServerSecret \in Objects \ {AuthConfig}
    BY ConfigKinds DEF ServerSecret, AuthConfig
  <2> QED
    BY <1>1, <2>1, <2>2, <2>3, <2>4, ConfigReadsCopies
<1>7. ASSUME PublishAggregate
      PROVE  CopyInv' /\ SpecsKept
  <2> DEFINE pub == IF cobj.spec.mode = "token" THEN cobj.pub ELSE ckey
             obj == [cobj EXCEPT !.pub = pub, !.resolver = TRUE]
  <2>1. cpc # "idle" /\ cobj \in ConfigObject /\ ckey \in Operators
    BY <1>7, ConfigInHand DEF PublishAggregate, CopyInv, TypeOK, ConfigWorkerTypeOK
  <2>2. /\ obj \in ConfigObject /\ obj.uid = cobj.uid /\ obj.deleting = cobj.deleting
        /\ obj.spec = cobj.spec
    BY <2>1 DEF ConfigObject
  <2>3. ConfigSucceeds(obj) \/ ConfigFails(cobj)
    BY <1>7 DEF PublishAggregate, Create, Update, Send
  <2> HIDE DEF obj
  <2>4. SameConfig
    BY <2>1, <2>2, <2>3, VerdictKeepsConfig
  <2>5. \E allowed : Sent("config", Target(cobj.spec), allowed, cdraft, {AuthConfig})
    BY <1>7 DEF PublishAggregate, Create, Update, Send, Sent
  <2>6. Target(cobj.spec) \in Objects \ Requests
    BY <2>1, ConfigInHand, ConfigKinds
       DEF CopyInv, ServerSecret, ServerConfigMap, Requests, Account, AuthConfig
  <2> QED
    BY <1>1, <2>1, <2>4, <2>5, <2>6, ConfigWritesOther
<1>8. ASSUME SaveConfigStatus
      PROVE  CopyInv' /\ SpecsKept
  <2> DEFINE saved == [store[AuthConfig] EXCEPT
               !.pub = cobj.pub, !.resolver = cobj.resolver,
               !.ready = cobj.ready, !.observed = cobj.observed]
  <2>1. Exists(AuthConfig) => store[AuthConfig] \in ConfigObject
    BY ConfigKinds DEF CopyInv, TypeOK, ClusterTypeOK, Exists
  <2>2. Exists(AuthConfig) =>
          /\ saved # Absent
          /\ saved.uid = store[AuthConfig].uid /\ saved.deleting = store[AuthConfig].deleting
          /\ saved.spec = store[AuthConfig].spec
    <3>1. Exists(AuthConfig) => saved \in ConfigObject
      BY <1>8, <2>1, ConfigInHand DEF SaveConfigStatus, CopyInv, ConfigObject
    <3> QED
      BY <2>1, <3>1, ConfigKinds, AbsentAssumption DEF ConfigObject
  <2>3. Sent("config", AuthConfig, Exists(AuthConfig) /\ AuthConfig \in current["config"], saved, {})
    BY <1>8 DEF SaveConfigStatus, Update, Send, Sent
  <2>4. cpc # "idle" /\ cpc' = "idle"
    BY <1>8 DEF SaveConfigStatus, Update, Send, ConfigRetries, ConfigWaits, ConfigReturns
  <2> HIDE DEF saved
  <2> QED
    BY <1>1, <2>2, <2>3, <2>4, ConfigWritesOwn
<1>9. ASSUME ReleaseConfig
      PROVE  CopyInv' /\ SpecsKept
  <2>1. Sent("config", AuthConfig, Exists(AuthConfig) /\ AuthConfig \in current["config"], Absent, {})
    BY <1>9 DEF ReleaseConfig, Update, Send, Sent
  <2>2. cpc # "idle" /\ cpc' = "idle"
    BY <1>9 DEF ReleaseConfig, Update, Send, ConfigRetries, ConfigForgets, ConfigReturns
  <2>3. AuthConfig \in current["config"] => store[AuthConfig].deleting
    BY <1>9 DEF ReleaseConfig, CopyInv, CopiesOK, ConfigCopyOK, ReleasesDeleted
  <2> QED
    BY <1>1, <2>1, <2>2, <2>3, ConfigWritesOwn
<1> QED
  BY <1>2, <1>3, <1>4, <1>5, <1>6, <1>7, <1>8, <1>9 DEF ConfigStep, ConfigReconcile

LEMMA OthersCopies ==
  ASSUME CopyInv, ClusterStep \/ Restart \/ UNCHANGED vars, TypeOK', CacheOK'
  PROVE  CopyInv'
<1>1. CASE Restart
  BY <1>1 DEF Restart, Start, Relist, CopyInv, CopiesOK
<1>2. CASE UNCHANGED vars
  BY <1>2 DEF vars, cluster, accountWorker, configWorker, CopyInv, CopiesOK, AccountCopyOK,
              TriggerCopyOK, ConfigCopyOK, Exists
<1>3. CASE ClusterStep
  <2>1. UNCHANGED <<accountWorker, configWorker>>
    BY <1>3 DEF ClusterStep
  <2>2. \A g \in {"account", "config"}, r \in Objects :
          r \in current'[g] => r \in current[g] /\ store'[r] = store[r]
    <3>1. ASSUME NEW h \in {"gc", "user"}, NEW o \in Objects, NEW v, Put(h, o, v, {})
          PROVE  \A g \in {"account", "config"}, r \in Objects :
                   r \in current'[g] => r \in current[g] /\ store'[r] = store[r]
      BY <3>1, PutElsewhere DEF CopyInv
    <3>2. ASSUME NEW o \in Objects, CollectGarbage(o) \/ \E kind, v : ByUser(kind, o, v)
          PROVE  \A g \in {"account", "config"}, r \in Objects :
                   r \in current'[g] => r \in current[g] /\ store'[r] = store[r]
      BY <3>1, <3>2 DEF CollectGarbage, ByUser
    <3>3. ASSUME Kill \/ Informers
          PROVE  \A g \in {"account", "config"}, r \in Objects :
                   r \in current'[g] => r \in current[g] /\ store'[r] = store[r]
      BY <3>3 DEF Kill, Informers, Deliver, TimerFires, CopyInv, TypeOK, ClusterTypeOK, Holders
    <3> QED
      BY <1>3, <3>2, <3>3, AccountKinds, ConfigKinds
         DEF ClusterStep, Environment, DeleteSecret, EditAccount, CreateAccount, EditConfig,
             CreateConfig, Delete
  <2> QED
    BY <2>1, <2>2, OtherCopy, ConfigKinds DEF CopyInv, CopiesOK
<1> QED
  BY <1>1, <1>2, <1>3

(* Neither controller ever overwrites an edit, undoes a deletion, brings   *)
(* back an object or removes one that nobody deleted, however stale the    *)
(* copy it works from.                                                     *)
THEOREM UsersPrevail == Spec => UsersWin
<1> DEFINE Inv == RememberInv /\ CopiesOK /\ ReleasesDeleted
<1>1. Init => Inv
  BY InitRemembers DEF Init, AccountIdle, ConfigIdle, CopiesOK, ReleasesDeleted
<1>2. Inv /\ [Next]_vars => Inv'
  <2> SUFFICES ASSUME Inv, [Next]_vars
               PROVE  Inv'
    OBVIOUS
  <2>1. RememberInv' /\ CopyInv /\ TypeOK' /\ CacheOK' /\ ReleasesDeleted'
    BY NextRemembers, OnlyDeletedReleased DEF RememberInv, CopyInv
  <2>2. CopyInv'
    BY <2>1, AccountStepCopies, ConfigStepCopies, OthersCopies DEF Next
  <2> QED
    BY <2>1, <2>2 DEF CopyInv
<1>3. Inv /\ [Next]_vars =>
        [Operating => \A o \in Requests : SpecKept(o, store[o], store'[o])]_vars
  <2> SUFFICES ASSUME Inv, [Next]_vars, Operating
               PROVE  \A o \in Requests : SpecKept(o, store[o], store'[o])
    OBVIOUS
  <2>1. CopyInv /\ TypeOK' /\ CacheOK'
    BY NextRemembers DEF RememberInv, CopyInv
  <2>2. SpecsKept
    BY <2>1, AccountStepCopies, ConfigStepCopies DEF Operating
  <2> QED
    BY <2>2 DEF SpecsKept
<1> HIDE DEF Inv
<1> QED
  BY <1>1, <1>2, <1>3, PTL DEF Spec, UsersWin

=============================================================================
