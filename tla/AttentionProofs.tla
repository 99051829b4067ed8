-------------------------- MODULE AttentionProofs --------------------------
(***************************************************************************)
(* An account whose announced ID is not the one of its stored secret is    *)
(* attended to: its request is queued, retried, in hand, or an event for   *)
(* it is on its way. This holds whatever lags, is lost, or is deleted.     *)
(***************************************************************************)
EXTENDS IdentityProofs

-----------------------------------------------------------------------------
(* The inductive invariant.                                                *)

(* Attention other than being reconciled.                                  *)
Noticed(a) ==
  \/ Account(a) \in due \/ timer[Account(a)] = "backoff"
  \/ EventPending(Account(a)) \/ EventPending(JWTSecret(a))

(* The stored secret is the one of the ID k, seed and JWT.                 *)
HasIdentity(a, k) ==
  Exists(JWTSecret(a)) /\ store[JWTSecret(a)].seed = k /\ store[JWTSecret(a)].jwt.sub = k

(* A JWT is made for the key of the seed stored beside it, unless the seed *)
(* is empty.                                                               *)
Matching(secret) == secret # Absent /\ secret.seed # NoKey => secret.jwt.sub = secret.seed
SecretsMatch == \A a \in Accounts : Matching(store[JWTSecret(a)])
DraftMatches == apc \in {"create", "update"} => Matching(adraft)

(* With an empty seed the JWT about to be stored has a new key, so that    *)
(* storing it is an event.                                                 *)
NewJWT ==
  apc = "update" /\ adraft.seed = NoKey /\ Exists(JWTSecret(areq))
    => adraft.jwt.sub # store[JWTSecret(areq)].jwt.sub

(* A Reconcile that is about to announce an ID, and to wait five minutes,  *)
(* announces that of the secret; or it is going to run again.              *)
AnnouncementOK ==
  apc = "trigger" \/ (apc = "status" /\ ~aerr) => Noticed(areq) \/ HasIdentity(areq, aobj.id)

MismatchNoticed ==
  process = "running" =>
    \A a \in Accounts : Exists(Account(a)) /\ ~Sound(a) => areq = a \/ Noticed(a)

AttentionInv ==
  /\ RememberInv
  /\ SecretsMatch /\ DraftMatches /\ NewJWT
  /\ AnnouncementOK
  /\ MismatchNoticed

-----------------------------------------------------------------------------
(* Attention is not lost, and events draw it.                              *)

(* What is stored of an account and its secret either stays or is noticed. *)
ChangesNoticed(a) ==
  \/ store'[Account(a)] = store[Account(a)] /\ store'[JWTSecret(a)] = store[JWTSecret(a)]
  \/ Noticed(a)'

LEMMA WatchedByAccount ==
  \A a \in Accounts : Watchers(Account(a)) = {Account(a)} /\ Watchers(JWTSecret(a)) = {Account(a)}
BY DEF Watchers, Account, JWTSecret

LEMMA PutNoticed ==
  ASSUME TypeOK, CacheOK, NEW h \in {"account", "config", "gc", "user"}, NEW o \in Objects,
         NEW v, NEW held, Put(h, o, v, held),
         \A a \in Accounts : timer[Account(a)] = "backoff" => timer'[Account(a)] = "backoff",
         NEW a \in Accounts
  PROVE  ChangesNoticed(a) /\ (Noticed(a) => Noticed(a)')
<1>1. /\ DOMAIN store = Objects /\ store' = [store EXCEPT ![o] = v]
      /\ current'["cache"] = IF o[1] \notin Lag THEN current["cache"] ELSE current["cache"] \ {o}
      /\ due' = IF o[1] \in Lag THEN due ELSE due \cup Watchers(o)
  BY DEF Put, Holders, TypeOK, ClusterTypeOK
<1>2. Noticed(a) => Noticed(a)'
  BY <1>1 DEF Noticed, EventPending
<1>3. o \in {Account(a), JWTSecret(a)} => Noticed(a)'
  BY <1>1, WatchedByAccount DEF Noticed, EventPending
<1> QED
  BY <1>1, <1>2, <1>3, AccountKinds DEF ChangesNoticed

LEMMA SentNoticed ==
  ASSUME TypeOK, CacheOK, NEW h \in {"account", "config"}, NEW o \in Objects, NEW allowed,
         NEW v, NEW held, Sent(h, o, allowed, v, held),
         \A a \in Accounts : timer[Account(a)] = "backoff" => timer'[Account(a)] = "backoff",
         NEW a \in Accounts
  PROVE  ChangesNoticed(a) /\ (Noticed(a) => Noticed(a)')
<1>1. CASE Put(h, o, v, held) \/ Put(h, o, v, held \ {o})
  BY <1>1, PutNoticed
<1>2. CASE UNCHANGED <<store, due>> /\ current' = [current EXCEPT ![h] = @ \cap held]
  BY <1>2 DEF ChangesNoticed, Noticed, EventPending, TypeOK, ClusterTypeOK, Holders
<1> QED
  BY <1>1, <1>2 DEF Sent

LEMMA QuietNoticed ==
  ASSUME TypeOK, UNCHANGED <<store, due, timer>>,
         UNCHANGED current \/ \E h \in {"account", "config"} : \E held, objs : Got(h, held, objs)
  PROVE  \A a \in Accounts : ChangesNoticed(a) /\ (Noticed(a) => Noticed(a)')
BY DEF Got, TypeOK, ClusterTypeOK, Holders, ChangesNoticed, Noticed, EventPending

(* Attention to every account, apart from the one in hand.                 *)
Noticing == \A a \in Accounts : ChangesNoticed(a) /\ (Noticed(a) => Noticed(a)')

LEMMA AttentionFollows ==
  ASSUME MismatchNoticed, Noticing, process' = "running" => process = "running",
         \A a \in Accounts :
           a = areq /\ areq' # a /\ Exists(Account(a))' /\ ~Sound(a)' => Noticed(a)'
  PROVE  MismatchNoticed'
<1> SUFFICES ASSUME process' = "running", NEW a \in Accounts, Exists(Account(a))', ~Sound(a)',
                    areq' # a, ~Noticed(a)'
             PROVE  FALSE
  BY DEF MismatchNoticed
<1>1. store'[Account(a)] = store[Account(a)] /\ store'[JWTSecret(a)] = store[JWTSecret(a)]
  BY DEF Noticing, ChangesNoticed
<1>2. Exists(Account(a)) /\ ~Sound(a) /\ ~Noticed(a)
  BY <1>1 DEF Noticing, Sound, Exists
<1> QED
  BY <1>2 DEF MismatchNoticed

(* Steps of others: they store no secrets.                                 *)
LEMMA OthersAttend ==
  ASSUME AttentionInv, UNCHANGED accountWorker, Noticing,
         process' = "running" => process = "running",
         \A a \in Accounts : store'[JWTSecret(a)] \in {store[JWTSecret(a)], Absent}
  PROVE  /\ SecretsMatch' /\ DraftMatches' /\ NewJWT'
         /\ AnnouncementOK' /\ MismatchNoticed'
<1>1. UNCHANGED <<apc, areq, aobj, adraft, aerr>>
  BY DEF accountWorker
<1>2. apc # "idle" => areq \in Accounts
  BY AccountInHand DEF AttentionInv, RememberInv
<1>3. SecretsMatch'
  BY DEF AttentionInv, SecretsMatch, Matching
<1>4. DraftMatches'
  BY <1>1 DEF AttentionInv, DraftMatches, Matching
<1>5. NewJWT'
  BY <1>1, <1>2 DEF AttentionInv, NewJWT, Exists
<1>6. AnnouncementOK'
  BY <1>1, <1>2 DEF AttentionInv, AnnouncementOK, Noticing, ChangesNoticed, HasIdentity, Exists
<1>7. MismatchNoticed'
  BY <1>1, AttentionFollows DEF AttentionInv
<1> QED
  BY <1>3, <1>4, <1>5, <1>6, <1>7

-----------------------------------------------------------------------------
(* The configuration controller, users, the collector and the informers.   *)

LEMMA ConfigStepAttends ==
  ASSUME AttentionInv, ConfigStep
  PROVE  /\ SecretsMatch' /\ DraftMatches' /\ NewJWT'
         /\ AnnouncementOK' /\ MismatchNoticed'
<1>1. TypeOK /\ CacheOK
  BY DEF AttentionInv, RememberInv
<1>2. UNCHANGED <<accountWorker, process>>
  BY DEF ConfigStep, ConfigReconcile, FetchConfig, FinalizeConfig, ChooseMode, CreateOperatorSeed,
         ConfigReads, ReadOperatorSeed, ListAccounts, CollectAccountJWT, ReadServerSecret,
         PublishAggregate, SaveConfigStatus, ReleaseConfig, Create, Update, Send
<1>3. \A a \in Accounts : store'[JWTSecret(a)] = store[JWTSecret(a)]
  BY <1>1, ConfigStepFrame DEF AccountObjects
<1>4. \A a \in Accounts : timer[Account(a)] = "backoff" => timer'[Account(a)] = "backoff"
  <2>1. timer' = timer \/ Backoff(AuthConfig) \/ RequeueAfter(AuthConfig)
    BY DEF ConfigStep, ConfigReconcile, FetchConfig, FinalizeConfig, ChooseMode, CreateOperatorSeed,
           ReadOperatorSeed, ListAccounts, CollectAccountJWT, ReadServerSecret, PublishAggregate,
           SaveConfigStatus, ReleaseConfig, Create, Update, Send, ProceedConfig, ConfigFails, ConfigInvalid, ConfigSucceeds, ConfigRetries,
           ConfigForgets, ConfigWaits
  <2> QED
    BY <1>1, <2>1, AccountKinds, Distinct DEF Backoff, RequeueAfter, TypeOK, ClusterTypeOK
<1>5. Noticing
  <2>1. ASSUME FetchConfig
        PROVE  Noticing
    <3>1. /\ UNCHANGED <<store, timer>> /\ due' = due \ {AuthConfig}
          /\ UNCHANGED current \/ \E held, objs : Got("config", held, objs)
      BY <2>1 DEF FetchConfig
    <3> QED
      BY <1>1, <3>1, Distinct
         DEF Noticing, ChangesNoticed, Noticed, EventPending, Got, TypeOK, ClusterTypeOK, Holders
  <2>2. ASSUME \/ ChooseMode \/ ReadOperatorSeed \/ ListAccounts(FreshOperatorKeys)
               \/ CollectAccountJWT \/ ReadServerSecret
        PROVE  Noticing
    <3>1. /\ UNCHANGED <<store, due, timer>>
          /\ \E held, objs : Got("config", held, objs)
      BY <2>2 DEF ChooseMode, ConfigReads, ReadOperatorSeed, ListAccounts, CollectAccountJWT,
                  ReadServerSecret, ProceedConfig, ConfigFails, ConfigInvalid
    <3> QED
      BY <1>1, <3>1, QuietNoticed DEF Noticing
  <2>3. ASSUME \/ FinalizeConfig \/ CreateOperatorSeed(FreshOperatorKeys) \/ PublishAggregate
               \/ SaveConfigStatus \/ ReleaseConfig
        PROVE  Noticing
    <3>1. \E o \in {AuthConfig, OperatorSeed, Target(cobj.spec)} : \E allowed, v, held :
            Sent("config", o, allowed, v, held)
      BY <2>3 DEF FinalizeConfig, CreateOperatorSeed, PublishAggregate, SaveConfigStatus,
                  ReleaseConfig, Create, Update, Send, Sent
    <3>2. cpc # "idle"
      BY <2>3 DEF FinalizeConfig, CreateOperatorSeed, PublishAggregate, SaveConfigStatus, ReleaseConfig
    <3>3. {AuthConfig, OperatorSeed, Target(cobj.spec)} \subseteq Objects
      BY <1>1, <3>2, ConfigInHand, ConfigKinds
    <3> QED
      BY <1>1, <1>4, <3>1, <3>3, SentNoticed DEF Noticing
  <2> QED
    BY <2>1, <2>2, <2>3 DEF ConfigStep, ConfigReconcile
<1> QED
  BY <1>2, <1>3, <1>5, OthersAttend

LEMMA ClusterStepAttends ==
  ASSUME AttentionInv, ClusterStep
  PROVE  /\ SecretsMatch' /\ DraftMatches' /\ NewJWT'
         /\ AnnouncementOK' /\ MismatchNoticed'
<1>1. TypeOK /\ CacheOK /\ UNCHANGED accountWorker
  BY DEF AttentionInv, RememberInv, ClusterStep
<1>2. \A a \in Accounts : store'[JWTSecret(a)] \in {store[JWTSecret(a)], Absent}
  BY <1>1, ClusterStepFrame DEF SecretChanged
<1>3. Noticing /\ (process' = "running" => process = "running")
  <2>1. ASSUME NEW o \in Objects, Deliver(o)
        PROVE  Noticing /\ process' = process
    BY <1>1, <2>1, WatchedByAccount
       DEF Deliver, Noticing, ChangesNoticed, Noticed, EventPending, TypeOK, ClusterTypeOK, Holders
  <2>2. ASSUME NEW r \in Requests, TimerFires(r)
        PROVE  Noticing /\ process' = process
    BY <1>1, <2>2, AccountKinds
       DEF TimerFires, Noticing, ChangesNoticed, Noticed, EventPending, TypeOK, ClusterTypeOK
  <2>3. ASSUME NEW h \in {"gc", "user"}, NEW o \in Objects, NEW v, Put(h, o, v, {}),
               UNCHANGED <<timer, process>>
        PROVE  Noticing /\ process' = process
    BY <1>1, <2>3, PutNoticed DEF Noticing
  <2>4. ASSUME NEW o \in Objects, CollectGarbage(o) \/ \E kind, v : ByUser(kind, o, v)
        PROVE  Noticing /\ process' = process
    BY <2>3, <2>4 DEF CollectGarbage, ByUser
  <2>5. ASSUME Kill
        PROVE  Noticing /\ process' # "running"
    BY <2>5 DEF Kill, Noticing, ChangesNoticed, Noticed, EventPending
  <2> QED
    BY <2>1, <2>2, <2>4, <2>5, AccountKinds, ConfigKinds
       DEF ClusterStep, Informers, Environment, DeleteSecret, EditAccount, CreateAccount,
           EditConfig, CreateConfig, Delete
<1> QED
  BY <1>1, <1>2, <1>3, OthersAttend

(* The kubelet starts the process again: every account is queued.          *)
LEMMA RestartAttends ==
  ASSUME AttentionInv, Restart
  PROVE  /\ SecretsMatch' /\ DraftMatches' /\ NewJWT'
         /\ AnnouncementOK' /\ MismatchNoticed'
<1>1. UNCHANGED store /\ apc' = "idle"
  BY DEF Restart, Start
<1>2. \A a \in Accounts : Exists(Account(a)) => Account(a) \in due'
  BY AccountKinds, WatchedByAccount DEF Restart, Start, Relist, Exists
<1>3. SecretsMatch'
  BY <1>1 DEF AttentionInv, SecretsMatch, Matching
<1>4. MismatchNoticed'
  BY <1>1, <1>2 DEF MismatchNoticed, Noticed, Exists
<1> QED
  BY <1>1, <1>3, <1>4 DEF DraftMatches, NewJWT, AnnouncementOK

-----------------------------------------------------------------------------
(* The account controller.                                                 *)

(* Backoffs stay, whatever Reconcile returns.                              *)
LEMMA AccountBackoffStays ==
  ASSUME TypeOK, apc # "idle",
         \/ UNCHANGED timer \/ AccountRetries \/ AccountWaits \/ AccountForgets
  PROVE  \A a \in Accounts : timer[Account(a)] = "backoff" => timer'[Account(a)] = "backoff"
<1>1. Account(areq) \in Requests
  BY AccountInHand
<1> QED
  BY <1>1, AccountKinds
     DEF AccountRetries, AccountWaits, AccountForgets, Backoff, RequeueAfter, TypeOK, ClusterTypeOK

LEMMA RetriesNoticed ==
  ASSUME TypeOK, apc # "idle", AccountRetries, NEW a \in Accounts, a = areq
  PROVE  Noticed(a)'
BY AccountKinds DEF AccountRetries, Backoff, Noticed, TypeOK, ClusterTypeOK

(* Writes of Reconcile other than that of the secret.                      *)
LEMMA AccountWriteAttends ==
  ASSUME AttentionInv, apc # "idle", UNCHANGED process,
         NEW o \in Objects, NEW allowed, NEW v, NEW held, Sent("account", o, allowed, v, held),
         \A a \in Accounts : o # JWTSecret(a),
         \/ Proceed("read", aobj', Absent, Absent, FALSE)
         \/ Proceed("release", aobj', Absent, Absent, FALSE)
         \/ Proceed("status", aobj', Absent, Absent, TRUE)
         \/ apc = "trigger" /\ aobj'.id = aobj.id /\ Proceed("status", aobj', Absent, Absent, FALSE)
         \/ AccountRetries
         \/ AccountForgets /\ store'[o] = Absent /\ o = Account(areq)
  PROVE  /\ SecretsMatch' /\ DraftMatches' /\ NewJWT'
         /\ AnnouncementOK' /\ MismatchNoticed'
<1>1. TypeOK /\ CacheOK /\ areq \in Accounts
  BY AccountInHand DEF AttentionInv, RememberInv
<1>2. \A a \in Accounts : timer[Account(a)] = "backoff" => timer'[Account(a)] = "backoff"
  BY <1>1, AccountBackoffStays DEF Proceed
<1>3. Noticing
  BY <1>1, <1>2, SentNoticed DEF Noticing
<1>4. \A a \in Accounts : store'[JWTSecret(a)] = store[JWTSecret(a)]
  BY <1>1, AccountKinds, SentHere
<1>5. SecretsMatch'
  BY <1>4 DEF AttentionInv, SecretsMatch, Matching
<1>6. DraftMatches' /\ NewJWT'
  BY DEF Proceed, AccountRetries, AccountForgets, AccountReturns, DraftMatches, NewJWT
<1>7. AnnouncementOK'
  <2> SUFFICES ASSUME apc' = "trigger" \/ (apc' = "status" /\ ~aerr')
               PROVE  (Noticed(areq) \/ HasIdentity(areq, aobj.id))'
    BY DEF AnnouncementOK
  <2>1. apc = "trigger" /\ areq' = areq /\ aobj'.id = aobj.id
    BY DEF Proceed, AccountRetries, AccountForgets, AccountReturns
  <2> QED
    BY <1>1, <1>3, <1>4, <2>1
       DEF AttentionInv, AnnouncementOK, Noticing, HasIdentity, Exists
<1>8. MismatchNoticed'
  <2>1. \A a \in Accounts :
          a = areq /\ areq' # a /\ Exists(Account(a))' /\ ~Sound(a)' => Noticed(a)'
    BY <1>1, RetriesNoticed DEF Proceed, Exists
  <2> QED
    BY <1>3, <2>1, AttentionFollows DEF AttentionInv
<1> QED
  BY <1>5, <1>6, <1>7, <1>8

(* Reconcile stores a secret: that is an event, unless the secret was the  *)
(* same already; then it has the ID that will be announced.                *)
LEMMA StoreAccountSecretAttends ==
  ASSUME AttentionInv, StoreAccountSecret, TypeOK'
  PROVE  /\ SecretsMatch' /\ DraftMatches' /\ NewJWT'
         /\ AnnouncementOK' /\ MismatchNoticed'
<1> DEFINE o == JWTSecret(areq)
           held == {Account(areq), AuthConfig}
           announced == [aobj EXCEPT !.id = adraft.jwt.sub]
<1>1. /\ TypeOK /\ CacheOK /\ apc \in {"create", "update"} /\ areq \in Accounts /\ o \in Objects
      /\ aobj \in AccountObject /\ adraft \in AccountSecret /\ UNCHANGED process
      /\ DOMAIN store = Objects
  BY AccountInHand DEF AttentionInv, RememberInv, StoreAccountSecret, Create, Update, Send,
                       TypeOK, ClusterTypeOK, AccountWorkerTypeOK
<1>2. \E allowed : Sent("account", o, allowed, adraft, held)
  BY DEF StoreAccountSecret, Create, Update, Send, Sent
<1>3. \/ Proceed("trigger", announced, aconf, Absent, FALSE)
      \/ Proceed("status", Failed(aobj), Absent, Absent, TRUE)
  BY DEF StoreAccountSecret, Create, Update, Send, GiveUp
<1>4. Noticing
  BY <1>1, <1>2, <1>3, SentNoticed DEF Noticing, Proceed
<1>5. \A a \in Accounts : store'[JWTSecret(a)] \in {store[JWTSecret(a)], adraft}
  BY <1>1, <1>2, AccountKinds, SentHere
<1>6. SecretsMatch'
  BY <1>1, <1>5 DEF AttentionInv, SecretsMatch, DraftMatches, Matching
<1>7. DraftMatches' /\ NewJWT'
  BY <1>3 DEF Proceed, DraftMatches, NewJWT
<1>8. AnnouncementOK'
  <2> SUFFICES ASSUME Proceed("trigger", announced, aconf, Absent, FALSE)
               PROVE  (Noticed(areq) \/ HasIdentity(areq, aobj.id))'
    BY <1>3 DEF AnnouncementOK, Proceed
  <2>1. areq' = areq /\ aobj'.id = adraft.jwt.sub
    BY <1>1 DEF Proceed, AccountObject
  <2>2. CASE Put("account", o, adraft, held)
    <3>1. current'["cache"] = (IF o[1] \notin Lag THEN current["cache"] ELSE current["cache"] \ {o})
          /\ due' = (IF o[1] \in Lag THEN due ELSE due \cup Watchers(o))
      BY <1>1, <2>2 DEF Put, Holders, TypeOK, ClusterTypeOK
    <3> QED
      BY <1>1, <2>1, <3>1, WatchedByAccount DEF Noticed, EventPending
  <2>3. CASE UNCHANGED store /\ adraft = store[o] /\ Exists(o)
    <3>1. adraft # Absent /\ apc = "update"
      BY <1>1, <2>3 DEF Exists, StoreAccountSecret, Create, Send, GiveUp, Proceed
    <3>2. adraft.seed # NoKey
      BY <2>3, <3>1 DEF AttentionInv, NewJWT
    <3>3. adraft.jwt.sub = adraft.seed
      BY <3>1, <3>2 DEF AttentionInv, DraftMatches, Matching
    <3> QED
      BY <2>1, <2>3, <3>3 DEF HasIdentity, Exists
  <2>4. \/ Put("account", o, adraft, held)
        \/ UNCHANGED store /\ adraft = store[o] /\ adraft # Absent
    <3>1. adraft # Absent
      BY <1>1, AccountKinds, AbsentAssumption
    <3> QED
      BY <3>1 DEF StoreAccountSecret, Create, Update, Send, GiveUp, Proceed
  <2> QED
    BY <2>2, <2>3, <2>4 DEF Exists
<1>9. MismatchNoticed'
  <2>1. areq' = areq
    BY <1>3 DEF Proceed
  <2> QED
    BY <1>1, <1>4, <2>1, AttentionFollows DEF AttentionInv
<1> QED
  BY <1>6, <1>7, <1>8, <1>9

(* Reconcile saves the status: it retries, or the status is what was       *)
(* stored already, or the save is an event.                                *)
LEMMA SaveAccountStatusAttends ==
  ASSUME AttentionInv, SaveAccountStatus
  PROVE  /\ SecretsMatch' /\ DraftMatches' /\ NewJWT'
         /\ AnnouncementOK' /\ MismatchNoticed'
<1> DEFINE o == Account(areq)
           saved == [store[o] EXCEPT !.id = aobj.id, !.ready = aobj.ready, !.observed = aobj.observed]
<1>1. /\ TypeOK /\ CacheOK /\ apc = "status" /\ areq \in Accounts /\ o \in Objects
      /\ aobj \in AccountObject /\ UNCHANGED process
      /\ Exists(o) => store[o] \in AccountObject
  BY AccountInHand DEF AttentionInv, RememberInv, SaveAccountStatus, Update, Send,
                       TypeOK, ClusterTypeOK, Exists
<1>2. \E allowed : Sent("account", o, allowed, saved, {})
  BY DEF SaveAccountStatus, Update, Send, Sent
<1>3. AccountRetries \/ AccountWaits
  BY DEF SaveAccountStatus, Update, Send
<1>4. apc' = "idle"
  BY <1>3 DEF AccountRetries, AccountWaits, AccountReturns
<1>5. Noticing
  <2> HIDE DEF saved
  <2> QED
    BY <1>1, <1>2, <1>3, AccountBackoffStays, SentNoticed DEF Noticing
<1>6. \A a \in Accounts : store'[JWTSecret(a)] = store[JWTSecret(a)]
  <2> HIDE DEF saved
  <2> QED
    BY <1>1, <1>2, AccountKinds, SentHere, Distinct
<1>7. SecretsMatch'
  BY <1>6 DEF AttentionInv, SecretsMatch, Matching
<1>8. DraftMatches' /\ NewJWT' /\ AnnouncementOK'
  BY <1>4 DEF DraftMatches, NewJWT, AnnouncementOK
<1>9. \A a \in Accounts : a = areq /\ Exists(Account(a))' /\ ~Sound(a)' => Noticed(a)'
  <2> SUFFICES ASSUME NEW a \in Accounts, a = areq, Exists(Account(a))', ~Sound(a)'
               PROVE  Noticed(a)'
    OBVIOUS
  <2>1. CASE AccountRetries
    BY <1>1, <2>1, RetriesNoticed
  <2>2. CASE ~aerr /\ Put("account", Account(a), saved, {})
    <3>1. current'["cache"] = (IF Account(a)[1] \notin Lag THEN current["cache"]
                                                        ELSE current["cache"] \ {Account(a)})
          /\ due' = (IF Account(a)[1] \in Lag THEN due ELSE due \cup Watchers(Account(a)))
      BY <1>1, <2>2 DEF Put, Holders, TypeOK, ClusterTypeOK
    <3> QED
      BY <1>1, <3>1, WatchedByAccount DEF Noticed, EventPending
  <2>3. CASE ~aerr /\ UNCHANGED store /\ saved = store[Account(a)]
    <3>1. store[Account(a)].id = aobj.id
      BY <1>1, <2>3 DEF Exists, AccountObject
    <3>2. Noticed(a) \/ HasIdentity(a, aobj.id)
      BY <1>1, <2>3 DEF AttentionInv, AnnouncementOK
    <3> QED
      BY <1>5, <2>3, <3>1, <3>2 DEF Noticing, HasIdentity, Sound, Exists
  <2> QED
    BY <2>1, <2>2, <2>3 DEF SaveAccountStatus, Update, Send
<1>10. MismatchNoticed'
  BY <1>1, <1>5, <1>9, AttentionFollows DEF AttentionInv
<1> QED
  BY <1>7, <1>8, <1>10

(* What Reconcile reads: it is going to announce the ID of the secret it   *)
(* saw, or an event for that secret is still to come.                      *)
LEMMA ReadsAttend ==
  ASSUME AttentionInv, TypeOK',
         RejectAccount \/ SkipAccount \/ SignAccount(FreshAccountKeys, FreshOperatorKeys)
  PROVE  /\ SecretsMatch' /\ DraftMatches' /\ NewJWT'
         /\ AnnouncementOK' /\ MismatchNoticed'
<1> DEFINE o == JWTSecret(areq)
<1>1. /\ TypeOK /\ CacheOK /\ apc = "read" /\ areq \in Accounts /\ o \in Objects
      /\ UNCHANGED <<store, cache, due, process, timer>> /\ areq' = areq
      /\ \E held, objs : Got("account", held, objs)
  BY AccountInHand DEF AttentionInv, RememberInv, RejectAccount, SkipAccount, SignAccount,
                       AccountReads, GiveUp, Proceed
<1>2. Noticing
  BY <1>1, QuietNoticed DEF Noticing
<1>3. SecretsMatch'
  BY <1>1 DEF AttentionInv, SecretsMatch, Matching
<1>4. MismatchNoticed'
  BY <1>1, <1>2, AttentionFollows DEF AttentionInv
<1>5. ASSUME RejectAccount
      PROVE  DraftMatches' /\ NewJWT' /\ AnnouncementOK'
  BY <1>5 DEF RejectAccount, GiveUp, Proceed, DraftMatches, NewJWT, AnnouncementOK
<1>6. ASSUME SkipAccount
      PROVE  DraftMatches' /\ NewJWT' /\ AnnouncementOK'
  <2>1. /\ MatchesStatus(aobj, Cached(o)) /\ aobj' = Succeeded(aobj)
        /\ apc' = "status" /\ aobj \in AccountObject
    BY <1>1, <1>6, AccountInHand DEF SkipAccount, Proceed
  <2>2. aobj'.id = aobj.id
    BY <2>1 DEF Succeeded, AccountObject
  <2>3. EventPending(o) \/ HasIdentity(areq, aobj.id)
    <3>1. EventPending(o) \/ Cached(o) = store[o]
      BY <1>1 DEF CacheOK, Cached, EventPending
    <3> QED
      BY <1>1, <2>1, <3>1
         DEF MatchesStatus, AttentionInv, SecretsMatch, Matching, HasIdentity, Exists
  <2>4. (Noticed(areq) \/ HasIdentity(areq, aobj.id))'
    BY <1>1, <1>2, <2>2, <2>3 DEF Noticed, Noticing, HasIdentity, Exists
  <2> QED
    BY <2>1, <2>4 DEF DraftMatches, NewJWT, AnnouncementOK
<1>7. ASSUME SignAccount(FreshAccountKeys, FreshOperatorKeys)
      PROVE  DraftMatches' /\ NewJWT' /\ AnnouncementOK'
  <2>1. apc' \in {"create", "update"} /\ \E key \in FreshAccountKeys : \E owner, signer :
          adraft' = SignedSecret(aobj, owner, SeedFor(areq, key), signer, key)
    BY <1>7 DEF SignAccount, Proceed
  <2> PICK key \in FreshAccountKeys : \E owner, signer :
             adraft' = SignedSecret(aobj, owner, SeedFor(areq, key), signer, key)
    BY <2>1
  <2>2. adraft'.jwt.sub = KeyOf(adraft'.seed, key)
    BY DEF SignedSecret
  <2>3. DraftMatches'
    BY <2>2 DEF DraftMatches, Matching, KeyOf
  <2>4. Exists(o) => key # store[o].jwt.sub
    <3> SUFFICES ASSUME Exists(o)
                 PROVE  store[o].jwt.sub \in UsedAccountKeys
      BY DEF FreshAccountKeys, Fresh
    <3>1. store[o] \in AccountSecret
      BY <1>1, AccountKinds DEF Exists, TypeOK, ClusterTypeOK
    <3>2. store[o] \in Secrets(JWTSecret(areq)) /\ store[o].jwt \notin {Absent}
      BY <3>1, AbsentAssumption DEF Secrets, Exists, AccountSecret
    <3>3. store[o].jwt \in JWTsInUse
      BY <1>1, <3>2, Zenon DEF JWTsInUse
    <3> QED
      BY <3>3 DEF UsedAccountKeys
  <2>5. NewJWT'
    BY <1>1, <2>2, <2>4 DEF NewJWT, KeyOf, Exists
  <2> QED
    BY <2>1, <2>3, <2>5 DEF AnnouncementOK
<1> QED
  BY <1>3, <1>4, <1>5, <1>6, <1>7

(* The request leaves the queue: it is now in hand, or the informer, which *)
(* has no object, is still to be told.                                     *)
LEMMA FetchAccountAttends ==
  ASSUME AttentionInv, NEW b \in Accounts, FetchAccount(b)
  PROVE  /\ SecretsMatch' /\ DraftMatches' /\ NewJWT'
         /\ AnnouncementOK' /\ MismatchNoticed'
<1>1. /\ TypeOK /\ CacheOK /\ areq = Absent
      /\ UNCHANGED <<store, timer, process>> /\ due' = due \ {Account(b)}
      /\ process = "running" /\ Account(b) \in Objects
  BY AccountKinds DEF AttentionInv, RememberInv, FetchAccount
<1>2. current'["cache"] = current["cache"]
  BY <1>1 DEF FetchAccount, Got, TypeOK, ClusterTypeOK, Holders
<1>3. apc' \in {"idle", "release", "untrigger", "read", "finalize"}
  BY DEF FetchAccount
<1>4. SecretsMatch'
  BY <1>1 DEF AttentionInv, SecretsMatch, Matching
<1>5. \A a \in Accounts : a # b /\ Noticed(a) => Noticed(a)'
  BY <1>1, <1>2, Distinct DEF Noticed, EventPending
<1>6. areq' = b \/ ~Exists(Account(b)) \/ Noticed(b)'
  <2>1. CASE Cached(Account(b)) = Absent
    BY <1>1, <1>2, <2>1 DEF CacheOK, Cached, Exists, Noticed, EventPending
  <2> QED
    BY <2>1 DEF FetchAccount
<1>7. MismatchNoticed'
  <2> SUFFICES ASSUME NEW a \in Accounts, Exists(Account(a)), ~Sound(a)
               PROVE  areq' = a \/ Noticed(a)'
    BY <1>1 DEF MismatchNoticed, Exists, Sound
  <2>1. Noticed(a)
    BY <1>1, AbsentAssumption DEF AttentionInv, MismatchNoticed
  <2> QED
    BY <1>5, <1>6, <2>1
<1> QED
  BY <1>3, <1>4, <1>7 DEF DraftMatches, NewJWT, AnnouncementOK

LEMMA AccountStepAttends ==
  ASSUME AttentionInv, AccountStep, TypeOK'
  PROVE  /\ SecretsMatch' /\ DraftMatches' /\ NewJWT'
         /\ AnnouncementOK' /\ MismatchNoticed'
<1>1. TypeOK /\ AuthConfig \in Objects /\ (apc # "idle" => areq \in Accounts /\ Account(areq) \in Objects)
  BY AccountInHand, ConfigKinds DEF AttentionInv, RememberInv
<1>2. \A a \in Accounts : AuthConfig # JWTSecret(a) /\ \A b \in Accounts : Account(b) # JWTSecret(a)
  BY Distinct
<1>3. ASSUME FinalizeAccount
      PROVE  /\ SecretsMatch' /\ DraftMatches' /\ NewJWT'
             /\ AnnouncementOK' /\ MismatchNoticed'
  <2>1. /\ apc # "idle" /\ UNCHANGED process
        /\ \E allowed, v, held : Sent("account", Account(areq), allowed, v, held)
        /\ Proceed("read", aobj', Absent, Absent, FALSE) \/ AccountRetries
    BY <1>3 DEF FinalizeAccount, Update, Send, Sent, Proceed
  <2> QED
    BY <1>1, <1>2, <2>1, AccountWriteAttends
<1>4. ASSUME UntriggerConfig
      PROVE  /\ SecretsMatch' /\ DraftMatches' /\ NewJWT'
             /\ AnnouncementOK' /\ MismatchNoticed'
  <2>1. /\ apc # "idle" /\ UNCHANGED process
        /\ \E allowed, v, held : Sent("account", AuthConfig, allowed, v, held)
        /\ Proceed("release", aobj', Absent, Absent, FALSE)
    BY <1>4 DEF UntriggerConfig, Update, Send, Sent, Proceed
  <2> QED
    BY <1>1, <1>2, <2>1, AccountWriteAttends
<1>5. ASSUME TriggerConfig
      PROVE  /\ SecretsMatch' /\ DraftMatches' /\ NewJWT'
             /\ AnnouncementOK' /\ MismatchNoticed'
  <2>1. apc = "trigger" /\ aobj \in AccountObject /\ UNCHANGED process
    BY <1>5, <1>1, AccountInHand DEF TriggerConfig, Update, Send
  <2>2. Succeeded(aobj).id = aobj.id
    BY <2>1 DEF Succeeded, AccountObject
  <2>3. /\ \E allowed, v, held : Sent("account", AuthConfig, allowed, v, held)
        /\ \/ Proceed("status", Succeeded(aobj), Absent, Absent, FALSE)
           \/ Proceed("status", Failed(aobj), Absent, Absent, TRUE)
    BY <1>5 DEF TriggerConfig, Update, Send, Sent, GiveUp
  <2>4. \/ Proceed("status", aobj', Absent, Absent, TRUE)
        \/ aobj'.id = aobj.id /\ Proceed("status", aobj', Absent, Absent, FALSE)
    BY <2>2, <2>3 DEF Proceed
  <2> QED
    BY <1>1, <1>2, <2>1, <2>3, <2>4, AccountWriteAttends
<1>6. ASSUME ReleaseAccount
      PROVE  /\ SecretsMatch' /\ DraftMatches' /\ NewJWT'
             /\ AnnouncementOK' /\ MismatchNoticed'
  <2>1. /\ apc # "idle" /\ UNCHANGED process
        /\ \E allowed, held : Sent("account", Account(areq), allowed, Absent, held)
    BY <1>6 DEF ReleaseAccount, Update, Send, Sent
  <2>2. AccountRetries \/ (AccountForgets /\ store'[Account(areq)] = Absent)
    <3>1. AccountRetries \/ (AccountForgets /\ store' = [store EXCEPT ![Account(areq)] = Absent])
      BY <1>6 DEF ReleaseAccount, Update, Send, Put, Exists
    <3> QED
      BY <1>1, <2>1, <3>1 DEF TypeOK, ClusterTypeOK
  <2> QED
    BY <1>1, <1>2, <2>1, <2>2, AccountWriteAttends
<1>7. ASSUME PanicOnAccount
      PROVE  /\ SecretsMatch' /\ DraftMatches' /\ NewJWT'
             /\ AnnouncementOK' /\ MismatchNoticed'
  <2>1. UNCHANGED <<store, due, current, timer, accountWorker>> /\ process' = "panicked"
    BY <1>7 DEF PanicOnAccount, AccountReads
  <2>2. Noticing
    BY <1>1, <2>1, QuietNoticed DEF Noticing
  <2> QED
    BY <2>1, <2>2, OthersAttend
<1>8. AttentionInv /\ (StoreAccountSecret \/ SaveAccountStatus) =>
        /\ SecretsMatch' /\ DraftMatches' /\ NewJWT'
        /\ AnnouncementOK' /\ MismatchNoticed'
  BY StoreAccountSecretAttends, SaveAccountStatusAttends
<1> QED
  BY <1>3, <1>4, <1>5, <1>6, <1>7, <1>8, FetchAccountAttends, ReadsAttend
     DEF AccountStep, AccountReconcile

LEMMA InitAttends == Init => AttentionInv
<1> SUFFICES ASSUME Init
             PROVE  AttentionInv
  OBVIOUS
<1>1. RememberInv /\ apc = "idle"
  BY InitRemembers DEF Init, AccountIdle
<1>2. \A a \in Accounts : ~Exists(JWTSecret(a))
  BY AccountKinds DEF Init, ClusterInit, JWTSecret, Exists
<1>3. SecretsMatch /\ DraftMatches /\ NewJWT /\ AnnouncementOK
  BY <1>1, <1>2 DEF SecretsMatch, Matching, DraftMatches, NewJWT, AnnouncementOK, Exists
<1>4. \A a \in Accounts : Exists(Account(a)) => Noticed(a)
  <2> SUFFICES ASSUME NEW a \in Accounts, Exists(Account(a))
               PROVE  Account(a) \in due \/ EventPending(Account(a))
    BY DEF Noticed
  <2>1. CASE Account(a)[1] \in Lag
    <3>1. current["cache"] = {o \in Objects : o[1] \in Lag => store[o] = Absent}
      BY DEF Init, ClusterInit, Holders
    <3> QED
      BY <2>1, <3>1 DEF EventPending, Exists
  <2>2. CASE Account(a)[1] \notin Lag
    BY <2>2, AccountKinds DEF Init, ClusterInit
  <2> QED
    BY <2>1, <2>2
<1>5. MismatchNoticed
  BY <1>4 DEF MismatchNoticed
<1> QED
  BY <1>1, <1>3, <1>5 DEF AttentionInv

LEMMA NextAttends == AttentionInv /\ [Next]_vars => AttentionInv'
<1> SUFFICES ASSUME AttentionInv, [Next]_vars
             PROVE  AttentionInv'
  OBVIOUS
<1>1. RememberInv' /\ TypeOK'
  BY NextRemembers DEF AttentionInv, RememberInv
<1>2. ASSUME UNCHANGED vars
      PROVE  /\ SecretsMatch' /\ DraftMatches' /\ NewJWT'
             /\ AnnouncementOK' /\ MismatchNoticed'
  <2>1. UNCHANGED <<store, due, current, timer, process, accountWorker>>
    BY <1>2 DEF vars, cluster
  <2>2. Noticing
    BY <2>1, QuietNoticed DEF AttentionInv, RememberInv, Noticing
  <2> QED
    BY <2>1, <2>2, OthersAttend
<1>3. /\ SecretsMatch' /\ DraftMatches' /\ NewJWT'
      /\ AnnouncementOK' /\ MismatchNoticed'
  BY <1>1, <1>2, AccountStepAttends, ConfigStepAttends, RestartAttends, ClusterStepAttends DEF Next
<1> QED
  BY <1>1, <1>3 DEF AttentionInv

(* An account whose announced ID is not the one in its secret is always    *)
(* attended to before the five-minute timer, whatever informers lag,       *)
(* whatever answers are lost, and whatever users edit or delete.           *)
THEOREM MismatchIsAttended == Spec => []MismatchAttended
<1>1. AttentionInv => MismatchAttended
  <2> SUFFICES ASSUME AttentionInv, process = "running",
                      NEW a \in Accounts, Exists(Account(a)), ~Sound(a)
               PROVE  areq = a \/ Noticed(a)
    BY DEF MismatchAttended, Attended, Noticed, AttentionInv, RememberInv, TypeOK, ClusterTypeOK
  <2> QED
    BY DEF AttentionInv, MismatchNoticed
<1> QED
  BY <1>1, InitAttends, NextAttends, PTL DEF Spec

=============================================================================
