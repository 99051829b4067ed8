----------------------------- MODULE UserTypes -----------------------------
(***************************************************************************)
(* The operator with its users: what holds of NatsAuthOperator still holds *)
(* (FullSpec => Spec), and the user controller keeps its types.            *)
(***************************************************************************)
EXTENDS UserProperties, IdentityProofs

-----------------------------------------------------------------------------
(* Superposition.                                                          *)

LEMMA FullNextIsNext == [FullNext]_userOperatorVars => [Next]_vars
<1>1. OperatorStep => Next
  BY DEF OperatorStep, Next
<1>2. FullRestart => Next
  BY DEF FullRestart, Next
<1>3. UserStep \/ UserClusterStep => UNCHANGED vars
  BY DEF UserStep, UserClusterStep
<1>4. UNCHANGED userOperatorVars => UNCHANGED vars
  BY DEF userOperatorVars
<1> QED
  BY <1>1, <1>2, <1>3, <1>4 DEF FullNext

(* The user controller writes nothing the other two controllers read: what *)
(* is proved of Spec holds of the whole operator (natsuser_controller.go   *)
(* updates NatsUser objects and their credentials only).                   *)
THEOREM UsersChangeNothing == FullSpec => Spec
<1>1. FullInit => Init
  BY DEF FullInit
<1> QED
  BY <1>1, FullNextIsNext, PTL DEF FullSpec, Spec

-----------------------------------------------------------------------------
(* The users' objects and what may be stored under them.                   *)

LEMMA UserKinds ==
  \A u \in Users :
    /\ User(u) \in UserObjects /\ UserContent(User(u)) = UserObject
    /\ Credentials(u) \in UserObjects /\ UserContent(Credentials(u)) = UserCredentials
    /\ UserSeed(u) \in UserObjects /\ UserContent(UserSeed(u)) = [seed : UserSeeds]
    /\ PasswordOf(u) \in UserObjects /\ UserContent(PasswordOf(u)) = [password : Strings]
    /\ User(u) \in UserRequests
BY DEF User, Credentials, UserSeed, PasswordOf, UserObjects, UserRequests, UserContent

LEMMA NoAbsentUser ==
  ASSUME NEW u \in Users
  PROVE  Absent \notin UserObject /\ Absent \notin UserCredentials
BY UserKinds, UserAbsentAssumption

LEMMA UserWatchersAreRequests == \A o \in UserObjects : UserWatchers(o) \subseteq UserRequests
BY DEF UserWatchers, UserObjects, UserRequests, User, Credentials, UserSeed, PasswordOf

(* The type invariant, in two parts.                                       *)
UserClusterTypeOK ==
  /\ DOMAIN ustore = UserObjects /\ DOMAIN ucache = UserObjects
  /\ \A o \in UserObjects : ustore[o] \in UserContent(o) \cup {Absent}
  /\ \A o \in UserObjects : ucache[o] \in UserContent(o) \cup {Absent}
  /\ ucurrent \in [UserHolders -> SUBSET UserObjects]
  /\ udue \subseteq UserRequests
  /\ utimer \in [UserRequests -> Timers]
  /\ ubudget \in 0..UserBudget
UserWorkerTypeOK ==
  /\ upc \in UserSteps
  /\ ureq \in Users \cup {Absent}
  /\ uobj \in UserObject \cup {Absent}
  /\ ukey \in KeyPairs \cup {Absent}
  /\ udraft \in UserCredentials \cup {Absent}
  /\ uerr \in BOOLEAN
  /\ upc # "idle" => ureq \in Users /\ uobj \in UserObject
  /\ upc = "sign" => ukey # Absent /\ uobj.spec.account \in Accounts
  /\ upc \in {"create", "update"} => udraft # Absent

LEMMA UserTypeParts == UserTypeOK <=> UserClusterTypeOK /\ UserWorkerTypeOK
BY DEF UserTypeOK, UserClusterTypeOK, UserWorkerTypeOK

LEMMA UserCachedType ==
  ASSUME UserClusterTypeOK, NEW o \in UserObjects
  PROVE  U!Cached(o) \in UserContent(o) \cup {Absent}
BY DEF UserClusterTypeOK, U!Cached

LEMMA UserInHand ==
  ASSUME UserWorkerTypeOK, upc # "idle"
  PROVE  /\ ureq \in Users /\ uobj \in UserObject
         /\ User(ureq) \in UserObjects /\ UserContent(User(ureq)) = UserObject
         /\ Credentials(ureq) \in UserObjects
         /\ UserContent(Credentials(ureq)) = UserCredentials
         /\ User(ureq) \in UserRequests
BY UserKinds DEF UserWorkerTypeOK

-----------------------------------------------------------------------------
(* Writes and reads, as in OperatorTypes.                                  *)
UserStoreTypeOK ==
  /\ DOMAIN ustore = UserObjects
  /\ \A o \in UserObjects : ustore[o] \in UserContent(o) \cup {Absent}
  /\ ucurrent \in [UserHolders -> SUBSET UserObjects]
  /\ udue \subseteq UserRequests

LEMMA UserPutType ==
  ASSUME UserClusterTypeOK, NEW h, NEW o \in UserObjects, NEW v \in UserContent(o) \cup {Absent},
         NEW held, U!Put(h, o, v, held)
  PROVE  UserStoreTypeOK'
BY UserWatchersAreRequests DEF UserClusterTypeOK, UserStoreTypeOK, U!Put, UserHolders

LEMMA UserReadType ==
  ASSUME UserClusterTypeOK, UNCHANGED <<ustore, ucache, ubudget>>, udue' \subseteq udue,
         NEW held, NEW objs \in SUBSET UserObjects, U!Got("worker", held, objs),
         utimer' \in [UserRequests -> Timers]
  PROVE  UserClusterTypeOK'
BY DEF UserClusterTypeOK, UserHolders, U!Got

(* What a write the worker sends can do, whatever the answer.              *)
UserSent(o, allowed, v, held) ==
  /\ UNCHANGED <<ucache, process>>
  /\ \/ allowed /\ (U!Put("worker", o, v, held) \/ U!Put("worker", o, v, held \ {o}))
     \/ UNCHANGED <<ustore, udue>> /\ ucurrent' = [ucurrent EXCEPT !["worker"] = @ \cap held]
  /\ ubudget' = ubudget \/ U!Disturb("fault")

LEMMA UserSentType ==
  ASSUME UserClusterTypeOK, NEW o \in UserObjects, NEW allowed, NEW held,
         NEW v, allowed => v \in UserContent(o) \cup {Absent},
         UserSent(o, allowed, v, held), utimer' \in [UserRequests -> Timers]
  PROVE  UserClusterTypeOK'
<1>1. ubudget' \in 0..UserBudget
  BY UserSpecAssumption DEF UserClusterTypeOK, UserSent, U!Disturb
<1>2. UserStoreTypeOK'
  <2>1. CASE allowed /\ (U!Put("worker", o, v, held) \/ U!Put("worker", o, v, held \ {o}))
    BY <2>1, UserPutType
  <2>2. CASE UNCHANGED <<ustore, udue>> /\ ucurrent' = [ucurrent EXCEPT !["worker"] = @ \cap held]
    BY <2>2 DEF UserClusterTypeOK, UserStoreTypeOK, UserHolders
  <2> QED
    BY <2>1, <2>2 DEF UserSent
<1> QED
  BY <1>1, <1>2 DEF UserClusterTypeOK, UserStoreTypeOK, UserSent

-----------------------------------------------------------------------------
(* The user controller.                                                    *)

(* How a step of Reconcile may end.                                        *)
UserEnds ==
  \/ \E pc \in {"read", "status"}, obj \in UserObject, err \in BOOLEAN :
       UserProceeds(pc, obj, Absent, Absent, err)
  \/ \E key \in KeyPairs : uobj.spec.account \in Accounts /\ UserProceeds("sign", uobj, key, Absent, FALSE)
  \/ \E pc \in {"create", "update"}, key \in KeyPairs \cup {Absent}, draft \in UserCredentials :
       UserProceeds(pc, uobj, key, draft, FALSE)
  \/ UserForgets
  \/ UserRetries
  \/ UserWaits

LEMMA UserReturnsType == UserReturns => UserWorkerTypeOK'
BY DEF UserWorkerTypeOK, UserSteps, UserReturns

LEMMA UserEndsType ==
  ASSUME UserTypeOK, upc # "idle", UserEnds
  PROVE  UserWorkerTypeOK' /\ utimer' \in [UserRequests -> Timers]
<1>1. UserClusterTypeOK /\ UserWorkerTypeOK /\ ureq \in Users /\ User(ureq) \in UserRequests
      /\ uobj \in UserObject
  BY UserTypeParts, UserInHand
<1>2. utimer' \in [UserRequests -> Timers]
  BY <1>1 DEF UserClusterTypeOK, UserEnds, UserProceeds, UserForgets, UserRetries, UserWaits,
              U!Backoff, U!RequeueAfter, Timers
<1>3. CASE UserForgets \/ UserRetries \/ UserWaits
  BY <1>2, <1>3, UserReturnsType DEF UserForgets, UserRetries, UserWaits
<1>4. ASSUME NEW pc \in {"read", "status"}, NEW obj \in UserObject, NEW err \in BOOLEAN,
             UserProceeds(pc, obj, Absent, Absent, err)
      PROVE  UserWorkerTypeOK'
  BY <1>1, <1>4 DEF UserWorkerTypeOK, UserSteps, UserProceeds
<1>5. ASSUME NEW key \in KeyPairs, uobj.spec.account \in Accounts,
             UserProceeds("sign", uobj, key, Absent, FALSE)
      PROVE  UserWorkerTypeOK'
  <2>1. key # Absent
    BY <1>5, UserAbsentAssumption
  <2> QED
    BY <1>1, <1>5, <2>1 DEF UserWorkerTypeOK, UserSteps, UserProceeds
<1>6. ASSUME NEW pc \in {"create", "update"}, NEW key \in KeyPairs \cup {Absent},
             NEW draft \in UserCredentials, UserProceeds(pc, uobj, key, draft, FALSE)
      PROVE  UserWorkerTypeOK'
  <2>1. draft # Absent
    BY <1>1, <1>6, NoAbsentUser
  <2> QED
    BY <1>1, <1>6, <2>1 DEF UserWorkerTypeOK, UserSteps, UserProceeds
<1> QED
  BY <1>2, <1>3, <1>4, <1>5, <1>6 DEF UserEnds

LEMMA VerdictType ==
  ASSUME NEW obj \in UserObject
  PROVE  /\ FailedUser(obj) \in UserObject /\ ServedUser(obj) \in UserObject
         /\ [obj EXCEPT !.fin = TRUE] \in UserObject
         /\ [obj EXCEPT !.state = "Error"] \in UserObject
BY DEF UserObject, FailedUser, ServedUser

LEMMA FetchUserType ==
  ASSUME UserTypeOK, NEW u \in Users, FetchUser(u)
  PROVE  UserClusterTypeOK' /\ UserWorkerTypeOK'
<1> DEFINE obj == U!Cached(User(u))
<1>1. UserClusterTypeOK /\ UserWorkerTypeOK /\ upc = "idle"
  BY UserTypeParts DEF FetchUser
<1>2. obj \in UserObject \cup {Absent} /\ {User(u)} \subseteq UserObjects
  BY <1>1, UserKinds, UserCachedType
<1>3. /\ udue' \subseteq udue
      /\ UNCHANGED <<ustore, ucache, utimer, ubudget, process, ukey, udraft, uerr>>
  BY DEF FetchUser
<1> HIDE DEF obj
<1>4. CASE obj = Absent /\ UNCHANGED <<ucurrent, upc, ureq, uobj>>
  BY <1>1, <1>3, <1>4 DEF UserClusterTypeOK, UserWorkerTypeOK
<1>5. CASE /\ obj # Absent
           /\ ureq' = u /\ uobj' = obj
           /\ upc' = IF obj.deleting THEN "release" ELSE IF obj.fin THEN "read" ELSE "finalize"
           /\ U!Got("worker", {}, {User(u)})
  <2>1. UserClusterTypeOK'
    BY <1>1, <1>2, <1>3, <1>5, UserReadType DEF UserClusterTypeOK
  <2>2. UserWorkerTypeOK'
    BY <1>1, <1>2, <1>3, <1>5 DEF UserWorkerTypeOK, UserSteps
  <2> QED
    BY <2>1, <2>2
<1> QED
  BY <1>4, <1>5 DEF FetchUser, obj

LEMMA FinalizeUserType ==
  ASSUME UserTypeOK, FinalizeUser
  PROVE  UserClusterTypeOK' /\ UserWorkerTypeOK'
<1> DEFINE obj == [uobj EXCEPT !.fin = TRUE]
<1>1. UserClusterTypeOK /\ UserWorkerTypeOK /\ upc = "finalize"
  BY UserTypeParts DEF FinalizeUser
<1>2. obj \in UserObject
  BY <1>1, UserInHand, VerdictType
<1>3. \E allowed : UserSent(User(ureq), allowed, obj, {User(ureq)})
  BY DEF FinalizeUser, U!Update, U!Send, UserSent
<1>4. UserProceeds("read", obj, Absent, Absent, FALSE) \/ UserRetries
  BY DEF FinalizeUser, U!Update, U!Send
<1> HIDE DEF obj
<1>5. UserEnds
  BY <1>2, <1>4 DEF UserEnds
<1> QED
  BY <1>1, <1>2, <1>3, <1>5, UserInHand, UserEndsType, UserSentType

(* The branches of Reconcile that end in a verdict.                        *)
LEMMA DecideUserType ==
  ASSUME UserTypeOK, MissConfig \/ RejectUser \/ SkipUser
  PROVE  UserClusterTypeOK' /\ UserWorkerTypeOK'
<1>1. /\ upc = "read" /\ UNCHANGED <<ustore, ucache, udue, ubudget, process>>
      /\ U!Got("worker", {User(ureq)}, {})
  BY DEF MissConfig, RejectUser, SkipUser, UserReadsMode, UserReads
<1>2. UserClusterTypeOK /\ UserWorkerTypeOK /\ uobj \in UserObject
  BY <1>1, UserTypeParts, UserInHand
<1>3. \E obj \in UserObject, err \in BOOLEAN : UserProceeds("status", obj, Absent, Absent, err)
  <2>1. CASE MissConfig
    <3> DEFINE obj == [uobj EXCEPT !.state = "Error"]
    <3>1. obj \in UserObject
      BY <1>2, VerdictType
    <3>2. UserProceeds("status", obj, Absent, Absent, TRUE)
      BY <2>1 DEF MissConfig
    <3> HIDE DEF obj
    <3> QED
      BY <3>1, <3>2
  <2>2. CASE RejectUser
    BY <1>2, <2>2, VerdictType DEF RejectUser, UserFails
  <2>3. CASE SkipUser
    BY <1>2, <2>3, VerdictType DEF SkipUser, UserServed
  <2> QED
    BY <2>1, <2>2, <2>3
<1>4. UserEnds
  BY <1>3 DEF UserEnds
<1> QED
  BY <1>1, <1>2, <1>4, UserEndsType, UserReadType

(* A key pair is chosen: the account exists, and so does an imported seed. *)
LEMMA ChooseUserKeyType ==
  ASSUME UserTypeOK, NEW keys \in SUBSET UserKeys, ChooseUserKey(keys)
  PROVE  UserClusterTypeOK' /\ UserWorkerTypeOK'
<1>1. upc = "read" /\ UNCHANGED <<ustore, ucache, udue, ubudget, process>>
  BY DEF ChooseUserKey, UserReadsMode, UserReads
<1>2. UserClusterTypeOK /\ UserWorkerTypeOK /\ uobj \in UserObject /\ ureq \in Users
  BY <1>1, UserTypeParts, UserInHand
<1>3. uobj.spec.account \in Accounts
  BY <1>2, UserSpecAssumption DEF ChooseUserKey, AccountReady, UserObject
<1>4. PICK key \in keys :
        UserProceeds("sign", uobj, KeyPairFor(ureq, uobj.spec, key), Absent, FALSE)
  BY DEF ChooseUserKey
<1>5. KeyPairFor(ureq, uobj.spec, key) \in KeyPairs
  <2>1. U!Cached(UserSeed(ureq)) \in [seed : UserSeeds] \cup {Absent}
    BY <1>2, UserKinds, UserCachedType
  <2>2. uobj.spec.import => U!Cached(UserSeed(ureq)) # Absent
    BY DEF ChooseUserKey, UserSeedMissing
  <2>3. (IF uobj.spec.import THEN U!Cached(UserSeed(ureq)).seed ELSE key) \in UserSeeds
    BY <2>1, <2>2 DEF UserSeeds
  <2> QED
    BY <2>3 DEF KeyPairFor, KeyPairs, KeyOf, UserSeeds
<1>6. UserEnds
  BY <1>3, <1>4, <1>5 DEF UserEnds
<1>7. UserWorkerTypeOK' /\ utimer' \in [UserRequests -> Timers]
  BY <1>1, <1>6, UserEndsType
<1>8. ucurrent' \in [UserHolders -> SUBSET UserObjects]
  <2>1. Credentials(ureq) \in UserObjects
    BY <1>2, UserKinds
  <2> QED
    BY <1>2, <2>1 DEF ChooseUserKey, UserClusterTypeOK, UserHolders
<1> QED
  BY <1>1, <1>2, <1>7, <1>8 DEF UserClusterTypeOK

(* What is drafted is a proper secret.                                     *)
LEMMA DraftType ==
  ASSUME uobj \in UserObject, NEW secret \in UserCredentials \cup {Absent}
  PROVE  /\ \A jwt \in UserJWT : DraftJWT(jwt, secret) \in UserCredentials
         /\ \A token \in UserToken : DraftToken(token, secret) \in UserCredentials
BY DEF DraftJWT, DraftToken, UserCredentials, UserObject

LEMMA SignedJWTType ==
  ASSUME TypeOK, UserWorkerTypeOK, upc = "sign", Cached(JWTSecret(uobj.spec.account)) # Absent
  PROVE  JWTFor(uobj, ukey, Cached(JWTSecret(uobj.spec.account)).seed) \in UserJWT
<1>1. ukey \in KeyPairs /\ uobj.spec.account \in Accounts /\ uobj \in UserObject
  BY UserInHand DEF UserWorkerTypeOK
<1>2. Cached(JWTSecret(uobj.spec.account)).seed \in Seeds
  <2>1. Cached(JWTSecret(uobj.spec.account)) \in AccountSecret \cup {Absent}
    BY <1>1, AccountKinds, CachedType DEF TypeOK
  <2> QED
    BY <2>1 DEF AccountSecret
<1>3. uobj.spec.perms \in Permissions
  BY <1>1, UserSpecAssumption DEF UserObject
<1> QED
  BY <1>1, <1>2, <1>3 DEF JWTFor, UserJWT, KeyPairs

LEMMA SignUserType ==
  ASSUME TypeOK, UserTypeOK, SignUser
  PROVE  UserClusterTypeOK' /\ UserWorkerTypeOK'
<1> DEFINE signer == Cached(JWTSecret(uobj.spec.account))
           secret == U!Cached(Credentials(ureq))
           draft  == DraftJWT(JWTFor(uobj, ukey, signer.seed), secret)
<1>1. upc = "sign" /\ UNCHANGED <<ustore, ucache, udue, ubudget, process>>
  BY DEF SignUser
<1>2. /\ UserClusterTypeOK /\ UserWorkerTypeOK /\ uobj \in UserObject
      /\ User(ureq) \in UserObjects /\ Credentials(ureq) \in UserObjects
      /\ UserContent(Credentials(ureq)) = UserCredentials
  BY <1>1, UserTypeParts, UserInHand
<1>3. ukey \in KeyPairs /\ uobj.spec.account \in Accounts
  BY <1>1, <1>2 DEF UserWorkerTypeOK
<1>4. secret \in UserCredentials \cup {Absent}
  BY <1>2, UserCachedType
<1>5. signer \in AccountSecret \cup {Absent}
  BY <1>3, AccountKinds, CachedType DEF TypeOK
<1>6. CASE signer = Absent /\ UserFails(uobj) /\ U!Got("worker", {User(ureq)}, {})
  <2>1. UserEnds
    BY <1>2, <1>6, VerdictType DEF UserFails, UserEnds
  <2> QED
    BY <1>1, <1>2, <1>6, <2>1, UserEndsType, UserReadType
<1>7. CASE /\ signer # Absent
           /\ UserProceeds(StepFor(secret), uobj, ukey, draft, FALSE)
           /\ U!Got("worker", {User(ureq)}, {Credentials(ureq)})
  <2>1. JWTFor(uobj, ukey, signer.seed) \in UserJWT
    BY <1>1, <1>2, <1>7, SignedJWTType
  <2>2. draft \in UserCredentials
    BY <1>2, <1>4, <2>1, DraftType
  <2>3. StepFor(secret) \in {"create", "update"}
    BY DEF StepFor
  <2> HIDE DEF draft, secret
  <2>4. UserEnds
    BY <1>3, <1>7, <2>2, <2>3 DEF UserEnds
  <2> QED
    BY <1>1, <1>2, <1>7, <2>4, UserEndsType, UserReadType
<1> QED
  BY <1>6, <1>7 DEF SignUser

LEMMA IssuedTokenType ==
  ASSUME UserClusterTypeOK, ureq \in Users, uobj \in UserObject,
         ~PasswordMissing(ureq, uobj.spec), NEW random \in Random
  PROVE  TokenFor(ureq, uobj.spec, random) \in UserToken
<1>1. /\ uobj.spec.name \in Chosen \cup {NoKey}
      /\ uobj.spec.password \in {"generate", "secret", "neither"}
  BY UserSpecAssumption DEF UserObject
<1>2. U!Cached(PasswordOf(ureq)) \in [password : Strings] \cup {Absent}
  BY UserKinds, UserCachedType
<1>3. PasswordFor(ureq, uobj.spec, random) \in Strings
  BY <1>1, <1>2 DEF PasswordMissing, PasswordFor, Strings
<1> QED
  BY <1>1, <1>3 DEF TokenFor, UserToken, Strings

LEMMA IssueTokenType ==
  ASSUME UserTypeOK, NEW strings \in SUBSET Random, IssueToken(strings)
  PROVE  UserClusterTypeOK' /\ UserWorkerTypeOK'
<1> DEFINE secret == U!Cached(Credentials(ureq))
<1>1. /\ upc = "read" /\ UNCHANGED <<ustore, ucache, udue, ubudget, process>>
      /\ U!Got("worker", {User(ureq)}, {Credentials(ureq)})
  BY DEF IssueToken, UserReadsMode, UserReads
<1>2. /\ UserClusterTypeOK /\ UserWorkerTypeOK /\ uobj \in UserObject /\ ureq \in Users
      /\ User(ureq) \in UserObjects /\ Credentials(ureq) \in UserObjects
      /\ UserContent(Credentials(ureq)) = UserCredentials
  BY <1>1, UserTypeParts, UserInHand
<1>3. secret \in UserCredentials \cup {Absent}
  BY <1>2, UserCachedType
<1>4. PICK random \in strings :
        IF secret # Absent /\ secret.token = TokenFor(ureq, uobj.spec, random)
          THEN UserServed(uobj)
          ELSE UserProceeds(StepFor(secret), uobj, Absent,
                            DraftToken(TokenFor(ureq, uobj.spec, random), secret), FALSE)
  BY DEF IssueToken
<1> DEFINE token == TokenFor(ureq, uobj.spec, random)
           draft == DraftToken(token, secret)
<1>5. token \in UserToken
  <2>1. ~PasswordMissing(ureq, uobj.spec)
    BY DEF IssueToken
  <2> QED
    BY <1>2, <2>1, IssuedTokenType
<1>6. draft \in UserCredentials
  BY <1>2, <1>3, <1>5, DraftType
<1>7. StepFor(secret) \in {"create", "update"}
  BY DEF StepFor
<1>8. UserServed(uobj) \/ UserProceeds(StepFor(secret), uobj, Absent, draft, FALSE)
  BY <1>4
<1> HIDE DEF draft, secret
<1>9. UserEnds
  BY <1>2, <1>6, <1>7, <1>8, VerdictType DEF UserServed, UserEnds
<1> QED
  BY <1>1, <1>2, <1>9, UserEndsType, UserReadType

LEMMA StoreCredentialsType ==
  ASSUME UserTypeOK, StoreCredentials
  PROVE  UserClusterTypeOK' /\ UserWorkerTypeOK'
<1>1. upc \in {"create", "update"}
  BY DEF StoreCredentials
<1>2. /\ UserClusterTypeOK /\ UserWorkerTypeOK /\ uobj \in UserObject
      /\ User(ureq) \in UserObjects /\ Credentials(ureq) \in UserObjects
      /\ UserContent(Credentials(ureq)) = UserCredentials
  BY <1>1, UserTypeParts, UserInHand
<1>3. udraft \in UserCredentials
  BY <1>1, <1>2 DEF UserWorkerTypeOK
<1>4. WithKey(uobj) \in UserObject
  BY <1>2 DEF WithKey, UserObject, UserWorkerTypeOK, KeyPairs
<1>5. \E allowed : UserSent(Credentials(ureq), allowed, udraft, {User(ureq)})
  BY DEF StoreCredentials, U!Create, U!Update, U!Send, UserSent
<1>6. UserServed(WithKey(uobj)) \/ UserFails(uobj)
  BY DEF StoreCredentials, U!Create, U!Update, U!Send
<1>7. UserEnds
  BY <1>2, <1>4, <1>6, VerdictType DEF UserServed, UserFails, UserEnds
<1> QED
  BY <1>1, <1>2, <1>3, <1>5, <1>7, UserEndsType, UserSentType

LEMMA SaveUserStatusType ==
  ASSUME UserTypeOK, SaveUserStatus
  PROVE  UserClusterTypeOK' /\ UserWorkerTypeOK'
<1> DEFINE saved == [ustore[User(ureq)] EXCEPT !.pub = uobj.pub, !.state = uobj.state,
                       !.ready = uobj.ready, !.observed = uobj.observed]
           allowed == U!Exists(User(ureq)) /\ User(ureq) \in ucurrent["worker"]
<1>1. upc = "status"
  BY DEF SaveUserStatus
<1>2. /\ UserClusterTypeOK /\ UserWorkerTypeOK /\ uobj \in UserObject
      /\ User(ureq) \in UserObjects /\ UserContent(User(ureq)) = UserObject
  BY <1>1, UserTypeParts, UserInHand
<1>3. allowed => saved \in UserObject
  <2>1. allowed => ustore[User(ureq)] \in UserObject
    BY <1>2 DEF U!Exists, UserClusterTypeOK
  <2> QED
    BY <1>2, <2>1 DEF UserObject
<1>4. UserSent(User(ureq), allowed, saved, {})
  BY DEF SaveUserStatus, U!Update, U!Send, UserSent
<1>5. UserEnds
  BY DEF SaveUserStatus, U!Update, U!Send, UserEnds
<1> HIDE DEF saved, allowed
<1> QED
  BY <1>1, <1>2, <1>3, <1>4, <1>5, UserEndsType, UserSentType

LEMMA ReleaseUserType ==
  ASSUME UserTypeOK, ReleaseUser
  PROVE  UserClusterTypeOK' /\ UserWorkerTypeOK'
<1>1. upc = "release"
  BY DEF ReleaseUser
<1>2. UserClusterTypeOK /\ UserWorkerTypeOK /\ User(ureq) \in UserObjects
  BY <1>1, UserTypeParts, UserInHand
<1>3. \E allowed : UserSent(User(ureq), allowed, Absent, {})
  BY DEF ReleaseUser, U!Update, U!Send, UserSent
<1>4. UserEnds
  BY DEF ReleaseUser, U!Update, U!Send, UserEnds
<1> QED
  BY <1>1, <1>2, <1>3, <1>4, UserEndsType, UserSentType

LEMMA UserStepType ==
  ASSUME TypeOK, UserTypeOK, UserStep
  PROVE  UserClusterTypeOK' /\ UserWorkerTypeOK'
<1>1. FreshUserKeys \in SUBSET UserKeys /\ FreshStrings \in SUBSET Random
  BY DEF FreshUserKeys, FreshStrings, Fresh
<1>2. UserReconcile(FreshUserKeys, FreshStrings)
  BY DEF UserStep
<1>3. CASE \E u \in Users : FetchUser(u)
  BY <1>3, FetchUserType
<1>4. CASE FinalizeUser
  BY <1>4, FinalizeUserType
<1>5. CASE MissConfig \/ RejectUser \/ SkipUser
  BY <1>5, DecideUserType
<1>6. CASE ChooseUserKey(FreshUserKeys)
  BY <1>1, <1>6, ChooseUserKeyType
<1>7. CASE SignUser
  BY <1>7, SignUserType
<1>8. CASE IssueToken(FreshStrings)
  BY <1>1, <1>8, IssueTokenType
<1>9. CASE StoreCredentials
  BY <1>9, StoreCredentialsType
<1>10. CASE SaveUserStatus
  BY <1>10, SaveUserStatusType
<1>11. CASE ReleaseUser
  BY <1>11, ReleaseUserType
<1> QED
  BY <1>2, <1>3, <1>4, <1>5, <1>6, <1>7, <1>8, <1>9, <1>10, <1>11 DEF UserReconcile

-----------------------------------------------------------------------------
(* Everybody else.                                                         *)

LEMMA UserInformersType ==
  ASSUME UserClusterTypeOK, UserInformers
  PROVE  UserClusterTypeOK'
<1>1. CASE \E o \in UserObjects : U!Deliver(o)
  <2> PICK o \in UserObjects : U!Deliver(o)
    BY <1>1
  <2> QED
    BY UserWatchersAreRequests DEF UserClusterTypeOK, UserHolders, U!Deliver
<1>2. CASE \E r \in UserRequests : U!TimerFires(r)
  BY <1>2 DEF UserClusterTypeOK, U!TimerFires, Timers
<1> QED
  BY <1>1, <1>2 DEF UserInformers

LEMMA ByUserOfUsersType ==
  ASSUME UserClusterTypeOK, NEW kind, NEW o \in UserObjects,
         NEW v \in UserContent(o) \cup {Absent}, U!ByUser(kind, o, v)
  PROVE  UserClusterTypeOK'
<1>1. UserStoreTypeOK'
  BY UserPutType DEF U!ByUser
<1>2. ubudget' \in 0..UserBudget /\ UNCHANGED <<ucache, utimer>>
  BY UserSpecAssumption DEF U!ByUser, U!Disturb, UserClusterTypeOK
<1> QED
  BY <1>1, <1>2 DEF UserStoreTypeOK, UserClusterTypeOK

LEMMA WriteUserType ==
  ASSUME UserClusterTypeOK, NEW u \in Users, NEW s \in UserSpecs,
         EditUser(u, s) \/ CreateUser(u, s)
  PROVE  UserClusterTypeOK'
<1>1. User(u) \in UserObjects /\ UserContent(User(u)) = UserObject
  BY UserKinds
<1>2. CASE EditUser(u, s)
  <2> DEFINE v == [ustore[User(u)] EXCEPT !.spec = s, !.observed = FALSE]
  <2>1. ustore[User(u)] \in UserObject
    BY <1>1, <1>2 DEF EditUser, U!Exists, UserClusterTypeOK
  <2>2. v \in UserObject
    BY <2>1 DEF UserObject
  <2>3. U!ByUser("editUser", User(u), v)
    BY <1>2 DEF EditUser
  <2> HIDE DEF v
  <2> QED
    BY <1>1, <2>2, <2>3, ByUserOfUsersType
<1>3. CASE CreateUser(u, s)
  <2> DEFINE v == NewUser(ubudget', s)
  <2>1. U!ByUser("createUser", User(u), v)
    BY <1>3 DEF CreateUser
  <2>2. ubudget' \in 0..UserBudget
    BY <2>1, UserSpecAssumption DEF U!ByUser, U!Disturb, UserClusterTypeOK
  <2>3. v \in UserObject
    BY <2>2 DEF NewUser, UserObject, UserSeeds
  <2> HIDE DEF v
  <2> QED
    BY <1>1, <2>1, <2>3, ByUserOfUsersType
<1> QED
  BY <1>2, <1>3

LEMMA RemoveUserType ==
  ASSUME UserClusterTypeOK, NEW u \in Users,
         U!Delete("deleteUser", User(u)) \/ DeleteCredentials(u) \/ CollectCredentials(u)
  PROVE  UserClusterTypeOK'
<1>1. /\ User(u) \in UserObjects /\ UserContent(User(u)) = UserObject
      /\ Credentials(u) \in UserObjects
  BY UserKinds
<1>2. CASE U!Delete("deleteUser", User(u))
  <2> DEFINE v == IF ustore[User(u)].fin THEN [ustore[User(u)] EXCEPT !.deleting = TRUE] ELSE Absent
  <2>1. ustore[User(u)] \in UserObject
    BY <1>1, <1>2 DEF U!Delete, U!Exists, UserClusterTypeOK
  <2>2. v \in UserObject \cup {Absent}
    BY <2>1 DEF UserObject
  <2>3. U!ByUser("deleteUser", User(u), v)
    BY <1>2 DEF U!Delete
  <2> HIDE DEF v
  <2> QED
    BY <1>1, <2>2, <2>3, ByUserOfUsersType
<1>3. CASE DeleteCredentials(u)
  BY <1>1, <1>3, ByUserOfUsersType DEF DeleteCredentials
<1>4. CASE CollectCredentials(u)
  <2>1. UserStoreTypeOK'
    BY <1>1, <1>4, UserPutType DEF CollectCredentials
  <2> QED
    BY <1>4, <2>1 DEF CollectCredentials, UserStoreTypeOK, UserClusterTypeOK
<1> QED
  BY <1>2, <1>3, <1>4

LEMMA ChangePasswordType ==
  ASSUME UserClusterTypeOK, NEW u \in Users, NEW p \in StoredPasswords, ChangePassword(u, p)
  PROVE  UserClusterTypeOK'
<1>1. PasswordOf(u) \in UserObjects /\ UserContent(PasswordOf(u)) = [password : Strings]
  BY UserKinds
<1>2. [password |-> p] \in [password : Strings]
  BY UserSpecAssumption DEF Strings
<1> QED
  BY <1>1, <1>2, ByUserOfUsersType DEF ChangePassword

LEMMA UserClusterStepType ==
  ASSUME UserTypeOK, UserClusterStep
  PROVE  UserClusterTypeOK' /\ UserWorkerTypeOK'
<1>1. UserClusterTypeOK /\ UserWorkerTypeOK
  BY UserTypeParts
<1>2. UserWorkerTypeOK'
  BY <1>1 DEF UserClusterStep, userWorker, UserWorkerTypeOK
<1>3. UserInformers \/ UserEnvironment
  BY DEF UserClusterStep
<1>4. UserClusterTypeOK'
  BY <1>1, <1>3, UserInformersType, WriteUserType, RemoveUserType, ChangePasswordType
     DEF UserEnvironment
<1> QED
  BY <1>2, <1>4

LEMMA FullRestartType ==
  ASSUME UserTypeOK, FullRestart
  PROVE  UserClusterTypeOK' /\ UserWorkerTypeOK'
<1>1. UserClusterTypeOK
  BY UserTypeParts
<1>2. UserClusterTypeOK'
  BY <1>1, UserWatchersAreRequests
     DEF FullRestart, U!Relist, U!Exists, UserClusterTypeOK, UserHolders, Timers
<1>3. UserWorkerTypeOK'
  BY UserReturnsType DEF FullRestart
<1> QED
  BY <1>2, <1>3

LEMMA UserInitType == UserInit => UserTypeOK
<1> SUFFICES ASSUME UserInit
             PROVE  UserTypeOK
  OBVIOUS
<1>1. PICK s \in [Users -> UserSpecs], i \in [Users -> ImportableUserSeeds],
           p \in [Users -> Fresh(StoredPasswords, {})],
           later \in SUBSET (IF "createUser" \in UserDisturbances THEN Users ELSE {}) :
        ustore = [o \in UserObjects |->
          CASE o[1] = "NatsUser"      -> IF o[2] \in later THEN Absent
                                           ELSE NewUser(UserBudget, s[o[2]])
            [] o[1] = "user-seed"     -> IF \E t \in UserSpecs : t.import
                                           THEN [seed |-> i[o[2]]] ELSE Absent
            [] o[1] = "user-password" -> IF \E t \in UserSpecs : t.password = "secret"
                                           THEN [password |-> p[o[2]]] ELSE Absent
            [] OTHER                  -> Absent]
  BY DEF UserInit
<1>2. \A u \in Users : NewUser(UserBudget, s[u]) \in UserObject
  BY UserSpecAssumption DEF NewUser, UserObject, UserSeeds
<1>3. \A u \in Users : [seed |-> i[u]] \in [seed : UserSeeds]
  BY UserSpecAssumption
<1>4. \A u \in Users : [password |-> p[u]] \in [password : Strings]
  BY UserSpecAssumption DEF Fresh, Strings
<1>5. \A o \in UserObjects : ustore[o] \in UserContent(o) \cup {Absent}
  <2> SUFFICES ASSUME NEW u \in Users,
                      NEW o \in {User(u), Credentials(u), UserSeed(u), PasswordOf(u)}
               PROVE  ustore[o] \in UserContent(o) \cup {Absent}
    BY DEF UserObjects, UserRequests
  <2>1. o \in UserObjects
    BY UserKinds
  <2>2. CASE o = User(u)
    BY <1>1, <1>2, <2>1, <2>2, UserKinds DEF User
  <2>3. CASE o = Credentials(u)
    BY <1>1, <2>1, <2>3, UserKinds DEF Credentials
  <2>4. CASE o = UserSeed(u)
    BY <1>1, <1>3, <2>1, <2>4, UserKinds DEF UserSeed
  <2>5. CASE o = PasswordOf(u)
    BY <1>1, <1>4, <2>1, <2>5, UserKinds DEF PasswordOf
  <2> QED
    BY <2>2, <2>3, <2>4, <2>5
<1>6. UserClusterTypeOK
  <2>1. DOMAIN ustore = UserObjects
    BY <1>1
  <2>2. DOMAIN ucache = UserObjects /\ \A o \in UserObjects : ucache[o] = Absent
    BY DEF UserInit
  <2>3. ucurrent \in [UserHolders -> SUBSET UserObjects]
    BY DEF UserInit, UserHolders
  <2>4. udue \subseteq UserRequests /\ utimer \in [UserRequests -> Timers]
    BY DEF UserInit, Timers
  <2>5. ubudget \in 0..UserBudget
    BY UserSpecAssumption DEF UserInit
  <2> QED
    BY <1>5, <2>1, <2>2, <2>3, <2>4, <2>5 DEF UserClusterTypeOK
<1>7. UserWorkerTypeOK
  BY DEF UserInit, UserIdle, UserWorkerTypeOK, UserSteps
<1> QED
  BY <1>6, <1>7, UserTypeParts

LEMMA FullNextType ==
  ASSUME TypeOK, UserTypeOK, [FullNext]_userOperatorVars
  PROVE  UserTypeOK'
<1> SUFFICES UserClusterTypeOK' /\ UserWorkerTypeOK'
  BY DEF UserTypeOK, UserClusterTypeOK, UserWorkerTypeOK
<1>1. CASE UserStep
  BY <1>1, UserStepType
<1>2. CASE UserClusterStep
  BY <1>2, UserClusterStepType
<1>3. CASE FullRestart
  BY <1>3, FullRestartType
<1>4. CASE UNCHANGED userVars
  BY <1>4, UserTypeParts DEF userVars, userCluster, userWorker, UserClusterTypeOK, UserWorkerTypeOK
<1> QED
  BY <1>1, <1>2, <1>3, <1>4 DEF FullNext, OperatorStep, userOperatorVars

(* The whole operator keeps its types: every object has its kind's fields, *)
(* and a step of Reconcile has what it works from (the account it signs    *)
(* for, the secret it writes; natsuser_controller.go:50-143).              *)
THEOREM FullTypeCorrect == FullSpec => []FullTypeOK
<1>1. FullSpec => []TypeOK
  BY UsersChangeNothing, TypeCorrect, PTL
<1>2. FullInit => UserTypeOK
  BY UserInitType DEF FullInit
<1>3. TypeOK /\ UserTypeOK /\ [FullNext]_userOperatorVars => UserTypeOK'
  BY FullNextType
<1>4. FullTypeOK <=> TypeOK /\ UserTypeOK
  BY DEF FullTypeOK
<1> QED
  BY <1>1, <1>2, <1>3, <1>4, PTL DEF FullSpec

=============================================================================
