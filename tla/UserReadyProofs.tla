--------------------------- MODULE UserReadyProofs ---------------------------
(***************************************************************************)
(* A user that is Ready for its current spec has the kind of credentials   *)
(* that spec names, or is about to be looked at again, whatever is edited, *)
(* deleted, lost, restarted or read from a copy that is out of date.       *)
(***************************************************************************)
EXTENDS UserProofs

-----------------------------------------------------------------------------
(* The inductive invariant, next to KeyInv.                                *)

(* What HasKindNamed asks, of any object and any secret.                   *)
Fulfils(obj, secret) ==
  /\ obj.spec.auth = "jwt" => secret # Absent /\ secret.jwt # Absent /\ obj.pub # NoKey
  /\ obj.spec.auth = "token" =>
       /\ secret # Absent /\ secret.token # Absent
       /\ obj.spec.name # NoKey => secret.token.name = obj.spec.name

(* Attended, and not just because it is in hand.                           *)
Pending(u) ==
  \/ process # "running"
  \/ User(u) \in udue \/ utimer[User(u)] = "backoff"
  \/ User(u) \notin ucurrent["cache"] \/ Credentials(u) \notin ucurrent["cache"]

(* A verdict that may be saved is true, or more is to come.                *)
VerdictTrue ==
  User(ureq) \in ucurrent["worker"] =>
    Fulfils(uobj, ustore[Credentials(ureq)]) \/ Pending(ureq)

(* The draft has what the spec in hand names.                              *)
DraftServes ==
  IF ukey = Absent THEN /\ udraft.token # Absent
                        /\ uobj.spec.name # NoKey => udraft.token.name = uobj.spec.name
                   ELSE uobj.spec.auth # "token"

HandServes ==
  /\ upc = "idle" => ureq = Absent
  /\ upc = "sign" => uobj.spec.auth # "token"
  /\ upc \in {"create", "update"} => DraftServes
  /\ upc = "status" /\ ~uerr => VerdictTrue

ServedInv == UserReadyMeansServed /\ HandServes

LEMMA ServedOrPending ==
  UserReadyMeansServed <=>
    \A u \in Users :
      ustore[User(u)] # Absent /\ ustore[User(u)].ready /\ ustore[User(u)].observed =>
        Fulfils(ustore[User(u)], ustore[Credentials(u)]) \/ ureq = u \/ Pending(u)
BY DEF UserReadyMeansServed, HasKindNamed, HoldsJWT, HoldsToken, UserAttended, Fulfils, Pending,
       U!Exists

-----------------------------------------------------------------------------
(* What a step does to a user: as far as it changes the user or its        *)
(* credentials it makes it pending, and it leaves a pending one so.        *)
Undisturbed(u) ==
  /\ ustore'[User(u)] = ustore[User(u)] /\ ustore'[Credentials(u)] = ustore[Credentials(u)]
  /\ Pending(u) => Pending(u)'
Stirred(u) == Undisturbed(u) \/ Pending(u)'

(* It lets go of a user only when it is served, pending or gone.           *)
LetsGo(u) ==
  \/ ureq' = u
  \/ Pending(u)'
  \/ ustore'[User(u)] = Absent
  \/ Fulfils(ustore'[User(u)], ustore'[Credentials(u)])

(* The others are stirred at most, and so is the one in hand.              *)
Serves == \A u \in Users : Stirred(u) /\ (ureq = u => LetsGo(u))

LEMMA StirredServes ==
  ASSUME UserReadyMeansServed, Serves
  PROVE  UserReadyMeansServed'
<1> SUFFICES ASSUME NEW u \in Users, ustore'[User(u)] # Absent,
                    ustore'[User(u)].ready, ustore'[User(u)].observed
             PROVE  Fulfils(ustore'[User(u)], ustore'[Credentials(u)]) \/ ureq' = u \/ Pending(u)'
  BY DEF UserReadyMeansServed, HasKindNamed, HoldsJWT, HoldsToken, UserAttended, Fulfils, Pending,
         U!Exists
<1>1. CASE Undisturbed(u) /\ ureq # u
  BY <1>1, ServedOrPending DEF Undisturbed
<1>2. CASE ureq = u
  BY <1>2 DEF Serves, LetsGo
<1> QED
  BY <1>1, <1>2 DEF Serves, Stirred

(* Every write of a user or of its credentials makes it pending: either    *)
(* the event has yet to come, or it has put the user into the queue.       *)
LEMMA PutStirs ==
  ASSUME UserClusterTypeOK, NEW h \in {"worker", "user", "gc"}, NEW o \in UserObjects, NEW v,
         NEW held, U!Put(h, o, v, held), UNCHANGED process,
         NEW u \in Users, utimer[User(u)] = "backoff" => utimer'[User(u)] = "backoff"
  PROVE  /\ Stirred(u)
         /\ o \in {User(u), Credentials(u)} => Pending(u)'
<1>1. /\ User(u) \in UserObjects /\ User(u)[1] = "NatsUser" /\ User(u)[2] = u
      /\ Credentials(u) \in UserObjects /\ Credentials(u)[1] = "user-creds"
      /\ Credentials(u)[2] = u
  BY UserKinds DEF User, Credentials
<1>2. CASE o \in {User(u), Credentials(u)}
  <2>1. UserWatchers(o) = {User(u)}
    BY <1>1, <1>2 DEF UserWatchers
  <2>2. o[1] \in UserLag => o \notin ucurrent'["cache"]
    BY DEF U!Put, UserHolders
  <2>3. o[1] \notin UserLag => User(u) \in udue'
    BY <2>1 DEF U!Put
  <2>4. Pending(u)'
    BY <1>2, <2>2, <2>3 DEF Pending
  <2> QED
    BY <2>4 DEF Stirred
<1>3. CASE o \notin {User(u), Credentials(u)}
  <2>1. ustore'[User(u)] = ustore[User(u)] /\ ustore'[Credentials(u)] = ustore[Credentials(u)]
    BY <1>1, <1>3 DEF U!Put, UserClusterTypeOK
  <2>2. udue \subseteq udue' /\ ucurrent'["cache"] \subseteq ucurrent["cache"]
    BY DEF U!Put, UserHolders, UserClusterTypeOK
  <2>3. Pending(u) => Pending(u)'
    BY <2>2 DEF Pending
  <2> QED
    BY <1>3, <2>1, <2>3 DEF Stirred, Undisturbed
<1> QED
  BY <1>2, <1>3

(* A request of the worker, whatever comes of it.                          *)
LEMMA SentStirs ==
  ASSUME UserClusterTypeOK, NEW o \in UserObjects, NEW allowed, NEW v, NEW held,
         UserSent(o, allowed, v, held), NEW u \in Users,
         utimer[User(u)] = "backoff" => utimer'[User(u)] = "backoff"
  PROVE  Stirred(u)
<1>1. CASE U!Put("worker", o, v, held) \/ U!Put("worker", o, v, held \ {o})
  BY <1>1, PutStirs DEF UserSent
<1>2. CASE UNCHANGED <<ustore, udue>> /\ ucurrent' = [ucurrent EXCEPT !["worker"] = @ \cap held]
  BY <1>2 DEF UserSent, UserClusterTypeOK, UserHolders, Stirred, Undisturbed, Pending
<1> QED
  BY <1>1, <1>2 DEF UserSent

(* A step of the worker that reads.                                        *)
LEMMA ReadStirs ==
  ASSUME UNCHANGED <<ustore, udue, utimer, process>>, ucurrent'["cache"] = ucurrent["cache"],
         NEW u \in Users
  PROVE  Stirred(u)
BY DEF Stirred, Undisturbed, Pending

-----------------------------------------------------------------------------
(* Steps of others.                                                        *)

LEMMA OperatorStepAlive ==
  ASSUME OperatorStep, process' = "running"
  PROVE  process = "running"
<1>1. CASE AccountStep
  BY <1>1 DEF AccountStep, AccountReconcile, FetchAccount, FinalizeAccount, AccountReads,
              RejectAccount, SkipAccount, PanicOnAccount, SignAccount, StoreAccountSecret,
              TriggerConfig, SaveAccountStatus, UntriggerConfig, ReleaseAccount
<1>2. CASE ConfigStep
  BY <1>2 DEF ConfigStep, ConfigReconcile, FetchConfig, FinalizeConfig, ChooseMode, ConfigReads,
              CreateOperatorSeed, ReadOperatorSeed, ListAccounts, CollectAccountJWT,
              ReadServerSecret, PublishAggregate, SaveConfigStatus, ReleaseConfig
<1>3. CASE ClusterStep
  BY <1>3 DEF ClusterStep, Informers, Environment, Deliver, TimerFires, Kill, CollectGarbage,
              DeleteSecret, EditAccount, CreateAccount, EditConfig, CreateConfig, Delete, ByUser
<1> QED
  BY <1>1, <1>2, <1>3 DEF OperatorStep

LEMMA OperatorStepStirs ==
  ASSUME OperatorStep, NEW u \in Users
  PROVE  Stirred(u)
BY OperatorStepAlive DEF OperatorStep, userVars, userCluster, Stirred, Undisturbed, Pending

LEMMA UserClusterStepStirs ==
  ASSUME UserClusterTypeOK, UserClusterStep, NEW u \in Users
  PROVE  Stirred(u)
<1>1. User(u) \in UserObjects /\ Credentials(u) \in UserObjects /\ UNCHANGED process
  BY UserKinds DEF UserClusterStep, vars, cluster
<1>2. CASE \E o \in UserObjects : U!Deliver(o)
  <2>1. PICK o \in UserObjects : U!Deliver(o)
    BY <1>2
  <2>2. o \in {User(u), Credentials(u)} => User(u) \in udue'
    <3>1. User(u)[1] = "NatsUser" /\ User(u)[2] = u
      BY DEF User
    <3>2. Credentials(u)[1] = "user-creds" /\ Credentials(u)[2] = u
      BY DEF Credentials
    <3> QED
      BY <2>1, <3>1, <3>2 DEF U!Deliver, UserWatchers
  <2>3. o \notin {User(u), Credentials(u)} =>
          /\ User(u) \in ucurrent'["cache"] => User(u) \in ucurrent["cache"]
          /\ Credentials(u) \in ucurrent'["cache"] => Credentials(u) \in ucurrent["cache"]
    BY <2>1 DEF U!Deliver, UserClusterTypeOK, UserHolders
  <2>4. UNCHANGED <<ustore, utimer>> /\ udue \subseteq udue'
    BY <2>1 DEF U!Deliver
  <2> QED
    BY <1>1, <2>2, <2>3, <2>4 DEF Stirred, Undisturbed, Pending
<1>3. CASE \E r \in UserRequests : U!TimerFires(r)
  <2>1. PICK r \in UserRequests : U!TimerFires(r)
    BY <1>3
  <2>2. UNCHANGED <<ustore, ucurrent>> /\ udue' = udue \cup {r}
        /\ (r # User(u) => utimer'[User(u)] = utimer[User(u)])
    BY <2>1 DEF U!TimerFires, UserClusterTypeOK
  <2> QED
    BY <1>1, <2>2 DEF Stirred, Undisturbed, Pending
<1>4. CASE UserEnvironment
  <2>1. UNCHANGED <<utimer, process>>
        /\ \E h \in {"user", "gc"}, o \in UserObjects : \E v : U!Put(h, o, v, {})
    BY <1>4, UserKinds
       DEF UserEnvironment, EditUser, CreateUser, U!Delete, DeleteCredentials, ChangePassword,
           CollectCredentials, U!ByUser
  <2> QED
    BY <2>1, PutStirs
<1> QED
  BY <1>2, <1>3, <1>4 DEF UserClusterStep, UserInformers

(* Steps of others keep the verdict in hand: they make the user pending,   *)
(* or the copy in hand out of date.                                        *)
LEMMA OthersServe ==
  ASSUME UserTypeOK, KeyInv, ServedInv, OperatorStep \/ UserClusterStep
  PROVE  Serves /\ HandServes'
<1>1. \A u \in Users : Stirred(u)
  BY UserTypeParts, OperatorStepStirs, UserClusterStepStirs
<1>2. UNCHANGED <<upc, ureq, uobj, ukey, udraft, uerr>>
  BY DEF OperatorStep, UserClusterStep, userVars, userWorker
<1>3. Serves
  BY <1>1, <1>2 DEF Serves, LetsGo
<1>4. upc = "status" /\ VerdictTrue => VerdictTrue'
  <2> SUFFICES ASSUME upc = "status", VerdictTrue, User(ureq) \in ucurrent'["worker"]
               PROVE  Fulfils(uobj, ustore'[Credentials(ureq)]) \/ Pending(ureq)'
    BY <1>2 DEF VerdictTrue, Pending, Fulfils
  <2>1. ureq \in Users
    BY UserTypeParts, UserInHand
  <2>2. User(ureq) \in ucurrent["worker"]
    <3>1. CASE OperatorStep
      BY <3>1 DEF OperatorStep, userVars, userCluster
    <3>2. CASE UserClusterStep
      BY <2>1, <3>2, UserTypeParts, InformersFrame, EnvironmentFrame
         DEF KeyInv, UserClusterStep, OthersFrame
    <3> QED
      BY <3>1, <3>2
  <2>3. Stirred(ureq)
    BY <1>1, <2>1
  <2> QED
    BY <2>2, <2>3 DEF VerdictTrue, Stirred, Undisturbed
<1>5. HandServes'
  BY <1>2, <1>4 DEF ServedInv, HandServes, DraftServes
<1> QED
  BY <1>3, <1>5

-----------------------------------------------------------------------------
(* The user controller.                                                    *)

(* What is read now is what is stored, or the user is pending.             *)
LEMMA ReadOrPending ==
  ASSUME UserClusterTypeOK, UserCopies, NEW u \in Users,
         NEW o \in {User(u), Credentials(u)}
  PROVE  U!Cached(o) = ustore[o] \/ Pending(u)
<1>1. o \in UserObjects
  BY UserKinds
<1> QED
  BY <1>1 DEF U!Cached, UserCopies, Pending

(* A step of the worker that reads, and stays in hand.                     *)
LEMMA ReadServes ==
  ASSUME UserTypeOK, upc # "idle", UNCHANGED <<ureq, utimer>>,
         MissConfig \/ RejectUser \/ SkipUser \/ (\E keys : ChooseUserKey(keys)) \/ SignUser
           \/ (\E strings : IssueToken(strings))
  PROVE  Serves
<1>1. UNCHANGED <<ustore, udue, process>> /\ ucurrent'["cache"] = ucurrent["cache"]
  BY UserTypeParts, UserReadsLeave
     DEF MissConfig, RejectUser, SkipUser, ChooseUserKey, SignUser, IssueToken, UserReadsMode,
         UserReads
<1> QED
  BY <1>1, ReadStirs DEF Serves, LetsGo

LEMMA FetchUserServes ==
  ASSUME UserTypeOK, KeyInv, ServedInv, NEW u \in Users, FetchUser(u)
  PROVE  UserReadyMeansServed' /\ HandServes'
<1>1. /\ UNCHANGED <<ustore, ucache, utimer, process>> /\ upc = "idle" /\ udue' = udue \ {User(u)}
      /\ ucurrent'["cache"] = ucurrent["cache"] /\ UserClusterTypeOK /\ ureq = Absent
      /\ User(u) \in UserObjects
  BY UserTypeParts, UserReadsLeave, UserKinds DEF FetchUser, ServedInv, HandServes
<1>2. ASSUME NEW w \in Users, w # u, Pending(w)
      PROVE  Pending(w)'
  <2>1. User(w) # User(u)
    BY <1>2 DEF User
  <2> QED
    BY <1>1, <1>2, <2>1 DEF Pending
<1>3. ureq' = u \/ (ureq' = Absent /\ (ustore[User(u)] = Absent \/ Pending(u)'))
  <2>1. CASE U!Cached(User(u)) = Absent /\ UNCHANGED <<ucurrent, upc, ureq, uobj>>
    <3>1. CASE User(u) \in ucurrent["cache"]
      BY <1>1, <2>1, <3>1 DEF KeyInv, UserCopies, U!Cached
    <3>2. CASE User(u) \notin ucurrent["cache"]
      BY <1>1, <2>1, <3>2 DEF Pending
    <3> QED
      BY <1>1, <2>1, <3>1, <3>2
  <2> QED
    BY <2>1 DEF FetchUser
<1>4. UserReadyMeansServed'
  <2> SUFFICES ASSUME NEW w \in Users, ustore'[User(w)] # Absent,
                      ustore'[User(w)].ready, ustore'[User(w)].observed
               PROVE  Fulfils(ustore'[User(w)], ustore'[Credentials(w)])
                        \/ ureq' = w \/ Pending(w)'
    BY DEF UserReadyMeansServed, HasKindNamed, HoldsJWT, HoldsToken, UserAttended, Fulfils,
           Pending, U!Exists
  <2>1. CASE w = u
    BY <1>1, <1>3, <2>1
  <2>2. CASE w # u
    <3>1. ureq # w
      BY <1>1, UserAbsentAssumption
    <3> QED
      BY <1>1, <1>2, <2>2, <3>1, ServedOrPending DEF ServedInv
  <2> QED
    BY <2>1, <2>2
<1>5. HandServes'
  BY <1>1 DEF FetchUser, HandServes
<1> QED
  BY <1>4, <1>5

LEMMA DecideUserServes ==
  ASSUME UserTypeOK, KeyInv, ServedInv, MissConfig \/ RejectUser \/ SkipUser
  PROVE  Serves /\ HandServes'
<1>1. /\ UNCHANGED <<ustore, ureq, utimer, udue, process>> /\ upc = "read" /\ upc' = "status"
      /\ U!Got("worker", {User(ureq)}, {})
  BY DEF MissConfig, RejectUser, SkipUser, UserReadsMode, UserReads, UserFails, UserServed,
         UserProceeds
<1>2. UserClusterTypeOK /\ uobj \in UserObject /\ ureq \in Users
  BY <1>1, UserTypeParts, UserInHand
<1>3. Serves
  BY <1>1, ReadServes
<1>4. CASE MissConfig \/ RejectUser
  <2>1. uerr' = TRUE
    BY <1>4 DEF MissConfig, RejectUser, UserFails, UserProceeds
  <2> QED
    BY <1>1, <1>3, <2>1 DEF HandServes
<1>5. CASE SkipUser
  <2>1. /\ uobj' = ServedUser(uobj) /\ HasCredentials(uobj, U!Cached(Credentials(ureq)))
        /\ uobj.spec.auth # "token"
    BY <1>5 DEF SkipUser, UserReadsMode, AuthTypeOf, UserServed, UserProceeds
  <2>2. uobj'.spec = uobj.spec /\ uobj'.pub = uobj.pub
    BY <1>2, <2>1 DEF UserObject, ServedUser
  <2>3. U!Cached(Credentials(ureq)) = ustore[Credentials(ureq)] \/ Pending(ureq)
    BY <1>2, ReadOrPending DEF KeyInv
  <2>4. Pending(ureq) => Pending(ureq)'
    BY <1>1, <1>2 DEF Pending, U!Got, UserClusterTypeOK, UserHolders
  <2>5. VerdictTrue'
    BY <1>1, <2>1, <2>2, <2>3, <2>4 DEF VerdictTrue, Fulfils, HasCredentials
  <2> QED
    BY <1>1, <1>3, <2>5 DEF HandServes
<1> QED
  BY <1>4, <1>5

LEMMA ChooseUserKeyServes ==
  ASSUME UserTypeOK, ServedInv, NEW keys, ChooseUserKey(keys)
  PROVE  Serves /\ HandServes'
<1>1. PICK key \in keys :
        UserProceeds("sign", uobj, KeyPairFor(ureq, uobj.spec, key), Absent, FALSE)
  BY DEF ChooseUserKey
<1>2. /\ upc = "read" /\ upc' = "sign" /\ uobj' = uobj /\ UNCHANGED <<ureq, utimer>>
      /\ uobj.spec.auth # "token"
  BY <1>1 DEF ChooseUserKey, UserReadsMode, UserReads, AuthTypeOf, UserProceeds
<1>3. Serves
  BY <1>2, ReadServes
<1> QED
  BY <1>2, <1>3 DEF HandServes

LEMMA SignUserServes ==
  ASSUME UserTypeOK, ServedInv, SignUser
  PROVE  Serves /\ HandServes'
<1> DEFINE secret == U!Cached(Credentials(ureq))
           draft  == DraftJWT(JWTFor(uobj, ukey, Cached(JWTSecret(uobj.spec.account)).seed), secret)
<1>1. /\ upc = "sign" /\ uobj.spec.auth # "token" /\ ukey # Absent
      /\ UserFails(uobj) \/ UserProceeds(StepFor(secret), uobj, ukey, draft, FALSE)
  BY UserTypeParts DEF SignUser, ServedInv, HandServes, UserWorkerTypeOK
<1> HIDE DEF secret, draft
<1>2. UNCHANGED <<ureq, utimer>>
  BY <1>1 DEF UserFails, UserProceeds
<1>3. Serves
  BY <1>1, <1>2, ReadServes
<1>4. CASE UserFails(uobj)
  BY <1>3, <1>4 DEF UserFails, UserProceeds, HandServes
<1>5. CASE UserProceeds(StepFor(secret), uobj, ukey, draft, FALSE)
  BY <1>1, <1>3, <1>5 DEF UserProceeds, StepFor, HandServes, DraftServes
<1> QED
  BY <1>1, <1>4, <1>5

LEMMA IssueTokenServes ==
  ASSUME UserTypeOK, KeyInv, ServedInv, NEW strings \in SUBSET Random, IssueToken(strings)
  PROVE  Serves /\ HandServes'
<1> DEFINE secret == U!Cached(Credentials(ureq))
<1>1. /\ UNCHANGED <<ustore, udue, process>> /\ upc = "read"
      /\ U!Got("worker", {User(ureq)}, {Credentials(ureq)})
      /\ uobj.spec.auth # "jwt" /\ ~PasswordMissing(ureq, uobj.spec)
  BY DEF IssueToken, UserReadsMode, UserReads, AuthTypeOf
<1>2. /\ UserClusterTypeOK /\ ureq \in Users /\ uobj \in UserObject
      /\ UserContent(Credentials(ureq)) = UserCredentials /\ Credentials(ureq) \in UserObjects
  BY <1>1, UserTypeParts, UserInHand
<1>3. secret \in UserCredentials \cup {Absent}
  BY <1>2, UserCachedType
<1>4. PICK random \in strings :
        IF secret # Absent /\ secret.token = TokenFor(ureq, uobj.spec, random)
          THEN UserServed(uobj)
          ELSE UserProceeds(StepFor(secret), uobj, Absent,
                            DraftToken(TokenFor(ureq, uobj.spec, random), secret), FALSE)
  BY DEF IssueToken
<1> DEFINE token == TokenFor(ureq, uobj.spec, random)
<1>5. /\ token # Absent
      /\ uobj.spec.name # NoKey => token.name = uobj.spec.name
  <2>1. token \in UserToken
    BY <1>1, <1>2, IssuedTokenType
  <2> QED
    BY <2>1, UserAbsentAssumption DEF TokenFor
<1>6. secret = ustore[Credentials(ureq)] \/ Pending(ureq)
  BY <1>2, ReadOrPending DEF KeyInv
<1> HIDE DEF secret, token
<1>7. CASE secret # Absent /\ secret.token = token /\ UserServed(uobj)
  <2>1. /\ upc' = "status" /\ uobj' = ServedUser(uobj) /\ UNCHANGED <<ureq, utimer>>
    BY <1>7 DEF UserServed, UserProceeds
  <2>2. uobj'.spec = uobj.spec
    BY <1>2, <2>1 DEF UserObject, ServedUser
  <2>3. Pending(ureq) => Pending(ureq)'
    BY <1>1, <1>2, <2>1 DEF Pending, U!Got, UserClusterTypeOK, UserHolders
  <2>4. Fulfils(uobj', secret)
    BY <1>1, <1>5, <1>7, <2>2 DEF Fulfils
  <2>5. VerdictTrue'
    BY <1>1, <1>6, <2>1, <2>3, <2>4 DEF VerdictTrue
  <2>6. Serves
    BY <1>1, <2>1, ReadServes
  <2> QED
    BY <2>1, <2>5, <2>6 DEF HandServes
<1>8. CASE UserProceeds(StepFor(secret), uobj, Absent, DraftToken(token, secret), FALSE)
  <2>1. /\ upc' \in {"create", "update"} /\ uobj' = uobj /\ UNCHANGED <<ureq, utimer>>
        /\ ukey' = Absent /\ udraft' = DraftToken(token, secret)
    BY <1>8 DEF UserProceeds, StepFor
  <2>2. udraft'.token = token
    BY <1>3, <2>1 DEF DraftToken, UserCredentials
  <2>3. Serves
    BY <1>1, <2>1, ReadServes
  <2> QED
    BY <1>5, <2>1, <2>2, <2>3 DEF HandServes, DraftServes
<1> QED
  BY <1>4, <1>7, <1>8 DEF token

(* What is stored is what the spec in hand names.                          *)
LEMMA StoreCredentialsServes ==
  ASSUME UserTypeOK, KeyInv, ServedInv, StoreCredentials
  PROVE  Serves /\ HandServes'
<1>1. /\ UserClusterTypeOK /\ UserWorkerTypeOK /\ ureq \in Users /\ upc \in {"create", "update"}
      /\ upc' = "status" /\ ureq' = ureq
      /\ UserFails(uobj) \/ (UserServed(WithKey(uobj)) /\ ustore'[Credentials(ureq)] = udraft)
  BY UserTypeParts, StoreCredentialsFrame
<1>2. /\ uobj \in UserObject /\ Credentials(ureq) \in UserObjects
      /\ DraftServes /\ DraftFits /\ udraft # Absent /\ ukey \in KeyPairs \cup {Absent}
  BY <1>1, UserInHand DEF ServedInv, HandServes, KeyInv, HandInv, UserWorkerTypeOK
<1>3. utimer' = utimer
  BY <1>1 DEF UserFails, UserServed, UserProceeds
<1>4. \E allowed : UserSent(Credentials(ureq), allowed, udraft, {User(ureq)})
  BY DEF StoreCredentials, U!Create, U!Update, U!Send, UserSent
<1>5. Serves
  BY <1>1, <1>2, <1>3, <1>4, SentStirs DEF Serves, LetsGo
<1>6. CASE UserFails(uobj)
  BY <1>5, <1>6 DEF UserFails, UserProceeds, HandServes
<1>7. CASE UserServed(WithKey(uobj)) /\ ustore'[Credentials(ureq)] = udraft
  <2>1. uobj' = ServedUser(WithKey(uobj))
    BY <1>7 DEF UserServed, UserProceeds
  <2>2. /\ uobj'.spec = uobj.spec
        /\ uobj'.pub = IF ukey = Absent THEN uobj.pub ELSE ukey.pub
    BY <1>2, <2>1 DEF UserObject, ServedUser, WithKey, KeyPairs
  <2>3. Fulfils(uobj', udraft)
    BY <1>2, <2>2 DEF Fulfils, DraftServes, DraftFits, KeyNeeded
  <2> QED
    BY <1>1, <1>5, <1>7, <2>3 DEF HandServes, VerdictTrue
<1> QED
  BY <1>1, <1>6, <1>7

(* An error is retried.                                                    *)
LEMMA RetryPends ==
  ASSUME UserClusterTypeOK, NEW u \in Users, ureq = u, UserRetries
  PROVE  /\ Pending(u)'
         /\ \A w \in Users : utimer[User(w)] = "backoff" => utimer'[User(w)] = "backoff"
BY UserKinds DEF UserRetries, U!Backoff, Pending, UserClusterTypeOK

LEMMA FinalizeUserServes ==
  ASSUME UserTypeOK, ServedInv, FinalizeUser
  PROVE  Serves /\ HandServes'
<1> DEFINE obj == [uobj EXCEPT !.fin = TRUE]
<1>1. /\ upc = "finalize" /\ \E allowed : UserSent(User(ureq), allowed, obj, {User(ureq)})
      /\ UserProceeds("read", obj, Absent, Absent, FALSE) \/ UserRetries
  BY DEF FinalizeUser, U!Update, U!Send, UserSent
<1>2. UserClusterTypeOK /\ ureq \in Users /\ User(ureq) \in UserObjects
  BY <1>1, UserTypeParts, UserInHand
<1> HIDE DEF obj
<1>3. CASE UserProceeds("read", obj, Absent, Absent, FALSE)
  <2>1. UNCHANGED <<ureq, utimer>> /\ upc' = "read"
    BY <1>3 DEF UserProceeds
  <2>2. Serves
    BY <1>1, <1>2, <2>1, SentStirs DEF Serves, LetsGo
  <2> QED
    BY <2>1, <2>2 DEF HandServes
<1>4. CASE UserRetries
  <2>1. Serves
    BY <1>1, <1>2, <1>4, RetryPends, SentStirs DEF Serves, LetsGo
  <2> QED
    BY <1>4, <2>1 DEF UserRetries, UserReturns, HandServes
<1> QED
  BY <1>1, <1>3, <1>4

(* A verdict that is stored already causes no event, but is true.          *)
LEMMA SaveUserStatusServes ==
  ASSUME UserTypeOK, KeyInv, ServedInv, SaveUserStatus
  PROVE  Serves /\ HandServes'
<1> DEFINE saved == [ustore[User(ureq)] EXCEPT !.pub = uobj.pub, !.state = uobj.state,
                       !.ready = uobj.ready, !.observed = uobj.observed]
           allowed == U!Exists(User(ureq)) /\ User(ureq) \in ucurrent["worker"]
<1>1. upc = "status" /\ VerdictFits /\ (~uerr => VerdictTrue)
  BY DEF SaveUserStatus, KeyInv, HandInv, ServedInv, HandServes
<1>2. /\ ureq \in Users /\ uobj \in UserObject /\ UserClusterTypeOK
      /\ User(ureq) \in UserObjects /\ ustore[User(ureq)] \in UserObject \cup {Absent}
  BY <1>1, UserTypeParts, UserInHand DEF UserClusterTypeOK
<1>3. UserSent(User(ureq), allowed, saved, {})
  BY DEF SaveUserStatus, U!Update, U!Send, UserSent
<1>4. \/ UserRetries
      \/ /\ UserWaits /\ ~uerr /\ allowed /\ UNCHANGED <<ucache, process>>
         /\ \/ U!Put("worker", User(ureq), saved, {})
            \/ /\ saved = ustore[User(ureq)] /\ UNCHANGED <<ustore, udue>>
               /\ ucurrent'["cache"] = ucurrent["cache"]
  BY <1>2 DEF SaveUserStatus, U!Update, U!Send, UserClusterTypeOK, UserHolders
<1>5. allowed => saved.pub = uobj.pub
  BY <1>2 DEF UserObject, U!Exists
<1> HIDE DEF saved
<1>6. CASE UserRetries
  <2>1. Serves
    BY <1>2, <1>3, <1>6, RetryPends, SentStirs DEF Serves, LetsGo
  <2> QED
    BY <1>6, <2>1 DEF UserRetries, UserReturns, HandServes
<1>7. CASE /\ UserWaits /\ ~uerr /\ allowed /\ UNCHANGED <<ucache, process>>
           /\ \/ U!Put("worker", User(ureq), saved, {})
              \/ /\ saved = ustore[User(ureq)] /\ UNCHANGED <<ustore, udue>>
                 /\ ucurrent'["cache"] = ucurrent["cache"]
  <2>1. \A w \in Users : utimer[User(w)] = "backoff" => utimer'[User(w)] = "backoff"
    BY <1>2, <1>7, UserKinds DEF UserWaits, U!RequeueAfter, UserClusterTypeOK
  <2>2. \A w \in Users : Stirred(w)
    BY <1>2, <1>3, <2>1, SentStirs
  <2>3. ASSUME NEW u \in Users, ureq = u
        PROVE  LetsGo(u)
    <3>1. CASE U!Put("worker", User(u), saved, {})
      <4>1. Pending(u)'
        BY <1>2, <1>7, <2>1, <2>3, <3>1, PutStirs
      <4> QED
        BY <4>1 DEF LetsGo
    <3>2. CASE /\ saved = ustore[User(u)] /\ UNCHANGED <<ustore, udue>>
               /\ ucurrent'["cache"] = ucurrent["cache"]
      <4>1. Fulfils(uobj, ustore[Credentials(u)]) \/ Pending(u)
        BY <1>1, <1>7, <2>3 DEF VerdictTrue, allowed
      <4>2. ustore[User(u)].spec = uobj.spec /\ ustore[User(u)].pub = uobj.pub
        BY <1>1, <1>5, <1>7, <2>3, <3>2 DEF VerdictFits, allowed
      <4>3. Pending(u) => Pending(u)'
        BY <1>2, <1>7, <2>1, <3>2 DEF Pending
      <4> QED
        BY <3>2, <4>1, <4>2, <4>3 DEF LetsGo, Fulfils
    <3> QED
      BY <1>7, <2>3, <3>1, <3>2
  <2>4. Serves
    BY <2>2, <2>3 DEF Serves
  <2> QED
    BY <1>7, <2>4 DEF UserWaits, UserReturns, HandServes
<1> QED
  BY <1>4, <1>6, <1>7

LEMMA ReleaseUserServes ==
  ASSUME UserTypeOK, ServedInv, ReleaseUser
  PROVE  Serves /\ HandServes'
<1>1. /\ upc = "release" /\ \E allowed : UserSent(User(ureq), allowed, Absent, {})
      /\ UserRetries \/ (UserForgets /\ ustore'[User(ureq)] = Absent)
  BY UserTypeParts, UserInHand
     DEF ReleaseUser, U!Update, U!Send, UserSent, U!Put, UserClusterTypeOK
<1>2. UserClusterTypeOK /\ ureq \in Users /\ User(ureq) \in UserObjects
  BY <1>1, UserTypeParts, UserInHand
<1>3. \A w \in Users : utimer[User(w)] = "backoff" => utimer'[User(w)] = "backoff"
  BY <1>1, <1>2, RetryPends DEF UserForgets
<1>4. \A w \in Users : Stirred(w)
  BY <1>1, <1>2, <1>3, SentStirs
<1>5. ASSUME NEW u \in Users, ureq = u
      PROVE  LetsGo(u)
  BY <1>1, <1>2, <1>5, RetryPends DEF LetsGo
<1>6. Serves
  BY <1>4, <1>5 DEF Serves
<1> QED
  BY <1>1, <1>6 DEF UserForgets, UserRetries, UserReturns, HandServes

LEMMA UserStepServes ==
  ASSUME UserTypeOK, KeyInv, ServedInv, UserStep
  PROVE  ServedInv'
<1>1. FreshStrings \in SUBSET Random
  BY DEF FreshStrings, Fresh
<1>2. UserReconcile(FreshUserKeys, FreshStrings)
  BY DEF UserStep
<1>3. CASE \E u \in Users : FetchUser(u)
  BY <1>3, FetchUserServes DEF ServedInv
<1>4. ASSUME Serves, HandServes'
      PROVE  ServedInv'
  BY <1>4, StirredServes DEF ServedInv
<1>5. CASE FinalizeUser
  BY <1>4, <1>5, FinalizeUserServes
<1>6. CASE MissConfig \/ RejectUser \/ SkipUser
  BY <1>4, <1>6, DecideUserServes
<1>7. CASE ChooseUserKey(FreshUserKeys)
  BY <1>4, <1>7, ChooseUserKeyServes
<1>8. CASE SignUser
  BY <1>4, <1>8, SignUserServes
<1>9. CASE IssueToken(FreshStrings)
  BY <1>1, <1>4, <1>9, IssueTokenServes
<1>10. CASE StoreCredentials
  BY <1>4, <1>10, StoreCredentialsServes
<1>11. CASE SaveUserStatus
  BY <1>4, <1>11, SaveUserStatusServes
<1>12. CASE ReleaseUser
  BY <1>4, <1>12, ReleaseUserServes
<1> QED
  BY <1>2, <1>3, <1>5, <1>6, <1>7, <1>8, <1>9, <1>10, <1>11, <1>12 DEF UserReconcile

-----------------------------------------------------------------------------
(* The invariant holds.                                                    *)

LEMMA InitServes ==
  ASSUME FullInit
  PROVE  ServedInv
<1>1. HandServes
  BY DEF FullInit, UserInit, UserIdle, HandServes
<1>2. UserReadyMeansServed
  BY UsersAtFirst DEF ServedOrPending, UserReadyMeansServed, NewUser, U!Exists
<1> QED
  BY <1>1, <1>2 DEF ServedInv

LEMMA NextServes ==
  ASSUME UserTypeOK, KeyInv, ServedInv, [FullNext]_userOperatorVars
  PROVE  ServedInv'
<1>1. CASE UserStep
  BY <1>1, UserStepServes
<1>2. CASE OperatorStep \/ UserClusterStep
  BY <1>2, OthersServe, StirredServes DEF ServedInv
<1>3. CASE FullRestart
  <2>1. \A u \in Users : ustore'[User(u)] = Absent \/ User(u) \in udue'
    <3> SUFFICES ASSUME NEW u \in Users, ustore[User(u)] # Absent
                 PROVE  User(u) \in udue'
      BY <1>3 DEF FullRestart
    <3>1. User(u) \in UserObjects /\ User(u) \in UserWatchers(User(u)) /\ U!Exists(User(u))
      BY UserKinds DEF UserWatchers, User, U!Exists
    <3> QED
      BY <1>3, <3>1 DEF FullRestart, U!Relist
  <2>2. UserReadyMeansServed'
    BY <2>1 DEF UserReadyMeansServed, UserAttended, U!Exists
  <2>3. HandServes'
    BY <1>3 DEF FullRestart, UserReturns, HandServes
  <2> QED
    BY <2>2, <2>3 DEF ServedInv
<1>4. CASE UNCHANGED userOperatorVars
  <2>1. UNCHANGED <<ustore, ucurrent, udue, utimer, process, upc, ureq, uobj, ukey, udraft, uerr>>
    BY <1>4 DEF userOperatorVars, userVars, userCluster, userWorker, vars, cluster
  <2>2. UserReadyMeansServed'
    BY <2>1 DEF ServedInv, UserReadyMeansServed, HasKindNamed, HoldsJWT, HoldsToken,
                UserAttended, U!Exists
  <2>3. HandServes'
    BY <2>1 DEF ServedInv, HandServes, DraftServes, VerdictTrue, Fulfils, Pending
  <2> QED
    BY <2>2, <2>3 DEF ServedInv
<1> QED
  BY <1>1, <1>2, <1>3, <1>4 DEF FullNext

(* A user that is Ready for its current spec has the kind of credentials   *)
(* that spec names, or is about to be looked at again: no deletion of the  *)
(* credentials, edit, restart, lost answer or read of an old copy goes     *)
(* unnoticed (natsuser_controller.go:108-142, 503-509).                    *)
THEOREM UserReadyIsServed == FullSpec => []UserReadyMeansServed
<1>1. FullInit => KeyInv /\ ServedInv
  BY InitKeys, InitServes
<1>2. TypeOK /\ UserTypeOK /\ (KeyInv /\ ServedInv) /\ [FullNext]_userOperatorVars
      => (KeyInv /\ ServedInv)'
  BY NextKeys, NextServes
<1>3. KeyInv /\ ServedInv => UserReadyMeansServed
  BY DEF ServedInv
<1> QED
  BY <1>1, <1>2, <1>3, FullTyped, PTL DEF FullSpec

=============================================================================
