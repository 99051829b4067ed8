----------------------------- MODULE UserProofs -----------------------------
(***************************************************************************)
(* The key of a user, whatever is edited, deleted, lost, restarted or read *)
(* from a copy that is out of date: nobody who saw the latest of the user  *)
(* and of its credentials replaces an announced key, and the operator      *)
(* implements UserIdentity.                                                *)
(***************************************************************************)
EXTENDS UserTypes

LEMMA UsersDistinct ==
  ASSUME NEW u \in Users, NEW w \in Users
  PROVE  /\ User(u) # Credentials(w)
         /\ User(u) = User(w) => u = w
         /\ Credentials(u) = Credentials(w) => u = w
BY DEF User, Credentials

-----------------------------------------------------------------------------
(* The inductive invariant.                                                *)

(* What an informer holds up to date is what the server has.               *)
UserCopies ==
  \A o \in UserObjects :
    o[1] \in UserLag /\ o \in ucurrent["cache"] => ucache[o] = ustore[o]

(* A status that calls a JWT user ready names its key.                     *)
NamedIfReady(obj) ==
  obj # Absent /\ obj.spec.auth = "jwt" /\ obj.ready /\ obj.observed => obj.pub # NoKey

UsersNamed ==
  \A u \in Users :
    /\ HoldsJWT(u) => ustore[Credentials(u)].jwt.sub # NoKey
    /\ NamedIfReady(ustore[User(u)]) /\ NamedIfReady(ucache[User(u)])

HeldBy(u) == IF HoldsJWT(u) THEN ustore[Credentials(u)].jwt.sub ELSE Absent

(* A copy of the user that is up to date is the one in hand.               *)
HandFollows == User(ureq) \in ucurrent["worker"] => ustore[User(ureq)] = uobj

(* A key pair was chosen for a user without credentials, or one whose      *)
(* status announces none, as far as this reconciliation could see.         *)
KeyNeeded ==
  /\ ukey.pub # NoKey
  /\ Credentials(ureq) \in ucurrent["look"] /\ HoldsJWT(ureq) => uobj.pub = NoKey

(* A token is written next to the JWT that is stored.                      *)
JWTCopied ==
  Credentials(ureq) \in ucurrent["worker"] => udraft.jwt = ustore[Credentials(ureq)].jwt

(* The draft has the JWT of the key pair in hand, or adds a token.         *)
DraftFits ==
  IF ukey = Absent THEN /\ uobj.spec.auth # "jwt"
                        /\ IF upc = "create" THEN udraft.jwt = Absent ELSE JWTCopied
                   ELSE /\ KeyNeeded
                        /\ udraft.jwt # Absent /\ udraft.jwt.sub = ukey.pub

(* A verdict about to be saved announces what is announced, or the key     *)
(* whose JWT was stored, and maybe deleted since.                          *)
VerdictFits ==
  User(ureq) \in ucurrent["worker"] =>
    /\ U!Exists(User(ureq)) /\ ustore[User(ureq)].spec = uobj.spec
    /\ \/ ustore[User(ureq)].pub = uobj.pub
       \/ uobj.pub # NoKey /\ HeldBy(ureq) \in {uobj.pub, Absent}

HandInv ==
  /\ upc # "idle" => NamedIfReady(uobj)
  /\ upc \in {"finalize", "read", "sign", "create", "update"} => HandFollows
  /\ upc = "sign" => KeyNeeded
  /\ upc \in {"create", "update"} => DraftFits
  /\ upc = "status" => VerdictFits

KeyInv == UserCopies /\ UsersNamed /\ HandInv

-----------------------------------------------------------------------------
(* What a step does to a user and its credentials: it writes one of them.  *)

(* Its credentials are deleted, given a token, or the JWT of another key.  *)
CredentialsWritten(u) ==
  LET before == ustore[Credentials(u)]
      after  == ustore'[Credentials(u)]
  IN  /\ ustore'[User(u)] = ustore[User(u)]
      /\ \/ after = Absent
         \/ /\ after # Absent
            /\ IF HoldsJWT(u) THEN after.jwt # Absent /\ after.jwt.sub = before.jwt.sub
                              ELSE after.jwt = Absent
         \/ /\ after # Absent /\ after.jwt # Absent
            /\ after.jwt.sub \in UserKeys /\ after.jwt.sub # NoKey
            /\ ~(HoldsJWT(u) /\ U!Exists(User(u)) /\ ustore[User(u)].pub = before.jwt.sub
                   /\ SawLatest(u))

(* It is removed, created, edited, or gets a verdict.                      *)
UserWritten(u) ==
  LET before == ustore[User(u)]
      after  == ustore'[User(u)]
  IN  /\ ustore'[Credentials(u)] = ustore[Credentials(u)]
      /\ \/ before # Absent /\ after = Absent
         \/ before = Absent /\ after # Absent /\ after.pub = NoKey /\ ~after.observed
         \/ /\ before # Absent /\ after # Absent /\ NamedIfReady(after)
            /\ \/ after.pub = before.pub
               \/ after.pub # NoKey /\ HeldBy(u) \in {after.pub, Absent}

UserMoves(u) ==
  \/ ustore'[User(u)] = ustore[User(u)] /\ ustore'[Credentials(u)] = ustore[Credentials(u)]
  \/ CredentialsWritten(u)
  \/ UserWritten(u)

(* What is to be shown of a step besides UserCopies'.                      *)
KeyKept == HandInv' /\ \A u \in Users : UserMoves(u)

(* A move keeps what is stored named; so does the informer.                *)
LEMMA MovesNamed ==
  ASSUME UsersNamed, \A u \in Users : UserMoves(u),
         \A u \in Users : ucache'[User(u)] \in {ucache[User(u)], ustore[User(u)], Absent}
  PROVE  UsersNamed'
<1> SUFFICES ASSUME NEW u \in Users
             PROVE  /\ ustore'[Credentials(u)] # Absent /\ ustore'[Credentials(u)].jwt # Absent
                         => ustore'[Credentials(u)].jwt.sub # NoKey
                    /\ NamedIfReady(ustore'[User(u)]) /\ NamedIfReady(ucache'[User(u)])
  BY DEF UsersNamed, HoldsJWT, U!Exists, NamedIfReady
<1>1. UserMoves(u)
  OBVIOUS
<1>2. /\ HoldsJWT(u) => ustore[Credentials(u)].jwt.sub # NoKey
      /\ NamedIfReady(ustore[User(u)]) /\ NamedIfReady(ucache[User(u)])
  BY DEF UsersNamed
<1>3. ustore'[Credentials(u)] # Absent /\ ustore'[Credentials(u)].jwt # Absent
        => ustore'[Credentials(u)].jwt.sub # NoKey
  BY <1>1, <1>2 DEF UserMoves, CredentialsWritten, UserWritten, HoldsJWT, U!Exists
<1>4. NamedIfReady(ustore'[User(u)])
  BY <1>1, <1>2 DEF UserMoves, CredentialsWritten, UserWritten, NamedIfReady
<1>5. NamedIfReady(ucache'[User(u)])
  BY <1>2 DEF NamedIfReady
<1> QED
  BY <1>3, <1>4, <1>5

-----------------------------------------------------------------------------
(* Informers.                                                              *)

(* A step that only reads.                                                 *)
LEMMA ReadsKeepCopies ==
  ASSUME UserCopies, UNCHANGED <<ustore, ucache>>, ucurrent'["cache"] = ucurrent["cache"]
  PROVE  UserCopies'
BY DEF UserCopies

LEMMA PutKeepsCopies ==
  ASSUME UserClusterTypeOK, UserCopies, UNCHANGED ucache,
         NEW h, h # "cache", NEW o \in UserObjects, NEW v, NEW held, U!Put(h, o, v, held)
  PROVE  UserCopies'
<1> SUFFICES ASSUME NEW r \in UserObjects, r[1] \in UserLag, r \in ucurrent'["cache"]
             PROVE  ucache[r] = ustore'[r]
  BY DEF UserCopies
<1>1. r \in ucurrent["cache"] /\ r # o
  BY DEF U!Put, UserHolders, UserClusterTypeOK
<1> QED
  BY <1>1 DEF U!Put, UserCopies, UserClusterTypeOK

LEMMA SentKeepsCopies ==
  ASSUME UserClusterTypeOK, UserCopies, NEW o \in UserObjects, NEW allowed, NEW v, NEW held,
         UserSent(o, allowed, v, held)
  PROVE  UserCopies'
<1>1. CASE U!Put("worker", o, v, held) \/ U!Put("worker", o, v, held \ {o})
  BY <1>1, PutKeepsCopies DEF UserSent
<1>2. CASE UNCHANGED <<ustore, udue>> /\ ucurrent' = [ucurrent EXCEPT !["worker"] = @ \cap held]
  BY <1>2, ReadsKeepCopies DEF UserSent, UserClusterTypeOK, UserHolders
<1> QED
  BY <1>1, <1>2 DEF UserSent

LEMMA UserReadsLeave ==
  ASSUME UserClusterTypeOK,
         (\E u \in Users : FetchUser(u)) \/ MissConfig \/ RejectUser \/ SkipUser
           \/ (\E keys : ChooseUserKey(keys)) \/ SignUser \/ (\E strings : IssueToken(strings))
  PROVE  UNCHANGED <<ustore, ucache>> /\ ucurrent'["cache"] = ucurrent["cache"]
BY DEF FetchUser, MissConfig, RejectUser, SkipUser, ChooseUserKey, SignUser, IssueToken,
       UserReadsMode, UserReads, U!Got, UserClusterTypeOK, UserHolders

LEMMA UserStepCopies ==
  ASSUME UserTypeOK, UserCopies, UserStep
  PROVE  UserCopies'
<1>1. UserClusterTypeOK /\ UserWorkerTypeOK /\ UserReconcile(FreshUserKeys, FreshStrings)
  BY UserTypeParts DEF UserStep
<1>2. CASE FinalizeUser \/ SaveUserStatus \/ ReleaseUser \/ StoreCredentials
  <2>1. upc # "idle"
    BY <1>2 DEF FinalizeUser, SaveUserStatus, ReleaseUser, StoreCredentials
  <2>2. \E o \in {User(ureq), Credentials(ureq)} :
          \E allowed, v, held : UserSent(o, allowed, v, held)
    BY <1>2 DEF FinalizeUser, SaveUserStatus, ReleaseUser, StoreCredentials, U!Update, U!Create,
                U!Send, UserSent
  <2> QED
    BY <1>1, <2>1, <2>2, UserInHand, SentKeepsCopies
<1>3. CASE ~(FinalizeUser \/ SaveUserStatus \/ ReleaseUser \/ StoreCredentials)
  BY <1>1, <1>3, UserReadsLeave, ReadsKeepCopies DEF UserReconcile
<1> QED
  BY <1>2, <1>3

LEMMA UserClusterStepCopies ==
  ASSUME UserTypeOK, UserCopies, UserClusterStep
  PROVE  UserCopies'
<1>1. UserClusterTypeOK
  BY UserTypeParts
<1>2. CASE UserInformers
  <2>1. CASE \E o \in UserObjects : U!Deliver(o)
    BY <1>1, <2>1 DEF U!Deliver, UserCopies, UserClusterTypeOK, UserHolders
  <2>2. CASE \E r \in UserRequests : U!TimerFires(r)
    BY <2>2 DEF U!TimerFires, UserCopies
  <2> QED
    BY <1>2, <2>1, <2>2 DEF UserInformers
<1>3. CASE UserEnvironment
  <2>1. UNCHANGED ucache /\ \E h \in {"user", "gc"}, o \in UserObjects : \E v : U!Put(h, o, v, {})
    BY <1>3, UserKinds
       DEF UserEnvironment, EditUser, CreateUser, U!Delete, DeleteCredentials, ChangePassword,
           CollectCredentials, U!ByUser
  <2> QED
    BY <1>1, <2>1, PutKeepsCopies
<1> QED
  BY <1>2, <1>3 DEF UserClusterStep

LEMMA NextCopies ==
  ASSUME UserTypeOK, UserCopies, [FullNext]_userOperatorVars
  PROVE  UserCopies'
<1>1. CASE UserStep
  BY <1>1, UserStepCopies
<1>2. CASE UserClusterStep
  BY <1>2, UserClusterStepCopies
<1>3. CASE FullRestart
  BY <1>3 DEF FullRestart, U!Relist, UserCopies
<1>4. CASE UNCHANGED userVars
  BY <1>4 DEF userVars, userCluster, UserCopies
<1> QED
  BY <1>1, <1>2, <1>3, <1>4 DEF FullNext, OperatorStep, userOperatorVars

(* What the informers hold of a user is old, or what is stored.            *)
LEMMA UserCacheFollows ==
  ASSUME UserTypeOK, [FullNext]_userOperatorVars, NEW u \in Users
  PROVE  ucache'[User(u)] \in {ucache[User(u)], ustore[User(u)], Absent}
<1>1. UserClusterTypeOK /\ User(u) \in UserObjects
  BY UserTypeParts, UserKinds
<1>2. CASE UserStep
  <2>1. UNCHANGED ucache
    BY <1>2 DEF UserStep, UserReconcile, FetchUser, FinalizeUser, MissConfig, RejectUser, SkipUser,
                ChooseUserKey, SignUser, IssueToken, StoreCredentials, SaveUserStatus, ReleaseUser,
                UserReadsMode, UserReads, U!Update, U!Create, U!Send
  <2> QED
    BY <2>1
<1>3. CASE UserClusterStep
  BY <1>1, <1>3
     DEF UserClusterStep, UserInformers, U!Deliver, U!TimerFires, UserEnvironment, EditUser,
         CreateUser, U!Delete, DeleteCredentials, ChangePassword, CollectCredentials, U!ByUser,
         UserClusterTypeOK
<1>4. CASE FullRestart
  BY <1>1, <1>4 DEF FullRestart, U!Relist
<1>5. CASE UNCHANGED userVars
  BY <1>5 DEF userVars, userCluster
<1> QED
  BY <1>2, <1>3, <1>4, <1>5 DEF FullNext, OperatorStep, userOperatorVars

-----------------------------------------------------------------------------
(* Steps of others.                                                        *)

(* They leave what a reconciliation works from as it is, or its copies are *)
(* out of date; of credentials they only delete.                           *)
OthersFrame(u) ==
  /\ UserMoves(u)
  /\ ustore'[Credentials(u)] \in {ustore[Credentials(u)], Absent}
  /\ \A h \in {"worker", "look"}, o \in {User(u), Credentials(u)} :
       o \in ucurrent'[h] => o \in ucurrent[h] /\ ustore'[o] = ustore[o]

LEMMA PutByOthers ==
  ASSUME UserClusterTypeOK, NEW h, h \notin {"worker", "look"}, NEW o \in UserObjects,
         NEW v, NEW held, U!Put(h, o, v, held), NEW r \in UserObjects
  PROVE  /\ ustore'[r] = IF r = o THEN v ELSE ustore[r]
         /\ \A g \in {"worker", "look"} :
              r \in ucurrent'[g] => r \in ucurrent[g] /\ ustore'[r] = ustore[r]
BY DEF U!Put, UserClusterTypeOK, UserHolders

LEMMA InformersFrame ==
  ASSUME UserClusterTypeOK, UserInformers, NEW u \in Users
  PROVE  OthersFrame(u)
<1>1. /\ UNCHANGED ustore
      /\ \A h \in {"worker", "look"} : ucurrent'[h] = ucurrent[h]
  BY DEF UserInformers, U!Deliver, U!TimerFires, UserClusterTypeOK, UserHolders
<1> QED
  BY <1>1 DEF OthersFrame, UserMoves

LEMMA EnvironmentFrame ==
  ASSUME UserClusterTypeOK, UsersNamed, UserEnvironment, NEW u \in Users
  PROVE  OthersFrame(u)
<1> DEFINE Fits(o, v) ==
      /\ o = Credentials(u) => v = Absent
      /\ o = User(u) =>
           \/ ustore[o] # Absent /\ v = Absent
           \/ ustore[o] = Absent /\ v # Absent /\ v.pub = NoKey /\ ~v.observed
           \/ ustore[o] # Absent /\ v # Absent /\ NamedIfReady(v) /\ v.pub = ustore[o].pub
    Write(h, o, v) ==
      h \notin {"worker", "look"} /\ o \in UserObjects /\ U!Put(h, o, v, {}) /\ Fits(o, v)
<1>1. /\ User(u) \in UserObjects /\ Credentials(u) \in UserObjects
  BY UserKinds
<1>2. \E h, o, v : Write(h, o, v)
  <2>1. \A w \in Users : /\ PasswordOf(w) # User(u) /\ PasswordOf(w) # Credentials(u)
                         /\ User(w) # Credentials(u) /\ Credentials(w) # User(u)
                         /\ {User(w), Credentials(w), PasswordOf(w)} \subseteq UserObjects
                         /\ (User(w) = User(u) => w = u)
    BY UserKinds DEF PasswordOf, User, Credentials
  <2>2. CASE \E w \in Users, s \in UserSpecs : EditUser(w, s)
    <3>1. PICK w \in Users, s \in UserSpecs : EditUser(w, s)
      BY <2>2
    <3> DEFINE v == [ustore[User(w)] EXCEPT !.spec = s, !.observed = FALSE]
    <3>2. ustore[User(w)] # Absent /\ ustore[User(w)] \in UserObject
      BY <3>1, UserKinds DEF EditUser, U!Exists, UserClusterTypeOK
    <3>3. v \in UserObject /\ v.pub = ustore[User(w)].pub /\ ~v.observed
      BY <3>2 DEF UserObject
    <3>4. v # Absent
      BY <3>1, <3>3, NoAbsentUser
    <3>5. U!Put("user", User(w), v, {})
      BY <3>1 DEF EditUser, U!ByUser
    <3> HIDE DEF v
    <3>6. Write("user", User(w), v)
      BY <2>1, <3>2, <3>3, <3>4, <3>5 DEF NamedIfReady
    <3> QED
      BY <3>6
  <2>3. CASE \E w \in Users, s \in UserSpecs : CreateUser(w, s)
    <3>1. PICK w \in Users, s \in UserSpecs : CreateUser(w, s)
      BY <2>3
    <3> DEFINE v == NewUser(ubudget', s)
    <3>2. ustore[User(w)] = Absent /\ U!Put("user", User(w), v, {})
      BY <3>1 DEF CreateUser, U!ByUser, U!Exists
    <3>3. v # Absent
      <4>1. ubudget' \in 0..UserBudget
        BY <3>1, UserSpecAssumption DEF CreateUser, U!ByUser, U!Disturb, UserClusterTypeOK
      <4>2. v \in UserObject
        BY <4>1 DEF NewUser, UserObject, UserSeeds
      <4> QED
        BY <4>2, NoAbsentUser
    <3>4. v.pub = NoKey /\ ~v.observed
      BY DEF NewUser
    <3> HIDE DEF v
    <3>5. Write("user", User(w), v)
      BY <2>1, <3>2, <3>3, <3>4
    <3> QED
      BY <3>5
  <2>4. CASE \E w \in Users : U!Delete("deleteUser", User(w))
    <3>1. PICK w \in Users : U!Delete("deleteUser", User(w))
      BY <2>4
    <3> DEFINE v == IF ustore[User(w)].fin THEN [ustore[User(w)] EXCEPT !.deleting = TRUE] ELSE Absent
    <3>2. ustore[User(w)] # Absent /\ ustore[User(w)] \in UserObject
      BY <3>1, UserKinds DEF U!Delete, U!Exists, UserClusterTypeOK
    <3>3. U!Put("user", User(w), v, {})
      BY <3>1 DEF U!Delete, U!ByUser
    <3>4. v # Absent => /\ v.pub = ustore[User(w)].pub
                        /\ v.spec = ustore[User(w)].spec /\ v.ready = ustore[User(w)].ready
                        /\ v.observed = ustore[User(w)].observed
      BY <3>2 DEF UserObject
    <3>5. v # Absent => NamedIfReady(v)
      BY <3>2, <3>4 DEF UsersNamed, NamedIfReady
    <3> HIDE DEF v
    <3>6. Write("user", User(w), v)
      BY <2>1, <3>2, <3>3, <3>4, <3>5
    <3> QED
      BY <3>6
  <2>5. CASE \E w \in Users : DeleteCredentials(w) \/ CollectCredentials(w)
    <3>1. PICK w \in Users : DeleteCredentials(w) \/ CollectCredentials(w)
      BY <2>5
    <3>2. \E h \in {"user", "gc"} : Write(h, Credentials(w), Absent)
      BY <2>1, <3>1 DEF DeleteCredentials, U!ByUser, CollectCredentials
    <3> QED
      BY <3>2
  <2>6. CASE \E w \in Users, p \in StoredPasswords : ChangePassword(w, p)
    <3>1. PICK w \in Users, p \in StoredPasswords : ChangePassword(w, p)
      BY <2>6
    <3>2. Write("user", PasswordOf(w), [password |-> p])
      BY <2>1, <3>1 DEF ChangePassword, U!ByUser
    <3> QED
      BY <3>2
  <2> QED
    BY <2>2, <2>3, <2>4, <2>5, <2>6 DEF UserEnvironment
<1>3. PICK h, o, v : Write(h, o, v)
  BY <1>2
<1>4. \A r \in {User(u), Credentials(u)} :
        /\ ustore'[r] = IF r = o THEN v ELSE ustore[r]
        /\ \A g \in {"worker", "look"} :
             r \in ucurrent'[g] => r \in ucurrent[g] /\ ustore'[r] = ustore[r]
  BY <1>1, <1>3, PutByOthers
<1>5. User(u) # Credentials(u)
  BY UsersDistinct
<1>6. UserMoves(u)
  BY <1>3, <1>4, <1>5 DEF UserMoves, CredentialsWritten, UserWritten
<1> QED
  BY <1>3, <1>4, <1>6 DEF OthersFrame

LEMMA OthersKeepKeys ==
  ASSUME UserTypeOK, KeyInv, UserClusterStep
  PROVE  KeyKept
<1>1. \A u \in Users : OthersFrame(u)
  BY UserTypeParts, InformersFrame, EnvironmentFrame DEF KeyInv, UserClusterStep
<1>2. UNCHANGED <<upc, ureq, uobj, ukey, udraft>>
  BY DEF UserClusterStep, userWorker
<1>3. CASE upc = "idle"
  BY <1>1, <1>2, <1>3 DEF KeyKept, HandInv, OthersFrame
<1>4. CASE upc # "idle"
  <2>1. OthersFrame(ureq)
    BY <1>1, <1>4, UserTypeParts, UserInHand
  <2>2. HandFollows => HandFollows'
    BY <1>2, <2>1 DEF HandFollows, OthersFrame
  <2>3. KeyNeeded => KeyNeeded'
    BY <1>2, <2>1 DEF KeyNeeded, OthersFrame, HoldsJWT, U!Exists
  <2>4. DraftFits => DraftFits'
    BY <1>2, <2>1, <2>3 DEF DraftFits, JWTCopied, OthersFrame
  <2>5. VerdictFits => VerdictFits'
    BY <1>2, <2>1 DEF VerdictFits, OthersFrame, HeldBy, HoldsJWT, U!Exists
  <2>6. NamedIfReady(uobj) => NamedIfReady(uobj')
    BY <1>2 DEF NamedIfReady
  <2> QED
    BY <1>1, <1>2, <2>2, <2>3, <2>4, <2>5, <2>6 DEF KeyInv, KeyKept, HandInv, OthersFrame
<1> QED
  BY <1>3, <1>4

-----------------------------------------------------------------------------
(* The user controller: steps that read.                                   *)

LEMMA FetchUserKeys ==
  ASSUME UserTypeOK, KeyInv, NEW u \in Users, FetchUser(u)
  PROVE  KeyKept
<1>1. UNCHANGED <<ustore, ukey, udraft>> /\ upc = "idle" /\ UserClusterTypeOK
  BY UserTypeParts DEF FetchUser
<1>2. \A w \in Users : UserMoves(w)
  BY <1>1 DEF UserMoves
<1>3. upc' \in {"idle", "release", "read", "finalize"}
  BY <1>1 DEF FetchUser
<1>4. upc' # "idle" => /\ ureq' = u /\ uobj' = U!Cached(User(u))
                       /\ U!Got("worker", {}, {User(u)})
  BY <1>1 DEF FetchUser
<1>5. upc' # "idle" => NamedIfReady(uobj')
  BY <1>4 DEF KeyInv, UsersNamed, U!Cached
<1>6. upc' # "idle" => HandFollows'
  <2> SUFFICES ASSUME upc' # "idle", User(u) \in ucurrent'["worker"]
               PROVE  ustore[User(u)] = U!Cached(User(u))
    BY <1>1, <1>4 DEF HandFollows
  <2>1. U!UpToDate(User(u))
    BY <1>1, <1>4 DEF U!Got, UserClusterTypeOK, UserHolders
  <2> QED
    BY <2>1, UserKinds DEF U!UpToDate, U!Cached, KeyInv, UserCopies
<1> QED
  BY <1>2, <1>3, <1>5, <1>6 DEF KeyKept, HandInv

LEMMA DecideUserKeys ==
  ASSUME UserTypeOK, KeyInv, MissConfig \/ RejectUser \/ SkipUser
  PROVE  KeyKept
<1>1. /\ UNCHANGED ustore /\ upc = "read" /\ upc' = "status" /\ ureq' = ureq
      /\ U!Got("worker", {User(ureq)}, {})
  BY DEF MissConfig, RejectUser, SkipUser, UserReadsMode, UserReads, UserFails, UserServed,
         UserProceeds
<1>2. UserClusterTypeOK /\ uobj \in UserObject /\ ureq \in Users /\ uobj # Absent
  BY <1>1, UserTypeParts, UserInHand, NoAbsentUser
<1>3. uobj'.spec = uobj.spec /\ uobj'.pub = uobj.pub
  <2>1. uobj' \in {[uobj EXCEPT !.state = "Error"], FailedUser(uobj), ServedUser(uobj)}
    BY DEF MissConfig, RejectUser, SkipUser, UserFails, UserServed, UserProceeds
  <2> QED
    BY <1>2, <2>1 DEF UserObject, FailedUser, ServedUser
<1>4. NamedIfReady(uobj')
  <2>1. NamedIfReady(uobj)
    BY <1>1 DEF KeyInv, HandInv
  <2>2. CASE MissConfig
    <3>1. uobj' = [uobj EXCEPT !.state = "Error"]
      BY <2>2 DEF MissConfig, UserProceeds
    <3> QED
      BY <1>2, <2>1, <3>1 DEF UserObject, NamedIfReady
  <2>3. CASE RejectUser
    BY <1>2, <2>3 DEF RejectUser, UserFails, UserProceeds, FailedUser, UserObject, NamedIfReady
  <2>4. CASE SkipUser
    BY <1>3, <2>4 DEF SkipUser, HasCredentials, NamedIfReady
  <2> QED
    BY <2>2, <2>3, <2>4
<1>5. VerdictFits'
  <2>1. HandFollows
    BY <1>1 DEF KeyInv, HandInv
  <2>2. User(ureq) \in ucurrent'["worker"] => User(ureq) \in ucurrent["worker"]
    BY <1>1, <1>2 DEF U!Got, UserClusterTypeOK, UserHolders
  <2> QED
    BY <1>1, <1>2, <1>3, <2>1, <2>2 DEF VerdictFits, HandFollows, U!Exists
<1> QED
  BY <1>1, <1>4, <1>5 DEF KeyKept, HandInv, UserMoves

(* The first look at the credentials.                                      *)
LEMMA ChooseUserKeyKeys ==
  ASSUME UserTypeOK, KeyInv, NEW keys \in SUBSET UserKeys, ChooseUserKey(keys)
  PROVE  KeyKept
<1>1. /\ UNCHANGED ustore /\ upc = "read"
      /\ ~HasCredentials(uobj, U!Cached(Credentials(ureq)))
  BY DEF ChooseUserKey, UserReadsMode, UserReads
<1>2. /\ UserClusterTypeOK /\ ureq \in Users /\ Credentials(ureq) \in UserObjects
      /\ HandFollows /\ NamedIfReady(uobj)
  BY <1>1, UserTypeParts, UserInHand DEF KeyInv, HandInv
<1>3. PICK key \in keys :
        UserProceeds("sign", uobj, KeyPairFor(ureq, uobj.spec, key), Absent, FALSE)
  BY DEF ChooseUserKey
<1>4. upc' = "sign" /\ ureq' = ureq /\ uobj' = uobj /\ ukey'.pub # NoKey
  <2>1. KeyPairFor(ureq, uobj.spec, key).pub # NoKey
    BY UserKeyAssumption DEF KeyPairFor, KeyOf
  <2> QED
    BY <1>3, <2>1 DEF UserProceeds
<1>5. ucurrent' = [ucurrent EXCEPT
        !["worker"] = @ \cap {User(ureq)},
        !["look"] = {o \in {Credentials(ureq)} : U!UpToDate(o)}]
  BY DEF ChooseUserKey
<1>6. HandFollows'
  BY <1>1, <1>2, <1>4, <1>5 DEF HandFollows, UserClusterTypeOK, UserHolders
<1>7. KeyNeeded'
  <2> SUFFICES ASSUME Credentials(ureq) \in ucurrent'["look"], HoldsJWT(ureq)
               PROVE  uobj.pub = NoKey
    BY <1>1, <1>4 DEF KeyNeeded, HoldsJWT, U!Exists
  <2>1. U!UpToDate(Credentials(ureq))
    BY <1>2, <1>5 DEF UserClusterTypeOK, UserHolders
  <2>2. U!Cached(Credentials(ureq)) = ustore[Credentials(ureq)]
    BY <1>2, <2>1 DEF U!UpToDate, U!Cached, KeyInv, UserCopies
  <2> QED
    BY <1>1, <2>2 DEF HasCredentials, HoldsJWT, U!Exists
<1> QED
  BY <1>1, <1>2, <1>4, <1>6, <1>7 DEF KeyKept, HandInv, UserMoves

LEMMA SignUserKeys ==
  ASSUME TypeOK, UserTypeOK, KeyInv, SignUser
  PROVE  KeyKept
<1> DEFINE signer == Cached(JWTSecret(uobj.spec.account))
           secret == U!Cached(Credentials(ureq))
           jwt    == JWTFor(uobj, ukey, signer.seed)
<1>1. /\ UNCHANGED ustore /\ upc = "sign" /\ KeyNeeded /\ HandFollows /\ NamedIfReady(uobj)
  BY DEF SignUser, KeyInv, HandInv
<1>2. /\ UserClusterTypeOK /\ UserWorkerTypeOK /\ ureq \in Users /\ uobj \in UserObject
      /\ uobj # Absent /\ ukey # Absent /\ User(ureq) # Credentials(ureq)
  BY <1>1, UserTypeParts, UserInHand, NoAbsentUser, UsersDistinct DEF UserWorkerTypeOK
<1>3. CASE UserFails(uobj) /\ U!Got("worker", {User(ureq)}, {})
  <2>1. upc' = "status" /\ ureq' = ureq /\ uobj' = FailedUser(uobj)
    BY <1>3 DEF UserFails, UserProceeds
  <2>2. uobj'.spec = uobj.spec /\ uobj'.pub = uobj.pub /\ ~uobj'.ready
    BY <1>2, <2>1 DEF UserObject, FailedUser
  <2>3. User(ureq) \in ucurrent'["worker"] => User(ureq) \in ucurrent["worker"]
    BY <1>2, <1>3 DEF U!Got, UserClusterTypeOK, UserHolders
  <2>4. VerdictFits' /\ NamedIfReady(uobj')
    BY <1>1, <1>2, <2>1, <2>2, <2>3 DEF VerdictFits, HandFollows, NamedIfReady, U!Exists
  <2> QED
    BY <1>1, <2>1, <2>4 DEF KeyKept, HandInv, UserMoves
<1>4. CASE /\ signer # Absent
           /\ UserProceeds(StepFor(secret), uobj, ukey, DraftJWT(jwt, secret), FALSE)
           /\ U!Got("worker", {User(ureq)}, {Credentials(ureq)})
  <2>1. /\ upc' \in {"create", "update"} /\ ureq' = ureq /\ uobj' = uobj /\ ukey' = ukey
        /\ udraft' = DraftJWT(jwt, secret)
    BY <1>4 DEF UserProceeds, StepFor
  <2>2. jwt # Absent
    BY <1>1, <1>2, <1>4, SignedJWTType, UserAbsentAssumption
  <2>3. udraft'.jwt # Absent /\ udraft'.jwt.sub = ukey.pub
    BY <2>1, <2>2 DEF DraftJWT, JWTFor
  <2>4. /\ User(ureq) \in ucurrent'["worker"] => User(ureq) \in ucurrent["worker"]
        /\ ucurrent'["look"] = ucurrent["look"]
    BY <1>2, <1>4 DEF U!Got, UserClusterTypeOK, UserHolders
  <2>5. HandFollows' /\ KeyNeeded'
    BY <1>1, <2>1, <2>4 DEF HandFollows, KeyNeeded, HoldsJWT, U!Exists
  <2>6. DraftFits'
    BY <1>2, <2>1, <2>3, <2>5 DEF DraftFits
  <2> QED
    BY <1>1, <2>1, <2>5, <2>6 DEF KeyKept, HandInv, UserMoves
<1> QED
  BY <1>3, <1>4 DEF SignUser

LEMMA IssueTokenKeys ==
  ASSUME UserTypeOK, KeyInv, NEW strings, IssueToken(strings)
  PROVE  KeyKept
<1> DEFINE secret == U!Cached(Credentials(ureq))
<1>1. /\ UNCHANGED ustore /\ upc = "read" /\ HandFollows /\ NamedIfReady(uobj)
      /\ U!Got("worker", {User(ureq)}, {Credentials(ureq)}) /\ uobj.spec.auth # "jwt"
  BY DEF IssueToken, UserReadsMode, UserReads, AuthTypeOf, KeyInv, HandInv
<1>2. /\ UserClusterTypeOK /\ ureq \in Users /\ uobj \in UserObject /\ uobj # Absent
      /\ Credentials(ureq) \in UserObjects /\ UserContent(Credentials(ureq)) = UserCredentials
      /\ User(ureq) # Credentials(ureq)
  BY <1>1, UserTypeParts, UserInHand, NoAbsentUser, UsersDistinct
<1>3. /\ User(ureq) \in ucurrent'["worker"] => User(ureq) \in ucurrent["worker"]
      /\ Credentials(ureq) \in ucurrent'["worker"] => U!UpToDate(Credentials(ureq))
  BY <1>1, <1>2 DEF U!Got, UserClusterTypeOK, UserHolders
<1>4. /\ Credentials(ureq) \in ucurrent'["worker"] => secret = ustore[Credentials(ureq)]
      /\ secret \in UserCredentials \cup {Absent}
  BY <1>2, <1>3, UserCachedType DEF U!UpToDate, U!Cached, KeyInv, UserCopies
<1>5. UserServed(uobj)
      \/ \E token : UserProceeds(StepFor(secret), uobj, Absent, DraftToken(token, secret), FALSE)
  BY DEF IssueToken
<1> HIDE DEF secret
<1>6. CASE UserServed(uobj)
  <2>1. upc' = "status" /\ ureq' = ureq /\ uobj' = ServedUser(uobj)
    BY <1>6 DEF UserServed, UserProceeds
  <2>2. uobj'.spec = uobj.spec /\ uobj'.pub = uobj.pub
    BY <1>2, <2>1 DEF UserObject, ServedUser
  <2>3. VerdictFits' /\ NamedIfReady(uobj')
    BY <1>1, <1>2, <1>3, <2>1, <2>2 DEF VerdictFits, HandFollows, NamedIfReady, U!Exists
  <2> QED
    BY <1>1, <2>1, <2>3 DEF KeyKept, HandInv, UserMoves
<1>7. ASSUME NEW token,
             UserProceeds(StepFor(secret), uobj, Absent, DraftToken(token, secret), FALSE)
      PROVE  KeyKept
  <2>1. /\ upc' = StepFor(secret) /\ ureq' = ureq /\ uobj' = uobj /\ ukey' = Absent
        /\ udraft' = DraftToken(token, secret)
    BY <1>7 DEF UserProceeds
  <2>2. /\ upc' \in {"create", "update"}
        /\ upc' = "create" => secret = Absent
        /\ upc' = "update" => secret # Absent
    BY <2>1 DEF StepFor
  <2>3. udraft'.jwt = IF secret = Absent THEN Absent ELSE secret.jwt
    BY <1>4, <2>1 DEF DraftToken, UserCredentials
  <2>4. upc' = "update" => JWTCopied'
    BY <1>1, <1>4, <2>1, <2>2, <2>3 DEF JWTCopied
  <2>5. DraftFits' /\ HandFollows'
    BY <1>1, <1>3, <2>1, <2>2, <2>3, <2>4 DEF DraftFits, HandFollows
  <2> QED
    BY <1>1, <2>1, <2>2, <2>5 DEF KeyKept, HandInv, UserMoves
<1> QED
  BY <1>5, <1>6, <1>7

-----------------------------------------------------------------------------
(* The user controller: steps that write.                                  *)

LEMMA UserSentHere ==
  ASSUME UserClusterTypeOK, NEW o \in UserObjects, NEW allowed, NEW v, NEW held,
         UserSent(o, allowed, v, held), NEW r \in UserObjects
  PROVE  /\ r # o => /\ ustore'[r] = ustore[r]
                     /\ r \in ucurrent'["worker"] => r \in ucurrent["worker"]
         /\ ustore'[o] = ustore[o] \/ (allowed /\ ustore'[o] = v)
<1>1. CASE allowed /\ (U!Put("worker", o, v, held) \/ U!Put("worker", o, v, held \ {o}))
  BY <1>1 DEF U!Put, UserClusterTypeOK, UserHolders
<1>2. CASE UNCHANGED <<ustore, udue>> /\ ucurrent' = [ucurrent EXCEPT !["worker"] = @ \cap held]
  BY <1>2 DEF UserClusterTypeOK, UserHolders
<1> QED
  BY <1>1, <1>2 DEF UserSent

(* The only write of credentials, and what the answer says of it.          *)
LEMMA StoreCredentialsFrame ==
  ASSUME UserClusterTypeOK, UserWorkerTypeOK, StoreCredentials
  PROVE  /\ ureq \in Users /\ upc \in {"create", "update"} /\ upc' = "status" /\ ureq' = ureq
         /\ \A u \in Users : /\ ustore'[User(u)] = ustore[User(u)]
                             /\ u # ureq => ustore'[Credentials(u)] = ustore[Credentials(u)]
         /\ \/ ustore'[Credentials(ureq)] = ustore[Credentials(ureq)]
            \/ /\ ustore'[Credentials(ureq)] = udraft
               /\ IF upc = "create" THEN ~U!Exists(Credentials(ureq))
                                    ELSE /\ U!Exists(Credentials(ureq))
                                         /\ Credentials(ureq) \in ucurrent["worker"]
         /\ User(ureq) \in ucurrent'["worker"] => User(ureq) \in ucurrent["worker"]
         /\ \/ UserFails(uobj)
            \/ UserServed(WithKey(uobj)) /\ ustore'[Credentials(ureq)] = udraft
<1>1. upc \in {"create", "update"}
  BY DEF StoreCredentials
<1>2. /\ ureq \in Users /\ Credentials(ureq) \in UserObjects /\ User(ureq) \in UserObjects
  BY <1>1, UserInHand
<1>3. upc' = "status" /\ ureq' = ureq
  BY DEF StoreCredentials, U!Create, U!Update, U!Send, UserServed, UserFails, UserProceeds
<1> DEFINE allowed == IF upc = "create" THEN ~U!Exists(Credentials(ureq))
                        ELSE U!Exists(Credentials(ureq)) /\ Credentials(ureq) \in ucurrent["worker"]
<1>4. UserSent(Credentials(ureq), allowed, udraft, {User(ureq)})
  <2>1. CASE upc = "create"
    BY <2>1 DEF StoreCredentials, U!Create, U!Send, UserSent
  <2>2. CASE upc = "update"
    BY <2>2 DEF StoreCredentials, U!Update, U!Send, UserSent
  <2> QED
    BY <1>1, <2>1, <2>2
<1>5. \A u \in Users : User(u) \in UserObjects /\ Credentials(u) \in UserObjects
  BY UserKinds
<1>6. \/ UserFails(uobj)
      \/ UserServed(WithKey(uobj)) /\ ustore'[Credentials(ureq)] = udraft
  BY <1>2 DEF StoreCredentials, U!Create, U!Update, U!Send, U!Put, UserClusterTypeOK
<1> HIDE DEF allowed
<1>7. \A r \in UserObjects : r # Credentials(ureq) =>
        /\ ustore'[r] = ustore[r]
        /\ r \in ucurrent'["worker"] => r \in ucurrent["worker"]
  BY <1>2, <1>4, UserSentHere
<1>8. ustore'[Credentials(ureq)] = ustore[Credentials(ureq)]
      \/ (allowed /\ ustore'[Credentials(ureq)] = udraft)
  BY <1>2, <1>4, UserSentHere
<1> QED
  BY <1>1, <1>2, <1>3, <1>5, <1>6, <1>7, <1>8, UsersDistinct DEF allowed

LEMMA StoreCredentialsKeys ==
  ASSUME UserTypeOK, KeyInv, StoreCredentials
  PROVE  KeyKept
<1> DEFINE before == ustore[Credentials(ureq)]
           after  == ustore'[Credentials(ureq)]
<1>1. UserClusterTypeOK /\ UserWorkerTypeOK
  BY UserTypeParts
<1>2. /\ ureq \in Users /\ upc \in {"create", "update"} /\ upc' = "status" /\ ureq' = ureq
      /\ \A u \in Users : /\ ustore'[User(u)] = ustore[User(u)]
                          /\ u # ureq => ustore'[Credentials(u)] = ustore[Credentials(u)]
      /\ \/ after = before
         \/ /\ after = udraft
            /\ IF upc = "create" THEN ~U!Exists(Credentials(ureq))
                 ELSE U!Exists(Credentials(ureq)) /\ Credentials(ureq) \in ucurrent["worker"]
      /\ User(ureq) \in ucurrent'["worker"] => User(ureq) \in ucurrent["worker"]
      /\ UserFails(uobj) \/ (UserServed(WithKey(uobj)) /\ after = udraft)
  BY <1>1, StoreCredentialsFrame
<1>3. /\ HandFollows /\ DraftFits /\ NamedIfReady(uobj) /\ udraft # Absent
      /\ uobj \in UserObject /\ uobj # Absent
      /\ ukey \in KeyPairs \cup {Absent}
  BY <1>1, <1>2, UserInHand, NoAbsentUser DEF KeyInv, HandInv, UserWorkerTypeOK
<1>4. UserMoves(ureq)
  <2>1. CASE after = before
    BY <1>2, <2>1 DEF UserMoves
  <2>2. CASE after = udraft /\ after # before /\ ukey = Absent
    BY <1>2, <1>3, <2>2
       DEF UserMoves, CredentialsWritten, DraftFits, JWTCopied, HoldsJWT, U!Exists
  <2>3. CASE after = udraft /\ after # before /\ ukey # Absent
    <3>1. /\ KeyNeeded /\ after # Absent /\ after.jwt # Absent /\ after.jwt.sub = ukey.pub
          /\ ukey.pub \in UserKeys
      BY <1>3, <2>3 DEF DraftFits, KeyNeeded, KeyPairs, UserSeeds
    <3>2. ~(HoldsJWT(ureq) /\ U!Exists(User(ureq))
              /\ ustore[User(ureq)].pub = before.jwt.sub /\ SawLatest(ureq))
      BY <1>2, <1>3, <3>1 DEF KeyInv, UsersNamed, KeyNeeded, HandFollows, SawLatest
    <3> QED
      BY <1>2, <3>1, <3>2 DEF UserMoves, CredentialsWritten, KeyNeeded
  <2> QED
    BY <1>2, <2>1, <2>2, <2>3
<1>5. \A u \in Users : UserMoves(u)
  BY <1>2, <1>4 DEF UserMoves
<1>6. CASE UserFails(uobj)
  <2>1. uobj' = FailedUser(uobj)
    BY <1>6 DEF UserFails, UserProceeds
  <2>2. uobj'.spec = uobj.spec /\ uobj'.pub = uobj.pub /\ ~uobj'.ready
    BY <1>3, <2>1 DEF UserObject, FailedUser
  <2>3. VerdictFits' /\ NamedIfReady(uobj')
    BY <1>2, <1>3, <2>2 DEF VerdictFits, HandFollows, NamedIfReady, U!Exists
  <2> QED
    BY <1>2, <1>5, <2>3 DEF KeyKept, HandInv
<1>7. CASE UserServed(WithKey(uobj)) /\ after = udraft
  <2>1. uobj' = ServedUser(WithKey(uobj))
    BY <1>7 DEF UserServed, UserProceeds
  <2>2. /\ uobj'.spec = uobj.spec
        /\ uobj'.pub = IF ukey = Absent THEN uobj.pub ELSE ukey.pub
    BY <1>3, <2>1 DEF UserObject, ServedUser, WithKey, KeyPairs
  <2>3. ukey # Absent => /\ uobj'.pub # NoKey /\ after # Absent /\ after.jwt # Absent
                         /\ after.jwt.sub = uobj'.pub
    BY <1>3, <1>7, <2>2 DEF DraftFits, KeyNeeded
  <2>4. NamedIfReady(uobj')
    BY <1>3, <2>2, <2>3 DEF NamedIfReady, DraftFits
  <2>5. ukey # Absent => HeldBy(ureq)' = uobj'.pub
    BY <1>2, <2>3 DEF HeldBy, HoldsJWT, U!Exists
  <2>6. VerdictFits'
    BY <1>2, <1>3, <2>2, <2>3, <2>5 DEF VerdictFits, HandFollows, U!Exists
  <2> QED
    BY <1>2, <1>5, <2>4, <2>6 DEF KeyKept, HandInv
<1> QED
  BY <1>2, <1>6, <1>7

LEMMA FinalizeUserKeys ==
  ASSUME UserTypeOK, KeyInv, FinalizeUser
  PROVE  KeyKept
<1> DEFINE obj == [uobj EXCEPT !.fin = TRUE]
           allowed == U!Exists(User(ureq)) /\ User(ureq) \in ucurrent["worker"]
<1>1. upc = "finalize" /\ HandFollows /\ NamedIfReady(uobj)
  BY DEF FinalizeUser, KeyInv, HandInv
<1>2. /\ ureq \in Users /\ uobj \in UserObject /\ UserClusterTypeOK
      /\ \A u \in Users : User(u) \in UserObjects /\ Credentials(u) \in UserObjects
  BY <1>1, UserTypeParts, UserInHand, UserKinds
<1>3. obj \in UserObject /\ obj # Absent /\ obj.pub = uobj.pub /\ NamedIfReady(obj)
  <2>1. obj \in UserObject
    BY <1>2, VerdictType
  <2>2. obj # Absent /\ uobj # Absent
    BY <1>2, <2>1, NoAbsentUser
  <2> QED
    BY <1>1, <1>2, <2>1, <2>2 DEF UserObject, NamedIfReady
<1>4. UserSent(User(ureq), allowed, obj, {User(ureq)})
  BY DEF FinalizeUser, U!Update, U!Send, UserSent
<1>5. \/ UserProceeds("read", obj, Absent, Absent, FALSE) /\ ustore'[User(ureq)] = obj
      \/ UserRetries
  BY <1>2 DEF FinalizeUser, U!Update, U!Send, U!Put, UserClusterTypeOK
<1> HIDE DEF obj
<1> HIDE DEF allowed
<1>6. /\ \A u \in Users : /\ ustore'[Credentials(u)] = ustore[Credentials(u)]
                          /\ u # ureq => ustore'[User(u)] = ustore[User(u)]
      /\ ustore'[User(ureq)] = ustore[User(ureq)] \/ (allowed /\ ustore'[User(ureq)] = obj)
  <2>1. \A r \in UserObjects : r # User(ureq) => ustore'[r] = ustore[r]
    BY <1>2, <1>4, UserSentHere
  <2>2. ustore'[User(ureq)] = ustore[User(ureq)] \/ (allowed /\ ustore'[User(ureq)] = obj)
    BY <1>2, <1>4, UserSentHere
  <2> QED
    BY <1>2, <2>1, <2>2, UsersDistinct
<1>7. \A u \in Users : UserMoves(u)
  <2>1. allowed => ustore[User(ureq)] = uobj /\ ustore[User(ureq)] # Absent
    BY <1>1 DEF allowed, HandFollows, U!Exists
  <2>2. UserMoves(ureq)
    BY <1>2, <1>3, <1>6, <2>1 DEF UserMoves, UserWritten
  <2> QED
    BY <1>6, <2>2 DEF UserMoves
<1>8. CASE UserProceeds("read", obj, Absent, Absent, FALSE) /\ ustore'[User(ureq)] = obj
  BY <1>3, <1>7, <1>8 DEF UserProceeds, HandFollows, KeyKept, HandInv
<1>9. CASE UserRetries
  BY <1>7, <1>9 DEF UserRetries, UserReturns, KeyKept, HandInv
<1> QED
  BY <1>5, <1>8, <1>9

(* The verdict is saved on the version it was reached on.                  *)
LEMMA SaveUserStatusKeys ==
  ASSUME UserTypeOK, KeyInv, SaveUserStatus
  PROVE  KeyKept
<1> DEFINE saved == [ustore[User(ureq)] EXCEPT !.pub = uobj.pub, !.state = uobj.state,
                       !.ready = uobj.ready, !.observed = uobj.observed]
           allowed == U!Exists(User(ureq)) /\ User(ureq) \in ucurrent["worker"]
<1>1. upc = "status" /\ VerdictFits /\ NamedIfReady(uobj)
  BY DEF SaveUserStatus, KeyInv, HandInv
<1>2. /\ ureq \in Users /\ uobj \in UserObject /\ uobj # Absent /\ UserClusterTypeOK
      /\ \A u \in Users : User(u) \in UserObjects /\ Credentials(u) \in UserObjects
      /\ ustore[User(ureq)] \in UserObject \cup {Absent}
  BY <1>1, UserTypeParts, UserInHand, UserKinds, NoAbsentUser DEF UserClusterTypeOK
<1>3. UserSent(User(ureq), allowed, saved, {})
  BY DEF SaveUserStatus, U!Update, U!Send, UserSent
<1>4. allowed => /\ saved # Absent /\ saved.pub = uobj.pub /\ saved.spec = uobj.spec
                 /\ saved.ready = uobj.ready /\ saved.observed = uobj.observed
  <2>1. allowed => saved \in UserObject
    BY <1>2 DEF UserObject, U!Exists
  <2> QED
    BY <1>1, <1>2, <2>1, NoAbsentUser DEF UserObject, VerdictFits, U!Exists
<1>5. upc' = "idle"
  BY DEF SaveUserStatus, U!Update, U!Send, UserWaits, UserRetries, UserReturns
<1> HIDE DEF saved
<1>6. /\ \A u \in Users : /\ ustore'[Credentials(u)] = ustore[Credentials(u)]
                          /\ u # ureq => ustore'[User(u)] = ustore[User(u)]
      /\ ustore'[User(ureq)] = ustore[User(ureq)] \/ (allowed /\ ustore'[User(ureq)] = saved)
  BY <1>2, <1>3, UserSentHere, UsersDistinct
<1>7. allowed => NamedIfReady(saved)
  BY <1>1, <1>2, <1>4 DEF NamedIfReady
<1>8. \A u \in Users : UserMoves(u)
  BY <1>1, <1>4, <1>6, <1>7 DEF UserMoves, UserWritten, VerdictFits, U!Exists
<1> QED
  BY <1>5, <1>8 DEF KeyKept, HandInv

LEMMA ReleaseUserKeys ==
  ASSUME UserTypeOK, KeyInv, ReleaseUser
  PROVE  KeyKept
<1>1. upc = "release" /\ upc' = "idle"
  BY DEF ReleaseUser, U!Update, U!Send, UserForgets, UserRetries, UserReturns
<1>2. /\ ureq \in Users /\ UserClusterTypeOK
      /\ \A u \in Users : User(u) \in UserObjects /\ Credentials(u) \in UserObjects
  BY <1>1, UserTypeParts, UserInHand, UserKinds
<1>3. \E allowed : UserSent(User(ureq), allowed, Absent, {})
  BY DEF ReleaseUser, U!Update, U!Send, UserSent
<1>4. \A u \in Users : /\ ustore'[Credentials(u)] = ustore[Credentials(u)]
                       /\ ustore'[User(u)] \in {ustore[User(u)], Absent}
  BY <1>2, <1>3, UserSentHere, UsersDistinct
<1>5. \A u \in Users : UserMoves(u)
  BY <1>4 DEF UserMoves, UserWritten
<1> QED
  BY <1>1, <1>5 DEF KeyKept, HandInv

LEMMA UserStepKeys ==
  ASSUME TypeOK, UserTypeOK, KeyInv, UserStep
  PROVE  KeyKept
<1>1. FreshUserKeys \in SUBSET UserKeys
  BY DEF FreshUserKeys, Fresh
<1>2. UserReconcile(FreshUserKeys, FreshStrings)
  BY DEF UserStep
<1>3. CASE \E u \in Users : FetchUser(u)
  BY <1>3, FetchUserKeys
<1>4. CASE FinalizeUser
  BY <1>4, FinalizeUserKeys
<1>5. CASE MissConfig \/ RejectUser \/ SkipUser
  BY <1>5, DecideUserKeys
<1>6. CASE ChooseUserKey(FreshUserKeys)
  BY <1>1, <1>6, ChooseUserKeyKeys
<1>7. CASE SignUser
  BY <1>7, SignUserKeys
<1>8. CASE IssueToken(FreshStrings)
  BY <1>8, IssueTokenKeys
<1>9. CASE StoreCredentials
  BY <1>9, StoreCredentialsKeys
<1>10. CASE SaveUserStatus
  BY <1>10, SaveUserStatusKeys
<1>11. CASE ReleaseUser
  BY <1>11, ReleaseUserKeys
<1> QED
  BY <1>2, <1>3, <1>4, <1>5, <1>6, <1>7, <1>8, <1>9, <1>10, <1>11 DEF UserReconcile

-----------------------------------------------------------------------------
(* The invariant holds.                                                    *)

LEMMA UsersAtFirst ==
  ASSUME FullInit, NEW u \in Users
  PROVE  /\ ustore[Credentials(u)] = Absent /\ ucache[User(u)] = Absent
         /\ \E s \in UserSpecs : ustore[User(u)] \in {Absent, NewUser(UserBudget, s)}
<1>1. PICK s \in [Users -> UserSpecs], i \in [Users -> ImportableUserSeeds],
           p \in [Users -> Fresh(StoredPasswords, {})],
           later \in SUBSET (IF "createUser" \in UserDisturbances THEN Users ELSE {}) :
        ustore = [o \in UserObjects |->
          CASE o[1] = "NatsUser"      -> IF o[2] \in later THEN Absent
                                           ELSE NewUser(UserBudget, s[o[2]])
            [] o[1] = "user-seed"     -> IF \E t \in UserSpecs : t.import
                                           THEN [seed |-> i[o[2]]] ELSE Absent
            [] o[1] = "user-password" -> IF \E t \in UserSpecs : t.password = "secret"
                                           THEN [password |-> p[o[2]]] ELSE Absent
            [] OTHER                  -> Absent]
  BY DEF FullInit, UserInit
<1>2. /\ User(u) \in UserObjects /\ User(u)[1] = "NatsUser" /\ User(u)[2] = u
      /\ Credentials(u) \in UserObjects /\ Credentials(u)[1] = "user-creds"
  BY UserKinds DEF User, Credentials
<1>3. ustore[User(u)] \in {Absent, NewUser(UserBudget, s[u])} /\ s[u] \in UserSpecs
  BY <1>1, <1>2
<1>4. ustore[Credentials(u)] = Absent
  BY <1>1, <1>2
<1>5. ucache[User(u)] = Absent
  BY <1>2 DEF FullInit, UserInit
<1> QED
  BY <1>3, <1>4, <1>5

LEMMA InitKeys ==
  ASSUME FullInit
  PROVE  KeyInv
<1>1. HandInv
  BY DEF FullInit, UserInit, UserIdle, HandInv
<1>2. UsersNamed
  BY UsersAtFirst DEF UsersNamed, NamedIfReady, HoldsJWT, U!Exists, NewUser
<1>3. UserCopies
  BY DEF FullInit, UserInit, UserHolders, UserCopies
<1> QED
  BY <1>1, <1>2, <1>3 DEF KeyInv

LEMMA NextKeys ==
  ASSUME TypeOK, UserTypeOK, KeyInv, [FullNext]_userOperatorVars
  PROVE  KeyInv' /\ \A u \in Users : UserMoves(u)
<1>1. KeyKept
  <2>1. CASE UserStep
    BY <2>1, UserStepKeys
  <2>2. CASE UserClusterStep
    BY <2>2, OthersKeepKeys
  <2>3. CASE FullRestart
    BY <2>3 DEF FullRestart, UserReturns, KeyKept, HandInv, UserMoves
  <2>4. CASE UNCHANGED userVars
    <3>1. UNCHANGED <<ustore, ucurrent, upc, ureq, uobj, ukey, udraft>>
      BY <2>4 DEF userVars, userCluster, userWorker
    <3>2. HandInv'
      BY <3>1
         DEF KeyInv, HandInv, NamedIfReady, HandFollows, KeyNeeded, DraftFits, JWTCopied,
             VerdictFits, HeldBy, HoldsJWT, U!Exists
    <3> QED
      BY <3>1, <3>2 DEF KeyKept, UserMoves
  <2> QED
    BY <2>1, <2>2, <2>3, <2>4 DEF FullNext, OperatorStep, userOperatorVars
<1>2. UserCopies'
  BY NextCopies DEF KeyInv
<1>3. UsersNamed'
  BY <1>1, UserCacheFollows, MovesNamed DEF KeyInv, KeyKept
<1> QED
  BY <1>1, <1>2, <1>3 DEF KeyInv, KeyKept

LEMMA FullTyped == FullSpec => [](TypeOK /\ UserTypeOK)
<1>1. FullTypeOK <=> TypeOK /\ UserTypeOK
  BY DEF FullTypeOK
<1> QED
  BY <1>1, FullTypeCorrect, PTL

-----------------------------------------------------------------------------

(* No reconciliation that saw the latest of a user and of its credentials  *)
(* gives these another key than the one the status announces, with any     *)
(* interleaving of edits, deletions, lost answers, restarts and informers  *)
(* (natsuser_controller.go:165-275).                                       *)
THEOREM CredentialsSafe == FullSpec => AnnouncedCredentialsKept
<1>1. FullInit => KeyInv
  BY InitKeys
<1>2. TypeOK /\ UserTypeOK /\ KeyInv /\ [FullNext]_userOperatorVars => KeyInv'
  BY NextKeys
<1>3. TypeOK /\ UserTypeOK /\ KeyInv /\ [FullNext]_userOperatorVars
      => [\A u \in Users :
            LET before == ustore[Credentials(u)]
                after  == ustore'[Credentials(u)]
            IN  HoldsJWT(u) /\ U!Exists(User(u)) /\ ustore[User(u)].pub = before.jwt.sub
                => \/ after = Absent
                   \/ after.jwt # Absent /\ after.jwt.sub = before.jwt.sub
                   \/ ~SawLatest(u)]_userOperatorVars
  <2> SUFFICES ASSUME TypeOK, UserTypeOK, KeyInv, [FullNext]_userOperatorVars, NEW u \in Users,
                      HoldsJWT(u), U!Exists(User(u)),
                      ustore[User(u)].pub = ustore[Credentials(u)].jwt.sub, SawLatest(u),
                      ustore'[Credentials(u)] # Absent
               PROVE  /\ ustore'[Credentials(u)].jwt # Absent
                      /\ ustore'[Credentials(u)].jwt.sub = ustore[Credentials(u)].jwt.sub
    OBVIOUS
  <2>1. UserMoves(u)
    BY NextKeys
  <2>2. ustore[Credentials(u)].jwt # Absent
    BY DEF HoldsJWT
  <2> QED
    BY <2>1, <2>2 DEF UserMoves, CredentialsWritten, UserWritten
<1> QED
  BY <1>1, <1>2, <1>3, FullTyped, PTL DEF FullSpec, AnnouncedCredentialsKept

-----------------------------------------------------------------------------
(* A step of the operator is one of UserIdentity at each user.             *)

PubOf(u) == IF U!Exists(User(u)) THEN ustore[User(u)].pub ELSE NoKey

LEMMA UserLifeTypes ==
  ASSUME UserTypeOK, KeyInv, NEW u \in Users
  PROVE  /\ U!Exists(User(u)) \in BOOLEAN /\ ReadyWithJWT(u) \in BOOLEAN
         /\ SawLatest(u) \in BOOLEAN
         /\ HeldBy(u) \in UserKeys \cup {Absent}
         /\ PubOf(u) \in UserKeys \cup {NoKey}
         /\ HoldsJWT(u) => HeldBy(u) # Absent
         /\ ReadyWithJWT(u) => PubOf(u) # NoKey
<1>1. U!Exists(User(u)) \in BOOLEAN
  BY Zenon DEF U!Exists
<1>2. SawLatest(u) \in BOOLEAN
  BY DEF SawLatest
<1>3. /\ ustore[User(u)] \in UserObject \cup {Absent}
      /\ ustore[Credentials(u)] \in UserCredentials \cup {Absent}
  BY UserTypeParts, UserKinds DEF UserClusterTypeOK
<1>4. ReadyWithJWT(u) \in BOOLEAN
  <2>1. U!Exists(User(u)) => ustore[User(u)].ready \in BOOLEAN /\ ustore[User(u)].observed \in BOOLEAN
    BY <1>3 DEF U!Exists, UserObject
  <2> QED
    BY <2>1, Zenon DEF ReadyWithJWT, U!Exists
<1>5. HoldsJWT(u) => HeldBy(u) \in UserKeys
  BY <1>3 DEF HeldBy, HoldsJWT, U!Exists, UserCredentials, UserJWT, UserSeeds, KeyInv, UsersNamed
<1>6. HeldBy(u) \in UserKeys \cup {Absent} /\ (HoldsJWT(u) => HeldBy(u) # Absent)
  BY <1>5, UserAbsentAssumption DEF HeldBy
<1>7. PubOf(u) \in UserKeys \cup {NoKey}
  BY <1>3 DEF PubOf, U!Exists, UserObject, UserSeeds
<1>8. ReadyWithJWT(u) => PubOf(u) # NoKey
  BY DEF ReadyWithJWT, PubOf, U!Exists, KeyInv, UsersNamed, NamedIfReady
<1> QED
  BY <1>1, <1>2, <1>4, <1>6, <1>7, <1>8

(* The same after a step.                                                  *)
LEMMA UserLifeTypesNext ==
  ASSUME UserTypeOK', KeyInv', NEW u \in Users
  PROVE  /\ U!Exists(User(u))' \in BOOLEAN /\ ReadyWithJWT(u)' \in BOOLEAN
         /\ SawLatest(u)' \in BOOLEAN
         /\ HeldBy(u)' \in UserKeys \cup {Absent}
         /\ PubOf(u)' \in UserKeys \cup {NoKey}
         /\ ReadyWithJWT(u)' => PubOf(u)' # NoKey
<1>1. U!Exists(User(u))' \in BOOLEAN
  BY Zenon DEF U!Exists
<1>2. SawLatest(u)' \in BOOLEAN
  BY DEF SawLatest
<1>3. /\ ustore'[User(u)] \in UserObject \cup {Absent}
      /\ ustore'[Credentials(u)] \in UserCredentials \cup {Absent}
  BY UserKinds DEF UserTypeOK
<1>4. ReadyWithJWT(u)' \in BOOLEAN
  <2>1. U!Exists(User(u))' => ustore'[User(u)].ready \in BOOLEAN /\ ustore'[User(u)].observed \in BOOLEAN
    BY <1>3 DEF U!Exists, UserObject
  <2> QED
    BY <2>1, Zenon DEF ReadyWithJWT, U!Exists
<1>5. HoldsJWT(u)' => HeldBy(u)' \in UserKeys
  BY <1>3 DEF HeldBy, HoldsJWT, U!Exists, UserCredentials, UserJWT, UserSeeds, KeyInv, UsersNamed
<1>6. HeldBy(u)' \in UserKeys \cup {Absent}
  BY <1>5 DEF HeldBy
<1>7. PubOf(u)' \in UserKeys \cup {NoKey}
  BY <1>3 DEF PubOf, U!Exists, UserObject, UserSeeds
<1>8. ReadyWithJWT(u)' => PubOf(u)' # NoKey
  BY DEF ReadyWithJWT, PubOf, U!Exists, KeyInv, UsersNamed, NamedIfReady
<1> QED
  BY <1>1, <1>2, <1>4, <1>6, <1>7, <1>8

(* The actions of UserIdentity, in terms of the operator.                  *)
UserSettled(u) == PubOf(u) # NoKey /\ HeldBy(u) = PubOf(u)
UserKeeps(u) ==
  /\ U!Exists(User(u))' = U!Exists(User(u)) /\ PubOf(u)' = PubOf(u)
  /\ ReadyWithJWT(u)' = ReadyWithJWT(u)
UserLives(u) ==
  \/ UserKeeps(u) /\ HeldBy(u)' = HeldBy(u)
  \/ ~(UserSettled(u) /\ SawLatest(u)) /\ HeldBy(u)' \in UserKeys /\ UserKeeps(u)
  \/ /\ U!Exists(User(u)) /\ U!Exists(User(u))' /\ HeldBy(u)' = HeldBy(u)
     /\ \/ PubOf(u)' = PubOf(u)
        \/ ~UserSettled(u) /\ PubOf(u)' # NoKey /\ HeldBy(u) \in {PubOf(u)', Absent}
     /\ ReadyWithJWT(u)' => PubOf(u)' # NoKey
  \/ HeldBy(u)' = Absent /\ UserKeeps(u)
  \/ /\ U!Exists(User(u)) /\ ~U!Exists(User(u))' /\ HeldBy(u)' = HeldBy(u)
     /\ PubOf(u)' = NoKey /\ ~ReadyWithJWT(u)'
  \/ /\ ~U!Exists(User(u)) /\ U!Exists(User(u))' /\ HeldBy(u)' = HeldBy(u)
     /\ PubOf(u)' = NoKey /\ ~ReadyWithJWT(u)'

LEMMA MovesLive ==
  ASSUME UserTypeOK, UserTypeOK', KeyInv, KeyInv', NEW u \in Users, UserMoves(u)
  PROVE  UserLives(u)
<1>1. /\ HeldBy(u) \in UserKeys \cup {Absent} /\ HeldBy(u)' \in UserKeys \cup {Absent}
      /\ PubOf(u) \in UserKeys \cup {NoKey}
      /\ ReadyWithJWT(u)' => PubOf(u)' # NoKey
  BY UserLifeTypes, UserLifeTypesNext
<1>2. ustore'[User(u)] = ustore[User(u)] => UserKeeps(u)
  BY DEF UserKeeps, PubOf, ReadyWithJWT, U!Exists
<1>3. ustore'[Credentials(u)] = ustore[Credentials(u)] => HeldBy(u)' = HeldBy(u)
  BY DEF HeldBy, HoldsJWT, U!Exists
<1>4. CASE CredentialsWritten(u)
  <2>1. UserKeeps(u)
    BY <1>2, <1>4 DEF CredentialsWritten
  <2>2. CASE ustore'[Credentials(u)] = Absent
    <3>1. HeldBy(u)' = Absent
      BY <2>2 DEF HeldBy, HoldsJWT, U!Exists
    <3> QED
      BY <2>1, <3>1 DEF UserLives
  <2>3. CASE /\ ustore'[Credentials(u)] # Absent
             /\ IF HoldsJWT(u)
                  THEN /\ ustore'[Credentials(u)].jwt # Absent
                       /\ ustore'[Credentials(u)].jwt.sub = ustore[Credentials(u)].jwt.sub
                  ELSE ustore'[Credentials(u)].jwt = Absent
    <3>1. HeldBy(u)' = HeldBy(u)
      BY <2>3 DEF HeldBy, HoldsJWT, U!Exists
    <3> QED
      BY <2>1, <3>1 DEF UserLives
  <2>4. CASE /\ ustore'[Credentials(u)] # Absent /\ ustore'[Credentials(u)].jwt # Absent
             /\ ustore'[Credentials(u)].jwt.sub \in UserKeys
             /\ ~(HoldsJWT(u) /\ U!Exists(User(u))
                    /\ ustore[User(u)].pub = ustore[Credentials(u)].jwt.sub /\ SawLatest(u))
    <3>1. HeldBy(u)' \in UserKeys
      BY <2>4 DEF HeldBy, HoldsJWT, U!Exists
    <3>2. UserSettled(u) => HoldsJWT(u) /\ U!Exists(User(u))
                              /\ ustore[User(u)].pub = ustore[Credentials(u)].jwt.sub
      BY <1>1, UserAbsentAssumption DEF UserSettled, PubOf, HeldBy
    <3> QED
      BY <2>1, <2>4, <3>1, <3>2 DEF UserLives
  <2> QED
    BY <1>4, <2>2, <2>3, <2>4 DEF CredentialsWritten
<1>5. CASE UserWritten(u)
  <2>1. HeldBy(u)' = HeldBy(u)
    BY <1>3, <1>5 DEF UserWritten
  <2>2. CASE ustore[User(u)] # Absent /\ ustore'[User(u)] = Absent
    BY <2>1, <2>2 DEF UserLives, PubOf, ReadyWithJWT, U!Exists
  <2>3. CASE /\ ustore[User(u)] = Absent /\ ustore'[User(u)] # Absent
             /\ ustore'[User(u)].pub = NoKey /\ ~ustore'[User(u)].observed
    BY <2>1, <2>3 DEF UserLives, PubOf, ReadyWithJWT, U!Exists
  <2>4. CASE /\ ustore[User(u)] # Absent /\ ustore'[User(u)] # Absent
             /\ \/ ustore'[User(u)].pub = ustore[User(u)].pub
                \/ /\ ustore'[User(u)].pub # NoKey
                   /\ HeldBy(u) \in {ustore'[User(u)].pub, Absent}
    <3>1. /\ PubOf(u) = ustore[User(u)].pub /\ PubOf(u)' = ustore'[User(u)].pub
          /\ U!Exists(User(u)) /\ U!Exists(User(u))'
      BY <2>4 DEF PubOf, U!Exists
    <3>2. HeldBy(u) \in {PubOf(u)', Absent} /\ PubOf(u)' # PubOf(u) => ~UserSettled(u)
      BY <1>1, UserAbsentAssumption DEF UserSettled
    <3> QED
      BY <1>1, <2>1, <2>4, <3>1, <3>2 DEF UserLives
  <2> QED
    BY <1>5, <2>2, <2>3, <2>4 DEF UserWritten
<1>6. CASE /\ ustore'[User(u)] = ustore[User(u)]
           /\ ustore'[Credentials(u)] = ustore[Credentials(u)]
  BY <1>2, <1>3, <1>6 DEF UserLives
<1> QED
  BY <1>4, <1>5, <1>6 DEF UserMoves

(* The whole operator implements UserIdentity, with its retries, crashes,  *)
(* deletions, edits and lagging informers (natsuser_controller.go:150-275). *)
THEOREM UserIdentityImplemented == FullSpec => UserIdentityRefined
<1>1. FullInit => KeyInv
  BY InitKeys
<1>2. TypeOK /\ UserTypeOK /\ KeyInv /\ [FullNext]_userOperatorVars => KeyInv'
  BY NextKeys
<1>3. FullInit /\ UserTypeOK => UserLife!Init
  <2> SUFFICES ASSUME FullInit, UserTypeOK
               PROVE  UserLife!Init
    OBVIOUS
  <2>1. ASSUME NEW u \in Users
        PROVE  /\ U!Exists(User(u)) \in BOOLEAN /\ SawLatest(u) \in BOOLEAN
               /\ ~HoldsJWT(u) /\ PubOf(u) = NoKey /\ ReadyWithJWT(u) = FALSE
    <3>1. U!Exists(User(u)) \in BOOLEAN /\ SawLatest(u) \in BOOLEAN
      BY InitKeys, UserLifeTypes
    <3>2. ~HoldsJWT(u) /\ PubOf(u) = NoKey /\ ReadyWithJWT(u) = FALSE
      BY UsersAtFirst DEF HoldsJWT, PubOf, ReadyWithJWT, NewUser, U!Exists
    <3> QED
      BY <3>1, <3>2
  <2> QED
    BY <2>1 DEF UserLife!Init, PubOf
<1>4. TypeOK /\ UserTypeOK /\ UserTypeOK' /\ KeyInv /\ [FullNext]_userOperatorVars
      => [UserLife!Next]_(UserLife!identityVars)
  <2> SUFFICES ASSUME TypeOK, UserTypeOK, UserTypeOK', KeyInv, [FullNext]_userOperatorVars
               PROVE  UserLife!Next
    OBVIOUS
  <2>1. KeyInv' /\ \A u \in Users : UserMoves(u)
    BY NextKeys
  <2>2. UserLife!IdentityTypeOK'
    <3>1. ASSUME NEW u \in Users
          PROVE  /\ U!Exists(User(u))' \in BOOLEAN /\ ReadyWithJWT(u)' \in BOOLEAN
                 /\ SawLatest(u)' \in BOOLEAN
                 /\ HeldBy(u)' \in UserKeys \cup {Absent}
                 /\ PubOf(u)' \in UserKeys \cup {NoKey}
      BY <2>1, UserLifeTypesNext
    <3> QED
      BY <3>1 DEF UserLife!IdentityTypeOK, HeldBy, PubOf
  <2>3. ASSUME NEW u \in Users
        PROVE  \/ UserLife!Stays(u) \/ UserLife!Issue(u) \/ UserLife!Judge(u)
               \/ UserLife!Lose(u) \/ UserLife!Retire(u) \/ UserLife!Appear(u)
    <3>1. UserLives(u)
      BY <2>1, <2>3, MovesLive
    <3> QED
      BY <3>1 DEF UserLives, UserKeeps, UserSettled, HeldBy, PubOf, UserLife!Settled,
                  UserLife!Stays, UserLife!Keeps, UserLife!Issue, UserLife!Judge, UserLife!Lose,
                  UserLife!Retire, UserLife!Appear
  <2> QED
    BY <2>2, <2>3 DEF UserLife!Next
<1>5. UserIdentityRefined <=> UserLife!Init /\ [][UserLife!Next]_(UserLife!identityVars)
  BY DEF UserIdentityRefined, UserLife!Spec
<1> QED
  BY <1>1, <1>2, <1>3, <1>4, <1>5, FullTyped, PTL DEF FullSpec

=============================================================================
