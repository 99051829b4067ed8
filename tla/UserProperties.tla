--------------------------- MODULE UserProperties ---------------------------
(***************************************************************************)
(* What the operator is to guarantee to users, next to what it guarantees  *)
(* to accounts (OperatorProperties), and the fairness of its runtime.      *)
(***************************************************************************)
EXTENDS OperatorProperties, UserOperator

Alive(u) == U!Exists(User(u)) /\ ~ustore[User(u)].deleting
HoldsJWT(u) == U!Exists(Credentials(u)) /\ ustore[Credentials(u)].jwt # Absent
HoldsToken(u) == U!Exists(Credentials(u)) /\ ustore[Credentials(u)].token # Absent

(* The account a user belongs to announces this key.                       *)
AnnouncedBy(u, key) ==
  LET a == ustore[User(u)].spec.account
  IN  a \in Accounts /\ Exists(Account(a)) /\ key = store[Account(a)].id /\ key # NoKey

-----------------------------------------------------------------------------

(* The ID of the account is checked (natsuser_controller.go:160) before    *)
(* the seed is read with which a user JWT is signed (209), and the account *)
(* controller runs in between. Yet every stored JWT has as its issuer the  *)
(* ID that the account announces, as long as that exists: a server that    *)
(* knows the account accepts it.                                           *)
SignedByAccount ==
  \A u \in Users : U!Exists(User(u)) /\ HoldsJWT(u) =>
    LET a == ustore[User(u)].spec.account
    IN  a \in Accounts /\ Exists(Account(a)) => AnnouncedBy(u, ustore[Credentials(u)].jwt.iss)

(* The reconciliation of u works from the newest state of the user, and    *)
(* found the credentials as they are when it looked for them first.        *)
SawLatest(u) == User(u) \in ucurrent["worker"] /\ Credentials(u) \in ucurrent["look"]

(* Credentials whose key the status of the user announces are not given    *)
(* another key by reconcileJWTUser, not after a lost answer, an edit or a  *)
(* restart, unless it works from a copy of the user or of the credentials  *)
(* that is out of date (natsuser_controller.go:59, 165-183, 248-263).      *)
AnnouncedCredentialsKept ==
  [][\A u \in Users :
       LET before == ustore[Credentials(u)]
           after  == ustore'[Credentials(u)]
       IN  HoldsJWT(u) /\ U!Exists(User(u)) /\ ustore[User(u)].pub = before.jwt.sub
           => \/ after = Absent
              \/ after.jwt # Absent /\ after.jwt.sub = before.jwt.sub
              \/ ~SawLatest(u)]_userOperatorVars

(* The secret has the kind of credentials the spec names: a JWT whose      *)
(* public key the status announces, whatever permissions it gives; or a    *)
(* token, with the username of the spec if it gives one.                   *)
HasKindNamed(u) ==
  LET user == ustore[User(u)] IN
  /\ user.spec.auth = "jwt" => HoldsJWT(u) /\ user.pub # NoKey
  /\ user.spec.auth = "token" =>
       /\ HoldsToken(u)
       /\ user.spec.name # NoKey => ustore[Credentials(u)].token.name = user.spec.name

(* Somebody is about to look at the user again: its request is queued or   *)
(* in hand, an error is about to be retried, or an event is on its way.    *)
UserAttended(u) ==
  \/ process # "running"
  \/ ureq = u
  \/ User(u) \in udue \/ utimer[User(u)] = "backoff"
  \/ User(u) \notin ucurrent["cache"] \/ Credentials(u) \notin ucurrent["cache"]

(* A user that is Ready for its current spec has the kind of credentials   *)
(* that spec names, or is about to be looked at again: no deletion of the  *)
(* credentials, no edit after the spec was read, and no reconciliation     *)
(* that overwrote them from a stale copy goes unnoticed                    *)
(* (natsuser_controller.go:108-142, 503-509).                              *)
UserReadyMeansServed ==
  \A u \in Users :
    U!Exists(User(u)) /\ ustore[User(u)].ready /\ ustore[User(u)].observed =>
      HasKindNamed(u) \/ UserAttended(u)

(* "The operator will automatically update the user JWT" after an edit of  *)
(* permissions (examples/jwt-auth/README.md:286): a JWT user that is Ready *)
(* for its current spec has a JWT with the permissions of that spec.       *)
PermissionsApplied ==
  \A u \in Users :
    LET user == ustore[User(u)] IN
    U!Exists(User(u)) /\ user.ready /\ user.observed /\ user.spec.auth = "jwt"
        /\ HoldsJWT(u)
      => ustore[Credentials(u)].jwt.perms = user.spec.perms

(* The whole operator implements the abstract life of a user's key         *)
(* (UserIdentity): the secret holds the JWT of a key, the status announces *)
(* a key, and a reconciliation is informed if it saw the latest of both.   *)
ReadyWithJWT(u) ==
  LET user == ustore[User(u)]
  IN  U!Exists(User(u)) /\ user.spec.auth = "jwt" /\ user.ready /\ user.observed

UserLife == INSTANCE UserIdentity WITH
  None      <- Absent,
  Keys      <- UserKeys,
  alive     <- [u \in Users |-> U!Exists(User(u))],
  held      <- [u \in Users |-> IF HoldsJWT(u) THEN ustore[Credentials(u)].jwt.sub ELSE Absent],
  announced <- [u \in Users |-> IF U!Exists(User(u)) THEN ustore[User(u)].pub ELSE NoKey],
  ready     <- [u \in Users |-> ReadyWithJWT(u)],
  informed  <- [u \in Users |-> SawLatest(u)]

(* natsuser_controller.go:150-275, with its retries, crashes, stale reads, *)
(* deletions, edits of the spec and the interleavings of three             *)
(* controllers, gives, announces and takes keys as UserIdentity says.      *)
UserIdentityRefined == UserLife!Spec

-----------------------------------------------------------------------------
(* Eventually.                                                             *)

(* As in Fairness, for the user controller, its informers, its timers and  *)
(* the collector of its secrets.                                           *)
UserLagging == {o \in UserObjects : o[1] \in UserLag}
UserFairness ==
  /\ \A o \in UserLagging : WF_userOperatorVars(U!Deliver(o) /\ UNCHANGED <<userWorker, vars>>)
  /\ \A r \in UserRequests : WF_userOperatorVars(U!TimerFires(r) /\ UNCHANGED <<userWorker, vars>>)
  /\ \A u \in Users : WF_userOperatorVars(CollectCredentials(u) /\ UNCHANGED <<userWorker, vars>>)
  /\ WF_userOperatorVars(UserStep)
  /\ \A u \in Users : SF_userOperatorVars(FetchUser(u) /\ UNCHANGED vars)

(* Of the other two controllers users need only the one of the accounts.   *)
AccountFairness ==
  /\ \A o \in Lagging :
       WF_userOperatorVars(Deliver(o) /\ UNCHANGED <<accountWorker, configWorker, userVars>>)
  /\ \A a \in Accounts :
       WF_userOperatorVars(TimerFires(Account(a))
                             /\ UNCHANGED <<accountWorker, configWorker, userVars>>)
  /\ WF_userOperatorVars(FullRestart)
  /\ WF_userOperatorVars(AccountStep /\ UNCHANGED userVars)
  /\ \A a \in Accounts :
       SF_userOperatorVars(FetchAccount(a) /\ UNCHANGED <<configWorker, userVars>>)

FullFairSpec == FullSpec /\ AccountFairness /\ UserFairness

(* The servers can let the user in with what its secret holds.             *)
Served(u) ==
  LET user   == ustore[User(u)]
      secret == ustore[Credentials(u)]
      type   == AuthTypeOf(user.spec, store[AuthConfig])
  IN  /\ user.state = "Ready" /\ user.ready
      /\ type = "jwt" =>
           HoldsJWT(u) /\ secret.jwt.sub = user.pub /\ AnnouncedBy(u, secret.jwt.iss)
      /\ type = "token" =>
           HoldsToken(u) /\ (user.spec.password = "secret" =>
             secret.token.password = ustore[PasswordOf(u)].password)

(* Once users and failures leave it alone, the operator serves every user, *)
(* whether its account was ready before it or not.                         *)
UsersServed == <>[](\A u \in Users : Alive(u) => Served(u))

(* "Upgrade to latest operator version with the fix" (README.md:370) of    *)
(* "User Credentials Keep Regenerating": in the end no credentials change. *)
CredentialsSettle ==
  <>[][\A u \in Users : UNCHANGED ustore[Credentials(u)]]_userOperatorVars

=============================================================================
