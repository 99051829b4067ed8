------------------------------ MODULE MCUsers ------------------------------
(* Values of the constants of UserProperties for TLC.                        *)
EXTENDS UserProperties

Imported == [mode |-> "jwt", jwt |-> "import", target |-> "Secret"]
Token    == [mode |-> "token", jwt |-> "none", target |-> "Secret"]

OnlyImported == {Imported}
OnlyToken    == {Token}
JWTOrToken   == {Imported, Token}

JWTUser == [auth |-> "jwt", account |-> "a1", import |-> FALSE, perms |-> "all",
            name |-> 0, password |-> "generate"]
TokenUser == [JWTUser EXCEPT !.auth = "token", !.name = 31, !.password = "secret"]

(* A JWT user or a token user, as the configuration has it. *)
InheritingUser == [TokenUser EXCEPT !.auth = "inherit", !.import = TRUE]
GeneratedUser  == [JWTUser EXCEPT !.auth = "inherit", !.account = Absent]

FewerUser == [JWTUser EXCEPT !.perms = "few"]

JWTUsers        == {JWTUser}
Regranted       == {JWTUser, FewerUser}
EditedUsers     == {JWTUser, FewerUser, TokenUser}
InheritingUsers == {InheritingUser}
GeneratedUsers  == {GeneratedUser}

(* The configuration controller writes nothing the user controller reads, so *)
(* that their steps commute: one of them is explored at a time, or only the  *)
(* other two controllers. Something may go wrong in the core or with the     *)
(* users, not both.                                                          *)
ConfigApart == cpc = "idle" \/ upc = "idle"
ConfigAway  == cpc = "idle"
OneDisturbance == budget = Budget \/ ubudget = UserBudget
=============================================================================
