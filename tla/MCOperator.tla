----------------------------- MODULE MCOperator -----------------------------
(* Values of the constants of OperatorProperties for TLC.                    *)
EXTENDS OperatorProperties

Generate == [mode |-> "jwt", jwt |-> "generate", target |-> "Secret"]
Mixed    == [mode |-> "mixed", jwt |-> "import", target |-> "ConfigMap"]
Token    == [mode |-> "token", jwt |-> "none", target |-> "Secret"]
TokenMap == [mode |-> "token", jwt |-> "none", target |-> "ConfigMap"]
Bare     == [mode |-> "mixed", jwt |-> "none", target |-> "Secret"]

Import   == [Generate EXCEPT !.jwt = "import"]

OnlyGenerate == {Generate}
OnlyImport   == {Import}
OnlyBare     == {Bare}
WithBare     == {Generate, Bare}
EveryMode    == {Generate, Mixed, Token, TokenMap}

(* The configuration controller does not get beyond its queue. It writes     *)
(* nothing an account with an imported operator key depends on; a trigger    *)
(* that its writes would refuse fails like one that the network loses.       *)
ConfigAway == cpc = "idle"
=============================================================================
