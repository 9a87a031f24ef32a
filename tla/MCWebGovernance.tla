----------------------------- MODULE MCWebGovernance -----------------------------
(* The governance pages for a wallet with two accounts, one without votes. *)
EXTENDS WebGovernance, TLC

MCBalance == "me" :> 1 @@ "poor" :> 0 @@ "whale" :> 1
\* A vote against raises the quorum by a fraction of a basis point.
\* They change during the voting delay.
MCParamsAt == [n \in 0..6 |-> [min |-> IF n < 1 THEN 4143 ELSE 7143, max |-> 7500, coefficient |-> 1]]
MCNames == {"whale", "poor.eth"}
MCNameOf == "whale" :> "whale" @@ "poor" :> "poor" @@ "me" :> "me" @@ "poor.eth" :> "poor"
MCABI == "token" :> {"mint", "burn"} @@ "vault" :> None
MCArity == "mint" :> 0 @@ "burn" :> 1
=============================================================================
