------------------------------- MODULE MCSite -------------------------------
(* A market with a bet and a resolve, two profiles, two addresses.         *)
EXTENDS Site

CONSTANTS t1, t2, t3

a == "ire1a"
b == "ire1b"
MCTxs == {t1, t2, t3}
MCBet == t1 :> [op |-> "open"] @@ t2 :> [op |-> "buy", m |-> t1, s |-> "y", a |-> 3]
         @@ t3 :> [op |-> "resolve", m |-> t1]
MCAddrs == t1 :> <<a>> @@ t2 :> <<b, a>> @@ t3 :> <<b>>
MCNamed == t1 :> <<a, b>> @@ t2 :> <<b, a>> @@ t3 :> <<b>>
MCSender == t1 :> a @@ t2 :> b @@ t3 :> b
MCMarks == t1 :> {"IREINSCRIBE1", "ire-bet"} @@ t2 :> {"IREVAL1"} @@ t3 :> {}
MCProfile == t1 :> {"n", "x"} @@ t2 :> {"x"} @@ t3 :> {"n"}
MCFields == {"n", "x"}
MCIreAddrs == {a, b}
MCEntered == {a, b, "nonsense", ""}
MCIdEntered == {a, b, "nonsense"}
MCEndpoints == {"rpc_status", "bonded_validators"}
MCPosted == [markets |-> {t2, t3}, wallet |-> {t1}, mempool |-> {t1},
             points |-> {t1}, vault |-> {}, explorer |-> {t1},
             id |-> {t1}, sentinel |-> {}]
MCHistory == [[p \in DOMAIN MCPosted |-> <<>>] EXCEPT
               !.markets = <<<<>>, <<t1>>>>, !.wallet = <<<<>>, <<>>>>,
               !.mempool = <<<<>>, <<>>>>, !.id = <<<<>>, <<t3, t2>>>>]
=============================================================================
