--------------------------- MODULE MCBrokersDesk ----------------------------
(* One account, which a load forgets and eth_accounts reports again; two    *)
(* agents, each with its console and its skill, and recovered from either.  *)
EXTENDS BrokersDesk, TLC

CONSTANTS t1, t2, w1, s1, s2

MCTokens == {t1, t2}
MCConsoles == {t1, t2}
MCAccounts == {w1}
MCSkill == t1 :> s1 @@ t2 :> s2
MCActive == {}
MCShown == {w1}
=============================================================================
