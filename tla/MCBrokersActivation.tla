------------------------ MODULE MCBrokersActivation ------------------------
(* Two wallets and two tokens. *)
EXTENDS BrokersActivation, TLC

CONSTANTS a, b, t1, t2
MCWallets == {a, b}
OneWallet == {a}
MCIds == {t1, t2}
Symmetric == Permutations(MCWallets) \cup Permutations(MCIds)
=============================================================================
