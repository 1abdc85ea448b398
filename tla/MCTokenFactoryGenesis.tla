----------------------- MODULE MCTokenFactoryGenesis -----------------------
(***************************************************************************)
(* A small instance of TokenFactoryGenesis: one user with two spellings of *)
(* one address and a denom named with the upper-case one.                  *)
(***************************************************************************)
EXTENDS TokenFactoryGenesis

CONSTANTS alice, tf, distr, gov, aliceLower, aliceUpper, govAddr, dA, uire, m0, m1

MCAccounts == {alice, tf, distr, gov}
MCModuleAccounts == {tf, distr, gov}
MCBlocked == {tf, distr}
MCAddrs == {aliceLower, aliceUpper, govAddr}
MCAccountOf == [s \in MCAddrs |-> IF s = govAddr THEN gov ELSE alice]
MCCanonicalOf == [s \in MCAddrs |-> IF s = aliceUpper THEN aliceLower ELSE s]
MCMetas == {m0, m1}
MCDenoms == {dA}
MCCreatorOf == [d \in MCDenoms |-> aliceUpper]
OnlyIre == {{EnableSetMetadata, EnableBurnFrom}}
Nobody == [a \in MCAccounts |-> 0]
MCHoldings == {Nobody, [Nobody EXCEPT ![alice] = 1]}
MCAmounts == {1}
MCFees == {[denom |-> uire, amount |-> 0], [denom |-> uire, amount |-> 1]}
=============================================================================
