-------------------------- MODULE MCTokenFactoryTx --------------------------
(***************************************************************************)
(* Small instances of TokenFactoryTx: one user with one address, the gov   *)
(* account, two blocked module accounts.                                   *)
(***************************************************************************)
EXTENDS TokenFactoryTx

CONSTANTS alice, tf, distr, gov, aliceAddr, tfAddr, govAddr, dA, uire, m0, m1

MCAccounts == {alice, tf, distr, gov}
MCModuleAccounts == {tf, distr, gov}
MCBlocked == {tf, distr}
MCAddrs == {aliceAddr, tfAddr, govAddr}
MCAccountOf == [s \in MCAddrs |->
  CASE s = aliceAddr -> alice [] s = tfAddr -> tf [] s = govAddr -> gov]
MCCanonicalOf == [s \in MCAddrs |-> s]
MCMetas == {m0, m1}
MCDenoms == {dA}
MCCreatorOf == [d \in MCDenoms |-> aliceAddr]
IreCapabilities == {EnableSetMetadata, EnableBurnFrom}
AllCapabilities == {EnableSetMetadata, EnableBurnFrom, EnableForceTransfer,
                    EnableCommunityPoolFeeFunding}
IreAndAll == {IreCapabilities, AllCapabilities}
Nobody == [a \in MCAccounts |-> 0]
MCHoldings == {Nobody, [Nobody EXCEPT ![alice] = 1]}
MCAmounts == {1}
MCFees == {[denom |-> uire, amount |-> 0], [denom |-> uire, amount |-> 1],
           [denom |-> dA, amount |-> 1]}
=============================================================================
