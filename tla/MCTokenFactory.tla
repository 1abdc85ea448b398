--------------------------- MODULE MCTokenFactory ---------------------------
(***************************************************************************)
(* Small instances of TokenFactory: two users (alice with two spellings of *)
(* her address), the gov account that may both hold and sign, and two      *)
(* blocked module accounts.                                                *)
(***************************************************************************)
EXTENDS TokenFactory

CONSTANTS alice, bob, tf, distr, gov          \* accounts
CONSTANTS aliceLower, aliceUpper, bobAddr, govAddr  \* strings
CONSTANTS dA, dB, uire                        \* denoms
CONSTANTS m0, m1                              \* metadata records

MCAccounts == {alice, bob, tf, distr, gov}
MCModuleAccounts == {tf, distr, gov}
MCBlocked == {tf, distr}
MCAddrs == {aliceLower, aliceUpper, bobAddr, govAddr}
MCAccountOf == [s \in MCAddrs |->
  CASE s = bobAddr -> bob [] s = govAddr -> gov [] OTHER -> alice]
MCCanonicalOf == [s \in MCAddrs |-> IF s = aliceUpper THEN aliceLower ELSE s]
MCMetas == {m0, m1}

\* One denom named with alice's upper-case spelling.
OneDenom == {dA}
OneCreatorOf == [d \in OneDenom |-> aliceUpper]
\* A second one, of bob.
TwoDenoms == {dA, dB}
TwoCreatorOf == [d \in TwoDenoms |-> IF d = dA THEN aliceUpper ELSE bobAddr]

IreCapabilities == {EnableSetMetadata, EnableBurnFrom}
AllCapabilities == {EnableSetMetadata, EnableBurnFrom, EnableForceTransfer,
                    EnableCommunityPoolFeeFunding}
IreAndAll == {IreCapabilities, AllCapabilities}

Nobody == [a \in MCAccounts |-> 0]
MCHoldings == {Nobody, [Nobody EXCEPT ![alice] = 1]}
MCAmounts == {1}
MCAmountsTwo == {1, 2}
MCFeesOne == {[denom |-> uire, amount |-> 0], [denom |-> uire, amount |-> 1],
              [denom |-> dA, amount |-> 1]}
=============================================================================
