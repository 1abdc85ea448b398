SPECIFICATION GenesisSpec
CONSTANTS
  alice = alice
  tf = tf
  distr = distr
  gov = gov
  aliceLower = aliceLower
  aliceUpper = aliceUpper
  govAddr = govAddr
  dA = dA
  uire = uire
  m0 = m0
  m1 = m1
  Accounts <- MCAccounts
  ModuleAccounts <- MCModuleAccounts
  Blocked <- MCBlocked
  TF = tf
  Distr = distr
  Addrs <- MCAddrs
  AccountOf <- MCAccountOf
  Authority = govAddr
  Denoms <- MCDenoms
  CreatorOf <- MCCreatorOf
  CanonicalOf <- MCCanonicalOf
  Base = uire
  Metas <- MCMetas
  DefaultMeta = m0
  NoMeta = NoMeta
  NoAddr = NoAddr
  CapabilitySets <- OnlyIre
  Amounts <- MCAmounts
  MaxInt = 1
  Fees <- MCFees
  GenesisHoldings <- MCHoldings
  NoFile = NoFile
INVARIANT GenesisTypeOK
INVARIANT DenomRecordsAgree
INVARIANT ImportRestores
