SPECIFICATION Spec
CONSTANTS
  alice = alice
  bob = bob
  tf = tf
  distr = distr
  gov = gov
  aliceLower = aliceLower
  aliceUpper = aliceUpper
  bobAddr = bobAddr
  govAddr = govAddr
  dA = dA
  dB = dB
  uire = uire
  m0 = m0
  m1 = m1
  Accounts <- MCAccounts
  ModuleAccounts <- MCModuleAccounts
  Blocked <- MCBlocked
  TF = tf
  Distr = distr
  Addrs <- MCAddrs
  AccountOf <- MCAccountOf
  Authority = govAddr
  Denoms <- TwoDenoms
  CreatorOf <- TwoCreatorOf
  CanonicalOf <- MCCanonicalOf
  Base = uire
  Metas <- MCMetas
  DefaultMeta = m0
  NoMeta = NoMeta
  NoAddr = NoAddr
  CapabilitySets <- IreAndAll
  Amounts <- MCAmounts
  MaxInt = 1
  Fees <- MCFeesOne
  GenesisHoldings <- MCHoldings
INVARIANT TypeOK
INVARIANT SupplyIsBacked
INVARIANT ModuleAccountEmpty
INVARIANT DenomRecordsAgree
PROPERTY NoTheft
PROPERTY SupplyAuthority
PROPERTY OwnershipHandover
