SPECIFICATION Spec
CONSTANTS
  a = a
  b = b
  t1 = t1
  t2 = t2
  Wallets <- MCWallets
  NoAddr = NoAddr
  Ids <- MCIds
  NoRec = NoRec
  MaxPayments = 1
  MaxVerifying = 1
  MaxTransfers = 0
  Modes = {{"switches"}}
SYMMETRY Symmetric
INVARIANT PaidByItsAddress
