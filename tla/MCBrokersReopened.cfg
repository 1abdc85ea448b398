SPECIFICATION LiveSpec
CONSTANTS
  a = a
  b = b
  t1 = t1
  t2 = t2
  Wallets <- OneWallet
  NoAddr = NoAddr
  Ids <- MCIds
  NoRec = NoRec
  MaxPayments = 2
  MaxVerifying = 1
  MaxTransfers = 0
  Modes = {{"recovers"}}
PROPERTY PendingResolves
