SPECIFICATION Spec
CONSTANTS
  a = a
  b = b
  t1 = t1
  t2 = t2
  Wallets <- MCWallets
  NoAddr = NoAddr
  Ids <- MCIds
  NoRec = NoRec
  MaxPayments = 2
  MaxVerifying = 1
  MaxTransfers = 1
  Modes = {{"recovers"}, {"switches", "lags"}}
SYMMETRY Symmetric
INVARIANT TypeOK
INVARIANT ConfirmedIsMined
INVARIANT ConfirmedHasReceipt
INVARIANT PaidUnlessSwitched
INVARIANT PaymentsByOwners
INVARIANT RecordsOfOwners
INVARIANT PendingIsOwn
INVARIANT OnePaymentUnlessRecovered
