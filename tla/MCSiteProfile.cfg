CONSTANTS
  t1 = t1
  t2 = t2
  t3 = t3
  Null = Null
  Nothing = Nothing
  Txs <- MCTxs
  Bet <- MCBet
  Addrs <- MCAddrs
  Mentions <- MCAddrs
  Named <- MCNamed
  Marks <- MCMarks
  Sender <- MCSender
  Profile <- MCProfile
  Fields <- MCFields
  IreAddrs <- MCIreAddrs
  IdAddrs <- MCIreAddrs
  Scored <- MCIreAddrs
  Entered <- MCEntered
  IdEntered <- MCIdEntered
  Endpoints <- MCEndpoints
  Posted <- MCPosted
  History <- MCHistory
  MaxHeight = 3
  MaxPolls = 2
  MaxEnrich = 1
  MkWindow = 3
  MetaCap = 2
  WaWindow = 2
  MpWindow = 2
  PtWindow = 2
  IdWindow = 2
SPECIFICATION Spec
INVARIANT
  ProfileOfSender
