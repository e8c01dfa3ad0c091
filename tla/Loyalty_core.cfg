SPECIFICATION FairSpec
CONSTANTS
  o1 = o1  o2 = o2  p1 = p1
  r1 = r1  r2 = r2 
  Orders <- MCOrders
  TestIds = {}
  Phones <- MCPhones
  PhoneOf <- MCPhoneOf
  NoPhone = NoPhone
  Exempt = {}
  Reqs <- MCReqs
  NoReq = NoReq
  NoOrder = NoOrder
  NoWallet = NoWallet
  NoRow = NoRow
  Figures <- MCFigures  Terms <- MCTerms
  Asks <- MCAsks  Bills <- MCBills
  EarnPoints <- MCEarnPoints
  Requests = {99}
  BillValues <- MCBillValues
  CapPct = 29
  Whole = 10000  Short <- MCShort  Steep <- MCSteep
INVARIANTS TypeOK NonNegativeBalance BalanceIsLedgerSum FlaggedMeansSpent
  EarnIsLargestAllowed RedeemIsLargestAllowed
PROPERTIES RealRowsAreFinal EveryCallEnds
