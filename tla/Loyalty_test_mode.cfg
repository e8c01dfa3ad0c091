SPECIFICATION TestSpec
CONSTANTS
  p1 = p1  r1 = r1  r2 = r2
  Orders <- MCOrders
  TestIds <- MCTestIds
  Phones <- MCPhones
  PhoneOf <- MCPhoneOf
  NoPhone = NoPhone
  Exempt = {}
  Reqs <- MCReqs
  NoReq = NoReq
  NoOrder = NoOrder
  NoWallet = NoWallet
  NoRow = NoRow
  Figures <- MCFigures  Terms <- MCTerms
  Asks <- MCRequests  Bills <- MCBills
  EarnPoints <- MCEarnPoints
  Requests <- MCRequests
  BillValues <- MCBills
  CapPct = 50
  Whole = 100  Short = {}  Steep = {}
SYMMETRY Symmetry
PROPERTY TestModeKeepsRealRows
