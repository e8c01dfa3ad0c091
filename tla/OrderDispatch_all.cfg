SPECIFICATION Spec
CONSTANTS
  i1 = i1  i2 = i2  r1 = r1  r2 = r2
  Items <- TwoItems
  Reqs <- TwoReqs
  Settings <- AllSettings
  MaxParcels = 2
  MaxQuotes = 1
  NoRequest = NoRequest
SYMMETRY Symmetry
INVARIANTS TypeOK NoItemShippedTwice QuoteTakenOnce
  ShippedHaveAParcel OnTheRoadHasAParcel ParcelsNeedApproval
PROPERTIES AwaitingStaysListed ProductionLeavesSubmitted
  DispatchedWhenAllShipped
