SPECIFICATION StorySpec
CONSTANTS
    Owners = {o1, o2, o3}
    Asks = {1}
    Bids = {11}
    Fills = {21, 22}
    Prices = {1, 2}
    MaxPrice = 2
    MaxUnits = 1
    None = None
    MaxFaults = 1
    LaggingReads = FALSE
INVARIANTS TypeOK EndedBidIsHome OneSalePerOrder TerminalFillsAreBalanced PayoutsAreFunded PromisesAreHeld
PROPERTIES OrdersEnd
CHECK_DEADLOCK FALSE
