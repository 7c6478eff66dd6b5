SPECIFICATION FairSpec
CONSTANTS
  main = main w1 = w1 w2 = w2 nodst = nodst noreq = noreq
  d1 = d1 d2 = d2 d3 = d3 d4 = d4 d5 = d5 a = a b = b c = c x1 = x1
  Ascii <- MCAscii Wide <- MCWide Lost <- MCLost Stuck <- MCStuck
  MaxSingle7bit = 3 MaxMultipart7bit = 2 MaxSingleUcs2 = 3 MaxMultipartUcs2 = 2
  MaxSegments = 3 InsertedChars <- MCInserted Header <- MCHeader
  Web = {w1, w2} MainThread = main
  Request <- ApiRequests Arrivals <- ApiArrivals
  TextOf <- MCTextOf DstsOf <- MCDstsOf NoDst = nodst NoRequest = noreq
  CountOfBatch = 1 Modes = {0}
  Clients <- ApiClients SysIdOf <- MCSysIdOf CanSend <- MCCanSend
  StartIndex = {2} Fetching = {w2} ToGet = 2 PollsPerWake = 2 Mo = {} Signals = TRUE
INVARIANTS TypeOK PartsTogether QueuedCanBeSent PerCallLimit OnePlace
PROPERTIES NothingAfterStop EveryRequestAnswered EveryReportFetched 
CHECK_DEADLOCK FALSE
