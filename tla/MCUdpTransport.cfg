CONSTANTS
  NFd = 2
  RetryMax = 2
  MaxWrites = 2
  MaxCmds = 2
SPECIFICATION Spec
INVARIANTS UdpInv ReportedAsSent
PROPERTIES DatagramsSpec WriteReturns CommandsRead AppReturns
