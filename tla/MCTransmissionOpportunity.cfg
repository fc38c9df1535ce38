CONSTANTS
  p = p
  q = q
  Peers = {p, q}
  Configurations <- MCConfigurations
  MinSINR <- MCMinSINR
  Bits <- MCBits
  Antennas = 2
  PeerAntennas <- MCPeerAntennas
  InitialThreshold = 1
  MaxThreshold = 2
  MinSamples = 2
  MaxSamples = 2
  SINRs <- MCSINRs
  Factor <- MCFactor
  Reduction = 3
  OnDecrease = 1
  OnIncrease = 1
  None = None
  Lengths = {4}
  BufferSize = 1
  ShortRetryLimit = 3
  MaxMissing = 3
  SIFS = 1
  MaximumACK = 1
  Preamble = 1
  TXOPLimit = 20
  MaxOutTXOP = FALSE
SPECIFICATION OpportunitySpec
INVARIANTS NavCoversNext RetryNotFaster ClimbsAgain
SYMMETRY MCSymmetry
