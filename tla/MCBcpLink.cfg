CONSTANTS
  MaxFrameLen = 24
  MaxCmds = 2
  UnionLen = 14
  Stale = 165
  Samples <- MCSamples
  Followers <- MCFollowers
  Seqs = {258}
  Flips = {1, 16, 128, 255}
  Mtu = 9
  NoFrame = NoFrame
SPECIFICATION LinkSpec
INVARIANTS LinkTypeOK IntactAccepted
PROPERTIES ImplementsChannel
