SPECIFICATION FairSpec
CONSTANTS
  t1 = t1
  t2 = t2
  Tiers = {t1, t2}
  TierLen <- Lengths
  Udp = {}
  Peers <- OneAddress
  ChannelCap = 1
  Retries = 1
  MaxExponent = 2
CHECK_DEADLOCK FALSE
PROPERTIES
  EveryTorrentStarts
