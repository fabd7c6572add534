SPECIFICATION FairSpec
CONSTANTS
  t1 = t1
  t2 = t2
  Tiers = {t1, t2}
  TierLen <- Lengths
  Udp <- OneUdp
  Peers <- TwoAddresses
  ChannelCap = 1
  Retries = 2
  MaxExponent = 1
INVARIANTS
  TypeOK
  OncePerTier
  SeenIsHandedOn
  TierSurvives
  SecondTorrentWaits
CHECK_DEADLOCK FALSE
PROPERTIES
  EventuallyTried
