SPECIFICATION FairSpec
CONSTANTS
  id1 = id1  id2 = id2
  Ids = {id1, id2}
  NoBanner = NoBanner
  MaxPosts = 4
INVARIANTS NoOrphanBanner WantedNeverClosed
PROPERTY StaleBannerGoesAway
CHECK_DEADLOCK FALSE
