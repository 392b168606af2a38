SPECIFICATION FairSpec
CONSTANTS
  Pages = {"auction","auctions","watchlist","wallet","notifications","dashboard","profile","user","admin","fraud"}
  Clicks = {"placeBid", "setAutoBid", "cancelAutoBid","toggleWatchlist","buyNow","cancelAuction","rateUser","reveal","toggleListed", "removeWatched","handleAction","markRead","updateProfile","toggleSuspend","moderate","dismiss","suspendBidder"}
  Others = {"edit","snipe","end","deliver","onBid"}
  MaxWrites = 1
  MaxVisits = 2
  MaxDrops = 1
INVARIANTS
  NothingMissed
PROPERTIES
  ShownInTheEnd
  BackInTheRoom
CHECK_DEADLOCK FALSE
