SPECIFICATION FairWifiSpec
CONSTANTS
  home = home
  shop = shop
  Net <- TwoNets
  Levels <- TwoLevels
  Asks = 1
  Faults = 1
  PowerCuts = 2
INVARIANTS
    ProfilesAreHonoured
    FailureStaysReachable
PROPERTIES
    SiteNetworkReturns
