SPECIFICATION Spec
CONSTANTS
  NoneValue = NoneValue
  UnsetValue = UnsetValue
  None = NoneValue
  Unset = UnsetValue
  TimestampMin <- FirstInstant
  TimestampMax <- LastInstant
  StoredTimestampMax <- LastInstant
  ClockSkew = 1
  Ids <- EightIds
  Wallets <- FiveWallets
  SpaceWallets <- SpaceOfFour
  Categories <- ThreeCategories
  System = 10
  TypeOf <- CategoryTypes
  Books <- MidnightBook
  Drafts <- NewDrafts
  Caps <- NewCaps
  Renames <- NewNames
  Orders <- NewOrders
  Nows <- WinterClock
  MaxEvents = 0
  Queries <- InHavana
  Limits = {1, 3}
  Targets = {1}
  StatQueries <- PeriodQueries
  MAX_PRIMARY_GROUPS = 2
  OTHER_THRESHOLD_PERCENT = 30
  OverviewPeriods <- AllTime
  Zones <- HavanaOnly
INVARIANT DayNets
