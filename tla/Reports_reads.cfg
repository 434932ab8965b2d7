SPECIFICATION Spec
CONSTANTS
  NoneValue = NoneValue
  UnsetValue = UnsetValue
  None = NoneValue
  Unset = UnsetValue
  TimestampMin <- FirstInstant
  TimestampMax <- LastInstant
  StoredTimestampMax <- LastInstant
  ClockSkew = 2
  Ids <- EightIds
  Wallets <- FiveWallets
  SpaceWallets <- SpaceOfFour
  Categories <- ThreeCategories
  System = 10
  TypeOf <- CategoryTypes
  Books <- OneBook
  Drafts <- NewDrafts
  Caps <- NewCaps
  Renames <- NewNames
  Orders <- NewOrders
  Nows <- TwoClocks
  MaxEvents = 2
  Queries <- FeedQueries
  Limits = {3}
  Targets = {1}
  StatQueries <- PeriodQueries
  MAX_PRIMARY_GROUPS = 2
  OTHER_THRESHOLD_PERCENT = 30
  OverviewPeriods <- AllTime
  Zones <- CairoOnly
INVARIANTS TypeOK ListComplete PageAddsUp BlocksAgree SlicesAddUp HistoryMatches ByLocalDate OverviewsAgree
