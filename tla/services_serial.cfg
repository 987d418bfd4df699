SPECIFICATION Spec
CONSTANTS
  Requests = {r1, r2}
  Overlap = FALSE
  None = None
  ann = ann
  bob = bob
  cat = cat
  gem = gem
  kit = kit
  one = one
  two = two
  three = three
  Fallible <- MCFallible
  Sockets <- MCSockets
  Messages <- MCMessages
  POINTS = 1
  ResetTokens <- MCResetTokens
  Emails <- MCEmails
  Profiles <- MCProfiles
  AdminLists <- MCAdminLists
  MAX_ID <- MCMaxId
  CartProducts <- MCProducts
  Quantities <- MCQuantities
  MAX_ITEM <- MCMaxItem
  Codes <- MCCodes
  BundleIds <- MCBundleIds
  Slugs <- MCSlugs
  BundleProducts <- MCBundleProducts
  RowIds <- MCRowIds
  Values <- MCValues
  LIMIT = 2
  MAX_ROWS = 5
  KEEP = 2
  MAX_TIME <- MCMaxTime
  Reporters <- MCRowIds
  Orders <- MCOrders
  Total <- MCTotal
  Months <- MCValues
  LogRows <- MCLogRows
  Countries <- MCCountries
  CatalogProducts <- MCProducts
  Queries <- MCQueries
  Matches <- MCMatches
  LIST_TTL <- MCListTtl
  ITEM_TTL <- MCItemTtl
  Silent <- MCSilent
SYMMETRY Symmetry
CHECK_DEADLOCK FALSE
INVARIANT TypeOK
INVARIANT CartIsExact
INVARIANT RepliesAreHeard
INVARIANT CacheIsExact
