SPECIFICATION ShopSpec
CONSTANTS
  Orders = {o1}
  Products <- Prod
  Exclusive <- Gem
  Baskets <- Basket
  Methods = {"stripe"}
  Requests = {r1}
  Visitors = {v1}
  Keys = {k1, k2}
  Routes <- Updates
  Overlap = FALSE
  MayFail = TRUE
  MayRefuse = FALSE
  FilesFail = FALSE
  Backend = "s3"
  None = None
INVARIANT OneDownload
INVARIANT TablesAgree
PROPERTY RefundEndsDownloads
PROPERTY OrdersAreItsEnvironment
