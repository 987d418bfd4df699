SPECIFICATION FairSpec
CONSTANTS
  gem = gem
  kit = kit
  Orders = {o1}
  Products <- MCProducts
  Exclusive <- MCExclusive
  Baskets <- BothOnly
  Methods = {"stripe"}
  Requests = {r1, r2}
  Routes <- ShopRoutes
  Overlap = TRUE
  MayFail = FALSE
  None = None
PROPERTY HandlersFinish
PROPERTY PaymentWithdraws
