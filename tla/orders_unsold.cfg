SPECIFICATION Spec
CONSTANTS
  gem = gem
  kit = kit
  Orders = {o1}
  Products <- MCProducts
  Exclusive <- MCExclusive
  Baskets <- GemOnly
  Methods = {"stripe"}
  Requests = {r1}
  Routes <- BuyPath
  Overlap = FALSE
  MayFail = FALSE
  None = None
INVARIANT OrderingWithdraws
