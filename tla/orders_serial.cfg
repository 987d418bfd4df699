SPECIFICATION Spec
CONSTANTS
  gem = gem
  kit = kit
  Orders = {o1, o2}
  Products <- JustGem
  Exclusive <- MCExclusive
  Baskets <- GemOnly
  Methods = {"stripe"}
  Requests = {r1}
  Routes <- AllRoutes
  Overlap = FALSE
  MayFail = TRUE
  None = None
INVARIANT TypeOK
INVARIANT RefundIsFinal
PROPERTY FollowsLifecycle
PROPERTY SoldNotOrdered
