SPECIFICATION Spec
CONSTANTS
  gem = gem
  kit = kit
  Orders = {o1}
  Products <- JustGem
  Exclusive <- MCExclusive
  Baskets <- GemOnly
  Methods = {"stripe", "momo"}
  Requests = {r1, r2}
  Routes <- NoEdits
  Overlap = TRUE
  MayFail = TRUE
  None = None
INVARIANT LegalHistory
INVARIANT MoneyBackOnRecord
INVARIANT SoldNeedsPayment
INVARIANT ConfirmSells
PROPERTY PaymentGate
