SPECIFICATION Spec
CONSTANTS
  Tokens = {t1}
  Products = {p1}
  Keys = {k1}
  Requests = {r1, r2}
  Backend = "cdn"
  Overlap = TRUE
  MayFail = FALSE
  MayRefuse = FALSE
  None = None
SYMMETRY Symmetry
INVARIANT OneDownload
