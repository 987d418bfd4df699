SPECIFICATION Spec
CONSTANTS
  Tokens = {t1}
  Products = {p1, p2}
  Keys = {k1, k2, k3}
  Requests = {r1, r2}
  Backend = "local"
  Overlap = TRUE
  MayFail = TRUE
  MayRefuse = TRUE
  None = None
SYMMETRY Symmetry
INVARIANT TypeOK
INVARIANT CopiesAreLogged
INVARIANT OverlapBounds
INVARIANT NoFileUnpaid
PROPERTY OneShelf
PROPERTY RowsAreBacked
