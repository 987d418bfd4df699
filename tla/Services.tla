-------------------------------- MODULE Services ---------------------------------
(***************************************************************************)
(* The service modules side by side.                                       *)
(*                                                                         *)
(* The services share no column: a user's row holds some of five of them,  *)
(* but each statement names the columns it writes.  Their composition      *)
(* needs no interleaving then: a behaviour is about one of them, chosen at *)
(* the start, and the others keep their initial states.  What is said of   *)
(* one service here holds of the program, where they all run.  A reset of  *)
(* the accounts deletes the row of a user, which ends what the other four  *)
(* say of that user; a product is deleted by each service that lists it.   *)
(***************************************************************************)
EXTENDS Integers, Sequences, FiniteSets

CONSTANTS
  Requests,        \* slots for requests in flight
  Overlap,         \* may a request start while another one is in flight?
  Fallible,        \* services whose handlers may stop between two statements
  None,
  Sockets, Messages, POINTS,                         \* Rooms
  ResetTokens,                                       \* Access
  Emails, Profiles, AdminLists, MAX_ID,              \* Accounts
  CartProducts, Quantities, MAX_ITEM,                \* Carts
  Codes,                                             \* Referrals
  BundleIds, Slugs, BundleProducts,                  \* Bundles
  RowIds, Values,                                    \* Records
  LIMIT, MAX_ROWS,                                   \* Pages
  KEEP, MAX_TIME,                                    \* Backups
  Reporters, Orders, Total, Months, LogRows, Countries,      \* Reports
  CatalogProducts, Queries, Matches, LIST_TTL, ITEM_TTL, Silent   \* Catalog

ASSUME SlotsAssumption == IsFiniteSet(Requests) /\ Requests # {} /\ Overlap \in BOOLEAN
ASSUME NoneAssumption ==
  /\ None \notin ResetTokens \cup Codes
  /\ None \notin [id : Nat, check : {"none", "live", "over"}, verified : BOOLEAN,
                  link : Profiles \cup {None}]
  /\ None \notin [id : Nat, quantity : Int, asked : Nat, back : Int]

(* A reset may be asked for with any list, an empty one included. *)
ASSUME AdminListsAssumption == AdminLists \subseteq Seq(Emails \cup {None})

ASSUME BoundsAssumption ==
  /\ MAX_ID \in Nat /\ MAX_ITEM \in Nat /\ MAX_ROWS \in Nat /\ MAX_TIME \in Nat
  /\ POINTS \in Nat /\ KEEP \in Nat /\ LIMIT \in Nat \ {0}
(* No pipe validates the body of a request: a quantity is any number, ... *)
ASSUME QuantitiesAssumption == Quantities \subseteq Int
ASSUME LivesAssumption == LIST_TTL \in Nat \ {0} /\ ITEM_TTL \in Nat \ {0}
ASSUME MatchesAssumption == Matches \in [Queries -> SUBSET CatalogProducts]

(* ... and so is a total, in whole units here.  A report is of finitely many
   months and countries. *)
ASSUME ReportsAssumption ==
  IsFiniteSet(Months) /\ IsFiniteSet(Countries) /\ Total \in [Orders -> Int]

VARIABLES
  service, pc, job,
  secret, enabled, attempts, lock, wrong,
  session, banned, token, fresh, drawn, mailed, resets, late,
  account, lastId, latest, reset,
  cart, lastItem, wishes, due, wished,
  ticket, unheard,
  code, drawnCodes, given, applied, enrolled,
  slug, bundles, products, stock, emptied,
  kind, row, born,
  connected, adminSockets, rooms, used, limited, stored, unread, got, ready,
  table, lastRow, page, totalPages, seen, start, drift,
  files, time,
  order, placed, download, reportPc, reportJob,
  catalog, listed, age, list, listTtl, item, itemTtl, catalogPc, catalogJob

slotVars == <<pc, job>>
lockoutVars == <<secret, enabled, attempts, lock, wrong>>
accessVars == <<session, banned, token, fresh, drawn, mailed, resets, late>>
accountVars == <<account, lastId, latest, reset>>
cartVars == <<cart, lastItem, wishes, due, wished>>
ticketVars == <<ticket, unheard>>
referralVars == <<code, drawnCodes, given, applied, enrolled>>
bundleVars == <<slug, bundles, products, stock, emptied>>
recordVars == <<kind, row, born>>
roomVars == <<connected, adminSockets, rooms, used, limited, stored, unread, got, ready>>
pageVars == <<table, lastRow, page, totalPages, seen, start, drift>>
backupVars == <<files, time>>
reportVars == <<order, placed, download, reportPc, reportJob>>
catalogVars == <<catalog, listed, age, list, listTtl, item, itemTtl, catalogPc, catalogJob>>

vars ==
  <<service, slotVars, lockoutVars, accessVars, accountVars, cartVars, ticketVars,
    referralVars, bundleVars, recordVars, roomVars, pageVars, backupVars,
    reportVars, catalogVars>>

-----------------------------------------------------------------------------
(* The services *)

Lock == INSTANCE Lockout WITH MayFail <- FALSE

Acc == INSTANCE Access WITH MayFail <- "access" \in Fallible

Users == INSTANCE Accounts WITH row <- account, MayFail <- "accounts" \in Fallible

Cart == INSTANCE Carts WITH
  Products <- CartProducts, MayFail <- "carts" \in Fallible

Tick == INSTANCE Tickets WITH MayFail <- "tickets" \in Fallible

Ref == INSTANCE Referrals WITH
  drawn <- drawnCodes, MayFail <- "referrals" \in Fallible

Bun == INSTANCE Bundles WITH
  born <- bundles, Ids <- BundleIds, Products <- BundleProducts,
  MayFail <- "bundles" \in Fallible

Rec == INSTANCE Records WITH Ids <- RowIds, MayFail <- "records" \in Fallible

Room == INSTANCE Rooms WITH MayFail <- "rooms" \in Fallible

Walk == INSTANCE Pages WITH lastId <- lastRow, MayFail <- FALSE

Back == INSTANCE Backups WITH MayFail <- "backups" \in Fallible

(* Reports only read, so one at a time meets every write they can meet. *)
Rep == INSTANCE Reports WITH
  pc <- reportPc, job <- reportJob, Requests <- Reporters, Downloads <- LogRows,
  MayFail <- FALSE

Cat == INSTANCE Catalog WITH
  row <- catalog, born <- listed, pc <- catalogPc, job <- catalogJob,
  Products <- CatalogProducts

-----------------------------------------------------------------------------

Names ==
  {"lockout", "access", "accounts", "carts", "tickets", "referrals", "bundles",
   "records", "rooms", "pages", "backups", "reports", "catalog"}

Init ==
  /\ service \in Names
  /\ Lock!Init /\ Acc!Init /\ Users!Init /\ Cart!Init /\ Tick!Init /\ Ref!Init
  /\ Bun!Init /\ Rec!Init /\ Room!Init /\ Walk!Init /\ Back!Init /\ Rep!Init
  /\ Cat!Init
  /\ service # "records" => kind = "sale"

Still(s, state) == IF s = service THEN TRUE ELSE UNCHANGED state

(* The others stay as they are. *)
Only(s) ==
  /\ service = s
  /\ UNCHANGED service
  /\ Still("lockout", lockoutVars) /\ Still("access", accessVars)
  /\ Still("accounts", accountVars) /\ Still("carts", cartVars)
  /\ Still("tickets", ticketVars) /\ Still("referrals", referralVars)
  /\ Still("bundles", bundleVars) /\ Still("records", recordVars)
  /\ Still("rooms", roomVars) /\ Still("pages", pageVars)
  /\ Still("backups", backupVars) /\ Still("reports", reportVars)
  /\ Still("catalog", catalogVars)
  /\ IF s \in {"reports", "catalog"} THEN UNCHANGED slotVars ELSE TRUE

Next ==
  \/ Only("lockout") /\ Lock!Next
  \/ Only("access") /\ Acc!Next
  \/ Only("accounts") /\ Users!Next
  \/ Only("carts") /\ Cart!Next
  \/ Only("tickets") /\ Tick!Next
  \/ Only("referrals") /\ Ref!Next
  \/ Only("bundles") /\ Bun!Next
  \/ Only("records") /\ Rec!Next
  \/ Only("rooms") /\ Room!Next
  \/ Only("pages") /\ Walk!Next
  \/ Only("backups") /\ Back!Next
  \/ Only("reports") /\ Rep!Next
  \/ Only("catalog") /\ Cat!Next

Spec == Init /\ [][Next]_vars

-----------------------------------------------------------------------------
(* The properties of the services, each stated and explained in its module, and
   each about the behaviours in which that service runs. *)

(* The types of the service that runs. *)
TypeOK ==
  /\ service = "lockout" => Lock!TypeOK
  /\ service = "access" => Acc!TypeOK
  /\ service = "accounts" => Users!TypeOK
  /\ service = "carts" => Cart!TypeOK
  /\ service = "tickets" => Tick!TypeOK
  /\ service = "referrals" => Ref!TypeOK
  /\ service = "bundles" => Bun!TypeOK
  /\ service = "records" => Rec!TypeOK
  /\ service = "rooms" => Room!TypeOK
  /\ service = "pages" => Walk!TypeOK
  /\ service = "backups" => Back!TypeOK
  /\ service = "reports" => Rep!TypeOK
  /\ service = "catalog" => Cat!TypeOK

(* However the two routes overlap, a lock follows the fifth wrong code ... *)
LockFollows == service = "lockout" => Lock!LockFollows
(* ... and stale resets of an expired lock cost a bounded number of codes. *)
WrongIsBounded == service = "lockout" => Lock!WrongIsBounded
(* A reset link changes one password per request that raced for it. *)
LinkIsSpent == service = "access" => Acc!LinkIsSpent
(* After a ban, only logins that were in flight are answered with tokens. *)
BanStopsLogins == service = "access" => Acc!BanStopsLogins
(* Resets of the account table, overlapping, leave the accounts their list promises. *)
AdminsSurvive == service = "accounts" => Users!AdminsSurvive
(* The cart and the wish list hold what the answered requests add up to. *)
CartIsExact == service = "carts" => Cart!CartIsExact
(* However writes overlap, an item holds no quantity that nobody asked for. *)
NothingIsMadeUp == service = "carts" => Cart!NothingIsMadeUp
(* No reply of a user is left on a ticket that has ended. *)
RepliesAreHeard == service = "tickets" => Tick!RepliesAreHeard
(* A user settles on one referral code. *)
CodesSettle == service = "referrals" => Ref!CodesSettle
(* The checkout refers an address once per request that raced for it. *)
ReferredOnce == service = "referrals" => Ref!ReferredOnce
(* Overlapping updates alone leave no bundle without products. *)
EmptyForAReason == service = "bundles" => Bun!EmptyForAReason
(* Edits in flight change the fields they name and bring back no row. *)
EditsKeepToTheirFields == Rec!EditsKeepToTheirFields
(* Who joins the chat and then loads it misses no message. *)
NothingIsMissed == service = "rooms" => Room!NothingIsMissed
(* A walk through the pages misses a row only for a reason. *)
MissesAreExplained == service = "pages" => Walk!MissesAreExplained
(* A backup is deleted only when enough newer ones were written. *)
NewestStay == service = "backups" => Back!NewestStay
(* The parts of a report differ only by what came between. *)
PartsAgree == service = "reports" => Rep!PartsAgree
(* Without the silent writers the cache is exact. *)
CacheIsExact == service = "catalog" => Cat!CacheIsExact
(* A cached list or page is wrong for no longer than it lives. *)
StaleIsBounded == service = "catalog" => Cat!StaleIsBounded
=============================================================================
