--------------------------------- MODULE Catalog ---------------------------------
(***************************************************************************)
(* The product table and the cache in front of it.                         *)
(*                                                                         *)
(* ProductsService reads through an in-memory cache with two kinds of      *)
(* entry, one per list query and one per product, and clears entries after *)
(* it writes.  Orders, the admin service and the bulk operations write the *)
(* same table and leave the cache alone.  A request is a slot; one action  *)
(* is one awaited database statement or the synchronous code between two.  *)
(* Time is counted in minutes, and no tick falls inside a request.         *)
(***************************************************************************)
EXTENDS Naturals

CONSTANTS
  Products,    \* ids the product table can ever hold
  Queries,     \* list queries the clients send
  Matches,     \* Matches[q]: products the filters of q let through
  Requests,    \* slots for requests in flight
  LIST_TTL,    \* life of a list entry (120 s) and of a product entry (300 s)
  ITEM_TTL,
  Overlap,     \* may a request start while another one is in flight?
  Silent,      \* do the writers that leave the cache alone run?
  None

VARIABLES
  row,         \* row[p]: status and sold flag of p, or None
  born,        \* ids that were ever used
  age,         \* age[p]: minutes since row[p] changed, up to Oldest
  list,        \* list[q]: products in the cached answer to q
  listTtl,     \* listTtl[q]: minutes the entry has left; 0 when there is none
  item,        \* item[p]: the cached row of p
  itemTtl,
  pc,          \* pc[r]: where the handler in slot r is
  job          \* job[r]: what it was asked and what it has read

tableVars == <<row, born, age>>
listVars == <<list, listTtl>>
itemVars == <<item, itemTtl>>
vars == <<tableVars, listVars, itemVars, pc, job>>

Row(status, sold) == [status |-> status, sold |-> sold]
Rows == {Row(s, b) : s \in {"approved", "hidden"}, b \in {"sold", "free"}}
Edits == {Row(s, b) : s \in {"approved", "hidden", "keep"}, b \in {"sold", "free", "keep"}}

Oldest == LIST_TTL + ITEM_TTL + 1

(* The where clause of findAll; "sold" stands for exclusive and sold. *)
Shown(p) == row[p] # None /\ row[p].status = "approved" /\ row[p].sold # "sold"

Answer(q) == {p \in Matches[q] : Shown(p)}

Resting == {"idle", "done", "refused", "failed"}
Working == {"querying", "listing", "loading", "keeping", "writing", "purging"}

(* what: the query or product; found: what was read; edit: what to write, None
   for a removal; scope: the entries to clear, "none" for a mere read. *)
Job(what, found, edit, scope) ==
  [what |-> what, found |-> found, edit |-> edit, scope |-> scope]
NoJob == Job(None, None, None, "none")

Active(r) == pc[r] \in Working
Quiet == \A r \in Requests : ~Active(r)
Admit(r) == ~Active(r) /\ (Overlap \/ Quiet)

Enter(r, place, j) ==
  /\ pc' = [pc EXCEPT ![r] = place]
  /\ job' = [job EXCEPT ![r] = j]

Leave(r, outcome) == Enter(r, outcome, NoJob)

Init ==
  /\ row = [p \in Products |-> None]
  /\ born = {}
  /\ age = [p \in Products |-> Oldest]
  /\ list = [q \in Queries |-> {}]
  /\ listTtl = [q \in Queries |-> 0]
  /\ item = [p \in Products |-> None]
  /\ itemTtl = [p \in Products |-> 0]
  /\ pc = [r \in Requests |-> "idle"]
  /\ job = [r \in Requests |-> NoJob]

(* The field by field update of a row by a partial DTO. *)
Merge(old, edit) ==
  Row(IF edit.status = "keep" THEN old.status ELSE edit.status,
      IF edit.sold = "keep" THEN old.sold ELSE edit.sold)

(* The rows ps change to new(p), and their age starts again. *)
Put(ps, new(_)) ==
  /\ row' = [p \in Products |-> IF p \in ps THEN new(p) ELSE row[p]]
  /\ age' = [p \in Products |-> IF p \in ps /\ new(p) # row[p] THEN 0 ELSE age[p]]

-----------------------------------------------------------------------------
(* GET /products *)

(* A hit answers at once; a miss goes to the database. *)
FindAll(r, q) ==
  /\ Admit(r)
  /\ IF listTtl[q] > 0 THEN Leave(r, "done")
     ELSE Enter(r, "querying", Job(q, None, None, "none"))
  /\ UNCHANGED <<tableVars, listVars, itemVars>>

QueryRows(r, q) ==
  /\ pc[r] = "querying"
  /\ q = job[r].what
  /\ Enter(r, "listing", Job(q, Answer(q), None, "none"))
  /\ UNCHANGED <<tableVars, listVars, itemVars>>

CacheList(r, q) ==
  /\ pc[r] = "listing"
  /\ q = job[r].what
  /\ list' = [list EXCEPT ![q] = job[r].found]
  /\ listTtl' = [listTtl EXCEPT ![q] = LIST_TTL]
  /\ Leave(r, "done")
  /\ UNCHANGED <<tableVars, itemVars>>

-----------------------------------------------------------------------------
(* findById, alone and as the first step of a write *)

(* A cached row passes even when the product has since been removed. *)
FindById(r, p, edit, scope) ==
  /\ Admit(r)
  /\ IF itemTtl[p] = 0 THEN Enter(r, "loading", Job(p, None, edit, scope))
     ELSE IF scope = "none" THEN Leave(r, "done")
     ELSE Enter(r, "writing", Job(p, None, edit, scope))
  /\ UNCHANGED <<tableVars, listVars, itemVars>>

LoadRow(r, p) ==
  /\ pc[r] = "loading"
  /\ p = job[r].what
  /\ IF row[p] = None THEN Leave(r, "refused")
     ELSE Enter(r, "keeping", Job(p, row[p], job[r].edit, job[r].scope))
  /\ UNCHANGED <<tableVars, listVars, itemVars>>

CacheItem(r, p) ==
  /\ pc[r] = "keeping"
  /\ p = job[r].what
  /\ item' = [item EXCEPT ![p] = job[r].found]
  /\ itemTtl' = [itemTtl EXCEPT ![p] = ITEM_TTL]
  /\ IF job[r].scope = "none" THEN Leave(r, "done")
     ELSE Enter(r, "writing", Job(p, None, job[r].edit, job[r].scope))
  /\ UNCHANGED <<tableVars, listVars>>

Get(r, p) == FindById(r, p, None, "none")
Update(r, p, edit) == FindById(r, p, edit, "own")
UpdateStatus(r, p, s) == FindById(r, p, Row(s, "keep"), "all")
Remove(r, p) == FindById(r, p, None, "all")

-----------------------------------------------------------------------------
(* The writes of ProductsService *)

(* product.update and product.delete throw when the row is gone. *)
Write(r, p) ==
  /\ pc[r] = "writing"
  /\ p = job[r].what
  /\ IF row[p] = None THEN Leave(r, "failed") /\ UNCHANGED <<row, age>>
     ELSE /\ Put({p}, LAMBDA x : IF job[r].edit = None THEN None
                                 ELSE Merge(row[x], job[r].edit))
          /\ Enter(r, "purging", Job(p, None, None, job[r].scope))
  /\ UNCHANGED <<born, listVars, itemVars>>

(* Mutant: the lists are not cleared after an edit of one product. *)
PurgedListsNotOwn(scope) == IF scope = "own" THEN {} ELSE Queries

(* Every write clears every list. *)
PurgedLists(scope) == Queries

(* "own": the entries whose key holds the id; "lists": a clone. *)
PurgedItems(scope, p) ==
  CASE scope = "all"   -> Products
    [] scope = "own"   -> {p}
    [] scope = "lists" -> {}

(* deletePattern, run when the answer of the write has arrived. *)
Purge(r, p) ==
  /\ pc[r] = "purging"
  /\ p = job[r].what
  /\ LET ls == PurgedLists(job[r].scope)
         is == PurgedItems(job[r].scope, p)
     IN  /\ list' = [q \in Queries |-> IF q \in ls THEN {} ELSE list[q]]
         /\ listTtl' = [q \in Queries |-> IF q \in ls THEN 0 ELSE listTtl[q]]
         /\ item' = [x \in Products |-> IF x \in is THEN None ELSE item[x]]
         /\ itemTtl' = [x \in Products |-> IF x \in is THEN 0 ELSE itemTtl[x]]
  /\ Leave(r, "done")
  /\ UNCHANGED tableVars

(* "pending" after a creation, "draft" after a clone: neither is shown. *)
FirstStatus == "hidden"

(* create clears nothing.  It may be given both flags. *)
Create(p, sold) ==
  /\ Overlap \/ Quiet
  /\ p \notin born
  /\ born' = born \cup {p}
  /\ Put({p}, LAMBDA x : Row(FirstStatus, sold))
  /\ UNCHANGED <<listVars, itemVars, pc, job>>

(* cloneProduct, from the insert of the copy on: with overlap the original may
   be gone by then. *)
Clone(r, original, p) ==
  /\ Admit(r)
  /\ row[original] # None \/ (Overlap /\ original \in born)
  /\ p \notin born
  /\ born' = born \cup {p}
  /\ Put({p}, LAMBDA x : Row(FirstStatus, "free"))
  /\ Enter(r, "purging", Job(p, None, None, "lists"))
  /\ UNCHANGED <<listVars, itemVars>>

-----------------------------------------------------------------------------
(* The writers that leave the cache alone *)

(* updateProductStatus and bulkUpdateProductsStatus of the admin service *)
AdminStatus(ps, s) ==
  /\ Silent
  /\ Overlap \/ Quiet
  /\ Put({p \in ps : row[p] # None}, LAMBDA p : Merge(row[p], Row(s, "keep")))
  /\ UNCHANGED <<born, listVars, itemVars, pc, job>>

(* bulkDeleteProducts *)
AdminDelete(ps) ==
  /\ Silent
  /\ Overlap \/ Quiet
  /\ Put(ps, LAMBDA p : None)
  /\ UNCHANGED <<born, listVars, itemVars, pc, job>>

(* confirmPayment, on an exclusive product *)
Sell(p) ==
  /\ Silent
  /\ Overlap \/ Quiet
  /\ row[p] # None
  /\ Put({p}, LAMBDA x : Row(row[x].status, "sold"))
  /\ UNCHANGED <<born, listVars, itemVars, pc, job>>

-----------------------------------------------------------------------------
(* Time and restarts *)

(* Mutant: the count of minutes runs past zero. *)
ElapsedBelowZero(ttl) == ttl - 1

(* Mutant: a hit renews the entry, so time does not expire it. *)
ElapsedSliding(ttl) == ttl

Elapsed(ttl) == IF ttl > 0 THEN ttl - 1 ELSE 0

(* A minute passes; an entry whose time is over is as good as none. *)
Tick ==
  /\ Quiet
  /\ age' = [p \in Products |-> IF age[p] < Oldest THEN age[p] + 1 ELSE Oldest]
  /\ listTtl' = [q \in Queries |-> Elapsed(listTtl[q])]
  /\ list' = [q \in Queries |-> IF listTtl'[q] = 0 THEN {} ELSE list[q]]
  /\ itemTtl' = [p \in Products |-> Elapsed(itemTtl[p])]
  /\ item' = [p \in Products |-> IF itemTtl'[p] = 0 THEN None ELSE item[p]]
  /\ UNCHANGED <<row, born, pc, job>>

EmptyCache ==
  /\ list' = [q \in Queries |-> {}]
  /\ listTtl' = [q \in Queries |-> 0]
  /\ item' = [p \in Products |-> None]
  /\ itemTtl' = [p \in Products |-> 0]

(* DELETE /admin/cache *)
Clear == (Overlap \/ Quiet) /\ EmptyCache /\ UNCHANGED <<tableVars, pc, job>>

(* The process dies with its handlers and its cache; the table stays. *)
Restart ==
  /\ EmptyCache
  /\ pc' = [r \in Requests |-> "idle"]
  /\ job' = [r \in Requests |-> NoJob]
  /\ UNCHANGED tableVars

-----------------------------------------------------------------------------

Statuses == {"approved", "hidden"}

Lists(r) == \E q \in Queries : FindAll(r, q) \/ QueryRows(r, q) \/ CacheList(r, q)

Items(r) ==
  \E p \in Products :
    \/ Get(r, p) \/ Remove(r, p) \/ LoadRow(r, p) \/ CacheItem(r, p)
    \/ Write(r, p) \/ Purge(r, p)
    \/ \E e \in Edits : Update(r, p, e)
    \/ \E s \in Statuses : UpdateStatus(r, p, s)
    \/ \E new \in Products : Clone(r, p, new)

Others ==
  \/ \E p \in Products : Sell(p) \/ \E b \in {"sold", "free"} : Create(p, b)
  \/ \E ps \in SUBSET Products :
       AdminDelete(ps) \/ \E s \in Statuses : AdminStatus(ps, s)

Next ==
  \/ \E r \in Requests : Lists(r) \/ Items(r)
  \/ Others
  \/ Tick \/ Clear \/ Restart

Spec == Init /\ [][Next]_vars

-----------------------------------------------------------------------------
(* Properties *)

TypeOK ==
  /\ row \in [Products -> Rows \cup {None}]
  /\ born \in SUBSET Products
  /\ age \in [Products -> 0..Oldest]
  /\ list \in [Queries -> SUBSET Products]
  /\ listTtl \in [Queries -> 0..LIST_TTL]
  /\ item \in [Products -> Rows \cup {None}]
  /\ itemTtl \in [Products -> 0..ITEM_TTL]
  /\ pc \in [Requests -> Resting \cup Working]
  /\ \A r \in Requests :
       /\ job[r].what \in Queries \cup Products \cup {None}
       /\ job[r].edit \in Edits \cup {None}
       /\ job[r].scope \in {"none", "own", "all", "lists"}

(* Without overlap and without the silent writers, the cache is never wrong
   between requests: whatever ProductsService writes, it clears each entry that
   the write made stale, and leaves none behind that shows a removed product. *)
CacheIsExact ==
  Quiet =>
    /\ \A q \in Queries : listTtl[q] > 0 => list[q] = Answer(q)
    /\ \A p \in Products : itemTtl[p] > 0 => item[p] = row[p]

(* A list that wrongly shows or omits a product, or a page that differs from
   its product, does so because the product changed after the row was read, so
   for LIST_TTL or ITEM_TTL at most, whoever wrote it and however the reads and
   writes overlapped. *)
StaleIsBounded ==
  \A p \in Products :
    /\ \A q \in Queries :
         listTtl[q] > 0 /\ p \in Matches[q] /\ ~(p \in list[q] <=> Shown(p)) =>
           age[p] + listTtl[q] <= LIST_TTL
    /\ itemTtl[p] > 0 /\ item[p] # row[p] => age[p] + itemTtl[p] <= ITEM_TTL
=============================================================================
