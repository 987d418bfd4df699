------------------------------ MODULE CatalogProofs ------------------------------
(***************************************************************************)
(* Proofs about what is listed in Services.  The catalog and its cache,    *)
(* for any products, queries, requests and lifetimes: how long an entry    *)
(* can be wrong, and when it never is.  Then the paged lists, for any      *)
(* table and any size of a page: which rows a walk can miss.  Then the     *)
(* reports, for any orders and downloads: that their parts agree.          *)
(***************************************************************************)
EXTENDS AccountProofs, BuyerProofs, SequenceTheorems, WellFoundedInduction

LEMMA CatalogStep ==
  ASSUME service = "catalog", [Next]_vars
  PROVE  [Cat!Next]_(Cat!vars)
  BY DEF Next, Only, vars, catalogVars, Cat!vars, Cat!tableVars, Cat!listVars, Cat!itemVars

-----------------------------------------------------------------------------
(* The invariant *)

Lifetimes == LIST_TTL \in Nat /\ ITEM_TTL \in Nat
Filters == Matches \in [Queries -> SUBSET CatalogProducts]

Jobs == [what : Queries \cup CatalogProducts \cup {None},
         found : (SUBSET CatalogProducts) \cup Cat!Rows \cup {None},
         edit : Cat!Edits \cup {None},
         scope : {"none", "own", "all", "lists"}]

LocalsOK == catalogPc \in [Requests -> Cat!Resting \cup Cat!Working] /\ catalogJob \in [Requests -> Jobs]

TableOK ==
  /\ catalog \in [CatalogProducts -> Cat!Rows \cup {None}]
  /\ listed \in SUBSET CatalogProducts
  /\ age \in [CatalogProducts -> 0..Cat!Oldest]

CacheOK ==
  /\ list \in [Queries -> SUBSET CatalogProducts]
  /\ listTtl \in [Queries -> 0..LIST_TTL]
  /\ item \in [CatalogProducts -> Cat!Rows \cup {None}]
  /\ itemTtl \in [CatalogProducts -> 0..ITEM_TTL]

(* No tick falls inside a request, so what a handler is about to cache differs
   from the table only where the table has changed within this minute. *)
FoundList(r) ==
  catalogPc[r] = "listing" =>
    /\ catalogJob[r].found \in SUBSET CatalogProducts
    /\ \A q \in Queries, p \in CatalogProducts :
         q = catalogJob[r].what /\ p \in Matches[q] /\ ~(p \in catalogJob[r].found <=> Cat!Shown(p)) =>
           age[p] = 0

FoundItem(r) ==
  catalogPc[r] = "keeping" =>
    /\ catalogJob[r].found \in Cat!Rows
    /\ \A p \in CatalogProducts : p = catalogJob[r].what /\ catalogJob[r].found # catalog[p] => age[p] = 0

(* StaleIsBounded, for the lists and for the products. *)
ListsBounded ==
  \A q \in Queries, p \in CatalogProducts :
    listTtl[q] > 0 /\ p \in Matches[q] /\ ~(p \in list[q] <=> Cat!Shown(p)) =>
      age[p] + listTtl[q] <= LIST_TTL

ItemsBounded ==
  \A p \in CatalogProducts :
    itemTtl[p] > 0 /\ item[p] # catalog[p] => age[p] + itemTtl[p] <= ITEM_TTL

Found == \A r \in Requests : FoundList(r) /\ FoundItem(r)
Bounded == ListsBounded /\ ItemsBounded

AgeInv == LocalsOK /\ TableOK /\ CacheOK /\ Found /\ Bounded

-----------------------------------------------------------------------------
(* What most steps have in common *)

(* A row is as it was, or has just changed. *)
Rewritten ==
  /\ TableOK'
  /\ \A p \in CatalogProducts : age'[p] = 0 \/ (catalog'[p] = catalog[p] /\ age'[p] = age[p])

(* An entry is as it was, or is gone. *)
Shrunk ==
  /\ CacheOK'
  /\ \A q \in Queries :
       listTtl'[q] = 0 \/ (list'[q] = list[q] /\ listTtl'[q] = listTtl[q])
  /\ \A p \in CatalogProducts :
       itemTtl'[p] = 0 \/ (item'[p] = item[p] /\ itemTtl'[p] = itemTtl[p])

(* Nobody has just read what it is going to cache. *)
NobodyReads ==
  \A r \in Requests :
    catalogPc'[r] \in {"listing", "keeping"} => catalogPc'[r] = catalogPc[r] /\ catalogJob'[r] = catalogJob[r]

(* Changes of rows and clearings of entries keep the bounds. *)
LEMMA BoundsStay ==
  ASSUME Lifetimes, AgeInv, Rewritten, Shrunk
  PROVE  Bounded'
<1>1. ASSUME NEW p \in CatalogProducts, catalog'[p] = catalog[p] PROVE Cat!Shown(p)' <=> Cat!Shown(p)
  BY <1>1 DEF Cat!Shown
<1>2. ASSUME NEW q \in Queries, NEW p \in CatalogProducts,
             listTtl'[q] > 0, p \in Matches[q], ~(p \in list'[q] <=> Cat!Shown(p)')
      PROVE  age'[p] + listTtl'[q] <= LIST_TTL
  <2>1. list'[q] = list[q] /\ listTtl'[q] = listTtl[q]
    BY <1>2 DEF Shrunk
  <2>2. listTtl[q] \in 0..LIST_TTL
    BY DEF AgeInv, CacheOK
  <2>3. CASE age'[p] = 0
    BY <2>1, <2>2, <2>3 DEF Lifetimes
  <2>4. CASE catalog'[p] = catalog[p] /\ age'[p] = age[p]
    BY <1>1, <1>2, <2>1, <2>4 DEF AgeInv, Bounded, ListsBounded
  <2> QED
    BY <2>3, <2>4 DEF Rewritten
<1>3. ASSUME NEW p \in CatalogProducts, itemTtl'[p] > 0, item'[p] # catalog'[p]
      PROVE  age'[p] + itemTtl'[p] <= ITEM_TTL
  <2>1. item'[p] = item[p] /\ itemTtl'[p] = itemTtl[p]
    BY <1>3 DEF Shrunk
  <2>2. itemTtl[p] \in 0..ITEM_TTL
    BY DEF AgeInv, CacheOK
  <2>3. CASE age'[p] = 0
    BY <2>1, <2>2, <2>3 DEF Lifetimes
  <2>4. CASE catalog'[p] = catalog[p] /\ age'[p] = age[p]
    BY <1>3, <2>1, <2>4 DEF AgeInv, Bounded, ItemsBounded
  <2> QED
    BY <2>3, <2>4 DEF Rewritten
<1> QED
  BY <1>2, <1>3 DEF Bounded, ListsBounded, ItemsBounded

(* Changes of rows leave true what is said of the handlers that have read. *)
LEMMA FoundStays ==
  ASSUME AgeInv, Rewritten, NEW r \in Requests,
         catalogPc'[r] \in {"listing", "keeping"} => catalogPc'[r] = catalogPc[r] /\ catalogJob'[r] = catalogJob[r]
  PROVE  FoundList(r)' /\ FoundItem(r)'
<1>1. ASSUME NEW p \in CatalogProducts, catalog'[p] = catalog[p] PROVE Cat!Shown(p)' <=> Cat!Shown(p)
  BY <1>1 DEF Cat!Shown
<1>2. FoundList(r)'
  BY <1>1 DEF AgeInv, Found, FoundList, Rewritten
<1>3. FoundItem(r)'
  BY DEF AgeInv, Found, FoundItem, Rewritten
<1> QED
  BY <1>2, <1>3

(* A step of these kinds keeps the invariant. *)
LEMMA PlainStep ==
  ASSUME Lifetimes, AgeInv, LocalsOK', Rewritten, Shrunk, NobodyReads
  PROVE  AgeInv'
<1>1. Bounded'
  BY BoundsStay
<1>2. Found'
  BY FoundStays DEF Found, NobodyReads
<1> QED
  BY <1>1, <1>2 DEF AgeInv, Rewritten, Shrunk

(* The tables that a step leaves alone. *)
LEMMA TableStays == AgeInv /\ UNCHANGED Cat!tableVars => Rewritten
  BY DEF AgeInv, Rewritten, TableOK, Cat!tableVars, Cat!Oldest

LEMMA CacheStays == AgeInv /\ UNCHANGED <<Cat!listVars, Cat!itemVars>> => Shrunk
  BY DEF AgeInv, Shrunk, CacheOK, Cat!listVars, Cat!itemVars

(* Whatever a handler goes on with, its local variables keep their types. *)
LEMMA EnterType ==
  ASSUME LocalsOK, NEW r \in Requests, NEW place \in Cat!Resting \cup Cat!Working,
         NEW j \in Jobs, Cat!Enter(r, place, j)
  PROVE  /\ LocalsOK'
         /\ place \notin {"listing", "keeping"} => NobodyReads
         /\ catalogPc'[r] = place /\ catalogJob'[r] = j
         /\ \A s \in Requests \ {r} : catalogPc'[s] = catalogPc[s] /\ catalogJob'[s] = catalogJob[s]
  BY DEF Cat!Enter, LocalsOK, NobodyReads

(* The jobs that handlers are given. *)
LEMMA JobType ==
  ASSUME NEW what \in Queries \cup CatalogProducts \cup {None},
         NEW found \in (SUBSET CatalogProducts) \cup Cat!Rows \cup {None},
         NEW edit \in Cat!Edits \cup {None}, NEW scope \in {"none", "own", "all", "lists"}
  PROVE  /\ Cat!Job(what, found, edit, scope) \in Jobs
         /\ Cat!Job(what, found, edit, scope).what = what
         /\ Cat!Job(what, found, edit, scope).found = found
  BY DEF Cat!Job, Jobs

LEMMA LeaveType ==
  ASSUME LocalsOK, NEW r \in Requests, NEW outcome \in Cat!Resting, Cat!Leave(r, outcome)
  PROVE  LocalsOK' /\ NobodyReads
<1>1. Cat!NoJob \in Jobs
  BY DEF Cat!NoJob, Cat!Job, Jobs
<1>2. Cat!Enter(r, outcome, Cat!NoJob) /\ outcome \notin {"listing", "keeping"}
  BY DEF Cat!Leave, Cat!Resting
<1> QED
  BY <1>1, <1>2, EnterType

-----------------------------------------------------------------------------
(* Reads *)

LEMMA FindAllKeeps ==
  ASSUME Lifetimes, AgeInv, NEW r \in Requests, NEW q \in Queries, Cat!FindAll(r, q)
  PROVE  AgeInv'
<1>1. Rewritten /\ Shrunk
  BY TableStays, CacheStays DEF Cat!FindAll
<1>2. LocalsOK' /\ NobodyReads
  <2>1. CASE Cat!Leave(r, "done")
    BY <2>1, LeaveType DEF AgeInv, Cat!Resting
  <2>2. CASE Cat!Enter(r, "querying", Cat!Job(q, None, None, "none"))
    <3>1. Cat!Job(q, None, None, "none") \in Jobs
      BY JobType
    <3> QED
      BY <2>2, <3>1, EnterType DEF AgeInv, Cat!Working
  <2> QED
    BY <2>1, <2>2 DEF Cat!FindAll
<1> QED
  BY <1>1, <1>2, PlainStep

(* What is read from the table is the table's for now. *)
LEMMA QueryRowsKeeps ==
  ASSUME Lifetimes, Filters, AgeInv, NEW r \in Requests, NEW q \in Queries,
         Cat!QueryRows(r, q)
  PROVE  AgeInv'
<1>1. Rewritten /\ Shrunk
  BY TableStays, CacheStays DEF Cat!QueryRows
<1>2. Cat!Answer(q) \in SUBSET CatalogProducts
  BY DEF Cat!Answer, Filters
<1>3. /\ Cat!Job(q, Cat!Answer(q), None, "none") \in Jobs
      /\ Cat!Job(q, Cat!Answer(q), None, "none").what = q
      /\ Cat!Job(q, Cat!Answer(q), None, "none").found = Cat!Answer(q)
  BY <1>2 DEF Cat!Job, Jobs
<1>4. /\ LocalsOK'
      /\ catalogPc'[r] = "listing" /\ catalogJob'[r].what = q /\ catalogJob'[r].found = Cat!Answer(q)
      /\ \A s \in Requests \ {r} : catalogPc'[s] = catalogPc[s] /\ catalogJob'[s] = catalogJob[s]
  BY <1>3, EnterType DEF Cat!QueryRows, AgeInv, Cat!Working
<1>5. \A p \in CatalogProducts : Cat!Shown(p)' <=> Cat!Shown(p)
  BY DEF Cat!QueryRows, Cat!tableVars, Cat!Shown
<1>6. FoundList(r)' /\ FoundItem(r)'
  BY <1>2, <1>4, <1>5 DEF FoundList, FoundItem, Cat!Answer
<1>7. Found'
  BY <1>1, <1>4, <1>6, FoundStays DEF Found
<1> QED
  BY <1>1, <1>4, <1>7, BoundsStay DEF AgeInv, Rewritten, Shrunk

(* An entry is cached within the minute in which it was read. *)
LEMMA CacheListKeeps ==
  ASSUME Lifetimes, Filters, AgeInv, NEW r \in Requests, NEW q \in Queries,
         Cat!CacheList(r, q)
  PROVE  AgeInv'
<1>1. Rewritten
  BY TableStays DEF Cat!CacheList
<1>2. LocalsOK' /\ NobodyReads
  BY LeaveType DEF Cat!CacheList, AgeInv, Cat!Resting
<1>3. Found'
  BY <1>1, <1>2, FoundStays DEF Found, NobodyReads
<1>4. /\ catalogJob[r].found \in SUBSET CatalogProducts
      /\ \A p \in CatalogProducts :
           p \in Matches[q] /\ ~(p \in catalogJob[r].found <=> Cat!Shown(p)) => age[p] = 0
  BY DEF AgeInv, Found, FoundList, Cat!CacheList
<1>5. CacheOK'
  BY <1>4 DEF AgeInv, CacheOK, Cat!CacheList, Cat!itemVars, Lifetimes
<1>6. \A p \in CatalogProducts : (Cat!Shown(p)' <=> Cat!Shown(p)) /\ age'[p] = age[p]
  BY DEF Cat!CacheList, Cat!tableVars, Cat!Shown
<1>7. ListsBounded'
  <2> SUFFICES ASSUME NEW x \in Queries, NEW p \in CatalogProducts, listTtl'[x] > 0,
                      p \in Matches[x], ~(p \in list'[x] <=> Cat!Shown(p)')
               PROVE  age'[p] + listTtl'[x] <= LIST_TTL
    BY DEF ListsBounded
  <2>1. CASE x = q
    <3>1. list'[x] = catalogJob[r].found /\ listTtl'[x] = LIST_TTL
      BY <2>1 DEF Cat!CacheList, AgeInv, CacheOK
    <3> QED
      BY <1>4, <1>6, <2>1, <3>1 DEF Lifetimes
  <2>2. CASE x # q
    <3>1. list'[x] = list[x] /\ listTtl'[x] = listTtl[x]
      BY <2>2 DEF Cat!CacheList, AgeInv, CacheOK
    <3> QED
      BY <1>6, <3>1 DEF AgeInv, Bounded, ListsBounded
  <2> QED
    BY <2>1, <2>2
<1>8. ItemsBounded'
  BY DEF AgeInv, Bounded, ItemsBounded, Cat!CacheList, Cat!tableVars, Cat!itemVars
<1> QED
  BY <1>1, <1>2, <1>3, <1>5, <1>7, <1>8 DEF AgeInv, Rewritten, Bounded

LEMMA FindByIdKeeps ==
  ASSUME Lifetimes, AgeInv, NEW r \in Requests, NEW p \in CatalogProducts,
         NEW edit \in Cat!Edits \cup {None}, NEW scope \in {"none", "own", "all"},
         Cat!FindById(r, p, edit, scope)
  PROVE  AgeInv'
<1>1. Rewritten /\ Shrunk
  BY TableStays, CacheStays DEF Cat!FindById
<1>2. Cat!Job(p, None, edit, scope) \in Jobs
  BY JobType
<1>3. \/ Cat!Leave(r, "done")
      \/ Cat!Enter(r, "loading", Cat!Job(p, None, edit, scope))
      \/ Cat!Enter(r, "writing", Cat!Job(p, None, edit, scope))
  BY DEF Cat!FindById
<1>4. LocalsOK' /\ NobodyReads
  <2>1. CASE Cat!Leave(r, "done")
    BY <2>1, LeaveType DEF AgeInv, Cat!Resting
  <2>2. CASE Cat!Enter(r, "loading", Cat!Job(p, None, edit, scope))
    BY <1>2, <2>2, EnterType DEF AgeInv, Cat!Working
  <2>3. CASE Cat!Enter(r, "writing", Cat!Job(p, None, edit, scope))
    BY <1>2, <2>3, EnterType DEF AgeInv, Cat!Working
  <2> QED
    BY <1>3, <2>1, <2>2, <2>3
<1> QED
  BY <1>1, <1>4, PlainStep

LEMMA LoadRowKeeps ==
  ASSUME Lifetimes, AgeInv, NEW r \in Requests, NEW p \in CatalogProducts, Cat!LoadRow(r, p)
  PROVE  AgeInv'
<1>1. Rewritten /\ Shrunk
  BY TableStays, CacheStays DEF Cat!LoadRow
<1>2. CASE Cat!Leave(r, "refused")
  BY <1>1, <1>2, LeaveType, PlainStep DEF AgeInv, Cat!Resting
<1>3. CASE /\ catalog[p] # None
           /\ Cat!Enter(r, "keeping", Cat!Job(p, catalog[p], catalogJob[r].edit, catalogJob[r].scope))
  <2>1. catalog[p] \in Cat!Rows
    BY <1>3 DEF AgeInv, TableOK
  <2>2. catalogJob[r].edit \in Cat!Edits \cup {None} /\ catalogJob[r].scope \in {"none", "own", "all", "lists"}
    BY DEF AgeInv, LocalsOK, Jobs
  <2>3. /\ Cat!Job(p, catalog[p], catalogJob[r].edit, catalogJob[r].scope) \in Jobs
        /\ Cat!Job(p, catalog[p], catalogJob[r].edit, catalogJob[r].scope).what = p
        /\ Cat!Job(p, catalog[p], catalogJob[r].edit, catalogJob[r].scope).found = catalog[p]
    BY <2>1, <2>2, JobType
  <2>4. /\ LocalsOK'
        /\ catalogPc'[r] = "keeping" /\ catalogJob'[r].what = p /\ catalogJob'[r].found = catalog[p]
        /\ \A s \in Requests \ {r} : catalogPc'[s] = catalogPc[s] /\ catalogJob'[s] = catalogJob[s]
    BY <1>3, <2>3, EnterType DEF AgeInv, Cat!Working
  <2>5. FoundList(r)' /\ FoundItem(r)'
    BY <2>1, <2>4 DEF FoundList, FoundItem, Cat!LoadRow, Cat!tableVars
  <2>6. Found'
    BY <1>1, <2>4, <2>5, FoundStays DEF Found
  <2> QED
    BY <1>1, <2>4, <2>6, BoundsStay DEF AgeInv, Rewritten, Shrunk
<1> QED
  BY <1>2, <1>3 DEF Cat!LoadRow

LEMMA CacheItemKeeps ==
  ASSUME Lifetimes, AgeInv, NEW r \in Requests, NEW p \in CatalogProducts, Cat!CacheItem(r, p)
  PROVE  AgeInv'
<1>1. Rewritten
  BY TableStays DEF Cat!CacheItem
<1>2. LocalsOK' /\ NobodyReads
  <2>1. CASE Cat!Leave(r, "done")
    BY <2>1, LeaveType DEF AgeInv, Cat!Resting
  <2>2. CASE Cat!Enter(r, "writing", Cat!Job(p, None, catalogJob[r].edit, catalogJob[r].scope))
    <3>1. catalogJob[r].edit \in Cat!Edits \cup {None} /\ catalogJob[r].scope \in {"none", "own", "all", "lists"}
      BY DEF AgeInv, LocalsOK, Jobs
    <3>2. Cat!Job(p, None, catalogJob[r].edit, catalogJob[r].scope) \in Jobs
      BY <3>1, JobType
    <3> QED
      BY <2>2, <3>2, EnterType DEF AgeInv, Cat!Working
  <2> QED
    BY <2>1, <2>2 DEF Cat!CacheItem
<1>3. Found'
  BY <1>1, <1>2, FoundStays DEF Found, NobodyReads
<1>4. catalogJob[r].found \in Cat!Rows /\ (catalogJob[r].found # catalog[p] => age[p] = 0)
  BY DEF AgeInv, Found, FoundItem, Cat!CacheItem
<1>5. CacheOK'
  BY <1>4 DEF AgeInv, CacheOK, Cat!CacheItem, Cat!listVars, Lifetimes
<1>6. ItemsBounded'
  <2> SUFFICES ASSUME NEW x \in CatalogProducts, itemTtl'[x] > 0, item'[x] # catalog'[x]
               PROVE  age'[x] + itemTtl'[x] <= ITEM_TTL
    BY DEF ItemsBounded
  <2>1. catalog' = catalog /\ age' = age
    BY DEF Cat!CacheItem, Cat!tableVars
  <2>2. CASE x = p
    <3>1. item'[x] = catalogJob[r].found /\ itemTtl'[x] = ITEM_TTL
      BY <2>2 DEF Cat!CacheItem, AgeInv, CacheOK
    <3> QED
      BY <1>4, <2>1, <2>2, <3>1 DEF Lifetimes
  <2>3. CASE x # p
    <3>1. item'[x] = item[x] /\ itemTtl'[x] = itemTtl[x]
      BY <2>3 DEF Cat!CacheItem, AgeInv, CacheOK
    <3> QED
      BY <2>1, <3>1 DEF AgeInv, Bounded, ItemsBounded
  <2> QED
    BY <2>2, <2>3
<1>7. ListsBounded'
  BY DEF AgeInv, Bounded, ListsBounded, Cat!CacheItem, Cat!tableVars, Cat!listVars, Cat!Shown
<1> QED
  BY <1>1, <1>2, <1>3, <1>5, <1>6, <1>7 DEF AgeInv, Rewritten, Bounded

-----------------------------------------------------------------------------
(* Writes *)

LEMMA MergeType ==
  ASSUME NEW old \in Cat!Rows, NEW edit \in Cat!Edits
  PROVE  Cat!Merge(old, edit) \in Cat!Rows
  BY DEF Cat!Merge, Cat!Rows, Cat!Edits, Cat!Row

LEMMA WriteAges ==
  ASSUME Lifetimes, AgeInv, NEW r \in Requests, NEW p \in CatalogProducts, Cat!Write(r, p)
  PROVE  AgeInv'
<1>1. Shrunk
  BY CacheStays DEF Cat!Write
<1>2. CASE catalog[p] = None
  <2>1. Cat!Leave(r, "failed") /\ UNCHANGED Cat!tableVars
    BY <1>2 DEF Cat!Write, Cat!tableVars
  <2>2. Rewritten
    BY <2>1, TableStays
  <2> QED
    BY <1>1, <2>1, <2>2, LeaveType, PlainStep DEF AgeInv, Cat!Resting
<1>3. CASE catalog[p] # None
  <2>1. catalog[p] \in Cat!Rows /\ catalogJob[r].edit \in Cat!Edits \cup {None}
        /\ catalogJob[r].scope \in {"none", "own", "all", "lists"}
    BY <1>3 DEF AgeInv, TableOK, LocalsOK, Jobs
  <2>2. (IF catalogJob[r].edit = None THEN None ELSE Cat!Merge(catalog[p], catalogJob[r].edit)) \in Cat!Rows \cup {None}
    BY <2>1, MergeType
  <2>3. Rewritten
    <3>1. /\ catalog' = [x \in CatalogProducts |->
                      IF x \in {p}
                      THEN (IF catalogJob[r].edit = None THEN None ELSE Cat!Merge(catalog[x], catalogJob[r].edit))
                      ELSE catalog[x]]
          /\ age' = [x \in CatalogProducts |->
                      IF x \in {p} /\ (IF catalogJob[r].edit = None THEN None
                                       ELSE Cat!Merge(catalog[x], catalogJob[r].edit)) # catalog[x]
                      THEN 0 ELSE age[x]]
          /\ listed' = listed
      BY <1>3 DEF Cat!Write, Cat!Put
    <3>2. catalog' \in [CatalogProducts -> Cat!Rows \cup {None}]
      BY <2>2, <3>1 DEF AgeInv, TableOK
    <3>3. age' \in [CatalogProducts -> 0..Cat!Oldest]
      BY <3>1 DEF AgeInv, TableOK, Cat!Oldest, Lifetimes
    <3>4. \A x \in CatalogProducts : age'[x] = 0 \/ (catalog'[x] = catalog[x] /\ age'[x] = age[x])
      BY <3>1
    <3> QED
      BY <3>1, <3>2, <3>3, <3>4 DEF Rewritten, AgeInv, TableOK, Cat!Oldest
  <2>4. Cat!Job(p, None, None, catalogJob[r].scope) \in Jobs
    BY <2>1, JobType
  <2>5. Cat!Enter(r, "purging", Cat!Job(p, None, None, catalogJob[r].scope))
    BY <1>3 DEF Cat!Write
  <2>6. LocalsOK' /\ NobodyReads
    BY <2>4, <2>5, EnterType DEF AgeInv, Cat!Working
  <2> QED
    BY <1>1, <2>3, <2>6, PlainStep
<1> QED
  BY <1>2, <1>3

LEMMA PurgeKeeps ==
  ASSUME Lifetimes, AgeInv, NEW r \in Requests, NEW p \in CatalogProducts, Cat!Purge(r, p)
  PROVE  AgeInv'
<1>1. Rewritten
  BY TableStays DEF Cat!Purge
<1>2. LocalsOK' /\ NobodyReads
  BY LeaveType DEF Cat!Purge, AgeInv, Cat!Resting
<1>3. /\ \A q \in Queries :
           \/ list'[q] = {} /\ listTtl'[q] = 0
           \/ list'[q] = list[q] /\ listTtl'[q] = listTtl[q]
      /\ \A x \in CatalogProducts :
           \/ item'[x] = None /\ itemTtl'[x] = 0
           \/ item'[x] = item[x] /\ itemTtl'[x] = itemTtl[x]
  BY DEF Cat!Purge
<1>4. CacheOK'
  BY DEF Cat!Purge, AgeInv, CacheOK, Lifetimes
<1>5. Shrunk
  BY <1>3, <1>4 DEF Shrunk
<1> QED
  BY <1>1, <1>2, <1>5, PlainStep

(* A writer outside ProductsService that has no handler of its own here. *)
LEMMA AsideKeeps ==
  ASSUME Lifetimes, AgeInv, Rewritten, Shrunk, UNCHANGED <<catalogPc, catalogJob>>
  PROVE  AgeInv'
<1>1. LocalsOK' /\ NobodyReads
  BY DEF AgeInv, LocalsOK, NobodyReads
<1> QED
  BY <1>1, PlainStep

LEMMA CreateKeeps ==
  ASSUME Lifetimes, AgeInv, NEW p \in CatalogProducts, NEW b \in {"sold", "free"}, Cat!Create(p, b)
  PROVE  AgeInv'
<1>1. Shrunk
  BY CacheStays DEF Cat!Create
<1>2. Cat!Row(Cat!FirstStatus, b) \in Cat!Rows
  BY DEF Cat!Rows, Cat!Row, Cat!FirstStatus
<1>3. Rewritten
  BY <1>2 DEF Cat!Create, Cat!Put, Rewritten, AgeInv, TableOK, Cat!Oldest, Lifetimes
<1>4. UNCHANGED <<catalogPc, catalogJob>>
  BY DEF Cat!Create
<1> QED
  BY <1>1, <1>3, <1>4, AsideKeeps

LEMMA CloneKeeps ==
  ASSUME Lifetimes, AgeInv, NEW r \in Requests, NEW original \in CatalogProducts,
         NEW p \in CatalogProducts, Cat!Clone(r, original, p)
  PROVE  AgeInv'
<1>1. Shrunk
  BY CacheStays DEF Cat!Clone
<1>2. Cat!Row(Cat!FirstStatus, "free") \in Cat!Rows
  BY DEF Cat!Rows, Cat!Row, Cat!FirstStatus
<1>3. Rewritten
  BY <1>2 DEF Cat!Clone, Cat!Put, Rewritten, AgeInv, TableOK, Cat!Oldest, Lifetimes
<1>4. Cat!Job(p, None, None, "lists") \in Jobs
  BY JobType
<1>5. LocalsOK' /\ NobodyReads
  BY <1>4, EnterType DEF Cat!Clone, AgeInv, Cat!Working
<1> QED
  BY <1>1, <1>3, <1>5, PlainStep

LEMMA SilentKeeps ==
  ASSUME Lifetimes, AgeInv,
         \/ \E p \in CatalogProducts : Cat!Sell(p)
         \/ \E ps \in SUBSET CatalogProducts :
              Cat!AdminDelete(ps) \/ \E s \in Cat!Statuses : Cat!AdminStatus(ps, s)
  PROVE  AgeInv'
<1>1. ASSUME NEW p \in CatalogProducts, Cat!Sell(p) PROVE AgeInv'
  <2>1. Cat!Row(catalog[p].status, "sold") \in Cat!Rows
    <3>1. catalog[p] \in Cat!Rows
      BY <1>1 DEF Cat!Sell, AgeInv, TableOK
    <3> QED
      BY <3>1 DEF Cat!Rows, Cat!Row
  <2>2. Rewritten
    BY <1>1, <2>1 DEF Cat!Sell, Cat!Put, Rewritten, AgeInv, TableOK, Cat!Oldest, Lifetimes
  <2> QED
    BY <1>1, <2>2, CacheStays, AsideKeeps DEF Cat!Sell
<1>2. ASSUME NEW ps \in SUBSET CatalogProducts, Cat!AdminDelete(ps) PROVE AgeInv'
  <2>1. Rewritten
    BY <1>2 DEF Cat!AdminDelete, Cat!Put, Rewritten, AgeInv, TableOK, Cat!Oldest, Lifetimes
  <2> QED
    BY <1>2, <2>1, CacheStays, AsideKeeps DEF Cat!AdminDelete
<1>3. ASSUME NEW ps \in SUBSET CatalogProducts, NEW s \in Cat!Statuses, Cat!AdminStatus(ps, s)
      PROVE  AgeInv'
  <2>1. Cat!Row(s, "keep") \in Cat!Edits
    BY DEF Cat!Edits, Cat!Row, Cat!Statuses
  <2>2. \A p \in CatalogProducts : catalog[p] # None => Cat!Merge(catalog[p], Cat!Row(s, "keep")) \in Cat!Rows
    BY <2>1, MergeType DEF AgeInv, TableOK
  <2>3. Rewritten
    BY <1>3, <2>2 DEF Cat!AdminStatus, Cat!Put, Rewritten, AgeInv, TableOK, Cat!Oldest, Lifetimes
  <2> QED
    BY <1>3, <2>3, CacheStays, AsideKeeps DEF Cat!AdminStatus
<1> QED
  BY <1>1, <1>2, <1>3

-----------------------------------------------------------------------------
(* Time and restarts *)

(* A minute adds one to an age and takes one from an entry. *)
LEMMA TickKeeps ==
  ASSUME Lifetimes, AgeInv, Cat!Tick
  PROVE  AgeInv'
<1>1. catalog' = catalog /\ listed' = listed /\ catalogPc' = catalogPc /\ catalogJob' = catalogJob
  BY DEF Cat!Tick
<1>2. \A p \in CatalogProducts : Cat!Shown(p)' <=> Cat!Shown(p)
  BY <1>1 DEF Cat!Shown
<1>3. \A p \in CatalogProducts : age'[p] \in 0..Cat!Oldest /\ age'[p] <= age[p] + 1
  BY DEF Cat!Tick, AgeInv, TableOK, Cat!Oldest, Lifetimes
<1>4. TableOK'
  BY <1>1, <1>3 DEF Cat!Tick, AgeInv, TableOK, Cat!Oldest
<1>5. /\ \A q \in Queries :
           listTtl'[q] > 0 => listTtl'[q] = listTtl[q] - 1 /\ list'[q] = list[q]
                              /\ listTtl[q] > 0
      /\ \A p \in CatalogProducts :
           itemTtl'[p] > 0 => itemTtl'[p] = itemTtl[p] - 1 /\ item'[p] = item[p]
                              /\ itemTtl[p] > 0
  BY DEF Cat!Tick, Cat!Elapsed, AgeInv, CacheOK, Lifetimes
<1>6. CacheOK'
  BY DEF Cat!Tick, Cat!Elapsed, AgeInv, CacheOK, Lifetimes
<1>7. LocalsOK' /\ Found'
  <2>1. \A r \in Requests : catalogPc[r] \notin {"listing", "keeping"}
    BY DEF Cat!Tick, Cat!Quiet, Cat!Active, Cat!Working
  <2> QED
    BY <1>1, <2>1 DEF AgeInv, LocalsOK, Found, FoundList, FoundItem
<1>8. ListsBounded'
  <2> SUFFICES ASSUME NEW q \in Queries, NEW p \in CatalogProducts, listTtl'[q] > 0,
                      p \in Matches[q], ~(p \in list'[q] <=> Cat!Shown(p)')
               PROVE  age'[p] + listTtl'[q] <= LIST_TTL
    BY DEF ListsBounded
  <2>1. age[p] + listTtl[q] <= LIST_TTL
    BY <1>2, <1>5 DEF AgeInv, Bounded, ListsBounded
  <2>2. age[p] \in Nat /\ listTtl[q] \in Nat
    BY DEF AgeInv, TableOK, CacheOK, Cat!Oldest, Lifetimes
  <2>3. age'[p] \in Nat
    BY <1>3 DEF Cat!Oldest, Lifetimes
  <2> QED
    BY <1>3, <1>5, <2>1, <2>2, <2>3 DEF Lifetimes
<1>9. ItemsBounded'
  <2> SUFFICES ASSUME NEW p \in CatalogProducts, itemTtl'[p] > 0, item'[p] # catalog'[p]
               PROVE  age'[p] + itemTtl'[p] <= ITEM_TTL
    BY DEF ItemsBounded
  <2>1. age[p] + itemTtl[p] <= ITEM_TTL
    BY <1>1, <1>5 DEF AgeInv, Bounded, ItemsBounded
  <2>2. age[p] \in Nat /\ itemTtl[p] \in Nat
    BY DEF AgeInv, TableOK, CacheOK, Cat!Oldest, Lifetimes
  <2>3. age'[p] \in Nat
    BY <1>3 DEF Cat!Oldest, Lifetimes
  <2> QED
    BY <1>3, <1>5, <2>1, <2>2, <2>3 DEF Lifetimes
<1> QED
  BY <1>4, <1>6, <1>7, <1>8, <1>9 DEF AgeInv, Bounded

LEMMA EmptyShrinks ==
  ASSUME Lifetimes, Cat!EmptyCache
  PROVE  Shrunk
  BY DEF Cat!EmptyCache, Shrunk, CacheOK, Lifetimes

LEMMA ClearKeeps ==
  ASSUME Lifetimes, AgeInv, Cat!Clear \/ Cat!Restart
  PROVE  AgeInv'
<1>1. Rewritten /\ Shrunk
  BY TableStays, EmptyShrinks DEF Cat!Clear, Cat!Restart
<1>2. CASE Cat!Clear
  BY <1>1, <1>2, AsideKeeps DEF Cat!Clear
<1>3. CASE Cat!Restart
  <2>1. Cat!NoJob \in Jobs
    BY DEF Cat!NoJob, Cat!Job, Jobs
  <2>2. LocalsOK' /\ NobodyReads
    BY <1>3, <2>1 DEF Cat!Restart, LocalsOK, Cat!Resting, NobodyReads
  <2> QED
    BY <1>1, <2>2, PlainStep
<1> QED
  BY <1>2, <1>3

-----------------------------------------------------------------------------
(* Every step keeps the invariant, and it holds at the start. *)
LEMMA AgeStep == Lifetimes /\ Filters => (AgeInv /\ [Cat!Next]_(Cat!vars) => AgeInv')
<1> SUFFICES ASSUME Lifetimes, Filters, AgeInv, [Cat!Next]_(Cat!vars) PROVE AgeInv'
  OBVIOUS
<1>1. ASSUME NEW r \in Requests, Cat!Lists(r) PROVE AgeInv'
  BY <1>1, FindAllKeeps, QueryRowsKeeps, CacheListKeeps DEF Cat!Lists
<1>2. ASSUME NEW r \in Requests, NEW p \in CatalogProducts,
             \/ Cat!Get(r, p) \/ Cat!Remove(r, p)
             \/ \E e \in Cat!Edits : Cat!Update(r, p, e)
             \/ \E s \in Cat!Statuses : Cat!UpdateStatus(r, p, s)
      PROVE  AgeInv'
  <2>1. \A s \in Cat!Statuses : Cat!Row(s, "keep") \in Cat!Edits
    BY DEF Cat!Edits, Cat!Row, Cat!Statuses
  <2> QED
    BY <1>2, <2>1, FindByIdKeeps DEF Cat!Get, Cat!Remove, Cat!Update, Cat!UpdateStatus
<1>3. ASSUME NEW r \in Requests, Cat!Items(r) PROVE AgeInv'
  BY <1>2, <1>3, LoadRowKeeps, CacheItemKeeps, WriteAges, PurgeKeeps, CloneKeeps DEF Cat!Items
<1>4. CASE Cat!Others
  BY <1>4, CreateKeeps, SilentKeeps DEF Cat!Others
<1>5. CASE UNCHANGED Cat!vars
  BY <1>5, TableStays, CacheStays, AsideKeeps DEF Cat!vars
<1> QED
  BY <1>1, <1>3, <1>4, <1>5, TickKeeps, ClearKeeps DEF Cat!Next

LEMMA AgeStart == Lifetimes => (Cat!Init => AgeInv)
<1> SUFFICES ASSUME Lifetimes, Cat!Init PROVE AgeInv
  OBVIOUS
<1>1. Cat!NoJob \in Jobs
  BY DEF Cat!NoJob, Cat!Job, Jobs
<1>2. LocalsOK /\ Found
  BY <1>1 DEF Cat!Init, LocalsOK, Cat!Resting, Found, FoundList, FoundItem
<1>3. TableOK /\ CacheOK
  BY DEF Cat!Init, TableOK, CacheOK, Cat!Oldest, Lifetimes
<1>4. Bounded
  BY DEF Cat!Init, Bounded, ListsBounded, ItemsBounded
<1> QED
  BY <1>2, <1>3, <1>4 DEF AgeInv

-----------------------------------------------------------------------------

(* StaleIsBounded: for every pair of lifetimes, whoever writes a product and
   however reads and writes overlap, an entry that is wrong is wrong since a
   change of the product, and for its lifetime at most. *)
THEOREM StalenessIsBounded == Spec => []StaleIsBounded
<1> DEFINE Inv == service = "catalog" => AgeInv
<1>1. Lifetimes /\ Filters
  BY LivesAssumption, MatchesAssumption DEF Lifetimes, Filters
<1>2. Init => Inv
  BY <1>1, AgeStart DEF Init
<1>3. Inv /\ [Next]_vars => Inv'
  BY <1>1, AgeStep, CatalogStep, ServiceStays
<1>4. Inv => StaleIsBounded
  BY DEF AgeInv, Bounded, ListsBounded, ItemsBounded, StaleIsBounded, Cat!StaleIsBounded
<1> QED
  BY <1>2, <1>3, <1>4, PTL DEF Spec

(* The types of the catalog *)
LEMMA CatalogIsTyped == Spec => [](service = "catalog" => Cat!TypeOK)
<1> DEFINE Inv == service = "catalog" => AgeInv
<1>1. Lifetimes /\ Filters
  BY LivesAssumption, MatchesAssumption DEF Lifetimes, Filters
<1>2. Init => Inv
  BY <1>1, AgeStart DEF Init
<1>3. Inv /\ [Next]_vars => Inv'
  BY <1>1, AgeStep, CatalogStep, ServiceStays
<1>4. Inv => (service = "catalog" => Cat!TypeOK)
  BY DEF AgeInv, LocalsOK, TableOK, CacheOK, Jobs, Cat!TypeOK
<1> QED
  BY <1>2, <1>3, <1>4, PTL DEF Spec

-----------------------------------------------------------------------------
(* The cache when nothing overlaps and nobody writes past it *)

ExactList(q) == listTtl[q] > 0 => list[q] = Cat!Answer(q)
ExactItem(p) == itemTtl[p] > 0 => item[p] = catalog[p]

Alone == \A r, s \in Requests : Cat!Active(r) /\ Cat!Active(s) => r = s

(* No row and no entry is of a product that was never made. *)
Made == \A p \in CatalogProducts : catalog[p] # None \/ itemTtl[p] > 0 => p \in listed

(* What a handler has read is what the table says, and one that will clear the
   cache clears whatever entry of a product is wrong. *)
Reads(r) ==
  /\ catalogPc[r] = "listing" => catalogJob[r].found = Cat!Answer(catalogJob[r].what)
  /\ catalogPc[r] = "keeping" =>
       catalogJob[r].found = catalog[catalogJob[r].what] /\ catalogJob[r].what \in listed

Clears(r) ==
  /\ catalogPc[r] \in {"loading", "keeping"} => catalogJob[r].scope \in {"none", "own", "all"}
  /\ catalogPc[r] = "writing" => catalogJob[r].scope \in {"own", "all"}
  /\ catalogPc[r] = "purging" =>
       /\ catalogJob[r].scope \in {"own", "all", "lists"}
       /\ \A p \in CatalogProducts \ Cat!PurgedItems(catalogJob[r].scope, catalogJob[r].what) :
            ExactItem(p)

Exact == (\A q \in Queries : ExactList(q)) /\ (\A p \in CatalogProducts : ExactItem(p))

CacheInv ==
  /\ Alone /\ Made
  /\ \A r \in Requests : Reads(r) /\ Clears(r)
  /\ (\A r \in Requests : catalogPc[r] # "purging") => Exact

LEMMA InitCache == Cat!Init => CacheInv
  BY DEF Cat!Init, CacheInv, Alone, Made, Reads, Clears, Exact, ExactList, ExactItem,
         Cat!Active, Cat!Working

(* What has to be shown of a step of the one handler that is active *)
LEMMA SoloStep ==
  ASSUME AgeInv, CacheInv, NEW r \in Requests, NEW place, NEW j, Cat!Enter(r, place, j),
         Cat!Active(r) \/ Cat!Quiet,
         Made', Reads(r)', Clears(r)', place # "purging" => Exact'
  PROVE  CacheInv'
<1>1. /\ catalogPc'[r] = place
      /\ \A s \in Requests \ {r} : catalogPc'[s] = catalogPc[s] /\ ~Cat!Active(s)
  BY DEF AgeInv, LocalsOK, Cat!Enter, CacheInv, Alone, Cat!Quiet
<1>2. \A s \in Requests \ {r} : ~Cat!Active(s)' /\ Reads(s)' /\ Clears(s)' /\ catalogPc'[s] # "purging"
  BY <1>1 DEF Cat!Active, Cat!Working, Reads, Clears
<1>3. Alone'
  BY <1>2 DEF Alone
<1>4. (\A s \in Requests : catalogPc'[s] # "purging") => Exact'
  BY <1>1
<1> QED
  BY <1>2, <1>3, <1>4 DEF CacheInv

(* Between a write and its clearing no other handler is active. *)
LEMMA ExactNow ==
  ASSUME CacheInv, NEW r \in Requests, catalogPc[r] # "purging",
         Cat!Active(r) \/ Cat!Quiet
  PROVE  Exact
  BY DEF CacheInv, Alone, Cat!Quiet, Cat!Active, Cat!Working

LEMMA SameAnswers ==
  ASSUME UNCHANGED catalog
  PROVE  \A q : Cat!Answer(q)' = Cat!Answer(q)
  BY DEF Cat!Answer, Cat!Shown

(* A handler that reads, or is answered from the cache *)
LEMMA ReadIsExact ==
  ASSUME AgeInv, CacheInv, NEW r \in Requests, NEW place, NEW j, Cat!Enter(r, place, j),
         Cat!Active(r) \/ Cat!Quiet, catalogPc[r] # "purging", place # "purging",
         UNCHANGED <<Cat!tableVars, Cat!listVars, Cat!itemVars>>,
         place = "listing" => j.found = Cat!Answer(j.what),
         place = "keeping" => j.found = catalog[j.what] /\ j.what \in listed,
         place \in {"loading", "keeping"} => j.scope \in {"none", "own", "all"},
         place = "writing" => j.scope \in {"own", "all"}
  PROVE  CacheInv'
<1>1. UNCHANGED <<catalog, listed, list, listTtl, item, itemTtl>>
  BY DEF Cat!tableVars, Cat!listVars, Cat!itemVars
<1>2. Made' /\ Exact'
  BY <1>1, ExactNow, SameAnswers DEF CacheInv, Made, Exact, ExactList, ExactItem
<1>3. catalogPc'[r] = place /\ catalogJob'[r] = j
  BY DEF AgeInv, LocalsOK, Cat!Enter
<1>4. Reads(r)' /\ Clears(r)'
  BY <1>1, <1>3, SameAnswers DEF Reads, Clears
<1> QED
  BY <1>2, <1>4, SoloStep

LEMMA RestIsExact ==
  ASSUME AgeInv, CacheInv, NEW r \in Requests, NEW outcome \in Cat!Resting,
         Cat!Leave(r, outcome), Cat!Active(r) \/ Cat!Quiet, Made', Exact'
  PROVE  CacheInv'
<1>1. Cat!Enter(r, outcome, Cat!NoJob) /\ catalogPc'[r] = outcome
  BY DEF Cat!Leave, Cat!Enter, AgeInv, LocalsOK
<1>2. Reads(r)' /\ Clears(r)'
  BY <1>1 DEF Reads, Clears, Cat!Resting
<1> QED
  BY <1>1, <1>2, SoloStep

LEMMA FreeIsQuiet ==
  ASSUME ~Overlap, NEW r \in Requests, Cat!Admit(r)
  PROVE  Cat!Quiet /\ catalogPc[r] # "purging"
  BY DEF Cat!Admit, Cat!Active, Cat!Working

LEMMA ListsAreExact ==
  ASSUME ~Overlap, AgeInv, CacheInv, NEW r \in Requests, NEW q \in Queries,
         Cat!FindAll(r, q) \/ Cat!QueryRows(r, q) \/ Cat!CacheList(r, q)
  PROVE  CacheInv'
<1>1. CASE Cat!FindAll(r, q)
  <2>1. /\ Cat!Quiet /\ catalogPc[r] # "purging"
        /\ UNCHANGED <<Cat!tableVars, Cat!listVars, Cat!itemVars>>
    BY <1>1, FreeIsQuiet DEF Cat!FindAll
  <2>2. \/ Cat!Enter(r, "done", Cat!NoJob)
        \/ Cat!Enter(r, "querying", Cat!Job(q, None, None, "none"))
    BY <1>1 DEF Cat!FindAll, Cat!Leave
  <2> QED
    BY <2>1, <2>2, ReadIsExact
<1>2. CASE Cat!QueryRows(r, q)
  <2> PICK j : j = Cat!Job(q, Cat!Answer(q), None, "none")
    OBVIOUS
  <2>1. /\ catalogPc[r] = "querying" /\ Cat!Active(r) /\ Cat!Enter(r, "listing", j)
        /\ UNCHANGED <<Cat!tableVars, Cat!listVars, Cat!itemVars>>
    BY <1>2 DEF Cat!QueryRows, Cat!Active, Cat!Working
  <2>2. j.found = Cat!Answer(j.what)
    BY DEF Cat!Job
  <2> QED
    BY <2>1, <2>2, ReadIsExact
<1>3. CASE Cat!CacheList(r, q)
  <2>1. /\ catalogPc[r] = "listing" /\ Cat!Active(r) /\ Cat!Leave(r, "done")
        /\ UNCHANGED <<catalog, listed, item, itemTtl>>
        /\ list' = [list EXCEPT ![q] = Cat!Answer(q)]
        /\ listTtl' = [listTtl EXCEPT ![q] = LIST_TTL]
    BY <1>3 DEF Cat!CacheList, Cat!Active, Cat!Working, Cat!tableVars, Cat!itemVars,
                CacheInv, Reads
  <2>2. Exact
    BY <2>1, ExactNow
  <2>3. Made'
    BY <2>1 DEF CacheInv, Made
  <2>4. Exact'
    BY <2>1, <2>2, SameAnswers DEF Exact, ExactList, ExactItem, AgeInv, CacheOK
  <2> QED
    BY <2>1, <2>3, <2>4, RestIsExact DEF Cat!Resting
<1> QED
  BY <1>1, <1>2, <1>3

LEMMA FindByIdIsExact ==
  ASSUME ~Overlap, AgeInv, CacheInv, NEW r \in Requests, NEW p \in CatalogProducts,
         NEW edit, NEW scope \in {"none", "own", "all"}, Cat!FindById(r, p, edit, scope)
  PROVE  CacheInv'
<1> PICK j : j = Cat!Job(p, None, edit, scope)
  OBVIOUS
<1>1. /\ Cat!Quiet /\ catalogPc[r] # "purging"
      /\ UNCHANGED <<Cat!tableVars, Cat!listVars, Cat!itemVars>>
  BY FreeIsQuiet DEF Cat!FindById
<1>2. \/ Cat!Enter(r, "done", Cat!NoJob)
      \/ Cat!Enter(r, "loading", j)
      \/ Cat!Enter(r, "writing", j) /\ scope # "none"
  BY DEF Cat!FindById, Cat!Leave
<1>3. j.scope = scope
  BY DEF Cat!Job
<1> QED
  BY <1>1, <1>2, <1>3, ReadIsExact

LEMMA ItemsAreExact ==
  ASSUME ~Overlap, AgeInv, CacheInv, NEW r \in Requests, NEW p \in CatalogProducts,
         Cat!LoadRow(r, p) \/ Cat!CacheItem(r, p)
  PROVE  CacheInv'
<1>1. CASE Cat!LoadRow(r, p)
  <2> PICK j : j = Cat!Job(p, catalog[p], catalogJob[r].edit, catalogJob[r].scope)
    OBVIOUS
  <2>1. /\ catalogPc[r] = "loading" /\ Cat!Active(r)
        /\ UNCHANGED <<Cat!tableVars, Cat!listVars, Cat!itemVars>>
        /\ \/ Cat!Enter(r, "refused", Cat!NoJob)
           \/ Cat!Enter(r, "keeping", j) /\ catalog[p] # None
    BY <1>1 DEF Cat!LoadRow, Cat!Active, Cat!Working, Cat!Leave
  <2>2. j.found = catalog[p] /\ j.what = p /\ j.scope \in {"none", "own", "all"}
    BY <2>1 DEF Cat!Job, CacheInv, Clears
  <2>3. catalog[p] # None => p \in listed
    BY DEF CacheInv, Made
  <2> QED
    BY <2>1, <2>2, <2>3, ReadIsExact
<1>2. CASE Cat!CacheItem(r, p)
  <2> PICK j : j = Cat!Job(p, None, catalogJob[r].edit, catalogJob[r].scope)
    OBVIOUS
  <2>1. /\ catalogPc[r] = "keeping" /\ Cat!Active(r) /\ p \in listed
        /\ UNCHANGED <<catalog, listed, list, listTtl>>
        /\ item' = [item EXCEPT ![p] = catalog[p]]
        /\ itemTtl' = [itemTtl EXCEPT ![p] = ITEM_TTL]
    BY <1>2 DEF Cat!CacheItem, Cat!Active, Cat!Working, Cat!tableVars, Cat!listVars,
                CacheInv, Reads
  <2>2. Exact
    BY <2>1, ExactNow
  <2>3. Made'
    BY <2>1 DEF CacheInv, Made, AgeInv, CacheOK
  <2>4. Exact'
    BY <2>1, <2>2, SameAnswers DEF Exact, ExactList, ExactItem, AgeInv, CacheOK
  <2>5. CASE Cat!Leave(r, "done")
    BY <2>1, <2>3, <2>4, <2>5, RestIsExact DEF Cat!Resting
  <2>6. CASE catalogJob[r].scope # "none" /\ Cat!Enter(r, "writing", j)
    <3>1. j.scope \in {"own", "all"}
      BY <2>1, <2>6 DEF Cat!Job, CacheInv, Clears
    <3>2. catalogPc'[r] = "writing" /\ catalogJob'[r] = j
      BY <2>6 DEF AgeInv, LocalsOK, Cat!Enter
    <3>3. Reads(r)' /\ Clears(r)'
      BY <3>1, <3>2 DEF Reads, Clears
    <3> QED
      BY <2>1, <2>3, <2>4, <2>6, <3>3, SoloStep
  <2> QED
    BY <1>2, <2>5, <2>6 DEF Cat!CacheItem
<1> QED
  BY <1>1, <1>2

(* After a write, the entries that the handler will not clear are right. *)
LEMMA WriteIsExact ==
  ASSUME ~Overlap, AgeInv, CacheInv, NEW r \in Requests, NEW p \in CatalogProducts,
         Cat!Write(r, p)
  PROVE  CacheInv'
<1>1. /\ catalogPc[r] = "writing" /\ Cat!Active(r) /\ Exact
      /\ UNCHANGED <<listed, list, listTtl, item, itemTtl>>
      /\ catalogJob[r].scope \in {"own", "all"}
  BY ExactNow DEF Cat!Write, Cat!Active, Cat!Working, Cat!listVars, Cat!itemVars,
                  CacheInv, Clears
<1>2. CASE catalog[p] = None
  <2>1. Cat!Leave(r, "failed") /\ UNCHANGED catalog
    BY <1>2 DEF Cat!Write
  <2>2. Made' /\ Exact'
    BY <1>1, <2>1, SameAnswers DEF CacheInv, Made, Exact, ExactList, ExactItem
  <2> QED
    BY <1>1, <2>1, <2>2, RestIsExact DEF Cat!Resting
<1>3. CASE catalog[p] # None
  <2> PICK j : j = Cat!Job(p, None, None, catalogJob[r].scope)
    OBVIOUS
  <2>1. Cat!Enter(r, "purging", j) /\ \A x \in CatalogProducts \ {p} : catalog'[x] = catalog[x]
    BY <1>3 DEF Cat!Write, Cat!Put
  <2>2. p \in listed
    BY <1>3 DEF CacheInv, Made
  <2>3. Made'
    BY <1>1, <2>1, <2>2 DEF CacheInv, Made
  <2>4. /\ catalogPc'[r] = "purging" /\ catalogJob'[r] = j
        /\ j.scope \in {"own", "all"} /\ j.what = p
    BY <1>1, <2>1 DEF AgeInv, LocalsOK, Cat!Enter, Cat!Job
  <2>5. p \in Cat!PurgedItems(j.scope, j.what)
    BY <2>4 DEF Cat!PurgedItems
  <2>6. \A x \in CatalogProducts \ {p} : ExactItem(x)'
    BY <1>1, <2>1 DEF Exact, ExactItem
  <2>7. Reads(r)' /\ Clears(r)'
    BY <2>4, <2>5, <2>6 DEF Reads, Clears
  <2> QED
    BY <1>1, <2>1, <2>3, <2>7, SoloStep
<1> QED
  BY <1>2, <1>3

LEMMA PurgeIsExact ==
  ASSUME ~Overlap, AgeInv, CacheInv, NEW r \in Requests, NEW p \in CatalogProducts,
         Cat!Purge(r, p)
  PROVE  CacheInv'
<1>1. /\ catalogPc[r] = "purging" /\ Cat!Active(r) /\ Cat!Leave(r, "done")
      /\ UNCHANGED <<catalog, listed>>
      /\ listTtl' = [q \in Queries |-> 0]
      /\ p = catalogJob[r].what
  BY DEF Cat!Purge, Cat!Active, Cat!Working, Cat!tableVars, Cat!PurgedLists
<1>2. \A x \in CatalogProducts :
        \/ itemTtl'[x] = 0
        \/ /\ x \notin Cat!PurgedItems(catalogJob[r].scope, p)
           /\ item'[x] = item[x] /\ itemTtl'[x] = itemTtl[x]
  BY DEF Cat!Purge
<1>3. \A x \in CatalogProducts \ Cat!PurgedItems(catalogJob[r].scope, p) : ExactItem(x)
  BY <1>1 DEF CacheInv, Clears
<1>4. \A x \in CatalogProducts : ExactItem(x)'
  BY <1>1, <1>2, <1>3 DEF ExactItem
<1>5. Made'
  BY <1>1, <1>2 DEF CacheInv, Made
<1>6. Exact'
  BY <1>1, <1>4 DEF Exact, ExactList
<1> QED
  BY <1>1, <1>5, <1>6, RestIsExact DEF Cat!Resting

(* A new product is in no list and has no entry. *)
LEMMA NewIsExact ==
  ASSUME AgeInv, Made, Exact, NEW p \in CatalogProducts, NEW sold, p \notin listed,
         listed' = listed \cup {p}, catalog'[p] = Cat!Row(Cat!FirstStatus, sold),
         \A x \in CatalogProducts \ {p} : catalog'[x] = catalog[x],
         UNCHANGED <<list, listTtl, item, itemTtl>>
  PROVE  Made' /\ Exact'
<1>1. catalog'[p].status = "hidden"
  BY DEF Cat!Row, Cat!FirstStatus
<1>2. catalog[p] = None /\ ~(itemTtl[p] > 0)
  BY DEF Made
<1>3. \A x \in CatalogProducts : Cat!Shown(x)' <=> Cat!Shown(x)
  BY <1>1, <1>2 DEF Cat!Shown
<1>4. \A q \in Queries : Matches[q] \subseteq CatalogProducts
  BY MatchesAssumption
<1>5. \A q \in Queries : Cat!Answer(q)' = Cat!Answer(q)
  BY <1>3, <1>4 DEF Cat!Answer
<1>6. Exact'
  BY <1>2, <1>5 DEF Exact, ExactList, ExactItem
<1>7. Made'
  BY DEF Made
<1> QED
  BY <1>6, <1>7

LEMMA QuietIsExact ==
  ASSUME CacheInv, Cat!Quiet
  PROVE  Exact /\ Made /\ \A r \in Requests : catalogPc[r] \notin Cat!Working
  BY DEF CacheInv, Cat!Quiet, Cat!Active, Cat!Working

(* A step between requests *)
LEMMA BetweenIsExact ==
  ASSUME \A r \in Requests : catalogPc'[r] \notin Cat!Working, Made', Exact'
  PROVE  CacheInv'
  BY DEF CacheInv, Alone, Reads, Clears, Cat!Active, Cat!Working

LEMMA NextCache ==
  ASSUME ~Overlap, ~Silent, AgeInv, CacheInv, [Cat!Next]_(Cat!vars)
  PROVE  CacheInv'
<1>1. ASSUME NEW r \in Requests, Cat!Lists(r) PROVE CacheInv'
  BY <1>1, ListsAreExact DEF Cat!Lists
<1>2. ASSUME NEW r \in Requests, NEW original, NEW p \in CatalogProducts,
             Cat!Clone(r, original, p)
      PROVE  CacheInv'
  <2> PICK j : j = Cat!Job(p, None, None, "lists")
    OBVIOUS
  <2>1. /\ Cat!Quiet /\ p \notin listed /\ listed' = listed \cup {p}
        /\ catalog'[p] = Cat!Row(Cat!FirstStatus, "free")
        /\ \A x \in CatalogProducts \ {p} : catalog'[x] = catalog[x]
        /\ Cat!Enter(r, "purging", j) /\ UNCHANGED <<list, listTtl, item, itemTtl>>
    BY <1>2, FreeIsQuiet DEF Cat!Clone, Cat!Put, Cat!listVars, Cat!itemVars
  <2>2. Made' /\ Exact'
    BY <2>1, QuietIsExact, NewIsExact
  <2>3. catalogPc'[r] = "purging" /\ catalogJob'[r] = j /\ j.scope = "lists"
    BY <2>1 DEF AgeInv, LocalsOK, Cat!Enter, Cat!Job
  <2>4. Reads(r)' /\ Clears(r)'
    BY <2>2, <2>3 DEF Reads, Clears, Exact
  <2> QED
    BY <2>1, <2>2, <2>4, SoloStep
<1>3. ASSUME NEW r \in Requests, Cat!Items(r) PROVE CacheInv'
  BY <1>2, <1>3, FindByIdIsExact, ItemsAreExact, WriteIsExact, PurgeIsExact
     DEF Cat!Items, Cat!Get, Cat!Remove, Cat!Update, Cat!UpdateStatus
<1>4. CASE Cat!Others
  <2>1. PICK p \in CatalogProducts, b \in {"sold", "free"} : Cat!Create(p, b)
    BY <1>4 DEF Cat!Others, Cat!Sell, Cat!AdminDelete, Cat!AdminStatus
  <2>2. /\ Cat!Quiet /\ p \notin listed /\ listed' = listed \cup {p}
        /\ catalog'[p] = Cat!Row(Cat!FirstStatus, b)
        /\ \A x \in CatalogProducts \ {p} : catalog'[x] = catalog[x]
        /\ UNCHANGED <<list, listTtl, item, itemTtl, catalogPc>>
    BY <2>1 DEF Cat!Create, Cat!Put, Cat!listVars, Cat!itemVars
  <2>3. Made' /\ Exact'
    BY <2>2, QuietIsExact, NewIsExact
  <2> QED
    BY <2>2, <2>3, QuietIsExact, BetweenIsExact
<1>5. CASE Cat!Tick
  <2>1. /\ Cat!Quiet /\ UNCHANGED <<catalog, listed, catalogPc>>
        /\ \A q \in Queries : listTtl'[q] > 0 => listTtl[q] > 0 /\ list'[q] = list[q]
        /\ \A p \in CatalogProducts : itemTtl'[p] > 0 => itemTtl[p] > 0 /\ item'[p] = item[p]
    BY <1>5 DEF Cat!Tick, Cat!Elapsed, AgeInv, CacheOK
  <2>2. Made' /\ Exact'
    BY <2>1, QuietIsExact, SameAnswers DEF Made, Exact, ExactList, ExactItem
  <2> QED
    BY <2>1, <2>2, QuietIsExact, BetweenIsExact
<1>6. CASE Cat!Clear \/ Cat!Restart
  <2>1. /\ UNCHANGED <<catalog, listed>>
        /\ listTtl' = [q \in Queries |-> 0] /\ itemTtl' = [p \in CatalogProducts |-> 0]
    BY <1>6 DEF Cat!Clear, Cat!Restart, Cat!EmptyCache, Cat!tableVars
  <2>2. \A r \in Requests : catalogPc'[r] \notin Cat!Working
    BY <1>6 DEF Cat!Clear, Cat!Restart, Cat!Quiet, Cat!Active, Cat!Working
  <2>3. Made' /\ Exact'
    BY <2>1 DEF CacheInv, Made, Exact, ExactList, ExactItem
  <2> QED
    BY <2>2, <2>3, BetweenIsExact
<1>7. CASE UNCHANGED Cat!vars
  BY <1>7, SameAnswers
     DEF Cat!vars, Cat!tableVars, Cat!listVars, Cat!itemVars, CacheInv, Alone, Made, Reads,
         Clears, Exact, ExactList, ExactItem, Cat!Active
<1> QED
  BY <1>1, <1>3, <1>4, <1>5, <1>6, <1>7 DEF Cat!Next

(* CacheIsExact: while requests do not overlap and nobody writes past the
   cache, each write clears whatever it has made wrong, so that between requests
   every entry says what the table says. *)
THEOREM CacheStaysExact ==
  ASSUME ~Overlap, ~Silent PROVE Spec => []CacheIsExact
<1> DEFINE Inv == service = "catalog" => AgeInv /\ CacheInv
<1>1. Lifetimes /\ Filters
  BY LivesAssumption, MatchesAssumption DEF Lifetimes, Filters
<1>2. Init => Inv
  BY <1>1, AgeStart, InitCache DEF Init
<1>3. Inv /\ [Next]_vars => Inv'
  BY <1>1, AgeStep, NextCache, CatalogStep, ServiceStays
<1>4. Inv => CacheIsExact
  BY QuietIsExact DEF Exact, ExactList, ExactItem, CacheIsExact, Cat!CacheIsExact
<1> QED
  BY <1>2, <1>3, <1>4, PTL DEF Spec

-----------------------------------------------------------------------------
(* Pages: a row that a walk misses. *)

LEMMA PageStep ==
  ASSUME service = "pages", [Next]_vars
  PROVE  [Walk!Next]_(Walk!vars)
  BY DEF Next, Only, vars, slotVars, pageVars, Walk!vars, Walk!walk, Walk!slotVars

(* The rows of the start at these places of the table that are neither seen nor
   about to be. *)
Unseen(places, rows) ==
  {x \in start : /\ x \notin seen /\ x \notin rows
                 /\ \E i \in 1..Len(table) : i \in places /\ table[i] = x}

Passed == 1..Walk!Offset(page)
Passing == 1..Walk!Offset(page + 1)
PassedOrNew(total) == {i \in Nat : i <= Walk!Offset(page) \/ i > total}

PageTypes ==
  /\ table = [i \in 1..Len(table) |-> table[i]] /\ Len(table) \in Nat /\ lastRow \in Nat
  /\ \A i \in 1..Len(table) : table[i] \in 1..lastRow
  /\ start \subseteq 1..lastRow
  /\ page \in Nat /\ totalPages \in Nat /\ drift \in Nat
  /\ pc \in [Requests -> {"idle", "fetching", "counting"}]
  /\ job = [r \in Requests |-> job[r]]

(* One page is asked for at a time, in a walk. *)
OnePage == \A q, r \in Busy : q = r /\ page >= 1

(* Rows are missed in the pages that are read, and beyond them only at the end. *)
MissedInPages ==
  page >= 1 => Cardinality(Unseen(Passed, {})) <= drift

MissedAtEnd ==
  (page >= 1 /\ page > totalPages) => Cardinality(Unseen(Nat, {})) <= drift

MissedWhileFetching ==
  \A r \in Requests : pc[r] = "fetching" =>
    job[r].total \in Nat /\ Cardinality(Unseen(PassedOrNew(job[r].total), {})) <= drift

MissedWhileCounting ==
  \A r \in Requests : pc[r] = "counting" =>
    Cardinality(Unseen(Passing, job[r].rows)) <= drift

PageInv ==
  /\ PageTypes /\ OnePage
  /\ MissedInPages /\ MissedAtEnd /\ MissedWhileFetching /\ MissedWhileCounting

-----------------------------------------------------------------------------
(* Arithmetic of pages *)

LEMMA Offsets ==
  ASSUME NEW p \in Nat
  PROVE  /\ Walk!Offset(p + 1) = Walk!Offset(p) + LIMIT
         /\ Walk!Offset(p + 1) \in Nat /\ Walk!Offset(1) = 0
         /\ p >= 1 => Walk!Offset(p) \in Nat
  <1>1. (p + 1 - 1) * LIMIT = (p - 1) * LIMIT + LIMIT /\ p * LIMIT \in Nat
    BY BoundsAssumption
  <1>2. p >= 1 => (p - 1) * LIMIT \in Nat
    BY BoundsAssumption
  <1>3. QED
    BY <1>1, <1>2, BoundsAssumption DEF Walk!Offset

(* The pages of a total hold it. *)
LEMMA PagesHold ==
  ASSUME NEW n \in Nat, NEW p \in Nat, p + 1 > Walk!PagesFor(n)
  PROVE  Walk!Offset(p + 1) >= n
  <1>1. PICK d \in Nat \ {0} : d = LIMIT
    BY BoundsAssumption
  <1>2. PICK k \in Int : k = (n + d - 1) \div d
    BY <1>1
  <1>3. n + d - 1 < d * k + d
    BY <1>1, <1>2
  <1>4. k <= p
    BY <1>1, <1>2 DEF Walk!PagesFor
  <1>5. d * k <= d * p
    BY <1>1, <1>2, <1>4
  <1>6. n <= p * d
    BY <1>1, <1>2, <1>3, <1>5
  <1>7. QED
    BY <1>1, <1>6 DEF Walk!Offset

-----------------------------------------------------------------------------
(* Counting what is unseen *)

LEMMA UnseenCounts ==
  ASSUME PageTypes, NEW A, NEW e
  PROVE  IsFiniteSet(Unseen(A, e)) /\ Cardinality(Unseen(A, e)) \in Nat
  <1>1. IsFiniteSet(1..lastRow)
    BY FS_Interval DEF PageTypes
  <1>2. Unseen(A, e) \in SUBSET (1..lastRow)
    BY DEF Unseen, PageTypes
  <1>3. QED
    BY <1>1, <1>2, FS_Subset, FS_CardinalityType

LEMMA FewerUnseen ==
  ASSUME PageTypes, NEW A, NEW e, NEW T \in SUBSET Unseen(A, e)
  PROVE  Cardinality(T) <= Cardinality(Unseen(A, e)) /\ Cardinality(T) \in Nat
  BY UnseenCounts, FS_Subset, FS_CardinalityType

(* What fits into a set that is small enough is small enough. *)
LEMMA FewerThan ==
  ASSUME PageTypes, NEW A, NEW e, Cardinality(Unseen(A, e)) <= drift
  PROVE  \A T : T \subseteq Unseen(A, e) => Cardinality(T) <= drift
  <1> SUFFICES ASSUME NEW T, T \subseteq Unseen(A, e)
               PROVE  Cardinality(T) <= drift
    OBVIOUS
  <1>1. Cardinality(T) <= Cardinality(Unseen(A, e)) /\ Cardinality(T) \in Nat
    BY FewerUnseen
  <1>2. Cardinality(Unseen(A, e)) \in Nat /\ drift \in Nat
    BY UnseenCounts DEF PageTypes
  <1>3. QED
    BY <1>1, <1>2

LEMMA CountWith ==
  ASSUME NEW S, NEW x, IsFiniteSet(S)
  PROVE  /\ IsFiniteSet(S \cup {x}) /\ Cardinality(S \cup {x}) \in Nat
         /\ Cardinality(S \cup {x}) <= Cardinality(S) + 1
  <1>1. Cardinality(S) \in Nat
    BY FS_CardinalityType
  <1>2. IsFiniteSet(S \cup {x})
    BY FS_AddElement
  <1>3. Cardinality(S \cup {x}) = Cardinality(S) \/ Cardinality(S \cup {x}) = Cardinality(S) + 1
    BY FS_AddElement
  <1>4. QED
    BY <1>1, <1>2, <1>3

(* One more place has one more row. *)
LEMMA OneMoreUnseen ==
  ASSUME PageTypes, NEW A, NEW e, NEW n, NEW T \in SUBSET Unseen(A \cup {n}, e)
  PROVE  Cardinality(T) <= Cardinality(Unseen(A, e)) + 1
  <1>1. PICK U : U = Unseen(A, e)
    OBVIOUS
  <1>2. IsFiniteSet(U) /\ Cardinality(U) \in Nat
    BY <1>1, UnseenCounts
  <1>3. T \subseteq U \cup {table[n]}
    BY <1>1 DEF Unseen
  <1>4. /\ IsFiniteSet(U \cup {table[n]})
        /\ Cardinality(U \cup {table[n]}) \in Nat
        /\ Cardinality(U \cup {table[n]}) <= Cardinality(U) + 1
    BY <1>2, CountWith
  <1>5. Cardinality(T) <= Cardinality(U \cup {table[n]})
    BY <1>3, <1>4, FS_Subset
  <1>6. Cardinality(T) \in Nat
    BY <1>3, <1>4, FS_Subset, FS_CardinalityType
  <1>7. QED
    BY <1>1, <1>2, <1>4, <1>5, <1>6

LEMMA OneMoreThan ==
  ASSUME PageTypes, NEW A, NEW e, NEW n, Cardinality(Unseen(A, e)) <= drift
  PROVE  \A T : T \subseteq Unseen(A \cup {n}, e) => Cardinality(T) <= drift + 1
  <1> SUFFICES ASSUME NEW T, T \subseteq Unseen(A \cup {n}, e)
               PROVE  Cardinality(T) <= drift + 1
    OBVIOUS
  <1>1. Cardinality(T) <= Cardinality(Unseen(A, e)) + 1
    BY OneMoreUnseen
  <1>2. /\ Cardinality(Unseen(A, e)) \in Nat /\ drift \in Nat /\ Cardinality(T) \in Nat
    BY UnseenCounts, FewerUnseen DEF PageTypes
  <1>3. QED
    BY <1>1, <1>2

-----------------------------------------------------------------------------
(* The writers move the rows of the table by one place. *)

LEMMA AddShifts ==
  ASSUME PageTypes, Walk!Add
  PROVE  /\ Len(table') = Len(table) + 1 /\ table'[1] = lastRow + 1
         /\ table' = [i \in 1..Len(table') |-> table'[i]]
         /\ \A i \in 1..Len(table) : table'[i + 1] = table[i]
  <1>1. table' = <<lastRow'>> \o table /\ lastRow' = lastRow + 1
    BY DEF Walk!Add
  <1>2. table \in Seq(Int)
    BY DEF PageTypes
  <1>3. lastRow' \in Int
    BY <1>1 DEF PageTypes
  <1>4. QED
    BY <1>1, <1>2, <1>3

LEMMA PlacesOf ==
  ASSUME NEW m \in Int, NEW n \in Int, m <= n
  PROVE  /\ (IF m + 1 <= n THEN n - (m + 1) + 1 ELSE 0) = n - m
         /\ n - (m + 1) + 1 = n - m
         /\ \A i \in 1..n - m : m + 1 + i - 1 = m + i
  OBVIOUS

(* The rows after the first m, up to the n-th. *)
LEMMA SliceOf ==
  ASSUME NEW s, NEW m \in Int, NEW n \in Int, m <= n, \A i \in m + 1..n : s[i] \in Int
  PROVE  /\ SubSeq(s, m + 1, n) \in Seq(Int) /\ Len(SubSeq(s, m + 1, n)) = n - m
         /\ \A i \in 1..n - m : SubSeq(s, m + 1, n)[i] = s[m + i]
  <1>1. m + 1 \in Int
    OBVIOUS
  <1>2. /\ SubSeq(s, m + 1, n) \in Seq(Int)
        /\ Len(SubSeq(s, m + 1, n)) = IF m + 1 <= n THEN n - (m + 1) + 1 ELSE 0
        /\ \A i \in 1..n - (m + 1) + 1 : SubSeq(s, m + 1, n)[i] = s[m + 1 + i - 1]
    BY <1>1, SubSeqProperties
  <1>3. /\ (IF m + 1 <= n THEN n - (m + 1) + 1 ELSE 0) = n - m
        /\ n - (m + 1) + 1 = n - m
        /\ \A i \in 1..n - m : m + 1 + i - 1 = m + i
    BY PlacesOf
  <1>4. QED
    BY <1>2, <1>3, Zenon

LEMMA Joined ==
  ASSUME NEW a \in Seq(Int), NEW b \in Seq(Int), NEW c, c = a \o b
  PROVE  /\ c \in Seq(Int) /\ Len(c) = Len(a) + Len(b)
         /\ \A i \in 1..Len(a) + Len(b) : c[i] = IF i <= Len(a) THEN a[i] ELSE b[i - Len(a)]
  BY ConcatProperties

(* Without the k-th row, the later ones come one place sooner. *)
LEMMA DeleteShifts ==
  ASSUME PageTypes, NEW k \in 1..Len(table), Walk!Delete(k)
  PROVE  /\ Len(table') = Len(table) - 1
         /\ table' = [i \in 1..Len(table') |-> table'[i]]
         /\ \A i \in 1..Len(table') : table'[i] = IF i < k THEN table[i] ELSE table[i + 1]
  <1>1. table' = SubSeq(table, 1, k - 1) \o SubSeq(table, k + 1, Len(table))
    BY DEF Walk!Delete, Walk!RemoveAt
  <1>2. PICK n \in Nat : n = Len(table)
    BY DEF PageTypes
  <1>3. k \in Nat \ {0} /\ k - 1 \in Int /\ k <= n /\ 0 <= k - 1 /\ 0 \in Int /\ 0 + 1 = 1
    BY <1>2
  <1>4. \A i \in 1..n : table[i] \in Int
    BY <1>2 DEF PageTypes
  <1>5. PICK a : a = SubSeq(table, 0 + 1, k - 1)
    OBVIOUS
  <1>6. PICK b : b = SubSeq(table, k + 1, n)
    OBVIOUS
  <1>7. a \in Seq(Int) /\ Len(a) = k - 1 /\ \A i \in 1..k - 1 : a[i] = table[i]
    <2>1. \A i \in 0 + 1..k - 1 : table[i] \in Int
      BY <1>3, <1>4
    <2>2. /\ a \in Seq(Int) /\ Len(a) = k - 1 - 0
          /\ \A i \in 1..k - 1 - 0 : a[i] = table[0 + i]
      BY <1>3, <1>5, <2>1, SliceOf
    <2>3. QED
      BY <1>3, <2>2
  <1>8. b \in Seq(Int) /\ Len(b) = n - k /\ \A i \in 1..n - k : b[i] = table[k + i]
    <2>1. \A i \in k + 1..n : table[i] \in Int
      BY <1>3, <1>4
    <2>2. QED
      BY <1>3, <1>6, <2>1, SliceOf
  <1>9. PICK c : c = table'
    OBVIOUS
  <1>10. c = a \o b
    BY <1>1, <1>2, <1>3, <1>5, <1>6, <1>9
  <1>11. n - k \in Nat /\ k - 1 + (n - k) = n - 1
    BY <1>3
  <1>12. /\ c \in Seq(Int) /\ Len(c) = n - 1
         /\ \A i \in 1..n - 1 : c[i] = IF i < k THEN table[i] ELSE table[i + 1]
    <2>1. PICK l \in Nat : l = n - k
      BY <1>11
    <2>2. /\ c \in Seq(Int) /\ Len(c) = Len(a) + Len(b)
          /\ \A i \in 1..Len(a) + Len(b) : c[i] = IF i <= Len(a) THEN a[i] ELSE b[i - Len(a)]
      <3>1. a \in Seq(Int) /\ b \in Seq(Int)
        BY <1>7, <1>8
      <3>2. QED
        BY <1>10, <3>1, Joined
    <2>3. /\ \A i \in 1..l : b[i] = table[k + i]
          /\ \A i \in 1..k - 1 + l : c[i] = IF i <= k - 1 THEN a[i] ELSE b[i - (k - 1)]
      <3>1. \A i \in 1..l : b[i] = table[k + i]
        BY <1>8, <2>1
      <3>2. Len(a) = k - 1 /\ Len(b) = l
        BY <1>7, <1>8, <2>1
      <3>3. \A i \in 1..k - 1 + l : c[i] = IF i <= k - 1 THEN a[i] ELSE b[i - (k - 1)]
        BY <2>2, <3>2
      <3>4. QED
        BY <3>1, <3>3
    <2>4. ASSUME NEW i \in 1..k - 1 + l
          PROVE  c[i] = IF i < k THEN table[i] ELSE table[i + 1]
      <3>1. CASE i < k
        <4>1. i \in 1..k - 1 /\ i <= k - 1
          BY <1>3, <2>1, <3>1
        <4>2. c[i] = a[i] /\ a[i] = table[i]
          BY <1>7, <2>3, <4>1
        <4>3. QED
          BY <3>1, <4>2
      <3>2. CASE ~(i < k)
        <4>1. i - (k - 1) \in 1..l /\ ~(i <= k - 1) /\ k + (i - (k - 1)) = i + 1
          BY <1>3, <2>1, <3>2
        <4>2. c[i] = b[i - (k - 1)] /\ b[i - (k - 1)] = table[k + (i - (k - 1))]
          BY <2>3, <4>1
        <4>3. QED
          BY <3>2, <4>1, <4>2
      <3>3. QED
        BY <3>1, <3>2
    <2>5. Len(c) = n - 1 /\ k - 1 + l = n - 1
      BY <1>7, <1>8, <1>11, <2>1, <2>2
    <2>6. QED
      BY <2>2, <2>4, <2>5
  <1>13. c = [i \in 1..Len(c) |-> c[i]]
    BY <1>12
  <1>14. QED
    BY <1>2, <1>9, <1>12, <1>13

(* So do the rows that a walk has not seen. *)
LEMMA UnseenAfterAdd ==
  ASSUME PageTypes, Walk!Add, NEW A, NEW B, NEW e,
         \A i \in Nat \ {0} : i + 1 \in A => i \in B
  PROVE  Unseen(A, e)' \subseteq Unseen(B, e)
  <1>1. start' = start /\ seen' = seen
    BY DEF Walk!Add, Walk!walk
  <1>2. SUFFICES ASSUME NEW x \in start, NEW i \in 1..Len(table'), i \in A, table'[i] = x
                 PROVE  \E j \in 1..Len(table) : j \in B /\ table[j] = x
    BY <1>1 DEF Unseen
  <1>3. i # 1
    BY <1>2, AddShifts DEF PageTypes
  <1>4. i - 1 \in 1..Len(table) /\ i - 1 \in Nat \ {0} /\ i - 1 + 1 = i
    <2>1. Len(table') = Len(table) + 1 /\ Len(table) \in Nat
      BY AddShifts DEF PageTypes
    <2>2. PICK n \in Nat : n = Len(table)
      BY <2>1
    <2>3. QED
      BY <1>3, <2>1, <2>2
  <1>5. table[i - 1] = x
    BY <1>2, <1>4, AddShifts
  <1>6. QED
    BY <1>2, <1>4, <1>5

LEMMA UnseenAfterDelete ==
  ASSUME PageTypes, NEW k \in 1..Len(table), Walk!Delete(k), NEW A, NEW B, NEW e,
         \A i \in Nat : i \in A => i \in B /\ i + 1 \in B
  PROVE  Unseen(A, e)' \subseteq Unseen(B, e)
  <1>1. start' = start /\ seen' = seen
    BY DEF Walk!Delete, Walk!walk
  <1>2. SUFFICES ASSUME NEW x \in start, NEW i \in 1..Len(table'), i \in A, table'[i] = x
                 PROVE  \E j \in 1..Len(table) : j \in B /\ table[j] = x
    BY <1>1 DEF Unseen
  <1>3. Len(table') = Len(table) - 1 /\ Len(table) \in Nat /\ i \in Nat
    <2>1. Len(table') = Len(table) - 1 /\ Len(table) \in Nat
      BY DeleteShifts DEF PageTypes
    <2>2. QED
      BY <2>1
  <1>4. i \in 1..Len(table) /\ i + 1 \in 1..Len(table) /\ i \in B /\ i + 1 \in B
    BY <1>2, <1>3
  <1>5. table[i] = x \/ table[i + 1] = x
    BY <1>2, DeleteShifts
  <1>6. QED
    BY <1>4, <1>5

(* A page holds the rows at its places. *)
LEMMA RowsHold ==
  ASSUME PageTypes, NEW i \in 1..Len(table), NEW p \in Nat \ {0},
         i > Walk!Offset(p), i <= Walk!Offset(p + 1)
  PROVE  table[i] \in Walk!Rows(p)
  <1>1. PICK a \in Nat : a = Walk!Offset(p) /\ Walk!Offset(p + 1) = a + LIMIT
    BY Offsets
  <1>2. PICK n \in Nat : n = Len(table)
    BY DEF PageTypes
  <1>3. PICK z : z = Walk!Least(a + LIMIT, n)
    OBVIOUS
  <1>4. i \in Nat /\ i <= n /\ i >= a + 1 /\ i <= a + LIMIT
    BY <1>1, <1>2
  <1>5. z \in Int /\ i <= z /\ z <= n
    BY <1>3, <1>4, BoundsAssumption DEF Walk!Least
  <1>6. a <= z /\ i - a \in 1..z - a /\ a + (i - a) = i
    BY <1>4, <1>5
  <1>7. \A j \in a + 1..z : table[j] \in Int
    BY <1>2, <1>5 DEF PageTypes
  <1>8. PICK b : b = SubSeq(table, a + 1, z)
    OBVIOUS
  <1>9. b \in Seq(Int) /\ Len(b) = z - a /\ b[i - a] = table[i]
    BY <1>5, <1>6, <1>7, <1>8, SliceOf
  <1>10. i - a \in DOMAIN b
    BY <1>6, <1>9
  <1>11. table[i] \in Walk!ToSet(b)
    BY <1>9, <1>10 DEF Walk!ToSet
  <1>12. QED
    BY <1>1, <1>2, <1>3, <1>8, <1>11 DEF Walk!Rows

-----------------------------------------------------------------------------
(* The steps *)

LEMMA QuietRests == Walk!Quiet => \A r \in Requests : pc[r] = "idle"
  BY DEF Walk!Quiet, Walk!Active

LEMMA PageGo ==
  ASSUME PageTypes, NEW r \in Requests, NEW place \in {"idle", "fetching", "counting"},
         NEW what, Walk!Go(r, place, what)
  PROVE  /\ pc' \in [Requests -> {"idle", "fetching", "counting"}]
         /\ job' = [q \in Requests |-> job'[q]]
         /\ pc'[r] = place /\ job'[r] = what
         /\ \A q \in Requests \ {r} : pc'[q] = pc[q] /\ job'[q] = job[q]
  BY DEF PageTypes, Walk!Go

LEMMA InitPages == Walk!Init => PageInv
  <1> SUFFICES ASSUME Walk!Init
               PROVE  PageInv
    OBVIOUS
  <1>1. /\ table = <<>> /\ lastRow = 0 /\ page = 0 /\ totalPages = 0
        /\ start = {} /\ drift = 0 /\ pc = [r \in Requests |-> "idle"]
        /\ job = [r \in Requests |-> None]
    BY DEF Walk!Init, Walk!AllIdle
  <1>2. PageTypes
    BY <1>1 DEF PageTypes
  <1>3. OnePage /\ MissedWhileFetching /\ MissedWhileCounting
    BY <1>1 DEF OnePage, Busy, MissedWhileFetching, MissedWhileCounting
  <1>4. MissedInPages /\ MissedAtEnd
    BY <1>1 DEF MissedInPages, MissedAtEnd
  <1>5. QED
    BY <1>2, <1>3, <1>4 DEF PageInv

LEMMA BeginPages ==
  ASSUME PageInv, Walk!Begin
  PROVE  PageInv'
  <1>1. /\ page' = 1 /\ totalPages' = 1 /\ seen' = {} /\ start' = Walk!ToSet(table)
        /\ drift' = 0 /\ table' = table /\ lastRow' = lastRow /\ pc' = pc /\ job' = job
        /\ PageTypes
    BY DEF Walk!Begin, Walk!slotVars, PageInv
  <1>2. \A r \in Requests : pc'[r] = "idle"
    BY <1>1, QuietRests DEF Walk!Begin
  <1>3. Walk!ToSet(table) \subseteq 1..lastRow
    BY <1>1 DEF PageTypes, Walk!ToSet
  <1>4. PageTypes'
    BY <1>1, <1>3 DEF PageTypes
  <1>5. OnePage' /\ MissedWhileFetching' /\ MissedWhileCounting' /\ MissedAtEnd'
    BY <1>1, <1>2 DEF OnePage, Busy, MissedWhileFetching, MissedWhileCounting, MissedAtEnd
  <1>6. MissedInPages'
    <2>1. Walk!Offset(page') = 0
      BY <1>1, Offsets
    <2>2. Unseen(Passed, {})' = {}
      BY <2>1 DEF Unseen, Passed
    <2>3. QED
      BY <1>1, <2>2, FS_EmptySet DEF MissedInPages
  <1>7. QED
    BY <1>4, <1>5, <1>6 DEF PageInv

(* The table and the walk stay, and one handler asks. *)
LEMMA AskPages ==
  ASSUME PageInv, NEW r \in Requests, NEW place \in {"fetching", "counting"}, NEW what,
         Walk!Ask(r), Walk!Go(r, place, what),
         UNCHANGED <<table, lastRow, Walk!walk, drift>>,
         place = "fetching" => what.total = Len(table),
         place = "counting" => what.rows = Walk!Rows(page)
  PROVE  PageInv'
  <1>1. /\ table' = table /\ lastRow' = lastRow /\ page' = page /\ totalPages' = totalPages
        /\ seen' = seen /\ start' = start /\ drift' = drift /\ PageTypes
    BY DEF Walk!walk, PageInv
  <1>2. page \in Nat \ {0} /\ \A q \in Requests : pc[q] = "idle"
    BY <1>1, QuietRests DEF Walk!Ask, Walk!Walking, PageTypes
  <1>3. /\ pc' \in [Requests -> {"idle", "fetching", "counting"}]
        /\ job' = [q \in Requests |-> job'[q]]
        /\ pc'[r] = place /\ job'[r] = what
        /\ \A q \in Requests \ {r} : pc'[q] = "idle"
    BY <1>1, <1>2, PageGo
  <1>4. PageTypes'
    BY <1>1, <1>3 DEF PageTypes
  <1>5. \A A, e : Unseen(A, e)' = Unseen(A, e)
    BY <1>1 DEF Unseen
  <1>6. OnePage'
    BY <1>1, <1>2, <1>3 DEF OnePage, Busy
  <1>7. MissedInPages' /\ MissedAtEnd'
    BY <1>1 DEF PageInv, MissedInPages, MissedAtEnd, Unseen, Passed
  <1>8. Cardinality(Unseen(Passed, {})) <= drift
    BY <1>2 DEF PageInv, MissedInPages
  <1>9. MissedWhileFetching'
    <2>1. CASE place = "fetching"
      <3>1. what.total = Len(table) /\ Len(table) \in Nat
        BY <1>1, <2>1 DEF PageTypes
      <3>2. Unseen(PassedOrNew(what.total), {})' \subseteq Unseen(Passed, {})
        BY <1>1, <3>1 DEF Unseen, PassedOrNew, Passed
      <3>3. Cardinality(Unseen(PassedOrNew(what.total), {})') <= drift'
        BY <1>1, <1>8, <3>2, FewerThan
      <3>4. QED
        BY <1>3, <2>1, <3>1, <3>3 DEF MissedWhileFetching
    <2>2. CASE place = "counting"
      BY <1>3, <2>2 DEF MissedWhileFetching
    <2>3. QED
      BY <2>1, <2>2
  <1>10. MissedWhileCounting'
    <2>1. CASE place = "counting"
      <3>1. what.rows = Walk!Rows(page)
        BY <2>1
      <3>2. Unseen(Passing, what.rows)' \subseteq Unseen(Passed, {})
        BY <1>1, <1>2, <3>1, RowsHold, Offsets DEF Unseen, Passing, Passed, PageTypes
      <3>3. Cardinality(Unseen(Passing, what.rows)') <= drift'
        BY <1>1, <1>8, <3>2, FewerThan
      <3>4. QED
        BY <1>3, <2>1, <3>3 DEF MissedWhileCounting
    <2>2. CASE place = "fetching"
      BY <1>3, <2>2 DEF MissedWhileCounting
    <2>3. QED
      BY <2>1, <2>2
  <1>11. QED
    BY <1>4, <1>6, <1>7, <1>9, <1>10 DEF PageInv

(* A page is answered: what is left of the rows at the places A is not on it. *)
LEMMA AnswerPages ==
  ASSUME PageInv, NEW r \in Requests, NEW rows, NEW total \in Nat, pc[r] # "idle",
         Walk!Answer(r, rows, total),
         NEW A, NEW e \in SUBSET rows, Cardinality(Unseen(A, e)) <= drift,
         \A i \in 1..Len(table) : i \in Passing /\ table[i] \notin rows => i \in A,
         page + 1 > Walk!PagesFor(total) =>
           \A i \in 1..Len(table) : table[i] \notin rows => i \in A
  PROVE  PageInv'
  <1>1. /\ table' = table /\ lastRow' = lastRow /\ page' = page + 1
        /\ totalPages' = Walk!PagesFor(total) /\ seen' = seen \cup rows
        /\ start' = start /\ drift' = drift /\ PageTypes /\ Walk!Go(r, "idle", None)
    BY DEF Walk!Answer, Walk!Leave, PageInv
  <1>2. page \in Nat \ {0} /\ \A q \in Requests \ {r} : pc[q] = "idle"
    BY <1>1 DEF PageInv, OnePage, Busy, PageTypes
  <1>3. /\ pc' \in [Requests -> {"idle", "fetching", "counting"}]
        /\ job' = [q \in Requests |-> job'[q]]
        /\ \A q \in Requests : pc'[q] = "idle"
    BY <1>1, <1>2, PageGo
  <1>4. Walk!PagesFor(total) \in Nat
    BY BoundsAssumption DEF Walk!PagesFor
  <1>5. PageTypes'
    BY <1>1, <1>3, <1>4 DEF PageTypes
  <1>6. OnePage' /\ MissedWhileFetching' /\ MissedWhileCounting'
    BY <1>3 DEF OnePage, Busy, MissedWhileFetching, MissedWhileCounting
  <1>7. MissedInPages'
    <2>1. Unseen(Passed, {})' \subseteq Unseen(A, e)
      BY <1>1 DEF Unseen, Passed, Passing
    <2>2. Cardinality(Unseen(Passed, {})') <= drift'
      BY <1>1, <2>1, FewerThan
    <2>3. QED
      BY <2>2 DEF MissedInPages
  <1>8. MissedAtEnd'
    <2> SUFFICES ASSUME page' > totalPages'
                 PROVE  Cardinality(Unseen(Nat, {})') <= drift'
      BY DEF MissedAtEnd
    <2>1. Unseen(Nat, {})' \subseteq Unseen(A, e)
      BY <1>1 DEF Unseen
    <2>2. QED
      BY <1>1, <2>1, FewerThan
  <1>9. QED
    BY <1>5, <1>6, <1>7, <1>8 DEF PageInv

LEMMA FetchPages ==
  ASSUME PageInv, NEW r \in Requests, Walk!Fetch(r)
  PROVE  PageInv'
  <1>1. PICK total : total = job[r].total
    OBVIOUS
  <1>2. /\ pc[r] = "fetching" /\ Walk!Answer(r, Walk!Rows(page), total) /\ PageTypes
        /\ total \in Nat /\ Cardinality(Unseen(PassedOrNew(total), {})) <= drift
    BY <1>1 DEF Walk!Fetch, Walk!At, PageInv, MissedWhileFetching
  <1>3. PICK p \in Nat \ {0} : p = page
    BY <1>2 DEF PageInv, OnePage, Busy, PageTypes
  <1>4. PICK a \in Nat : a = Walk!Offset(p)
    BY Offsets
  <1>5. Len(table) \in Nat /\ Walk!Offset(p + 1) \in Nat
    BY <1>2, Offsets DEF PageTypes
  <1>6. ASSUME NEW i \in 1..Len(table), table[i] \notin Walk!Rows(page), i \in Passing
        PROVE  i \in PassedOrNew(total)
    <2>1. i <= Walk!Offset(p + 1) /\ i \in Nat
      BY <1>3, <1>5, <1>6 DEF Passing
    <2>2. i <= Walk!Offset(p)
      BY <1>2, <1>3, <1>4, <1>6, <2>1, RowsHold
    <2>3. QED
      BY <1>3, <2>1, <2>2 DEF PassedOrNew
  <1>7. ASSUME page + 1 > Walk!PagesFor(total),
               NEW i \in 1..Len(table), table[i] \notin Walk!Rows(page)
        PROVE  i \in PassedOrNew(total)
    <2>1. CASE i \in Passing
      BY <1>6, <1>7, <2>1
    <2>2. CASE i \notin Passing
      <3>1. Walk!Offset(p + 1) >= total
        BY <1>2, <1>3, <1>7, PagesHold
      <3>2. i \in Nat /\ i > total
        BY <1>2, <1>3, <1>5, <2>2, <3>1 DEF Passing
      <3>3. QED
        BY <3>2 DEF PassedOrNew
    <2>3. QED
      BY <2>1, <2>2
  <1>8. QED
    BY <1>2, <1>6, <1>7, AnswerPages

LEMMA CountPages ==
  ASSUME PageInv, NEW r \in Requests, Walk!Count(r)
  PROVE  PageInv'
  <1>1. PICK rows : rows = job[r].rows
    OBVIOUS
  <1>2. PICK n \in Nat : n = Len(table)
    BY DEF PageInv, PageTypes
  <1>3. /\ pc[r] = "counting" /\ Walk!Answer(r, rows, n) /\ PageTypes
        /\ Cardinality(Unseen(Passing, rows)) <= drift
    BY <1>1, <1>2 DEF Walk!Count, Walk!At, PageInv, MissedWhileCounting
  <1>4. PICK p \in Nat \ {0} : p = page
    BY <1>3 DEF PageInv, OnePage, Busy, PageTypes
  <1>5. ASSUME page + 1 > Walk!PagesFor(n), NEW i \in 1..Len(table)
        PROVE  i \in Passing
    <2>1. Walk!Offset(p + 1) >= n /\ Walk!Offset(p + 1) \in Nat
      BY <1>4, <1>5, PagesHold, Offsets
    <2>2. QED
      BY <1>2, <1>4, <2>1 DEF Passing
  <1>6. QED
    BY <1>3, <1>5, AnswerPages

LEMMA EndPages ==
  ASSUME PageInv, Walk!End
  PROVE  PageInv'
  <1>1. /\ page' = 0 /\ totalPages' = 0 /\ start' = {} /\ drift' = 0 /\ table' = table
        /\ lastRow' = lastRow /\ pc' = pc /\ job' = job /\ PageTypes
    BY DEF Walk!End, Walk!slotVars, PageInv
  <1>2. \A r \in Requests : pc'[r] = "idle"
    BY <1>1, QuietRests DEF Walk!End
  <1>3. PageTypes'
    BY <1>1 DEF PageTypes
  <1>4. QED
    BY <1>1, <1>2, <1>3 DEF PageInv, OnePage, Busy, MissedInPages, MissedAtEnd,
                            MissedWhileFetching, MissedWhileCounting

-----------------------------------------------------------------------------
(* The writers *)

LEMMA AddPages ==
  ASSUME PageInv, Walk!Add
  PROVE  PageInv'
  <1>1. /\ lastRow' = lastRow + 1 /\ page' = page /\ totalPages' = totalPages
        /\ seen' = seen /\ start' = start /\ pc' = pc /\ job' = job /\ PageTypes
        /\ drift' = IF Walk!Paging THEN drift + 1 ELSE drift
    BY DEF Walk!Add, Walk!walk, Walk!slotVars, PageInv
  <1>2. drift \in Nat /\ drift' \in Nat /\ drift' >= drift
    BY <1>1 DEF PageTypes
  <1>3. PageTypes'
    <2>1. PICK n \in Nat : n = Len(table)
      BY <1>1 DEF PageTypes
    <2>2. /\ Len(table') = n + 1 /\ table'[1] = lastRow + 1
          /\ table' = [i \in 1..Len(table') |-> table'[i]]
          /\ \A i \in 1..n : table'[i + 1] = table[i]
      BY <1>1, <2>1, AddShifts
    <2>3. \A i \in 1..n + 1 : table'[i] \in 1..lastRow + 1
      <3> SUFFICES ASSUME NEW i \in 1..n + 1
                   PROVE  table'[i] \in 1..lastRow + 1
        OBVIOUS
      <3>1. CASE i = 1
        BY <1>1, <2>2, <3>1 DEF PageTypes
      <3>2. CASE i # 1
        <4>1. i - 1 \in 1..n /\ i - 1 + 1 = i
          BY <3>2
        <4>2. table'[i] = table[i - 1] /\ table[i - 1] \in 1..lastRow
          BY <1>1, <2>1, <2>2, <4>1 DEF PageTypes
        <4>3. QED
          BY <1>1, <4>2 DEF PageTypes
      <3>3. QED
        BY <3>1, <3>2
    <2>4. start' \subseteq 1..lastRow'
      BY <1>1 DEF PageTypes
    <2>5. n + 1 \in Nat /\ lastRow' \in Nat
      BY <1>1 DEF PageTypes
    <2>6. QED
      BY <1>1, <1>2, <2>2, <2>3, <2>4, <2>5 DEF PageTypes
  <1>4. ASSUME NEW A, NEW e, \A i \in Nat \ {0} : i + 1 \in A => i \in A,
               Cardinality(Unseen(A, e)) <= drift
        PROVE  Cardinality(Unseen(A, e)') <= drift'
    <2>1. Unseen(A, e)' \subseteq Unseen(A, e)
      BY <1>1, <1>4, UnseenAfterAdd
    <2>2. Cardinality(Unseen(A, e)') <= Cardinality(Unseen(A, e)) /\ Cardinality(Unseen(A, e)') \in Nat
          /\ Cardinality(Unseen(A, e)) \in Nat
      BY <1>1, <2>1, FewerUnseen, UnseenCounts
    <2>3. QED
      BY <1>2, <1>4, <2>2
  <1>5. OnePage'
    BY <1>1 DEF PageInv, OnePage, Busy
  <1>6. MissedInPages'
    <2> SUFFICES ASSUME page >= 1
                 PROVE  Cardinality(Unseen(Passed, {})') <= drift'
      BY <1>1 DEF MissedInPages
    <2>1. PICK A : A = Passed
      OBVIOUS
    <2>2. Unseen(Passed, {})' = Unseen(A, {})'
      BY <1>1, <2>1 DEF Unseen, Passed
    <2>3. PICK o \in Nat : o = Walk!Offset(page)
      BY <1>1, Offsets DEF PageTypes
    <2>4. \A i \in Nat \ {0} : i + 1 \in A => i \in A
      BY <2>1, <2>3 DEF Passed
    <2>5. Cardinality(Unseen(A, {})) <= drift
      BY <2>1 DEF PageInv, MissedInPages
    <2>6. QED
      BY <1>4, <2>2, <2>4, <2>5
  <1>7. MissedAtEnd'
    <2> SUFFICES ASSUME page >= 1, page > totalPages
                 PROVE  Cardinality(Unseen(Nat, {})') <= drift'
      BY <1>1 DEF MissedAtEnd
    <2>1. Cardinality(Unseen(Nat, {})) <= drift
      BY DEF PageInv, MissedAtEnd
    <2>2. QED
      BY <1>4, <2>1
  <1>8. MissedWhileFetching'
    <2> SUFFICES ASSUME NEW r \in Requests, pc[r] = "fetching"
                 PROVE  /\ job[r].total \in Nat
                        /\ Cardinality(Unseen(PassedOrNew(job[r].total), {})') <= drift'
      BY <1>1 DEF MissedWhileFetching
    <2>1. PICK total : total = job[r].total
      OBVIOUS
    <2>2. PICK A : A = PassedOrNew(total)
      OBVIOUS
    <2>3. total \in Nat /\ Cardinality(Unseen(A, {})) <= drift
      BY <2>1, <2>2 DEF PageInv, MissedWhileFetching
    <2>4. drift' = drift + 1
      BY <1>1 DEF Walk!Paging, Walk!Active
    <2>5. page \in Nat /\ page >= 1
      BY <1>1 DEF PageInv, OnePage, Busy, PageTypes
    <2>6. PICK o \in Nat : o = Walk!Offset(page)
      BY <2>5, Offsets
    <2>7. \A i \in Nat \ {0} : i + 1 \in A => i \in A \cup {total}
      BY <2>2, <2>3, <2>6 DEF PassedOrNew
    <2>8. Unseen(A, {})' \subseteq Unseen(A \cup {total}, {})
      BY <1>1, <2>7, UnseenAfterAdd
    <2>9. Unseen(PassedOrNew(job[r].total), {})' = Unseen(A, {})'
      BY <1>1, <2>1, <2>2 DEF Unseen, PassedOrNew
    <2>10. Cardinality(Unseen(A, {})') <= drift + 1
      BY <1>1, <2>3, <2>8, OneMoreThan
    <2>11. QED
      BY <2>1, <2>3, <2>4, <2>9, <2>10
  <1>9. MissedWhileCounting'
    <2> SUFFICES ASSUME NEW r \in Requests, pc[r] = "counting"
                 PROVE  Cardinality(Unseen(Passing, job[r].rows)') <= drift'
      BY <1>1 DEF MissedWhileCounting
    <2>1. PICK e : e = job[r].rows
      OBVIOUS
    <2>2. PICK A : A = Passing
      OBVIOUS
    <2>3. Unseen(Passing, job[r].rows)' = Unseen(A, e)'
      BY <1>1, <2>1, <2>2 DEF Unseen, Passing
    <2>4. PICK o \in Nat : o = Walk!Offset(page + 1)
      BY <1>1, Offsets DEF PageTypes
    <2>5. \A i \in Nat \ {0} : i + 1 \in A => i \in A
      BY <2>2, <2>4 DEF Passing
    <2>6. Cardinality(Unseen(A, e)) <= drift
      BY <2>1, <2>2 DEF PageInv, MissedWhileCounting
    <2>7. QED
      BY <1>4, <2>3, <2>5, <2>6
  <1>10. QED
    BY <1>3, <1>5, <1>6, <1>7, <1>8, <1>9 DEF PageInv

LEMMA DeletePages ==
  ASSUME PageInv, NEW k \in 1..Len(table), Walk!Delete(k)
  PROVE  PageInv'
  <1>1. /\ lastRow' = lastRow /\ page' = page /\ totalPages' = totalPages
        /\ seen' = seen /\ start' = start /\ pc' = pc /\ job' = job /\ PageTypes
        /\ drift' = IF Walk!Walking THEN drift + 1 ELSE drift
    BY DEF Walk!Delete, Walk!walk, Walk!slotVars, PageInv
  <1>2. page \in Nat /\ drift \in Nat /\ drift' \in Nat /\ (page >= 1 => drift' = drift + 1)
    BY <1>1 DEF PageTypes, Walk!Walking
  <1>3. PageTypes'
    <2>1. PICK n \in Nat : n = Len(table)
      BY <1>1 DEF PageTypes
    <2>2. /\ Len(table') = n - 1
          /\ table' = [i \in 1..Len(table') |-> table'[i]]
          /\ \A i \in 1..n - 1 : table'[i] = IF i < k THEN table[i] ELSE table[i + 1]
      BY <1>1, <2>1, DeleteShifts
    <2>3. \A i \in 1..n - 1 : table'[i] \in 1..lastRow
      <3> SUFFICES ASSUME NEW i \in 1..n - 1
                   PROVE  table'[i] \in 1..lastRow
        OBVIOUS
      <3>1. i \in 1..n /\ i + 1 \in 1..n
        OBVIOUS
      <3>2. table[i] \in 1..lastRow /\ table[i + 1] \in 1..lastRow
        BY <1>1, <2>1, <3>1 DEF PageTypes
      <3>3. QED
        BY <2>2, <3>2
    <2>4. n - 1 \in Nat
      BY <2>1
    <2>5. QED
      BY <1>1, <1>2, <2>2, <2>3, <2>4 DEF PageTypes
  <1>4. ASSUME NEW A, NEW e, NEW n, \A i \in Nat : i \in A => i + 1 \in A \cup {n},
               Cardinality(Unseen(A, e)) <= drift, page >= 1
        PROVE  Cardinality(Unseen(A, e)') <= drift'
    <2>1. \A i \in Nat : i \in A => i \in A \cup {n} /\ i + 1 \in A \cup {n}
      BY <1>4
    <2>2. Unseen(A, e)' \subseteq Unseen(A \cup {n}, e)
      BY <1>1, <2>1, UnseenAfterDelete
    <2>3. QED
      BY <1>1, <1>2, <1>4, <2>2, OneMoreThan
  <1>5. OnePage'
    BY <1>1 DEF PageInv, OnePage, Busy
  <1>6. MissedInPages'
    <2> SUFFICES ASSUME page >= 1
                 PROVE  Cardinality(Unseen(Passed, {})') <= drift'
      BY <1>1 DEF MissedInPages
    <2>1. PICK A : A = Passed
      OBVIOUS
    <2>2. Unseen(Passed, {})' = Unseen(A, {})'
      BY <1>1, <2>1 DEF Unseen, Passed
    <2>3. PICK o \in Nat : o = Walk!Offset(page)
      BY <1>1, Offsets DEF PageTypes
    <2>4. \A i \in Nat : i \in A => i + 1 \in A \cup {o + 1}
      BY <2>1, <2>3 DEF Passed
    <2>5. Cardinality(Unseen(A, {})) <= drift
      BY <2>1 DEF PageInv, MissedInPages
    <2>6. QED
      BY <1>4, <2>2, <2>4, <2>5
  <1>7. MissedAtEnd'
    <2> SUFFICES ASSUME page >= 1, page > totalPages
                 PROVE  Cardinality(Unseen(Nat, {})') <= drift'
      BY <1>1 DEF MissedAtEnd
    <2>1. Cardinality(Unseen(Nat, {})) <= drift
      BY DEF PageInv, MissedAtEnd
    <2>2. \A i \in Nat : i \in Nat => i + 1 \in Nat \cup {0}
      OBVIOUS
    <2>3. QED
      BY <1>4, <2>1, <2>2
  <1>8. MissedWhileFetching'
    <2> SUFFICES ASSUME NEW r \in Requests, pc[r] = "fetching"
                 PROVE  /\ job[r].total \in Nat
                        /\ Cardinality(Unseen(PassedOrNew(job[r].total), {})') <= drift'
      BY <1>1 DEF MissedWhileFetching
    <2>1. PICK total : total = job[r].total
      OBVIOUS
    <2>2. PICK A : A = PassedOrNew(total)
      OBVIOUS
    <2>3. total \in Nat /\ Cardinality(Unseen(A, {})) <= drift
      BY <2>1, <2>2 DEF PageInv, MissedWhileFetching
    <2>4. page >= 1
      BY DEF PageInv, OnePage, Busy
    <2>5. PICK o \in Nat : o = Walk!Offset(page)
      BY <1>2, <2>4, Offsets
    <2>6. \A i \in Nat : i \in A => i + 1 \in A \cup {o + 1}
      BY <2>2, <2>3, <2>5 DEF PassedOrNew
    <2>7. Unseen(PassedOrNew(job[r].total), {})' = Unseen(A, {})'
      BY <1>1, <2>1, <2>2 DEF Unseen, PassedOrNew
    <2>8. QED
      BY <1>4, <2>1, <2>3, <2>4, <2>6, <2>7
  <1>9. MissedWhileCounting'
    <2> SUFFICES ASSUME NEW r \in Requests, pc[r] = "counting"
                 PROVE  Cardinality(Unseen(Passing, job[r].rows)') <= drift'
      BY <1>1 DEF MissedWhileCounting
    <2>1. PICK e : e = job[r].rows
      OBVIOUS
    <2>2. PICK A : A = Passing
      OBVIOUS
    <2>3. Unseen(Passing, job[r].rows)' = Unseen(A, e)'
      BY <1>1, <2>1, <2>2 DEF Unseen, Passing
    <2>4. PICK o \in Nat : o = Walk!Offset(page + 1)
      BY <1>2, Offsets
    <2>5. \A i \in Nat : i \in A => i + 1 \in A \cup {o + 1}
      BY <2>2, <2>4 DEF Passing
    <2>6. Cardinality(Unseen(A, e)) <= drift /\ page >= 1
      BY <2>1, <2>2 DEF PageInv, MissedWhileCounting, OnePage, Busy
    <2>7. QED
      BY <1>4, <2>3, <2>5, <2>6
  <1>10. QED
    BY <1>3, <1>5, <1>6, <1>7, <1>8, <1>9 DEF PageInv

LEMMA NextPages == PageInv /\ [Walk!Next]_(Walk!vars) => PageInv'
  <1> SUFFICES ASSUME PageInv, [Walk!Next]_(Walk!vars)
               PROVE  PageInv'
    OBVIOUS
  <1>1. ASSUME NEW r \in Requests, Walk!CountFirst(r)
        PROVE  PageInv'
    <2>1. PICK what : what = Walk!Job({}, Len(table))
      OBVIOUS
    <2>2. what.total = Len(table)
      BY <2>1 DEF Walk!Job
    <2>3. QED
      BY <1>1, <2>1, <2>2, AskPages DEF Walk!CountFirst
  <1>2. ASSUME NEW r \in Requests, Walk!RowsFirst(r)
        PROVE  PageInv'
    <2>1. PICK what : what = Walk!Job(Walk!Rows(page), 0)
      OBVIOUS
    <2>2. what.rows = Walk!Rows(page)
      BY <2>1 DEF Walk!Job
    <2>3. QED
      BY <1>2, <2>1, <2>2, AskPages DEF Walk!RowsFirst
  <1>3. CASE UNCHANGED Walk!vars
    BY <1>3 DEF Walk!vars, Walk!walk, Walk!slotVars, PageInv, PageTypes, OnePage, Busy,
                MissedInPages, MissedAtEnd, MissedWhileFetching, MissedWhileCounting,
                Unseen, Passed, Passing, PassedOrNew
  <1>4. QED
    BY <1>1, <1>2, <1>3, BeginPages, EndPages, AddPages, DeletePages, FetchPages, CountPages
       DEF Walk!Next, Walk!ListUsers, Walk!ListContacts, Walk!GetOrders, Walk!GetAuditLogs,
           Walk!AdminListReferrals

(* The cardinality that Pages counts with. *)
LEMMA WalkCardinality == \A S : Walk!Cardinality(S) = Cardinality(S)
  BY DEF Walk!Cardinality, Cardinality, Walk!IsFiniteSet, IsFiniteSet

LEMMA PagesExplained == PageInv => Walk!MissesAreExplained
  <1> SUFFICES ASSUME PageInv, Walk!Walking, page > totalPages
               PROVE  Cardinality((start \cap Walk!ToSet(table)) \ seen) <= drift
    BY WalkCardinality DEF Walk!MissesAreExplained
  <1>1. PageTypes /\ page >= 1 /\ Cardinality(Unseen(Nat, {})) <= drift
    BY DEF PageInv, PageTypes, MissedAtEnd, Walk!Walking
  <1>2. DOMAIN table = 1..Len(table)
    BY <1>1 DEF PageTypes
  <1>3. (start \cap Walk!ToSet(table)) \ seen \subseteq Unseen(Nat, {})
    BY <1>1, <1>2 DEF Unseen, Walk!ToSet, PageTypes
  <1>4. QED
    BY <1>1, <1>3, FewerThan

-----------------------------------------------------------------------------

(* MissesAreExplained: a walk that reaches the last page has missed one row at most
   for each row that was deleted meanwhile, or added between the two statements of
   a page, whatever the size of a page and of the table. *)
THEOREM WalksMissLittle == Spec => []MissesAreExplained
  <1> DEFINE Inv == service = "pages" => PageInv
  <1>1. Init => Inv
    BY InitPages DEF Init
  <1>2. Inv /\ [Next]_vars => Inv'
    BY NextPages, PageStep, ServiceStays
  <1>3. Inv => MissesAreExplained
    BY PagesExplained DEF MissesAreExplained
  <1>4. QED
    BY <1>1, <1>2, <1>3, PTL DEF Spec

-----------------------------------------------------------------------------
(* Pages: the rows of a page are rows that were made. *)

LEMMA RowsAreMade ==
  ASSUME PageTypes, NEW p \in Nat \ {0}
  PROVE  Walk!Rows(p) \subseteq 1..lastRow
  <1>1. PICK m \in Nat : m = Walk!Offset(p)
    BY Offsets
  <1>2. PICK n \in Nat : n = Len(table)
    BY DEF PageTypes
  <1>3. PICK z \in Int : z = Walk!Least(m + LIMIT, n) /\ z <= n
    BY <1>2, BoundsAssumption DEF Walk!Least
  <1>4. PICK b : b = SubSeq(table, m + 1, z)
    OBVIOUS
  <1>5. \A j \in m + 1..z : table[j] \in 1..lastRow
    BY <1>2, <1>3 DEF PageTypes
  <1>6. \A j \in m + 1..z : table[j] \in Int
    BY <1>5
  <1>7. \A i \in DOMAIN b : b[i] \in 1..lastRow
    <2>1. CASE m <= z
      <3>1. /\ b \in Seq(Int) /\ Len(b) = z - m
            /\ \A i \in 1..z - m : b[i] = table[m + i] /\ m + i \in m + 1..z
        BY <1>3, <1>4, <1>6, <2>1, SliceOf
      <3>2. DOMAIN b = 1..z - m
        BY <3>1
      <3>3. QED
        BY <1>5, <3>1, <3>2
    <2>2. CASE m > z
      <3>1. m + 1 \in Int
        OBVIOUS
      <3>2. /\ b \in Seq(Int)
            /\ Len(b) = IF m + 1 <= z THEN z - (m + 1) + 1 ELSE 0
        BY <1>3, <1>4, <1>6, <3>1, SubSeqProperties
      <3>3. DOMAIN b = {}
        BY <2>2, <3>2
      <3>4. QED
        BY <3>3
    <2>3. QED
      BY <1>3, <2>1, <2>2
  <1>8. Walk!ToSet(b) \subseteq 1..lastRow
    BY <1>7 DEF Walk!ToSet
  <1>9. QED
    BY <1>1, <1>2, <1>3, <1>4, <1>8 DEF Walk!Rows

MadeRows ==
  /\ lastRow <= MAX_ROWS /\ seen \subseteq 1..lastRow
  /\ \A r \in Requests : pc[r] = "counting" => job[r].rows \subseteq 1..lastRow

(* A handler moves, and what it holds was made. *)
LEMMA MadeGoes ==
  ASSUME PageInv, MadeRows, NEW r \in Requests, NEW place \in {"idle", "fetching", "counting"},
         NEW what, Walk!Go(r, place, what), UNCHANGED lastRow, seen' \subseteq 1..lastRow,
         place = "counting" => what.rows \subseteq 1..lastRow
  PROVE  MadeRows'
  BY PageGo DEF PageInv, MadeRows

LEMMA NextMade == PageInv /\ MadeRows /\ [Walk!Next]_(Walk!vars) => MadeRows'
  <1> SUFFICES ASSUME PageInv, MadeRows, [Walk!Next]_(Walk!vars)
               PROVE  MadeRows'
    OBVIOUS
  <1>1. PageTypes /\ lastRow \in Nat
    BY DEF PageInv, PageTypes
  <1>2. ASSUME NEW r \in Requests, Walk!CountFirst(r)
        PROVE  MadeRows'
    <2>1. UNCHANGED <<lastRow, seen>>
      BY <1>2 DEF Walk!CountFirst, Walk!walk
    <2>2. QED
      BY <1>2, <2>1, MadeGoes DEF Walk!CountFirst, MadeRows
  <1>3. ASSUME NEW r \in Requests, Walk!RowsFirst(r)
        PROVE  MadeRows'
    <2>1. UNCHANGED <<lastRow, seen>> /\ page \in Nat \ {0}
      BY <1>1, <1>3 DEF Walk!RowsFirst, Walk!Ask, Walk!Walking, Walk!walk, PageTypes
    <2>2. Walk!Job(Walk!Rows(page), 0).rows \subseteq 1..lastRow
      BY <1>1, <2>1, RowsAreMade DEF Walk!Job
    <2>3. QED
      BY <1>3, <2>1, <2>2, MadeGoes DEF Walk!RowsFirst, MadeRows
  <1>4. ASSUME NEW r \in Requests, Walk!Fetch(r) \/ Walk!Count(r)
        PROVE  MadeRows'
    <2>1. page \in Nat \ {0}
      BY <1>1, <1>4 DEF Walk!Fetch, Walk!Count, Walk!At, PageInv, OnePage, Busy, PageTypes
    <2>2. PICK rows : seen' = seen \cup rows /\ rows \subseteq 1..lastRow
      BY <1>1, <1>4, <2>1, RowsAreMade DEF Walk!Fetch, Walk!Count, Walk!Answer, Walk!At, MadeRows
    <2>3. UNCHANGED lastRow /\ Walk!Go(r, "idle", None)
      BY <1>4 DEF Walk!Fetch, Walk!Count, Walk!Answer, Walk!Leave
    <2>4. QED
      BY <2>2, <2>3, MadeGoes DEF MadeRows
  <1>5. CASE Walk!Begin \/ Walk!End
    BY <1>5 DEF Walk!Begin, Walk!End, Walk!slotVars, MadeRows
  <1>6. CASE Walk!Add
    <2>1. /\ lastRow < MAX_ROWS /\ lastRow' = lastRow + 1 /\ UNCHANGED <<seen, pc, job>>
      BY <1>6 DEF Walk!Add, Walk!walk, Walk!slotVars
    <2>2. lastRow' <= MAX_ROWS /\ 1..lastRow \subseteq 1..lastRow'
      BY <1>1, <2>1, BoundsAssumption
    <2>3. QED
      BY <2>1, <2>2 DEF MadeRows
  <1>7. CASE \/ UNCHANGED Walk!vars
             \/ \E i \in 1..Len(table) : Walk!Delete(i)
    BY <1>7 DEF Walk!vars, Walk!Delete, Walk!walk, Walk!slotVars, MadeRows
  <1>8. QED
    BY <1>2, <1>3, <1>4, <1>5, <1>6, <1>7
       DEF Walk!Next, Walk!ListUsers, Walk!ListContacts, Walk!GetOrders, Walk!GetAuditLogs,
           Walk!AdminListReferrals

LEMMA PagesAreTyped == Spec => [](service = "pages" => Walk!TypeOK)
  <1> DEFINE Inv == service = "pages" => PageInv /\ MadeRows
  <1>1. Init => Inv
    BY InitPages, BoundsAssumption DEF Init, Walk!Init, Walk!AllIdle, MadeRows
  <1>2. Inv /\ [Next]_vars => Inv'
    BY NextPages, NextMade, PageStep, ServiceStays
  <1>3. Inv => (service = "pages" => Walk!TypeOK)
    <2> SUFFICES ASSUME PageTypes, MadeRows
                 PROVE  Walk!TypeOK
      BY DEF PageInv
    <2>1. Walk!ToSet(table) \subseteq 1..lastRow
      BY DEF PageTypes, Walk!ToSet
    <2>2. lastRow \in 0..MAX_ROWS
      BY BoundsAssumption DEF PageTypes, MadeRows
    <2>3. QED
      BY <2>1, <2>2 DEF PageTypes, MadeRows, Walk!TypeOK
  <1>4. QED
    BY <1>1, <1>2, <1>3, PTL DEF Spec

-----------------------------------------------------------------------------
(* Reports *)

LEMMA ReportStep ==
  ASSUME service = "reports", [Next]_vars
  PROVE  [Rep!Next]_(Rep!vars)
  BY DEF Next, Only, vars, reportVars, Rep!vars, Rep!rowVars, Rep!slotVars

ReportPlaces == {"idle", "computing", "totalling", "answered", "counting", "summed"}

LEMMA ReportsTyped == Rep!TypeOK /\ [Rep!Next]_(Rep!vars) => Rep!TypeOK'
  <1> SUFFICES ASSUME Rep!TypeOK, [Rep!Next]_(Rep!vars)
               PROVE  Rep!TypeOK'
    OBVIOUS
  <1>1. ASSUME NEW o \in Orders, NEW m \in Months, Rep!Place(o, m)
        PROVE  Rep!TypeOK'
    BY <1>1 DEF Rep!Place, Rep!Comes, Rep!TypeOK, Rep!Statuses
  <1>2. ASSUME NEW o \in Orders, NEW s \in Rep!Statuses, Rep!Move(o, s)
        PROVE  Rep!TypeOK'
    <2>1. order[o] \in [status : Rep!Statuses, month : Months]
      BY <1>2 DEF Rep!Move, Rep!TypeOK
    <2>2. [order[o] EXCEPT !.status = s] \in [status : Rep!Statuses, month : Months]
      BY <2>1
    <2>3. order' = [order EXCEPT ![o] = [order[o] EXCEPT !.status = s]]
      BY <1>2 DEF Rep!Move
    <2>4. QED
      BY <1>2, <2>2, <2>3 DEF Rep!Move, Rep!Comes, Rep!TypeOK
  <1>3. ASSUME NEW d \in LogRows, NEW m \in Months, NEW c \in Countries \cup {None},
               Rep!LogDownload(d, m, c)
        PROVE  Rep!TypeOK'
    BY <1>3 DEF Rep!LogDownload, Rep!slotVars, Rep!TypeOK
  <1>4. ASSUME NEW r \in Reporters,
               \/ Rep!GetStats(r) \/ Rep!ComputeStats(r) \/ Rep!GetRevenueByMonth(r)
               \/ Rep!GetDownloadStats(r) \/ Rep!CountDownloads(r) \/ Rep!Respond(r)
        PROVE  Rep!TypeOK'
    <2>1. UNCHANGED Rep!rowVars
      BY <1>4 DEF Rep!GetStats, Rep!ComputeStats, Rep!GetRevenueByMonth, Rep!GetDownloadStats,
                  Rep!CountDownloads, Rep!Respond, Rep!Part
    <2>2. PICK place \in ReportPlaces : reportPc' = [reportPc EXCEPT ![r] = place]
      <3>1. reportPc[r] \in ReportPlaces
        BY DEF Rep!TypeOK, ReportPlaces
      <3>2. QED
        BY <1>4, <3>1 DEF Rep!GetStats, Rep!ComputeStats, Rep!GetRevenueByMonth,
                          Rep!GetDownloadStats, Rep!CountDownloads, Rep!Respond, Rep!Part,
                          Rep!Leave, Rep!Go, ReportPlaces
    <2>3. reportPc' \in [Reporters -> ReportPlaces]
      BY <2>2 DEF Rep!TypeOK, ReportPlaces
    <2>4. QED
      BY <2>1, <2>3 DEF Rep!rowVars, Rep!TypeOK, ReportPlaces
  <1>5. ASSUME NEW o \in Orders, Rep!DeleteOrder(o)
        PROVE  Rep!TypeOK'
    BY <1>5 DEF Rep!DeleteOrder, Rep!slotVars, Rep!TypeOK
  <1>6. CASE UNCHANGED Rep!vars
    BY <1>6 DEF Rep!vars, Rep!rowVars, Rep!slotVars, Rep!TypeOK
  <1>7. QED
    BY <1>1, <1>2, <1>3, <1>4, <1>5, <1>6 DEF Rep!Next

LEMMA ReportsAreTyped == Spec => [](service = "reports" => Rep!TypeOK)
  <1> DEFINE Inv == service = "reports" => Rep!TypeOK
  <1>1. Init => Inv
    BY DEF Init, Rep!Init, Rep!AllIdle, Rep!TypeOK
  <1>2. Inv /\ [Next]_vars => Inv'
    BY ReportsTyped, ReportStep, ServiceStays
  <1>3. QED
    BY <1>1, <1>2, PTL DEF Spec

-----------------------------------------------------------------------------
(* A sum by MapThenSumSet is the size of a set or, with terms below zero, the
   difference of two.  The fold is of a CHOSEN function that adds one element
   after the other: there is one, of the sizes of Units, and only one. *)

SumUp(w, S) == Rep!MapThenSumSet(LAMBDA x : w[x], S)

Drawn(s) == CHOOSE x \in s : TRUE

Adds(g, w, S) ==
  g = [s \in SUBSET S |-> IF s = {} THEN 0 ELSE w[Drawn(s)] + g[s \ {Drawn(s)}]]

LEMMA SumIsChosen ==
  ASSUME NEW w, NEW S, \E g : Adds(g, w, S)
  PROVE  \E g : Adds(g, w, S) /\ SumUp(w, S) = g[S]
  BY Zenon DEF SumUp, Rep!MapThenSumSet, Rep!MapThenFoldSet, Adds, Drawn

(* Units(w, S) has w[x] elements for each x. *)
Units(w, S) == {p \in S \X Nat : p[2] \in 1..w[p[1]]}

LEMMA UnitsOfOne ==
  ASSUME NEW w, NEW x, w[x] \in Nat
  PROVE  IsFiniteSet(Units(w, {x})) /\ Cardinality(Units(w, {x})) = w[x]
  <1> DEFINE At == [k \in 1..w[x] |-> <<x, k>>]
  <1>1. At \in Bijection(1..w[x], Units(w, {x}))
    <2>1. \A k \in 1..w[x] : At[k] \in Units(w, {x})
      BY DEF Units
    <2>2. \A j, k \in 1..w[x] : At[j] = At[k] => j = k
      OBVIOUS
    <2>3. \A p \in Units(w, {x}) : p[2] \in 1..w[x] /\ At[p[2]] = p
      BY DEF Units
    <2>4. QED
      BY <2>1, <2>2, <2>3, Fun_IsBij
  <1>2. IsFiniteSet(1..w[x]) /\ Cardinality(1..w[x]) = w[x]
    BY FS_Interval
  <1>3. QED
    BY <1>1, <1>2, FS_Bijection DEF ExistsBijection

LEMMA UnitsAreFinite ==
  ASSUME NEW S, IsFiniteSet(S), NEW w, \A x \in S : w[x] \in Nat
  PROVE  IsFiniteSet(Units(w, S))
  <1> DEFINE All == {Units(w, {x}) : x \in S}
             Each == [x \in S |-> Units(w, {x})]
  <1>1. Each \in Surjection(S, All)
    BY Fun_IsSurj
  <1>2. IsFiniteSet(All)
    BY <1>1, FS_Surjection
  <1>3. \A T \in All : IsFiniteSet(T)
    BY UnitsOfOne
  <1>4. IsFiniteSet(UNION All)
    BY <1>2, <1>3, FS_UNION
  <1>5. Units(w, S) \in SUBSET UNION All
    <2> SUFFICES ASSUME NEW p \in Units(w, S)
                 PROVE  p \in Units(w, {p[1]}) /\ p[1] \in S
      OBVIOUS
    <2>1. QED
      BY DEF Units
  <1>6. QED
    BY <1>4, <1>5, FS_Subset

LEMMA UnitsWithout ==
  ASSUME NEW S, IsFiniteSet(S), NEW w, \A x \in S : w[x] \in Nat, NEW x \in S
  PROVE  Cardinality(Units(w, S)) = w[x] + Cardinality(Units(w, S \ {x}))
  <1>1. /\ Units(w, S) = Units(w, {x}) \cup Units(w, S \ {x})
        /\ Units(w, {x}) \cap Units(w, S \ {x}) = {}
    BY DEF Units
  <1>2. IsFiniteSet(Units(w, S \ {x}))
    BY UnitsAreFinite, FS_RemoveElement
  <1>3. Cardinality(Units(w, S \ {x})) \in Nat
    BY <1>2, FS_CardinalityType
  <1>4. IsFiniteSet(Units(w, {x})) /\ Cardinality(Units(w, {x})) = w[x]
    BY UnitsOfOne
  <1>5. Cardinality(Units(w, S)) =
          Cardinality(Units(w, {x})) + Cardinality(Units(w, S \ {x})) - Cardinality({})
    BY <1>1, <1>2, <1>4, FS_Union
  <1>6. QED
    BY <1>3, <1>4, <1>5, FS_EmptySet

LEMMA UnitsType ==
  ASSUME NEW S, IsFiniteSet(S), NEW w, \A x \in S : w[x] \in Nat, NEW fewer \in SUBSET S
  PROVE  /\ IsFiniteSet(fewer) /\ IsFiniteSet(Units(w, fewer))
         /\ Cardinality(Units(w, fewer)) \in Nat
  <1>1. IsFiniteSet(fewer)
    BY FS_Subset
  <1>2. QED
    BY <1>1, UnitsAreFinite, FS_CardinalityType

LEMMA UnitsGrow ==
  ASSUME NEW S, IsFiniteSet(S), NEW w, \A x \in S : w[x] \in Nat, NEW fewer \in SUBSET S
  PROVE  Cardinality(Units(w, fewer)) <= Cardinality(Units(w, S))
  <1>1. Units(w, fewer) \in SUBSET Units(w, S)
    BY DEF Units
  <1>2. QED
    BY <1>1, UnitsAreFinite, FS_Subset

LEMMA UnitsJoin ==
  ASSUME NEW S, IsFiniteSet(S), NEW w, \A x \in S : w[x] \in Nat,
         NEW A \in SUBSET S, NEW B \in SUBSET S
  PROVE  Cardinality(Units(w, A \cup B)) <= Cardinality(Units(w, A)) + Cardinality(Units(w, B))
  <1>1. Units(w, A \cup B) = Units(w, A) \cup Units(w, B)
    BY DEF Units
  <1>2. PICK both : both = Units(w, A) \cap Units(w, B)
    OBVIOUS
  <1>3. /\ IsFiniteSet(Units(w, A)) /\ Cardinality(Units(w, A)) \in Nat
        /\ IsFiniteSet(Units(w, B)) /\ Cardinality(Units(w, B)) \in Nat
    BY UnitsType
  <1>4. IsFiniteSet(both) /\ Cardinality(both) \in Nat
    BY <1>2, <1>3, FS_Intersection, FS_CardinalityType
  <1>5. Cardinality(Units(w, A \cup B)) =
          Cardinality(Units(w, A)) + Cardinality(Units(w, B)) - Cardinality(both)
    BY <1>1, <1>2, <1>3, FS_Union
  <1>6. QED
    BY <1>3, <1>4, <1>5

LEMMA UnitsAdd ==
  ASSUME NEW S, IsFiniteSet(S), NEW w, NEW u, NEW v,
         \A x \in S : u[x] \in Nat /\ v[x] \in Nat /\ w[x] = u[x] - v[x]
  PROVE  Adds([s \in SUBSET S |-> Cardinality(Units(u, s)) - Cardinality(Units(v, s))], w, S)
  <1> DEFINE g == [s \in SUBSET S |-> Cardinality(Units(u, s)) - Cardinality(Units(v, s))]
  <1>1. ASSUME NEW s \in SUBSET S
        PROVE  g[s] = IF s = {} THEN 0 ELSE w[Drawn(s)] + g[s \ {Drawn(s)}]
    <2>1. CASE s = {}
      <3>1. Units(u, s) = {} /\ Units(v, s) = {}
        BY <2>1 DEF Units
      <3>2. QED
        BY <2>1, <3>1, FS_EmptySet
    <2>2. CASE s # {}
      <3>1. PICK x : x = Drawn(s)
        OBVIOUS
      <3>2. x \in s
        BY <2>2, <3>1 DEF Drawn
      <3>3. PICK rest : rest = s \ {x}
        OBVIOUS
      <3>4. rest \in SUBSET S /\ u[x] \in Nat /\ v[x] \in Nat /\ w[x] = u[x] - v[x]
        BY <3>2, <3>3
      <3>5. /\ IsFiniteSet(s)
            /\ Cardinality(Units(u, rest)) \in Nat /\ Cardinality(Units(v, rest)) \in Nat
        BY <3>4, UnitsType
      <3>6. /\ Cardinality(Units(u, s)) = u[x] + Cardinality(Units(u, rest))
            /\ Cardinality(Units(v, s)) = v[x] + Cardinality(Units(v, rest))
        BY <3>2, <3>3, <3>5, UnitsWithout
      <3>7. g[s] = w[x] + g[rest]
        BY <3>4, <3>5, <3>6
      <3>8. QED
        BY <2>2, <3>1, <3>3, <3>7
    <2>3. QED
      BY <2>1, <2>2
  <1>2. QED
    BY <1>1, Zenon DEF Adds

(* There is only one: else they differ at a smallest set. *)
LEMMA AddsOnce ==
  ASSUME NEW S, IsFiniteSet(S), NEW w, NEW g, NEW h, Adds(g, w, S), Adds(h, w, S)
  PROVE  g[S] = h[S]
  <1> DEFINE Differ == {s \in SUBSET S : g[s] # h[s]}
  <1> SUFFICES ASSUME Differ # {}
               PROVE  FALSE
    OBVIOUS
  <1>1. IsWellFoundedOn(StrictSubsetOrdering(S), SUBSET S)
    BY FS_StrictSubsetOrderingWellFounded, FS_FiniteSubsetsOfFinite
  <1>2. PICK s \in Differ : \A t \in Differ : <<t, s>> \notin StrictSubsetOrdering(S)
    BY <1>1, WFMin
  <1>3. \A t \in SUBSET S : t \subseteq s /\ t # s => g[t] = h[t]
    BY <1>2 DEF StrictSubsetOrdering
  <1>4. /\ g[s] = IF s = {} THEN 0 ELSE w[Drawn(s)] + g[s \ {Drawn(s)}]
        /\ h[s] = IF s = {} THEN 0 ELSE w[Drawn(s)] + h[s \ {Drawn(s)}]
    BY Zenon DEF Adds
  <1>5. CASE s = {}
    BY <1>4, <1>5
  <1>6. CASE s # {}
    <2>1. Drawn(s) \in s
      BY <1>6 DEF Drawn
    <2>2. g[s \ {Drawn(s)}] = h[s \ {Drawn(s)}]
      BY <1>3, <2>1
    <2>3. QED
      BY <1>4, <1>6, <2>2
  <1>7. QED
    BY <1>5, <1>6

LEMMA SumIsDifference ==
  ASSUME NEW S, IsFiniteSet(S), NEW w, NEW u, NEW v,
         \A x \in S : u[x] \in Nat /\ v[x] \in Nat /\ w[x] = u[x] - v[x]
  PROVE  SumUp(w, S) = Cardinality(Units(u, S)) - Cardinality(Units(v, S))
  <1>1. PICK f : f = [s \in SUBSET S |-> Cardinality(Units(u, s)) - Cardinality(Units(v, s))]
    OBVIOUS
  <1>2. Adds(f, w, S) /\ f[S] = Cardinality(Units(u, S)) - Cardinality(Units(v, S))
    BY <1>1, UnitsAdd
  <1>3. PICK g : Adds(g, w, S) /\ SumUp(w, S) = g[S]
    BY <1>2, SumIsChosen
  <1>4. QED
    BY <1>2, <1>3, AddsOnce

LEMMA SumIsCount ==
  ASSUME NEW S, IsFiniteSet(S), NEW w, \A x \in S : w[x] \in Nat
  PROVE  SumUp(w, S) = Cardinality(Units(w, S))
  <1>1. PICK v : v = [x \in S |-> 0]
    OBVIOUS
  <1>2. \A x \in S : w[x] \in Nat /\ v[x] \in Nat /\ w[x] = w[x] - v[x]
    BY <1>1
  <1>3. SumUp(w, S) = Cardinality(Units(w, S)) - Cardinality(Units(v, S))
    BY <1>2, SumIsDifference
  <1>4. Units(v, S) = {}
    BY <1>1 DEF Units
  <1>5. Cardinality(Units(w, S)) \in Nat
    BY UnitsType
  <1>6. QED
    BY <1>3, <1>4, <1>5, FS_EmptySet

(* b numbers the elements of P up to n. *)
Numbers(b, n, P) ==
  /\ \A k \in 1..n : b[k] \in P
  /\ \A j, k \in 1..n : b[j] = b[k] => j = k
  /\ \A y \in P : \E k \in 1..n : b[k] = y

LEMMA NumbersExist ==
  ASSUME NEW P, IsFiniteSet(P), NEW n, n = Cardinality(P)
  PROVE  n \in Nat /\ \E b : Numbers(b, n, P)
  <1>1. n \in Nat /\ ExistsBijection(1..n, P)
    BY FS_CardinalityType
  <1>2. PICK D : D = 1..n /\ ExistsBijection(D, P)
    BY <1>1
  <1>3. PICK b : b \in Bijection(D, P)
    BY <1>2 DEF ExistsBijection
  <1>4. /\ b \in [D -> P] /\ \A j, k \in D : b[j] = b[k] => j = k
        /\ \A y \in P : \E k \in D : b[k] = y
    BY <1>3, Fun_BijectionProperties
  <1>5. Numbers(b, n, P)
    BY <1>2, <1>4 DEF Numbers
  <1>6. QED
    BY <1>1, <1>5

(* The sizes of parts that do not meet add up to the size of the whole. *)
LEMMA SumOfParts ==
  ASSUME NEW S, IsFiniteSet(S), NEW part, NEW w, NEW U, IsFiniteSet(U),
         U = UNION {part[x] : x \in S},
         \A x \in S : w[x] = Cardinality(part[x]),
         \A x, y \in S : part[x] \cap part[y] # {} => x = y
  PROVE  SumUp(w, S) = Cardinality(U)
  <1>1. ASSUME NEW x \in S
        PROVE  w[x] \in Nat /\ \E b : Numbers(b, w[x], part[x])
    <2>1. IsFiniteSet(part[x])
      BY FS_Subset
    <2>2. QED
      BY <2>1, NumbersExist
  <1> DEFINE Nth == [x \in S |-> CHOOSE b : Numbers(b, w[x], part[x])]
             Of == [p \in Units(w, S) |-> Nth[p[1]][p[2]]]
  <1>2. \A x \in S : Numbers(Nth[x], w[x], part[x])
    BY <1>1
  <1> HIDE DEF Nth
  <1>3. ASSUME NEW x \in S
        PROVE  /\ \A k \in 1..w[x] : Nth[x][k] \in part[x]
               /\ \A j, k \in 1..w[x] : Nth[x][j] = Nth[x][k] => j = k
               /\ \A y \in part[x] : \E k \in 1..w[x] : Nth[x][k] = y
    BY <1>2, Zenon DEF Numbers
  <1>4. Of \in Bijection(Units(w, S), U)
    <2>1. ASSUME NEW p \in Units(w, S)
          PROVE  /\ p[1] \in S /\ p[2] \in 1..w[p[1]] /\ p = <<p[1], p[2]>>
                 /\ Of[p] = Nth[p[1]][p[2]] /\ Of[p] \in part[p[1]] /\ Of[p] \in U
      <3>1. p[1] \in S /\ p[2] \in 1..w[p[1]] /\ p = <<p[1], p[2]>>
        BY DEF Units
      <3>2. QED
        BY <1>3, <3>1
    <2>2. ASSUME NEW p \in Units(w, S), NEW q \in Units(w, S), Of[p] = Of[q]
          PROVE  p = q
      <3>1. p[1] = q[1]
        BY <2>1, <2>2
      <3>2. p[2] = q[2]
        BY <1>3, <2>1, <2>2, <3>1
      <3>3. QED
        BY <2>1, <3>1, <3>2
    <2>3. ASSUME NEW y \in U
          PROVE  \E p \in Units(w, S) : Of[p] = y
      <3>1. PICK x \in S : y \in part[x]
        OBVIOUS
      <3>2. PICK k \in 1..w[x] : Nth[x][k] = y
        BY <1>3, <3>1
      <3>3. <<x, k>> \in Units(w, S)
        BY <1>1, <3>2 DEF Units
      <3>4. QED
        BY <3>2, <3>3
    <2>4. QED
      BY <2>1, <2>2, <2>3, Fun_IsBij
  <1>5. IsFiniteSet(Units(w, S))
    BY <1>1, UnitsAreFinite
  <1>6. Cardinality(U) = Cardinality(Units(w, S))
    BY <1>4, <1>5, FS_Bijection DEF ExistsBijection
  <1>7. QED
    BY <1>1, <1>6, SumIsCount

-----------------------------------------------------------------------------
(* The sums and counts of the reports *)

LEMMA ReportCardinality == \A S : Rep!Cardinality(S) = Cardinality(S)
  BY DEF Rep!Cardinality, Cardinality, Rep!IsFiniteSet, IsFiniteSet

(* What the totals above zero of some orders add up to, and those below *)
Above == [o \in Orders |-> IF Total[o] > 0 THEN Total[o] ELSE 0]
Below == [o \in Orders |-> IF Total[o] < 0 THEN 0 - Total[o] ELSE 0]

Gain(os) == Cardinality(Units(Above, os))
Loss(os) == Cardinality(Units(Below, os))

LEMMA TotalsSplit ==
  \A o \in Orders : Above[o] \in Nat /\ Below[o] \in Nat /\ Total[o] = Above[o] - Below[o]
  BY ReportsAssumption DEF Above, Below

LEMMA SumIsGain ==
  ASSUME NEW os \in SUBSET Orders, IsFiniteSet(os)
  PROVE  Gain(os) \in Nat /\ Loss(os) \in Nat /\ Rep!Sum(os) = Gain(os) - Loss(os)
  <1>1. /\ \A o \in os : Above[o] \in Nat /\ Below[o] \in Nat /\ Total[o] = Above[o] - Below[o]
        /\ \A o \in os : Above[o] \in Nat
        /\ \A o \in os : Below[o] \in Nat
    BY TotalsSplit
  <1>2. Rep!Sum(os) = SumUp(Total, os)
    BY DEF Rep!Sum, SumUp
  <1>3. SumUp(Total, os) = Cardinality(Units(Above, os)) - Cardinality(Units(Below, os))
    BY <1>1, SumIsDifference
  <1>4. Cardinality(Units(Above, os)) \in Nat /\ Cardinality(Units(Below, os)) \in Nat
    BY <1>1, UnitsType
  <1>5. QED
    BY <1>2, <1>3, <1>4 DEF Gain, Loss

LEMMA GainGrows ==
  ASSUME NEW os \in SUBSET Orders, IsFiniteSet(os), NEW fewer \in SUBSET os
  PROVE  /\ Gain(fewer) \in Nat /\ Gain(os) \in Nat /\ Gain(fewer) <= Gain(os)
         /\ Loss(fewer) \in Nat /\ Loss(os) \in Nat /\ Loss(fewer) <= Loss(os)
  <1>1. (\A o \in os : Above[o] \in Nat) /\ (\A o \in os : Below[o] \in Nat)
    BY TotalsSplit
  <1>2. os \in SUBSET os
    OBVIOUS
  <1>3. QED
    BY <1>1, <1>2, UnitsType, UnitsGrow DEF Gain, Loss

LEMMA GainJoins ==
  ASSUME NEW A \in SUBSET Orders, IsFiniteSet(A), NEW B \in SUBSET Orders, IsFiniteSet(B)
  PROVE  Gain(A \cup B) <= Gain(A) + Gain(B)
  <1>1. PICK S : S = A \cup B
    OBVIOUS
  <1>2. IsFiniteSet(S) /\ S \in SUBSET Orders /\ A \in SUBSET S /\ B \in SUBSET S
    BY <1>1, FS_Union
  <1>3. \A o \in S : Above[o] \in Nat
    BY <1>2, TotalsSplit
  <1>4. QED
    BY <1>2, <1>3, UnitsJoin DEF Gain

LEMMA LeewayIs ==
  ASSUME IsFiniteSet(placed), placed \in SUBSET Orders, NEW came \in SUBSET placed
  PROVE  Rep!Leeway(came) = Gain(came) + Loss(placed)
  <1>1. PICK up : up = {o \in came : Total[o] > 0}
    OBVIOUS
  <1>2. PICK down : down = {o \in placed : Total[o] < 0}
    OBVIOUS
  <1>3. up \in SUBSET Orders /\ down \in SUBSET Orders /\ IsFiniteSet(up) /\ IsFiniteSet(down)
    BY <1>1, <1>2, FS_Subset
  <1>4. Units(Below, up) = {} /\ Units(Above, up) = Units(Above, came)
    BY <1>1, ReportsAssumption DEF Units, Above, Below
  <1>5. Units(Above, down) = {} /\ Units(Below, down) = Units(Below, placed)
    BY <1>2, ReportsAssumption DEF Units, Above, Below
  <1>6. /\ Gain(up) = Gain(came) /\ Loss(up) = 0
        /\ Gain(down) = 0 /\ Loss(down) = Loss(placed)
    BY <1>4, <1>5, FS_EmptySet DEF Gain, Loss
  <1>7. /\ Gain(up) \in Nat /\ Rep!Sum(up) = Gain(up) - Loss(up)
        /\ Loss(down) \in Nat /\ Rep!Sum(down) = Gain(down) - Loss(down)
    BY <1>3, SumIsGain
  <1>8. Rep!Leeway(came) = Rep!Sum(up) - Rep!Sum(down)
    BY <1>1, <1>2 DEF Rep!Leeway
  <1>9. QED
    BY <1>6, <1>7, <1>8

Those(os, of, m) == {o \in os : of[o] = m}

(* Split by month, what is gained or lost on some orders adds up to the whole. *)
LEMMA MonthsOfUnits ==
  ASSUME NEW os, IsFiniteSet(os), NEW of, \A o \in os : of[o] \in Months,
         NEW those, \A m \in Months : those[m] = Those(os, of, m),
         NEW w, \A o \in os : w[o] \in Nat,
         NEW u, \A m \in Months : u[m] = Cardinality(Units(w, those[m]))
  PROVE  SumUp(u, Months) = Cardinality(Units(w, os))
  <1>1. PICK part : part = [m \in Months |-> Units(w, those[m])]
    OBVIOUS
  <1>2. PICK U : U = Units(w, os)
    OBVIOUS
  <1>3. \A m \in Months : u[m] = Cardinality(part[m])
    BY <1>1
  <1>4. U = UNION {part[m] : m \in Months}
    <2>1. ASSUME NEW p \in U
          PROVE  \E m \in Months : p \in part[m]
      BY <1>1, <1>2 DEF Units, Those
    <2>2. ASSUME NEW m \in Months, NEW p \in part[m]
          PROVE  p \in U
      BY <1>1, <1>2 DEF Units, Those
    <2>3. QED
      BY <2>1, <2>2
  <1>5. \A m, n \in Months : part[m] \cap part[n] # {} => m = n
    BY <1>1 DEF Units, Those
  <1>6. IsFiniteSet(U)
    BY <1>2, UnitsAreFinite
  <1>7. SumUp(u, Months) = Cardinality(U)
    BY <1>3, <1>4, <1>5, <1>6, SumOfParts, ReportsAssumption
  <1>8. QED
    BY <1>2, <1>7

(* The revenue by month adds up to that of the orders that are paid. *)
LEMMA EarnedAddsUp ==
  ASSUME Rep!TypeOK, IsFiniteSet(Rep!PlacedIn({"paid"}))
  PROVE  Rep!OverAll([m \in Months |-> Rep!Earned(m)]) = Rep!Sum(Rep!PlacedIn({"paid"}))
  <1>1. PICK Paid : Paid = Rep!PlacedIn({"paid"})
    OBVIOUS
  <1>2. PICK of : of = [o \in Paid |-> order[o].month]
    OBVIOUS
  <1>3. /\ IsFiniteSet(Paid) /\ Paid \in SUBSET Orders
        /\ \A o \in Paid : of[o] \in Months
    BY <1>1, <1>2 DEF Rep!PlacedIn, Rep!TypeOK
  <1>4. PICK w : w = [m \in Months |-> Rep!Earned(m)]
    OBVIOUS
  <1>5. PICK those : those = [m \in Months |-> Those(Paid, of, m)]
    OBVIOUS
  <1>6. PICK u : u = [m \in Months |-> Gain(those[m])]
    OBVIOUS
  <1>7. PICK v : v = [m \in Months |-> Loss(those[m])]
    OBVIOUS
  <1>8. ASSUME NEW m \in Months
        PROVE  u[m] \in Nat /\ v[m] \in Nat /\ w[m] = u[m] - v[m]
    <2>1. PICK os : os = those[m]
      OBVIOUS
    <2>2. IsFiniteSet(os) /\ os \in SUBSET Orders
      <3>1. os \in SUBSET Paid
        BY <1>5, <2>1 DEF Those
      <3>2. QED
        BY <1>3, <3>1, FS_Subset
    <2>3. Gain(os) \in Nat /\ Loss(os) \in Nat /\ Rep!Sum(os) = Gain(os) - Loss(os)
      BY <2>2, SumIsGain
    <2>4. u[m] = Gain(os) /\ v[m] = Loss(os)
      BY <1>6, <1>7, <2>1
    <2>5. {o \in Rep!PlacedIn({"paid"}) : order[o].month = m} = os
      BY <1>1, <1>2, <1>5, <2>1 DEF Those
    <2>6. w[m] = Rep!Sum(os)
      BY <1>4, <2>5 DEF Rep!Earned
    <2>7. QED
      BY <2>3, <2>4, <2>6
  <1>9. (\A o \in Paid : Above[o] \in Nat) /\ (\A o \in Paid : Below[o] \in Nat)
    BY <1>3, TotalsSplit
  <1>10. /\ \A m \in Months : u[m] = Cardinality(Units(Above, those[m]))
         /\ \A m \in Months : v[m] = Cardinality(Units(Below, those[m]))
    BY <1>6, <1>7 DEF Gain, Loss
  <1>11. SumUp(u, Months) = Gain(Paid) /\ SumUp(v, Months) = Loss(Paid)
    <2>1. IsFiniteSet(Paid) /\ \A o \in Paid : of[o] \in Months
      BY <1>3
    <2>2. \A m \in Months : those[m] = Those(Paid, of, m)
      BY <1>5
    <2>3. SumUp(u, Months) = Cardinality(Units(Above, Paid))
      <3>1. \A o \in Paid : Above[o] \in Nat
        BY <1>9
      <3>2. \A m \in Months : u[m] = Cardinality(Units(Above, those[m]))
        BY <1>10
      <3>3. QED
        BY <2>1, <2>2, <3>1, <3>2, MonthsOfUnits
    <2>4. SumUp(v, Months) = Cardinality(Units(Below, Paid))
      <3>1. \A o \in Paid : Below[o] \in Nat
        BY <1>9
      <3>2. \A m \in Months : v[m] = Cardinality(Units(Below, those[m]))
        BY <1>10
      <3>3. QED
        BY <2>1, <2>2, <3>1, <3>2, MonthsOfUnits
    <2>5. QED
      BY <2>3, <2>4 DEF Gain, Loss
  <1>12. /\ \A m \in Months : u[m] \in Nat
         /\ \A m \in Months : v[m] \in Nat
    BY <1>8
  <1>13. /\ SumUp(u, Months) = Cardinality(Units(u, Months))
         /\ SumUp(v, Months) = Cardinality(Units(v, Months))
    BY <1>12, SumIsCount, ReportsAssumption
  <1>14. SumUp(w, Months) = Cardinality(Units(u, Months)) - Cardinality(Units(v, Months))
    BY <1>8, SumIsDifference, ReportsAssumption
  <1>15. Rep!OverAll(w) = SumUp(w, Months)
    <2>1. Rep!OverAll(w) = SumUp(w, DOMAIN w)
      BY DEF Rep!OverAll, SumUp
    <2>2. QED
      BY <1>4, <2>1
  <1>16. Rep!Sum(Paid) = Gain(Paid) - Loss(Paid)
    BY <1>3, SumIsGain
  <1>17. Rep!OverAll(w) = Rep!Sum(Paid)
    BY <1>11, <1>13, <1>14, <1>15, <1>16
  <1>18. QED
    BY <1>1, <1>4, <1>17

LEMMA PartsAddUp ==
  ASSUME NEW L, IsFiniteSet(L), NEW S, IsFiniteSet(S), NEW of, NEW w, DOMAIN w = S,
         \A x \in S : w[x] = Cardinality({d \in L : of[d] = x})
  PROVE  Rep!OverAll(w) = Cardinality({d \in L : of[d] \in S})
  <1>1. PICK part : part = [x \in S |-> {d \in L : of[d] = x}]
    OBVIOUS
  <1>2. PICK U : U = {d \in L : of[d] \in S}
    OBVIOUS
  <1>3. U \in SUBSET L /\ U = UNION {part[x] : x \in S}
    BY <1>1, <1>2
  <1>4. IsFiniteSet(U)
    BY <1>3, FS_Subset
  <1>5. \A x \in S : w[x] = Cardinality(part[x])
    BY <1>1
  <1>6. \A x, y \in S : part[x] \cap part[y] # {} => x = y
    BY <1>1
  <1>7. SumUp(w, S) = Cardinality(U)
    BY <1>3, <1>4, <1>5, <1>6, SumOfParts
  <1>8. Rep!OverAll(w) = SumUp(w, DOMAIN w)
    BY DEF Rep!OverAll, SumUp
  <1>9. QED
    BY <1>2, <1>7, <1>8

LEMMA LoggedAddUp ==
  ASSUME Rep!TypeOK, IsFiniteSet(Rep!Logged)
  PROVE  /\ Rep!OverAll([m \in Months |-> Rep!PerMonth(m)]) = Cardinality(Rep!Logged)
         /\ Rep!OverAll([c \in Countries |-> Rep!PerCountry(c)]) =
              Cardinality({d \in Rep!Logged : download[d].country \in Countries})
  <1>1. PICK L : L = Rep!Logged
    OBVIOUS
  <1>2. \A d \in L : download[d].month \in Months
    BY <1>1 DEF Rep!TypeOK, Rep!Logged
  <1>3. PICK month : month = [d \in L |-> download[d].month]
    OBVIOUS
  <1>4. PICK country : country = [d \in L |-> download[d].country]
    OBVIOUS
  <1>5. [m \in Months |-> Rep!PerMonth(m)] =
          [m \in Months |-> Cardinality({d \in L : month[d] = m})]
    BY <1>1, <1>3, ReportCardinality DEF Rep!PerMonth
  <1>6. [c \in Countries |-> Rep!PerCountry(c)] =
          [c \in Countries |-> Cardinality({d \in L : country[d] = c})]
    BY <1>1, <1>4, ReportCardinality DEF Rep!PerCountry
  <1>7. /\ {d \in L : month[d] \in Months} = L
        /\ {d \in L : country[d] \in Countries} = {d \in L : download[d].country \in Countries}
    BY <1>2, <1>3, <1>4
  <1>8. QED
    BY <1>1, <1>5, <1>6, <1>7, PartsAddUp, ReportsAssumption

-----------------------------------------------------------------------------
(* What a report has counted, while orders and downloads are written *)

(* What is counted only grows, and every order there has been placed. *)
Tallied ==
  /\ reportJob = [r \in Reporters |-> reportJob[r]]
  /\ IsFiniteSet(placed)
  /\ \A o \in Orders : order[o] # None => o \in placed
  /\ IsFiniteSet(Rep!Logged)

Earning == Rep!PlacedIn(Rep!Statuses \ {"refunded"})

Answers ==
  [todo : SUBSET {"orders", "revenue", "total", "months", "countries"}, old : SUBSET LogRows,
   came : SUBSET Orders, revenue : Int, orders : Nat, total : Nat,
   months : [Months -> Int], countries : [Countries -> Nat]]

(* The revenue is that of some orders that were placed, and each order that earns
   now is among them or came since the report was asked for. *)
StatsInv(r) ==
  reportPc[r] \in {"computing", "totalling"} =>
    /\ reportJob[r] \in Answers
    /\ reportJob[r].came \subseteq placed
    /\ reportPc[r] = "totalling" => reportJob[r].todo = {}
    /\ "revenue" \notin reportJob[r].todo =>
         \E summed \in SUBSET placed :
           /\ reportJob[r].revenue = Rep!Sum(summed)
           /\ Earning \subseteq summed \cup reportJob[r].came

AnswerInv(r) ==
  reportPc[r] = "answered" =>
    /\ reportJob[r] \in Answers
    /\ reportJob[r].came \subseteq placed
    /\ Rep!OverAll(reportJob[r].months) \in Int
    /\ Rep!OverAll(reportJob[r].months) <=
         reportJob[r].revenue + Gain(reportJob[r].came) + Loss(placed)

(* Between n and the number of rows in the log *)
UpToLogged(count, n) == count \in Nat /\ n <= count /\ count <= Cardinality(Rep!Logged)

CountInv(r) ==
  reportPc[r] \in {"counting", "summed"} =>
    /\ reportJob[r] \in Answers
    /\ reportJob[r].old \subseteq Rep!Logged
    /\ reportPc[r] = "summed" => reportJob[r].todo = {}
    /\ "total" \notin reportJob[r].todo =>
         UpToLogged(reportJob[r].total, Cardinality(reportJob[r].old))
    /\ "months" \notin reportJob[r].todo =>
         UpToLogged(Rep!OverAll(reportJob[r].months), Cardinality(reportJob[r].old))
    /\ "countries" \notin reportJob[r].todo =>
         UpToLogged(Rep!OverAll(reportJob[r].countries),
                    Cardinality({d \in reportJob[r].old : download[d].country # None}))

ReportInv ==
  /\ Rep!TypeOK
  /\ Tallied
  /\ \A r \in Reporters : StatsInv(r) /\ AnswerInv(r) /\ CountInv(r)

(* What the writers of orders and of the log do to it: the orders os come. *)
Noted(os) ==
  /\ UNCHANGED reportPc
  /\ \A r \in Reporters :
       reportJob'[r] = IF reportPc[r] \in {"computing", "totalling"}
                       THEN [reportJob[r] EXCEPT !.came = @ \cup os] ELSE reportJob[r]

Written(os) ==
  /\ Noted(os)
  /\ os \subseteq placed' /\ placed \subseteq placed'
  /\ Earning' \subseteq Earning \cup os
  /\ Rep!Logged \subseteq Rep!Logged'
  /\ \A d \in Rep!Logged : download'[d] = download[d]

LEMMA NoneComes ==
  ASSUME ReportInv, UNCHANGED <<reportPc, reportJob>>
  PROVE  Noted({})
  <1>1. ASSUME NEW r \in Reporters, reportPc[r] \in {"computing", "totalling"}
        PROVE  [reportJob[r] EXCEPT !.came = @ \cup {}] = reportJob[r]
    <2>1. reportJob[r] \in Answers
      BY <1>1 DEF ReportInv, StatsInv
    <2>2. QED
      BY <2>1 DEF Answers
  <1>2. QED
    BY <1>1 DEF Noted

LEMMA PlaceWrites ==
  ASSUME ReportInv, Rep!TypeOK', NEW o \in Orders, NEW m \in Months, Rep!Place(o, m)
  PROVE  Tallied' /\ Written({o})
  <1>1. /\ UNCHANGED <<download, reportPc>> /\ o \notin placed
        /\ placed' = placed \cup {o}
        /\ \A other \in Orders \ {o} : order'[other] = order[other]
    BY DEF Rep!Place, Rep!Comes, ReportInv, Rep!TypeOK
  <1>2. Noted({o}) /\ reportJob' = [r \in Reporters |-> reportJob'[r]]
    BY DEF Rep!Place, Rep!Comes, Noted
  <1>3. IsFiniteSet(placed')
    BY <1>1, FS_AddElement DEF ReportInv, Tallied
  <1>4. Rep!Logged' = Rep!Logged
    BY <1>1 DEF Rep!Logged
  <1>5. Tallied'
    BY <1>1, <1>2, <1>3, <1>4 DEF ReportInv, Tallied
  <1>6. Earning' \subseteq Earning \cup {o}
    BY <1>1 DEF Earning, Rep!PlacedIn
  <1>7. QED
    BY <1>1, <1>2, <1>4, <1>5, <1>6 DEF Written

LEMMA MoveWrites ==
  ASSUME ReportInv, Rep!TypeOK', NEW o \in Orders, NEW s \in Rep!Statuses, Rep!Move(o, s)
  PROVE  Tallied' /\ \E os \in SUBSET Orders : Written(os)
  <1>1. PICK os : os = IF order[o].status = "refunded" /\ s # "refunded" THEN {o} ELSE {}
    OBVIOUS
  <1>2. /\ UNCHANGED <<placed, download, reportPc>> /\ order[o] # None
        /\ order'[o] = [order[o] EXCEPT !.status = s]
        /\ \A other \in Orders \ {o} : order'[other] = order[other]
    BY DEF Rep!Move, Rep!Comes, ReportInv, Rep!TypeOK
  <1>3. Noted(os) /\ reportJob' = [r \in Reporters |-> reportJob'[r]]
    BY <1>1 DEF Rep!Move, Rep!Comes, Noted
  <1>4. Rep!Logged' = Rep!Logged
    BY <1>2 DEF Rep!Logged
  <1>5. Tallied'
    BY <1>2, <1>3, <1>4 DEF ReportInv, Tallied
  <1>6. order[o] \in [status : Rep!Statuses, month : Months]
    BY <1>2 DEF ReportInv, Rep!TypeOK
  <1>7. order'[o].status = s
    BY <1>2, <1>6
  <1>8. ASSUME NEW other \in Earning'
        PROVE  other \in Earning \cup os
    <2>1. CASE other # o
      BY <1>2, <2>1 DEF Earning, Rep!PlacedIn
    <2>2. CASE other = o
      <3>1. s # "refunded"
        BY <1>7, <2>2 DEF Earning, Rep!PlacedIn
      <3>2. QED
        BY <1>1, <1>2, <1>6, <2>2, <3>1 DEF Earning, Rep!PlacedIn
    <2>3. QED
      BY <2>1, <2>2
  <1>9. os \subseteq placed' /\ os \in SUBSET Orders
    BY <1>1, <1>2 DEF ReportInv, Tallied
  <1>10. QED
    BY <1>2, <1>3, <1>4, <1>5, <1>8, <1>9 DEF Written

LEMMA DeleteWrites ==
  ASSUME ReportInv, NEW o \in Orders, Rep!DeleteOrder(o)
  PROVE  Tallied' /\ Written({})
  <1>1. /\ UNCHANGED <<placed, download>> /\ UNCHANGED <<reportPc, reportJob>>
        /\ order'[o] = None
        /\ \A other \in Orders \ {o} : order'[other] = order[other]
    BY DEF Rep!DeleteOrder, Rep!slotVars, ReportInv, Rep!TypeOK
  <1>2. Rep!Logged' = Rep!Logged
    BY <1>1 DEF Rep!Logged
  <1>3. Tallied'
    BY <1>1, <1>2 DEF ReportInv, Tallied
  <1>4. Earning' \subseteq Earning
    BY <1>1 DEF Earning, Rep!PlacedIn
  <1>5. QED
    BY <1>1, <1>2, <1>3, <1>4, NoneComes DEF Written

LEMMA LogWrites ==
  ASSUME ReportInv, NEW d \in LogRows, NEW m \in Months, NEW c \in Countries \cup {None},
         Rep!LogDownload(d, m, c)
  PROVE  Tallied' /\ Written({})
  <1>1. /\ UNCHANGED <<order, placed>> /\ UNCHANGED <<reportPc, reportJob>>
        /\ download[d] = None
        /\ \A other \in LogRows \ {d} : download'[other] = download[other]
    BY DEF Rep!LogDownload, Rep!slotVars, ReportInv, Rep!TypeOK
  <1>2. \A other \in Rep!Logged : download'[other] = download[other] /\ other \in LogRows
    BY <1>1 DEF Rep!Logged
  <1>3. Rep!Logged \subseteq Rep!Logged' /\ Rep!Logged' \subseteq Rep!Logged \cup {d}
    BY <1>1 DEF Rep!Logged
  <1>4. IsFiniteSet(Rep!Logged \cup {d})
    BY FS_AddElement DEF ReportInv, Tallied
  <1>5. IsFiniteSet(Rep!Logged')
    BY <1>3, <1>4, FS_Subset
  <1>6. Tallied'
    BY <1>1, <1>5 DEF ReportInv, Tallied
  <1>7. Earning' = Earning
    BY <1>1 DEF Earning, Rep!PlacedIn
  <1>8. QED
    BY <1>1, <1>2, <1>3, <1>6, <1>7, NoneComes DEF Written

LEMMA StatsKept ==
  ASSUME ReportInv, NEW os \in SUBSET Orders, Written(os), NEW r \in Reporters
  PROVE  StatsInv(r)'
  <1>1. reportPc' = reportPc
    BY DEF Written, Noted
  <1> SUFFICES ASSUME reportPc[r] \in {"computing", "totalling"}
               PROVE  StatsInv(r)'
    BY <1>1 DEF StatsInv
  <1>2. StatsInv(r)
    BY DEF ReportInv
  <1>3. reportJob'[r] = [reportJob[r] EXCEPT !.came = @ \cup os]
    BY DEF Written, Noted
  <1>4. reportJob[r] \in Answers /\ reportJob[r].came \subseteq placed
    BY <1>2 DEF StatsInv
  <1>5. /\ reportJob'[r] \in Answers
        /\ reportJob'[r].came = reportJob[r].came \cup os
        /\ reportJob'[r].todo = reportJob[r].todo /\ reportJob'[r].revenue = reportJob[r].revenue
    BY <1>3, <1>4 DEF Answers
  <1>6. placed \subseteq placed' /\ os \subseteq placed' /\ Earning' \subseteq Earning \cup os
    BY DEF Written
  <1>7. ASSUME "revenue" \notin reportJob[r].todo
        PROVE  \E summed \in SUBSET placed' :
                 /\ reportJob'[r].revenue = Rep!Sum(summed)
                 /\ Earning' \subseteq summed \cup reportJob'[r].came
    <2>1. PICK summed \in SUBSET placed :
            /\ reportJob[r].revenue = Rep!Sum(summed)
            /\ Earning \subseteq summed \cup reportJob[r].came
      BY <1>2, <1>7 DEF StatsInv
    <2>2. summed \in SUBSET placed' /\ Earning' \subseteq summed \cup reportJob'[r].came
      BY <1>5, <1>6, <2>1
    <2>3. reportJob'[r].revenue = Rep!Sum(summed)
      BY <1>5, <2>1
    <2>4. QED
      BY <2>2, <2>3
  <1>8. (reportJob[r] \in Answers /\ reportJob[r].came \subseteq placed)'
    BY <1>4, <1>5, <1>6 DEF Answers
  <1>9. (reportPc[r] = "totalling" => reportJob[r].todo = {})'
    BY <1>1, <1>2, <1>5 DEF StatsInv
  <1>10. ("revenue" \notin reportJob[r].todo =>
           \E summed \in SUBSET placed :
             /\ reportJob[r].revenue = Rep!Sum(summed)
             /\ Earning \subseteq summed \cup reportJob[r].came)'
    BY <1>5, <1>7
  <1>11. QED
    BY <1>8, <1>9, <1>10 DEF StatsInv

LEMMA AnswerKept ==
  ASSUME ReportInv, Rep!TypeOK', Tallied', NEW os \in SUBSET Orders, Written(os),
         NEW r \in Reporters
  PROVE  AnswerInv(r)'
  <1>1. reportPc' = reportPc
    BY DEF Written, Noted
  <1> SUFFICES ASSUME reportPc[r] = "answered"
               PROVE  AnswerInv(r)'
    BY <1>1 DEF AnswerInv
  <1>2. AnswerInv(r)
    BY DEF ReportInv
  <1>3. PICK came : came = reportJob[r].came
    OBVIOUS
  <1>4. PICK before : before = placed
    OBVIOUS
  <1>5. PICK after : after = placed'
    OBVIOUS
  <1>6. /\ IsFiniteSet(after) /\ after \in SUBSET Orders
        /\ before \in SUBSET after /\ came \in SUBSET after
    BY <1>2, <1>3, <1>4, <1>5 DEF AnswerInv, Tallied, Rep!TypeOK, Written
  <1>7. /\ Loss(before) \in Nat /\ Loss(after) \in Nat /\ Loss(before) <= Loss(after)
        /\ Gain(came) \in Nat
    BY <1>6, GainGrows
  <1>8. reportJob[r] \in Answers /\ reportJob[r].revenue \in Int
    BY <1>2 DEF AnswerInv, Answers
  <1>9. /\ Rep!OverAll(reportJob[r].months) \in Int
        /\ Rep!OverAll(reportJob[r].months) <= reportJob[r].revenue + Gain(came) + Loss(before)
    BY <1>2, <1>3, <1>4 DEF AnswerInv
  <1>10. Rep!OverAll(reportJob[r].months) <= reportJob[r].revenue + Gain(came) + Loss(after)
    BY <1>7, <1>8, <1>9
  <1>11. reportJob'[r] = reportJob[r]
    BY DEF Written, Noted
  <1>12. (reportJob[r] \in Answers /\ reportJob[r].came \subseteq placed)'
    BY <1>3, <1>5, <1>6, <1>8, <1>11 DEF Answers
  <1>13. (Rep!OverAll(reportJob[r].months) \in Int)'
    BY <1>9, <1>11
  <1>14. (Rep!OverAll(reportJob[r].months) <=
            reportJob[r].revenue + Gain(reportJob[r].came) + Loss(placed))'
    BY <1>3, <1>5, <1>10, <1>11
  <1>15. QED
    BY <1>12, <1>13, <1>14 DEF AnswerInv

LEMMA CountKept ==
  ASSUME ReportInv, Tallied', NEW os, Written(os), NEW r \in Reporters
  PROVE  CountInv(r)'
  <1> SUFFICES ASSUME reportPc[r] \in {"counting", "summed"}
               PROVE  CountInv(r)'
    BY DEF CountInv, Written, Noted
  <1>1. CountInv(r)
    BY DEF ReportInv
  <1>2. /\ Cardinality(Rep!Logged) \in Nat /\ Cardinality(Rep!Logged') \in Nat
        /\ Cardinality(Rep!Logged) <= Cardinality(Rep!Logged')
    <2>1. /\ IsFiniteSet(Rep!Logged) /\ IsFiniteSet(Rep!Logged')
          /\ Rep!Logged \in SUBSET Rep!Logged'
      BY DEF ReportInv, Tallied, Written
    <2>2. QED
      BY <2>1, FS_Subset, FS_CardinalityType
  <1>3. ASSUME NEW count, NEW n \in Nat, UpToLogged(count, n)
        PROVE  UpToLogged(count, n)'
    BY <1>2, <1>3 DEF UpToLogged
  <1>4. PICK old : old = reportJob[r].old
    OBVIOUS
  <1>5. PICK known : known = {d \in old : download[d].country # None}
    OBVIOUS
  <1>6. {d \in old : download'[d].country # None} = known
    BY <1>1, <1>4, <1>5 DEF CountInv, Written
  <1>7. IsFiniteSet(old) /\ IsFiniteSet(known)
    <2>1. old \in SUBSET Rep!Logged /\ known \in SUBSET Rep!Logged /\ IsFiniteSet(Rep!Logged)
      BY <1>1, <1>4, <1>5 DEF CountInv, ReportInv, Tallied
    <2>2. QED
      BY <2>1, FS_Subset
  <1>8. Cardinality(old) \in Nat /\ Cardinality(known) \in Nat
    BY <1>7, FS_CardinalityType
  <1>9. /\ reportPc' = reportPc /\ reportJob'[r] = reportJob[r]
        /\ Rep!Logged \subseteq Rep!Logged'
    BY DEF Written, Noted
  <1>10. (reportJob[r] \in Answers /\ reportJob[r].old \subseteq Rep!Logged)'
    BY <1>1, <1>9 DEF CountInv, Answers
  <1>11. (reportPc[r] = "summed" => reportJob[r].todo = {})'
    BY <1>1, <1>9 DEF CountInv
  <1>12. ("total" \notin reportJob[r].todo =>
           UpToLogged(reportJob[r].total, Cardinality(reportJob[r].old)))'
    BY <1>1, <1>3, <1>4, <1>8, <1>9 DEF CountInv
  <1>13. ("months" \notin reportJob[r].todo =>
           UpToLogged(Rep!OverAll(reportJob[r].months), Cardinality(reportJob[r].old)))'
    BY <1>1, <1>3, <1>4, <1>8, <1>9 DEF CountInv
  <1>14. ("countries" \notin reportJob[r].todo =>
           UpToLogged(Rep!OverAll(reportJob[r].countries),
                      Cardinality({d \in reportJob[r].old : download[d].country # None})))'
    BY <1>1, <1>3, <1>4, <1>5, <1>6, <1>8, <1>9 DEF CountInv
  <1>15. QED
    BY <1>10, <1>11, <1>12, <1>13, <1>14 DEF CountInv

(* What the queries do to it *)
LEMMA AskedIsAnswer ==
  ASSUME NEW todo \in SUBSET {"orders", "revenue", "total", "months", "countries"},
         NEW old \in SUBSET LogRows
  PROVE  Rep!Asked(todo, old) \in Answers
  BY DEF Rep!Asked, Answers

LEMMA ReadersOnlyRead ==
  ASSUME ReportInv, NEW r \in Reporters,
         \/ Rep!GetStats(r) \/ Rep!ComputeStats(r) \/ Rep!GetRevenueByMonth(r)
         \/ Rep!GetDownloadStats(r) \/ Rep!CountDownloads(r) \/ Rep!Respond(r)
  PROVE  /\ UNCHANGED Rep!rowVars
         /\ Tallied'
         /\ \A other \in Reporters \ {r} :
              StatsInv(other)' /\ AnswerInv(other)' /\ CountInv(other)'
  <1>1. /\ UNCHANGED Rep!rowVars
        /\ \E place, what : /\ reportPc' = [reportPc EXCEPT ![r] = place]
                           /\ reportJob' = [reportJob EXCEPT ![r] = what]
    BY DEF Rep!GetStats, Rep!ComputeStats, Rep!GetRevenueByMonth, Rep!GetDownloadStats,
           Rep!CountDownloads, Rep!Respond, Rep!Part, Rep!Leave, Rep!Go
  <1>2. UNCHANGED <<order, placed, download>> /\ UNCHANGED Earning /\ UNCHANGED Rep!Logged
    BY <1>1 DEF Rep!rowVars, Earning, Rep!PlacedIn, Rep!Logged
  <1>3. reportJob' = [q \in Reporters |-> reportJob'[q]]
    BY <1>1 DEF ReportInv, Tallied
  <1>4. Tallied'
    BY <1>2, <1>3 DEF ReportInv, Tallied
  <1>5. ASSUME NEW other \in Reporters \ {r}
        PROVE  StatsInv(other)' /\ AnswerInv(other)' /\ CountInv(other)'
    <2>1. reportPc'[other] = reportPc[other] /\ reportJob'[other] = reportJob[other]
      BY <1>1 DEF ReportInv, Tallied, Rep!TypeOK
    <2>2. StatsInv(other) /\ AnswerInv(other) /\ CountInv(other)
      BY DEF ReportInv
    <2>3. StatsInv(other)'
      BY <1>2, <2>1, <2>2 DEF StatsInv, Answers
    <2>4. AnswerInv(other)'
      BY <1>2, <2>1, <2>2 DEF AnswerInv, Answers
    <2>5. CountInv(other)'
      BY <1>2, <2>1, <2>2 DEF CountInv, Answers, UpToLogged
    <2>6. QED
      BY <2>3, <2>4, <2>5
  <1>6. QED
    BY <1>1, <1>4, <1>5

LEMMA PlacedAreFinite ==
  ASSUME ReportInv, NEW states
  PROVE  /\ IsFiniteSet(Rep!PlacedIn(states)) /\ Rep!PlacedIn(states) \in SUBSET Orders
         /\ Rep!PlacedIn(states) \subseteq placed
  <1>1. Rep!PlacedIn(states) \in SUBSET placed /\ placed \in SUBSET Orders /\ IsFiniteSet(placed)
    BY DEF Rep!PlacedIn, ReportInv, Tallied, Rep!TypeOK
  <1>2. QED
    BY <1>1, FS_Subset

LEMMA StatsAsked ==
  ASSUME ReportInv, NEW r \in Reporters, Rep!GetStats(r)
  PROVE  StatsInv(r)' /\ AnswerInv(r)' /\ CountInv(r)'
  <1>1. /\ UNCHANGED <<order, placed, download>>
        /\ reportPc'[r] = "computing"
        /\ reportJob'[r] = Rep!Asked({"orders", "revenue"}, {})
    BY DEF Rep!GetStats, Rep!Go, Rep!rowVars, ReportInv, Tallied, Rep!TypeOK
  <1>2. reportJob'[r] \in Answers
    BY <1>1, AskedIsAnswer
  <1>3. reportJob'[r].came = {} /\ reportJob'[r].todo = {"orders", "revenue"}
    BY <1>1 DEF Rep!Asked
  <1>4. StatsInv(r)'
    BY <1>1, <1>2, <1>3 DEF StatsInv, Answers
  <1>5. QED
    BY <1>1, <1>4 DEF AnswerInv, CountInv

LEMMA StatsComputed ==
  ASSUME ReportInv, NEW r \in Reporters, Rep!ComputeStats(r)
  PROVE  StatsInv(r)' /\ AnswerInv(r)' /\ CountInv(r)'
  <1>1. UNCHANGED <<order, placed, download>> /\ reportPc[r] = "computing"
    BY DEF Rep!ComputeStats, Rep!Part, Rep!At, Rep!rowVars
  <1>2. reportJob[r] \in Answers /\ reportJob[r].came \subseteq placed
    BY <1>1 DEF ReportInv, StatsInv
  <1>3. PICK ordered \in Nat : ordered = Rep!Cardinality(Rep!PlacedIn(Rep!Statuses))
    BY ReportCardinality, PlacedAreFinite, FS_CardinalityType
  <1>4. PICK earned \in Int : earned = Rep!Sum(Earning)
    BY PlacedAreFinite, SumIsGain DEF Earning
  <1>5. /\ reportPc'[r] \in {"computing", "totalling"}
        /\ reportPc'[r] = "totalling" => reportJob'[r].todo = {}
    <2>1. ASSUME NEW query, NEW j \in Answers, Rep!Part(r, query, "totalling", j)
          PROVE  /\ reportPc'[r] \in {"computing", "totalling"}
                 /\ reportPc'[r] = "totalling" => reportJob'[r].todo = {}
      <3>1. PICK left : left = reportJob[r].todo \ {query}
        OBVIOUS
      <3>2. /\ reportPc'[r] = IF left = {} THEN "totalling" ELSE "computing"
            /\ reportJob'[r] = [j EXCEPT !.todo = left]
        BY <1>1, <2>1, <3>1 DEF Rep!Part, Rep!Go, ReportInv, Tallied, Rep!TypeOK
      <3>3. [j EXCEPT !.todo = left].todo = left
        BY DEF Answers
      <3>4. QED
        BY <3>2, <3>3
    <2>2. /\ [reportJob[r] EXCEPT !.orders = ordered] \in Answers
          /\ [reportJob[r] EXCEPT !.revenue = earned] \in Answers
      BY <1>2, <1>3, <1>4 DEF Answers
    <2>3. QED
      BY <1>3, <1>4, <2>1, <2>2 DEF Rep!ComputeStats, Earning
  <1>6. CASE /\ "orders" \in reportJob[r].todo
             /\ reportJob'[r] = [[reportJob[r] EXCEPT !.orders = ordered]
                                    EXCEPT !.todo = reportJob[r].todo \ {"orders"}]
    <2>1. /\ reportJob'[r] \in Answers
          /\ reportJob'[r].came = reportJob[r].came /\ reportJob'[r].revenue = reportJob[r].revenue
          /\ "revenue" \notin reportJob'[r].todo => "revenue" \notin reportJob[r].todo
      BY <1>2, <1>6 DEF Answers
    <2>2. StatsInv(r)
      BY DEF ReportInv
    <2>3. Earning' = Earning
      BY <1>1 DEF Earning, Rep!PlacedIn
    <2>4. StatsInv(r)'
      BY <1>1, <1>2, <1>5, <2>1, <2>2, <2>3 DEF StatsInv, Answers
    <2>5. QED
      BY <1>5, <2>4 DEF AnswerInv, CountInv
  <1>7. CASE reportJob'[r] = [[reportJob[r] EXCEPT !.revenue = earned]
                                EXCEPT !.todo = reportJob[r].todo \ {"revenue"}]
    <2>1. /\ reportJob'[r] \in Answers
          /\ reportJob'[r].came = reportJob[r].came /\ reportJob'[r].revenue = earned
      BY <1>2, <1>7 DEF Answers
    <2>2. Earning' = Earning /\ Earning \in SUBSET placed
      BY <1>1, PlacedAreFinite DEF Earning, Rep!PlacedIn
    <2>3. StatsInv(r)'
      BY <1>1, <1>2, <1>4, <1>5, <2>1, <2>2 DEF StatsInv, Answers
    <2>4. QED
      BY <1>5, <2>3 DEF AnswerInv, CountInv
  <1>8. QED
    BY <1>3, <1>4, <1>6, <1>7 DEF Rep!ComputeStats, Rep!Part, Rep!Go, ReportInv, Tallied, Earning

LEMMA MonthsTotalled ==
  ASSUME ReportInv, NEW r \in Reporters, Rep!GetRevenueByMonth(r)
  PROVE  StatsInv(r)' /\ AnswerInv(r)' /\ CountInv(r)'
  <1>1. PICK months : months = [m \in Months |-> Rep!Earned(m)]
    OBVIOUS
  <1>2. /\ UNCHANGED <<order, placed, download>>
        /\ reportPc[r] = "totalling" /\ reportPc'[r] = "answered"
        /\ reportJob'[r] = [reportJob[r] EXCEPT !.months = months]
    BY <1>1 DEF Rep!GetRevenueByMonth, Rep!At, Rep!Go, Rep!rowVars, ReportInv, Tallied, Rep!TypeOK
  <1>3. reportJob[r] \in Answers /\ reportJob[r].came \subseteq placed
    BY <1>2 DEF ReportInv, StatsInv
  <1>4. PICK summed \in SUBSET placed :
          /\ reportJob[r].revenue = Rep!Sum(summed)
          /\ Earning \subseteq summed \cup reportJob[r].came
    BY <1>2 DEF ReportInv, StatsInv
  <1>5. PICK came : came = reportJob[r].came
    OBVIOUS
  <1>6. PICK ever : ever = placed
    OBVIOUS
  <1>7. PICK Paid : Paid = Rep!PlacedIn({"paid"})
    OBVIOUS
  <1>8. PICK all : all = summed \cup came
    OBVIOUS
  <1>9. /\ IsFiniteSet(ever) /\ ever \in SUBSET Orders
        /\ summed \in SUBSET ever /\ came \in SUBSET ever
    BY <1>3, <1>4, <1>5, <1>6 DEF ReportInv, Tallied, Rep!TypeOK
  <1>10. /\ IsFiniteSet(summed) /\ summed \in SUBSET Orders
         /\ IsFiniteSet(came) /\ came \in SUBSET Orders
    BY <1>9, FS_Subset
  <1>11. IsFiniteSet(all) /\ all \in SUBSET Orders
    BY <1>8, <1>10, FS_Union
  <1>12. IsFiniteSet(Paid) /\ Paid \in SUBSET all /\ Paid \in SUBSET Orders
    <2>1. Paid \subseteq Earning
      BY <1>7 DEF Earning, Rep!PlacedIn, Rep!Statuses
    <2>2. QED
      BY <1>4, <1>5, <1>7, <1>8, <2>1, PlacedAreFinite
  <1>13. Rep!OverAll(months) = Rep!Sum(Paid)
    BY <1>1, <1>7, <1>12, EarnedAddsUp DEF ReportInv
  <1>14. /\ Gain(Paid) \in Nat /\ Loss(Paid) \in Nat /\ Rep!Sum(Paid) = Gain(Paid) - Loss(Paid)
         /\ Gain(summed) \in Nat /\ Loss(summed) \in Nat
         /\ Rep!Sum(summed) = Gain(summed) - Loss(summed)
         /\ Gain(came) \in Nat
    BY <1>10, <1>12, SumIsGain
  <1>15. Gain(all) \in Nat /\ Gain(Paid) <= Gain(all)
    BY <1>11, <1>12, GainGrows
  <1>16. Gain(all) <= Gain(summed) + Gain(came)
    BY <1>8, <1>10, GainJoins
  <1>17. Loss(ever) \in Nat /\ Loss(summed) <= Loss(ever)
    BY <1>9, GainGrows
  <1>18. /\ Rep!OverAll(months) \in Int
         /\ Rep!OverAll(months) <= reportJob[r].revenue + Gain(came) + Loss(ever)
    BY <1>4, <1>13, <1>14, <1>15, <1>16, <1>17
  <1>19. months \in [Months -> Int]
    <2>1. ASSUME NEW m \in Months
          PROVE  Rep!Earned(m) \in Int
      <3>1. PICK those : those = {o \in Paid : order[o].month = m}
        OBVIOUS
      <3>2. IsFiniteSet(those) /\ those \in SUBSET Orders
        BY <1>12, <3>1, FS_Subset
      <3>3. Rep!Sum(those) \in Int
        BY <3>2, SumIsGain
      <3>4. QED
        BY <1>7, <3>1, <3>3 DEF Rep!Earned
    <2>2. QED
      BY <1>1, <2>1
  <1>20. /\ reportJob'[r] \in Answers /\ reportJob'[r].months = months
         /\ reportJob'[r].came = came /\ reportJob'[r].revenue = reportJob[r].revenue
    BY <1>2, <1>3, <1>5, <1>19 DEF Answers
  <1>21. /\ (reportJob[r] \in Answers)'
         /\ (reportJob[r].came \subseteq placed)'
    BY <1>2, <1>6, <1>9, <1>20 DEF Answers
  <1>22. (Rep!OverAll(reportJob[r].months) \in Int)'
    BY <1>18, <1>20
  <1>23. (Rep!OverAll(reportJob[r].months) <=
            reportJob[r].revenue + Gain(reportJob[r].came) + Loss(placed))'
    BY <1>2, <1>6, <1>18, <1>20
  <1>24. AnswerInv(r)'
    BY <1>21, <1>22, <1>23 DEF AnswerInv
  <1>25. QED
    BY <1>2, <1>24 DEF StatsInv, CountInv

LEMMA DownloadsAsked ==
  ASSUME ReportInv, NEW r \in Reporters, Rep!GetDownloadStats(r)
  PROVE  StatsInv(r)' /\ AnswerInv(r)' /\ CountInv(r)'
  <1>1. /\ UNCHANGED <<order, placed, download>>
        /\ reportPc'[r] = "counting"
        /\ reportJob'[r] = Rep!Asked({"total", "months", "countries"}, Rep!Logged)
    BY DEF Rep!GetDownloadStats, Rep!Go, Rep!rowVars, ReportInv, Tallied, Rep!TypeOK
  <1>2. Rep!Logged \in SUBSET LogRows /\ Rep!Logged' = Rep!Logged
    BY <1>1 DEF Rep!Logged
  <1>3. reportJob'[r] \in Answers
    BY <1>1, <1>2, AskedIsAnswer
  <1>4. /\ reportJob'[r].old = Rep!Logged
        /\ reportJob'[r].todo = {"total", "months", "countries"}
    BY <1>1 DEF Rep!Asked
  <1>5. CountInv(r)'
    BY <1>1, <1>2, <1>3, <1>4 DEF CountInv, Answers
  <1>6. QED
    BY <1>1, <1>5 DEF AnswerInv, StatsInv

LEMMA PartCounted ==
  ASSUME ReportInv, NEW r \in Reporters, reportPc[r] = "counting",
         NEW query, NEW j \in Answers, Rep!Part(r, query, "summed", j),
         j.old = reportJob[r].old,
         NEW left, left = reportJob[r].todo \ {query},
         "total" \notin left => UpToLogged(j.total, Cardinality(j.old)),
         "months" \notin left => UpToLogged(Rep!OverAll(j.months), Cardinality(j.old)),
         NEW known, known = {d \in j.old : download[d].country # None},
         "countries" \notin left => UpToLogged(Rep!OverAll(j.countries), Cardinality(known))
  PROVE  StatsInv(r)' /\ AnswerInv(r)' /\ CountInv(r)'
  <1>1. /\ UNCHANGED <<order, placed, download>>
        /\ reportPc'[r] = IF left = {} THEN "summed" ELSE "counting"
        /\ reportJob'[r] = [j EXCEPT !.todo = left]
    BY DEF Rep!Part, Rep!Go, Rep!rowVars, ReportInv, Tallied, Rep!TypeOK
  <1>2. reportJob[r] \in Answers /\ reportJob[r].old \subseteq Rep!Logged
    BY DEF ReportInv, CountInv
  <1>3. /\ reportJob'[r] \in Answers
        /\ reportJob'[r].old = j.old /\ reportJob'[r].todo = left
        /\ reportJob'[r].total = j.total
        /\ reportJob'[r].months = j.months /\ reportJob'[r].countries = j.countries
    BY <1>1, <1>2 DEF Answers
  <1>4. Rep!Logged' = Rep!Logged
    BY <1>1 DEF Rep!Logged
  <1>5. (reportJob[r] \in Answers /\ reportJob[r].old \subseteq Rep!Logged)'
    BY <1>2, <1>3, <1>4 DEF Answers
  <1>6. ASSUME NEW count, NEW n
        PROVE  UpToLogged(count, n) => UpToLogged(count, n)'
    BY <1>4 DEF UpToLogged
  <1>7. ("total" \notin reportJob[r].todo =>
           UpToLogged(reportJob[r].total, Cardinality(reportJob[r].old)))'
    BY <1>3, <1>6
  <1>8. ("months" \notin reportJob[r].todo =>
           UpToLogged(Rep!OverAll(reportJob[r].months), Cardinality(reportJob[r].old)))'
    BY <1>3, <1>6
  <1>9. ("countries" \notin reportJob[r].todo =>
           UpToLogged(Rep!OverAll(reportJob[r].countries),
                      Cardinality({d \in reportJob[r].old : download[d].country # None})))'
    BY <1>1, <1>3, <1>6
  <1>10. CountInv(r)'
    BY <1>1, <1>3, <1>5, <1>7, <1>8, <1>9 DEF CountInv
  <1>11. QED
    BY <1>1, <1>10 DEF StatsInv, AnswerInv

LEMMA DownloadsCounted ==
  ASSUME ReportInv, NEW r \in Reporters, Rep!CountDownloads(r)
  PROVE  StatsInv(r)' /\ AnswerInv(r)' /\ CountInv(r)'
  <1>1. reportPc[r] = "counting"
    BY DEF Rep!CountDownloads, Rep!At
  <1>2. CountInv(r)
    BY DEF ReportInv
  <1>3. PICK j : j = reportJob[r]
    OBVIOUS
  <1>4. j \in Answers /\ j.old \subseteq Rep!Logged
    BY <1>1, <1>2, <1>3 DEF CountInv
  <1>5. PICK known : known = {d \in j.old : download[d].country # None}
    OBVIOUS
  <1>6. /\ "total" \notin j.todo => UpToLogged(j.total, Cardinality(j.old))
        /\ "months" \notin j.todo => UpToLogged(Rep!OverAll(j.months), Cardinality(j.old))
        /\ "countries" \notin j.todo => UpToLogged(Rep!OverAll(j.countries), Cardinality(known))
    BY <1>1, <1>2, <1>3, <1>5 DEF CountInv
  <1>7. PICK L : L = Rep!Logged
    OBVIOUS
  <1>8. PICK placeable : placeable = {d \in L : download[d].country \in Countries}
    OBVIOUS
  <1>9. IsFiniteSet(L) /\ j.old \in SUBSET L /\ placeable \in SUBSET L /\ known \in SUBSET placeable
    BY <1>4, <1>5, <1>7, <1>8 DEF ReportInv, Tallied, Rep!Logged, Rep!TypeOK
  <1>10. /\ Cardinality(L) \in Nat /\ Cardinality(j.old) \in Nat
         /\ Cardinality(placeable) \in Nat /\ Cardinality(known) \in Nat
         /\ Cardinality(j.old) <= Cardinality(L) /\ Cardinality(placeable) <= Cardinality(L)
         /\ Cardinality(known) <= Cardinality(placeable)
    <2>1. IsFiniteSet(placeable) /\ IsFiniteSet(j.old) /\ IsFiniteSet(known)
      BY <1>9, FS_Subset
    <2>2. QED
      BY <1>9, <2>1, FS_Subset, FS_CardinalityType
  <1>11. /\ UpToLogged(Cardinality(L), Cardinality(j.old))
         /\ UpToLogged(Cardinality(placeable), Cardinality(known))
    BY <1>7, <1>10 DEF UpToLogged
  <1>12. \A T \in SUBSET L : Rep!Cardinality(T) \in Nat
    BY <1>9, ReportCardinality, FS_Subset, FS_CardinalityType
  <1>13. CASE Rep!Part(r, "total", "summed", [j EXCEPT !.total = Rep!Cardinality(Rep!Logged)])
    <2>1. PICK k : k = [j EXCEPT !.total = Rep!Cardinality(Rep!Logged)]
      OBVIOUS
    <2>2. k \in Answers /\ k.old = j.old /\ k.total = Cardinality(L)
          /\ k.months = j.months /\ k.countries = j.countries
      BY <1>4, <1>7, <1>12, <2>1, ReportCardinality DEF Answers
    <2>3. PICK left : left = j.todo \ {"total"}
      OBVIOUS
    <2>4. Rep!Part(r, "total", "summed", k)
      BY <1>13, <2>1
    <2>5. k.old = reportJob[r].old /\ left = reportJob[r].todo \ {"total"}
      BY <1>3, <2>2, <2>3
    <2>6. /\ "total" \notin left => UpToLogged(k.total, Cardinality(k.old))
          /\ "months" \notin left => UpToLogged(Rep!OverAll(k.months), Cardinality(k.old))
          /\ "countries" \notin left => UpToLogged(Rep!OverAll(k.countries), Cardinality(known))
      BY <1>6, <1>11, <2>2, <2>3
    <2>7. known = {d \in k.old : download[d].country # None}
      BY <1>5, <2>2
    <2>8. QED
      BY <1>1, <2>2, <2>4, <2>5, <2>6, <2>7, PartCounted
  <1>14. CASE Rep!Part(r, "months", "summed",
                       [j EXCEPT !.months = [m \in Months |-> Rep!PerMonth(m)]])
    <2>1. PICK months : months = [m \in Months |-> Rep!PerMonth(m)]
      OBVIOUS
    <2>2. \A m \in Months : Rep!PerMonth(m) \in Nat
      BY <1>7, <1>12 DEF Rep!PerMonth
    <2>3. Rep!OverAll(months) = Cardinality(L)
      BY <1>7, <1>9, <2>1, LoggedAddUp DEF ReportInv
    <2>4. PICK k : k = [j EXCEPT !.months = months]
      OBVIOUS
    <2>5. k \in Answers /\ k.old = j.old /\ k.total = j.total
          /\ k.months = months /\ k.countries = j.countries
      BY <1>4, <2>1, <2>2, <2>4 DEF Answers
    <2>6. PICK left : left = j.todo \ {"months"}
      OBVIOUS
    <2>7. Rep!Part(r, "months", "summed", k)
      BY <1>14, <2>4, <2>1
    <2>8. k.old = reportJob[r].old /\ left = reportJob[r].todo \ {"months"}
      BY <1>3, <2>5, <2>6
    <2>9. /\ "total" \notin left => UpToLogged(k.total, Cardinality(k.old))
          /\ "months" \notin left => UpToLogged(Rep!OverAll(k.months), Cardinality(k.old))
          /\ "countries" \notin left => UpToLogged(Rep!OverAll(k.countries), Cardinality(known))
      BY <1>6, <1>11, <2>5, <2>3, <2>6
    <2>10. known = {d \in k.old : download[d].country # None}
      BY <1>5, <2>5
    <2>11. QED
      BY <1>1, <2>5, <2>7, <2>8, <2>9, <2>10, PartCounted
  <1>15. CASE Rep!Part(r, "countries", "summed",
                       [j EXCEPT !.countries = [c \in Countries |-> Rep!PerCountry(c)]])
    <2>1. PICK countries : countries = [c \in Countries |-> Rep!PerCountry(c)]
      OBVIOUS
    <2>2. \A c \in Countries : Rep!PerCountry(c) \in Nat
      BY <1>7, <1>12 DEF Rep!PerCountry
    <2>3. Rep!OverAll(countries) = Cardinality(placeable)
      BY <1>7, <1>8, <1>9, <2>1, LoggedAddUp DEF ReportInv
    <2>4. PICK k : k = [j EXCEPT !.countries = countries]
      OBVIOUS
    <2>5. k \in Answers /\ k.old = j.old /\ k.total = j.total
          /\ k.months = j.months /\ k.countries = countries
      BY <1>4, <2>1, <2>2, <2>4 DEF Answers
    <2>6. PICK left : left = j.todo \ {"countries"}
      OBVIOUS
    <2>7. Rep!Part(r, "countries", "summed", k)
      BY <1>15, <2>4, <2>1
    <2>8. k.old = reportJob[r].old /\ left = reportJob[r].todo \ {"countries"}
      BY <1>3, <2>5, <2>6
    <2>9. /\ "total" \notin left => UpToLogged(k.total, Cardinality(k.old))
          /\ "months" \notin left => UpToLogged(Rep!OverAll(k.months), Cardinality(k.old))
          /\ "countries" \notin left => UpToLogged(Rep!OverAll(k.countries), Cardinality(known))
      BY <1>6, <1>11, <2>5, <2>3, <2>6
    <2>10. known = {d \in k.old : download[d].country # None}
      BY <1>5, <2>5
    <2>11. QED
      BY <1>1, <2>5, <2>7, <2>8, <2>9, <2>10, PartCounted
  <1>16. QED
    BY <1>3, <1>13, <1>14, <1>15 DEF Rep!CountDownloads

LEMMA ReportKept == ReportInv /\ [Rep!Next]_(Rep!vars) => ReportInv'
  <1> SUFFICES ASSUME ReportInv, [Rep!Next]_(Rep!vars)
               PROVE  ReportInv'
    OBVIOUS
  <1>1. Rep!TypeOK'
    BY ReportsTyped DEF ReportInv
  <1>2. CASE \/ \E o \in Orders, m \in Months : Rep!Place(o, m)
             \/ \E o \in Orders, s \in Rep!Statuses : Rep!Move(o, s)
             \/ \E o \in Orders : Rep!DeleteOrder(o)
             \/ \E d \in LogRows, m \in Months, c \in Countries \cup {None} :
                  Rep!LogDownload(d, m, c)
    <2>1. Tallied' /\ \E os \in SUBSET Orders : Written(os)
      BY <1>1, <1>2, PlaceWrites, MoveWrites, DeleteWrites, LogWrites
    <2>2. \A r \in Reporters : StatsInv(r)' /\ AnswerInv(r)' /\ CountInv(r)'
      BY <1>1, <2>1, StatsKept, AnswerKept, CountKept
    <2>3. QED
      BY <1>1, <2>1, <2>2 DEF ReportInv
  <1>3. ASSUME NEW r \in Reporters,
               \/ Rep!GetStats(r) \/ Rep!ComputeStats(r) \/ Rep!GetRevenueByMonth(r)
               \/ Rep!GetDownloadStats(r) \/ Rep!CountDownloads(r) \/ Rep!Respond(r)
        PROVE  ReportInv'
    <2>1. /\ Tallied'
          /\ \A other \in Reporters \ {r} :
               StatsInv(other)' /\ AnswerInv(other)' /\ CountInv(other)'
      BY <1>3, ReadersOnlyRead
    <2>2. ASSUME Rep!Respond(r)
          PROVE  StatsInv(r)' /\ AnswerInv(r)' /\ CountInv(r)'
      <3>1. reportPc'[r] = "idle"
        BY <2>2 DEF Rep!Respond, Rep!Leave, Rep!Go, ReportInv, Rep!TypeOK
      <3>2. QED
        BY <3>1 DEF StatsInv, AnswerInv, CountInv
    <2>3. StatsInv(r)' /\ AnswerInv(r)' /\ CountInv(r)'
      BY <1>3, <2>2, StatsAsked, StatsComputed, MonthsTotalled, DownloadsAsked, DownloadsCounted
    <2>4. QED
      BY <1>1, <2>1, <2>3 DEF ReportInv
  <1>4. CASE UNCHANGED Rep!vars
    <2>1. UNCHANGED <<order, placed, download, reportPc, reportJob>>
      BY <1>4 DEF Rep!vars, Rep!rowVars, Rep!slotVars
    <2>2. Written({})
      BY <2>1, NoneComes DEF Written, Earning, Rep!PlacedIn, Rep!Logged
    <2>3. Tallied'
      BY <2>1 DEF ReportInv, Tallied, Rep!Logged
    <2>4. \A r \in Reporters : StatsInv(r)' /\ AnswerInv(r)' /\ CountInv(r)'
      BY <1>1, <2>2, <2>3, StatsKept, AnswerKept, CountKept
    <2>5. QED
      BY <1>1, <2>3, <2>4 DEF ReportInv
  <1>5. QED
    BY <1>2, <1>3, <1>4 DEF Rep!Next

LEMMA ReportInit == Rep!Init => ReportInv
  <1> SUFFICES ASSUME Rep!Init
               PROVE  ReportInv
    OBVIOUS
  <1>1. /\ reportPc = [r \in Reporters |-> "idle"] /\ reportJob = [r \in Reporters |-> None]
        /\ order = [o \in Orders |-> None] /\ placed = {}
        /\ download = [d \in LogRows |-> None]
    BY DEF Rep!Init, Rep!AllIdle
  <1>2. Rep!TypeOK
    BY <1>1 DEF Rep!TypeOK
  <1>3. Rep!Logged = {}
    BY <1>1 DEF Rep!Logged
  <1>4. Tallied
    BY <1>1, <1>3, FS_EmptySet DEF Tallied
  <1>5. QED
    BY <1>1, <1>2, <1>4 DEF ReportInv, StatsInv, AnswerInv, CountInv

LEMMA ReportInvAgrees == ReportInv => Rep!PartsAgree
  <1> SUFFICES ASSUME ReportInv, NEW r \in Reporters
               PROVE  /\ reportPc[r] = "answered" =>
                            Rep!OverAll(reportJob[r].months) <=
                              reportJob[r].revenue + Rep!Leeway(reportJob[r].came)
                      /\ reportPc[r] = "summed" =>
                            LET old == Cardinality(reportJob[r].old)
                                now == Cardinality(Rep!Logged)
                                known == Cardinality({d \in reportJob[r].old :
                                                        download[d].country # None})
                            IN  /\ reportJob[r].total \in old..now
                                /\ Rep!OverAll(reportJob[r].months) \in old..now
                                /\ Rep!OverAll(reportJob[r].countries) \in known..now
    BY ReportCardinality DEF Rep!PartsAgree, Rep!At
  <1>1. AnswerInv(r) /\ CountInv(r)
    BY DEF ReportInv
  <1>2. CASE reportPc[r] = "summed"
    <2>1. PICK old : old = reportJob[r].old
      OBVIOUS
    <2>2. PICK known : known = {d \in old : download[d].country # None}
      OBVIOUS
    <2>3. old \in SUBSET Rep!Logged /\ known \in SUBSET Rep!Logged /\ IsFiniteSet(Rep!Logged)
      BY <1>1, <1>2, <2>1, <2>2 DEF CountInv, ReportInv, Tallied
    <2>4. IsFiniteSet(old) /\ IsFiniteSet(known)
      BY <2>3, FS_Subset
    <2>5. /\ Cardinality(old) \in Nat /\ Cardinality(known) \in Nat
          /\ Cardinality(Rep!Logged) \in Nat
      BY <2>3, <2>4, FS_CardinalityType
    <2>6. /\ UpToLogged(reportJob[r].total, Cardinality(old))
          /\ UpToLogged(Rep!OverAll(reportJob[r].months), Cardinality(old))
          /\ UpToLogged(Rep!OverAll(reportJob[r].countries), Cardinality(known))
      BY <1>1, <1>2, <2>1, <2>2 DEF CountInv
    <2>7. QED
      BY <1>2, <2>1, <2>2, <2>5, <2>6 DEF UpToLogged
  <1>3. CASE reportPc[r] = "answered"
    <2>1. PICK came : came = reportJob[r].came
      OBVIOUS
    <2>2. IsFiniteSet(placed) /\ placed \in SUBSET Orders /\ came \in SUBSET placed
      BY <1>1, <1>3, <2>1 DEF AnswerInv, ReportInv, Tallied, Rep!TypeOK
    <2>3. Rep!Leeway(came) = Gain(came) + Loss(placed)
      BY <2>2, LeewayIs
    <2>4. Gain(came) \in Nat /\ Loss(placed) \in Nat
      BY <2>2, GainGrows
    <2>5. /\ reportJob[r].revenue \in Int /\ Rep!OverAll(reportJob[r].months) \in Int
          /\ Rep!OverAll(reportJob[r].months) <=
               reportJob[r].revenue + Gain(came) + Loss(placed)
      BY <1>1, <1>3, <2>1 DEF AnswerInv, Answers
    <2>6. QED
      BY <1>3, <2>1, <2>3, <2>4, <2>5
  <1>4. QED
    BY <1>2, <1>3

(* PartsAgree: the parts of a report are read one after the other while orders are
   placed, paid, refunded, taken out of "refunded" and deleted and downloads are
   logged; still no more is earned by month than in all but for what came since
   and for totals below zero, whatever the totals are, and each count is of every
   row there was and of none there is not. *)
THEOREM ReportsAgree == Spec => []PartsAgree
  <1> DEFINE Inv == service = "reports" => ReportInv
  <1>1. Init => Inv
    BY ReportInit DEF Init
  <1>2. Inv /\ [Next]_vars => Inv'
    BY ReportKept, ReportStep, ServiceStays
  <1>3. Inv => PartsAgree
    BY ReportInvAgrees DEF PartsAgree
  <1>4. QED
    BY <1>1, <1>2, <1>3, PTL DEF Spec

-----------------------------------------------------------------------------
(* The types of all services *)

(* TypeOK: every state of every service is well typed, for any number of
   requests, rows and values, whichever of its handlers overlap and fail. *)
THEOREM ServicesAreTyped == Spec => []TypeOK
  <1> DEFINE Account ==
        /\ service = "lockout" => Lock!TypeOK
        /\ service = "access" => Acc!TypeOK
        /\ service = "accounts" => Users!TypeOK
  <1> DEFINE Buyer ==
        /\ service = "carts" => Cart!TypeOK
        /\ service = "tickets" => Tick!TypeOK
        /\ service = "referrals" => Ref!TypeOK
        /\ service = "bundles" => Bun!TypeOK
  <1> DEFINE Lists ==
        /\ service = "pages" => Walk!TypeOK
        /\ service = "reports" => Rep!TypeOK
        /\ service = "catalog" => Cat!TypeOK
  <1> DEFINE Other ==
        /\ service = "records" => Rec!TypeOK
        /\ service = "rooms" => Room!TypeOK
        /\ service = "backups" => Back!TypeOK
  <1>1. Spec => []Account
    BY LockIsTyped, AccessIsTyped, AccountsAreTyped, PTL
  <1>2. Spec => []Buyer
    BY CartIsTyped, TicketsAreTyped, ReferralsAreTyped, BundlesAreTyped, PTL
  <1>3. Spec => []Lists
    BY PagesAreTyped, ReportsAreTyped, CatalogIsTyped, PTL
  <1>4. Spec => []Other
    BY RecordsAreTyped, RoomsAreTyped, BackupsAreTyped, PTL
  <1>5. Account /\ Buyer /\ Lists /\ Other => TypeOK
    BY DEF TypeOK
  <1> HIDE DEF Account, Buyer, Lists, Other
  <1>6. QED
    BY <1>1, <1>2, <1>3, <1>4, <1>5, PTL
=============================================================================
