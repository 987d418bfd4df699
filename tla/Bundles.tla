--------------------------------- MODULE Bundles ---------------------------------
(***************************************************************************)
(* Bundles and the products in them, by the two services that edit them.   *)
(*                                                                         *)
(* An update deletes the products of the bundle, inserts the new ones and  *)
(* then updates the bundle, in three statements.  BundleService looks for  *)
(* the slug first and the admin service does not; the table refuses a slug *)
(* that is taken, a second row of a product in a bundle and a row of no    *)
(* product.  The ids a request names are not looked at: there may be none, *)
(* one twice, or one of no product.                                        *)
(***************************************************************************)
EXTENDS Slots

CONSTANTS Ids, Slugs, Products

VARIABLES
  slug,        \* slug[b]: the slug of bundle b, or None
  born,        \* ids that were ever used
  products,    \* products[b]: the products of bundle b
  stock,       \* the products there are
  emptied      \* bundles left without products for a reason (history)

rowVars == <<slug, born, products, stock, emptied>>
vars == <<rowVars, slotVars>>

Kept == None   \* a field the request leaves out

(* What a request asks for: the products named, and whether that is all, with
   no id twice and none of no product. *)
Lists == [named : SUBSET Products, proper : BOOLEAN]

Insertable(list) == list.proper /\ list.named \subseteq stock

Init ==
  /\ slug = [b \in Ids |-> None] /\ born = {}
  /\ products = [b \in Ids |-> {}]
  /\ stock = Products /\ emptied = {}
  /\ AllIdle

(* name and list: the new slug and products, or Kept *)
Job(id, name, list) == [id |-> id, name |-> name, list |-> list]

Taken(name, b) == \E c \in Ids \ {b} : slug[c] = name

-----------------------------------------------------------------------------
(* create: findUnique by slug and create, or create alone *)

Create(r, b, name, list) ==
  /\ Admit(r)
  /\ b \notin born
  /\ \A q \in Requests : Active(q) => job[q].id # b
  /\ IF Taken(name, b) THEN Leave(r) ELSE Go(r, "creating", Job(b, name, list))
  /\ UNCHANGED rowVars

AdminCreate(r, b, name, list) ==
  /\ Admit(r)
  /\ b \notin born
  /\ \A q \in Requests : Active(q) => job[q].id # b
  /\ Go(r, "creating", Job(b, name, list))
  /\ UNCHANGED rowVars

Holding(b, named) ==
  /\ products' = [products EXCEPT ![b] = named]
  /\ emptied' = IF named = {} THEN emptied \cup {b} ELSE emptied \ {b}

(* The bundle and its products are inserted in one statement. *)
Insert(r) ==
  /\ At(r, "creating")
  /\ LET b == job[r].id
         list == job[r].list
     IN  IF Taken(job[r].name, b) \/ ~Insertable(list) THEN UNCHANGED rowVars
         ELSE /\ born' = born \cup {b}
              /\ slug' = [slug EXCEPT ![b] = job[r].name]
              /\ Holding(b, list.named)
              /\ UNCHANGED stock
  /\ Leave(r)

-----------------------------------------------------------------------------
(* update *)

Replace(r, j) == Go(r, IF j.list = Kept THEN "renaming" ELSE "emptying", j)

Update(r, b, name, list) ==
  /\ Admit(r)
  /\ LET j == Job(b, name, list)
     IN  CASE slug[b] = None -> Leave(r)
           [] slug[b] # None /\ name # Kept -> Go(r, "checking", j)
           [] slug[b] # None /\ name = Kept -> Replace(r, j)
  /\ UNCHANGED rowVars

CheckSlug(r) ==
  /\ At(r, "checking")
  /\ IF Taken(job[r].name, job[r].id) THEN Leave(r) ELSE Replace(r, job[r])
  /\ UNCHANGED rowVars

AdminUpdate(r, b, name, list) ==
  /\ Admit(r)
  /\ IF slug[b] = None THEN Leave(r) ELSE Replace(r, Job(b, name, list))
  /\ UNCHANGED rowVars

(* deleteMany *)
Empty(r) ==
  /\ At(r, "emptying")
  /\ products' = [products EXCEPT ![job[r].id] = {}]
  /\ emptied' = emptied \ {job[r].id}
  /\ Step(r, "filling")
  /\ UNCHANGED <<slug, born, stock>>

(* The handler ends, or dies, and leaves the bundle as it is. *)
GiveUp(b) ==
  /\ emptied' = IF products[b] = {} THEN emptied \cup {b} ELSE emptied
  /\ UNCHANGED products

(* Some of the products are back, or the bundle is gone. *)
Clash(b, list) ==
  products[b] \cap list.named # {} \/ (slug[b] = None /\ list.named # {})

(* Mutant: the insert is refused unless the bundle is empty, as if its products
   were locked, and the products found there are taken out again. *)
FillOrEmpty(r) ==
  /\ At(r, "filling")
  /\ LET b == job[r].id
         list == job[r].list
     IN  CASE ~Insertable(list) -> GiveUp(b) /\ Leave(r)
           [] Insertable(list) /\ products[b] # {} ->
                /\ products' = [products EXCEPT ![b] = {}]
                /\ UNCHANGED emptied
                /\ Leave(r)
           [] OTHER -> Holding(b, list.named) /\ Step(r, "renaming")
  /\ UNCHANGED <<slug, born, stock>>

(* createMany inserts all or nothing. *)
Fill(r) ==
  /\ At(r, "filling")
  /\ LET b == job[r].id
         list == job[r].list
     IN  CASE ~Insertable(list) -> GiveUp(b) /\ Leave(r)
           [] Insertable(list) /\ Clash(b, list) ->
                UNCHANGED <<products, emptied>> /\ Leave(r)
           [] Insertable(list) /\ ~Clash(b, list) ->
                Holding(b, products[b] \cup list.named) /\ Step(r, "renaming")
  /\ UNCHANGED <<slug, born, stock>>

(* bundle.update, the last statement *)
Rename(r) ==
  /\ At(r, "renaming")
  /\ LET b == job[r].id
         name == job[r].name
     IN  slug' = IF slug[b] = None \/ name = Kept \/ Taken(name, b) THEN slug
                 ELSE [slug EXCEPT ![b] = name]
  /\ Leave(r)
  /\ UNCHANGED <<born, products, stock, emptied>>

-----------------------------------------------------------------------------
(* remove and deleteBundle: the products go with the bundle *)

Remove(r, b) ==
  /\ Admit(r)
  /\ IF slug[b] = None THEN Leave(r) ELSE Go(r, "removing", Job(b, Kept, Kept))
  /\ UNCHANGED rowVars

Delete(r) ==
  /\ At(r, "removing")
  /\ LET b == job[r].id
     IN  /\ slug' = [slug EXCEPT ![b] = None]
         /\ products' = [products EXCEPT ![b] = {}]
  /\ Leave(r)
  /\ UNCHANGED <<born, stock, emptied>>

(* A product that is deleted goes from every bundle. *)
DeleteProduct(p) ==
  /\ Open
  /\ stock' = stock \ {p}
  /\ products' = [b \in Ids |-> products[b] \ {p}]
  /\ emptied' = emptied \cup {b \in Ids : products[b] = {p}}
  /\ UNCHANGED <<slug, born, slotVars>>

Fail(r) ==
  /\ Stop(r)
  /\ IF At(r, "filling") THEN GiveUp(job[r].id) ELSE UNCHANGED <<products, emptied>>
  /\ UNCHANGED <<slug, born, stock>>

Creations(r, b) ==
  \E name \in Slugs, list \in Lists :
    Create(r, b, name, list) \/ AdminCreate(r, b, name, list)

Updates(r, b) ==
  \E name \in Slugs \cup {Kept}, list \in Lists \cup {Kept} :
    Update(r, b, name, list) \/ AdminUpdate(r, b, name, list)

Next ==
  \/ \E r \in Requests :
       \/ \E b \in Ids : Creations(r, b) \/ Updates(r, b) \/ Remove(r, b)
       \/ Insert(r) \/ CheckSlug(r) \/ Empty(r) \/ Fill(r) \/ Rename(r) \/ Delete(r)
       \/ Fail(r)
  \/ \E p \in Products : DeleteProduct(p)

Spec == Init /\ [][Next]_vars

-----------------------------------------------------------------------------
(* Properties *)

TypeOK ==
  /\ slug \in [Ids -> Slugs \cup {None}] /\ born \in SUBSET Ids
  /\ products \in [Ids -> SUBSET Products]
  /\ stock \in SUBSET Products /\ emptied \in SUBSET Ids
  /\ pc \in [Requests -> {"idle", "creating", "checking", "emptying", "filling",
                          "renaming", "removing"}]

(* Overlapping updates empty a bundle twice, and one of them may then fail to
   fill it, but only because the other has filled it.  A bundle that is without
   products between requests was left so by one request alone: by a list that
   is empty or cannot be inserted, by a handler that failed between the two
   statements, or when its last product was deleted. *)
EmptyForAReason ==
  Quiet => \A b \in Ids : slug[b] # None /\ products[b] = {} => b \in emptied
=============================================================================
