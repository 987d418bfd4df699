---------------------------------- MODULE Pages ----------------------------------
(***************************************************************************)
(* Walking through a list page by page, newest rows first.                 *)
(*                                                                         *)
(* Each page is two statements, the rows and the total.  Two of the lists  *)
(* count first, three ask for both at once.  Between the pages, and with   *)
(* overlap between the statements, rows are added at the front or deleted. *)
(***************************************************************************)
EXTENDS Slots, Sequences, FiniteSets, SequencesExt

CONSTANTS
  LIMIT,       \* rows of a page
  MAX_ROWS     \* bound on the rows ever made

VARIABLES
  table,       \* ids of the rows, newest first
  lastId,
  page,        \* the page to ask for next, 0 when nobody walks
  totalPages,  \* of the last answer
  seen,        \* rows on the pages of this walk
  start,       \* rows that were there when it began
  drift        \* deletions since, and rows added inside a page (history)

walk == <<page, totalPages, seen, start>>
vars == <<table, lastId, walk, drift, slotVars>>

Init ==
  /\ table = <<>> /\ lastId = 0
  /\ page = 0 /\ totalPages = 0 /\ seen = {} /\ start = {} /\ drift = 0
  /\ AllIdle

Walking == page > 0
Paging == \E r \in Requests : Active(r)

Least(a, b) == IF a < b THEN a ELSE b

(* Mutant: a page further is skipped. *)
OffsetNext(p) == p * LIMIT

Offset(p) == (p - 1) * LIMIT

Rows(p) == ToSet(SubSeq(table, Offset(p) + 1, Least(Offset(p) + LIMIT, Len(table))))

(* Math.ceil *)
PagesFor(n) == (n + LIMIT - 1) \div LIMIT

Job(rows, total) == [rows |-> rows, total |-> total]

Begin ==
  /\ Quiet /\ ~Walking
  /\ page' = 1 /\ totalPages' = 1
  /\ seen' = {} /\ start' = ToSet(table) /\ drift' = 0
  /\ UNCHANGED <<table, lastId, slotVars>>

Ask(r) == Quiet /\ Walking /\ page <= totalPages

CountFirst(r) ==
  /\ Ask(r)
  /\ Go(r, "fetching", Job({}, Len(table)))
  /\ UNCHANGED <<table, lastId, walk, drift>>

(* Of two statements sent at once, either may run first. *)
RowsFirst(r) ==
  /\ Ask(r)
  /\ Go(r, "counting", Job(Rows(page), 0))
  /\ UNCHANGED <<table, lastId, walk, drift>>

ListUsers(r) == CountFirst(r)
ListContacts(r) == CountFirst(r)
GetOrders(r) == CountFirst(r) \/ RowsFirst(r)
GetAuditLogs(r) == CountFirst(r) \/ RowsFirst(r)
AdminListReferrals(r) == CountFirst(r) \/ RowsFirst(r)

Answer(r, rows, total) ==
  /\ seen' = seen \cup rows
  /\ totalPages' = PagesFor(total)
  /\ page' = page + 1
  /\ Leave(r)
  /\ UNCHANGED <<table, lastId, start, drift>>

Fetch(r) == At(r, "fetching") /\ Answer(r, Rows(page), job[r].total)
Count(r) == At(r, "counting") /\ Answer(r, job[r].rows, Len(table))

End ==
  /\ Quiet /\ Walking /\ page > totalPages
  /\ page' = 0 /\ totalPages' = 0 /\ seen' = {} /\ start' = {} /\ drift' = 0
  /\ UNCHANGED <<table, lastId, slotVars>>

(* The writers, by whatever handler *)

Add ==
  /\ Open
  /\ lastId < MAX_ROWS
  /\ lastId' = lastId + 1
  /\ table' = <<lastId'>> \o table
  /\ drift' = IF Paging THEN drift + 1 ELSE drift
  /\ UNCHANGED <<walk, slotVars>>

Delete(i) ==
  /\ Open
  /\ table' = RemoveAt(table, i)
  /\ drift' = IF Walking THEN drift + 1 ELSE drift
  /\ UNCHANGED <<lastId, walk, slotVars>>

Next ==
  \/ Begin \/ End \/ Add
  \/ \E r \in Requests : \/ ListUsers(r) \/ ListContacts(r) \/ GetOrders(r)
                         \/ GetAuditLogs(r) \/ AdminListReferrals(r) \/ Fetch(r) \/ Count(r)
  \/ \E i \in 1..Len(table) : Delete(i)

Spec == Init /\ [][Next]_vars

-----------------------------------------------------------------------------
(* Properties *)

TypeOK ==
  /\ ToSet(table) \subseteq 1..lastId /\ lastId \in 0..MAX_ROWS
  /\ page \in Nat /\ totalPages \in Nat /\ drift \in Nat
  /\ seen \subseteq 1..lastId /\ start \subseteq 1..lastId
  /\ pc \in [Requests -> {"idle", "fetching", "counting"}]

(* A walk to the last page misses no row that was there when it began and is
   still there, but for one for each row that was deleted meanwhile, or added
   between the two statements of a page: rows added between pages only show an
   older row twice. *)
MissesAreExplained ==
  Quiet /\ Walking /\ page > totalPages =>
    Cardinality((start \cap ToSet(table)) \ seen) <= drift
=============================================================================
