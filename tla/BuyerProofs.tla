------------------------------- MODULE BuyerProofs -------------------------------
(***************************************************************************)
(* Proofs about the services for buyers: tickets, referral codes, bundles, *)
(* and the cart with its wish list.                                        *)
(***************************************************************************)
EXTENDS ServicesProofs

-----------------------------------------------------------------------------
(* Tickets *)

LEMMA TicketStep ==
  ASSUME service = "tickets", [Next]_vars
  PROVE  [Tick!Next]_(Tick!vars)
  BY DEF Next, Only, vars, slotVars, ticketVars, Tick!vars, Tick!slotVars

(* Nothing changes a ticket under a handler that replies to it, and a reply
   that is unheard has its handler at work. *)
TicketInv ==
  /\ Slotted /\ OneAtATime
  /\ \A r \in Requests : pc[r] = "replying" => job[r].read = ticket
  /\ unheard => ticket # None /\ \E r \in Requests : pc[r] = "setting"

LEMMA InitTickets == Tick!Init => TicketInv
  BY DEF Tick!Init, Tick!AllIdle, TicketInv, Slotted, OneAtATime, Busy

(* A request begins, or its handler is done before it has written. *)
LEMMA TicketMoves ==
  ASSUME ~Overlap, TicketInv, NEW r \in Requests, NEW place, NEW what,
         Moves(r, place, what), r \in Busy \/ Busy = {}, pc[r] # "setting",
         place = "replying" => what.read = ticket, UNCHANGED <<ticket, unheard>>
  PROVE  TicketInv'
  <1>1. /\ Slotted' /\ OneAtATime'
        /\ pc'[r] = place /\ job'[r] = what
        /\ \A q \in Requests \ {r} : pc'[q] = pc[q] /\ job'[q] = job[q]
    BY SlotMoves DEF TicketInv
  <1>2. QED
    BY <1>1 DEF TicketInv

LEMMA TicketFree ==
  ASSUME ~Overlap, TicketInv, NEW r \in Requests, Tick!Admit(r)
  PROVE  pc[r] = "idle" /\ Busy = {}
  BY DEF Tick!Admit, Tick!Active, Tick!Open, Tick!Quiet, Busy

LEMMA NextTicket ==
  ASSUME ~Overlap, "tickets" \notin Fallible, TicketInv, [Tick!Next]_(Tick!vars)
  PROVE  TicketInv'
  <1>1. ASSUME NEW r \in Requests,
               \/ \E side \in {"admin", "user"} : Tick!AddReply(r, side)
               \/ \E s \in Tick!Statuses : Tick!UpdateStatus(r, s)
               \/ Tick!CloseTicket(r)
        PROVE  TicketInv'
    <2>1. pc[r] = "idle" /\ Busy = {} /\ UNCHANGED <<ticket, unheard>>
      BY <1>1, TicketFree DEF Tick!AddReply, Tick!UpdateStatus, Tick!CloseTicket
    <2>2. \/ Moves(r, "idle", None)
          \/ \E side : Moves(r, "replying", Tick!Reply(side, ticket))
          \/ \E s : Moves(r, "setting", s)
      BY <1>1 DEF Tick!AddReply, Tick!UpdateStatus, Tick!CloseTicket, Tick!Leave,
                  Tick!Go, Moves
    <2>3. QED
      BY <2>1, <2>2, TicketMoves DEF Tick!Reply
  <1>2. ASSUME NEW r \in Requests, Tick!StoreReply(r)
        PROVE  TicketInv'
    <2>1. pc[r] = "replying" /\ job[r].read = ticket /\ r \in Busy /\ UNCHANGED ticket
      BY <1>2 DEF Tick!StoreReply, Tick!At, TicketInv, Busy
    <2>2. ~unheard
      BY <2>1 DEF TicketInv, OneAtATime, Busy
    <2>3. CASE ~unheard'
      <3>1. Moves(r, "idle", None) \/ Moves(r, "setting", "in_progress")
        BY <1>2 DEF Tick!StoreReply, Tick!Leave, Tick!Go, Moves
      <3>2. /\ Slotted' /\ OneAtATime'
            /\ pc'[r] # "replying"
            /\ \A q \in Requests \ {r} : pc'[q] = pc[q] /\ job'[q] = job[q]
        BY <2>1, <3>1, SlotMoves DEF TicketInv
      <3>3. QED
        BY <2>1, <2>3, <3>2 DEF TicketInv
    <2>4. CASE unheard'
      <3>1. ticket # None /\ job[r].side = "user" /\ ticket \in Tick!Ended
        BY <1>2, <2>2, <2>4 DEF Tick!StoreReply
      <3>2. Moves(r, "setting", "in_progress")
        BY <1>2, <2>1, <3>1 DEF Tick!StoreReply, Tick!Reopens, Tick!Go, Moves
      <3>3. /\ Slotted' /\ OneAtATime'
            /\ pc'[r] = "setting"
            /\ \A q \in Requests \ {r} : pc'[q] = pc[q] /\ job'[q] = job[q]
        BY <2>1, <3>2, SlotMoves DEF TicketInv
      <3>4. QED
        BY <2>1, <3>1, <3>3 DEF TicketInv
    <2>5. QED
      BY <2>3, <2>4
  <1>3. ASSUME NEW r \in Requests, Tick!SetStatus(r)
        PROVE  TicketInv'
    <2>1. pc[r] = "setting" /\ r \in Busy /\ Moves(r, "idle", None) /\ ~unheard'
      BY <1>3 DEF Tick!SetStatus, Tick!At, Tick!Leave, Tick!Go, Moves, Busy, TicketInv
    <2>2. /\ Slotted' /\ OneAtATime'
          /\ pc'[r] = "idle"
          /\ \A q \in Requests \ {r} : pc'[q] = pc[q]
      BY <2>1, SlotMoves DEF TicketInv
    <2>3. \A q \in Requests \ {r} : pc[q] # "replying"
      BY <2>1 DEF TicketInv, OneAtATime, Busy
    <2>4. QED
      BY <2>1, <2>2, <2>3 DEF TicketInv
  <1>4. ASSUME NEW r \in Requests, Tick!Fail(r)
        PROVE  FALSE
    BY <1>4 DEF Tick!Fail, Tick!Stop
  <1>5. CASE Tick!Create \/ Tick!Cascade
    <2>1. /\ \A r \in Requests : pc[r] = "idle"
          /\ UNCHANGED <<pc, job>>
          /\ unheard' = unheard \/ ~unheard'
      BY <1>5 DEF Tick!Create, Tick!Cascade, Tick!Open, Tick!Quiet, Tick!Active,
                  Tick!slotVars
    <2>2. ~unheard'
      BY <1>5, <2>1 DEF TicketInv, Tick!Create, Tick!Cascade
    <2>3. QED
      BY <2>1, <2>2 DEF TicketInv, Slotted, OneAtATime, Busy
  <1>6. CASE UNCHANGED Tick!vars
    BY <1>6 DEF Tick!vars, Tick!slotVars, TicketInv, Slotted, OneAtATime, Busy
  <1>7. QED
    BY <1>1, <1>2, <1>3, <1>4, <1>5, <1>6 DEF Tick!Next

(* RepliesAreHeard: when nothing overlaps and no handler fails, no reply of a
   user is left on a ticket that has ended. *)
THEOREM RepliesHeard ==
  ASSUME ~Overlap, "tickets" \notin Fallible
  PROVE  Spec => []RepliesAreHeard
  <1> DEFINE Inv == service = "tickets" => TicketInv
  <1>1. Init => Inv
    BY InitTickets DEF Init
  <1>2. Inv /\ [Next]_vars => Inv'
    BY NextTicket, TicketStep, ServiceStays
  <1>3. Inv => RepliesAreHeard
    BY DEF TicketInv, RepliesAreHeard, Tick!RepliesAreHeard, Tick!Quiet, Tick!Active
  <1>4. QED
    BY <1>1, <1>2, <1>3, PTL DEF Spec

-----------------------------------------------------------------------------
(* Referrals *)

LEMMA ReferralStep ==
  ASSUME service = "referrals", [Next]_vars
  PROVE  [Ref!Next]_(Ref!vars)
  BY DEF Next, Only, vars, slotVars, referralVars, Ref!vars, Ref!slotVars

LEMMA RefCardinality == \A S : Ref!Cardinality(S) = Cardinality(S)
  BY DEF Ref!Cardinality, Cardinality, Ref!IsFiniteSet, IsFiniteSet

Placed(place) == {r \in Requests : pc[r] = place}

(* A step of one slot takes it out of the place where it was. *)
LEMMA PlacedMoves ==
  ASSUME Slotted, OneAtATime, NEW r \in Requests, NEW place, NEW what,
         Moves(r, place, what), r \in Busy \/ Overlap \/ Busy = {},
         NEW here, here # "idle"
  PROVE  /\ Cardinality(Placed(here)) \in Nat /\ Cardinality(Placed(here)') \in Nat
         /\ Cardinality(Placed(here)') <= Racers
         /\ here # place => Cardinality(Placed(here)') <= Cardinality(Placed(here))
         /\ here # place /\ pc[r] = here =>
              Cardinality(Placed(here)') <= Cardinality(Placed(here)) - 1
  <1>1. /\ Slotted' /\ OneAtATime'
        /\ pc'[r] = place
        /\ \A q \in Requests \ {r} : pc'[q] = pc[q]
    BY SlotMoves
  <1>2. PICK S \in SUBSET Requests : S = Placed(here)
    BY DEF Placed
  <1>3. PICK T \in SUBSET Requests : T = Placed(here)'
    BY DEF Placed
  <1>4. ~Overlap => \A q, s \in T : q = s
    BY <1>1, <1>3 DEF Placed, OneAtATime, Busy
  <1>5. here # place => T \subseteq S \ {r}
    BY <1>1, <1>2, <1>3 DEF Placed
  <1>6. /\ Cardinality(S) \in Nat /\ Cardinality(T) \in Nat
        /\ Cardinality(T) <= Racers
    BY <1>4, CountSome, CountBusy
  <1>7. here # place => Cardinality(T) <= Cardinality(S)
    BY <1>5, CountFewer
  <1>8. here # place /\ pc[r] = here => Cardinality(T) <= Cardinality(S) - 1
    BY <1>2, <1>5, CountLess DEF Placed
  <1>9. QED
    BY <1>2, <1>3, <1>6, <1>7, <1>8

(* Each code that was given out was stored by a request that began before any
   was, and each referral was made by one that found none. *)
CodeInv ==
  /\ \A r \in Requests : pc[r] = "storing" => job[r] \in Codes
  /\ IsFiniteSet(given)
  /\ code = None => given = {}
  /\ code # None => code \in given
  /\ Cardinality(given) + Cardinality(Placed("storing")) <= Racers

AppliedInv ==
  /\ applied \in Nat
  /\ applied + Cardinality(Placed("referring")) <= Racers

ReferralInv == Slotted /\ OneAtATime /\ CodeInv /\ AppliedInv

LEMMA InitReferrals == Ref!Init => ReferralInv
  <1> SUFFICES ASSUME Ref!Init PROVE ReferralInv
    OBVIOUS
  <1>1. /\ Placed("storing") = {} /\ Placed("referring") = {}
        /\ \A r \in Requests : pc[r] = "idle"
    BY DEF Ref!Init, Ref!AllIdle, Placed
  <1>2. IsFiniteSet(given) /\ Cardinality(given) = 0 /\ given = {} /\ code = None
    BY FS_EmptySet DEF Ref!Init
  <1>3. CodeInv
    BY <1>1, <1>2, FS_EmptySet, RacersType DEF CodeInv
  <1>4. AppliedInv
    BY <1>1, FS_EmptySet, RacersType DEF AppliedInv, Ref!Init
  <1>5. Slotted /\ OneAtATime
    BY DEF Ref!Init, Ref!AllIdle, Slotted, OneAtATime, Busy
  <1>6. QED
    BY <1>3, <1>4, <1>5 DEF ReferralInv

(* The steps that make no referral keep the count of them. *)
LEMMA AppliedMoves ==
  ASSUME ReferralInv, NEW r \in Requests, NEW place, NEW what,
         Moves(r, place, what), r \in Busy \/ Overlap \/ Busy = {},
         place # "referring", UNCHANGED applied
  PROVE  AppliedInv'
  <1>1. /\ Cardinality(Placed("referring")) \in Nat
        /\ Cardinality(Placed("referring")') \in Nat
        /\ Cardinality(Placed("referring")') <= Cardinality(Placed("referring"))
    BY PlacedMoves DEF ReferralInv
  <1>2. QED
    BY <1>1, RacersType DEF ReferralInv, AppliedInv

(* The steps that give out no new code keep the count of codes. *)
LEMMA CodeMoves ==
  ASSUME ReferralInv, NEW r \in Requests, NEW place, NEW what,
         Moves(r, place, what), r \in Busy \/ Overlap \/ Busy = {},
         place # "storing", UNCHANGED <<code, given>>
  PROVE  CodeInv'
  <1>1. /\ Cardinality(Placed("storing")) \in Nat
        /\ Cardinality(Placed("storing")') \in Nat
        /\ Cardinality(Placed("storing")') <= Cardinality(Placed("storing"))
    BY PlacedMoves DEF ReferralInv
  <1>2. \A q \in Requests : pc'[q] = "storing" => job'[q] \in Codes
    BY SlotMoves DEF ReferralInv, CodeInv
  <1>3. Cardinality(given) \in Nat
    BY FS_CardinalityType DEF ReferralInv, CodeInv
  <1>4. QED
    BY <1>1, <1>2, <1>3, RacersType DEF ReferralInv, CodeInv

LEMMA ReferralFree ==
  ASSUME NEW r \in Requests, Ref!Admit(r)
  PROVE  pc[r] = "idle" /\ (Overlap \/ Busy = {})
  BY DEF Ref!Admit, Ref!Active, Ref!Open, Ref!Quiet, Busy

(* A code is drawn only while none is stored. *)
LEMMA ReadsCode ==
  ASSUME ReferralInv, NEW r \in Requests, r \in Busy \/ Overlap \/ Busy = {},
         Ref!ReadCode(r), UNCHANGED <<code, applied>>
  PROVE  ReferralInv'
  <1>1. CASE code # None /\ given' = given \cup {code} /\ Ref!Leave(r)
    <2>1. Moves(r, "idle", None) /\ given' = given
      BY <1>1 DEF Ref!Leave, Ref!Go, Moves, ReferralInv, CodeInv
    <2>2. CodeInv' /\ AppliedInv'
      BY <2>1, CodeMoves, AppliedMoves
    <2>3. QED
      BY <2>1, <2>2, SlotMoves DEF ReferralInv
  <1>2. CASE /\ code = None /\ UNCHANGED given
             /\ \E c \in Codes : Ref!Go(r, "storing", c)
    <2>1. PICK c \in Codes : Moves(r, "storing", c)
      BY <1>2 DEF Ref!Go, Moves
    <2>2. /\ Slotted' /\ OneAtATime'
          /\ job'[r] = c /\ pc'[r] = "storing"
          /\ \A q \in Requests \ {r} : pc'[q] = pc[q] /\ job'[q] = job[q]
      BY <2>1, SlotMoves DEF ReferralInv
    <2>3. Cardinality(Placed("storing")') \in Nat /\ Cardinality(Placed("storing")') <= Racers
      BY <2>1, PlacedMoves DEF ReferralInv
    <2>4. given' = {} /\ Cardinality(given') = 0
      BY <1>2, FS_EmptySet DEF ReferralInv, CodeInv
    <2>5. CodeInv'
      BY <1>2, <2>2, <2>3, <2>4, FS_EmptySet, RacersType DEF ReferralInv, CodeInv
    <2>6. AppliedInv'
      BY <2>1, AppliedMoves
    <2>7. QED
      BY <2>2, <2>5, <2>6 DEF ReferralInv
  <1>3. QED
    BY <1>1, <1>2 DEF Ref!ReadCode

LEMMA CountAdded ==
  ASSUME NEW S, IsFiniteSet(S), NEW x
  PROVE  /\ IsFiniteSet(S \cup {x}) /\ Cardinality(S) \in Nat
         /\ Cardinality(S \cup {x}) \in Nat
         /\ Cardinality(S \cup {x}) <= Cardinality(S) + 1
  <1>1. /\ IsFiniteSet(S \cup {x}) /\ Cardinality(S) \in Nat
        /\ Cardinality(S \cup {x}) = IF x \in S THEN Cardinality(S) ELSE Cardinality(S) + 1
    BY FS_AddElement, FS_CardinalityType
  <1>2. QED
    BY <1>1

LEMMA StoresCode ==
  ASSUME ReferralInv, NEW r \in Requests, Ref!StoreCode(r)
  PROVE  ReferralInv'
  <1>1. /\ pc[r] = "storing" /\ r \in Busy /\ Moves(r, "idle", None)
        /\ code' = job[r] /\ given' = given \cup {job[r]} /\ UNCHANGED applied
    BY DEF Ref!StoreCode, Ref!At, Ref!Leave, Ref!Go, Moves, Busy
  <1>2. job[r] \in Codes /\ job[r] # None
    BY <1>1, NoneAssumption DEF ReferralInv, CodeInv
  <1>3. /\ Cardinality(Placed("storing")) \in Nat
        /\ Cardinality(Placed("storing")') \in Nat
        /\ Cardinality(Placed("storing")') <= Cardinality(Placed("storing")) - 1
    BY <1>1, PlacedMoves DEF ReferralInv
  <1>4. /\ IsFiniteSet(given') /\ Cardinality(given) \in Nat
        /\ Cardinality(given') \in Nat /\ Cardinality(given') <= Cardinality(given) + 1
    <2>1. IsFiniteSet(given)
      BY DEF ReferralInv, CodeInv
    <2>2. QED
      BY <1>1, <2>1, CountAdded
  <1>5. /\ Slotted' /\ OneAtATime' /\ pc'[r] = "idle"
        /\ \A q \in Requests \ {r} : pc'[q] = pc[q] /\ job'[q] = job[q]
    BY <1>1, SlotMoves DEF ReferralInv
  <1>6. Cardinality(given') + Cardinality(Placed("storing")') <= Racers
    BY <1>3, <1>4, RacersType DEF ReferralInv, CodeInv
  <1>7. CodeInv'
    BY <1>1, <1>2, <1>4, <1>5, <1>6 DEF ReferralInv, CodeInv
  <1>8. AppliedInv'
    BY <1>1, AppliedMoves
  <1>9. QED
    BY <1>5, <1>7, <1>8 DEF ReferralInv

LEMMA NextReferral == ReferralInv /\ [Ref!Next]_(Ref!vars) => ReferralInv'
  <1> SUFFICES ASSUME ReferralInv, [Ref!Next]_(Ref!vars)
               PROVE  ReferralInv'
    OBVIOUS
  <1>1. ASSUME NEW r \in Requests, Ref!GetOrCreateCode(r) \/ Ref!AskCode(r)
        PROVE  ReferralInv'
    <2>1. r \in Busy \/ Overlap \/ Busy = {}
      BY <1>1, ReferralFree DEF Ref!GetOrCreateCode, Ref!AskCode, Ref!At, Busy
    <2>2. QED
      BY <1>1, <2>1, ReadsCode DEF Ref!GetOrCreateCode, Ref!AskCode
  <1>2. ASSUME NEW r \in Requests, NEW place, NEW what, Moves(r, place, what),
               r \in Busy \/ Overlap \/ Busy = {},
               place \notin {"storing", "referring"}, UNCHANGED <<code, given, applied>>
        PROVE  ReferralInv'
    BY <1>2, CodeMoves, AppliedMoves, SlotMoves DEF ReferralInv
  <1>3. ASSUME NEW r \in Requests, Ref!GetReferralInfo(r)
        PROVE  ReferralInv'
    <2>1. Overlap \/ Busy = {}
      BY <1>3, ReferralFree DEF Ref!GetReferralInfo
    <2>2. Moves(r, "idle", None) \/ Moves(r, "asking", None)
      BY <1>3 DEF Ref!GetReferralInfo, Ref!Leave, Ref!Go, Moves
    <2>3. UNCHANGED <<code, given, applied>>
      BY <1>3 DEF Ref!GetReferralInfo, ReferralInv, CodeInv
    <2>4. QED
      BY <2>1, <2>2, <2>3, <1>2
  <1>4. ASSUME NEW r \in Requests, NEW c, Ref!ApplyReferralCode(r, c) \/ Ref!Enrol(r, c)
        PROVE  ReferralInv'
    <2>1. Overlap \/ Busy = {}
      BY <1>4, ReferralFree DEF Ref!ApplyReferralCode, Ref!Enrol
    <2>2. \/ Moves(r, "idle", None) \/ Moves(r, "matching", c) \/ Moves(r, "enrolling", c)
      BY <1>4 DEF Ref!ApplyReferralCode, Ref!Enrol, Ref!Leave, Ref!Go, Moves
    <2>3. UNCHANGED <<code, given, applied>>
      BY <1>4 DEF Ref!ApplyReferralCode, Ref!Enrol
    <2>4. QED
      BY <2>1, <2>2, <2>3, <1>2
  <1>5. ASSUME NEW r \in Requests, Ref!StoreCode(r)
        PROVE  ReferralInv'
    BY <1>5, StoresCode
  <1>6. ASSUME NEW r \in Requests, Ref!FindExisting(r)
        PROVE  ReferralInv'
    <2>1. r \in Busy /\ UNCHANGED <<code, given, applied>>
      BY <1>6 DEF Ref!FindExisting, Ref!At, Busy
    <2>2. CASE applied > 0 \/ enrolled
      <3>1. Moves(r, "idle", None)
        BY <1>6, <2>2 DEF Ref!FindExisting, Ref!Leave, Ref!Go, Moves
      <3>2. QED
        BY <2>1, <3>1, <1>2
    <2>3. CASE ~(applied > 0 \/ enrolled)
      <3>1. Moves(r, "referring", job[r])
        BY <1>6, <2>3 DEF Ref!FindExisting, Ref!Step, Ref!Go, Moves
      <3>2. /\ Cardinality(Placed("referring")') \in Nat
            /\ Cardinality(Placed("referring")') <= Racers
        BY <2>1, <3>1, PlacedMoves DEF ReferralInv
      <3>3. applied = 0
        BY <2>3 DEF ReferralInv, AppliedInv
      <3>4. AppliedInv'
        BY <2>1, <3>2, <3>3, RacersType DEF AppliedInv
      <3>5. QED
        BY <2>1, <3>1, <3>4, CodeMoves, SlotMoves DEF ReferralInv
    <2>4. QED
      BY <2>2, <2>3
  <1>7. ASSUME NEW r \in Requests, Ref!CreateReferral(r)
        PROVE  ReferralInv'
    <2>1. /\ pc[r] = "referring" /\ r \in Busy /\ Moves(r, "idle", None)
          /\ applied' = applied + 1 /\ UNCHANGED <<code, given>>
      BY <1>7 DEF Ref!CreateReferral, Ref!At, Ref!Leave, Ref!Go, Moves, Busy
    <2>2. /\ Cardinality(Placed("referring")) \in Nat
          /\ Cardinality(Placed("referring")') \in Nat
          /\ Cardinality(Placed("referring")') <= Cardinality(Placed("referring")) - 1
      BY <2>1, PlacedMoves DEF ReferralInv
    <2>3. AppliedInv'
      BY <2>1, <2>2, RacersType DEF ReferralInv, AppliedInv
    <2>4. QED
      BY <2>1, <2>3, CodeMoves, SlotMoves DEF ReferralInv
  <1>8. ASSUME NEW r \in Requests, Ref!CreateEnrolled(r) \/ Ref!Fail(r)
        PROVE  ReferralInv'
    <2>1. /\ r \in Busy /\ Moves(r, "idle", None) /\ UNCHANGED <<code, given, applied>>
      BY <1>8 DEF Ref!CreateEnrolled, Ref!Fail, Ref!Stop, Ref!Active, Ref!At, Ref!Leave,
                  Ref!Go, Moves, Busy
    <2>2. QED
      BY <2>1, <1>2
  <1>9. CASE UNCHANGED Ref!vars
    BY <1>9 DEF Ref!vars, Ref!slotVars, ReferralInv, Slotted, OneAtATime, Busy, CodeInv,
                AppliedInv, Placed
  <1>10. QED
    BY <1>1, <1>3, <1>4, <1>5, <1>6, <1>7, <1>8, <1>9 DEF Ref!Next

LEMMA ReferralsHold == Spec => [](service = "referrals" => ReferralInv)
  <1> DEFINE Inv == service = "referrals" => ReferralInv
  <1>1. Init => Inv
    BY InitReferrals DEF Init
  <1>2. Inv /\ [Next]_vars => Inv'
    BY NextReferral, ReferralStep, ServiceStays
  <1>3. QED
    BY <1>1, <1>2, PTL DEF Spec

LEMMA RefTogether == Ref!Together = Racers
  BY RefCardinality DEF Ref!Together, Racers

(* CodesSettle: a user gives away no more codes than requests that looked for
   the first one together. *)
THEOREM CodesAreBounded == Spec => []CodesSettle
  <1>1. (service = "referrals" => ReferralInv) => CodesSettle
    <2> SUFFICES ASSUME ReferralInv PROVE Ref!CodesSettle
      BY DEF CodesSettle
    <2>1. Cardinality(given) \in Nat /\ Cardinality(Placed("storing")) \in Nat
      BY CountSome, FS_CardinalityType DEF ReferralInv, CodeInv, Placed
    <2>2. Cardinality(given) <= Racers
      BY <2>1, RacersType DEF ReferralInv, CodeInv
    <2>3. QED
      BY <2>2, RefTogether, RefCardinality DEF Ref!CodesSettle
  <1>2. QED
    BY <1>1, ReferralsHold, PTL

(* ReferredOnce: the checkout refers an address no more often than requests
   looked for its referral together. *)
THEOREM ReferralsAreBounded == Spec => []ReferredOnce
  <1>1. (service = "referrals" => ReferralInv) => ReferredOnce
    <2> SUFFICES ASSUME ReferralInv PROVE Ref!ReferredOnce
      BY DEF ReferredOnce
    <2>1. Cardinality(Placed("referring")) \in Nat
      BY CountSome DEF Placed
    <2>2. QED
      BY <2>1, RefTogether, RacersType DEF Ref!ReferredOnce, ReferralInv, AppliedInv
  <1>2. QED
    BY <1>1, ReferralsHold, PTL

-----------------------------------------------------------------------------
(* Bundles *)

LEMMA BundleStep ==
  ASSUME service = "bundles", [Next]_vars
  PROVE  [Bun!Next]_(Bun!vars)
  BY DEF Next, Only, vars, slotVars, bundleVars, Bun!vars, Bun!rowVars, Bun!slotVars

(* What a handler holds at each of its statements. *)
Fits(place, what) ==
  /\ place # "idle" => what.id \in BundleIds
  /\ place \in {"creating", "emptying", "filling"} => what.list \in Bun!Lists
  /\ place = "checking" => what.list \in Bun!Lists \cup {None}

Filling(b) == \E r \in Requests : pc[r] = "filling" /\ job[r].id = b

(* A bundle that is empty was left so for a reason, or has a handler at work that
   fills it or leaves it for one. *)
BundleInv ==
  /\ Slotted
  /\ \A r \in Requests : Fits(pc[r], job[r])
  /\ slug = [b \in BundleIds |-> slug[b]]
  /\ products = [b \in BundleIds |-> products[b]]
  /\ \A b \in BundleIds :
       slug[b] # None /\ products[b] = {} => b \in emptied \/ Filling(b)

LEMMA InitBundles == Bun!Init => BundleInv
  BY DEF Bun!Init, Bun!AllIdle, BundleInv, Slotted, Fits

(* A step of one handler that is about one bundle, the one it fills if it does *)
LEMMA BundleWrites ==
  ASSUME BundleInv, NEW r \in Requests, NEW place, NEW what,
         Moves(r, place, what), Fits(place, what),
         NEW b \in BundleIds, NEW name, NEW content,
         pc[r] = "filling" => job[r].id = b,
         slug' = [slug EXCEPT ![b] = name],
         products' = [products EXCEPT ![b] = content],
         \A c \in BundleIds \ {b} : c \in emptied => c \in emptied',
         name # None /\ content = {} => b \in emptied' \/ Filling(b)'
  PROVE  BundleInv'
  <1>1. /\ Slotted' /\ pc'[r] = place /\ job'[r] = what
        /\ \A q \in Requests \ {r} : pc'[q] = pc[q] /\ job'[q] = job[q]
    BY SlotMoves DEF BundleInv
  <1>2. \A q \in Requests : Fits(pc'[q], job'[q])
    BY <1>1 DEF BundleInv
  <1>3. /\ slug' = [c \in BundleIds |-> slug'[c]]
        /\ products' = [c \in BundleIds |-> products'[c]]
        /\ slug'[b] = name /\ products'[b] = content
        /\ \A c \in BundleIds \ {b} : slug'[c] = slug[c] /\ products'[c] = products[c]
    BY DEF BundleInv
  <1>4. \A c \in BundleIds \ {b} : Filling(c) => Filling(c)'
    BY <1>1 DEF Filling
  <1>5. \A c \in BundleIds :
          slug'[c] # None /\ products'[c] = {} => c \in emptied' \/ Filling(c)'
    BY <1>3, <1>4 DEF BundleInv
  <1>6. QED
    BY <1>1, <1>2, <1>3, <1>5 DEF BundleInv

(* A handler that does not fill a bundle may move on, *)
LEMMA BundleKeeps ==
  ASSUME BundleInv, NEW r \in Requests, NEW place, NEW what,
         Moves(r, place, what), Fits(place, what), pc[r] # "filling",
         UNCHANGED <<slug, products, emptied>>
  PROVE  BundleInv'
  <1>1. /\ Slotted' /\ pc'[r] = place /\ job'[r] = what
        /\ \A q \in Requests \ {r} : pc'[q] = pc[q] /\ job'[q] = job[q]
    BY SlotMoves DEF BundleInv
  <1>2. \A q \in Requests : Fits(pc'[q], job'[q])
    BY <1>1 DEF BundleInv
  <1>3. \A b \in BundleIds : Filling(b) => Filling(b)'
    BY <1>1 DEF Filling
  <1>4. QED
    BY <1>1, <1>2, <1>3 DEF BundleInv

(* and one that does may leave the bundle as it is. *)
LEMMA GivesUp ==
  ASSUME BundleInv, NEW r \in Requests, Moves(r, "idle", None),
         NEW b \in BundleIds, pc[r] = "filling", job[r].id = b,
         UNCHANGED <<slug, products>>, emptied \subseteq emptied',
         slug[b] = None \/ products[b] # {} \/ b \in emptied'
  PROVE  BundleInv'
  <1>1. /\ Slotted' /\ pc'[r] = "idle"
        /\ \A q \in Requests \ {r} : pc'[q] = pc[q] /\ job'[q] = job[q]
    BY SlotMoves DEF BundleInv
  <1>2. \A q \in Requests : Fits(pc'[q], job'[q])
    BY <1>1 DEF BundleInv, Fits
  <1>3. \A c \in BundleIds \ {b} : Filling(c) => Filling(c)'
    BY <1>1 DEF Filling
  <1>4. QED
    BY <1>1, <1>2, <1>3 DEF BundleInv

LEMMA ReplacesList ==
  ASSUME BundleInv, NEW r \in Requests, pc[r] # "filling", NEW j,
         j.id \in BundleIds, j.list \in Bun!Lists \cup {None},
         Bun!Replace(r, j), UNCHANGED <<slug, products, emptied>>
  PROVE  BundleInv'
  <1>1. CASE j.list = None
    <2>1. Moves(r, "renaming", j)
      BY <1>1 DEF Bun!Replace, Bun!Kept, Bun!Go, Moves
    <2>2. QED
      BY <2>1, BundleKeeps DEF Fits
  <1>2. CASE j.list # None
    <2>1. Moves(r, "emptying", j)
      BY <1>2 DEF Bun!Replace, Bun!Kept, Bun!Go, Moves
    <2>2. QED
      BY <1>2, <2>1, BundleKeeps DEF Fits
  <1>3. QED
    BY <1>1, <1>2

LEMMA LeavesBundle ==
  ASSUME BundleInv, NEW r \in Requests, pc[r] # "filling",
         Bun!Leave(r), UNCHANGED <<slug, products, emptied>>
  PROVE  BundleInv'
  <1>1. Moves(r, "idle", None)
    BY DEF Bun!Leave, Bun!Go, Moves
  <1>2. QED
    BY <1>1, BundleKeeps DEF Fits

(* A handler that fails between the two statements leaves a reason. *)
LEMMA FailsBundle ==
  ASSUME BundleInv, NEW r \in Requests, Bun!Fail(r)
  PROVE  BundleInv'
  <1>1. Moves(r, "idle", None) /\ Fits("idle", None) /\ UNCHANGED slug
    BY DEF Bun!Fail, Bun!Stop, Bun!Leave, Bun!Go, Moves, Fits
  <1>2. CASE pc[r] = "filling"
    <2>1. PICK b \in BundleIds : b = job[r].id
      BY <1>2 DEF BundleInv, Fits
    <2>2. /\ UNCHANGED products
          /\ emptied' = IF products[b] = {} THEN emptied \cup {b} ELSE emptied
      BY <1>2, <2>1 DEF Bun!Fail, Bun!At, Bun!GiveUp
    <2>3. QED
      BY <1>1, <1>2, <2>1, <2>2, GivesUp
  <1>3. CASE pc[r] # "filling"
    <2>1. UNCHANGED <<products, emptied>>
      BY <1>3 DEF Bun!Fail, Bun!At
    <2>2. QED
      BY <1>1, <1>3, <2>1, BundleKeeps
  <1>4. QED
    BY <1>2, <1>3

(* A list that cannot be inserted leaves a reason, or finds the bundle gone or
   filled. *)
LEMMA FillsBundle ==
  ASSUME BundleInv, NEW r \in Requests, Bun!Fill(r)
  PROVE  BundleInv'
  <1>1. PICK b \in BundleIds : b = job[r].id
    BY DEF Bun!Fill, Bun!At, BundleInv, Fits
  <1>2. pc[r] = "filling" /\ UNCHANGED slug
    BY DEF Bun!Fill, Bun!At
  <1>3. PICK things : things = job[r].list
    OBVIOUS
  <1>4. CASE ~Bun!Insertable(things)
    <2>1. /\ Moves(r, "idle", None) /\ UNCHANGED products
          /\ emptied' = IF products[b] = {} THEN emptied \cup {b} ELSE emptied
      BY <1>1, <1>3, <1>4 DEF Bun!Fill, Bun!GiveUp, Bun!Leave, Bun!Go, Moves
    <2>2. QED
      BY <1>1, <1>2, <2>1, GivesUp
  <1>5. CASE Bun!Insertable(things) /\ Bun!Clash(b, things)
    <2>1. Moves(r, "idle", None) /\ UNCHANGED <<products, emptied>>
      BY <1>1, <1>3, <1>5 DEF Bun!Fill, Bun!Leave, Bun!Go, Moves
    <2>2. slug[b] = None \/ products[b] # {}
      BY <1>5 DEF Bun!Clash
    <2>3. QED
      BY <1>1, <1>2, <2>1, <2>2, GivesUp
  <1>6. CASE Bun!Insertable(things) /\ ~Bun!Clash(b, things)
    <2>1. /\ Moves(r, "renaming", job[r])
          /\ Bun!Holding(b, products[b] \cup things.named)
      BY <1>1, <1>3, <1>6 DEF Bun!Fill, Bun!Step, Bun!Go, Moves
    <2>2. PICK content : content = products[b] \cup things.named
      OBVIOUS
    <2>3. /\ products' = [products EXCEPT ![b] = content]
          /\ emptied' = IF content = {} THEN emptied \cup {b} ELSE emptied \ {b}
      BY <2>1, <2>2 DEF Bun!Holding
    <2>4. slug' = [slug EXCEPT ![b] = slug[b]] /\ Fits("renaming", job[r])
      BY <1>1, <1>2 DEF BundleInv, Fits
    <2>5. QED
      BY <1>1, <1>2, <2>1, <2>3, <2>4, BundleWrites
  <1>7. QED
    BY <1>4, <1>5, <1>6

(* A product that goes leaves those without products that had no other. *)
LEMMA DeletesProduct ==
  ASSUME BundleInv, NEW p, Bun!DeleteProduct(p)
  PROVE  BundleInv'
  <1>1. /\ UNCHANGED <<pc, job, slug>>
        /\ products' = [b \in BundleIds |-> products[b] \ {p}]
        /\ emptied' = emptied \cup {b \in BundleIds : products[b] = {p}}
    BY DEF Bun!DeleteProduct, Bun!slotVars
  <1>2. \A b \in BundleIds : products'[b] = {} => products[b] = {} \/ b \in emptied'
    BY <1>1
  <1>3. \A b \in BundleIds :
          slug'[b] # None /\ products'[b] = {} => b \in emptied' \/ Filling(b)'
    BY <1>1, <1>2 DEF BundleInv, Filling
  <1>4. QED
    BY <1>1, <1>3 DEF BundleInv, Slotted

LEMMA NextBundle == BundleInv /\ [Bun!Next]_(Bun!vars) => BundleInv'
  <1> SUFFICES ASSUME BundleInv, [Bun!Next]_(Bun!vars)
               PROVE  BundleInv'
    OBVIOUS
  <1>1. ASSUME NEW r \in Requests, NEW b \in BundleIds, NEW name, NEW things \in Bun!Lists,
               Bun!Create(r, b, name, things) \/ Bun!AdminCreate(r, b, name, things)
        PROVE  BundleInv'
    <2>1. pc[r] # "filling" /\ UNCHANGED <<slug, products, emptied>>
      BY <1>1 DEF Bun!Create, Bun!AdminCreate, Bun!Admit, Bun!Active, Bun!rowVars
    <2>2. Bun!Leave(r) \/ Moves(r, "creating", Bun!Job(b, name, things))
      BY <1>1 DEF Bun!Create, Bun!AdminCreate, Bun!Go, Moves
    <2>3. Fits("creating", Bun!Job(b, name, things))
      BY DEF Fits, Bun!Job
    <2>4. QED
      BY <2>1, <2>2, <2>3, LeavesBundle, BundleKeeps
  <1>2. ASSUME NEW r \in Requests, NEW b \in BundleIds, NEW name,
               NEW things \in Bun!Lists \cup {None},
               Bun!Update(r, b, name, things) \/ Bun!AdminUpdate(r, b, name, things)
        PROVE  BundleInv'
    <2> DEFINE j == Bun!Job(b, name, things)
    <2>1. pc[r] # "filling" /\ UNCHANGED <<slug, products, emptied>>
      BY <1>2 DEF Bun!Update, Bun!AdminUpdate, Bun!Admit, Bun!Active, Bun!rowVars
    <2>2. Bun!Leave(r) \/ Moves(r, "checking", j) \/ Bun!Replace(r, j)
      BY <1>2 DEF Bun!Update, Bun!AdminUpdate, Bun!Go, Moves
    <2>3. Fits("checking", j) /\ j.id = b /\ j.list = things
      BY DEF Fits, Bun!Job
    <2>4. QED
      BY <2>1, <2>2, <2>3, LeavesBundle, BundleKeeps, ReplacesList
  <1>3. ASSUME NEW r \in Requests, NEW b \in BundleIds, Bun!Remove(r, b)
        PROVE  BundleInv'
    <2>1. pc[r] # "filling" /\ UNCHANGED <<slug, products, emptied>>
      BY <1>3 DEF Bun!Remove, Bun!Admit, Bun!Active, Bun!rowVars
    <2>2. Bun!Leave(r) \/ Moves(r, "removing", Bun!Job(b, Bun!Kept, Bun!Kept))
      BY <1>3 DEF Bun!Remove, Bun!Go, Moves
    <2>3. QED
      BY <2>1, <2>2, LeavesBundle, BundleKeeps DEF Fits, Bun!Job
  <1>4. ASSUME NEW r \in Requests, Bun!Insert(r)
        PROVE  BundleInv'
    <2>1. pc[r] = "creating" /\ job[r].id \in BundleIds /\ job[r].list \in Bun!Lists
      BY <1>4 DEF Bun!Insert, Bun!At, BundleInv, Fits
    <2>2. PICK b \in BundleIds : b = job[r].id
      BY <2>1
    <2>3. PICK name, content : name = job[r].name /\ content = job[r].list.named
      OBVIOUS
    <2>4. CASE UNCHANGED Bun!rowVars
      BY <1>4, <2>1, <2>4, LeavesBundle DEF Bun!Insert, Bun!rowVars
    <2>5. CASE ~UNCHANGED Bun!rowVars
      <3>1. /\ slug' = [slug EXCEPT ![b] = name] /\ Bun!Holding(b, content)
            /\ Moves(r, "idle", None) /\ Fits("idle", None)
        BY <1>4, <2>2, <2>3, <2>5 DEF Bun!Insert, Bun!Leave, Bun!Go, Moves, Fits
      <3>2. /\ products' = [products EXCEPT ![b] = content]
            /\ emptied' = IF content = {} THEN emptied \cup {b} ELSE emptied \ {b}
        BY <3>1 DEF Bun!Holding
      <3>3. QED
        BY <2>1, <3>1, <3>2, BundleWrites
    <2>6. QED
      BY <2>4, <2>5
  <1>5. ASSUME NEW r \in Requests, Bun!CheckSlug(r)
        PROVE  BundleInv'
    <2>1. /\ pc[r] = "checking" /\ UNCHANGED <<slug, products, emptied>>
          /\ Bun!Leave(r) \/ Bun!Replace(r, job[r])
      BY <1>5 DEF Bun!CheckSlug, Bun!At, Bun!rowVars
    <2>2. job[r].id \in BundleIds /\ job[r].list \in Bun!Lists \cup {None}
      BY <2>1 DEF BundleInv, Fits
    <2>3. QED
      BY <2>1, <2>2, LeavesBundle, ReplacesList
  <1>6. ASSUME NEW r \in Requests, Bun!Empty(r)
        PROVE  BundleInv'
    <2>1. PICK b \in BundleIds : b = job[r].id
      BY <1>6 DEF Bun!Empty, Bun!At, BundleInv, Fits
    <2>2. /\ pc[r] = "emptying" /\ Moves(r, "filling", job[r])
          /\ products' = [products EXCEPT ![b] = {}]
          /\ slug' = [slug EXCEPT ![b] = slug[b]]
          /\ emptied' = emptied \ {b}
      BY <1>6, <2>1 DEF Bun!Empty, Bun!At, Bun!Step, Bun!Go, Moves, BundleInv
    <2>3. Fits("filling", job[r])
      BY <2>1, <2>2 DEF BundleInv, Fits
    <2>4. Filling(b)'
      BY <2>1, <2>2, SlotMoves DEF BundleInv, Filling, Slotted, Moves
    <2>5. QED
      BY <2>2, <2>3, <2>4, BundleWrites
  <1>7. ASSUME NEW r \in Requests, Bun!Fill(r)
        PROVE  BundleInv'
    BY <1>7, FillsBundle
  <1>8. ASSUME NEW r \in Requests, Bun!Rename(r)
        PROVE  BundleInv'
    <2>1. /\ pc[r] = "renaming" /\ Bun!Leave(r) /\ UNCHANGED <<products, emptied>>
      BY <1>8 DEF Bun!Rename, Bun!At
    <2>2. PICK b \in BundleIds : b = job[r].id
      BY <2>1 DEF BundleInv, Fits
    <2>3. CASE slug' = slug
      BY <2>1, <2>3, LeavesBundle
    <2>4. CASE slug' # slug
      <3>1. /\ slug[b] # None /\ slug' = [slug EXCEPT ![b] = job[r].name]
            /\ products' = [products EXCEPT ![b] = products[b]]
            /\ Moves(r, "idle", None) /\ Fits("idle", None)
        BY <1>8, <2>1, <2>2, <2>4 DEF Bun!Rename, Bun!Leave, Bun!Go, Moves, BundleInv, Fits
      <3>2. products[b] = {} => b \in emptied' \/ Filling(b)'
        <4>1. Filling(b) => Filling(b)'
          BY <2>1, <3>1, SlotMoves DEF BundleInv, Filling
        <4>2. QED
          BY <2>1, <3>1, <4>1 DEF BundleInv
      <3>3. QED
        BY <2>1, <3>1, <3>2, BundleWrites
    <2>5. QED
      BY <2>3, <2>4
  <1>9. ASSUME NEW r \in Requests, Bun!Delete(r)
        PROVE  BundleInv'
    <2>1. PICK b \in BundleIds : b = job[r].id
      BY <1>9 DEF Bun!Delete, Bun!At, BundleInv, Fits
    <2>2. /\ pc[r] = "removing" /\ Moves(r, "idle", None) /\ Fits("idle", None)
          /\ slug' = [slug EXCEPT ![b] = None]
          /\ products' = [products EXCEPT ![b] = {}] /\ UNCHANGED emptied
      BY <1>9, <2>1 DEF Bun!Delete, Bun!At, Bun!Leave, Bun!Go, Moves, Fits
    <2>3. QED
      BY <2>2, BundleWrites
  <1>10. CASE UNCHANGED Bun!vars
    BY <1>10 DEF Bun!vars, Bun!rowVars, Bun!slotVars, BundleInv, Slotted, Filling
  <1>11. QED
    BY <1>1, <1>2, <1>3, <1>4, <1>5, <1>6, <1>7, <1>8, <1>9, <1>10, FailsBundle,
       DeletesProduct
       DEF Bun!Next, Bun!Creations, Bun!Updates, Bun!Kept

(* EmptyForAReason: between requests, a bundle without products was left so by a
   list that is empty or refused, by a failure, or by the deletion of its last
   product, and not by the overlap of updates alone. *)
THEOREM EmptyBundlesHaveReasons == Spec => []EmptyForAReason
  <1> DEFINE Inv == service = "bundles" => BundleInv
  <1>1. Init => Inv
    BY InitBundles DEF Init
  <1>2. Inv /\ [Next]_vars => Inv'
    BY NextBundle, BundleStep, ServiceStays
  <1>3. Inv => EmptyForAReason
    BY DEF BundleInv, Filling, EmptyForAReason, Bun!EmptyForAReason, Bun!Quiet, Bun!Active
  <1>4. QED
    BY <1>1, <1>2, <1>3, PTL DEF Spec

-----------------------------------------------------------------------------
(* The cart *)

LEMMA CartStep ==
  ASSUME service = "carts", [Next]_vars
  PROVE  [Cart!Next]_(Cart!vars)
  BY DEF Next, Only, vars, slotVars, cartVars, Cart!vars, Cart!slotVars

Items == [id : Nat, quantity : Int, asked : Nat, back : Int]

(* The quantity of a row is between what its writes took back and asked for, ... *)
Sound(x) == x.back <= 0 /\ x.back <= x.quantity /\ x.quantity <= x.asked

(* ... which spread with each write. *)
Spreads(x, y) == x.asked >= y.asked /\ x.back <= y.back

(* A cart c in which ids up to n were drawn *)
CartRows(c, n) ==
  /\ c \in [CartProducts -> Items \cup {None}] /\ n \in Nat
  /\ \A p \in CartProducts : c[p] # None => c[p].id <= n /\ Sound(c[p])

(* What a handler holds: a row it has found may be gone or written since, but
   its quantity is still between the sums of it, and no new row has its id. *)
Finds(c, n, place, what) ==
  /\ place \in {"finding", "adding", "setting"} =>
       what.product \in CartProducts /\ what.quantity \in Int
  /\ place = "adding" => what.found \in Items \cup {None}
  /\ place = "adding" /\ what.found # None =>
       /\ what.found.id <= n
       /\ c[what.product] # None /\ c[what.product].id = what.found.id =>
            /\ what.found.quantity <= c[what.product].asked
            /\ c[what.product].back <= what.found.quantity

CartInv ==
  /\ Slotted
  /\ CartRows(cart, lastItem)
  /\ \A r \in Requests : Finds(cart, lastItem, pc[r], job[r])

(* One at a time: what a handler has read is what is there, and the writes of a
   sync are about distinct products. *)
ExactInv ==
  /\ wishes = wished
  /\ due = [p \in CartProducts |-> due[p]]
  /\ \A p \in CartProducts : Cart!Held(p) = due[p]
  /\ \A r \in Requests :
       /\ pc[r] \in {"adding", "setting"} => job[r].found = cart[job[r].product]
       /\ pc[r] = "setting" => job[r].found # None
       /\ pc[r] = "wishing" => job[r].found = Cart!Flipped(wishes, job[r].product)
       /\ pc[r] \in {"idle", "finding", "adding", "setting", "wishing"}
  /\ \A q, r \in Busy : q # r =>
       /\ {pc[q], pc[r]} \subseteq {"finding", "adding"}
       /\ job[q].product # job[r].product

LEMMA InitCart == Cart!Init => CartInv
  BY DEF Cart!Init, Cart!AllIdle, CartInv, Slotted, CartRows, Finds

LEMMA ItemsAreRows ==
  /\ None \notin Items
  /\ \A i, a \in Nat, q, b \in Int : Cart!Item(i, q, a, b) \in Items
  BY NoneAssumption DEF Items, Cart!Item

(* A new row *)
LEMMA FreshItem ==
  ASSUME NEW id \in Nat, NEW q \in Int
  PROVE  LET x == Cart!Fresh(id, q)
         IN  x \in Items /\ x.id = id /\ x.quantity = q /\ Sound(x)
  BY DEF Cart!Fresh, Cart!Item, Cart!Gain, Cart!Loss, Items, Sound

(* A row that is written: by an addition to a quantity between its sums, or with
   a quantity above zero *)
LEMMA WrittenItem ==
  ASSUME NEW y \in Items, Sound(y), NEW q \in Int, NEW n \in Int,
         \/ y.back + q <= n /\ n <= y.asked + q
         \/ n = q /\ q > 0
  PROVE  LET x == Cart!Written(y, n, q)
         IN  /\ x \in Items /\ x.id = y.id /\ x.quantity = n
             /\ Sound(x) /\ Spreads(x, y)
  <1>1. y.id \in Nat /\ y.asked \in Nat /\ y.back \in Int /\ y.back <= 0
    BY DEF Items, Sound
  <1> DEFINE x == Cart!Written(y, n, q)
  <1>2. /\ x = [id |-> y.id, quantity |-> n, asked |-> y.asked + Cart!Gain(q),
                back |-> y.back + Cart!Loss(q)]
        /\ Cart!Gain(q) \in Nat /\ Cart!Gain(q) >= q
        /\ Cart!Loss(q) \in Int /\ Cart!Loss(q) <= 0 /\ Cart!Loss(q) <= q
    BY DEF Cart!Written, Cart!Item, Cart!Gain, Cart!Loss
  <1>3. x \in Items
    BY <1>1, <1>2 DEF Items
  <1>4. Sound(x) /\ Spreads(x, y)
    BY <1>1, <1>2 DEF Sound, Spreads
  <1>5. QED
    BY <1>2, <1>3, <1>4

(* A slot moves; the table does not. *)
LEMMA CartMoves ==
  ASSUME CartInv, NEW r \in Requests, NEW place, NEW what, Moves(r, place, what),
         Finds(cart, lastItem, place, what), UNCHANGED <<cart, lastItem>>
  PROVE  CartInv'
  <1>1. /\ Slotted' /\ pc'[r] = place /\ job'[r] = what
        /\ \A q \in Requests \ {r} : pc'[q] = pc[q] /\ job'[q] = job[q]
    BY SlotMoves DEF CartInv
  <1>2. \A q \in Requests : Finds(cart', lastItem', pc'[q], job'[q])
    BY <1>1 DEF CartInv
  <1>3. QED
    BY <1>1, <1>2 DEF CartInv

(* What is found stays found when a row is written, gone or new. *)
LEMMA FindsStay ==
  ASSUME NEW c, NEW n, CartRows(c, n), NEW p \in CartProducts, NEW x, NEW m \in Nat, m >= n,
         \/ x = None
         \/ x \in Items /\ x.id <= m /\ Sound(x)
            /\ \/ x.id > n
               \/ c[p] # None /\ x.id = c[p].id /\ Spreads(x, c[p])
  PROVE  /\ CartRows([c EXCEPT ![p] = x], m)
         /\ \A place, what : Finds(c, n, place, what) =>
              Finds([c EXCEPT ![p] = x], m, place, what)
  <1> DEFINE d == [c EXCEPT ![p] = x]
  <1>1. /\ d \in [CartProducts -> Items \cup {None}]
        /\ d[p] = x /\ \A o \in CartProducts \ {p} : d[o] = c[o]
    BY DEF CartRows
  <1>2. \A o \in CartProducts : c[o] # None => c[o] \in Items /\ c[o].id <= n
    BY DEF CartRows
  <1>3. CartRows(d, m)
    BY <1>1, <1>2 DEF CartRows, Items
  <1>4. ASSUME NEW place, NEW what, Finds(c, n, place, what)
        PROVE  Finds(d, m, place, what)
    <2>1. /\ place \in {"finding", "adding", "setting"} =>
                what.product \in CartProducts /\ what.quantity \in Int
          /\ place = "adding" => what.found \in Items \cup {None}
      BY <1>4 DEF Finds
    <2>2. ASSUME place = "adding", what.found # None
          PROVE  /\ what.found.id <= m
                 /\ d[what.product] # None /\ d[what.product].id = what.found.id =>
                      /\ what.found.quantity <= d[what.product].asked
                      /\ d[what.product].back <= what.found.quantity
      <3>1. /\ what.found \in Items /\ what.found.id <= n /\ what.product \in CartProducts
            /\ c[what.product] # None /\ c[what.product].id = what.found.id =>
                 /\ what.found.quantity <= c[what.product].asked
                 /\ c[what.product].back <= what.found.quantity
        BY <2>2, <2>1, <1>4 DEF Finds
      <3>2. CASE what.product # p
        BY <3>1, <3>2, <1>1 DEF Items, CartRows
      <3>3. CASE what.product = p /\ x # None
        <4>1. x \in Items /\ d[p] = x
          BY <3>3, <1>1
        <4>2. CASE x.id > n
          BY <3>1, <3>3, <4>1, <4>2 DEF Items, CartRows
        <4>3. CASE c[p] # None /\ x.id = c[p].id /\ Spreads(x, c[p])
          BY <3>1, <3>3, <4>1, <4>3, <1>2 DEF Items, CartRows, Spreads
        <4>4. QED
          BY <3>3, <4>2, <4>3
      <3>4. CASE what.product = p /\ x = None
        BY <3>1, <3>4, <1>1 DEF Items, CartRows
      <3>5. QED
        BY <3>2, <3>3, <3>4
    <2>3. QED
      BY <2>1, <2>2 DEF Finds
  <1>5. QED
    BY <1>3, <1>4

(* A handler that writes one row is done. *)
LEMMA CartWrites ==
  ASSUME CartInv, NEW r \in Requests, Moves(r, "idle", None),
         NEW p \in CartProducts, NEW x, cart' = [cart EXCEPT ![p] = x],
         lastItem' \in Nat, lastItem' >= lastItem,
         \/ x = None
         \/ x \in Items /\ x.id <= lastItem' /\ Sound(x)
            /\ \/ x.id > lastItem
               \/ cart[p] # None /\ x.id = cart[p].id /\ Spreads(x, cart[p])
  PROVE  CartInv'
  <1>1. /\ Slotted' /\ pc'[r] = "idle" /\ job'[r] = None
        /\ \A q \in Requests \ {r} : pc'[q] = pc[q] /\ job'[q] = job[q]
    BY SlotMoves DEF CartInv
  <1>2. /\ CartRows(cart', lastItem')
        /\ \A place, what : Finds(cart, lastItem, place, what) =>
             Finds(cart', lastItem', place, what)
    BY FindsStay DEF CartInv
  <1>3. Finds(cart', lastItem', "idle", None)
    BY DEF Finds
  <1>4. QED
    BY <1>1, <1>2, <1>3 DEF CartInv

LEMMA AdditionKeeps ==
  ASSUME CartInv, NEW r \in Requests, Cart!WriteAddition(r)
  PROVE  CartInv'
  <1>1. pc[r] = "adding" /\ Moves(r, "idle", None) /\ Finds(cart, lastItem, "adding", job[r])
    BY DEF Cart!WriteAddition, Cart!At, Cart!Leave, Cart!Go, Moves, CartInv
  <1>2. PICK p \in CartProducts : p = job[r].product
    BY <1>1 DEF Finds
  <1>3. PICK q \in Int : q = job[r].quantity
    BY <1>1 DEF Finds
  <1>4. PICK found \in Items \cup {None} : found = job[r].found
    BY <1>1 DEF Finds
  <1>5. lastItem \in Nat /\ cart \in [CartProducts -> Items \cup {None}]
    BY DEF CartInv, CartRows
  <1>6. CASE /\ found # None /\ cart[p] # None /\ cart[p].id = found.id
             /\ cart' = [cart EXCEPT ![p] = Cart!Written(cart[p], Cart!Sum(found, q), q)]
             /\ UNCHANGED lastItem
    <2> PICK x : x = Cart!Written(cart[p], found.quantity + q, q)
      OBVIOUS
    <2>1. /\ found \in Items /\ cart[p] \in Items /\ Sound(cart[p]) /\ cart[p].id <= lastItem
          /\ found.quantity <= cart[p].asked /\ cart[p].back <= found.quantity
      BY <1>1, <1>2, <1>4, <1>5, <1>6 DEF Finds, CartInv, CartRows
    <2>2. /\ found.quantity + q \in Int
          /\ cart[p].back + q <= found.quantity + q
          /\ found.quantity + q <= cart[p].asked + q
      BY <2>1 DEF Items
    <2>3. /\ x \in Items /\ x.id = cart[p].id /\ Sound(x) /\ Spreads(x, cart[p])
      BY <2>1, <2>2, WrittenItem
    <2>4. /\ cart' = [cart EXCEPT ![p] = x] /\ cart[p] # None
          /\ lastItem' \in Nat /\ lastItem' >= lastItem /\ x.id <= lastItem'
      BY <1>5, <1>6, <2>1, <2>3 DEF Cart!Sum
    <2>5. QED
      BY <1>1, <2>3, <2>4, CartWrites
  <1>7. CASE /\ lastItem' = lastItem + 1
             /\ cart' = [cart EXCEPT ![p] = Cart!Fresh(lastItem', q)]
    <2> PICK x : x = Cart!Fresh(lastItem', q)
      OBVIOUS
    <2>1. lastItem' \in Nat
      BY <1>5, <1>7
    <2>2. x \in Items /\ x.id = lastItem' /\ Sound(x)
      BY <2>1, FreshItem
    <2>3. lastItem' >= lastItem /\ x.id > lastItem /\ x.id <= lastItem'
      BY <1>5, <1>7, <2>2
    <2>4. cart' = [cart EXCEPT ![p] = x]
      BY <1>7
    <2>5. QED
      BY <1>1, <2>1, <2>2, <2>3, <2>4, CartWrites
  <1>8. CASE UNCHANGED <<cart, lastItem>>
    BY <1>1, <1>8, CartMoves DEF Finds
  <1>9. QED
    BY <1>2, <1>3, <1>4, <1>6, <1>7, <1>8 DEF Cart!WriteAddition, Cart!Same, Cart!Put

LEMMA QuantityKeeps ==
  ASSUME CartInv, NEW r \in Requests, Cart!WriteQuantity(r)
  PROVE  CartInv'
  <1>1. /\ pc[r] = "setting" /\ Moves(r, "idle", None) /\ Finds(cart, lastItem, "setting", job[r])
        /\ UNCHANGED lastItem
    BY DEF Cart!WriteQuantity, Cart!At, Cart!Leave, Cart!Go, Moves, CartInv
  <1>2. PICK p \in CartProducts : p = job[r].product
    BY <1>1 DEF Finds
  <1>3. PICK q \in Int : q = job[r].quantity
    BY <1>1 DEF Finds
  <1>4. lastItem \in Nat /\ cart \in [CartProducts -> Items \cup {None}]
    BY DEF CartInv, CartRows
  <1>5. CASE UNCHANGED cart
    BY <1>1, <1>5, CartMoves DEF Finds
  <1>6. CASE cart' = [cart EXCEPT ![p] = None]
    <2>1. lastItem' \in Nat /\ lastItem' >= lastItem
      BY <1>1, <1>4
    <2>2. QED
      BY <1>1, <1>6, <2>1, CartWrites
  <1>7. CASE /\ cart[p] # None /\ q > 0
             /\ cart' = [cart EXCEPT ![p] = Cart!Written(cart[p], q, q)]
    <2> PICK x : x = Cart!Written(cart[p], q, q)
      OBVIOUS
    <2>1. cart[p] \in Items /\ cart[p].id <= lastItem /\ Sound(cart[p])
      BY <1>4, <1>7 DEF CartInv, CartRows
    <2>2. x \in Items /\ x.id = cart[p].id /\ Sound(x) /\ Spreads(x, cart[p])
      BY <1>7, <2>1, WrittenItem
    <2>3. /\ cart' = [cart EXCEPT ![p] = x]
          /\ lastItem' \in Nat /\ lastItem' >= lastItem /\ x.id <= lastItem'
      BY <1>1, <1>4, <1>7, <2>1, <2>2
    <2>4. QED
      BY <1>1, <1>7, <2>2, <2>3, CartWrites
  <1>8. QED
    BY <1>2, <1>3, <1>5, <1>6, <1>7 DEF Cart!WriteQuantity, Cart!Same, Cart!Put

(* Products that are taken out of the cart *)
LEMMA CartEmpties ==
  ASSUME CartInv, Cart!Clear \/ \E p \in CartProducts : Cart!Cascade(p)
  PROVE  CartInv'
  <1>1. UNCHANGED <<pc, job, lastItem>>
    BY DEF Cart!Clear, Cart!Cascade, Cart!slotVars
  <1>2. CASE Cart!Clear
    <2>1. cart' = [p \in CartProducts |-> None]
      BY <1>2 DEF Cart!Clear
    <2>2. CartRows(cart', lastItem')
      BY <1>1, <2>1 DEF CartInv, CartRows
    <2>3. \A r \in Requests : Finds(cart', lastItem', pc[r], job[r])
      BY <1>1, <2>1 DEF CartInv, Finds
    <2>4. QED
      BY <1>1, <2>2, <2>3 DEF CartInv, Slotted
  <1>3. ASSUME NEW p \in CartProducts, Cart!Cascade(p)
        PROVE  CartInv'
    <2>1. /\ cart' = [cart EXCEPT ![p] = None] /\ lastItem' \in Nat /\ lastItem' >= lastItem
          /\ CartRows(cart, lastItem)
      BY <1>1, <1>3 DEF Cart!Cascade, Cart!Put, CartInv, CartRows
    <2>2. /\ CartRows(cart', lastItem')
          /\ \A place, what : Finds(cart, lastItem, place, what) =>
               Finds(cart', lastItem', place, what)
      BY <1>1, <2>1, FindsStay DEF CartInv
    <2>3. QED
      BY <1>1, <2>2 DEF CartInv, Slotted
  <1>4. QED
    BY <1>2, <1>3

LEMMA NextCart == CartInv /\ [Cart!Next]_(Cart!vars) => CartInv'
  <1> SUFFICES ASSUME CartInv, [Cart!Next]_(Cart!vars)
               PROVE  CartInv'
    OBVIOUS
  <1>0. cart \in [CartProducts -> Items \cup {None}] /\ CartRows(cart, lastItem) /\ None \notin Items
    BY ItemsAreRows DEF CartInv, CartRows
  <1>1. ASSUME NEW p \in CartProducts, NEW q \in Int
        PROVE  Finds(cart, lastItem, "adding", Cart!Job(p, q, cart[p]))
    <2>1. cart[p] # None => cart[p] \in Items /\ cart[p].id <= lastItem /\ Sound(cart[p])
      BY <1>0 DEF CartRows
    <2>2. QED
      BY <1>0, <2>1 DEF Finds, Cart!Job, Sound
  <1>2. ASSUME NEW r \in Requests, NEW p \in CartProducts, NEW q \in Quantities,
               Cart!AddItem(r, p, q)
        PROVE  CartInv'
    <2>1. q \in Int /\ Moves(r, "adding", Cart!Job(p, q, cart[p])) /\ UNCHANGED <<cart, lastItem>>
      BY <1>2, QuantitiesAssumption DEF Cart!AddItem, Cart!Go, Moves
    <2>2. QED
      BY <1>1, <2>1, CartMoves
  <1>3. ASSUME NEW r \in Requests, NEW p \in CartProducts, NEW q \in Int,
               Cart!UpdateQuantity(r, p, q)
        PROVE  CartInv'
    <2>1. /\ Moves(r, "idle", None) \/ Moves(r, "setting", Cart!Job(p, q, cart[p]))
          /\ UNCHANGED <<cart, lastItem>>
      BY <1>3 DEF Cart!UpdateQuantity, Cart!Leave, Cart!Go, Moves
    <2>2. Finds(cart, lastItem, "setting", Cart!Job(p, q, cart[p])) /\ Finds(cart, lastItem, "idle", None)
      BY DEF Finds, Cart!Job
    <2>3. QED
      BY <2>1, <2>2, CartMoves
  <1>4. ASSUME NEW r \in Requests, NEW p, Cart!Toggle(r, p)
        PROVE  CartInv'
    <2>1. /\ Moves(r, "wishing", Cart!Job(p, 0, Cart!Flipped(wishes, p)))
          /\ UNCHANGED <<cart, lastItem>>
      BY <1>4 DEF Cart!Toggle, Cart!Go, Moves
    <2>2. QED
      BY <2>1, CartMoves DEF Finds
  <1>5. ASSUME NEW r \in Requests, Cart!FindItem(r)
        PROVE  CartInv'
    <2>1. Finds(cart, lastItem, "finding", job[r]) /\ UNCHANGED <<cart, lastItem>>
      BY <1>5 DEF Cart!FindItem, Cart!At, CartInv
    <2>2. PICK p \in CartProducts, q \in Int : p = job[r].product /\ q = job[r].quantity
      BY <2>1 DEF Finds
    <2>3. Moves(r, "adding", Cart!Job(p, q, cart[p]))
      BY <1>5, <2>2 DEF Cart!FindItem, Cart!Go, Moves
    <2>4. QED
      BY <1>1, <2>1, <2>3, CartMoves
  <1>6. ASSUME NEW r \in Requests, Cart!WriteWishes(r) \/ Cart!Fail(r)
        PROVE  CartInv'
    <2>1. Moves(r, "idle", None) /\ UNCHANGED <<cart, lastItem>>
      BY <1>6 DEF Cart!WriteWishes, Cart!Fail, Cart!Stop, Cart!Leave, Cart!Go, Moves
    <2>2. QED
      BY <2>1, CartMoves DEF Finds
  <1>7. ASSUME NEW rs \in SUBSET Requests, NEW q \in Quantities, NEW p \in [rs -> CartProducts],
               Cart!Sync(rs, p, q)
        PROVE  CartInv'
    <2>1. /\ pc' = [r \in Requests |-> IF r \in rs THEN "finding" ELSE pc[r]]
          /\ job' = [r \in Requests |-> IF r \in rs THEN Cart!Job(p[r], q, None) ELSE job[r]]
          /\ UNCHANGED <<cart, lastItem>> /\ q \in Int
      BY <1>7, QuantitiesAssumption DEF Cart!Sync
    <2>2. ASSUME NEW r \in rs
          PROVE  Finds(cart, lastItem, "finding", Cart!Job(p[r], q, None))
      BY <2>1 DEF Finds, Cart!Job
    <2>3. \A r \in Requests : Finds(cart', lastItem', pc'[r], job'[r])
      BY <2>1, <2>2 DEF CartInv
    <2>4. Slotted'
      BY <2>1 DEF Slotted
    <2>5. QED
      BY <2>1, <2>3, <2>4 DEF CartInv
  <1>8. ASSUME NEW r \in Requests, Cart!WriteAddition(r) \/ Cart!WriteQuantity(r)
        PROVE  CartInv'
    BY <1>8, AdditionKeeps, QuantityKeeps
  <1>9. CASE UNCHANGED Cart!vars
    BY <1>9 DEF Cart!vars, Cart!slotVars, CartInv, Slotted
  <1>10. Quantities \subseteq Int /\ 0 \in Int
    BY QuantitiesAssumption
  <1>11. QED
    BY <1>2, <1>3, <1>4, <1>5, <1>6, <1>7, <1>8, <1>9, <1>10, CartEmpties
       DEF Cart!Next, Cart!Entries, Cart!RemoveItem

LEMMA CartsHold == Spec => [](service = "carts" => CartInv)
  <1> DEFINE Inv == service = "carts" => CartInv
  <1>1. Init => Inv
    BY InitCart DEF Init
  <1>2. Inv /\ [Next]_vars => Inv'
    BY NextCart, CartStep, ServiceStays
  <1>3. QED
    BY <1>1, <1>2, PTL DEF Spec

(* NothingIsMadeUp: however additions, updates, removals and failures overlap,
   with whatever quantities, an item holds no more than the positive ones that
   the writes of its row named add up to, and no less than the negative ones. *)
THEOREM CartAddsUp == Spec => []NothingIsMadeUp
  <1>1. (service = "carts" => CartInv) => NothingIsMadeUp
    <2> SUFFICES ASSUME CartInv, NEW p \in CartProducts, cart[p] # None
                 PROVE  cart[p].quantity \in cart[p].back..cart[p].asked
      BY DEF NothingIsMadeUp, Cart!NothingIsMadeUp
    <2>1. cart[p] \in Items /\ Sound(cart[p])
      BY DEF CartInv, CartRows
    <2>2. QED
      BY <2>1 DEF Items, Sound
  <1>2. QED
    BY <1>1, CartsHold, PTL

-----------------------------------------------------------------------------
(* The cart when nothing overlaps *)

LEMMA InitExact == Cart!Init => ExactInv
  BY DEF Cart!Init, Cart!AllIdle, ExactInv, Cart!Held, Busy

LEMMA CartFree ==
  ASSUME ~Overlap, Cart!Open
  PROVE  Busy = {} /\ \A r \in Requests : pc[r] = "idle"
  BY DEF Cart!Open, Cart!Quiet, Cart!Active, Busy

(* Reading keeps what is held exact. *)
LEMMA ExactMoves ==
  ASSUME CartInv, ExactInv, NEW r \in Requests, NEW place, NEW what,
         Moves(r, place, what), UNCHANGED <<cart, wishes, due, wished>>,
         place \in {"adding", "setting"} => what.found = cart[what.product],
         place = "setting" => what.found # None,
         place = "wishing" => what.found = Cart!Flipped(wishes, what.product),
         place \in {"idle", "finding", "adding", "setting", "wishing"},
         \/ place = "idle"
         \/ Busy = {}
         \/ pc[r] = "finding" /\ place = "adding" /\ what.product = job[r].product
  PROVE  ExactInv'
  <1>1. /\ pc'[r] = place /\ job'[r] = what
        /\ \A q \in Requests \ {r} : pc'[q] = pc[q] /\ job'[q] = job[q]
    BY SlotMoves DEF CartInv
  <1>2. \A q \in Requests :
          /\ pc'[q] \in {"adding", "setting"} => job'[q].found = cart[job'[q].product]
          /\ pc'[q] = "setting" => job'[q].found # None
          /\ pc'[q] = "wishing" => job'[q].found = Cart!Flipped(wishes, job'[q].product)
          /\ pc'[q] \in {"idle", "finding", "adding", "setting", "wishing"}
    BY <1>1 DEF ExactInv
  <1>3. ASSUME NEW q \in Requests, NEW s \in Requests, pc'[q] # "idle", pc'[s] # "idle", q # s
        PROVE  {pc'[q], pc'[s]} \subseteq {"finding", "adding"} /\ job'[q].product # job'[s].product
    BY <1>1, <1>3 DEF ExactInv, Busy
  <1>4. \A p \in CartProducts : Cart!Held(p)' = due'[p]
    BY DEF ExactInv, Cart!Held
  <1>5. wishes' = wished' /\ due' = [p \in CartProducts |-> due'[p]]
    BY DEF ExactInv
  <1>6. \A q, s \in Busy' : q # s =>
          {pc'[q], pc'[s]} \subseteq {"finding", "adding"} /\ job'[q].product # job'[s].product
    BY <1>3 DEF Busy
  <1>7. QED
    BY <1>2, <1>4, <1>5, <1>6 DEF ExactInv

(* A write of one item leaves those of the other products as they are. *)
LEMMA ExactWrites ==
  ASSUME CartInv, ExactInv, NEW r \in Requests, pc[r] \in {"adding", "setting"},
         Moves(r, "idle", None), NEW p \in CartProducts, p = job[r].product,
         NEW x, NEW n, cart' = [cart EXCEPT ![p] = x], due' = [due EXCEPT ![p] = n],
         n = IF x = None THEN 0 ELSE x.quantity, UNCHANGED <<wishes, wished>>
  PROVE  ExactInv'
  <1>1. /\ pc'[r] = "idle" /\ job'[r] = None
        /\ \A q \in Requests \ {r} : pc'[q] = pc[q] /\ job'[q] = job[q]
    BY SlotMoves DEF CartInv
  <1>2. /\ cart'[p] = x /\ due'[p] = n
        /\ \A o \in CartProducts \ {p} : cart'[o] = cart[o] /\ due'[o] = due[o]
        /\ due' = [o \in CartProducts |-> due'[o]]
    BY DEF CartInv, CartRows, ExactInv
  <1>3. \A o \in CartProducts : Cart!Held(o)' = due'[o]
    BY <1>2 DEF ExactInv, Cart!Held
  <1>4. ASSUME NEW q \in Requests \ {r}, pc[q] # "idle"
        PROVE  /\ pc[q] \in {"finding", "adding"} /\ job[q].product \in CartProducts \ {p}
    <2>1. pc[q] \in {"finding", "adding"} /\ job[q].product # p
      BY <1>4 DEF ExactInv, Busy
    <2>2. QED
      BY <2>1 DEF CartInv, Finds
  <1>5. \A q \in Requests :
          /\ pc'[q] \in {"adding", "setting"} => job'[q].found = cart'[job'[q].product]
          /\ pc'[q] = "setting" => job'[q].found # None
          /\ pc'[q] = "wishing" => job'[q].found = Cart!Flipped(wishes', job'[q].product)
          /\ pc'[q] \in {"idle", "finding", "adding", "setting", "wishing"}
    BY <1>1, <1>2, <1>4 DEF ExactInv
  <1>6. ASSUME NEW q \in Requests, NEW s \in Requests, pc'[q] # "idle", pc'[s] # "idle", q # s
        PROVE  {pc'[q], pc'[s]} \subseteq {"finding", "adding"} /\ job'[q].product # job'[s].product
    BY <1>1, <1>6 DEF ExactInv, Busy
  <1>7. QED
    BY <1>2, <1>3, <1>5, <1>6 DEF ExactInv, Busy

LEMMA AdditionIsExact ==
  ASSUME CartInv, ExactInv, NEW r \in Requests, Cart!WriteAddition(r)
  PROVE  ExactInv'
  <1>1. /\ pc[r] = "adding" /\ Moves(r, "idle", None) /\ UNCHANGED <<wishes, wished>>
        /\ Finds(cart, lastItem, "adding", job[r])
    BY DEF Cart!WriteAddition, Cart!At, Cart!Leave, Cart!Go, Moves, CartInv
  <1>2. PICK p \in CartProducts : p = job[r].product
    BY <1>1 DEF Finds
  <1>3. PICK q \in Int : q = job[r].quantity
    BY <1>1 DEF Finds
  <1>4. /\ job[r].found = cart[p] /\ Cart!Held(p) = due[p]
        /\ cart[p] \in Items \cup {None}
    BY <1>1, <1>2 DEF ExactInv, CartInv, CartRows
  <1>5. CASE /\ cart[p] # None
             /\ cart' = [cart EXCEPT ![p] = Cart!Written(cart[p], cart[p].quantity + q, q)]
             /\ due' = [due EXCEPT ![p] = due[p] + q]
    <2> PICK x : x = Cart!Written(cart[p], cart[p].quantity + q, q)
      OBVIOUS
    <2>1. /\ cart[p] \in Items /\ Sound(cart[p]) /\ due[p] = cart[p].quantity
      BY <1>4, <1>5 DEF Cart!Held, CartInv, CartRows
    <2>2. /\ cart[p].quantity + q \in Int
          /\ cart[p].back + q <= cart[p].quantity + q
          /\ cart[p].quantity + q <= cart[p].asked + q
      BY <2>1 DEF Items, Sound
    <2>3. x # None /\ x.quantity = due[p] + q
      BY <2>1, <2>2, WrittenItem, ItemsAreRows
    <2>4. cart' = [cart EXCEPT ![p] = x]
      BY <1>5
    <2>5. QED
      BY <1>1, <1>2, <1>5, <2>3, <2>4, ExactWrites
  <1>6. CASE /\ cart[p] = None /\ lastItem' = lastItem + 1
             /\ cart' = [cart EXCEPT ![p] = Cart!Fresh(lastItem', q)]
             /\ due' = [due EXCEPT ![p] = due[p] + q]
    <2> PICK x : x = Cart!Fresh(lastItem', q)
      OBVIOUS
    <2>1. lastItem' \in Nat
      BY <1>6 DEF CartInv, CartRows
    <2>2. x # None /\ x.quantity = due[p] + q
      BY <1>4, <1>6, <2>1, FreshItem, ItemsAreRows DEF Cart!Held
    <2>3. cart' = [cart EXCEPT ![p] = x]
      BY <1>6
    <2>4. QED
      BY <1>1, <1>2, <1>6, <2>2, <2>3, ExactWrites
  <1>7. QED
    BY <1>2, <1>3, <1>4, <1>5, <1>6
       DEF Cart!WriteAddition, Cart!Same, Cart!Put, Cart!Owe, Cart!Sum

LEMMA QuantityIsExact ==
  ASSUME CartInv, ExactInv, NEW r \in Requests, Cart!WriteQuantity(r)
  PROVE  ExactInv'
  <1>1. /\ pc[r] = "setting" /\ Moves(r, "idle", None) /\ UNCHANGED <<wishes, wished>>
        /\ Finds(cart, lastItem, "setting", job[r])
    BY DEF Cart!WriteQuantity, Cart!At, Cart!Leave, Cart!Go, Moves, CartInv
  <1>2. PICK p \in CartProducts : p = job[r].product
    BY <1>1 DEF Finds
  <1>3. PICK q \in Int : q = job[r].quantity
    BY <1>1 DEF Finds
  <1>4. /\ job[r].found = cart[p] /\ cart[p] # None /\ cart[p] \in Items
    BY <1>1, <1>2 DEF ExactInv, CartInv, CartRows
  <1>5. Sound(cart[p])
    BY <1>4 DEF CartInv, CartRows
  <1>6. CASE q <= 0 /\ cart' = [cart EXCEPT ![p] = None] /\ due' = [due EXCEPT ![p] = 0]
    BY <1>1, <1>2, <1>6, ExactWrites
  <1>7. CASE /\ q > 0 /\ cart' = [cart EXCEPT ![p] = Cart!Written(cart[p], q, q)]
             /\ due' = [due EXCEPT ![p] = q]
    <2> PICK x : x = Cart!Written(cart[p], q, q)
      OBVIOUS
    <2>1. x # None /\ x.quantity = q
      BY <1>4, <1>5, <1>7, WrittenItem, ItemsAreRows
    <2>2. cart' = [cart EXCEPT ![p] = x]
      BY <1>7
    <2>3. QED
      BY <1>1, <1>2, <1>7, <2>1, <2>2, ExactWrites
  <1>8. QED
    BY <1>2, <1>3, <1>4, <1>6, <1>7
       DEF Cart!WriteQuantity, Cart!Same, Cart!Put, Cart!Owe

LEMMA WishesAreExact ==
  ASSUME CartInv, ExactInv, NEW r \in Requests, Cart!WriteWishes(r)
  PROVE  ExactInv'
  <1>1. /\ pc[r] = "wishing" /\ Moves(r, "idle", None) /\ UNCHANGED <<cart, due>>
        /\ wishes' = Cart!Flipped(wishes, job[r].product)
        /\ wished' = Cart!Flipped(wished, job[r].product)
    BY DEF Cart!WriteWishes, Cart!At, Cart!Leave, Cart!Go, Moves, ExactInv, Cart!Flipped
  <1>2. wishes' = wished'
    BY <1>1 DEF ExactInv
  <1>3. \A q \in Requests \ {r} : pc[q] = "idle"
    BY <1>1 DEF ExactInv, Busy
  <1>4. \A q \in Requests : pc'[q] = "idle"
    BY <1>1, <1>3, SlotMoves DEF CartInv
  <1>5. QED
    BY <1>1, <1>2, <1>4 DEF ExactInv, Busy, Cart!Held

LEMMA NextExact ==
  ASSUME ~Overlap, CartInv, ExactInv, [Cart!Next]_(Cart!vars)
  PROVE  ExactInv'
  <1>1. ASSUME NEW r \in Requests, NEW p \in CartProducts, NEW q,
               Cart!AddItem(r, p, q) \/ Cart!UpdateQuantity(r, p, q)
        PROVE  ExactInv'
    <2>1. Busy = {} /\ UNCHANGED <<cart, wishes, due, wished>>
      BY <1>1, CartFree DEF Cart!AddItem, Cart!UpdateQuantity, Cart!Admit
    <2>2. \/ Moves(r, "idle", None)
          \/ Moves(r, "adding", Cart!Job(p, q, cart[p]))
          \/ cart[p] # None /\ Moves(r, "setting", Cart!Job(p, q, cart[p]))
      BY <1>1 DEF Cart!AddItem, Cart!UpdateQuantity, Cart!Leave, Cart!Go, Moves
    <2>3. Cart!Job(p, q, cart[p]).found = cart[p] /\ Cart!Job(p, q, cart[p]).product = p
      BY DEF Cart!Job
    <2>4. QED
      BY <2>1, <2>2, <2>3, ExactMoves
  <1>2. ASSUME NEW r \in Requests, NEW p, Cart!Toggle(r, p)
        PROVE  ExactInv'
    <2> PICK j : j = Cart!Job(p, 0, Cart!Flipped(wishes, p))
      OBVIOUS
    <2>1. /\ Busy = {} /\ UNCHANGED <<cart, wishes, due, wished>>
          /\ Moves(r, "wishing", j)
      BY <1>2, CartFree DEF Cart!Toggle, Cart!Admit, Cart!Go, Moves
    <2>2. j.found = Cart!Flipped(wishes, j.product)
      BY DEF Cart!Job
    <2>3. QED
      BY <2>1, <2>2, ExactMoves
  <1>3. ASSUME NEW r \in Requests, Cart!FindItem(r)
        PROVE  ExactInv'
    <2> PICK j : j = Cart!Job(job[r].product, job[r].quantity, cart[job[r].product])
      OBVIOUS
    <2>1. /\ pc[r] = "finding" /\ UNCHANGED <<cart, wishes, due, wished>>
          /\ Moves(r, "adding", j)
      BY <1>3 DEF Cart!FindItem, Cart!At, Cart!Go, Moves
    <2>2. j.found = cart[j.product] /\ j.product = job[r].product
      BY DEF Cart!Job
    <2>3. QED
      BY <2>1, <2>2, ExactMoves
  <1>4. ASSUME NEW r \in Requests, Cart!Fail(r)
        PROVE  ExactInv'
    <2>1. Moves(r, "idle", None) /\ UNCHANGED <<cart, wishes, due, wished>>
      BY <1>4 DEF Cart!Fail, Cart!Stop, Cart!Leave, Cart!Go, Moves
    <2>2. QED
      BY <2>1, ExactMoves
  <1>5. ASSUME NEW rs \in SUBSET Requests, NEW q, NEW p \in [rs -> CartProducts],
               Cart!Sync(rs, p, q)
        PROVE  ExactInv'
    <2>1. /\ pc' = [r \in Requests |-> IF r \in rs THEN "finding" ELSE pc[r]]
          /\ job' = [r \in Requests |-> IF r \in rs THEN Cart!Job(p[r], q, None) ELSE job[r]]
          /\ UNCHANGED <<cart, wishes, due, wished>>
          /\ \A r \in Requests : pc[r] = "idle"
          /\ \A r, s \in rs : r # s => p[r] # p[s]
      BY <1>5, CartFree DEF Cart!Sync
    <2>2. \A r \in Requests : pc'[r] = IF r \in rs THEN "finding" ELSE "idle"
      BY <2>1
    <2>3. \A r \in rs : job'[r].product = p[r]
      BY <2>1 DEF Cart!Job
    <2>4. QED
      BY <2>1, <2>2, <2>3 DEF ExactInv, Busy, Cart!Held
  <1>6. CASE Cart!Clear
    <2>1. /\ cart' = [p \in CartProducts |-> None] /\ due' = [p \in CartProducts |-> 0]
          /\ UNCHANGED <<pc, job, wishes, wished>>
          /\ \A r \in Requests : pc[r] = "idle"
      BY <1>6, CartFree DEF Cart!Clear, Cart!slotVars
    <2>2. QED
      BY <2>1 DEF ExactInv, Busy, Cart!Held
  <1>7. ASSUME NEW p \in CartProducts, Cart!Cascade(p)
        PROVE  ExactInv'
    <2>1. /\ cart' = [cart EXCEPT ![p] = None] /\ due' = [due EXCEPT ![p] = 0]
          /\ UNCHANGED <<pc, job, wishes, wished>>
          /\ \A r \in Requests : pc[r] = "idle"
      BY <1>7, CartFree DEF Cart!Cascade, Cart!Put, Cart!Owe, Cart!slotVars
    <2>2. \A o \in CartProducts : Cart!Held(o)' = due'[o]
      BY <2>1 DEF ExactInv, Cart!Held, CartInv, CartRows
    <2>3. due' = [o \in CartProducts |-> due'[o]]
      BY <2>1 DEF ExactInv
    <2>4. QED
      BY <2>1, <2>2, <2>3 DEF ExactInv, Busy
  <1>8. ASSUME NEW r \in Requests,
               Cart!WriteAddition(r) \/ Cart!WriteQuantity(r) \/ Cart!WriteWishes(r)
        PROVE  ExactInv'
    BY <1>8, AdditionIsExact, QuantityIsExact, WishesAreExact
  <1>9. CASE UNCHANGED Cart!vars
    BY <1>9 DEF Cart!vars, Cart!slotVars, ExactInv, Busy, Cart!Held, Cart!Flipped
  <1>10. QED
    BY <1>1, <1>2, <1>3, <1>4, <1>5, <1>6, <1>7, <1>8, <1>9
       DEF Cart!Next, Cart!Entries, Cart!RemoveItem

(* CartIsExact: when requests do not overlap, a sync with its parallel writes
   and handlers that stop included, the cart holds what the answered requests
   add up to and the wish list what was toggled on last. *)
THEOREM CartAddsUpExactly == ASSUME ~Overlap PROVE Spec => []CartIsExact
  <1> DEFINE Inv == service = "carts" => CartInv /\ ExactInv
  <1>1. Init => Inv
    BY InitCart, InitExact DEF Init
  <1>2. Inv /\ [Next]_vars => Inv'
    BY NextCart, NextExact, CartStep, ServiceStays
  <1>3. Inv => CartIsExact
    BY DEF ExactInv, CartIsExact, Cart!CartIsExact
  <1>4. QED
    BY <1>1, <1>2, <1>3, PTL DEF Spec

-----------------------------------------------------------------------------
(* The types of what buyers write to *)

-----------------------------------------------------------------------------
(* Tickets *)

TicketTypes ==
  /\ Tick!TypeOK /\ Slotted
  /\ \A r \in Requests : pc[r] = "setting" => job[r] \in Tick!Statuses

LEMMA TicketGoes ==
  ASSUME TicketTypes, NEW r \in Requests, NEW place \in {"idle", "replying", "setting"},
         NEW what, Moves(r, place, what), place = "setting" => what \in Tick!Statuses,
         ticket' \in Tick!Statuses \cup {None}, unheard' \in BOOLEAN
  PROVE  TicketTypes'
  <1>1. pc' \in [Requests -> {"idle", "replying", "setting"}]
    BY PlacesStay DEF TicketTypes, Tick!TypeOK
  <1>2. Slotted' /\ \A q \in Requests : pc'[q] = "setting" => job'[q] \in Tick!Statuses
    BY SlotMoves DEF TicketTypes, Tick!Statuses
  <1>3. QED
    BY <1>1, <1>2 DEF TicketTypes, Tick!TypeOK, Tick!Statuses

LEMMA TicketsTyped == TicketTypes /\ [Tick!Next]_(Tick!vars) => TicketTypes'
  <1> SUFFICES ASSUME TicketTypes, [Tick!Next]_(Tick!vars)
               PROVE  TicketTypes'
    OBVIOUS
  <1>1. ASSUME NEW r \in Requests,
               \/ \E side \in {"admin", "user"} : Tick!AddReply(r, side)
               \/ \E s \in Tick!Statuses : Tick!UpdateStatus(r, s)
               \/ Tick!CloseTicket(r) \/ Tick!Fail(r)
        PROVE  TicketTypes'
    <2>1. UNCHANGED <<ticket, unheard>>
      BY <1>1 DEF Tick!AddReply, Tick!UpdateStatus, Tick!CloseTicket, Tick!Fail
    <2>2. \E place \in {"idle", "replying", "setting"} : \E what :
            Moves(r, place, what) /\ (place = "setting" => what \in Tick!Statuses)
      BY <1>1 DEF Tick!AddReply, Tick!UpdateStatus, Tick!CloseTicket, Tick!Fail, Tick!Stop,
                  Tick!Leave, Tick!Go, Moves, Tick!Statuses
    <2>3. QED
      BY <2>1, <2>2, TicketGoes DEF TicketTypes, Tick!TypeOK
  <1>2. ASSUME NEW r \in Requests, Tick!StoreReply(r)
        PROVE  TicketTypes'
    <2>1. ticket' = ticket /\ unheard' \in BOOLEAN
      BY <1>2 DEF Tick!StoreReply, TicketTypes, Tick!TypeOK
    <2>2. \E place \in {"idle", "replying", "setting"} : \E what :
            Moves(r, place, what) /\ (place = "setting" => what \in Tick!Statuses)
      BY <1>2 DEF Tick!StoreReply, Tick!Leave, Tick!Go, Moves, Tick!Statuses
    <2>3. QED
      BY <2>1, <2>2, TicketGoes DEF TicketTypes, Tick!TypeOK
  <1>3. ASSUME NEW r \in Requests, Tick!SetStatus(r)
        PROVE  TicketTypes'
    <2>1. Moves(r, "idle", None) /\ job[r] \in Tick!Statuses
      BY <1>3 DEF Tick!SetStatus, Tick!Leave, Tick!Go, Moves, TicketTypes, Tick!At
    <2>2. ticket' \in Tick!Statuses \cup {None} /\ unheard' \in BOOLEAN
      BY <1>3, <2>1 DEF Tick!SetStatus, TicketTypes, Tick!TypeOK
    <2>3. QED
      BY <2>1, <2>2, TicketGoes
  <1>4. CASE Tick!Create \/ Tick!Cascade
    BY <1>4 DEF Tick!Create, Tick!Cascade, Tick!slotVars, TicketTypes, Tick!TypeOK, Slotted,
                Tick!Statuses
  <1>5. CASE UNCHANGED Tick!vars
    BY <1>5 DEF Tick!vars, Tick!slotVars, TicketTypes, Tick!TypeOK, Slotted
  <1>6. QED
    BY <1>1, <1>2, <1>3, <1>4, <1>5 DEF Tick!Next

LEMMA TicketsAreTyped == Spec => [](service = "tickets" => Tick!TypeOK)
  <1> DEFINE Inv == service = "tickets" => TicketTypes
  <1>1. Init => Inv
    BY DEF Init, Tick!Init, Tick!AllIdle, TicketTypes, Tick!TypeOK, Slotted
  <1>2. Inv /\ [Next]_vars => Inv'
    BY TicketsTyped, TicketStep, ServiceStays
  <1>3. Inv => (service = "tickets" => Tick!TypeOK)
    BY DEF TicketTypes
  <1>4. QED
    BY <1>1, <1>2, <1>3, PTL DEF Spec

-----------------------------------------------------------------------------
(* Referrals *)

ReferralTypes ==
  /\ Ref!TypeOK /\ Slotted
  /\ code # None => code \in drawnCodes
  /\ \A r \in Requests : pc[r] = "storing" => job[r] \in drawnCodes

LEMMA ReferralGoes ==
  ASSUME ReferralTypes, NEW r \in Requests,
         NEW place \in {"idle", "asking", "storing", "matching", "referring", "enrolling"},
         NEW what, Moves(r, place, what), place = "storing" => what \in drawnCodes',
         drawnCodes \subseteq drawnCodes', drawnCodes' \subseteq Codes,
         given' \subseteq drawnCodes',
         code' \in drawnCodes' \cup {None}, applied' \in Nat, enrolled' \in BOOLEAN
  PROVE  ReferralTypes'
  <1>1. pc' \in [Requests -> {"idle", "asking", "storing", "matching", "referring", "enrolling"}]
    BY PlacesStay DEF ReferralTypes, Ref!TypeOK
  <1>2. Slotted' /\ \A q \in Requests : pc'[q] = "storing" => job'[q] \in drawnCodes'
    BY SlotMoves DEF ReferralTypes
  <1>3. QED
    BY <1>1, <1>2 DEF ReferralTypes, Ref!TypeOK

(* A code is handed out, or drawn to be stored. *)
LEMMA ReadCodeTyped ==
  ASSUME ReferralTypes, NEW r \in Requests, Ref!ReadCode(r), UNCHANGED <<code, applied, enrolled>>
  PROVE  ReferralTypes'
  <1>1. CASE code # None
    <2>1. Moves(r, "idle", None) /\ given' = given \cup {code} /\ UNCHANGED drawnCodes
      BY <1>1 DEF Ref!ReadCode, Ref!Leave, Ref!Go, Moves
    <2>2. QED
      BY <1>1, <2>1, ReferralGoes DEF ReferralTypes, Ref!TypeOK
  <1>2. CASE code = None
    <2>1. PICK c \in Codes : drawnCodes' = drawnCodes \cup {c} /\ Moves(r, "storing", c)
                             /\ UNCHANGED given
      BY <1>2 DEF Ref!ReadCode, Ref!Go, Moves
    <2>2. QED
      BY <1>2, <2>1, ReferralGoes DEF ReferralTypes, Ref!TypeOK
  <1>3. QED
    BY <1>1, <1>2

LEMMA ReferralsTyped == ReferralTypes /\ [Ref!Next]_(Ref!vars) => ReferralTypes'
  <1> SUFFICES ASSUME ReferralTypes, [Ref!Next]_(Ref!vars)
               PROVE  ReferralTypes'
    OBVIOUS
  <1> DEFINE Quietly(r) ==
        \E place \in {"idle", "asking", "matching", "referring", "enrolling"} : \E what :
          Moves(r, place, what)
  <1>1. ASSUME NEW r \in Requests, Ref!GetOrCreateCode(r) \/ Ref!AskCode(r)
        PROVE  ReferralTypes'
    BY <1>1, ReadCodeTyped DEF Ref!GetOrCreateCode, Ref!AskCode
  <1>2. ASSUME NEW r \in Requests, Ref!GetReferralInfo(r)
        PROVE  ReferralTypes'
    <2>1. \/ given' = given \cup {code} /\ code # None
          \/ given' = given
      BY <1>2 DEF Ref!GetReferralInfo
    <2>2. Quietly(r) /\ UNCHANGED <<code, drawnCodes, applied, enrolled>>
      BY <1>2 DEF Ref!GetReferralInfo, Ref!Leave, Ref!Go, Moves
    <2>3. QED
      BY <2>1, <2>2, ReferralGoes DEF ReferralTypes, Ref!TypeOK
  <1>3. ASSUME NEW r \in Requests, Ref!StoreCode(r)
        PROVE  ReferralTypes'
    <2>1. /\ job[r] \in drawnCodes /\ code' = job[r] /\ given' = given \cup {job[r]}
          /\ Moves(r, "idle", None) /\ UNCHANGED <<drawnCodes, applied, enrolled>>
      BY <1>3 DEF Ref!StoreCode, Ref!At, Ref!Leave, Ref!Go, Moves, ReferralTypes
    <2>2. QED
      BY <2>1, ReferralGoes DEF ReferralTypes, Ref!TypeOK
  <1>4. ASSUME NEW r \in Requests,
               \/ \E c \in given : Ref!ApplyReferralCode(r, c) \/ Ref!Enrol(r, c)
               \/ Ref!FindExisting(r) \/ Ref!Fail(r)
        PROVE  ReferralTypes'
    <2>1. Quietly(r) /\ UNCHANGED <<code, drawnCodes, given, applied, enrolled>>
      BY <1>4 DEF Ref!ApplyReferralCode, Ref!Enrol, Ref!FindExisting, Ref!Fail, Ref!Stop,
                  Ref!Step, Ref!Leave, Ref!Go, Moves
    <2>2. QED
      BY <2>1, ReferralGoes DEF ReferralTypes, Ref!TypeOK
  <1>5. ASSUME NEW r \in Requests, Ref!CreateReferral(r) \/ Ref!CreateEnrolled(r)
        PROVE  ReferralTypes'
    <2>1. /\ Moves(r, "idle", None) /\ UNCHANGED <<code, drawnCodes, given>>
          /\ applied' \in {applied, applied + 1} /\ enrolled' \in {enrolled, TRUE}
      BY <1>5 DEF Ref!CreateReferral, Ref!CreateEnrolled, Ref!Leave, Ref!Go, Moves
    <2>2. applied' \in Nat
      BY <2>1 DEF ReferralTypes, Ref!TypeOK
    <2>3. enrolled \in BOOLEAN
      BY DEF ReferralTypes, Ref!TypeOK
    <2>4. enrolled' \in BOOLEAN
      BY <2>1, <2>3
    <2>5. QED
      BY <2>1, <2>2, <2>4, ReferralGoes DEF ReferralTypes, Ref!TypeOK
  <1>6. CASE UNCHANGED Ref!vars
    BY <1>6 DEF Ref!vars, Ref!slotVars, ReferralTypes, Ref!TypeOK, Slotted
  <1>7. QED
    BY <1>1, <1>2, <1>3, <1>4, <1>5, <1>6 DEF Ref!Next

LEMMA ReferralsAreTyped == Spec => [](service = "referrals" => Ref!TypeOK)
  <1> DEFINE Inv == service = "referrals" => ReferralTypes
  <1>1. Init => Inv
    <2> SUFFICES ASSUME Ref!Init PROVE ReferralTypes
      BY DEF Init
    <2>1. enrolled \in BOOLEAN
      BY DEF Ref!Init
    <2>2. code \in Codes \cup {None} /\ drawnCodes \in SUBSET Codes /\ given \in SUBSET drawnCodes
          /\ applied \in Nat
      BY DEF Ref!Init
    <2>3. pc = [r \in Requests |-> "idle"] /\ job = [r \in Requests |-> None] /\ code = None
      BY DEF Ref!Init, Ref!AllIdle
    <2>4. QED
      BY <2>1, <2>2, <2>3 DEF ReferralTypes, Ref!TypeOK, Slotted
  <1>2. Inv /\ [Next]_vars => Inv'
    BY ReferralsTyped, ReferralStep, ServiceStays
  <1>3. Inv => (service = "referrals" => Ref!TypeOK)
    BY DEF ReferralTypes
  <1>4. QED
    BY <1>1, <1>2, <1>3, PTL DEF Spec

-----------------------------------------------------------------------------
(* Bundles *)

BundlePlaces ==
  {"idle", "creating", "checking", "emptying", "filling", "renaming", "removing"}

BundleTypes ==
  /\ Bun!TypeOK /\ Slotted
  /\ \A r \in Requests :
       /\ Fits(pc[r], job[r])
       /\ pc[r] # "idle" => job[r].name \in Slugs \cup {None}

BundleRowTypes ==
  /\ slug \in [BundleIds -> Slugs \cup {None}] /\ bundles \in SUBSET BundleIds
  /\ products \in [BundleIds -> SUBSET BundleProducts]
  /\ stock \in SUBSET BundleProducts /\ emptied \in SUBSET BundleIds

LEMMA BundleGoes ==
  ASSUME BundleTypes, NEW r \in Requests, NEW place \in BundlePlaces, NEW what,
         Moves(r, place, what), Fits(place, what),
         place # "idle" => what.name \in Slugs \cup {None}, BundleRowTypes'
  PROVE  BundleTypes'
  <1>1. pc' \in [Requests -> BundlePlaces]
    BY PlacesStay DEF BundleTypes, Bun!TypeOK, BundlePlaces
  <1>2. /\ Slotted' /\ pc'[r] = place /\ job'[r] = what
        /\ \A q \in Requests \ {r} : pc'[q] = pc[q] /\ job'[q] = job[q]
    BY SlotMoves DEF BundleTypes, Slotted, Moves
  <1>3. \A q \in Requests : /\ Fits(pc'[q], job'[q])
                            /\ pc'[q] # "idle" => job'[q].name \in Slugs \cup {None}
    BY <1>2 DEF BundleTypes
  <1>4. QED
    BY <1>1, <1>2, <1>3 DEF BundleTypes, Bun!TypeOK, BundlePlaces, BundleRowTypes

LEMMA ReplaceGoes ==
  ASSUME BundleTypes, NEW r \in Requests, NEW j, j.id \in BundleIds,
         j.name \in Slugs \cup {None}, j.list \in Bun!Lists \cup {None},
         Bun!Replace(r, j), BundleRowTypes'
  PROVE  BundleTypes'
  <1>1. CASE j.list = None
    <2>1. Moves(r, "renaming", j)
      BY <1>1 DEF Bun!Replace, Bun!Kept, Bun!Go, Moves
    <2>2. QED
      BY <2>1, BundleGoes DEF Fits, BundlePlaces
  <1>2. CASE j.list # None
    <2>1. Moves(r, "emptying", j)
      BY <1>2 DEF Bun!Replace, Bun!Kept, Bun!Go, Moves
    <2>2. QED
      BY <1>2, <2>1, BundleGoes DEF Fits, BundlePlaces
  <1>3. QED
    BY <1>1, <1>2

LEMMA BundleEnds ==
  ASSUME BundleTypes, NEW r \in Requests, Bun!Leave(r), BundleRowTypes'
  PROVE  BundleTypes'
  BY BundleGoes DEF Bun!Leave, Bun!Go, Moves, Fits, BundlePlaces

LEMMA BundleEntersTyped ==
  ASSUME BundleTypes, NEW r \in Requests, NEW b \in BundleIds,
         Bun!Creations(r, b) \/ Bun!Updates(r, b) \/ Bun!Remove(r, b)
  PROVE  BundleTypes'
  <1>1. BundleRowTypes'
    BY DEF Bun!Creations, Bun!Create, Bun!AdminCreate, Bun!Updates, Bun!Update, Bun!AdminUpdate,
           Bun!Remove, Bun!rowVars, BundleTypes, Bun!TypeOK, BundleRowTypes
  <1>2. CASE Bun!Creations(r, b)
    <2>1. PICK name \in Slugs, things \in Bun!Lists :
            Bun!Create(r, b, name, things) \/ Bun!AdminCreate(r, b, name, things)
      BY <1>2 DEF Bun!Creations
    <2>2. Bun!Leave(r) \/ Moves(r, "creating", Bun!Job(b, name, things))
      BY <2>1 DEF Bun!Create, Bun!AdminCreate, Bun!Go, Moves
    <2>3. QED
      BY <1>1, <2>2, BundleGoes, BundleEnds DEF Fits, BundlePlaces, Bun!Job
  <1>3. CASE Bun!Updates(r, b)
    <2>1. PICK name \in Slugs \cup {None}, things \in Bun!Lists \cup {None} :
            Bun!Update(r, b, name, things) \/ Bun!AdminUpdate(r, b, name, things)
      BY <1>3 DEF Bun!Updates, Bun!Kept
    <2>2. \/ Bun!Leave(r) \/ Moves(r, "checking", Bun!Job(b, name, things))
          \/ Bun!Replace(r, Bun!Job(b, name, things))
      BY <2>1 DEF Bun!Update, Bun!AdminUpdate, Bun!Go, Moves
    <2>3. QED
      BY <1>1, <2>2, BundleGoes, BundleEnds, ReplaceGoes DEF Fits, BundlePlaces, Bun!Job
  <1>4. CASE Bun!Remove(r, b)
    <2>1. Bun!Leave(r) \/ Moves(r, "removing", Bun!Job(b, None, None))
      BY <1>4 DEF Bun!Remove, Bun!Kept, Bun!Go, Moves
    <2>2. QED
      BY <1>1, <2>1, BundleGoes, BundleEnds DEF Fits, BundlePlaces, Bun!Job
  <1>5. QED
    BY <1>2, <1>3, <1>4

LEMMA BundlesTyped == BundleTypes /\ [Bun!Next]_(Bun!vars) => BundleTypes'
  <1> SUFFICES ASSUME BundleTypes, [Bun!Next]_(Bun!vars)
               PROVE  BundleTypes'
    OBVIOUS
  <1>1. BundleRowTypes
    BY DEF BundleTypes, Bun!TypeOK, BundleRowTypes
  <1>2. ASSUME NEW r \in Requests, Bun!Insert(r)
        PROVE  BundleTypes'
    <2>1. /\ job[r].id \in BundleIds /\ job[r].list.named \in SUBSET BundleProducts
          /\ job[r].name \in Slugs \cup {None}
      BY <1>2 DEF Bun!Insert, Bun!At, BundleTypes, Fits, Bun!Lists
    <2>2. BundleRowTypes'
      BY <1>1, <1>2, <2>1 DEF Bun!Insert, Bun!Holding, Bun!rowVars, BundleRowTypes
    <2>3. QED
      BY <1>2, <2>2, BundleEnds DEF Bun!Insert
  <1>3. ASSUME NEW r \in Requests, Bun!CheckSlug(r)
        PROVE  BundleTypes'
    <2>1. /\ job[r].id \in BundleIds /\ job[r].list \in Bun!Lists \cup {None}
          /\ job[r].name \in Slugs \cup {None}
      BY <1>3 DEF Bun!CheckSlug, Bun!At, BundleTypes, Fits
    <2>2. BundleRowTypes' /\ (Bun!Leave(r) \/ Bun!Replace(r, job[r]))
      BY <1>1, <1>3 DEF Bun!CheckSlug, Bun!rowVars, BundleRowTypes
    <2>3. QED
      BY <2>1, <2>2, BundleEnds, ReplaceGoes
  <1>4. ASSUME NEW r \in Requests, Bun!Empty(r)
        PROVE  BundleTypes'
    <2>1. /\ job[r].id \in BundleIds /\ job[r].list \in Bun!Lists
          /\ job[r].name \in Slugs \cup {None}
      BY <1>4 DEF Bun!Empty, Bun!At, BundleTypes, Fits
    <2>2. BundleRowTypes' /\ Moves(r, "filling", job[r])
      BY <1>1, <1>4, <2>1 DEF Bun!Empty, Bun!Step, Bun!Go, Moves, BundleRowTypes
    <2>3. QED
      BY <2>1, <2>2, BundleGoes DEF Fits, BundlePlaces
  <1>5. ASSUME NEW r \in Requests, Bun!Fill(r)
        PROVE  BundleTypes'
    <2>1. /\ job[r].id \in BundleIds /\ job[r].list.named \in SUBSET BundleProducts
          /\ job[r].name \in Slugs \cup {None}
      BY <1>5 DEF Bun!Fill, Bun!At, BundleTypes, Fits, Bun!Lists
    <2>2. BundleRowTypes'
      BY <1>1, <1>5, <2>1 DEF Bun!Fill, Bun!Holding, Bun!GiveUp, BundleRowTypes
    <2>3. Bun!Leave(r) \/ Moves(r, "renaming", job[r])
      BY <1>5 DEF Bun!Fill, Bun!Step, Bun!Go, Moves
    <2>4. QED
      BY <2>1, <2>2, <2>3, BundleEnds, BundleGoes DEF Fits, BundlePlaces
  <1>6. ASSUME NEW r \in Requests, Bun!Rename(r) \/ Bun!Delete(r)
        PROVE  BundleTypes'
    <2>1. job[r].id \in BundleIds /\ job[r].name \in Slugs \cup {None}
      BY <1>6 DEF Bun!Rename, Bun!Delete, Bun!At, BundleTypes, Fits
    <2>2. BundleRowTypes'
      BY <1>1, <1>6, <2>1 DEF Bun!Rename, Bun!Delete, BundleRowTypes
    <2>3. QED
      BY <1>6, <2>2, BundleEnds DEF Bun!Rename, Bun!Delete
  <1>7. CASE UNCHANGED Bun!vars
    BY <1>7 DEF Bun!vars, Bun!rowVars, Bun!slotVars, BundleTypes, Bun!TypeOK, Slotted
  <1>8. ASSUME NEW r \in Requests, Bun!Fail(r)
        PROVE  BundleTypes'
    <2>1. pc[r] = "filling" => job[r].id \in BundleIds
      BY DEF BundleTypes, Fits
    <2>2. BundleRowTypes'
      BY <1>1, <1>8, <2>1 DEF Bun!Fail, Bun!GiveUp, Bun!At, BundleRowTypes
    <2>3. QED
      BY <1>8, <2>2, BundleEnds DEF Bun!Fail, Bun!Stop
  <1>9. ASSUME NEW p, Bun!DeleteProduct(p)
        PROVE  BundleTypes'
    <2>1. BundleRowTypes' /\ UNCHANGED <<pc, job>>
      BY <1>1, <1>9 DEF Bun!DeleteProduct, Bun!slotVars, BundleRowTypes
    <2>2. QED
      BY <2>1 DEF BundleTypes, Bun!TypeOK, BundleRowTypes, Slotted
  <1>10. QED
    BY <1>2, <1>3, <1>4, <1>5, <1>6, <1>7, <1>8, <1>9, BundleEntersTyped DEF Bun!Next

LEMMA BundlesAreTyped == Spec => [](service = "bundles" => Bun!TypeOK)
  <1> DEFINE Inv == service = "bundles" => BundleTypes
  <1>1. Init => Inv
    BY DEF Init, Bun!Init, Bun!AllIdle, BundleTypes, Bun!TypeOK, Slotted, Fits
  <1>2. Inv /\ [Next]_vars => Inv'
    BY BundlesTyped, BundleStep, ServiceStays
  <1>3. Inv => (service = "bundles" => Bun!TypeOK)
    BY DEF BundleTypes
  <1>4. QED
    BY <1>1, <1>2, <1>3, PTL DEF Spec

-----------------------------------------------------------------------------
(* The cart *)

(* What CartInv does not say. *)
CartTypes ==
  /\ Cart!TypeOK
  /\ \A r \in Requests : pc[r] = "wishing" =>
       job[r].found \in SUBSET CartProducts /\ job[r].product \in CartProducts

CartPlaces == {"idle", "finding", "adding", "setting", "wishing"}

CartRowTypes ==
  /\ \A p \in CartProducts : cart[p] # None => cart[p].id \in 1..lastItem
  /\ lastItem \in 0..MAX_ITEM
  /\ wishes \in SUBSET CartProducts /\ wished \in SUBSET CartProducts
  /\ due \in [CartProducts -> Int]

LEMMA CartGoes ==
  ASSUME CartInv, CartTypes, NEW r \in Requests, NEW place \in CartPlaces, NEW what,
         Moves(r, place, what),
         place = "wishing" => what.found \in SUBSET CartProducts /\ what.product \in CartProducts,
         CartRowTypes'
  PROVE  CartTypes'
  <1>1. pc' \in [Requests -> CartPlaces]
    BY PlacesStay DEF CartTypes, Cart!TypeOK, CartPlaces
  <1>2. /\ pc'[r] = place /\ job'[r] = what
        /\ \A q \in Requests \ {r} : pc'[q] = pc[q] /\ job'[q] = job[q]
    BY SlotMoves DEF CartInv
  <1>3. QED
    BY <1>1, <1>2 DEF CartTypes, Cart!TypeOK, CartPlaces, CartRowTypes

LEMMA AdditionTyped ==
  ASSUME CartInv, CartTypes, NEW r \in Requests, Cart!WriteAddition(r)
  PROVE  CartTypes'
  <1>1. /\ pc[r] = "adding" /\ Moves(r, "idle", None) /\ Finds(cart, lastItem, "adding", job[r])
        /\ UNCHANGED <<wishes, wished>>
    BY DEF Cart!WriteAddition, Cart!At, Cart!Leave, Cart!Go, Moves, CartInv
  <1>2. PICK p \in CartProducts : p = job[r].product
    BY <1>1 DEF Finds
  <1>3. PICK q \in Int : q = job[r].quantity
    BY <1>1 DEF Finds
  <1>4. CartRowTypes /\ cart = [o \in CartProducts |-> cart[o]] /\ due[p] + q \in Int
    BY DEF CartTypes, Cart!TypeOK, CartRowTypes, CartInv, CartRows
  <1>5. CASE UNCHANGED <<cart, due, lastItem>>
    BY <1>1, <1>4, <1>5, CartGoes DEF CartRowTypes, CartPlaces
  <1>6. CASE ~UNCHANGED <<cart, due, lastItem>>
    <2>1. PICK id, n, a, b : cart' = [cart EXCEPT ![p] = Cart!Item(id, n, a, b)]
                          /\ id \in {cart[p].id, lastItem'}
                          /\ due' = [due EXCEPT ![p] = due[p] + q]
                          /\ \/ lastItem' = lastItem /\ cart[p] # None /\ id = cart[p].id
                             \/ lastItem < MAX_ITEM /\ lastItem' = lastItem + 1 /\ id = lastItem'
      BY <1>2, <1>3, <1>6 DEF Cart!WriteAddition, Cart!Same, Cart!Put, Cart!Owe,
                              Cart!Written, Cart!Fresh
    <2>2. lastItem' \in 0..MAX_ITEM /\ lastItem' >= lastItem /\ id \in 1..lastItem'
      BY <1>4, <2>1, BoundsAssumption DEF CartRowTypes
    <2>3. \A o \in CartProducts : cart'[o] # None => cart'[o].id \in 1..lastItem'
      BY <1>4, <2>1, <2>2 DEF CartRowTypes, Cart!Item
    <2>4. CartRowTypes'
      BY <1>1, <1>4, <2>1, <2>2, <2>3 DEF CartRowTypes
    <2>5. QED
      BY <1>1, <2>4, CartGoes DEF CartPlaces
  <1>7. QED
    BY <1>5, <1>6

LEMMA QuantityTyped ==
  ASSUME CartInv, CartTypes, NEW r \in Requests, Cart!WriteQuantity(r)
  PROVE  CartTypes'
  <1>1. /\ pc[r] = "setting" /\ Moves(r, "idle", None) /\ Finds(cart, lastItem, "setting", job[r])
        /\ UNCHANGED <<lastItem, wishes, wished>>
    BY DEF Cart!WriteQuantity, Cart!At, Cart!Leave, Cart!Go, Moves, CartInv
  <1>2. PICK p \in CartProducts : p = job[r].product
    BY <1>1 DEF Finds
  <1>3. PICK q \in Int : q = job[r].quantity
    BY <1>1 DEF Finds
  <1>4. CartRowTypes /\ cart = [o \in CartProducts |-> cart[o]]
    BY DEF CartTypes, Cart!TypeOK, CartRowTypes, CartInv, CartRows
  <1>5. CASE UNCHANGED <<cart, due>>
    BY <1>1, <1>4, <1>5, CartGoes DEF CartRowTypes, CartPlaces
  <1>6. CASE ~UNCHANGED <<cart, due>>
    <2>1. \E n \in Int : due' = [due EXCEPT ![p] = n]
      BY <1>2, <1>3, <1>6 DEF Cart!WriteQuantity, Cart!Owe
    <2>2. \/ cart' = [cart EXCEPT ![p] = None]
          \/ /\ cart[p] # None
             /\ \E n, a, b : cart' = [cart EXCEPT ![p] = Cart!Item(cart[p].id, n, a, b)]
      BY <1>2, <1>3, <1>6 DEF Cart!WriteQuantity, Cart!Same, Cart!Put, Cart!Written
    <2>3. \A o \in CartProducts : cart'[o] # None => cart'[o].id \in 1..lastItem
      BY <1>4, <2>2 DEF CartRowTypes, Cart!Item
    <2>4. CartRowTypes'
      BY <1>1, <1>4, <2>1, <2>3 DEF CartRowTypes
    <2>5. QED
      BY <1>1, <2>4, CartGoes DEF CartPlaces
  <1>7. QED
    BY <1>5, <1>6

LEMMA CartTyped == CartInv /\ CartTypes /\ [Cart!Next]_(Cart!vars) => CartTypes'
  <1> SUFFICES ASSUME CartInv, CartTypes, [Cart!Next]_(Cart!vars)
               PROVE  CartTypes'
    OBVIOUS
  <1>1. CartRowTypes
    BY DEF CartTypes, Cart!TypeOK, CartRowTypes
  <1>2. ASSUME NEW r \in Requests, Cart!Entries(r) \/ Cart!FindItem(r) \/ Cart!Fail(r)
        PROVE  CartTypes'
    <2>1. CartRowTypes'
      BY <1>1, <1>2 DEF Cart!Entries, Cart!RemoveItem, Cart!Toggle, Cart!AddItem,
                        Cart!UpdateQuantity, Cart!FindItem, Cart!Fail, CartRowTypes
    <2>2. \/ \E place \in {"idle", "adding", "setting"} : \E what : Moves(r, place, what)
          \/ \E p \in CartProducts : Moves(r, "wishing", Cart!Job(p, 0, Cart!Flipped(wishes, p)))
      BY <1>2 DEF Cart!Entries, Cart!RemoveItem, Cart!Toggle, Cart!AddItem, Cart!UpdateQuantity,
                  Cart!FindItem, Cart!Fail, Cart!Stop, Cart!Leave, Cart!Go, Moves
    <2>3. \A p \in CartProducts : Cart!Flipped(wishes, p) \in SUBSET CartProducts
      BY <1>1 DEF CartRowTypes, Cart!Flipped
    <2>4. QED
      BY <2>1, <2>2, <2>3, CartGoes DEF CartPlaces, Cart!Job
  <1>3. ASSUME NEW r \in Requests, Cart!WriteWishes(r)
        PROVE  CartTypes'
    <2>1. /\ job[r].found \in SUBSET CartProducts /\ job[r].product \in CartProducts
          /\ Moves(r, "idle", None)
      BY <1>3 DEF Cart!WriteWishes, Cart!At, Cart!Leave, Cart!Go, Moves, CartTypes
    <2>2. CartRowTypes'
      BY <1>1, <1>3, <2>1 DEF Cart!WriteWishes, CartRowTypes
    <2>3. QED
      BY <2>1, <2>2, CartGoes DEF CartPlaces
  <1>4. ASSUME NEW rs \in SUBSET Requests, NEW q, NEW p, Cart!Sync(rs, p, q)
        PROVE  CartTypes'
    <2>1. /\ pc' = [r \in Requests |-> IF r \in rs THEN "finding" ELSE pc[r]]
          /\ job' = [r \in Requests |-> IF r \in rs THEN Cart!Job(p[r], q, None) ELSE job[r]]
          /\ UNCHANGED <<cart, lastItem, wishes, due, wished>>
      BY <1>4 DEF Cart!Sync
    <2>2. pc' \in [Requests -> CartPlaces]
      BY <2>1 DEF CartTypes, Cart!TypeOK, CartPlaces
    <2>3. \A r \in Requests : pc'[r] = "wishing" => pc[r] = "wishing" /\ job'[r] = job[r]
      BY <2>1
    <2>4. QED
      BY <2>1, <2>2, <2>3 DEF CartTypes, Cart!TypeOK, CartPlaces
  <1>5. CASE Cart!Clear \/ \E p \in CartProducts : Cart!Cascade(p)
    <2>1. /\ UNCHANGED <<lastItem, wishes, wished, pc, job>>
          /\ \/ cart' = [o \in CartProducts |-> None] /\ due' = [o \in CartProducts |-> 0]
             \/ \E p \in CartProducts : cart' = [cart EXCEPT ![p] = None]
                                        /\ due' = [due EXCEPT ![p] = 0]
      BY <1>5 DEF Cart!Clear, Cart!Cascade, Cart!Put, Cart!Owe, Cart!slotVars
    <2>2. cart = [o \in CartProducts |-> cart[o]]
      BY DEF CartInv, CartRows
    <2>3. CartRowTypes'
      BY <1>1, <2>1, <2>2 DEF CartRowTypes
    <2>4. QED
      BY <2>1, <2>3 DEF CartTypes, Cart!TypeOK, CartRowTypes
  <1>6. CASE UNCHANGED Cart!vars
    BY <1>6 DEF Cart!vars, Cart!slotVars, CartTypes, Cart!TypeOK
  <1>7. QED
    BY <1>2, <1>3, <1>4, <1>5, <1>6, AdditionTyped, QuantityTyped DEF Cart!Next

LEMMA CartIsTyped == Spec => [](service = "carts" => Cart!TypeOK)
  <1> DEFINE Inv == service = "carts" => CartInv /\ CartTypes
  <1>1. Init => Inv
    BY InitCart, BoundsAssumption DEF Init, Cart!Init, Cart!AllIdle, CartTypes, Cart!TypeOK
  <1>2. Inv /\ [Next]_vars => Inv'
    BY NextCart, CartTyped, CartStep, ServiceStays
  <1>3. Inv => (service = "carts" => Cart!TypeOK)
    BY DEF CartTypes
  <1>4. QED
    BY <1>1, <1>2, <1>3, PTL DEF Spec
=============================================================================
