----------------------------- MODULE ServicesProofs ------------------------------
(***************************************************************************)
(* Proofs about Services: what the proofs of all services use, and then    *)
(* the second factor, the plain records, the chat and the backups.         *)
(*                                                                         *)
(* Each service has an invariant that its own steps keep.  A behaviour of  *)
(* Services is about one service, so that invariant holds as long as that  *)
(* service is the one that runs.                                           *)
(***************************************************************************)
EXTENDS Services, FiniteSetTheorems, FunctionTheorems, TLAPS

(* No step changes which service runs. *)
LEMMA ServiceStays == [Next]_vars => service' = service
  BY DEF Next, Only, vars

-----------------------------------------------------------------------------
(* Counting slots *)

Busy == {r \in Requests : pc[r] # "idle"}

(* Without overlap one handler runs at a time. *)
OneAtATime == ~Overlap => \A q, r \in Busy : q = r

(* How many handlers can run together. *)
Racers == IF Overlap THEN Cardinality(Requests) ELSE 1

LEMMA RacersType == Racers \in Nat \ {0}
  BY SlotsAssumption, FS_CardinalityType, FS_EmptySet DEF Racers

LEMMA CountSome ==
  ASSUME NEW S \in SUBSET Requests
  PROVE  IsFiniteSet(S) /\ Cardinality(S) \in Nat
  BY SlotsAssumption, FS_Subset, FS_CardinalityType

LEMMA CountFewer ==
  ASSUME NEW S \in SUBSET Requests, NEW T \in SUBSET S
  PROVE  Cardinality(T) <= Cardinality(S)
  BY CountSome, FS_Subset

(* Without one of them they are one fewer. *)
LEMMA CountLess ==
  ASSUME NEW S \in SUBSET Requests, NEW r \in S, NEW T \in SUBSET (S \ {r})
  PROVE  Cardinality(T) <= Cardinality(S) - 1
  <1>1. Cardinality(S \ {r}) = Cardinality(S) - 1
    BY CountSome, FS_RemoveElement
  <1>2. Cardinality(T) <= Cardinality(S \ {r})
    BY CountFewer
  <1>3. QED
    BY <1>1, <1>2, CountSome

(* No more slots are busy than can be. *)
LEMMA CountBusy ==
  ASSUME NEW B \in SUBSET Requests, ~Overlap => \A q, r \in B : q = r
  PROVE  Cardinality(B) <= Racers
  <1>1. CASE Overlap
    BY <1>1, CountFewer, SlotsAssumption DEF Racers
  <1>2. CASE ~Overlap /\ B = {}
    BY <1>2, FS_EmptySet DEF Racers
  <1>3. CASE ~Overlap /\ B # {}
    <2>1. PICK r \in B : B = {r}
      BY <1>3
    <2>2. QED
      BY <1>3, <2>1, FS_Singleton DEF Racers
  <1>4. QED
    BY <1>1, <1>2, <1>3

LEMMA CountRacers ==
  ASSUME NEW B \in SUBSET Requests, ~Overlap => \A q, r \in B : q = r,
         NEW S \in SUBSET B
  PROVE  /\ Cardinality(S) \in Nat /\ Cardinality(S) <= Racers
         /\ \A r \in B \ S : Cardinality(S) <= Racers - 1
  <1>1. /\ Cardinality(S) \in Nat /\ Cardinality(B) \in Nat /\ Racers \in Nat
        /\ Cardinality(B) <= Racers
    BY CountSome, CountBusy, RacersType
  <1>2. Cardinality(S) <= Cardinality(B)
    BY CountFewer
  <1>3. ASSUME NEW r \in B \ S PROVE Cardinality(S) <= Cardinality(B) - 1
    BY CountLess
  <1>4. QED
    BY <1>1, <1>2, <1>3

(* The slots are functions; a step of the slot r sets its place and its job. *)
Slotted == pc = [r \in Requests |-> pc[r]] /\ job = [r \in Requests |-> job[r]]

Moves(r, place, what) ==
  /\ pc' = [pc EXCEPT ![r] = place]
  /\ job' = [job EXCEPT ![r] = what]

LEMMA SlotMoves ==
  ASSUME Slotted, NEW r \in Requests, NEW place, NEW what, Moves(r, place, what)
  PROVE  /\ Slotted'
         /\ pc'[r] = place /\ job'[r] = what
         /\ \A q \in Requests \ {r} : pc'[q] = pc[q] /\ job'[q] = job[q]
         /\ OneAtATime /\ (r \in Busy \/ Overlap \/ Busy = {}) => OneAtATime'
  BY DEF Slotted, Moves, OneAtATime, Busy

(* A slot that moves to one of the places stays among them. *)
LEMMA PlacesStay ==
  ASSUME NEW Places, pc \in [Requests -> Places],
         NEW r \in Requests, NEW place \in Places, NEW what, Moves(r, place, what)
  PROVE  pc' \in [Requests -> Places]
  BY DEF Moves

-----------------------------------------------------------------------------
(* Lockout: the types, and the lock that follows the fifth wrong code however
   the two routes overlap. *)

LEMMA LockStep ==
  ASSUME service = "lockout", [Next]_vars
  PROVE  [Lock!Next]_(Lock!vars)
  BY DEF Next, Only, vars, slotVars, lockoutVars, Lock!vars, Lock!rowVars, Lock!slotVars

LockInv == Lock!TypeOK /\ Lock!LockFollows

-----------------------------------------------------------------------------
(* The steps of a slot *)

(* A step of one slot leaves the others where they are. *)
LEMMA LockGo ==
  ASSUME Lock!TypeOK, NEW r \in Requests,
         NEW place \in {"idle", "unlocking", "reading", "checking", "counting", "locking"},
         NEW what \in {None, "login", "enable"}, Lock!Go(r, place, what)
  PROVE  /\ pc' \in [Requests -> {"idle", "unlocking", "reading", "checking",
                                  "counting", "locking"}]
         /\ job' \in [Requests -> {None, "login", "enable"}]
         /\ pc'[r] = place
         /\ \A q \in Requests \ {r} : pc'[q] = pc[q]
  BY DEF Lock!TypeOK, Lock!Go

LEMMA LockLeave ==
  ASSUME Lock!TypeOK, NEW r \in Requests, Lock!Leave(r)
  PROVE  /\ pc' \in [Requests -> {"idle", "unlocking", "reading", "checking",
                                  "counting", "locking"}]
         /\ job' \in [Requests -> {None, "login", "enable"}]
         /\ pc'[r] = "idle"
         /\ \A q \in Requests \ {r} : pc'[q] = pc[q]
  BY LockGo DEF Lock!Leave

LEMMA LockSteps ==
  ASSUME Lock!TypeOK, NEW r \in Requests,
         NEW place \in {"idle", "unlocking", "reading", "checking", "counting", "locking"},
         Lock!Step(r, place)
  PROVE  /\ pc' \in [Requests -> {"idle", "unlocking", "reading", "checking",
                                  "counting", "locking"}]
         /\ job' \in [Requests -> {None, "login", "enable"}]
         /\ pc'[r] = place
         /\ \A q \in Requests \ {r} : pc'[q] = pc[q]
  <1>1. job[r] \in {None, "login", "enable"}
    BY DEF Lock!TypeOK
  <1>2. QED
    BY <1>1, LockGo DEF Lock!Step

(* The checks of the lock only move a slot. *)
LEMMA LockPass ==
  ASSUME Lock!TypeOK, NEW r \in Requests, NEW route \in {"login", "enable"},
         NEW next \in {"checking", "reading"}, Lock!Pass(r, route, next)
  PROVE  /\ pc' \in [Requests -> {"idle", "unlocking", "reading", "checking",
                                  "counting", "locking"}]
         /\ job' \in [Requests -> {None, "login", "enable"}]
         /\ \A q \in Requests \ {r} : pc'[q] = pc[q]
  <1>1. lock \in {"none", "live", "over"}
    BY DEF Lock!TypeOK
  <1>2. CASE lock = "none"
    BY <1>2, LockGo DEF Lock!Pass
  <1>3. CASE lock = "over"
    BY <1>3, LockGo DEF Lock!Pass
  <1>4. CASE lock = "live"
    BY <1>4, LockLeave DEF Lock!Pass
  <1>5. QED
    BY <1>1, <1>2, <1>3, <1>4

-----------------------------------------------------------------------------
(* The invariant *)

LEMMA InitLock == Lock!Init => LockInv
  <1> SUFFICES ASSUME Lock!Init
               PROVE  Lock!TypeOK /\ Lock!LockFollows
    BY DEF LockInv
  <1>1. Lock!TypeOK
    BY DEF Lock!Init, Lock!AllIdle, Lock!TypeOK
  <1>2. Lock!LockFollows
    BY DEF Lock!Init, Lock!LockFollows, Lock!MAX_FAILED_ATTEMPTS
  <1>3. QED
    BY <1>1, <1>2

(* A row that did not change calls for no lock that it did not call for, as
   long as the slot that moved was not the one about to lock. *)
LEMMA LockRests ==
  ASSUME Lock!LockFollows, NEW r \in Requests, pc[r] \notin {"counting", "locking"},
         \A q \in Requests \ {r} : pc'[q] = pc[q], UNCHANGED <<attempts, lock>>
  PROVE  Lock!LockFollows'
  BY DEF Lock!LockFollows

LEMMA NextLock == LockInv /\ [Lock!Next]_(Lock!vars) => LockInv'
  <1> SUFFICES ASSUME LockInv, [Lock!Next]_(Lock!vars)
               PROVE  LockInv'
    OBVIOUS
  <1> USE DEF LockInv
  <1>t. Lock!TypeOK /\ Lock!LockFollows
    OBVIOUS
  <1>1. ASSUME NEW r \in Requests, Lock!LoginWith2fa(r)
        PROVE  LockInv'
    <2>1. Lock!Pass(r, "login", "checking") /\ pc[r] = "idle" /\ UNCHANGED <<Lock!rowVars, wrong>>
      BY <1>1 DEF Lock!LoginWith2fa, Lock!Admit, Lock!Active
    <2>2. QED
      BY <1>t, <2>1, LockPass, LockRests DEF Lock!TypeOK, Lock!rowVars
  <1>2. ASSUME NEW r \in Requests, Lock!CheckLockout(r)
        PROVE  LockInv'
    <2>1. Lock!Pass(r, "enable", "reading") /\ pc[r] = "idle" /\ UNCHANGED <<Lock!rowVars, wrong>>
      BY <1>2 DEF Lock!CheckLockout, Lock!Admit, Lock!Active
    <2>2. QED
      BY <1>t, <2>1, LockPass, LockRests DEF Lock!TypeOK, Lock!rowVars
  <1>3. ASSUME NEW r \in Requests, Lock!Unlock(r)
        PROVE  LockInv'
    <2>1. Lock!TypeOK'
      BY <1>t, <1>3, LockSteps DEF Lock!Unlock, Lock!Forget, Lock!TypeOK
    <2>2. QED
      BY <2>1, <1>3 DEF Lock!Unlock, Lock!Forget, Lock!LockFollows, Lock!MAX_FAILED_ATTEMPTS
  <1>4. ASSUME NEW r \in Requests, Lock!ReadSecret(r)
        PROVE  LockInv'
    <2>1. pc[r] = "reading" /\ UNCHANGED <<Lock!rowVars, wrong>>
      BY <1>4 DEF Lock!ReadSecret, Lock!At
    <2>2. CASE secret
      BY <1>t, <1>4, <2>1, <2>2, LockSteps, LockRests DEF Lock!ReadSecret, Lock!TypeOK, Lock!rowVars
    <2>3. CASE ~secret
      BY <1>t, <1>4, <2>1, <2>3, LockLeave, LockRests DEF Lock!ReadSecret, Lock!TypeOK, Lock!rowVars
    <2>4. QED
      BY <2>2, <2>3
  <1>5. ASSUME NEW r \in Requests, Lock!RecordFailedAttempt(r)
        PROVE  LockInv'
    <2>1. attempts \in Nat /\ wrong \in Nat
      BY <1>t DEF Lock!TypeOK
    <2>2. pc[r] = "checking" /\ attempts' = attempts + 1 /\ wrong' = wrong + 1
          /\ UNCHANGED <<secret, enabled, lock>>
      BY <1>5 DEF Lock!RecordFailedAttempt, Lock!At
    <2>3. CASE Lock!TooMany(attempts')
      BY <1>t, <1>5, <2>1, <2>2, <2>3, LockSteps
         DEF Lock!RecordFailedAttempt, Lock!TypeOK, Lock!LockFollows
    <2>4. CASE ~Lock!TooMany(attempts')
      BY <1>t, <1>5, <2>1, <2>2, <2>4, LockLeave
         DEF Lock!RecordFailedAttempt, Lock!TypeOK, Lock!LockFollows, Lock!TooMany
    <2>5. QED
      BY <2>3, <2>4
  <1>6. ASSUME NEW r \in Requests, Lock!CountFailure(r)
        PROVE  LockInv'
    <2>1. attempts \in Nat /\ wrong \in Nat
      BY <1>t DEF Lock!TypeOK
    <2>2. Lock!Step(r, "counting") /\ attempts' = attempts + 1 /\ wrong' = wrong + 1
          /\ UNCHANGED <<secret, enabled, lock>>
      BY <1>6 DEF Lock!CountFailure
    <2>3. QED
      BY <1>t, <2>1, <2>2, LockSteps DEF Lock!TypeOK, Lock!LockFollows
  <1>7. ASSUME NEW r \in Requests, Lock!Recount(r)
        PROVE  LockInv'
    <2>1. UNCHANGED <<Lock!rowVars, wrong>>
      BY <1>7 DEF Lock!Recount
    <2>2. CASE Lock!TooMany(attempts)
      BY <1>t, <1>7, <2>1, <2>2, LockSteps DEF Lock!Recount, Lock!TypeOK, Lock!LockFollows, Lock!rowVars
    <2>3. CASE ~Lock!TooMany(attempts)
      BY <1>t, <1>7, <2>1, <2>3, LockLeave
         DEF Lock!Recount, Lock!TypeOK, Lock!LockFollows, Lock!TooMany, Lock!rowVars
    <2>4. QED
      BY <2>2, <2>3
  <1>8. ASSUME NEW r \in Requests, Lock!Lock(r)
        PROVE  LockInv'
    BY <1>t, <1>8, LockLeave DEF Lock!Lock, Lock!TypeOK, Lock!LockFollows
  <1>9. ASSUME NEW r \in Requests, Lock!Succeed(r)
        PROVE  LockInv'
    <2>1. attempts' = 0 /\ lock' = "none" /\ wrong' = 0 /\ secret' = secret /\ Lock!Leave(r)
      BY <1>9 DEF Lock!Succeed, Lock!Forget
    <2>2. enabled' \in BOOLEAN
      BY <1>9 DEF Lock!Succeed
    <2>3. QED
      BY <1>t, <2>1, <2>2, LockLeave DEF Lock!TypeOK, Lock!LockFollows, Lock!MAX_FAILED_ATTEMPTS
  <1>10. CASE Lock!GenerateSecret
    BY <1>t, <1>10 DEF Lock!GenerateSecret, Lock!slotVars, Lock!TypeOK, Lock!LockFollows
  <1>11. CASE Lock!Disable
    <2>1. Lock!TypeOK'
      BY <1>t, <1>11 DEF Lock!Disable, Lock!Forget, Lock!slotVars, Lock!TypeOK
    <2>2. Lock!LockFollows'
      BY <1>11 DEF Lock!Disable, Lock!Forget, Lock!LockFollows, Lock!MAX_FAILED_ATTEMPTS
    <2>3. QED
      BY <2>1, <2>2
  <1>12. CASE Lock!RunOut
    BY <1>t, <1>12 DEF Lock!RunOut, Lock!slotVars, Lock!TypeOK, Lock!LockFollows
  <1>13. CASE UNCHANGED Lock!vars
    BY <1>t, <1>13 DEF Lock!vars, Lock!rowVars, Lock!slotVars, Lock!TypeOK, Lock!LockFollows
  <1>14. QED
    BY <1>1, <1>2, <1>3, <1>4, <1>5, <1>6, <1>7, <1>8, <1>9, <1>10, <1>11, <1>12,
       <1>13 DEF Lock!Next, Lock!Check

-----------------------------------------------------------------------------

(* LockFollows: an account whose count has reached five is locked, or a handler
   in flight is about to lock it, whichever of the two routes counted and
   however their statements interleave. *)
THEOREM LockFollowsFive == Spec => []LockFollows
  <1> DEFINE Inv == service = "lockout" => LockInv
  <1>1. Init => Inv
    BY InitLock DEF Init
  <1>2. Inv /\ [Next]_vars => Inv'
    BY NextLock, LockStep, ServiceStays
  <1>3. Inv => LockFollows
    BY DEF LockInv, LockFollows
  <1>4. QED
    BY <1>1, <1>2, <1>3, PTL DEF Spec

(* The types of the second factor *)
LEMMA LockIsTyped == Spec => [](service = "lockout" => Lock!TypeOK)
  <1> DEFINE Inv == service = "lockout" => LockInv
  <1>1. Init => Inv
    BY InitLock DEF Init
  <1>2. Inv /\ [Next]_vars => Inv'
    BY NextLock, LockStep, ServiceStays
  <1>3. Inv => (service = "lockout" => Lock!TypeOK)
    BY DEF LockInv
  <1>4. QED
    BY <1>1, <1>2, <1>3, PTL DEF Spec

-----------------------------------------------------------------------------
(* Lockout: how many wrong codes an account meets before it is locked.

   LockTally counts the handlers that will clear a lock they saw run out (stale),
   those that may still count a code (trying) and those on their way to the lock
   (settling).  A count goes on past the fourth code only in handlers that were
   let through before, and what a stale handler clears is lost once.  Lost bounds
   twice what is lost when all but d of the racers are stale still. *)

Lost(d) == (d - 1) * (d + 8)

LockTally(stale, trying, settling) ==
  /\ lock = "over" => wrong = 0 /\ trying = 0 /\ settling = 0
  /\ lock = "none" => attempts <= 4 + settling
  /\ lock # "over" => attempts + trying <= 4 + Racers - stale
  /\ \/ wrong = 0
     \/ Racers - stale >= 1 /\ 2 * wrong <= 2 * attempts + Lost(Racers - stale)

Among(places) == {r \in Requests : pc[r] \in places}

Stale == Cardinality(Among({"unlocking"}))
Trying == Cardinality(Among({"reading", "checking"}))
Settling == Cardinality(Among({"counting", "locking"}))

WrongInv == LockInv /\ OneAtATime /\ LockTally(Stale, Trying, Settling)

LEMMA LostMore ==
  ASSUME NEW d \in Nat
  PROVE  Lost(d) \in Int /\ Lost(d + 1) = Lost(d) + 2 * d + 8 /\ (d >= 1 => Lost(d) >= 0)
  <1>1. Lost(d) = d * d + 7 * d - 8 /\ Lost(d + 1) = (d + 1) * (d + 1) + 7 * (d + 1) - 8
    BY DEF Lost
  <1>2. (d + 1) * (d + 1) = d * d + 2 * d + 1 /\ d * d \in Nat /\ (d >= 1 => d * d >= d)
    OBVIOUS
  <1>3. QED
    BY <1>1, <1>2

One(b) == IF b THEN 1 ELSE 0

LEMMA CountWithout ==
  ASSUME NEW S \in SUBSET Requests, NEW r
  PROVE  Cardinality(S \ {r}) = Cardinality(S) - One(r \in S) /\ Cardinality(S) \in Nat
  <1>1. IsFiniteSet(S) /\ Cardinality(S) \in Nat
    BY CountSome
  <1>2. CASE r \in S
    BY <1>1, <1>2, FS_RemoveElement DEF One
  <1>3. CASE r \notin S
    <2>1. S \ {r} = S
      BY <1>3
    <2>2. QED
      BY <1>1, <1>3, <2>1 DEF One
  <1>4. QED
    BY <1>2, <1>3

(* A step of one slot moves it from one count to another. *)
LEMMA AmongMoves ==
  ASSUME NEW r \in Requests, NEW here, \A q \in Requests \ {r} : pc'[q] = pc[q]
  PROVE  Cardinality(Among(here)') =
           Cardinality(Among(here)) + One(pc'[r] \in here) - One(pc[r] \in here)
  <1>1. PICK S \in SUBSET Requests : S = Among(here)
    BY DEF Among
  <1>2. PICK T \in SUBSET Requests : T = Among(here)'
    BY DEF Among
  <1>3. S \ {r} = T \ {r} /\ (r \in S <=> pc[r] \in here) /\ (r \in T <=> pc'[r] \in here)
    BY <1>1, <1>2 DEF Among
  <1>4. /\ Cardinality(S \ {r}) = Cardinality(S) - One(r \in S) /\ Cardinality(S) \in Nat
        /\ Cardinality(T \ {r}) = Cardinality(T) - One(r \in T) /\ Cardinality(T) \in Nat
    BY CountWithout
  <1>5. Cardinality(T) = Cardinality(S) + One(pc'[r] \in here) - One(pc[r] \in here)
    BY <1>3, <1>4 DEF One
  <1>6. QED
    BY <1>1, <1>2, <1>5

(* Handlers that are counted apart are together no more than can run. *)
LEMMA CountApart ==
  ASSUME NEW S \in SUBSET Requests, NEW T \in SUBSET Requests, NEW U \in SUBSET Requests,
         S \cap T = {}, (S \cup T) \cap U = {},
         ~Overlap => \A q, r \in (S \cup T) \cup U : q = r
  PROVE  /\ Cardinality(S) \in Nat /\ Cardinality(T) \in Nat /\ Cardinality(U) \in Nat
         /\ Cardinality(S) + Cardinality(T) + Cardinality(U) <= Racers
  <1>1. /\ IsFiniteSet(S) /\ IsFiniteSet(T) /\ IsFiniteSet(U) /\ IsFiniteSet(S \cup T)
        /\ Cardinality(S) \in Nat /\ Cardinality(T) \in Nat /\ Cardinality(U) \in Nat
    BY CountSome
  <1>2. Cardinality(S \cup T) = Cardinality(S) + Cardinality(T) - Cardinality(S \cap T)
    BY <1>1, FS_Union
  <1>3. Cardinality((S \cup T) \cup U) =
          Cardinality(S \cup T) + Cardinality(U) - Cardinality((S \cup T) \cap U)
    BY <1>1, FS_Union
  <1>4. Cardinality((S \cup T) \cup U) = Cardinality(S) + Cardinality(T) + Cardinality(U)
    <2>1. Cardinality(S \cap T) = 0 /\ Cardinality((S \cup T) \cap U) = 0
      BY FS_EmptySet
    <2>2. QED
      BY <1>1, <1>2, <1>3, <2>1
  <1>5. Cardinality((S \cup T) \cup U) <= Racers
    BY CountBusy
  <1>6. QED
    BY <1>1, <1>4, <1>5

LEMMA TallyTypes ==
  ASSUME OneAtATime
  PROVE  /\ Stale \in Nat /\ Trying \in Nat /\ Settling \in Nat
         /\ Stale + Trying + Settling <= Racers
  <1>1. PICK S \in SUBSET Requests : S = Among({"unlocking"})
    BY DEF Among
  <1>2. PICK T \in SUBSET Requests : T = Among({"reading", "checking"})
    BY DEF Among
  <1>3. PICK U \in SUBSET Requests : U = Among({"counting", "locking"})
    BY DEF Among
  <1>4. S \cap T = {} /\ (S \cup T) \cap U = {} /\ (S \cup T) \cup U \subseteq Busy
    BY <1>1, <1>2, <1>3 DEF Among, Busy
  <1>5. ~Overlap => \A q, r \in (S \cup T) \cup U : q = r
    BY <1>4 DEF OneAtATime
  <1>6. QED
    BY <1>1, <1>2, <1>3, <1>4, <1>5, CountApart DEF Stale, Trying, Settling

LEMMA TallyTypesNext ==
  ASSUME OneAtATime'
  PROVE  /\ Stale' \in Nat /\ Trying' \in Nat /\ Settling' \in Nat
         /\ Stale' + Trying' + Settling' <= Racers
  <1>1. PICK S \in SUBSET Requests : S = Among({"unlocking"})'
    BY DEF Among
  <1>2. PICK T \in SUBSET Requests : T = Among({"reading", "checking"})'
    BY DEF Among
  <1>3. PICK U \in SUBSET Requests : U = Among({"counting", "locking"})'
    BY DEF Among
  <1>4. S \cap T = {} /\ (S \cup T) \cap U = {} /\ (S \cup T) \cup U \subseteq Busy'
    BY <1>1, <1>2, <1>3 DEF Among, Busy
  <1>5. ~Overlap => \A q, r \in (S \cup T) \cup U : q = r
    BY <1>4 DEF OneAtATime
  <1>6. QED
    BY <1>1, <1>2, <1>3, <1>4, <1>5, CountApart DEF Stale, Trying, Settling

LEMMA TallyHas ==
  ASSUME NEW r \in Requests, NEW here, pc[r] \in here
  PROVE  Cardinality(Among(here)) \in Nat /\ Cardinality(Among(here)) >= 1
  <1>1. PICK S \in SUBSET Requests : S = Among(here)
    BY DEF Among
  <1>2. r \in S
    BY <1>1 DEF Among
  <1>3. Cardinality(S \ {r}) = Cardinality(S) - 1 /\ Cardinality(S \ {r}) \in Nat
    BY <1>2, CountWithout, CountSome DEF One
  <1>4. QED
    BY <1>1, <1>3, CountSome

(* What a step of one handler does to the counts. *)
LEMMA TallyMoves ==
  ASSUME WrongInv, NEW r \in Requests, \A q \in Requests \ {r} : pc'[q] = pc[q],
         pc[r] # "idle" \/ Overlap \/ Busy = {}
  PROVE  /\ OneAtATime'
         /\ Stale' = Stale + One(pc'[r] = "unlocking") - One(pc[r] = "unlocking")
         /\ Trying' = Trying + One(pc'[r] \in {"reading", "checking"})
                             - One(pc[r] \in {"reading", "checking"})
         /\ Settling' = Settling + One(pc'[r] \in {"counting", "locking"})
                                 - One(pc[r] \in {"counting", "locking"})
         /\ Stale \in Nat /\ Trying \in Nat /\ Settling \in Nat /\ Racers \in Nat \ {0}
         /\ Stale' \in Nat /\ Trying' \in Nat /\ Settling' \in Nat
         /\ Stale + Trying + Settling <= Racers
         /\ Stale' + Trying' + Settling' <= Racers
  <1>1. OneAtATime'
    BY DEF WrongInv, OneAtATime, Busy
  <1>2. /\ Stale' = Stale + One(pc'[r] \in {"unlocking"}) - One(pc[r] \in {"unlocking"})
        /\ Trying' = Trying + One(pc'[r] \in {"reading", "checking"})
                            - One(pc[r] \in {"reading", "checking"})
        /\ Settling' = Settling + One(pc'[r] \in {"counting", "locking"})
                                - One(pc[r] \in {"counting", "locking"})
    BY AmongMoves DEF Stale, Trying, Settling
  <1>3. /\ Stale \in Nat /\ Trying \in Nat /\ Settling \in Nat /\ Racers \in Nat \ {0}
        /\ Stale + Trying + Settling <= Racers
    BY TallyTypes, RacersType DEF WrongInv
  <1>4. /\ Stale' \in Nat /\ Trying' \in Nat /\ Settling' \in Nat
        /\ Stale' + Trying' + Settling' <= Racers
    BY <1>1, TallyTypesNext
  <1>5. QED
    BY <1>1, <1>2, <1>3, <1>4 DEF One

(* Busy = {} is Quiet. *)
LEMMA LockQuiet == Lock!Quiet <=> Busy = {}
  BY DEF Lock!Quiet, Lock!Active, Busy

LEMMA LockAdmits ==
  ASSUME NEW r \in Requests, Lock!Admit(r)
  PROVE  pc[r] = "idle" /\ (Overlap \/ Busy = {})
  BY LockQuiet DEF Lock!Admit, Lock!Active, Lock!Open

(* A row that stays and a handler that is let through, sent back, or done. *)
LEMMA PassTally ==
  ASSUME WrongInv, NEW r \in Requests, NEW route \in {"login", "enable"},
         NEW next \in {"checking", "reading"}, Lock!Admit(r),
         Lock!Pass(r, route, next), UNCHANGED <<attempts, lock, wrong>>
  PROVE  OneAtATime' /\ LockTally(Stale, Trying, Settling)'
  <1>1. /\ pc[r] = "idle" /\ (Overlap \/ Busy = {}) /\ Lock!TypeOK
        /\ LockTally(Stale, Trying, Settling)
    BY LockAdmits DEF WrongInv, LockInv
  <1>2. /\ lock \in {"none", "live", "over"} /\ attempts \in Nat /\ wrong \in Nat
        /\ \A d \in Nat : Lost(d) \in Int
    BY <1>1, LostMore DEF Lock!TypeOK
  <1>3. CASE lock = "none"
    <2>1. pc'[r] = next /\ \A q \in Requests \ {r} : pc'[q] = pc[q]
      BY <1>1, <1>3, LockGo DEF Lock!Pass
    <2>2. /\ OneAtATime' /\ Stale' = Stale /\ Trying' = Trying + 1 /\ Settling' = Settling
          /\ Stale \in Nat /\ Trying \in Nat /\ Settling \in Nat /\ Racers \in Nat
          /\ Stale' + Trying' + Settling' <= Racers
      BY <1>1, <2>1, TallyMoves DEF One
    <2>3. QED
      BY <1>1, <1>2, <1>3, <2>2 DEF LockTally
  <1>4. CASE lock = "over"
    <2>1. pc'[r] = "unlocking" /\ \A q \in Requests \ {r} : pc'[q] = pc[q]
      BY <1>1, <1>4, LockGo DEF Lock!Pass
    <2>2. OneAtATime' /\ Trying' = Trying /\ Settling' = Settling
          /\ Trying \in Nat /\ Settling \in Nat
      BY <1>1, <2>1, TallyMoves DEF One
    <2>3. QED
      BY <1>1, <1>4, <2>2 DEF LockTally
  <1>5. CASE lock = "live"
    <2>1. pc'[r] = "idle" /\ \A q \in Requests \ {r} : pc'[q] = pc[q]
      <3>1. Lock!Leave(r)
        BY <1>5 DEF Lock!Pass
      <3>2. QED
        BY <1>1, <3>1, LockLeave
    <2>2. OneAtATime' /\ Stale' = Stale /\ Trying' = Trying /\ Settling' = Settling
          /\ Stale \in Nat /\ Trying \in Nat /\ Settling \in Nat /\ Racers \in Nat
      <3>1. /\ One(pc'[r] = "unlocking") = One(pc[r] = "unlocking")
            /\ One(pc'[r] \in {"reading", "checking"}) = One(pc[r] \in {"reading", "checking"})
            /\ One(pc'[r] \in {"counting", "locking"}) = One(pc[r] \in {"counting", "locking"})
        BY <1>1, <2>1
      <3>2. /\ One(pc[r] = "unlocking") \in Nat /\ One(pc[r] \in {"reading", "checking"}) \in Nat
            /\ One(pc[r] \in {"counting", "locking"}) \in Nat
        BY DEF One
      <3>3. QED
        BY <1>1, <2>1, <3>1, <3>2, TallyMoves
    <2>3. QED
      BY <1>1, <1>5, <2>2 DEF LockTally
  <1>6. QED
    BY <1>2, <1>3, <1>4, <1>5

LEMMA UnlockTally ==
  ASSUME WrongInv, NEW r \in Requests, Lock!Unlock(r)
  PROVE  OneAtATime' /\ LockTally(Stale, Trying, Settling)'
  <1>1. /\ pc[r] = "unlocking" /\ attempts' = 0 /\ lock' = "none" /\ wrong' = wrong
        /\ Lock!TypeOK /\ LockTally(Stale, Trying, Settling)
    BY DEF Lock!Unlock, Lock!At, Lock!Forget, WrongInv, LockInv
  <1>2. /\ pc'[r] \in {"checking", "reading"}
        /\ \A q \in Requests \ {r} : pc'[q] = pc[q]
    BY <1>1, LockSteps DEF Lock!Unlock
  <1>3. lock \in {"none", "live", "over"} /\ attempts \in Nat /\ wrong \in Nat
    BY <1>1 DEF Lock!TypeOK
  <1>4. /\ OneAtATime' /\ Stale' = Stale - 1 /\ Trying' = Trying + 1 /\ Settling' = Settling
        /\ Stale \in Nat /\ Trying \in Nat /\ Settling \in Nat /\ Racers \in Nat
        /\ Stale' \in Nat /\ Stale' + Trying' + Settling' <= Racers
    BY <1>1, <1>2, TallyMoves DEF One
  <1>5. wrong = 0 \/ (Racers - Stale' >= 1 /\ 2 * wrong <= Lost(Racers - Stale'))
    <2>1. CASE wrong = 0
      BY <2>1
    <2>2. CASE wrong # 0
      <3>1. PICK d \in Nat : d = Racers - Stale
        BY <1>4
      <3>2. /\ d >= 1 /\ 2 * wrong <= 2 * attempts + Lost(d)
            /\ attempts + Trying <= 4 + d
        BY <1>1, <1>3, <1>4, <2>2, <3>1 DEF LockTally
      <3>3. Lost(d) \in Int /\ Lost(d + 1) = Lost(d) + 2 * d + 8
        BY LostMore
      <3>4. Racers - Stale' = d + 1 /\ 2 * wrong <= Lost(d + 1)
        BY <1>3, <1>4, <3>1, <3>2, <3>3
      <3>5. QED
        BY <3>1, <3>2, <3>4
    <2>3. QED
      BY <2>1, <2>2
  <1>6. Lost(Racers - Stale') \in Int
    BY <1>4, LostMore
  <1>7. QED
    BY <1>1, <1>3, <1>4, <1>5, <1>6 DEF LockTally

(* A wrong code is counted; the handler goes on to the lock, or has met fewer than
   five. *)
LEMMA FailureTally ==
  ASSUME WrongInv, NEW r \in Requests, pc[r] = "checking",
         attempts' = attempts + 1, wrong' = wrong + 1, lock' = lock,
         \A q \in Requests \ {r} : pc'[q] = pc[q],
         pc'[r] \in {"counting", "locking"} \/ (pc'[r] = "idle" /\ attempts' <= 4)
  PROVE  OneAtATime' /\ LockTally(Stale, Trying, Settling)'
  <1>1. LockTally(Stale, Trying, Settling) /\ attempts \in Nat /\ wrong \in Nat
    BY DEF WrongInv, LockInv, Lock!TypeOK
  <1>2. /\ OneAtATime' /\ Stale' = Stale /\ Trying' = Trying - 1
        /\ Settling' = Settling + One(pc'[r] \in {"counting", "locking"})
        /\ Stale \in Nat /\ Trying \in Nat /\ Settling \in Nat /\ Racers \in Nat
        /\ Trying' \in Nat /\ Settling' \in Nat
        /\ Stale + Trying + Settling <= Racers
    BY TallyMoves DEF One
  <1>3. Settling' = Settling + 1 \/ (Settling' = Settling /\ attempts' <= 4)
    BY <1>2 DEF One
  <1>4. PICK d \in Nat : d = Racers - Stale
    BY <1>2
  <1>5. d >= 1 /\ Lost(d) \in Int /\ Lost(d) >= 0
    BY <1>2, <1>4, LostMore
  <1>6. Racers - Stale' >= 1 /\ 2 * wrong' <= 2 * attempts' + Lost(Racers - Stale')
    <2>1. CASE wrong = 0
      BY <1>1, <1>2, <1>4, <1>5, <2>1
    <2>2. CASE wrong # 0
      BY <1>1, <1>2, <1>4, <1>5, <2>2 DEF LockTally
    <2>3. QED
      BY <2>1, <2>2
  <1>7. QED
    BY <1>1, <1>2, <1>3, <1>6 DEF LockTally

LEMMA CountOn ==
  ASSUME NEW a \in Nat, NEW b \in Nat, NEW c \in Nat, NEW d \in Int
  PROVE  b <= c /\ a + c <= 4 + d => a + b <= 4 + d
  OBVIOUS

LEMMA CountUnder ==
  ASSUME NEW a \in Nat, NEW b \in Nat
  PROVE  a <= 4 => a <= 4 + b
  OBVIOUS

(* The row stays, and a handler moves on between places that are counted alike, or
   it is done. *)
LEMMA RestTally ==
  ASSUME WrongInv, NEW r \in Requests, pc[r] # "idle",
         UNCHANGED <<attempts, wrong>>, lock' = lock \/ lock' = "live",
         \A q \in Requests \ {r} : pc'[q] = pc[q],
         \/ pc[r] = "reading" /\ pc'[r] \in {"checking", "idle"}
         \/ pc[r] = "counting" /\ pc'[r] = "locking"
         \/ pc[r] = "counting" /\ pc'[r] = "idle" /\ attempts <= 4
         \/ pc[r] = "locking" /\ pc'[r] = "idle" /\ lock' = "live"
  PROVE  OneAtATime' /\ LockTally(Stale, Trying, Settling)'
  <1>1. /\ LockTally(Stale, Trying, Settling) /\ attempts \in Nat /\ wrong \in Nat
        /\ lock \in {"none", "live", "over"}
    BY DEF WrongInv, LockInv, Lock!TypeOK
  <1>2. /\ OneAtATime' /\ Stale' = Stale
        /\ Stale \in Nat /\ Racers \in Nat /\ Trying \in Nat /\ Trying' \in Nat
        /\ Settling \in Nat /\ Settling' \in Nat
    BY TallyMoves DEF One
  <1>3. Trying' <= Trying /\ Settling' <= Settling
    BY TallyMoves DEF One
  <1>4. Trying >= 1 \/ Settling >= 1
    BY TallyHas DEF Trying, Settling
  <1>5. lock # "over"
    BY <1>1, <1>2, <1>4 DEF LockTally
  <1>6. lock' # "over" /\ (lock' = "none" => attempts <= 4 + Settling')
    <2>1. CASE pc[r] = "reading" \/ (pc[r] = "counting" /\ pc'[r] = "locking")
      <3>1. Settling' = Settling
        BY <2>1, TallyMoves DEF One
      <3>2. QED
        BY <1>1, <1>5, <3>1 DEF LockTally
    <2>2. CASE lock' = "live"
      BY <2>2
    <2>3. CASE attempts <= 4
      <3>1. attempts <= 4 + Settling'
        BY <1>1, <1>2, <2>3, CountUnder
      <3>2. QED
        BY <1>5, <3>1
    <2>4. QED
      BY <2>1, <2>2, <2>3
  <1>7. PICK d \in Int : d = Racers - Stale
    BY <1>2
  <1>8. attempts + Trying' <= 4 + d
    <2>1. attempts + Trying <= 4 + d
      <3>1. attempts + Trying <= 4 + Racers - Stale
        BY <1>1, <1>5 DEF LockTally
      <3>2. 4 + Racers - Stale = 4 + d
        BY <1>2, <1>7
      <3>3. QED
        BY <3>1, <3>2
    <2>2. QED
      BY <1>1, <1>2, <1>3, <1>7, <2>1, CountOn
  <1>9. wrong = 0 \/ (d >= 1 /\ 2 * wrong <= 2 * attempts + Lost(d))
    BY <1>1, <1>7 DEF LockTally
  <1>10. QED
    BY <1>2, <1>6, <1>7, <1>8, <1>9 DEF LockTally

(* A count that starts over leaves nothing to bound. *)
LEMMA ForgetTally ==
  ASSUME OneAtATime', attempts' = 0, lock' = "none", wrong' = 0
  PROVE  LockTally(Stale, Trying, Settling)'
  BY TallyTypesNext, RacersType DEF LockTally

(* Between requests nothing is counted. *)
LEMMA QuietTally ==
  ASSUME Lock!Quiet
  PROVE  Stale = 0 /\ Trying = 0 /\ Settling = 0
  <1>1. Among({"unlocking"}) = {} /\ Among({"reading", "checking"}) = {}
        /\ Among({"counting", "locking"}) = {}
    BY DEF Among, Lock!Quiet, Lock!Active
  <1>2. QED
    BY <1>1, FS_EmptySet DEF Stale, Trying, Settling

LEMMA NextWrong == WrongInv /\ [Lock!Next]_(Lock!vars) => WrongInv'
  <1> SUFFICES ASSUME WrongInv, [Lock!Next]_(Lock!vars)
               PROVE  OneAtATime' /\ LockTally(Stale, Trying, Settling)'
    BY NextLock DEF WrongInv
  <1>t. Lock!TypeOK /\ attempts \in Nat
    BY DEF WrongInv, LockInv, Lock!TypeOK
  <1>1. ASSUME NEW r \in Requests, Lock!LoginWith2fa(r) \/ Lock!CheckLockout(r)
        PROVE  OneAtATime' /\ LockTally(Stale, Trying, Settling)'
    BY <1>1, PassTally DEF Lock!LoginWith2fa, Lock!CheckLockout, Lock!rowVars
  <1>2. ASSUME NEW r \in Requests, Lock!Unlock(r)
        PROVE  OneAtATime' /\ LockTally(Stale, Trying, Settling)'
    BY <1>2, UnlockTally
  <1>3. ASSUME NEW r \in Requests, Lock!ReadSecret(r)
        PROVE  OneAtATime' /\ LockTally(Stale, Trying, Settling)'
    <2>1. pc[r] = "reading" /\ UNCHANGED <<attempts, lock, wrong>>
      BY <1>3 DEF Lock!ReadSecret, Lock!At, Lock!rowVars
    <2>2. pc'[r] \in {"checking", "idle"} /\ \A q \in Requests \ {r} : pc'[q] = pc[q]
      BY <1>t, <1>3, LockSteps, LockLeave DEF Lock!ReadSecret
    <2>3. QED
      BY <2>1, <2>2, RestTally
  <1>4. ASSUME NEW r \in Requests, Lock!RecordFailedAttempt(r)
        PROVE  OneAtATime' /\ LockTally(Stale, Trying, Settling)'
    <2>1. pc[r] = "checking" /\ attempts' = attempts + 1 /\ wrong' = wrong + 1 /\ lock' = lock
      BY <1>4 DEF Lock!RecordFailedAttempt, Lock!At
    <2>2. CASE Lock!TooMany(attempts')
      <3>1. pc'[r] = "locking" /\ \A q \in Requests \ {r} : pc'[q] = pc[q]
        BY <1>t, <1>4, <2>2, LockSteps DEF Lock!RecordFailedAttempt
      <3>2. QED
        BY <2>1, <3>1, FailureTally
    <2>3. CASE ~Lock!TooMany(attempts')
      <3>1. pc'[r] = "idle" /\ \A q \in Requests \ {r} : pc'[q] = pc[q]
        BY <1>t, <1>4, <2>3, LockLeave DEF Lock!RecordFailedAttempt
      <3>2. attempts' <= 4
        BY <1>t, <2>1, <2>3 DEF Lock!TooMany, Lock!MAX_FAILED_ATTEMPTS
      <3>3. QED
        BY <2>1, <3>1, <3>2, FailureTally
    <2>4. QED
      BY <2>2, <2>3
  <1>5. ASSUME NEW r \in Requests, Lock!CountFailure(r)
        PROVE  OneAtATime' /\ LockTally(Stale, Trying, Settling)'
    <2>1. /\ pc[r] = "checking" /\ attempts' = attempts + 1 /\ wrong' = wrong + 1 /\ lock' = lock
          /\ Lock!Step(r, "counting")
      BY <1>5 DEF Lock!CountFailure, Lock!At
    <2>2. pc'[r] = "counting" /\ \A q \in Requests \ {r} : pc'[q] = pc[q]
      BY <1>t, <2>1, LockSteps
    <2>3. QED
      BY <2>1, <2>2, FailureTally
  <1>6. ASSUME NEW r \in Requests, Lock!Recount(r)
        PROVE  OneAtATime' /\ LockTally(Stale, Trying, Settling)'
    <2>1. pc[r] = "counting" /\ UNCHANGED <<attempts, lock, wrong>>
      BY <1>6 DEF Lock!Recount, Lock!At, Lock!rowVars
    <2>2. CASE Lock!TooMany(attempts)
      <3>1. pc'[r] = "locking" /\ \A q \in Requests \ {r} : pc'[q] = pc[q]
        BY <1>t, <1>6, <2>2, LockSteps DEF Lock!Recount
      <3>2. QED
        BY <2>1, <3>1, RestTally
    <2>3. CASE ~Lock!TooMany(attempts)
      <3>1. pc'[r] = "idle" /\ \A q \in Requests \ {r} : pc'[q] = pc[q]
        BY <1>t, <1>6, <2>3, LockLeave DEF Lock!Recount
      <3>2. attempts <= 4
        BY <1>t, <2>3 DEF Lock!TooMany, Lock!MAX_FAILED_ATTEMPTS
      <3>3. QED
        BY <2>1, <3>1, <3>2, RestTally
    <2>4. QED
      BY <2>2, <2>3
  <1>7. ASSUME NEW r \in Requests, Lock!Lock(r)
        PROVE  OneAtATime' /\ LockTally(Stale, Trying, Settling)'
    <2>1. pc[r] = "locking" /\ lock' = "live" /\ UNCHANGED <<attempts, wrong>> /\ Lock!Leave(r)
      BY <1>7 DEF Lock!Lock, Lock!At
    <2>2. pc'[r] = "idle" /\ \A q \in Requests \ {r} : pc'[q] = pc[q]
      BY <1>t, <2>1, LockLeave
    <2>3. QED
      BY <2>1, <2>2, RestTally
  <1>8. ASSUME NEW r \in Requests, Lock!Succeed(r)
        PROVE  OneAtATime' /\ LockTally(Stale, Trying, Settling)'
    <2>1. /\ pc[r] = "checking" /\ attempts' = 0 /\ lock' = "none" /\ wrong' = 0
          /\ Lock!Leave(r)
      BY <1>8 DEF Lock!Succeed, Lock!At, Lock!Forget
    <2>2. \A q \in Requests \ {r} : pc'[q] = pc[q]
      BY <1>t, <2>1, LockLeave
    <2>3. OneAtATime'
      BY <2>1, <2>2, TallyMoves
    <2>4. QED
      BY <2>1, <2>3, ForgetTally
  <1>9. ASSUME pc' = pc
        PROVE  /\ OneAtATime' /\ Stale' = Stale /\ Trying' = Trying /\ Settling' = Settling
               /\ Stale \in Nat /\ Trying \in Nat /\ Settling \in Nat
               /\ LockTally(Stale, Trying, Settling)
    BY <1>9, TallyTypes DEF WrongInv, OneAtATime, Busy, Stale, Trying, Settling, Among
  <1>10. CASE Lock!GenerateSecret \/ UNCHANGED Lock!vars
    <2>1. pc' = pc /\ UNCHANGED <<attempts, lock, wrong>>
      BY <1>10 DEF Lock!GenerateSecret, Lock!vars, Lock!rowVars, Lock!slotVars
    <2>2. QED
      BY <1>9, <2>1 DEF LockTally
  <1>11. CASE Lock!Disable
    <2>1. pc' = pc /\ attempts' = 0 /\ lock' = "none" /\ wrong' = 0
      BY <1>11 DEF Lock!Disable, Lock!Forget, Lock!slotVars
    <2>2. QED
      BY <1>9, <2>1, ForgetTally
  <1>12. CASE Lock!RunOut
    <2>1. pc' = pc /\ lock' = "over" /\ wrong' = 0 /\ Lock!Quiet
      BY <1>12 DEF Lock!RunOut, Lock!slotVars
    <2>2. Trying' = 0 /\ Settling' = 0
      BY <1>9, <2>1, QuietTally
    <2>3. QED
      BY <1>9, <2>1, <2>2 DEF LockTally
  <1>13. QED
    BY <1>1, <1>2, <1>3, <1>4, <1>5, <1>6, <1>7, <1>8, <1>10, <1>11, <1>12
       DEF Lock!Next, Lock!Check

LEMMA InitWrong == Lock!Init => WrongInv
  <1> SUFFICES ASSUME Lock!Init
               PROVE  OneAtATime /\ LockTally(Stale, Trying, Settling)
    BY InitLock DEF WrongInv
  <1>1. /\ pc = [r \in Requests |-> "idle"]
        /\ attempts = 0 /\ lock = "none" /\ wrong = 0
    BY DEF Lock!Init, Lock!AllIdle
  <1>2. OneAtATime /\ Lock!Quiet
    BY <1>1 DEF OneAtATime, Busy, Lock!Quiet, Lock!Active
  <1>3. QED
    BY <1>1, <1>2, QuietTally, RacersType DEF LockTally

(* The cardinality that Lockout counts with. *)
LEMMA LockCardinality == \A S : Lock!Cardinality(S) = Cardinality(S)
  BY DEF Lock!Cardinality, Cardinality, Lock!IsFiniteSet, IsFiniteSet

(* Half of n * (n + 7) is the bound. *)
LEMMA HalfOf ==
  ASSUME NEW n \in Nat \ {0}, NEW w \in Nat, 2 * w <= n * (n + 7)
  PROVE  w <= n * 4 + (n * (n - 1)) \div 2
  <1>1. PICK k \in Nat : k = n * (n - 1)
    OBVIOUS
  <1>2. n * (n + 7) = k + 8 * n
    BY <1>1
  <1>3. QED
    BY <1>1, <1>2

LEMMA WrongBound == WrongInv => Lock!WrongIsBounded
  <1> SUFFICES ASSUME WrongInv, Lock!Quiet, lock = "none"
               PROVE  wrong <= Racers * 4 + (Racers * (Racers - 1)) \div 2
    BY LockCardinality DEF Lock!WrongIsBounded, Lock!MAX_FAILED_ATTEMPTS, Racers
  <1>1. LockTally(0, 0, 0) /\ attempts \in Nat /\ wrong \in Nat
    BY QuietTally DEF WrongInv, LockInv, Lock!TypeOK
  <1>2. PICK n \in Nat \ {0} : n = Racers
    BY RacersType
  <1>3. attempts <= 4 /\ (wrong = 0 \/ 2 * wrong <= 2 * attempts + Lost(n))
    BY <1>1, <1>2 DEF LockTally
  <1>4. Lost(n) = n * (n + 7) - 8 /\ n * (n + 7) \in Nat
    BY DEF Lost
  <1>5. 2 * wrong <= n * (n + 7)
    BY <1>1, <1>3, <1>4
  <1>6. QED
    BY <1>1, <1>2, <1>5, HalfOf

-----------------------------------------------------------------------------

(* WrongIsBounded: where n requests run together, an account that is not locked
   has met at most n times four wrong codes and one more for each two requests,
   however many routes and stale locks take part, and for every n. *)
THEOREM WrongCodesAreBounded == Spec => []WrongIsBounded
  <1> DEFINE Inv == service = "lockout" => WrongInv
  <1>1. Init => Inv
    BY InitWrong DEF Init
  <1>2. Inv /\ [Next]_vars => Inv'
    BY NextWrong, LockStep, ServiceStays
  <1>3. Inv => WrongIsBounded
    BY WrongBound DEF WrongIsBounded
  <1>4. QED
    BY <1>1, <1>2, <1>3, PTL DEF Spec

-----------------------------------------------------------------------------
(* Records: edits that overlap neither undo each other nor bring a row back. *)

LEMMA RecordStep ==
  ASSUME service = "records", [Next]_vars
  PROVE  [Rec!Next]_(Rec!vars)
  BY DEF Next, Only, vars, slotVars, recordVars, Rec!vars, Rec!slotVars

LEMMA RecordsRest ==
  ASSUME service # "records", [Next]_vars
  PROVE  UNCHANGED <<kind, row, born>>
  BY DEF Next, Only, Still, vars, recordVars

(* What the handlers hold when they write. *)
WriterInv ==
  /\ pc \in [Requests -> {"idle", "writing", "logging"}]
  /\ job = [r \in Requests |-> job[r]]
  /\ \A r \in Requests : Rec!At(r, "writing") =>
       /\ job[r].id \in RowIds
       /\ job[r].edit = None \/ job[r].edit \in Rec!Partial

(* A row that was never made is not there. *)
TableInv ==
  /\ row \in [RowIds -> Rec!Rows \cup {None}]
  /\ born \subseteq RowIds
  /\ \A i \in RowIds : row[i] # None => i \in born

EditInv == WriterInv /\ TableInv

(* What EditsKeepToTheirFields says of one step. *)
Keeps ==
  /\ \A i \in born : row[i] = None => row'[i] = None
  /\ \A i \in RowIds : row[i] # None /\ row'[i] # None =>
       \A f \in Rec!Fields : row'[i][f] # row[i][f] =>
         \E r \in Requests : Rec!Writes(r, i, f)

-----------------------------------------------------------------------------

LEMMA InitEdit == Rec!Init => EditInv
  BY DEF Rec!Init, Rec!AllIdle, EditInv, WriterInv, TableInv, Rec!At

(* An edit is laid over the row: the other fields stay. *)
LEMMA MergeLays ==
  ASSUME NEW old \in Rec!Rows, NEW found, NEW edit \in Rec!Partial
  PROVE  /\ Rec!Merge(old, found, edit) \in Rec!Rows
         /\ \A f \in Rec!Fields : f \notin DOMAIN edit => Rec!Merge(old, found, edit)[f] = old[f]
  <1>1. PICK fs \in SUBSET Rec!Fields : edit \in [fs -> Values]
    BY DEF Rec!Partial
  <1>2. QED
    BY <1>1 DEF Rec!Merge, Rec!Lay, Rec!Rows

(* A slot that comes to rest, or to the log, writes nothing. *)
LEMMA RecordRests ==
  ASSUME WriterInv, NEW r \in Requests, Rec!Leave(r) \/ Rec!Step(r, "logging")
  PROVE  WriterInv'
  BY DEF WriterInv, Rec!Leave, Rec!Step, Rec!Go, Rec!At

LEMMA RecordWrites ==
  ASSUME WriterInv, NEW r \in Requests, NEW i \in RowIds, NEW edit \in Rec!Partial \cup {None},
         NEW found, NEW by, Rec!Go(r, "writing", Rec!Job(i, edit, found, by))
  PROVE  WriterInv'
  BY DEF WriterInv, Rec!Go, Rec!At, Rec!Job

-----------------------------------------------------------------------------
(* The three kinds of step *)

LEMMA InsertKeeps ==
  ASSUME EditInv, NEW r \in Requests, NEW i \in RowIds, NEW fields \in Rec!Rows, NEW by,
         Rec!Insert(r, i, fields, by)
  PROVE  EditInv' /\ Keeps
  <1>1. /\ i \notin born /\ born' = born \cup {i}
        /\ row' = [row EXCEPT ![i] = fields]
    BY DEF Rec!Insert
  <1>2. WriterInv'
    BY DEF Rec!Insert, Rec!Go, Rec!slotVars, EditInv, WriterInv, Rec!At
  <1>3. TableInv'
    BY <1>1 DEF EditInv, TableInv
  <1>4. Keeps
    BY <1>1 DEF EditInv, TableInv, Keeps
  <1>5. QED
    BY <1>2, <1>3, <1>4 DEF EditInv

LEMMA ReadKeeps ==
  ASSUME EditInv, NEW r \in Requests, NEW i \in RowIds, NEW edit \in Rec!Partial \cup {None},
         Rec!Blind(r, i, edit) \/ \E by \in {"admin", "service"} : Rec!Find(r, i, edit, by)
  PROVE  EditInv' /\ Keeps
  <1>1. UNCHANGED <<row, born>>
    BY DEF Rec!Blind, Rec!Find
  <1>2. WriterInv'
    BY RecordRests, RecordWrites DEF Rec!Blind, Rec!Find, EditInv
  <1>3. QED
    BY <1>1, <1>2 DEF EditInv, TableInv, Keeps

LEMMA WriteKeeps ==
  ASSUME EditInv, NEW r \in Requests, Rec!Write(r)
  PROVE  EditInv' /\ Keeps
  <1>1. PICK i \in RowIds : i = job[r].id
    BY DEF Rec!Write, EditInv, WriterInv
  <1>2. PICK edit \in Rec!Partial \cup {None} : edit = job[r].edit
    BY DEF Rec!Write, EditInv, WriterInv
  <1>3. Rec!At(r, "writing") /\ UNCHANGED born
    BY DEF Rec!Write
  <1>4. WriterInv'
    BY RecordRests DEF Rec!Write, EditInv
  <1>5. CASE row[i] = None
    BY <1>1, <1>3, <1>4, <1>5 DEF Rec!Write, Rec!Gone, EditInv, TableInv, Keeps
  <1>6. CASE row[i] # None /\ edit = None
    <2>1. row' = [row EXCEPT ![i] = None]
      BY <1>1, <1>2, <1>6 DEF Rec!Write, Rec!Gone
    <2>2. QED
      BY <1>3, <1>4, <2>1 DEF EditInv, TableInv, Keeps
  <1>7. CASE row[i] # None /\ edit # None
    <2>1. PICK new : new = Rec!Merge(row[i], job[r].found, edit)
      OBVIOUS
    <2>2. row' = [row EXCEPT ![i] = new]
      BY <1>1, <1>2, <1>7, <2>1 DEF Rec!Write, Rec!Gone
    <2>3. row[i] \in Rec!Rows /\ edit \in Rec!Partial
      BY <1>7 DEF EditInv, TableInv
    <2>4. new \in Rec!Rows /\ \A f \in Rec!Fields : f \notin DOMAIN edit => new[f] = row[i][f]
      BY <2>1, <2>3, MergeLays
    <2>5. TableInv'
      BY <1>3, <1>7, <2>2, <2>4 DEF EditInv, TableInv
    <2>6. \A f \in DOMAIN edit : Rec!Writes(r, i, f)
      BY <1>1, <1>2, <1>3, <1>7 DEF Rec!Writes
    <2>7. Keeps
      BY <1>7, <2>2, <2>4, <2>6 DEF EditInv, TableInv, Keeps
    <2>8. QED
      BY <1>4, <2>5, <2>7 DEF EditInv
  <1>8. QED
    BY <1>5, <1>6, <1>7

-----------------------------------------------------------------------------

LEMMA NextEdit == EditInv /\ [Rec!Next]_(Rec!vars) => EditInv' /\ Keeps
  <1> SUFFICES ASSUME EditInv, [Rec!Next]_(Rec!vars)
               PROVE  EditInv' /\ Keeps
    OBVIOUS
  <1>1. ASSUME NEW r \in Requests, NEW i \in RowIds, NEW fields \in Rec!Rows,
               Rec!Creations(r, i, fields)
        PROVE  EditInv' /\ Keeps
    BY <1>1, InsertKeeps
       DEF Rec!Creations, Rec!CreateSale, Rec!CreateFlashSale, Rec!CreateChangelog, Rec!CreateFaq,
           Rec!CreateService, Rec!CreateReview, Rec!Submit, Rec!CreateCoupon, Rec!Refer
  <1>2. ASSUME NEW r \in Requests, NEW i \in RowIds, NEW edit \in Rec!Partial,
               Rec!Edits(r, i, edit)
        PROVE  EditInv' /\ Keeps
    <2>1. Rec!Blind(r, i, edit) \/ \E by \in {"admin", "service"} : Rec!Find(r, i, edit, by)
      BY <1>2 DEF Rec!Edits, Rec!UpdateSale, Rec!UpdateFlashSale, Rec!UpdateChangelog, Rec!UpdateFaq,
                  Rec!UpdateService, Rec!Approve, Rec!UpdateStatus, Rec!UpdateContactStatus,
                  Rec!Deactivate, Rec!AdminUpdateReferral
    <2>2. QED
      BY <2>1, ReadKeeps
  <1>3. ASSUME NEW r \in Requests, NEW i \in RowIds, Rec!Removals(r, i)
        PROVE  EditInv' /\ Keeps
    <2>1. Rec!Blind(r, i, None) \/ \E by \in {"admin", "service"} : Rec!Find(r, i, None, by)
      BY <1>3 DEF Rec!Removals, Rec!RemoveSale, Rec!DeleteFlashSale, Rec!RemoveFaq, Rec!RemoveService,
                  Rec!DeleteReview, Rec!DeleteChangelog
    <2>2. QED
      BY <2>1, ReadKeeps
  <1>4. ASSUME NEW r \in Requests, Rec!Log(r) \/ Rec!Fail(r)
        PROVE  EditInv' /\ Keeps
    <2>1. Rec!Leave(r) /\ UNCHANGED <<row, born>>
      BY <1>4 DEF Rec!Log, Rec!Fail, Rec!Stop
    <2>2. QED
      BY <2>1, RecordRests DEF EditInv, TableInv, Keeps
  <1>5. CASE Rec!Cascade
    <2>1. row' = [i \in RowIds |-> None] /\ UNCHANGED <<born, pc, job>>
      BY <1>5 DEF Rec!Cascade, Rec!slotVars
    <2>2. QED
      BY <2>1 DEF EditInv, WriterInv, TableInv, Keeps, Rec!At
  <1>6. CASE UNCHANGED Rec!vars
    <2>1. UNCHANGED <<row, born, pc, job>>
      BY <1>6 DEF Rec!vars, Rec!slotVars
    <2>2. QED
      BY <2>1 DEF EditInv, WriterInv, TableInv, Keeps, Rec!At
  <1>7. QED
    BY <1>1, <1>2, <1>3, <1>4, <1>5, <1>6, WriteKeeps DEF Rec!Next, Rec!Entries

-----------------------------------------------------------------------------

(* EditsKeepToTheirFields: whatever edits and removals of one row are in flight
   together, a step changes a field only for an edit that names it, and a row
   that was removed stays removed. *)
THEOREM EditsKeepApart == Spec => EditsKeepToTheirFields
  <1> DEFINE Inv == IF service = "records" THEN EditInv
                    ELSE row \in [RowIds -> Rec!Rows \cup {None}]
  <1>1. Init => Inv
    BY InitEdit DEF Init, EditInv, TableInv
  <1>2. Inv /\ [Next]_vars => Inv' /\ [Keeps]_(Rec!vars)
    <2> SUFFICES ASSUME Inv, [Next]_vars
                 PROVE  Inv' /\ [Keeps]_(Rec!vars)
      OBVIOUS
    <2>1. CASE service = "records"
      BY <2>1, RecordStep, NextEdit, ServiceStays
    <2>2. CASE service # "records"
      BY <2>2, RecordsRest, ServiceStays DEF Keeps
    <2>3. QED
      BY <2>1, <2>2
  <1>3. Spec => [][Keeps]_(Rec!vars)
    BY <1>1, <1>2, PTL DEF Spec
  <1>4. QED
    BY <1>3 DEF Keeps, EditsKeepToTheirFields, Rec!EditsKeepToTheirFields

-----------------------------------------------------------------------------
(* Rooms: whoever follows the chat misses no message. *)

LEMMA RoomStep ==
  ASSUME service = "rooms", [Next]_vars
  PROVE  [Room!Next]_(Room!vars)
  BY DEF Next, Only, vars, slotVars, roomVars, Room!vars, Room!socketVars,
         Room!chatVars, Room!slotVars

(* Who is ready is in a room of the chat, and stays there until the socket
   closes; pc, got and rooms are functions. *)
ChatInv ==
  /\ pc \in [Requests -> {"idle", "joining", "pushing"}]
  /\ job = [r \in Requests |-> job[r]]
  /\ rooms = [x \in Room!RoomNames |-> rooms[x]]
  /\ got = [s \in Sockets |-> got[s]]
  /\ ready \subseteq Room!Chatting \cap Sockets
  /\ Room!NothingIsMissed

-----------------------------------------------------------------------------

LEMMA InitChat == Room!Init => ChatInv
  BY DEF Room!Init, Room!AllIdle, ChatInv, Room!Chatting, Room!NoRooms, Room!RoomNames, Room!NothingIsMissed

(* A step that touches neither the messages, nor the readers, nor a handler
   about to push. *)
LEMMA NothingPushed ==
  ASSUME Room!NothingIsMissed, NEW r \in Requests, pc[r] # "pushing",
         \A q \in Requests \ {r} : pc'[q] = pc[q] /\ job'[q] = job[q],
         UNCHANGED <<stored, got>>, ready' \subseteq ready
  PROVE  Room!NothingIsMissed'
  BY DEF Room!NothingIsMissed, Room!At

(* A socket enters a room. *)
LEMMA EnterKeeps ==
  ASSUME ChatInv, NEW r \in Requests, NEW room \in Room!RoomNames, Room!Enter(r, room)
  PROVE  ChatInv'
  <1>1. pc[r] = "joining" /\ UNCHANGED <<stored, got, ready>>
    BY DEF Room!Enter, Room!At, Room!chatVars
  <1>2. /\ pc' \in [Requests -> {"idle", "joining", "pushing"}]
        /\ job' = [q \in Requests |-> job'[q]]
        /\ \A q \in Requests \ {r} : pc'[q] = pc[q] /\ job'[q] = job[q]
    BY DEF Room!Enter, Room!Leave, Room!Go, ChatInv
  <1>3. /\ rooms' = [x \in Room!RoomNames |-> rooms'[x]]
        /\ \A x \in Room!RoomNames : rooms[x] \subseteq rooms'[x]
    BY DEF Room!Enter, ChatInv
  <1>4. Room!Chatting \subseteq Room!Chatting'
    BY <1>3 DEF Room!Chatting, Room!RoomNames
  <1>5. Room!NothingIsMissed'
    BY <1>1, <1>2, NothingPushed DEF ChatInv
  <1>6. QED
    BY <1>1, <1>2, <1>3, <1>4, <1>5 DEF ChatInv

LEMMA NextChat == ChatInv /\ [Room!Next]_(Room!vars) => ChatInv'
  <1> SUFFICES ASSUME ChatInv, [Room!Next]_(Room!vars)
               PROVE  ChatInv'
    OBVIOUS
  <1>1. ASSUME NEW r \in Requests, NEW s \in Sockets, NEW room \in Room!RoomNames,
               Room!CheckRateLimit(r, s, room)
        PROVE  ChatInv'
    <2>1. pc[r] = "idle" /\ UNCHANGED <<rooms, stored, got, ready>>
      BY <1>1 DEF Room!CheckRateLimit, Room!Admit, Room!Active, Room!chatVars
    <2>2. /\ pc' \in [Requests -> {"idle", "joining", "pushing"}]
          /\ job' = [q \in Requests |-> job'[q]]
          /\ \A q \in Requests \ {r} : pc'[q] = pc[q] /\ job'[q] = job[q]
      BY <1>1 DEF Room!CheckRateLimit, Room!Leave, Room!Go, ChatInv
    <2>3. Room!NothingIsMissed'
      BY <2>1, <2>2, NothingPushed DEF ChatInv
    <2>4. QED
      BY <2>1, <2>2, <2>3 DEF ChatInv, Room!Chatting
  <1>2. ASSUME NEW r \in Requests,
               Room!JoinAdmin(r) \/ Room!JoinOrderTracking(r) \/ Room!JoinChat(r) \/ Room!JoinAdminChat(r)
        PROVE  ChatInv'
    BY <1>2, EnterKeeps
       DEF Room!JoinAdmin, Room!JoinOrderTracking, Room!JoinChat, Room!JoinAdminChat, Room!RoomNames
  <1>3. ASSUME NEW r \in Requests, NEW m \in Messages, Room!SendMessage(r, m)
        PROVE  ChatInv'
    <2>1. pc[r] = "idle" /\ stored' = stored \cup {m} /\ UNCHANGED <<rooms, got, ready>>
      BY <1>3 DEF Room!SendMessage, Room!Admit, Room!Active, Room!socketVars
    <2>2. /\ pc' \in [Requests -> {"idle", "joining", "pushing"}]
          /\ job' = [q \in Requests |-> job'[q]]
          /\ \A q \in Requests \ {r} : pc'[q] = pc[q] /\ job'[q] = job[q]
          /\ pc'[r] = "pushing" /\ job'[r] = m
      BY <1>3 DEF Room!SendMessage, Room!Go, ChatInv
    <2>3. Room!NothingIsMissed'
      BY <2>1, <2>2 DEF Room!NothingIsMissed, Room!At, ChatInv
    <2>4. QED
      BY <2>1, <2>2, <2>3 DEF ChatInv, Room!Chatting
  <1>4. ASSUME NEW r \in Requests, Room!Push(r)
        PROVE  ChatInv'
    <2>1. pc[r] = "pushing" /\ UNCHANGED <<rooms, stored, ready>>
      BY <1>4 DEF Room!Push, Room!At, Room!socketVars
    <2>2. /\ pc' \in [Requests -> {"idle", "joining", "pushing"}]
          /\ job' = [q \in Requests |-> job'[q]]
          /\ \A q \in Requests \ {r} : pc'[q] = pc[q] /\ job'[q] = job[q]
      BY <1>4 DEF Room!Push, Room!Leave, Room!Go, ChatInv
    <2>3. /\ got' = [s \in Sockets |-> got'[s]]
          /\ \A s \in Sockets : got[s] \subseteq got'[s]
          /\ \A s \in ready : job[r] \in got'[s]
      BY <1>4 DEF Room!Push, Room!Deliver, ChatInv
    <2>4. Room!NothingIsMissed'
      BY <2>1, <2>2, <2>3 DEF Room!NothingIsMissed, Room!At, ChatInv
    <2>5. QED
      BY <2>1, <2>2, <2>3, <2>4 DEF ChatInv, Room!Chatting
  <1>5. ASSUME NEW s \in Sockets, Room!HandleConnection(s) \/ Room!Refill(s) \/ Room!MarkRead(s)
        PROVE  ChatInv'
    <2>1. UNCHANGED <<pc, job, rooms, stored, got, ready>>
      BY <1>5 DEF Room!HandleConnection, Room!Refill, Room!MarkRead, Room!socketVars, Room!chatVars, Room!slotVars
    <2>2. QED
      BY <2>1 DEF ChatInv, Room!Chatting, Room!NothingIsMissed, Room!At
  <1>6. ASSUME NEW s \in Sockets, Room!HandleDisconnect(s)
        PROVE  ChatInv'
    <2>1. /\ UNCHANGED <<pc, job, stored>> /\ ready' = ready \ {s}
          /\ rooms' = [x \in Room!RoomNames |-> rooms[x] \ {s}]
      BY <1>6 DEF Room!HandleDisconnect, Room!slotVars
    <2>2. /\ got' = [q \in Sockets |-> got'[q]]
          /\ \A q \in Sockets \ {s} : got'[q] = got[q]
      BY <1>6 DEF Room!HandleDisconnect, ChatInv
    <2>3. ready' \subseteq Room!Chatting' \cap Sockets
      BY <2>1 DEF ChatInv, Room!Chatting, Room!RoomNames
    <2>4. Room!NothingIsMissed'
      BY <2>1, <2>2 DEF ChatInv, Room!NothingIsMissed, Room!At
    <2>5. QED
      BY <2>1, <2>2, <2>3, <2>4 DEF ChatInv
  <1>7. ASSUME NEW s \in Sockets, Room!GetMessages(s)
        PROVE  ChatInv'
    <2>1. /\ UNCHANGED <<pc, job, rooms, stored>>
          /\ ready' \subseteq ready \cup ({s} \cap Room!Chatting)
      BY <1>7 DEF Room!GetMessages, Room!socketVars, Room!slotVars
    <2>2. /\ got' = [q \in Sockets |-> got'[q]]
          /\ got'[s] = got[s] \cup stored
          /\ \A q \in Sockets \ {s} : got'[q] = got[q]
      BY <1>7 DEF Room!GetMessages, ChatInv
    <2>3. Room!NothingIsMissed'
      BY <2>1, <2>2 DEF ChatInv, Room!NothingIsMissed, Room!At
    <2>4. QED
      BY <2>1, <2>2, <2>3 DEF ChatInv, Room!Chatting
  <1>8. CASE Room!Restart
    BY <1>8 DEF Room!Restart, ChatInv, Room!NothingIsMissed, Room!NoRooms
  <1>9. CASE UNCHANGED Room!vars
    BY <1>9 DEF Room!vars, Room!socketVars, Room!chatVars, Room!slotVars, ChatInv, Room!Chatting,
                Room!NothingIsMissed, Room!At
  <1>10. QED
    BY <1>1, <1>2, <1>3, <1>4, <1>5, <1>6, <1>7, <1>8, <1>9 DEF Room!Next, Room!Handlers

-----------------------------------------------------------------------------

(* NothingIsMissed: a client in a room of the chat that then loads the session
   has, or is about to be sent, each message that is stored, however messages,
   joins, loads, closures and restarts interleave. *)
THEOREM ChatIsComplete == Spec => []NothingIsMissed
  <1> DEFINE Inv == service = "rooms" => ChatInv
  <1>1. Init => Inv
    BY InitChat DEF Init
  <1>2. Inv /\ [Next]_vars => Inv'
    BY NextChat, RoomStep, ServiceStays
  <1>3. Inv => NothingIsMissed
    BY DEF ChatInv, NothingIsMissed
  <1>4. QED
    BY <1>1, <1>2, <1>3, PTL DEF Spec

-----------------------------------------------------------------------------
(* Backups: a file is deleted only when enough newer ones were written. *)

LEMMA BackupStep ==
  ASSUME service = "backups", [Next]_vars
  PROVE  [Back!Next]_(Back!vars)
  BY DEF Next, Only, vars, slotVars, backupVars, Back!vars, Back!slotVars

LEMMA BackCardinality == \A S : Back!Cardinality(S) = Cardinality(S)
  BY DEF Back!Cardinality, Cardinality, Back!IsFiniteSet, IsFiniteSet

(* Files written up to the time n, each at its own time *)
Dated(fs, n) ==
  /\ \A f \in fs : f.time \in 1..n
  /\ \A f, g \in fs : f.time = g.time => f = g

(* The files that a process sorts have their own times, and those it deletes
   are old enough. *)
Sorts(place, what, n) ==
  /\ place = "sorting" => Dated(what.doomed, n)
  /\ place = "deleting" => \A f \in what.doomed : f.time \in 1..n /\ n - f.time >= KEEP

BackupInv ==
  /\ Slotted
  /\ time \in Nat /\ Dated(files, time)
  /\ \A t \in 1..time : time - t >= KEEP \/ \E f \in files : f.time = t
  /\ \A r \in Requests : Sorts(pc[r], job[r], time)

LEMMA InitBackups == Back!Init => BackupInv
  BY DEF Back!Init, Back!AllIdle, BackupInv, Slotted, Dated, Sorts

(* A file is doomed when KEEP files were written after it. *)
LEMMA DoomedAreOld ==
  ASSUME NEW fs, NEW n \in Nat, Dated(fs, n), NEW f \in Back!Doomed(fs)
  PROVE  f \in fs /\ f.time \in 1..n /\ n - f.time >= KEEP
  <1> DEFINE Newer == {g \in fs : g.time > f.time}
             Later == (f.time + 1)..n
             At == [g \in Newer |-> g.time]
  <1>1. f \in fs /\ f.time \in 1..n /\ Cardinality(Newer) >= KEEP
    BY BackCardinality DEF Back!Doomed, Dated
  <1>2. \A g \in Newer : g.time \in Later
    BY <1>1 DEF Dated
  <1>3. \A g, h \in Newer : g.time = h.time => g = h
    BY DEF Dated
  <1>4. At \in Injection(Newer, Later)
    BY <1>2, <1>3, Fun_IsInj
  <1>5. IsFiniteSet(Later) /\ Cardinality(Later) = n - f.time
    <2>1. PICK k \in 1..n : k = f.time
      BY <1>1
    <2>2. /\ IsFiniteSet((k + 1)..n)
          /\ Cardinality((k + 1)..n) = IF k + 1 > n THEN 0 ELSE n - (k + 1) + 1
      BY FS_Interval
    <2>3. QED
      BY <2>1, <2>2
  <1>6. Cardinality(Newer) <= Cardinality(Later) /\ IsFiniteSet(Newer)
    BY <1>4, <1>5, FS_Injection
  <1>7. QED
    BY <1>1, <1>5, <1>6, FS_CardinalityType, BoundsAssumption

(* A later time makes no difference to what was sorted. *)
LEMMA SortsStay ==
  ASSUME NEW place, NEW what, NEW n \in Nat, Sorts(place, what, n)
  PROVE  Sorts(place, what, n + 1)
  BY BoundsAssumption DEF Sorts, Dated

LEMMA BackupMoves ==
  ASSUME BackupInv, NEW r \in Requests, NEW place, NEW what,
         Moves(r, place, what), Sorts(place, what, time'),
         time' = time \/ time' = time + 1
  PROVE  Slotted' /\ \A q \in Requests : Sorts(pc'[q], job'[q], time')
  <1>1. /\ Slotted' /\ pc'[r] = place /\ job'[r] = what
        /\ \A q \in Requests \ {r} : pc'[q] = pc[q] /\ job'[q] = job[q]
    BY SlotMoves DEF BackupInv
  <1>2. ASSUME NEW q \in Requests \ {r}
        PROVE  Sorts(pc[q], job[q], time')
    BY SortsStay DEF BackupInv
  <1>3. QED
    BY <1>1, <1>2

(* A process that leaves the directory as it is *)
LEMMA BackupKeeps ==
  ASSUME BackupInv, NEW r \in Requests, NEW place, NEW what,
         Moves(r, place, what), Sorts(place, what, time), UNCHANGED <<files, time>>
  PROVE  BackupInv'
  BY BackupMoves DEF BackupInv

LEMMA BackupWaits ==
  ASSUME BackupInv, NEW r \in Requests, NEW place, NEW own,
         \/ Back!Carry(r, place, own) /\ place \notin {"sorting", "deleting"}
         \/ Back!Leave(r),
         UNCHANGED <<files, time>>
  PROVE  BackupInv'
  <1>1. \/ Moves(r, place, Back!Job(job[r].mode, own, {})) /\ place \notin {"sorting", "deleting"}
        \/ Moves(r, "idle", None)
    BY DEF Back!Carry, Back!Leave, Back!Go, Moves
  <1>2. QED
    BY <1>1, BackupKeeps DEF Sorts

LEMMA MakesFile ==
  ASSUME BackupInv, NEW r \in Requests, NEW form, NEW next,
         next \in {"zipping", "uploading"}, Back!Make(r, form, next)
  PROVE  BackupInv'
  <1>1. /\ time \in Nat /\ time' = time + 1
        /\ files' = files \cup {Back!File(time + 1, form)}
    BY DEF Back!Make, BackupInv
  <1>2. /\ Slotted' /\ \A q \in Requests : Sorts(pc'[q], job'[q], time')
    <2>1. \/ Moves(r, "idle", None)
          \/ Moves(r, next, Back!Job(job[r].mode, job[r].own \cup {Back!File(time + 1, form)}, {}))
      BY <1>1 DEF Back!Make, Back!Carry, Back!Leave, Back!Go, Moves
    <2>2. QED
      BY <1>1, <2>1, BackupMoves DEF Sorts
  <1>3. Dated(files', time')
    BY <1>1 DEF BackupInv, Dated, Back!File
  <1>4. ASSUME NEW t \in 1..(time + 1)
        PROVE  time + 1 - t >= KEEP \/ \E f \in files' : f.time = t
    <2>1. CASE t = time + 1
      <3>1. Back!File(time + 1, form) \in files' /\ Back!File(time + 1, form).time = time + 1
        BY <1>1 DEF Back!File
      <3>2. QED
        BY <2>1, <3>1
    <2>2. CASE t \in 1..time
      BY <1>1, <2>2, BoundsAssumption DEF BackupInv
    <2>3. QED
      BY <1>1, <2>1, <2>2
  <1>5. QED
    BY <1>1, <1>2, <1>3, <1>4 DEF BackupInv

LEMMA ZipsFile ==
  ASSUME BackupInv, NEW r \in Requests, Back!Zip(r)
  PROVE  BackupInv'
  <1>1. PICK f \in job[r].own :
          IF f \notin files THEN Back!Leave(r) /\ UNCHANGED files
          ELSE /\ files' = (files \ {f}) \cup {Back!File(f.time, "gz")}
               /\ Back!Carry(r, IF job[r].mode = "db" THEN "uploading" ELSE "archiving",
                             {Back!File(f.time, "gz")})
    BY DEF Back!Zip
  <1>2. UNCHANGED time
    BY DEF Back!Zip
  <1>3. CASE f \notin files
    BY <1>1, <1>2, <1>3, BackupWaits
  <1>4. CASE f \in files
    <2>1. /\ files' = (files \ {f}) \cup {Back!File(f.time, "gz")}
          /\ Back!File(f.time, "gz").time = f.time /\ f.time \in 1..time
      BY <1>1, <1>4 DEF Back!File, BackupInv, Dated
    <2>2. Dated(files', time')
      BY <1>2, <1>4, <2>1 DEF BackupInv, Dated
    <2>3. \A t \in 1..time : time - t >= KEEP \/ \E g \in files' : g.time = t
      BY <1>4, <2>1 DEF BackupInv
    <2>4. /\ Slotted' /\ \A q \in Requests : Sorts(pc'[q], job'[q], time')
      <3>1. PICK place \in {"uploading", "archiving"} :
              Moves(r, place, Back!Job(job[r].mode, {Back!File(f.time, "gz")}, {}))
        BY <1>1, <1>4 DEF Back!Carry, Back!Go, Moves
      <3>2. QED
        BY <1>2, <3>1, BackupMoves DEF Sorts
    <2>5. QED
      BY <1>2, <2>2, <2>3, <2>4 DEF BackupInv
  <1>5. QED
    BY <1>3, <1>4

LEMMA UnlinksFile ==
  ASSUME BackupInv, NEW r \in Requests, Back!Unlink(r)
  PROVE  BackupInv'
  <1>1. PICK f \in job[r].doomed :
          /\ IF f \in files
             THEN Back!Go(r, "deleting", Back!Job(job[r].mode, {}, job[r].doomed \ {f}))
             ELSE Back!Leave(r)
          /\ files' = files \ {f}
    BY DEF Back!Unlink
  <1>2. pc[r] = "deleting" /\ UNCHANGED time
    BY DEF Back!Unlink, Back!At
  <1>3. \A g \in job[r].doomed : g.time \in 1..time /\ time - g.time >= KEEP
    BY <1>2 DEF BackupInv, Sorts
  <1>4. /\ Slotted' /\ \A q \in Requests : Sorts(pc'[q], job'[q], time')
    <2>1. \/ Moves(r, "idle", None)
          \/ Moves(r, "deleting", Back!Job(job[r].mode, {}, job[r].doomed \ {f}))
      BY <1>1 DEF Back!Leave, Back!Go, Moves
    <2>2. /\ Sorts("idle", None, time')
          /\ Sorts("deleting", Back!Job(job[r].mode, {}, job[r].doomed \ {f}), time')
      BY <1>2, <1>3 DEF Sorts, Back!Job
    <2>3. QED
      BY <1>2, <2>1, <2>2, BackupMoves
  <1>5. Dated(files', time')
    BY <1>1, <1>2 DEF BackupInv, Dated
  <1>6. \A t \in 1..time : time - t >= KEEP \/ \E g \in files' : g.time = t
    BY <1>1, <1>3 DEF BackupInv
  <1>7. QED
    BY <1>2, <1>4, <1>5, <1>6 DEF BackupInv

LEMMA NextBackup == BackupInv /\ [Back!Next]_(Back!vars) => BackupInv'
  <1> SUFFICES ASSUME BackupInv, [Back!Next]_(Back!vars)
               PROVE  BackupInv'
    OBVIOUS
  <1>1. ASSUME NEW r \in Requests, NEW mode, Back!Start(r, mode)
        PROVE  BackupInv'
    <2>1. /\ UNCHANGED <<files, time>>
          /\ \/ Moves(r, "archiving", Back!Job(mode, {}, {}))
             \/ Moves(r, "dumping", Back!Job(mode, {}, {}))
      BY <1>1 DEF Back!Start, Back!Go, Moves
    <2>2. QED
      BY <2>1, BackupKeeps DEF Sorts
  <1>2. ASSUME NEW r \in Requests, Back!Dump(r) \/ Back!Archive(r)
        PROVE  BackupInv'
    <2>1. \/ Back!Make(r, "sql", "zipping") \/ Back!Make(r, "tar", "uploading")
          \/ Back!Carry(r, "uploading", job[r].own) /\ UNCHANGED <<files, time>>
      BY <1>2 DEF Back!Dump, Back!Archive
    <2>2. QED
      BY <2>1, MakesFile, BackupWaits
  <1>3. ASSUME NEW r \in Requests, Back!Zip(r) \/ Back!Unlink(r)
        PROVE  BackupInv'
    BY <1>3, ZipsFile, UnlinksFile
  <1>4. ASSUME NEW r \in Requests, Back!Upload(r)
        PROVE  BackupInv'
    BY <1>4, BackupWaits DEF Back!Upload
  <1>5. ASSUME NEW r \in Requests, Back!List(r)
        PROVE  BackupInv'
    <2>1. UNCHANGED <<files, time>> /\ Moves(r, "sorting", Back!Job(job[r].mode, {}, files))
      BY <1>5 DEF Back!List, Back!Go, Moves
    <2>2. Sorts("sorting", Back!Job(job[r].mode, {}, files), time)
      BY DEF Sorts, Back!Job, BackupInv
    <2>3. QED
      BY <2>1, <2>2, BackupKeeps
  <1>6. ASSUME NEW r \in Requests, Back!Sort(r)
        PROVE  BackupInv'
    <2>1. UNCHANGED <<files, time>> /\ pc[r] = "sorting" /\ time \in Nat
      BY <1>6 DEF Back!Sort, Back!At, BackupInv
    <2>2. CASE Back!Leave(r)
      BY <2>1, <2>2, BackupWaits
    <2>3. CASE ~Back!Leave(r)
      <3>1. Moves(r, "deleting", Back!Job(job[r].mode, {}, Back!Doomed(job[r].doomed)))
        BY <1>6, <2>3 DEF Back!Sort, Back!Go, Moves
      <3>2. Dated(job[r].doomed, time)
        BY <2>1 DEF BackupInv, Sorts
      <3>3. \A f \in Back!Doomed(job[r].doomed) : f.time \in 1..time /\ time - f.time >= KEEP
        BY <2>1, <3>2, DoomedAreOld
      <3>4. Sorts("deleting", Back!Job(job[r].mode, {}, Back!Doomed(job[r].doomed)), time)
        BY <3>3 DEF Sorts, Back!Job
      <3>5. QED
        BY <2>1, <3>1, <3>4, BackupKeeps
    <2>4. QED
      BY <2>2, <2>3
  <1>7. ASSUME NEW r \in Requests, Back!End(r) \/ Back!Fail(r)
        PROVE  BackupInv'
    <2>1. Back!Leave(r) /\ UNCHANGED <<files, time>>
      BY <1>7 DEF Back!End, Back!Fail, Back!Stop
    <2>2. QED
      BY <2>1, BackupWaits
  <1>8. CASE UNCHANGED Back!vars
    BY <1>8 DEF Back!vars, Back!slotVars, BackupInv, Slotted
  <1>9. QED
    BY <1>1, <1>2, <1>3, <1>4, <1>5, <1>6, <1>7, <1>8 DEF Back!Next

(* NewestStay: however many processes back up at once, rename or delete each
   other's files or stop, each file that is gone had KEEP files after it. *)
THEOREM NewestBackupsStay == Spec => []NewestStay
  <1> DEFINE Inv == service = "backups" => BackupInv
  <1>1. Init => Inv
    BY InitBackups DEF Init
  <1>2. Inv /\ [Next]_vars => Inv'
    BY NextBackup, BackupStep, ServiceStays
  <1>3. Inv => NewestStay
    BY DEF BackupInv, NewestStay, Back!NewestStay
  <1>4. QED
    BY <1>1, <1>2, <1>3, PTL DEF Spec

-----------------------------------------------------------------------------
(* The types of the records, the chat and the backups *)

-----------------------------------------------------------------------------
(* Records *)

LEMMA KindStays == [Rec!Next]_(Rec!vars) => kind' = kind
  <1>1. ASSUME NEW r \in Requests, NEW i \in RowIds, Rec!Entries(r, i)
        PROVE  kind' = kind
    <2>1. \/ \E fields, by : Rec!Insert(r, i, fields, by)
          \/ \E edit, by : Rec!Find(r, i, edit, by)
          \/ \E edit : Rec!Blind(r, i, edit)
      BY <1>1
         DEF Rec!Entries, Rec!Creations, Rec!CreateSale, Rec!CreateFlashSale, Rec!CreateChangelog,
             Rec!CreateFaq, Rec!CreateService, Rec!CreateReview, Rec!Submit, Rec!CreateCoupon,
             Rec!Refer, Rec!Edits, Rec!UpdateSale, Rec!UpdateFlashSale, Rec!UpdateChangelog,
             Rec!UpdateFaq, Rec!UpdateService, Rec!Approve, Rec!UpdateStatus,
             Rec!UpdateContactStatus, Rec!Deactivate, Rec!AdminUpdateReferral, Rec!Removals,
             Rec!RemoveSale, Rec!DeleteFlashSale, Rec!RemoveFaq, Rec!RemoveService,
             Rec!DeleteReview, Rec!DeleteChangelog
    <2>2. QED
      BY <2>1 DEF Rec!Insert, Rec!Find, Rec!Blind
  <1>2. QED
    BY <1>1 DEF Rec!Next, Rec!Write, Rec!Log, Rec!Fail, Rec!Cascade, Rec!vars

LEMMA RecordsAreTyped == Spec => [](service = "records" => Rec!TypeOK)
  <1> DEFINE Inv == service = "records" => EditInv /\ kind \in Rec!Kinds
  <1>1. Init => Inv
    BY InitEdit DEF Init, Rec!Init
  <1>2. Inv /\ [Next]_vars => Inv'
    BY NextEdit, KindStays, RecordStep, ServiceStays DEF Rec!Kinds
  <1>3. Inv => (service = "records" => Rec!TypeOK)
    BY DEF EditInv, WriterInv, TableInv, Rec!TypeOK
  <1>4. QED
    BY <1>1, <1>2, <1>3, PTL DEF Spec

-----------------------------------------------------------------------------
(* Rooms *)

ChatPlaces == {"idle", "joining", "pushing"}

(* What a handler holds at each of its statements. *)
RoomJob(place, what) ==
  /\ place = "joining" => what.what \in Sockets /\ what.room \in Room!RoomNames
  /\ place = "pushing" => what \in stored

RoomTypes == Room!TypeOK /\ Slotted /\ \A r \in Requests : RoomJob(pc[r], job[r])

SocketTypes ==
  /\ connected \in SUBSET Sockets /\ adminSockets \in SUBSET Sockets
  /\ rooms \in [Room!RoomNames -> SUBSET connected]
  /\ used \in [Sockets -> 0..POINTS] /\ limited \in SUBSET connected

ChatTypes ==
  /\ stored \in SUBSET Messages /\ unread \in SUBSET stored
  /\ got \in [Sockets -> SUBSET stored] /\ ready \in SUBSET connected

LEMMA RoomGoes ==
  ASSUME RoomTypes, NEW r \in Requests, NEW place \in ChatPlaces, NEW what,
         Moves(r, place, what), RoomJob(place, what)', stored \subseteq stored',
         SocketTypes', ChatTypes'
  PROVE  RoomTypes'
  <1>1. pc' \in [Requests -> ChatPlaces]
    BY PlacesStay DEF RoomTypes, Room!TypeOK, ChatPlaces
  <1>2. /\ Slotted' /\ pc'[r] = place /\ job'[r] = what
        /\ \A q \in Requests \ {r} : pc'[q] = pc[q] /\ job'[q] = job[q]
    BY SlotMoves DEF RoomTypes, Slotted, Moves
  <1>3. \A q \in Requests : RoomJob(pc[q], job[q])'
    BY <1>2 DEF RoomTypes, RoomJob
  <1>4. QED
    BY <1>1, <1>2, <1>3 DEF RoomTypes, Room!TypeOK, ChatPlaces, SocketTypes, ChatTypes

LEMMA RoomStays ==
  ASSUME RoomTypes, UNCHANGED <<pc, job, stored>>, SocketTypes', ChatTypes'
  PROVE  RoomTypes'
  BY DEF RoomTypes, Room!TypeOK, Slotted, RoomJob, SocketTypes, ChatTypes

LEMMA HandlersTyped ==
  ASSUME RoomTypes, NEW r \in Requests, Room!Handlers(r)
  PROVE  RoomTypes'
  <1>1. SocketTypes /\ ChatTypes
    BY DEF RoomTypes, Room!TypeOK, SocketTypes, ChatTypes
  <1>2. ASSUME NEW s \in Sockets, NEW room \in Room!RoomNames, Room!CheckRateLimit(r, s, room)
        PROVE  RoomTypes'
    <2>1. \/ Moves(r, "joining", [what |-> s, room |-> room])
          \/ Moves(r, "idle", None)
      BY <1>2 DEF Room!CheckRateLimit, Room!Leave, Room!Go, Moves
    <2>2. UNCHANGED <<connected, adminSockets, rooms, stored, unread, got, ready>>
      BY <1>2 DEF Room!CheckRateLimit, Room!chatVars
    <2>3. used' \in [Sockets -> 0..POINTS] /\ limited' \in SUBSET connected
      BY <1>1, <1>2, BoundsAssumption DEF Room!CheckRateLimit, SocketTypes
    <2>4. SocketTypes' /\ ChatTypes'
      BY <1>1, <2>2, <2>3 DEF SocketTypes, ChatTypes
    <2>5. QED
      BY <2>1, <2>2, <2>4, RoomGoes DEF ChatPlaces, RoomJob
  <1>3. ASSUME NEW room \in Room!RoomNames, Room!Enter(r, room),
               adminSockets' \in {adminSockets, adminSockets \cup {job[r].what}}
        PROVE  RoomTypes'
    <2>1. job[r].what \in Sockets
      BY <1>3 DEF Room!Enter, Room!At, RoomTypes, RoomJob
    <2>2. Moves(r, "idle", None) /\ UNCHANGED <<connected, used, limited, stored, unread, got, ready>>
      BY <1>3 DEF Room!Enter, Room!Leave, Room!Go, Moves, Room!chatVars
    <2>3. rooms' \in [Room!RoomNames -> SUBSET connected]
      BY <1>1, <1>3 DEF Room!Enter, SocketTypes
    <2>4. SocketTypes' /\ ChatTypes'
      BY <1>1, <1>3, <2>1, <2>2, <2>3 DEF SocketTypes, ChatTypes
    <2>5. QED
      BY <2>2, <2>4, RoomGoes DEF ChatPlaces, RoomJob
  <1>4. ASSUME NEW m \in Messages, Room!SendMessage(r, m)
        PROVE  RoomTypes'
    <2>1. /\ Moves(r, "pushing", m) /\ stored' = stored \cup {m} /\ unread' = unread \cup {m}
          /\ UNCHANGED <<connected, adminSockets, rooms, used, limited, got, ready>>
      BY <1>4 DEF Room!SendMessage, Room!Go, Moves, Room!socketVars
    <2>2. SocketTypes' /\ ChatTypes'
      BY <1>1, <2>1 DEF SocketTypes, ChatTypes
    <2>3. QED
      BY <2>1, <2>2, RoomGoes DEF ChatPlaces, RoomJob
  <1>5. ASSUME Room!Push(r)
        PROVE  RoomTypes'
    <2>1. job[r] \in stored
      BY <1>5 DEF Room!Push, Room!At, RoomTypes, RoomJob
    <2>2. /\ Moves(r, "idle", None)
          /\ UNCHANGED <<connected, adminSockets, rooms, used, limited, stored, unread, ready>>
      BY <1>5 DEF Room!Push, Room!Leave, Room!Go, Moves, Room!socketVars
    <2>3. got' \in [Sockets -> SUBSET stored]
      BY <1>1, <1>5, <2>1 DEF Room!Push, Room!Deliver, ChatTypes
    <2>4. SocketTypes' /\ ChatTypes'
      BY <1>1, <2>2, <2>3 DEF SocketTypes, ChatTypes
    <2>5. QED
      BY <2>2, <2>4, RoomGoes DEF ChatPlaces, RoomJob
  <1>6. QED
    BY <1>2, <1>3, <1>4, <1>5
       DEF Room!Handlers, Room!JoinAdmin, Room!JoinOrderTracking, Room!JoinChat,
           Room!JoinAdminChat, Room!RoomNames

LEMMA SocketsTyped ==
  ASSUME RoomTypes, NEW s \in Sockets,
         \/ Room!HandleConnection(s) \/ Room!HandleDisconnect(s) \/ Room!Refill(s)
         \/ Room!GetMessages(s) \/ Room!MarkRead(s)
  PROVE  RoomTypes'
  <1>1. SocketTypes /\ ChatTypes
    BY DEF RoomTypes, Room!TypeOK, SocketTypes, ChatTypes
  <1>2. UNCHANGED <<pc, job, stored>>
    BY DEF Room!HandleConnection, Room!HandleDisconnect, Room!Refill, Room!GetMessages,
           Room!MarkRead, Room!slotVars, Room!chatVars
  <1>3. CASE Room!HandleConnection(s)
    BY <1>1, <1>2, <1>3, BoundsAssumption, RoomStays
       DEF Room!HandleConnection, Room!chatVars, SocketTypes, ChatTypes
  <1>4. CASE Room!HandleDisconnect(s)
    BY <1>1, <1>2, <1>4, RoomStays DEF Room!HandleDisconnect, SocketTypes, ChatTypes
  <1>5. CASE Room!Refill(s)
    BY <1>1, <1>2, <1>5, BoundsAssumption, RoomStays
       DEF Room!Refill, Room!chatVars, SocketTypes, ChatTypes
  <1>6. CASE Room!GetMessages(s) \/ Room!MarkRead(s)
    BY <1>1, <1>2, <1>6, RoomStays
       DEF Room!GetMessages, Room!MarkRead, Room!socketVars, SocketTypes, ChatTypes
  <1>7. QED
    BY <1>3, <1>4, <1>5, <1>6

LEMMA RoomsTyped == RoomTypes /\ [Room!Next]_(Room!vars) => RoomTypes'
  <1> SUFFICES ASSUME RoomTypes, [Room!Next]_(Room!vars)
               PROVE  RoomTypes'
    OBVIOUS
  <1>1. CASE Room!Restart
    <2>1. SocketTypes' /\ ChatTypes' /\ stored' = stored
      BY <1>1, BoundsAssumption
         DEF Room!Restart, Room!NoRooms, RoomTypes, Room!TypeOK, SocketTypes, ChatTypes
    <2>2. pc' = [r \in Requests |-> "idle"] /\ job' = [r \in Requests |-> None]
      BY <1>1 DEF Room!Restart
    <2>3. QED
      BY <2>1, <2>2 DEF RoomTypes, Room!TypeOK, Slotted, RoomJob, SocketTypes, ChatTypes
  <1>2. CASE UNCHANGED Room!vars
    BY <1>2, RoomStays
       DEF Room!vars, Room!socketVars, Room!chatVars, Room!slotVars, RoomTypes, Room!TypeOK,
           SocketTypes, ChatTypes
  <1>3. QED
    BY <1>1, <1>2, HandlersTyped, SocketsTyped DEF Room!Next

LEMMA RoomsAreTyped == Spec => [](service = "rooms" => Room!TypeOK)
  <1> DEFINE Inv == service = "rooms" => RoomTypes
  <1>1. Init => Inv
    BY BoundsAssumption
       DEF Init, Room!Init, Room!AllIdle, Room!NoRooms, RoomTypes, Room!TypeOK, Slotted, RoomJob
  <1>2. Inv /\ [Next]_vars => Inv'
    BY RoomsTyped, RoomStep, ServiceStays
  <1>3. Inv => (service = "rooms" => Room!TypeOK)
    BY DEF RoomTypes
  <1>4. QED
    BY <1>1, <1>2, <1>3, PTL DEF Spec

-----------------------------------------------------------------------------
(* Backups *)

BackupPlaces ==
  {"idle", "dumping", "zipping", "archiving", "uploading", "sorting", "deleting"}

(* The files that a process calls its own are files. *)
BackupTypes ==
  /\ Back!TypeOK /\ Slotted
  /\ \A r \in Requests : pc[r] # "idle" => job[r].own \in SUBSET Back!Files

LEMMA BackupGoes ==
  ASSUME BackupTypes, NEW r \in Requests, NEW place \in BackupPlaces, NEW what,
         Moves(r, place, what), place # "idle" => what.own \in SUBSET Back!Files,
         files' \in SUBSET Back!Files, time' \in 0..MAX_TIME
  PROVE  BackupTypes'
  <1>1. pc' \in [Requests -> BackupPlaces]
    BY PlacesStay DEF BackupTypes, Back!TypeOK, BackupPlaces
  <1>2. /\ Slotted' /\ pc'[r] = place /\ job'[r] = what
        /\ \A q \in Requests \ {r} : pc'[q] = pc[q] /\ job'[q] = job[q]
    BY SlotMoves DEF BackupTypes, Slotted, Moves
  <1>3. \A q \in Requests : pc'[q] # "idle" => job'[q].own \in SUBSET Back!Files
    BY <1>2 DEF BackupTypes
  <1>4. QED
    BY <1>1, <1>2, <1>3 DEF BackupTypes, Back!TypeOK, BackupPlaces

LEMMA MakeTyped ==
  ASSUME BackupTypes, NEW r \in Requests, pc[r] # "idle", NEW form \in {"sql", "tar"},
         NEW next \in BackupPlaces, Back!Make(r, form, next)
  PROVE  BackupTypes'
  <1>1. time < MAX_TIME /\ time' = time + 1 /\ time \in 0..MAX_TIME
    BY DEF Back!Make, BackupTypes, Back!TypeOK
  <1>2. time' \in 0..MAX_TIME /\ time' \in 1..MAX_TIME
    BY <1>1, BoundsAssumption
  <1>3. PICK f \in Back!Files : f = Back!File(time', form)
    BY <1>2 DEF Back!File, Back!Files
  <1>4. files' = files \cup {f} /\ files \in SUBSET Back!Files
        /\ job[r].own \in SUBSET Back!Files
    BY <1>3 DEF Back!Make, BackupTypes, Back!TypeOK
  <1>5. \/ Moves(r, next, Back!Job(job[r].mode, job[r].own \cup {f}, {}))
        \/ Moves(r, "idle", None)
    BY <1>3 DEF Back!Make, Back!Carry, Back!Leave, Back!Go, Moves
  <1>6. QED
    BY <1>2, <1>4, <1>5, BackupGoes DEF Back!Job, BackupPlaces

LEMMA BackupsTyped == BackupTypes /\ [Back!Next]_(Back!vars) => BackupTypes'
  <1> SUFFICES ASSUME BackupTypes, [Back!Next]_(Back!vars)
               PROVE  BackupTypes'
    OBVIOUS
  <1>1. files \in SUBSET Back!Files /\ time \in 0..MAX_TIME
    BY DEF BackupTypes, Back!TypeOK
  <1>2. ASSUME NEW r \in Requests, Back!Dump(r)
        PROVE  BackupTypes'
    BY <1>2, MakeTyped DEF Back!Dump, Back!At, BackupPlaces
  <1>3. ASSUME NEW r \in Requests, Back!Archive(r)
        PROVE  BackupTypes'
    <2>1. CASE Back!Make(r, "tar", "uploading")
      BY <1>3, <2>1, MakeTyped DEF Back!Archive, Back!At, BackupPlaces
    <2>2. CASE Back!Carry(r, "uploading", job[r].own) /\ UNCHANGED <<files, time>>
      <3>1. Moves(r, "uploading", Back!Job(job[r].mode, job[r].own, {}))
        BY <2>2 DEF Back!Carry, Back!Go, Moves
      <3>2. job[r].own \in SUBSET Back!Files
        BY <1>3 DEF Back!Archive, Back!At, BackupTypes
      <3>3. QED
        BY <1>1, <2>2, <3>1, <3>2, BackupGoes DEF Back!Job, BackupPlaces
    <2>3. QED
      BY <1>3, <2>1, <2>2 DEF Back!Archive
  <1>4. ASSUME NEW r \in Requests, Back!Zip(r)
        PROVE  BackupTypes'
    <2>1. PICK f \in job[r].own :
            IF f \notin files THEN Back!Leave(r) /\ UNCHANGED files
            ELSE /\ files' = (files \ {f}) \cup {Back!File(f.time, "gz")}
                 /\ Back!Carry(r, IF job[r].mode = "db" THEN "uploading" ELSE "archiving",
                               {Back!File(f.time, "gz")})
      BY <1>4 DEF Back!Zip
    <2>2. f \in Back!Files
      BY <1>4 DEF Back!Zip, Back!At, BackupTypes
    <2>3. PICK z \in Back!Files : z = Back!File(f.time, "gz")
      BY <2>2 DEF Back!File, Back!Files
    <2>4. files' \in SUBSET Back!Files /\ time' = time
      BY <1>1, <1>4, <2>1, <2>3 DEF Back!Zip
    <2>5. \/ Moves(r, "idle", None)
          \/ \E place \in {"uploading", "archiving"} :
               Moves(r, place, Back!Job(job[r].mode, {z}, {}))
      BY <2>1, <2>3 DEF Back!Carry, Back!Leave, Back!Go, Moves
    <2>6. QED
      BY <1>1, <2>4, <2>5, BackupGoes DEF Back!Job, BackupPlaces
  <1>5. ASSUME NEW r \in Requests, Back!Upload(r)
        PROVE  BackupTypes'
    <2>1. job[r].own \in SUBSET Back!Files /\ UNCHANGED <<files, time>>
      BY <1>5 DEF Back!Upload, Back!At, BackupTypes
    <2>2. \/ Moves(r, "idle", None)
          \/ \E f : Moves(r, "uploading", Back!Job(job[r].mode, job[r].own \ {f}, {}))
      BY <1>5 DEF Back!Upload, Back!Carry, Back!Leave, Back!Go, Moves
    <2>3. QED
      BY <1>1, <2>1, <2>2, BackupGoes DEF Back!Job, BackupPlaces
  <1>6. ASSUME NEW r \in Requests,
               \/ \E mode \in {"full", "db", "uploads"} : Back!Start(r, mode)
               \/ Back!List(r) \/ Back!Sort(r) \/ Back!Unlink(r) \/ Back!End(r) \/ Back!Fail(r)
        PROVE  BackupTypes'
    <2>1. files' \in SUBSET files /\ time' = time
      BY <1>6 DEF Back!Start, Back!List, Back!Sort, Back!Unlink, Back!End, Back!Fail
    <2>2. \/ Moves(r, "idle", None)
          \/ \E place \in BackupPlaces : \E mode, doomed :
               Moves(r, place, Back!Job(mode, {}, doomed))
      BY <1>6 DEF Back!Start, Back!List, Back!Sort, Back!Unlink, Back!End, Back!Fail, Back!Stop,
                  Back!Leave, Back!Go, Moves, BackupPlaces
    <2>3. QED
      BY <1>1, <2>1, <2>2, BackupGoes DEF Back!Job, BackupPlaces
  <1>7. CASE UNCHANGED Back!vars
    BY <1>7 DEF Back!vars, Back!slotVars, BackupTypes, Back!TypeOK, Slotted
  <1>8. QED
    BY <1>2, <1>3, <1>4, <1>5, <1>6, <1>7 DEF Back!Next

LEMMA BackupsAreTyped == Spec => [](service = "backups" => Back!TypeOK)
  <1> DEFINE Inv == service = "backups" => BackupTypes
  <1>1. Init => Inv
    BY BoundsAssumption DEF Init, Back!Init, Back!AllIdle, BackupTypes, Back!TypeOK, Slotted
  <1>2. Inv /\ [Next]_vars => Inv'
    BY BackupsTyped, BackupStep, ServiceStays
  <1>3. Inv => (service = "backups" => Back!TypeOK)
    BY DEF BackupTypes
  <1>4. QED
    BY <1>1, <1>2, <1>3, PTL DEF Spec
=============================================================================
