------------------------------ MODULE AccountProofs ------------------------------
(***************************************************************************)
(* Proofs about the accounts in Services: how often a reset link works,    *)
(* what a ban stops, and what resets of the account table leave.           *)
(***************************************************************************)
EXTENDS ServicesProofs

-----------------------------------------------------------------------------
(* Access *)

LEMMA AccessStep ==
  ASSUME service = "access", [Next]_vars
  PROVE  [Acc!Next]_(Acc!vars)
  BY DEF Next, Only, vars, slotVars, accessVars, Acc!vars, Acc!rowVars, Acc!mailVars,
         Acc!slotVars

(* The handlers about to write a password with t, and the logins about to be
   answered. *)
Hashing(t) == {r \in Requests : pc[r] = "hashing" /\ job[r] = t}
SigningIn == {r \in Requests : pc[r] = "issuing" /\ job[r] = "login"}

(* What each handler holds. *)
AccessJobs ==
  \A r \in Requests :
    /\ pc[r] = "banning" => job[r] \in BOOLEAN
    /\ pc[r] \in {"storing", "mailing"} => job[r] \in drawn
    /\ pc[r] = "storing" => job[r] \notin mailed
    /\ pc[r] = "hashing" => job[r] \in mailed

AccessInv == Acc!TypeOK /\ Slotted /\ OneAtATime /\ AccessJobs

(* A token is stored and mailed by one handler, and the one in the row has not
   been used yet. *)
LinkInv ==
  /\ mailed \subseteq drawn
  /\ \A q, r \in Requests :
       /\ {pc[q], pc[r]} \subseteq {"storing", "mailing"}
       /\ job[q] = job[r]
       => q = r
  /\ \A t \in ResetTokens : resets[t] # 0 => t \in mailed /\ token # t

(* Every password that was, or is about to be, written with one link. *)
SpentInv ==
  \A t \in ResetTokens : resets[t] + Cardinality(Hashing(t)) <= Racers

(* Every login that was, or is about to be, answered since the ban. *)
BanInv ==
  /\ ~banned => late = 0
  /\ banned => late + Cardinality(SigningIn) <= Racers - 1

-----------------------------------------------------------------------------

LEMMA InitAccess == Acc!Init => AccessInv /\ LinkInv /\ SpentInv /\ BanInv
  <1> SUFFICES ASSUME Acc!Init
               PROVE  AccessInv /\ LinkInv /\ SpentInv /\ BanInv
    OBVIOUS
  <1>1. AccessInv
    BY DEF Acc!Init, Acc!AllIdle, AccessInv, Acc!TypeOK, Slotted, OneAtATime, Busy,
           AccessJobs
  <1>2. LinkInv /\ BanInv
    BY DEF Acc!Init, Acc!AllIdle, LinkInv, BanInv
  <1>3. \A t \in ResetTokens : resets[t] = 0 /\ Hashing(t) = {}
    BY DEF Acc!Init, Acc!AllIdle, Hashing
  <1>4. SpentInv
    BY <1>3, FS_EmptySet, RacersType DEF SpentInv
  <1>5. QED
    BY <1>1, <1>2, <1>4

(* Who holds no link and answers no login adds to neither count. *)
LEMMA HashingFalls ==
  ASSUME SpentInv, AccessInv, UNCHANGED resets,
         \A t \in ResetTokens : Hashing(t)' \subseteq Hashing(t)
  PROVE  SpentInv'
  <1> SUFFICES ASSUME NEW t \in ResetTokens
               PROVE  resets[t] + Cardinality(Hashing(t)') <= Racers
    BY DEF SpentInv, Racers
  <1>1. Hashing(t) \in SUBSET Requests /\ Hashing(t)' \in SUBSET Hashing(t)
    BY DEF Hashing
  <1>2. Cardinality(Hashing(t)') <= Cardinality(Hashing(t))
    BY <1>1, CountFewer
  <1>3. Cardinality(Hashing(t)') \in Nat /\ Cardinality(Hashing(t)) \in Nat
    BY <1>1, CountSome
  <1>4. QED
    BY <1>2, <1>3, RacersType DEF SpentInv, AccessInv, Acc!TypeOK

LEMMA SigningInFalls ==
  ASSUME BanInv, AccessInv, UNCHANGED <<banned, late>>, SigningIn' \subseteq SigningIn
  PROVE  BanInv'
  <1>1. SigningIn \in SUBSET Requests /\ SigningIn' \in SUBSET SigningIn
    BY DEF SigningIn
  <1>2. Cardinality(SigningIn') <= Cardinality(SigningIn)
    BY <1>1, CountFewer
  <1>3. Cardinality(SigningIn') \in Nat /\ Cardinality(SigningIn) \in Nat
    BY <1>1, CountSome
  <1>4. Racers' = Racers
    BY DEF Racers
  <1>5. QED
    BY <1>2, <1>3, <1>4, RacersType DEF BanInv, AccessInv, Acc!TypeOK

LEMMA AccessFree ==
  ASSUME NEW r \in Requests, Acc!Admit(r)
  PROVE  pc[r] = "idle" /\ (Overlap \/ Busy = {})
  BY DEF Acc!Admit, Acc!Active, Acc!Open, Acc!Quiet, Busy

(* A step of one slot keeps what AccessInv says of the slots, if the new job
   fits the new place. *)
AccessPlaces == {"idle", "issuing", "banning", "storing", "mailing", "hashing"}

LEMMA AccessMoves ==
  ASSUME AccessInv, NEW r \in Requests, NEW place \in AccessPlaces, NEW what,
         Moves(r, place, what), r \in Busy \/ Overlap \/ Busy = {}
  PROVE  /\ pc' \in [Requests -> AccessPlaces]
         /\ Slotted' /\ OneAtATime'
         /\ pc'[r] = place /\ job'[r] = what
         /\ \A q \in Requests \ {r} : pc'[q] = pc[q] /\ job'[q] = job[q]
  BY SlotMoves DEF AccessInv, Acc!TypeOK, Moves, AccessPlaces

(* The entries that have nothing to do with links. *)
LEMMA EntryKeeps ==
  ASSUME AccessInv, LinkInv, SpentInv, BanInv, NEW r \in Requests,
         NEW place \in {"idle", "issuing", "banning"}, NEW what,
         Moves(r, place, what), r \in Busy \/ Overlap \/ Busy = {},
         place = "banning" => what \in BOOLEAN,
         place = "issuing" /\ what = "login" => ~banned,
         UNCHANGED <<session, banned, token, fresh, drawn, mailed, resets, late>>
  PROVE  AccessInv' /\ LinkInv' /\ SpentInv' /\ BanInv'
  <1>1. /\ pc' \in [Requests -> AccessPlaces]
        /\ Slotted' /\ OneAtATime'
        /\ pc'[r] = place /\ job'[r] = what
        /\ \A q \in Requests \ {r} : pc'[q] = pc[q] /\ job'[q] = job[q]
    BY AccessMoves DEF AccessPlaces
  <1>2. AccessInv'
    BY <1>1 DEF AccessInv, Acc!TypeOK, AccessJobs, AccessPlaces
  <1>3. LinkInv'
    BY <1>1 DEF LinkInv
  <1>4. SpentInv'
    BY <1>1, HashingFalls DEF Hashing
  <1>5. BanInv'
    <2>1. CASE place = "issuing" /\ what = "login"
      BY <2>1 DEF BanInv
    <2>2. CASE ~(place = "issuing" /\ what = "login")
      BY <1>1, <2>2, SigningInFalls DEF SigningIn
    <2>3. QED
      BY <2>1, <2>2
  <1>6. QED
    BY <1>2, <1>3, <1>4, <1>5

LEMMA ForgotKeeps ==
  ASSUME AccessInv, LinkInv, SpentInv, BanInv, NEW r \in Requests,
         NEW t \in ResetTokens, Acc!ForgotPassword(r, t)
  PROVE  AccessInv' /\ LinkInv' /\ SpentInv' /\ BanInv'
  <1>1. /\ t \notin drawn /\ drawn' = drawn \cup {t}
        /\ UNCHANGED <<session, banned, token, fresh, mailed, resets, late>>
        /\ Moves(r, "storing", t)
    BY DEF Acc!ForgotPassword, Acc!rowVars, Acc!Go, Moves
  <1>2. pc[r] = "idle" /\ (Overlap \/ Busy = {})
    BY AccessFree DEF Acc!ForgotPassword
  <1>3. /\ pc' \in [Requests -> AccessPlaces]
        /\ Slotted' /\ OneAtATime'
        /\ pc'[r] = "storing" /\ job'[r] = t
        /\ \A q \in Requests \ {r} : pc'[q] = pc[q] /\ job'[q] = job[q]
    BY <1>1, <1>2, AccessMoves DEF AccessPlaces
  <1>4. AccessInv'
    <2>1. Acc!TypeOK'
      BY <1>1, <1>3 DEF AccessInv, Acc!TypeOK, AccessPlaces
    <2>2. AccessJobs'
      BY <1>1, <1>3 DEF AccessInv, AccessJobs, LinkInv
    <2>3. QED
      BY <1>3, <2>1, <2>2 DEF AccessInv
  <1>5. LinkInv'
    BY <1>1, <1>3 DEF LinkInv, AccessInv, AccessJobs
  <1>6. SpentInv'
    BY <1>1, <1>3, HashingFalls DEF Hashing
  <1>7. BanInv'
    BY <1>1, <1>3, SigningInFalls DEF SigningIn
  <1>8. QED
    BY <1>4, <1>5, <1>6, <1>7

(* A link that still works has not been used, so only the handlers that race
   for it count. *)
LEMMA ResetKeeps ==
  ASSUME AccessInv, LinkInv, SpentInv, BanInv, NEW r \in Requests,
         NEW t \in ResetTokens, Acc!ResetPassword(r, t), token = t, fresh
  PROVE  AccessInv' /\ LinkInv' /\ SpentInv' /\ BanInv'
  <1>1. /\ t \in mailed
        /\ UNCHANGED <<session, banned, token, fresh, drawn, mailed, resets, late>>
        /\ Moves(r, "hashing", t)
    BY DEF Acc!ResetPassword, Acc!rowVars, Acc!mailVars, Acc!Go, Moves
  <1>2. pc[r] = "idle" /\ (Overlap \/ Busy = {})
    BY AccessFree DEF Acc!ResetPassword
  <1>3. /\ pc' \in [Requests -> AccessPlaces]
        /\ Slotted' /\ OneAtATime'
        /\ pc'[r] = "hashing" /\ job'[r] = t
        /\ \A q \in Requests \ {r} : pc'[q] = pc[q] /\ job'[q] = job[q]
    BY <1>1, <1>2, AccessMoves DEF AccessPlaces
  <1>4. AccessInv'
    BY <1>1, <1>3 DEF AccessInv, Acc!TypeOK, AccessJobs, AccessPlaces
  <1>5. LinkInv'
    BY <1>1, <1>3 DEF LinkInv
  <1>6. SpentInv'
    <2> SUFFICES ASSUME NEW u \in ResetTokens
                 PROVE  resets'[u] + Cardinality(Hashing(u)') <= Racers
      BY DEF SpentInv, Racers
    <2>1. CASE u = t
      <3>1. resets'[u] = 0
        BY <1>1, <2>1 DEF LinkInv, AccessInv, Acc!TypeOK
      <3>2. Hashing(u)' \subseteq Busy'
        BY DEF Hashing, Busy
      <3>3. Busy' \in SUBSET Requests /\ (~Overlap => \A p, q \in Busy' : p = q)
        BY <1>3 DEF Busy, OneAtATime
      <3>4. Cardinality(Hashing(u)') \in Nat /\ Cardinality(Hashing(u)') <= Racers
        BY <3>2, <3>3, CountRacers
      <3>5. QED
        BY <3>1, <3>4
    <2>2. CASE u # t
      <3>1. Hashing(u)' = Hashing(u)
        BY <1>2, <1>3, <2>2 DEF Hashing
      <3>2. QED
        BY <1>1, <3>1 DEF SpentInv
    <2>3. QED
      BY <2>1, <2>2
  <1>7. BanInv'
    BY <1>1, <1>3, SigningInFalls DEF SigningIn
  <1>8. QED
    BY <1>4, <1>5, <1>6, <1>7

(* The login that is answered late moves from one count to the other. *)
LEMMA IssueKeeps ==
  ASSUME AccessInv, LinkInv, SpentInv, BanInv, NEW r \in Requests,
         Acc!GenerateTokenPair(r)
  PROVE  AccessInv' /\ LinkInv' /\ SpentInv' /\ BanInv'
  <1>1. /\ pc[r] = "issuing" /\ session' = TRUE
        /\ late' = (IF banned /\ job[r] = "login" THEN late + 1 ELSE late)
        /\ UNCHANGED <<banned, token, fresh, drawn, mailed, resets>>
        /\ Moves(r, "idle", None)
    BY DEF Acc!GenerateTokenPair, Acc!At, Acc!mailVars, Acc!Leave, Acc!Go, Moves
  <1>2. r \in Busy
    BY <1>1 DEF Busy
  <1>3. /\ pc' \in [Requests -> AccessPlaces]
        /\ Slotted' /\ OneAtATime'
        /\ pc'[r] = "idle" /\ job'[r] = None
        /\ \A q \in Requests \ {r} : pc'[q] = pc[q] /\ job'[q] = job[q]
    BY <1>1, <1>2, AccessMoves DEF AccessPlaces
  <1>4. late \in Nat /\ late' \in Nat
    BY <1>1 DEF AccessInv, Acc!TypeOK
  <1>5. AccessInv'
    BY <1>1, <1>3, <1>4 DEF AccessInv, Acc!TypeOK, AccessJobs, AccessPlaces
  <1>6. LinkInv'
    BY <1>1, <1>3 DEF LinkInv
  <1>7. SpentInv'
    BY <1>1, <1>3, HashingFalls DEF Hashing
  <1>8. BanInv'
    <2>1. CASE banned /\ job[r] = "login"
      <3>1. r \in SigningIn /\ SigningIn' \in SUBSET (SigningIn \ {r})
        BY <1>1, <1>3, <2>1 DEF SigningIn
      <3>2. SigningIn \in SUBSET Requests /\ SigningIn' \in SUBSET Requests
        BY DEF SigningIn
      <3>3. Cardinality(SigningIn') <= Cardinality(SigningIn) - 1
        BY <3>1, <3>2, CountLess
      <3>4. Cardinality(SigningIn) \in Nat /\ Cardinality(SigningIn') \in Nat
        BY <3>2, CountSome
      <3>5. QED
        BY <1>1, <1>4, <2>1, <3>3, <3>4, RacersType DEF BanInv, Racers
    <2>2. CASE ~(banned /\ job[r] = "login")
      BY <1>1, <1>3, <2>2, SigningInFalls DEF SigningIn
    <2>3. QED
      BY <2>1, <2>2
  <1>9. QED
    BY <1>5, <1>6, <1>7, <1>8

(* When a ban is written, the handler that writes it is no login. *)
LEMMA BanKeeps ==
  ASSUME AccessInv, LinkInv, SpentInv, BanInv, NEW r \in Requests, Acc!SetBanned(r)
  PROVE  AccessInv' /\ LinkInv' /\ SpentInv' /\ BanInv'
  <1>1. /\ pc[r] = "banning" /\ banned' = job[r]
        /\ late' = (IF job[r] THEN late ELSE 0)
        /\ UNCHANGED <<session, token, fresh, drawn, mailed, resets>>
        /\ Moves(r, "idle", None)
    BY DEF Acc!SetBanned, Acc!At, Acc!mailVars, Acc!Leave, Acc!Go, Moves
  <1>2. r \in Busy
    BY <1>1 DEF Busy
  <1>3. /\ pc' \in [Requests -> AccessPlaces]
        /\ Slotted' /\ OneAtATime'
        /\ pc'[r] = "idle" /\ job'[r] = None
        /\ \A q \in Requests \ {r} : pc'[q] = pc[q] /\ job'[q] = job[q]
    BY <1>1, <1>2, AccessMoves DEF AccessPlaces
  <1>4. job[r] \in BOOLEAN
    BY <1>1 DEF AccessInv, AccessJobs
  <1>5. late \in Nat
    BY DEF AccessInv, Acc!TypeOK
  <1>6. late' \in Nat /\ banned' \in BOOLEAN
    BY <1>1, <1>4, <1>5
  <1>7. AccessInv'
    BY <1>1, <1>3, <1>6 DEF AccessInv, Acc!TypeOK, AccessJobs, AccessPlaces
  <1>8. LinkInv'
    BY <1>1, <1>3 DEF LinkInv
  <1>9. SpentInv'
    BY <1>1, <1>3, HashingFalls DEF Hashing
  <1>10. SigningIn' = SigningIn
    BY <1>1, <1>3 DEF SigningIn
  <1>11. Racers' = Racers
    BY DEF Racers
  <1>12. BanInv'
    <2>1. CASE job[r] = FALSE
      BY <1>1, <2>1 DEF BanInv
    <2>2. CASE job[r] = TRUE /\ banned
      BY <1>1, <1>10, <1>11, <2>2 DEF BanInv
    <2>3. CASE job[r] = TRUE /\ ~banned
      <3>1. late' = 0 /\ banned'
        BY <1>1, <2>3 DEF BanInv
      <3>2. Busy \in SUBSET Requests /\ (~Overlap => \A p, q \in Busy : p = q)
        BY DEF Busy, AccessInv, OneAtATime
      <3>3. SigningIn \in SUBSET Busy /\ r \in Busy \ SigningIn
        BY <1>1, <1>2 DEF SigningIn, Busy
      <3>4. Cardinality(SigningIn) \in Nat /\ Cardinality(SigningIn) <= Racers - 1
        BY <3>2, <3>3, CountRacers
      <3>5. QED
        BY <1>10, <1>11, <3>1, <3>4 DEF BanInv
    <2>4. QED
      BY <1>4, <2>1, <2>2, <2>3
  <1>13. QED
    BY <1>7, <1>8, <1>9, <1>12

(* A token that is stored has not been mailed, so nobody has used it. *)
LEMMA StoreKeeps ==
  ASSUME AccessInv, LinkInv, SpentInv, BanInv, NEW r \in Requests, Acc!StoreToken(r)
  PROVE  AccessInv' /\ LinkInv' /\ SpentInv' /\ BanInv'
  <1>1. /\ pc[r] = "storing" /\ token' = job[r] /\ fresh' = TRUE
        /\ UNCHANGED <<session, banned, drawn, mailed, resets, late>>
        /\ Moves(r, "mailing", job[r])
    BY DEF Acc!StoreToken, Acc!At, Acc!Step, Acc!Go, Moves
  <1>2. r \in Busy
    BY <1>1 DEF Busy
  <1>3. /\ pc' \in [Requests -> AccessPlaces]
        /\ Slotted' /\ OneAtATime'
        /\ pc'[r] = "mailing" /\ job'[r] = job[r]
        /\ \A q \in Requests \ {r} : pc'[q] = pc[q] /\ job'[q] = job[q]
    BY <1>1, <1>2, AccessMoves DEF AccessPlaces
  <1>4. job[r] \in drawn /\ job[r] \notin mailed
    BY <1>1 DEF AccessInv, AccessJobs
  <1>5. AccessInv'
    BY <1>1, <1>3, <1>4 DEF AccessInv, Acc!TypeOK, AccessJobs, AccessPlaces
  <1>6. LinkInv'
    BY <1>1, <1>3, <1>4 DEF LinkInv
  <1>7. SpentInv'
    BY <1>1, <1>3, HashingFalls DEF Hashing
  <1>8. BanInv'
    BY <1>1, <1>3, SigningInFalls DEF SigningIn
  <1>9. QED
    BY <1>5, <1>6, <1>7, <1>8

LEMMA SendKeeps ==
  ASSUME AccessInv, LinkInv, SpentInv, BanInv, NEW r \in Requests, Acc!SendLink(r)
  PROVE  AccessInv' /\ LinkInv' /\ SpentInv' /\ BanInv'
  <1>1. /\ pc[r] = "mailing" /\ mailed' \in {mailed, mailed \cup {job[r]}}
        /\ UNCHANGED <<session, banned, token, fresh, drawn, resets, late>>
        /\ Moves(r, "idle", None)
    BY DEF Acc!SendLink, Acc!At, Acc!rowVars, Acc!Leave, Acc!Go, Moves
  <1>2. r \in Busy
    BY <1>1 DEF Busy
  <1>3. /\ pc' \in [Requests -> AccessPlaces]
        /\ Slotted' /\ OneAtATime'
        /\ pc'[r] = "idle" /\ job'[r] = None
        /\ \A q \in Requests \ {r} : pc'[q] = pc[q] /\ job'[q] = job[q]
    BY <1>1, <1>2, AccessMoves DEF AccessPlaces
  <1>4. job[r] \in drawn /\ drawn \in SUBSET ResetTokens
    BY <1>1 DEF AccessInv, AccessJobs, Acc!TypeOK
  <1>5. \A q \in Requests \ {r} : pc[q] = "storing" => job[q] # job[r]
    BY <1>1 DEF LinkInv
  <1>6. AccessInv'
    <2>1. Acc!TypeOK'
      BY <1>1, <1>3, <1>4 DEF AccessInv, Acc!TypeOK, AccessPlaces
    <2>2. AccessJobs'
      BY <1>1, <1>3, <1>5 DEF AccessInv, AccessJobs
    <2>3. QED
      BY <1>3, <2>1, <2>2 DEF AccessInv
  <1>7. LinkInv'
    BY <1>1, <1>3, <1>4 DEF LinkInv
  <1>8. SpentInv'
    BY <1>1, <1>3, HashingFalls DEF Hashing
  <1>9. BanInv'
    BY <1>1, <1>3, SigningInFalls DEF SigningIn
  <1>10. QED
    BY <1>6, <1>7, <1>8, <1>9

(* The password that is written moves from one count to the other. *)
LEMMA PasswordKeeps ==
  ASSUME AccessInv, LinkInv, SpentInv, BanInv, NEW r \in Requests, Acc!WritePassword(r)
  PROVE  AccessInv' /\ LinkInv' /\ SpentInv' /\ BanInv'
  <1>1. /\ pc[r] = "hashing" /\ token' = None /\ fresh' = FALSE
        /\ resets' = [resets EXCEPT ![job[r]] = @ + 1]
        /\ UNCHANGED <<session, banned, drawn, mailed, late>>
        /\ Moves(r, "idle", None)
    BY DEF Acc!WritePassword, Acc!At, Acc!mailVars, Acc!Leave, Acc!Go, Moves
  <1>2. r \in Busy
    BY <1>1 DEF Busy
  <1>3. /\ pc' \in [Requests -> AccessPlaces]
        /\ Slotted' /\ OneAtATime'
        /\ pc'[r] = "idle" /\ job'[r] = None
        /\ \A q \in Requests \ {r} : pc'[q] = pc[q] /\ job'[q] = job[q]
    BY <1>1, <1>2, AccessMoves DEF AccessPlaces
  <1>4. PICK t \in mailed : t = job[r]
    BY <1>1 DEF AccessInv, AccessJobs
  <1>5. t \in ResetTokens /\ resets \in [ResetTokens -> Nat]
    BY DEF AccessInv, Acc!TypeOK
  <1>6. /\ resets' \in [ResetTokens -> Nat] /\ resets'[t] = resets[t] + 1
        /\ \A u \in ResetTokens \ {t} : resets'[u] = resets[u]
    BY <1>1, <1>4, <1>5
  <1>7. AccessInv'
    <2>1. Acc!TypeOK'
      BY <1>1, <1>3, <1>6 DEF AccessInv, Acc!TypeOK, AccessPlaces
    <2>2. AccessJobs'
      BY <1>1, <1>3 DEF AccessInv, AccessJobs
    <2>3. QED
      BY <1>3, <2>1, <2>2 DEF AccessInv
  <1>8. LinkInv'
    <2>1. None \notin ResetTokens
      BY NoneAssumption
    <2>2. \A u \in ResetTokens : resets'[u] # 0 => u \in mailed' /\ token' # u
      BY <1>1, <1>4, <1>6, <2>1 DEF LinkInv
    <2>3. QED
      BY <1>1, <1>3, <2>2 DEF LinkInv
  <1>9. SpentInv'
    <2> SUFFICES ASSUME NEW u \in ResetTokens
                 PROVE  resets'[u] + Cardinality(Hashing(u)') <= Racers
      BY DEF SpentInv, Racers
    <2>1. CASE u = t
      <3>1. r \in Hashing(t) /\ Hashing(t)' \in SUBSET (Hashing(t) \ {r})
        BY <1>1, <1>3, <1>4 DEF Hashing
      <3>2. Hashing(t) \in SUBSET Requests /\ Hashing(t)' \in SUBSET Requests
        BY DEF Hashing
      <3>3. Cardinality(Hashing(t)') <= Cardinality(Hashing(t)) - 1
        BY <3>1, <3>2, CountLess
      <3>4. Cardinality(Hashing(t)) \in Nat /\ Cardinality(Hashing(t)') \in Nat
        BY <3>2, CountSome
      <3>5. QED
        BY <1>5, <1>6, <2>1, <3>3, <3>4, RacersType DEF SpentInv
    <2>2. CASE u # t
      <3>1. Hashing(u)' = Hashing(u)
        BY <1>1, <1>3, <1>4, <2>2 DEF Hashing
      <3>2. QED
        BY <1>6, <2>2, <3>1 DEF SpentInv
    <2>3. QED
      BY <2>1, <2>2
  <1>10. BanInv'
    BY <1>1, <1>3, SigningInFalls DEF SigningIn
  <1>11. QED
    BY <1>7, <1>8, <1>9, <1>10

LEMMA NextAccess ==
  AccessInv /\ LinkInv /\ SpentInv /\ BanInv /\ [Acc!Next]_(Acc!vars)
    => AccessInv' /\ LinkInv' /\ SpentInv' /\ BanInv'
  <1> SUFFICES ASSUME AccessInv, LinkInv, SpentInv, BanInv, [Acc!Next]_(Acc!vars)
               PROVE  AccessInv' /\ LinkInv' /\ SpentInv' /\ BanInv'
    OBVIOUS
  <1>a. TRUE \in BOOLEAN /\ FALSE \in BOOLEAN /\ "login" # "second" /\ "login" # "refresh"
    OBVIOUS
  <1>1. ASSUME NEW r \in Requests,
               \/ \E right, factor \in BOOLEAN : Acc!Login(r, right, factor)
               \/ Acc!SignIn(r) \/ Acc!LoginSecond(r) \/ Acc!Refresh(r)
               \/ \E ban \in BOOLEAN : Acc!UpdateUser(r, ban)
        PROVE  AccessInv' /\ LinkInv' /\ SpentInv' /\ BanInv'
    <2>1. /\ pc[r] = "idle" /\ (Overlap \/ Busy = {})
          /\ UNCHANGED <<session, banned, token, fresh, drawn, mailed, resets, late>>
      BY <1>1, AccessFree
         DEF Acc!Login, Acc!SignIn, Acc!LoginSecond, Acc!Refresh, Acc!UpdateUser,
             Acc!rowVars, Acc!mailVars
    <2>2. \/ Moves(r, "idle", None)
          \/ Moves(r, "issuing", "login") /\ ~banned
          \/ Moves(r, "issuing", "second") \/ Moves(r, "issuing", "refresh")
          \/ \E ban \in BOOLEAN : Moves(r, "banning", ban)
      BY <1>1 DEF Acc!Login, Acc!SignIn, Acc!LoginSecond, Acc!Refresh, Acc!UpdateUser,
                  Acc!Leave, Acc!Go, Moves
    <2>3. QED
      BY <1>a, <2>1, <2>2, EntryKeeps
  <1>2. ASSUME NEW r \in Requests, NEW t \in ResetTokens, Acc!ResetPassword(r, t)
        PROVE  AccessInv' /\ LinkInv' /\ SpentInv' /\ BanInv'
    <2>1. CASE token = t /\ fresh
      BY <1>2, <2>1, ResetKeeps
    <2>2. CASE ~(token = t /\ fresh)
      <3>1. /\ Overlap \/ Busy = {}
            /\ Moves(r, "idle", None)
            /\ UNCHANGED <<session, banned, token, fresh, drawn, mailed, resets, late>>
        BY <1>2, <2>2, AccessFree
           DEF Acc!ResetPassword, Acc!rowVars, Acc!mailVars, Acc!Leave, Acc!Go, Moves
      <3>2. QED
        BY <3>1, EntryKeeps
    <2>3. QED
      BY <2>1, <2>2
  <1>3. ASSUME NEW r \in Requests, Acc!Fail(r)
        PROVE  AccessInv' /\ LinkInv' /\ SpentInv' /\ BanInv'
    <2>1. /\ r \in Busy /\ Moves(r, "idle", None)
          /\ UNCHANGED <<session, banned, token, fresh, drawn, mailed, resets, late>>
      BY <1>3 DEF Acc!Fail, Acc!Stop, Acc!Active, Acc!rowVars, Acc!mailVars, Acc!Leave,
                  Acc!Go, Moves, Busy
    <2>2. QED
      BY <2>1, EntryKeeps
  <1>4. ASSUME UNCHANGED <<session, banned, token, drawn, mailed, resets, late, pc, job>>,
               fresh' \in BOOLEAN
        PROVE  AccessInv' /\ LinkInv' /\ SpentInv' /\ BanInv'
    BY <1>4 DEF AccessInv, Acc!TypeOK, Slotted, OneAtATime, Busy, AccessJobs, LinkInv,
                SpentInv, Hashing, BanInv, SigningIn, Racers
  <1>5. CASE Acc!Expire
    BY <1>4, <1>5 DEF Acc!Expire, Acc!mailVars, Acc!slotVars
  <1>6. CASE UNCHANGED Acc!vars
    BY <1>4, <1>6 DEF Acc!vars, Acc!rowVars, Acc!mailVars, Acc!slotVars, AccessInv,
                      Acc!TypeOK
  <1>7. QED
    BY <1>1, <1>2, <1>3, <1>5, <1>6, ForgotKeeps, IssueKeeps, BanKeeps, StoreKeeps,
       SendKeeps, PasswordKeeps
       DEF Acc!Next, Acc!Entries

-----------------------------------------------------------------------------

(* An instance has a Cardinality of its own. *)
LEMMA AccessCardinality == \A S : Acc!Cardinality(S) = Cardinality(S)
  BY DEF Acc!Cardinality, Cardinality, Acc!IsFiniteSet, IsFiniteSet

LEMMA AccessInvariant ==
  Spec => [](service = "access" => AccessInv /\ LinkInv /\ SpentInv /\ BanInv)
  <1> DEFINE Inv == service = "access" => AccessInv /\ LinkInv /\ SpentInv /\ BanInv
  <1>1. Init => Inv
    BY InitAccess DEF Init
  <1>2. Inv /\ [Next]_vars => Inv'
    BY NextAccess, AccessStep, ServiceStays
  <1>3. QED
    BY <1>1, <1>2, PTL DEF Spec

(* LinkIsSpent: a reset link changes one password for each handler that can
   have raced for it, one when nothing overlaps, whatever fails in between. *)
THEOREM LinkSpends == Spec => []LinkIsSpent
  <1>1. (service = "access" => AccessInv /\ LinkInv /\ SpentInv /\ BanInv) => LinkIsSpent
    <2> SUFFICES ASSUME AccessInv, SpentInv, NEW t \in ResetTokens
                 PROVE  resets[t] <= Racers
      BY AccessCardinality DEF LinkIsSpent, Acc!LinkIsSpent, Racers
    <2>1. Hashing(t) \in SUBSET Requests
      BY DEF Hashing
    <2>2. QED
      BY <2>1, CountSome, RacersType DEF SpentInv, AccessInv, Acc!TypeOK
  <1>2. QED
    BY <1>1, AccessInvariant, PTL

(* BanStopsLogins: the logins that a banned account still gets an answer to
   were all in flight beside the handler that wrote the ban. *)
THEOREM BanStops == Spec => []BanStopsLogins
  <1>1. (service = "access" => AccessInv /\ LinkInv /\ SpentInv /\ BanInv)
          => BanStopsLogins
    <2> SUFFICES ASSUME AccessInv, BanInv
                 PROVE  late <= Racers - 1
      BY AccessCardinality DEF BanStopsLogins, Acc!BanStopsLogins, Racers
    <2>1. SigningIn \in SUBSET Requests
      BY DEF SigningIn
    <2>2. QED
      BY <2>1, CountSome, RacersType DEF BanInv, AccessInv, Acc!TypeOK
  <1>2. QED
    BY <1>1, AccessInvariant, PTL

-----------------------------------------------------------------------------
(* Accounts *)

LEMMA AccountStep ==
  ASSUME service = "accounts", [Next]_vars
  PROVE  [Users!Next]_(Users!vars)
  BY DEF Next, Only, vars, slotVars, accountVars, Users!vars, Users!slotVars,
         Users!historyVars

AccountRows ==
  [id : 1..MAX_ID, check : {"none", "live", "over"}, verified : BOOLEAN,
   link : Profiles \cup {None}]

Listed == AdminLists \cup {<<>>}

(* What the handlers hold that write a row. *)
AccountJobs ==
  \A r \in Requests :
    /\ pc[r] # "idle" => job[r].link \in Profiles \cup {None}
    /\ pc[r] = "seeding" => /\ job[r].emails \in Listed
                            /\ job[r].at \in 1..Len(job[r].emails)

AccountInv ==
  /\ account \in [Emails -> AccountRows \cup {None}]
  /\ lastId \in 0..MAX_ID /\ latest \in Listed /\ reset \in Users!Resets
  /\ Slotted /\ AccountJobs

Missing(i) == latest[i] \notin Users!Addresses

(* The handler r has the last list and is about to create the administrators
   from its place in it to i, none of whom is there. *)
Seeds(r, i) ==
  /\ pc[r] = "seeding" /\ job[r].emails = latest
  /\ job[r].at <= i /\ \A j \in job[r].at..i : Missing(j)

(* While the resets in flight have one list, it is the last one, and whoever is
   promised by it and missing is still to be created. *)
SeedInv ==
  /\ reset = "clean" =>
       \A r \in Requests : pc[r] = "seeding" => job[r].emails = latest
  /\ \A i \in Users!Promised : Missing(i) => \E r \in Requests : Seeds(r, i)

-----------------------------------------------------------------------------

LEMMA InitAccounts == Users!Init => AccountInv /\ SeedInv
  BY BoundsAssumption
     DEF Users!Init, Users!AllIdle, AccountInv, Slotted, AccountJobs, SeedInv, Listed,
         Users!Resets, Users!Promised

LEMMA ListType ==
  ASSUME NEW emails \in Listed
  PROVE  /\ emails \in Seq(Emails \cup {None})
         /\ Len(emails) \in Nat /\ DOMAIN emails = 1..Len(emails)
         /\ \A i \in 1..Len(emails) : emails[i] \in Emails \cup {None}
  <1> DEFINE Entries == Emails \cup {None}
  <1>1. emails \in Seq(Entries)
    <2>1. <<>> \in Seq(Entries)
      OBVIOUS
    <2>2. AdminLists \subseteq Seq(Entries)
      BY AdminListsAssumption
    <2> HIDE DEF Entries
    <2>3. QED
      BY <2>1, <2>2 DEF Listed
  <1> HIDE DEF Entries
  <1>2. /\ Len(emails) \in Nat /\ DOMAIN emails = 1..Len(emails)
        /\ \A i \in 1..Len(emails) : emails[i] \in Entries
    BY <1>1
  <1>3. QED
    BY <1>1, <1>2 DEF Entries

LEMMA AccountType ==
  ASSUME NEW id \in 1..MAX_ID, NEW check \in {"none", "live", "over"},
         NEW verified \in BOOLEAN, NEW link \in Profiles \cup {None}
  PROVE  Users!Account(id, check, verified, link) \in AccountRows
  BY DEF Users!Account, AccountRows

LEMMA RowIsThere == None \notin AccountRows
  <1> SUFFICES ASSUME None \in AccountRows
               PROVE  FALSE
    OBVIOUS
  <1>1. 1..MAX_ID \subseteq Nat
    BY BoundsAssumption
  <1>2. None \in [id : Nat, check : {"none", "live", "over"}, verified : BOOLEAN,
                  link : Profiles \cup {None}]
    BY <1>1 DEF AccountRows
  <1>3. QED
    BY <1>2, NoneAssumption

(* A row that is put there ... *)
LEMMA PutRow ==
  ASSUME AccountInv, NEW e, NEW a \in AccountRows, Users!Put(e, a)
  PROVE  /\ account' \in [Emails -> AccountRows \cup {None}]
         /\ Users!Addresses' = Users!Addresses \cup (Emails \cap {e})
  <1>1. account' = [account EXCEPT ![e] = a] /\ a # None
    BY RowIsThere DEF Users!Put
  <1>2. QED
    BY <1>1 DEF AccountInv, Users!Addresses

(* ... and one that is changed. *)
LEMMA ChangeRow ==
  ASSUME AccountInv, NEW e \in Users!Addresses, NEW a \in AccountRows, Users!Put(e, a)
  PROVE  /\ account' \in [Emails -> AccountRows \cup {None}]
         /\ Users!Addresses' = Users!Addresses
  BY PutRow DEF Users!Addresses

(* What a step of one slot does to the handlers. *)
LEMMA AccountMoves ==
  ASSUME AccountInv, NEW r \in Requests, NEW place, NEW what, Moves(r, place, what),
         place # "idle" => what.link \in Profiles \cup {None},
         place = "seeding" =>
           what.emails \in Listed /\ what.at \in 1..Len(what.emails)
  PROVE  /\ Slotted' /\ AccountJobs'
         /\ pc'[r] = place /\ job'[r] = what
         /\ \A q \in Requests \ {r} : pc'[q] = pc[q] /\ job'[q] = job[q]
  BY SlotMoves DEF AccountInv, AccountJobs

(* Nothing is promised after a sign-up or a failure that ends it. *)
LEMMA NothingPromised ==
  ASSUME reset' \in {"taken", "broken"}
  PROVE  SeedInv'
  BY DEF SeedInv, Users!Promised

(* No handler that creates administrators moves, and no administrator goes. *)
LEMMA SeedStays ==
  ASSUME AccountInv, SeedInv, NEW r \in Requests,
         pc[r] # "seeding", pc'[r] # "seeding",
         \A q \in Requests \ {r} : pc'[q] = pc[q] /\ job'[q] = job[q],
         UNCHANGED <<latest, reset>>,
         \A i \in 1..Len(latest) : Missing(i)' <=> Missing(i)
  PROVE  SeedInv'
  <1>1. reset' = "clean" =>
          \A q \in Requests : pc'[q] = "seeding" => job'[q].emails = latest'
    BY DEF SeedInv
  <1>2. Users!Promised' = Users!Promised
    BY DEF Users!Promised, Users!InReach
  <1>3. SUFFICES ASSUME NEW i \in Users!Promised, Missing(i)'
                 PROVE  \E q \in Requests : Seeds(q, i)'
    BY <1>1, <1>2 DEF SeedInv
  <1>4. i \in 1..Len(latest) /\ Len(latest) \in Nat
    BY ListType DEF Users!Promised, AccountInv
  <1>5. PICK q \in Requests : Seeds(q, i)
    BY <1>3, <1>4 DEF SeedInv
  <1>6. /\ pc'[q] = pc[q] /\ job'[q] = job[q] /\ pc[q] = "seeding"
        /\ job[q].emails = latest /\ job[q].at <= i
    BY <1>5 DEF Seeds
  <1>7. job[q].at \in 1..Len(latest)
    BY <1>6 DEF AccountInv, AccountJobs
  <1>8. \A j \in job[q].at..i : j \in 1..Len(latest)
    BY <1>4, <1>7
  <1>9. \A j \in job[q].at..i : Missing(j)'
    BY <1>5, <1>8 DEF Seeds
  <1>10. QED
    BY <1>6, <1>9 DEF Seeds

LEMMA RegisterKeeps ==
  ASSUME AccountInv, NEW r \in Requests, NEW e \in Emails,
         \/ Users!Register(r, e) \/ Users!VerifyEmail(r, e)
         \/ \E g \in Profiles : Users!SignIn(r, e, g)
  PROVE  AccountInv' /\ (SeedInv => SeedInv')
  <1>1. pc[r] = "idle" /\ UNCHANGED <<account, lastId, latest, reset>>
    BY DEF Users!Register, Users!VerifyEmail, Users!SignIn, Users!Admit, Users!Active,
           Users!historyVars
  <1>2. \/ Moves(r, "idle", None)
        \/ \E what, id, link :
             /\ link \in Profiles \cup {None}
             /\ \E place \in {"creating", "confirming", "looking", "enrolling", "linking"} :
                  Moves(r, place, Users!Job(what, id, link))
    <2>1. CASE Users!Register(r, e)
      BY <2>1 DEF Users!Register, Users!Leave, Users!Go, Moves
    <2>2. CASE Users!VerifyEmail(r, e)
      BY <2>2 DEF Users!VerifyEmail, Users!Go, Moves
    <2>3. CASE \E g \in Profiles : Users!SignIn(r, e, g)
      BY <2>3 DEF Users!SignIn, Users!Leave, Users!Go, Moves
    <2>4. QED
      BY <2>1, <2>2, <2>3
  <1>3. /\ Slotted' /\ AccountJobs' /\ pc'[r] # "seeding"
        /\ \A q \in Requests \ {r} : pc'[q] = pc[q] /\ job'[q] = job[q]
    <2>1. CASE Moves(r, "idle", None)
      BY <2>1, AccountMoves
    <2>2. ASSUME NEW what, NEW id, NEW link \in Profiles \cup {None},
                 NEW place \in {"creating", "confirming", "looking", "enrolling", "linking"},
                 Moves(r, place, Users!Job(what, id, link))
          PROVE  /\ Slotted' /\ AccountJobs' /\ pc'[r] # "seeding"
                 /\ \A q \in Requests \ {r} : pc'[q] = pc[q] /\ job'[q] = job[q]
      <3>1. Users!Job(what, id, link).link = link /\ place # "seeding"
        BY DEF Users!Job
      <3>2. QED
        BY <2>2, <3>1, AccountMoves
    <2>3. QED
      BY <1>2, <2>1, <2>2
  <1>4. SeedInv => SeedInv'
    BY <1>1, <1>3, SeedStays DEF Missing, Users!Addresses
  <1>5. QED
    BY <1>1, <1>3, <1>4 DEF AccountInv

(* A signing up that creates an account: with the address of an administrator
   it ends what the last reset promised. *)
LEMMA SignUpKeeps ==
  ASSUME AccountInv, NEW r \in Requests, Users!CreateUser(r) \/ Users!Enrol(r)
  PROVE  AccountInv' /\ (SeedInv => SeedInv')
  <1> DEFINE e == job[r].what
             link == IF pc[r] = "creating" THEN None ELSE job[r].link
  <1>1. pc[r] \in {"creating", "enrolling"} /\ link \in Profiles \cup {None}
    BY DEF Users!CreateUser, Users!Enrol, Users!At, AccountInv, AccountJobs
  <1>2. /\ latest' = latest
        /\ reset' = (IF lastId' # lastId /\ \E i \in DOMAIN latest : latest[i] = e
                     THEN "taken" ELSE reset)
    BY DEF Users!CreateUser, Users!Enrol, Users!SignUp
  <1>3. CASE e \in Users!Addresses \/ (link # None /\ Users!Linked(link) # {})
    <2>1. Moves(r, "idle", None) /\ UNCHANGED <<account, lastId>>
      BY <1>3 DEF Users!CreateUser, Users!Enrol, Users!Insert, Users!At, Users!Leave,
                  Users!Go, Moves
    <2>2. /\ Slotted' /\ AccountJobs' /\ pc'[r] # "seeding"
          /\ \A q \in Requests \ {r} : pc'[q] = pc[q] /\ job'[q] = job[q]
      BY <2>1, AccountMoves
    <2>3. AccountInv'
      BY <1>2, <2>1, <2>2 DEF AccountInv
    <2>4. SeedInv => SeedInv'
      BY <1>1, <1>2, <2>1, <2>2, SeedStays DEF Missing, Users!Addresses
    <2>5. QED
      BY <2>3, <2>4
  <1>4. CASE e \notin Users!Addresses /\ ~(link # None /\ Users!Linked(link) # {})
    <2>1. /\ lastId < MAX_ID /\ lastId' = lastId + 1
          /\ Users!Put(e, Users!Account(lastId', "none", FALSE, link))
      BY <1>4 DEF Users!CreateUser, Users!Enrol, Users!Insert, Users!At
    <2>2. lastId' \in 1..MAX_ID
      BY <2>1, BoundsAssumption DEF AccountInv
    <2>3. Users!Account(lastId', "none", FALSE, link) \in AccountRows
      BY <1>1, <2>2, AccountType
    <2>4. /\ account' \in [Emails -> AccountRows \cup {None}]
          /\ Users!Addresses' = Users!Addresses \cup (Emails \cap {e})
      BY <2>1, <2>3, PutRow
    <2>5. Moves(r, "idle", None) \/ Moves(r, "tokening", Users!Job(e, lastId + 1, None))
      BY <1>4 DEF Users!CreateUser, Users!Enrol, Users!Insert, Users!At, Users!Leave,
                  Users!Go, Moves
    <2>6. /\ Slotted' /\ AccountJobs' /\ pc'[r] # "seeding"
          /\ \A q \in Requests \ {r} : pc'[q] = pc[q] /\ job'[q] = job[q]
      BY <2>5, AccountMoves DEF Users!Job
    <2>7. AccountInv'
      BY <1>2, <2>2, <2>4, <2>6 DEF AccountInv, Users!Resets
    <2>8. CASE \E i \in DOMAIN latest : latest[i] = e
      <3>1. reset' = "taken"
        BY <1>2, <2>1, <2>2, <2>8 DEF AccountInv
      <3>2. QED
        BY <3>1, <2>7, NothingPromised
    <2>9. CASE ~\E i \in DOMAIN latest : latest[i] = e
      <3>1. \A i \in 1..Len(latest) : latest[i] # e
        BY <2>9, ListType DEF AccountInv
      <3>2. \A i \in 1..Len(latest) : Missing(i)' <=> Missing(i)
        BY <1>2, <2>4, <3>1 DEF Missing
      <3>3. UNCHANGED <<latest, reset>>
        BY <1>2, <2>9
      <3>4. QED
        BY <1>1, <2>6, <2>7, <3>2, <3>3, SeedStays
    <2>10. QED
      BY <2>8, <2>9
  <1>5. QED
    BY <1>3, <1>4

(* The steps that change a row of an account that is there. *)
LEMMA ChangeKeeps ==
  ASSUME AccountInv, NEW r \in Requests,
         \/ Users!StoreToken(r) \/ Users!LookExpired(r) \/ Users!Confirm(r)
         \/ Users!ClearToken(r) \/ Users!LinkProfile(r)
  PROVE  AccountInv' /\ (SeedInv => SeedInv')
  <1> DEFINE e == job[r].what
  <1>1. /\ pc[r] \in {"tokening", "looking", "confirming", "clearing", "linking"}
        /\ UNCHANGED <<lastId, latest, reset>>
    BY DEF Users!StoreToken, Users!LookExpired, Users!Confirm, Users!ClearToken,
           Users!LinkProfile, Users!At, Users!historyVars
  <1>2. job[r].link \in Profiles \cup {None}
    BY <1>1 DEF AccountInv, AccountJobs
  <1>3. Moves(r, "idle", None) \/ Moves(r, "clearing", job[r])
    BY DEF Users!StoreToken, Users!LookExpired, Users!Confirm, Users!ClearToken,
           Users!LinkProfile, Users!Change, Users!Leave, Users!Step, Users!Go, Moves
  <1>4. /\ Slotted' /\ AccountJobs' /\ pc'[r] # "seeding"
        /\ \A q \in Requests \ {r} : pc'[q] = pc[q] /\ job'[q] = job[q]
    BY <1>2, <1>3, AccountMoves
  <1>5. \/ UNCHANGED account
        \/ /\ e \in Users!Addresses
           /\ \E check \in {"none", "live", account[e].check},
                 verified \in {TRUE, account[e].verified},
                 link \in {account[e].link, job[r].link} :
                Users!Put(e, Users!Account(account[e].id, check, verified, link))
    BY DEF Users!StoreToken, Users!LookExpired, Users!Confirm, Users!ClearToken,
           Users!LinkProfile, Users!Change, Users!Holds
  <1>6. /\ account' \in [Emails -> AccountRows \cup {None}]
        /\ Users!Addresses' = Users!Addresses
    <2>1. CASE UNCHANGED account
      BY <2>1 DEF AccountInv, Users!Addresses
    <2>2. CASE ~UNCHANGED account
      <3>1. e \in Users!Addresses
        BY <1>5, <2>2
      <3>2. account[e] \in AccountRows
        BY <3>1 DEF AccountInv, Users!Addresses
      <3>3. /\ account[e].id \in 1..MAX_ID
            /\ account[e].check \in {"none", "live", "over"}
            /\ account[e].verified \in BOOLEAN
            /\ account[e].link \in Profiles \cup {None}
        BY <3>2 DEF AccountRows
      <3>4. QED
        BY <1>2, <1>5, <2>2, <3>1, <3>3, AccountType, ChangeRow
    <2>3. QED
      BY <2>1, <2>2
  <1>7. SeedInv => SeedInv'
    BY <1>1, <1>4, <1>6, SeedStays DEF Missing
  <1>8. QED
    BY <1>1, <1>4, <1>6, <1>7 DEF AccountInv

(* The reset that empties the table last is about to create everybody in its
   list. *)
LEMMA ResetUsersKeeps ==
  ASSUME AccountInv, NEW r \in Requests, NEW emails \in AdminLists,
         Users!ResetUsers(r, emails)
  PROVE  AccountInv' /\ SeedInv'
  <1>1. /\ account' = [e \in Emails |-> None] /\ latest' = emails /\ UNCHANGED lastId
        /\ reset' \in {"clean", "mixed"} /\ pc[r] # "seeding"
        /\ reset' = "clean" =>
             \A q \in Requests : pc[q] = "seeding" => job[q].emails = emails
        /\ IF emails = <<>> THEN Moves(r, "idle", None)
           ELSE Moves(r, "seeding", Users!ResetJob(emails, 1))
    BY DEF Users!ResetUsers, Users!Seeding, Users!At, Users!Admit, Users!Active,
           Users!Leave, Users!Go, Moves
  <1>2. /\ emails \in Listed /\ Len(emails) \in Nat /\ DOMAIN emails = 1..Len(emails)
        /\ emails # <<>> => 1 \in 1..Len(emails)
        /\ emails = <<>> => Len(emails) = 0
    BY AdminListsAssumption DEF Listed
  <1>3. /\ Slotted' /\ AccountJobs'
        /\ \A q \in Requests \ {r} : pc'[q] = pc[q] /\ job'[q] = job[q]
        /\ emails = <<>> => pc'[r] = "idle"
        /\ emails # <<>> =>
             pc'[r] = "seeding" /\ job'[r].emails = emails /\ job'[r].at = 1
    <2>1. CASE emails = <<>>
      BY <1>1, <2>1, AccountMoves
    <2>2. CASE emails # <<>>
      BY <1>1, <1>2, <2>2, AccountMoves DEF Users!ResetJob
    <2>3. QED
      BY <2>1, <2>2
  <1>4. AccountInv'
    BY <1>1, <1>2, <1>3 DEF AccountInv, Users!Resets
  <1>5. reset' = "clean" =>
          \A q \in Requests : pc'[q] = "seeding" => job'[q].emails = latest'
    BY <1>1, <1>3
  <1>6. \A i \in 1..Len(emails) : Seeds(r, i)'
    BY <1>1, <1>2, <1>3 DEF Seeds, Missing, Users!Addresses
  <1>7. Users!Promised' \subseteq 1..Len(emails)
    BY <1>1, <1>2 DEF Users!Promised
  <1>8. QED
    BY <1>4, <1>5, <1>6, <1>7 DEF SeedInv

(* An entry that was promised is not behind one that is refused or repeated. *)
LEMMA PromisedType ==
  ASSUME AccountInv, NEW i \in Users!Promised
  PROVE  /\ i \in 1..Len(latest) /\ Len(latest) \in Nat
         /\ \A j \in 1..i : latest[j] # None
         /\ \A j \in 1..i, k \in 1..Len(latest) : j < i /\ k # j => latest[k] # latest[j]
         /\ reset = "clean" \/ i = 1
  BY ListType DEF AccountInv, Users!Promised, Users!InReach

(* A handler that stops, at an address that is taken or refused, is not the one
   that a promised administrator who is missing waits for. *)
LEMMA SeederStops ==
  ASSUME AccountInv, NEW r \in Requests, pc[r] = "seeding",
         Moves(r, "idle", None), UNCHANGED <<account, latest, reset>>,
         LET e == job[r].emails[job[r].at] IN e = None \/ e \in Users!Addresses
  PROVE  SeedInv => SeedInv'
  <1> SUFFICES ASSUME SeedInv
               PROVE  SeedInv'
    OBVIOUS
  <1>1. /\ pc'[r] = "idle"
        /\ \A q \in Requests \ {r} : pc'[q] = pc[q] /\ job'[q] = job[q]
    BY AccountMoves
  <1>2. reset' = "clean" =>
          \A q \in Requests : pc'[q] = "seeding" => job'[q].emails = latest'
    BY <1>1 DEF SeedInv
  <1>3. Users!Promised' = Users!Promised /\ \A i : Missing(i)' <=> Missing(i)
    BY DEF Users!Promised, Users!InReach, Missing, Users!Addresses
  <1>4. SUFFICES ASSUME NEW i \in Users!Promised, Missing(i)
                 PROVE  \E q \in Requests : Seeds(q, i)'
    BY <1>2, <1>3 DEF SeedInv
  <1>5. PICK q \in Requests : Seeds(q, i)
    BY <1>4 DEF SeedInv
  <1>6. q # r
    <2> SUFFICES ASSUME Seeds(r, i)
                 PROVE  FALSE
      BY <1>5
    <2>1. job[r].emails = latest /\ job[r].at \in 1..Len(latest) /\ job[r].at <= i
      BY DEF Seeds, AccountInv, AccountJobs
    <2>2. job[r].at \in 1..i /\ job[r].at \in job[r].at..i
      BY <2>1, PromisedType
    <2>3. latest[job[r].at] # None /\ Missing(job[r].at)
      BY <2>2, PromisedType DEF Seeds
    <2>4. QED
      BY <2>1, <2>3 DEF Missing
  <1>7. QED
    BY <1>1, <1>3, <1>5, <1>6 DEF Seeds

(* A handler that creates an administrator takes over those after it from every
   other one. *)
LEMMA SeederCreates ==
  ASSUME AccountInv, NEW r \in Requests, pc[r] = "seeding", UNCHANGED <<latest, reset>>,
         NEW e \in Emails, e = job[r].emails[job[r].at],
         Users!Addresses' = Users!Addresses \cup {e},
         \A q \in Requests \ {r} : pc'[q] = pc[q] /\ job'[q] = job[q],
         IF job[r].at = Len(job[r].emails) THEN pc'[r] = "idle"
         ELSE /\ pc'[r] = "seeding"
              /\ job'[r].emails = job[r].emails /\ job'[r].at = job[r].at + 1
  PROVE  SeedInv => SeedInv'
  <1> DEFINE a == job[r].at
  <1> SUFFICES ASSUME SeedInv
               PROVE  SeedInv'
    OBVIOUS
  <1>1. reset' = "clean" =>
          \A q \in Requests : pc'[q] = "seeding" => job'[q].emails = latest'
    BY DEF SeedInv
  <1>2. Users!Promised' = Users!Promised
    BY DEF Users!Promised, Users!InReach
  <1>3. \A i : Missing(i)' <=> Missing(i) /\ latest[i] # e
    BY DEF Missing
  <1>4. SUFFICES ASSUME NEW i \in Users!Promised, Missing(i), latest[i] # e
                 PROVE  \E q \in Requests : Seeds(q, i)'
    BY <1>1, <1>2, <1>3 DEF SeedInv
  <1>5. PICK q \in Requests : Seeds(q, i)
    BY <1>4 DEF SeedInv
  <1> DEFINE b == job[q].at
  <1>6. /\ i \in 1..Len(latest) /\ Len(latest) \in Nat
        /\ b \in 1..Len(latest) /\ b <= i /\ job[q].emails = latest
    BY <1>5, PromisedType DEF Seeds, AccountInv, AccountJobs
  <1>7. CASE q # r /\ \A j \in b..i : latest[j] # e
    <2>1. \A j \in b..i : Missing(j)'
      BY <1>3, <1>5, <1>7 DEF Seeds
    <2>2. QED
      BY <1>5, <1>7, <2>1 DEF Seeds
  <1>8. CASE q = r \/ \E j \in b..i : latest[j] = e
    <2>1. job[r].emails = latest /\ a \in b..i /\ a < i /\ latest[a] = e
      <3>1. CASE q = r
        <4>1. a \in 1..Len(latest) /\ latest[a] = e
          BY <1>6, <3>1
        <4>2. a # i
          BY <1>4, <4>1
        <4>3. QED
          BY <1>6, <3>1, <4>1, <4>2
      <3>2. CASE \E j \in b..i : latest[j] = e
        <4>1. PICK j \in b..i : latest[j] = e
          BY <3>2
        <4>2. j \in 1..i /\ j < i
          BY <1>4, <1>6, <4>1
        <4>3. reset = "clean"
          BY <4>2, <1>6, PromisedType
        <4>4. job[r].emails = latest /\ a \in 1..Len(latest)
          BY <4>3 DEF SeedInv, AccountInv, AccountJobs
        <4>5. a = j
          BY <4>1, <4>2, <4>4, PromisedType
        <4>6. QED
          BY <4>1, <4>2, <4>4, <4>5
      <3>3. QED
        BY <1>8, <3>1, <3>2
    <2>2. \A j \in (a + 1)..i : j \in b..i /\ j \in 1..Len(latest) /\ j # a
      BY <1>6, <2>1
    <2>3. \A j \in (a + 1)..i : Missing(j)'
      <3>1. \A j \in (a + 1)..i : Missing(j)
        BY <1>5, <2>2 DEF Seeds
      <3>2. a \in 1..i
        BY <1>6, <2>1
      <3>3. \A j \in (a + 1)..i : latest[j] # e
        BY <2>1, <2>2, <3>2, PromisedType
      <3>4. QED
        BY <1>3, <3>1, <3>3
    <2>4. /\ pc'[r] = "seeding" /\ job'[r].emails = latest'
          /\ job'[r].at = a + 1 /\ a + 1 <= i
      BY <1>6, <2>1
    <2>5. QED
      BY <2>3, <2>4 DEF Seeds
  <1>9. QED
    BY <1>7, <1>8

LEMMA CreateAdminKeeps ==
  ASSUME AccountInv, NEW r \in Requests, Users!CreateAdmin(r)
  PROVE  AccountInv' /\ (SeedInv => SeedInv')
  <1> DEFINE emails == job[r].emails
             a == job[r].at
  <1>1. /\ pc[r] = "seeding" /\ UNCHANGED <<latest, reset>>
        /\ emails \in Listed /\ a \in 1..Len(emails) /\ Len(emails) \in Nat
        /\ emails[a] \in Emails \cup {None}
    <2>1. pc[r] = "seeding" /\ UNCHANGED <<latest, reset>>
      BY DEF Users!CreateAdmin, Users!At, Users!historyVars
    <2>2. emails \in Listed /\ a \in 1..Len(emails)
      BY <2>1 DEF AccountInv, AccountJobs
    <2>3. QED
      BY <2>1, <2>2, ListType
  <1>2. CASE emails[a] = None \/ emails[a] \in Users!Addresses
    <2>1. Moves(r, "idle", None) /\ UNCHANGED <<account, lastId>>
      BY <1>2 DEF Users!CreateAdmin, Users!Insert, Users!Leave, Users!Go, Moves
    <2>2. AccountInv'
      BY <1>1, <2>1, AccountMoves DEF AccountInv
    <2>3. QED
      BY <1>1, <1>2, <2>1, <2>2, SeederStops
  <1>3. CASE emails[a] # None /\ emails[a] \notin Users!Addresses
    <2>1. /\ lastId < MAX_ID /\ lastId' = lastId + 1
          /\ Users!Put(emails[a], Users!Account(lastId', "none", FALSE, None))
          /\ IF a = Len(emails) THEN Moves(r, "idle", None)
             ELSE Moves(r, "seeding", Users!ResetJob(emails, a + 1))
      BY <1>3 DEF Users!CreateAdmin, Users!Insert, Users!Last, Users!Leave, Users!Go,
                  Moves
    <2>2. lastId' \in 1..MAX_ID
      BY <2>1, BoundsAssumption DEF AccountInv
    <2>3. /\ account' \in [Emails -> AccountRows \cup {None}]
          /\ Users!Addresses' = Users!Addresses \cup {emails[a]}
      <3>1. Users!Account(lastId', "none", FALSE, None) \in AccountRows
        BY <2>2, AccountType
      <3>2. /\ account' \in [Emails -> AccountRows \cup {None}]
            /\ Users!Addresses' = Users!Addresses \cup (Emails \cap {emails[a]})
        BY <2>1, <3>1, PutRow
      <3>3. Emails \cap {emails[a]} = {emails[a]}
        BY <1>1, <1>3
      <3>4. QED
        BY <3>2, <3>3
    <2>4. /\ Slotted' /\ AccountJobs'
          /\ \A q \in Requests \ {r} : pc'[q] = pc[q] /\ job'[q] = job[q]
          /\ IF a = Len(emails) THEN pc'[r] = "idle"
             ELSE pc'[r] = "seeding" /\ job'[r].emails = emails /\ job'[r].at = a + 1
      <3>1. CASE a = Len(emails)
        BY <2>1, <3>1, AccountMoves
      <3>2. CASE a # Len(emails)
        <4>1. a + 1 \in 1..Len(emails)
          BY <1>1, <3>2
        <4>2. QED
          BY <1>1, <2>1, <3>2, <4>1, AccountMoves DEF Users!ResetJob
      <3>3. QED
        BY <3>1, <3>2
    <2>5. AccountInv'
      BY <1>1, <2>2, <2>3, <2>4 DEF AccountInv
    <2>6. emails[a] \in Emails
      BY <1>1, <1>3
    <2>7. SeedInv => SeedInv'
      BY <1>1, <2>3, <2>4, <2>6, SeederCreates
    <2>8. QED
      BY <2>5, <2>7
  <1>4. QED
    BY <1>2, <1>3

LEMMA LapseKeeps ==
  ASSUME AccountInv, NEW e \in Emails, Users!Lapse(e)
  PROVE  AccountInv' /\ (SeedInv => SeedInv')
  <1>1. /\ e \in Users!Addresses
        /\ Users!Put(e, Users!Account(account[e].id, "over", account[e].verified,
                                      account[e].link))
        /\ UNCHANGED <<lastId, latest, reset, pc, job>>
    BY DEF Users!Lapse, Users!slotVars, Users!historyVars
  <1>2. account[e] \in AccountRows
    BY <1>1 DEF AccountInv, Users!Addresses
  <1>3. /\ account' \in [Emails -> AccountRows \cup {None}]
        /\ Users!Addresses' = Users!Addresses
    BY <1>1, <1>2, AccountType, ChangeRow DEF AccountRows
  <1>4. SeedInv => SeedInv'
    BY <1>1, <1>3 DEF SeedInv, Seeds, Missing, Users!Promised, Users!InReach
  <1>5. QED
    BY <1>1, <1>3, <1>4 DEF AccountInv, Slotted, AccountJobs

(* A reset that fails ends what it promised. *)
LEMMA FailKeeps ==
  ASSUME AccountInv, NEW r \in Requests, Users!Fail(r)
  PROVE  AccountInv' /\ (SeedInv => SeedInv')
  <1>1. /\ Moves(r, "idle", None) /\ UNCHANGED <<account, lastId, latest>>
        /\ reset' = IF pc[r] = "seeding" THEN "broken" ELSE reset
    BY DEF Users!Fail, Users!Stop, Users!Leave, Users!Go, Moves, Users!At
  <1>2. /\ Slotted' /\ AccountJobs' /\ pc'[r] = "idle"
        /\ \A q \in Requests \ {r} : pc'[q] = pc[q] /\ job'[q] = job[q]
    BY <1>1, AccountMoves
  <1>3. AccountInv'
    BY <1>1, <1>2 DEF AccountInv, Users!Resets
  <1>4. CASE pc[r] = "seeding"
    BY <1>1, <1>3, <1>4, NothingPromised
  <1>5. CASE pc[r] # "seeding"
    <2>1. \A i \in 1..Len(latest) : Missing(i)' <=> Missing(i)
      BY <1>1 DEF Missing, Users!Addresses
    <2>2. UNCHANGED <<latest, reset>>
      BY <1>1, <1>5
    <2>3. QED
      BY <1>2, <1>3, <1>5, <2>1, <2>2, SeedStays
  <1>6. QED
    BY <1>4, <1>5

LEMMA NextAccounts ==
  ASSUME AccountInv, [Users!Next]_(Users!vars)
  PROVE  AccountInv' /\ (SeedInv => SeedInv')
  <1>1. CASE UNCHANGED Users!vars
    <2>1. UNCHANGED <<account, lastId, latest, reset, pc, job>>
      BY <1>1 DEF Users!vars, Users!slotVars, Users!historyVars
    <2>2. QED
      BY <2>1 DEF AccountInv, Slotted, AccountJobs, SeedInv, Seeds, Missing,
                  Users!Addresses, Users!Promised, Users!InReach
  <1>2. QED
    BY <1>1, FailKeeps, RegisterKeeps, SignUpKeeps, ChangeKeeps, ResetUsersKeeps,
       CreateAdminKeeps, LapseKeeps
       DEF Users!Next, Users!Entries

-----------------------------------------------------------------------------

(* The types of the accounts, whatever fails *)
LEMMA AccountsAreTyped == Spec => [](service = "accounts" => Users!TypeOK)
  <1> DEFINE Inv == service = "accounts" => AccountInv
  <1>1. Init => Inv
    BY InitAccounts DEF Init
  <1>2. Inv /\ [Next]_vars => Inv'
    BY NextAccounts, AccountStep, ServiceStays
  <1>3. Inv => (service = "accounts" => Users!TypeOK)
    BY DEF AccountInv, AccountRows, Listed, Users!TypeOK
  <1>4. QED
    BY <1>1, <1>2, <1>3, PTL DEF Spec

LEMMA AccessIsTyped == Spec => [](service = "access" => Acc!TypeOK)
  <1>1. (service = "access" => AccessInv /\ LinkInv /\ SpentInv /\ BanInv)
          => (service = "access" => Acc!TypeOK)
    BY DEF AccessInv
  <1>2. QED
    BY <1>1, AccessInvariant, PTL

(* AdminsSurvive: resets of the account table that overlap, with whatever lists,
   leave an account for the administrators that the last list promises: up to an
   entry that create refuses or the list repeats, and up to the first when
   another list was in flight.  A sign-up with an address of the list and a reset
   that fails end the promise, until the next reset. *)
THEOREM AdminsStay == Spec => []AdminsSurvive
  <1> DEFINE Inv == service = "accounts" => AccountInv /\ SeedInv
  <1>1. Init => Inv
    BY InitAccounts DEF Init
  <1>2. Inv /\ [Next]_vars => Inv'
    BY NextAccounts, AccountStep, ServiceStays
  <1>3. Inv => AdminsSurvive
    <2> SUFFICES ASSUME SeedInv, Users!Quiet, NEW i \in Users!Promised
                 PROVE  ~Missing(i)
      BY DEF AdminsSurvive, Users!AdminsSurvive, Missing
    <2>1. \A r \in Requests : pc[r] = "idle"
      BY DEF Users!Quiet, Users!Active
    <2>2. QED
      BY <2>1 DEF SeedInv, Seeds
  <1>4. QED
    BY <1>1, <1>2, <1>3, PTL DEF Spec
=============================================================================
