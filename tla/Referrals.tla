-------------------------------- MODULE Referrals --------------------------------
(***************************************************************************)
(* The referral code of one user, and the referrals of one address by it.  *)
(*                                                                         *)
(* The code is drawn when somebody first asks for it.  A referral is made  *)
(* at the checkout, if none is found, or by a registration, which does not *)
(* look; the table itself allows any number of them.                       *)
(***************************************************************************)
EXTENDS Slots, FiniteSets

CONSTANT Codes   \* codes that can be drawn

VARIABLES
  code,        \* referralCode of the user, or None
  drawn,       \* codes drawn so far
  given,       \* codes that were given out (history)
  applied,     \* referrals made at the checkout
  enrolled     \* has the address registered with the code?

vars == <<code, drawn, given, applied, enrolled, slotVars>>

Init ==
  /\ code = None /\ drawn = {} /\ given = {}
  /\ applied = 0 /\ enrolled = FALSE
  /\ AllIdle

-----------------------------------------------------------------------------
(* getOrCreateCode, alone or for getReferralInfo *)

(* Mutant: a code is drawn each time. *)
ReadCodeAlways(r) ==
  \E c \in Codes \ drawn :
    drawn' = drawn \cup {c} /\ Go(r, "storing", c) /\ UNCHANGED given

ReadCode(r) ==
  \/ code # None /\ given' = given \cup {code} /\ Leave(r) /\ UNCHANGED drawn
  \/ /\ code = None
     /\ \E c \in Codes \ drawn :
          drawn' = drawn \cup {c} /\ Go(r, "storing", c) /\ UNCHANGED given

GetOrCreateCode(r) ==
  /\ Admit(r)
  /\ ReadCode(r)
  /\ UNCHANGED <<code, applied, enrolled>>

(* getReferralInfo asks for a code when its own reading found none. *)
GetReferralInfo(r) ==
  /\ Admit(r)
  /\ IF code # None THEN given' = given \cup {code} /\ Leave(r)
     ELSE Go(r, "asking", None) /\ UNCHANGED given
  /\ UNCHANGED <<code, drawn, applied, enrolled>>

AskCode(r) ==
  /\ At(r, "asking")
  /\ ReadCode(r)
  /\ UNCHANGED <<code, applied, enrolled>>

StoreCode(r) ==
  /\ At(r, "storing")
  /\ code' = job[r]
  /\ given' = given \cup {job[r]}
  /\ Leave(r)
  /\ UNCHANGED <<drawn, applied, enrolled>>

-----------------------------------------------------------------------------
(* applyReferralCode *)

ApplyReferralCode(r, c) ==
  /\ Admit(r)
  /\ IF c = code THEN Go(r, "matching", c) ELSE Leave(r)
  /\ UNCHANGED <<code, drawn, given, applied, enrolled>>

(* Mutant: only the referrals of registrations are looked for. *)
FindOther(r) ==
  /\ At(r, "matching")
  /\ IF enrolled THEN Leave(r) ELSE Step(r, "referring")
  /\ UNCHANGED <<code, drawn, given, applied, enrolled>>

FindExisting(r) ==
  /\ At(r, "matching")
  /\ IF applied > 0 \/ enrolled THEN Leave(r) ELSE Step(r, "referring")
  /\ UNCHANGED <<code, drawn, given, applied, enrolled>>

CreateReferral(r) ==
  /\ At(r, "referring")
  /\ applied' = applied + 1
  /\ Leave(r)
  /\ UNCHANGED <<code, drawn, given, enrolled>>

-----------------------------------------------------------------------------
(* The referral of a registration (Accounts has the rest): the account is new,
   so it happens once, and a failure of it is forgotten. *)

Enrol(r, c) ==
  /\ Admit(r)
  /\ ~enrolled /\ \A q \in Requests : ~At(q, "enrolling")
  /\ IF c = code THEN Go(r, "enrolling", c) ELSE Leave(r)
  /\ UNCHANGED <<code, drawn, given, applied, enrolled>>

CreateEnrolled(r) ==
  /\ At(r, "enrolling")
  /\ enrolled' = TRUE
  /\ Leave(r)
  /\ UNCHANGED <<code, drawn, given, applied>>

Fail(r) == Stop(r) /\ UNCHANGED <<code, drawn, given, applied, enrolled>>

Next ==
  \E r \in Requests :
    \/ GetOrCreateCode(r) \/ GetReferralInfo(r) \/ AskCode(r) \/ StoreCode(r)
    \/ \E c \in given : ApplyReferralCode(r, c) \/ Enrol(r, c)
    \/ FindExisting(r) \/ CreateReferral(r) \/ CreateEnrolled(r) \/ Fail(r)

Spec == Init /\ [][Next]_vars

-----------------------------------------------------------------------------
(* Properties *)

TypeOK ==
  /\ code \in Codes \cup {None}
  /\ drawn \in SUBSET Codes /\ given \in SUBSET drawn
  /\ applied \in Nat /\ enrolled \in BOOLEAN
  /\ pc \in [Requests -> {"idle", "asking", "storing", "matching", "referring", "enrolling"}]

Together == IF Overlap THEN Cardinality(Requests) ELSE 1

(* A user gives away one code: others, which stopped to work when it was
   stored, are only those of first look-ups that were in flight together. *)
CodesSettle == Cardinality(given) <= Together

(* The checkout refers an address once, and overlapping checkouts once each;
   a registration that comes later adds one more. *)
ReferredOnce == applied <= Together
=============================================================================
