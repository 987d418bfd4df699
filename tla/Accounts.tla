-------------------------------- MODULE Accounts ---------------------------------
(***************************************************************************)
(* The table of accounts: registration, verification of the e-mail         *)
(* address, sign-in through a provider, and the resets of the whole table. *)
(*                                                                         *)
(* A row belongs to an e-mail address and has an id of its own; the        *)
(* handlers write by id, so a row that was deleted and created again is    *)
(* another one to them.  The database refuses a second row for an address  *)
(* or for a provider's profile.  Tokens and bans are in Access, the        *)
(* referral of a registration in Referrals.                                *)
(***************************************************************************)
EXTENDS Slots, Sequences

CONSTANTS
  Emails,
  Profiles,    \* ids of one OAuth provider
  AdminLists,  \* lists a reset may be asked for; None: an entry create refuses
  MAX_ID       \* bound on the ids ever drawn

VARIABLES
  row,         \* row[e]: the account with address e, or None
  lastId,
  latest,      \* the list of the last reset (history)
  reset        \* how it has gone since, see Resets (history)

historyVars == <<latest, reset>>
vars == <<row, lastId, historyVars, slotVars>>

(* "clean" until something happens: every reset in flight has the same list;
   "mixed": one has another; "taken": somebody signed up with an address of the
   list; "broken": a reset in flight failed *)
Resets == {"no", "clean", "mixed", "taken", "broken"}

(* link: the OAuth id; check: the state of the verification token *)
Account(id, check, verified, link) ==
  [id |-> id, check |-> check, verified |-> verified, link |-> link]

Addresses == {e \in Emails : row[e] # None}
Linked(g) == {e \in Addresses : row[e].link = g}
Holds(e, id) == e \in Addresses /\ row[e].id = id

Put(e, account) == row' = [row EXCEPT ![e] = account]

Init ==
  /\ row = [e \in Emails |-> None]
  /\ lastId = 0
  /\ latest = <<>> /\ reset = "no"
  /\ AllIdle

(* what: the address; id: of the row found or created; link: the profile;
   emails and at: the list of a reset and the place in it *)
Job(what, id, link) ==
  [what |-> what, id |-> id, link |-> link, emails |-> <<>>, at |-> 0]
ResetJob(emails, at) ==
  [what |-> None, id |-> 0, link |-> None, emails |-> emails, at |-> at]

Seeding == {q \in Requests : At(q, "seeding")}

(* The unique keys, then a new id.  next is the step after the insert. *)
Insert(r, e, link, next) ==
  IF e \in Addresses \/ (link # None /\ Linked(link) # {})
  THEN Leave(r) /\ UNCHANGED <<row, lastId>>
  ELSE /\ lastId < MAX_ID
       /\ lastId' = lastId + 1
       /\ Put(e, Account(lastId', "none", FALSE, link))
       /\ next

(* update by id throws when the row is gone. *)
Change(r, account, next) ==
  LET e == job[r].what
  IN  IF Holds(e, job[r].id) THEN Put(e, account) /\ next
      ELSE Leave(r) /\ UNCHANGED row

(* A sign-up drew an id for an address of the list. *)
SignUp(e) ==
  /\ UNCHANGED latest
  /\ reset' = IF lastId' # lastId /\ \E i \in DOMAIN latest : latest[i] = e
              THEN "taken" ELSE reset

-----------------------------------------------------------------------------
(* register: an address that is taken gets the same answer *)

Register(r, e) ==
  /\ Admit(r)
  /\ IF e \in Addresses THEN Leave(r) ELSE Go(r, "creating", Job(e, 0, None))
  /\ UNCHANGED <<row, lastId, historyVars>>

CreateUser(r) ==
  /\ At(r, "creating")
  /\ LET e == job[r].what
     IN  /\ Insert(r, e, None, Go(r, "tokening", Job(e, lastId + 1, None)))
         /\ SignUp(e)

(* A failure of the e-mail that follows is caught. *)
StoreToken(r) ==
  /\ At(r, "tokening")
  /\ LET old == row[job[r].what]
     IN  Change(r, Account(old.id, "live", old.verified, old.link), Leave(r))
  /\ UNCHANGED <<lastId, historyVars>>

-----------------------------------------------------------------------------
(* verifyEmail *)

(* The link of row e is opened: the first look finds it if it is live. *)
VerifyEmail(r, e) ==
  /\ Admit(r)
  /\ e \in Addresses
  /\ LET j == Job(e, row[e].id, None)
     IN  Go(r, IF row[e].check = "live" THEN "confirming" ELSE "looking", j)
  /\ UNCHANGED <<row, lastId, historyVars>>

(* The second look, whatever its time. *)
LookExpired(r) ==
  /\ At(r, "looking")
  /\ LET e == job[r].what
     IN  IF Holds(e, job[r].id) /\ row[e].check # "none"
         THEN Step(r, "clearing") ELSE Leave(r)
  /\ UNCHANGED <<row, lastId, historyVars>>

Confirm(r) ==
  /\ At(r, "confirming")
  /\ LET old == row[job[r].what]
     IN  Change(r, Account(old.id, "none", TRUE, old.link), Leave(r))
  /\ UNCHANGED <<lastId, historyVars>>

ClearToken(r) ==
  /\ At(r, "clearing")
  /\ LET old == row[job[r].what]
     IN  Change(r, Account(old.id, "none", old.verified, old.link), Leave(r))
  /\ UNCHANGED <<lastId, historyVars>>

(* 24 hours later. *)
Lapse(e) ==
  /\ Quiet
  /\ e \in Addresses
  /\ row[e].check = "live"
  /\ Put(e, Account(row[e].id, "over", row[e].verified, row[e].link))
  /\ UNCHANGED <<lastId, historyVars, slotVars>>

-----------------------------------------------------------------------------
(* findOrCreateOAuthUser *)

NeedsLink(e) == row[e].link = None

(* findFirst by profile or address: either row may come first. *)
SignIn(r, e, g) ==
  /\ Admit(r)
  /\ LET found == Linked(g) \cup (Addresses \cap {e})
     IN  \/ found = {} /\ Go(r, "enrolling", Job(e, 0, g))
         \/ \E f \in found : IF NeedsLink(f)
                             THEN Go(r, "linking", Job(f, row[f].id, g))
                             ELSE Leave(r)
  /\ UNCHANGED <<row, lastId, historyVars>>

LinkProfile(r) ==
  /\ At(r, "linking")
  /\ LET e == job[r].what
         g == job[r].link
         old == row[e]
     IN  IF Linked(g) \ {e} # {} THEN Leave(r) /\ UNCHANGED row
         ELSE Change(r, Account(old.id, old.check, old.verified, g), Leave(r))
  /\ UNCHANGED <<lastId, historyVars>>

Enrol(r) ==
  /\ At(r, "enrolling")
  /\ Insert(r, job[r].what, job[r].link, Leave(r))
  /\ SignUp(job[r].what)

-----------------------------------------------------------------------------
(* resetUsers with whatever list the request names, reset-users.js and the
   start of seed.js, which a failing step ends and whose end the start-up does
   not look at *)

ResetUsers(r, emails) ==
  /\ Admit(r)
  /\ row' = [e \in Emails |-> None]
  /\ latest' = emails
  /\ reset' = IF \A q \in Seeding : job[q].emails = emails THEN "clean" ELSE "mixed"
  /\ IF emails = <<>> THEN Leave(r) ELSE Go(r, "seeding", ResetJob(emails, 1))
  /\ UNCHANGED lastId

(* Mutant: the loop ends one address too early. *)
LastEarly(emails, at) == at + 1 >= Len(emails)

Last(emails, at) == at = Len(emails)

CreateAdmin(r) ==
  /\ At(r, "seeding")
  /\ LET emails == job[r].emails
         at == job[r].at
     IN  IF emails[at] = None THEN Leave(r) /\ UNCHANGED <<row, lastId>>
         ELSE Insert(r, emails[at], None,
                     IF Last(emails, at) THEN Leave(r)
                     ELSE Go(r, "seeding", ResetJob(emails, at + 1)))
  /\ UNCHANGED historyVars

Fail(r) ==
  /\ Stop(r)
  /\ reset' = IF At(r, "seeding") THEN "broken" ELSE reset
  /\ UNCHANGED <<row, lastId, latest>>

Entries(r) ==
  \/ \E emails \in AdminLists : ResetUsers(r, emails)
  \/ \E e \in Emails : \/ Register(r, e) \/ VerifyEmail(r, e)
                       \/ \E g \in Profiles : SignIn(r, e, g)

Next ==
  \/ \E r \in Requests : \/ Entries(r) \/ CreateUser(r) \/ StoreToken(r)
                         \/ LookExpired(r) \/ Confirm(r) \/ ClearToken(r)
                         \/ LinkProfile(r) \/ Enrol(r) \/ CreateAdmin(r) \/ Fail(r)
  \/ \E e \in Emails : Lapse(e)

Spec == Init /\ [][Next]_vars

-----------------------------------------------------------------------------
(* Properties *)

TypeOK ==
  /\ row \in [Emails -> [id : 1..MAX_ID, check : {"none", "live", "over"},
                         verified : BOOLEAN, link : Profiles \cup {None}] \cup {None}]
  /\ lastId \in 0..MAX_ID
  /\ latest \in AdminLists \cup {<<>>} /\ reset \in Resets

(* The entry at place i of the last list is one that create accepts, and so are
   those before it, none of which is there twice. *)
InReach(i) ==
  \A j \in 1..i :
    /\ latest[j] # None
    /\ j < i => \A k \in DOMAIN latest \ {j} : latest[k] # latest[j]

(* The places whose addresses the resets in flight will leave with a row. *)
Promised ==
  {i \in DOMAIN latest :
     /\ InReach(i)
     /\ reset = "clean" \/ (reset = "mixed" /\ i = 1)}

(* Resets that overlap delete each other's rows and stop at the first address
   that is taken.  All the same, when all have ended and none has failed, the
   addresses of the last list have a row, up to the first that create refuses or
   that the list repeats: the reset that deleted last went through the list until
   it met a row that another one, ahead of it, had just made.  With another list
   in flight only the first address is sure.  Somebody who signs up with such an
   address in between breaks either. *)
AdminsSurvive == Quiet => \A i \in Promised : latest[i] \in Addresses
=============================================================================
