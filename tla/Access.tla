--------------------------------- MODULE Access ----------------------------------
(***************************************************************************)
(* One account: its sessions, its ban and its password resets.             *)
(*                                                                         *)
(* The row holds one reset token and the hash of one refresh token; each   *)
(* route reads the row and writes it back by id in a later statement.  An  *)
(* e-mail that cannot be sent is logged and forgotten.  Whether the        *)
(* password or the second factor (Lockout) is right is an input.           *)
(***************************************************************************)
EXTENDS Slots, FiniteSets

CONSTANT ResetTokens   \* the reset tokens that can be drawn

VARIABLES
  session,     \* is a refreshToken hash stored?
  banned,
  token,       \* resetToken
  fresh,       \* resetTokenExpiry is still to come
  drawn,       \* reset tokens drawn so far
  mailed,      \* reset tokens whose e-mail has arrived
  resets,      \* resets[t]: passwords written with t (history)
  late         \* logins answered with tokens since the ban (history)

rowVars == <<session, banned, token, fresh>>
mailVars == <<drawn, mailed>>
vars == <<rowVars, mailVars, resets, late, slotVars>>

Init ==
  /\ session = FALSE /\ banned = FALSE /\ late = 0
  /\ token = None /\ fresh = FALSE
  /\ drawn = {} /\ mailed = {}
  /\ resets = [t \in ResetTokens |-> 0]
  /\ AllIdle

-----------------------------------------------------------------------------
(* login, loginWith2fa and refresh *)

(* Mutant: the ban is not looked at. *)
LoginAnyone(r, right, factor) ==
  /\ Admit(r)
  /\ IF right /\ ~factor THEN Go(r, "issuing", "login") ELSE Leave(r)
  /\ UNCHANGED <<rowVars, mailVars, resets, late>>

(* With a second factor the answer has no tokens: LoginSecond gives them. *)
Login(r, right, factor) ==
  /\ Admit(r)
  /\ IF right /\ ~banned /\ ~factor THEN Go(r, "issuing", "login") ELSE Leave(r)
  /\ UNCHANGED <<rowVars, mailVars, resets, late>>

(* findOrCreateOAuthUser, once it has the account (Accounts) *)
SignIn(r) == Login(r, TRUE, FALSE)

(* The last step of loginWith2fa, which reads the ban nowhere. *)
LoginSecond(r) ==
  /\ Admit(r)
  /\ Go(r, "issuing", "second")
  /\ UNCHANGED <<rowVars, mailVars, resets, late>>

(* bcrypt compares the first 72 bytes, and those of a token hold no more than
   the header and the start of the user id: every unexpired token of the
   account matches any stored hash. *)
Refresh(r) ==
  /\ Admit(r)
  /\ IF session THEN Go(r, "issuing", "refresh") ELSE Leave(r)
  /\ UNCHANGED <<rowVars, mailVars, resets, late>>

GenerateTokenPair(r) ==
  /\ At(r, "issuing")
  /\ session' = TRUE
  /\ late' = IF banned /\ job[r] = "login" THEN late + 1 ELSE late
  /\ Leave(r)
  /\ UNCHANGED <<banned, token, fresh, mailVars, resets>>

(* updateUser of the admin service *)
UpdateUser(r, ban) ==
  /\ Admit(r)
  /\ Go(r, "banning", ban)
  /\ UNCHANGED <<rowVars, mailVars, resets, late>>

SetBanned(r) ==
  /\ At(r, "banning")
  /\ banned' = job[r]
  /\ late' = IF job[r] THEN late ELSE 0
  /\ Leave(r)
  /\ UNCHANGED <<session, token, fresh, mailVars, resets>>

-----------------------------------------------------------------------------
(* forgotPassword and resetPassword *)

ForgotPassword(r, t) ==
  /\ Admit(r)
  /\ t \notin drawn
  /\ drawn' = drawn \cup {t}
  /\ Go(r, "storing", t)
  /\ UNCHANGED <<rowVars, mailed, resets, late>>

StoreToken(r) ==
  /\ At(r, "storing")
  /\ token' = job[r]
  /\ fresh' = TRUE
  /\ Step(r, "mailing")
  /\ UNCHANGED <<session, banned, drawn, mailed, resets, late>>

(* A failure of the mail server is caught, and the answer is the same. *)
SendLink(r) ==
  /\ At(r, "mailing")
  /\ \/ mailed' = mailed \cup {job[r]}
     \/ MayFail /\ UNCHANGED mailed
  /\ Leave(r)
  /\ UNCHANGED <<rowVars, drawn, resets, late>>

ResetPassword(r, t) ==
  /\ Admit(r)
  /\ t \in mailed
  /\ IF token = t /\ fresh THEN Go(r, "hashing", t) ELSE Leave(r)
  /\ UNCHANGED <<rowVars, mailVars, resets, late>>

(* Mutant: the token stays in the row after its use. *)
WritePasswordOnly(r) ==
  /\ At(r, "hashing")
  /\ resets' = [resets EXCEPT ![job[r]] = @ + 1]
  /\ Leave(r)
  /\ UNCHANGED <<rowVars, mailVars, late>>

(* Written by id: whatever token the row holds by now is cleared. *)
WritePassword(r) ==
  /\ At(r, "hashing")
  /\ resets' = [resets EXCEPT ![job[r]] = @ + 1]
  /\ token' = None
  /\ fresh' = FALSE
  /\ Leave(r)
  /\ UNCHANGED <<session, banned, mailVars, late>>

(* An hour later. *)
Expire ==
  /\ Quiet
  /\ fresh
  /\ fresh' = FALSE
  /\ UNCHANGED <<session, banned, token, mailVars, resets, late, slotVars>>

Fail(r) == Stop(r) /\ UNCHANGED <<rowVars, mailVars, resets, late>>

Entries(r) ==
  \/ \E right, factor \in BOOLEAN : Login(r, right, factor)
  \/ SignIn(r) \/ LoginSecond(r) \/ Refresh(r)
  \/ \E ban \in BOOLEAN : UpdateUser(r, ban)
  \/ \E t \in ResetTokens : ForgotPassword(r, t) \/ ResetPassword(r, t)

Next ==
  \/ \E r \in Requests : \/ Entries(r) \/ GenerateTokenPair(r) \/ SetBanned(r)
                         \/ StoreToken(r) \/ SendLink(r) \/ WritePassword(r)
                         \/ Fail(r)
  \/ Expire

Spec == Init /\ [][Next]_vars

-----------------------------------------------------------------------------
(* Properties *)

TypeOK ==
  /\ session \in BOOLEAN /\ banned \in BOOLEAN /\ fresh \in BOOLEAN
  /\ token \in ResetTokens \cup {None}
  /\ drawn \in SUBSET ResetTokens /\ mailed \in SUBSET ResetTokens
  /\ resets \in [ResetTokens -> Nat] /\ late \in Nat
  /\ pc \in [Requests -> {"idle", "issuing", "banning", "storing", "mailing", "hashing"}]

(* A reset link changes one password, even when a reset stops halfway: at most
   one without overlap, and otherwise one for each request that was in flight
   together with the first. *)
LinkIsSpent ==
  LET n == IF Overlap THEN Cardinality(Requests) ELSE 1
  IN  \A t \in ResetTokens : resets[t] <= n

(* A ban stops the logins by password or provider: those answered after it were all in
   flight when it was written, so there are none without overlap. *)
BanStopsLogins ==
  late <= IF Overlap THEN Cardinality(Requests) - 1 ELSE 0
=============================================================================
