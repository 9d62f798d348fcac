------------------------------- MODULE Accounts --------------------------------
(***************************************************************************)
(* An account from sign-up to password changes (auth.service.ts,           *)
(* users.service.ts), composed with its verification codes and its reset   *)
(* links.  One e-mail address, whose index in the users collection is      *)
(* unique; a browser that keeps the tokens of the last sign-in.            *)
(*                                                                         *)
(* A request that is answered after its first query without a write is no  *)
(* step.                                                                   *)
(***************************************************************************)
EXTENDS EmailVerification, PasswordReset

CONSTANT Stored   \* the account the behaviours start with: users, or Null for none

ASSUME AccountsAssumption ==
  Stored \subseteq User \cup {Null} /\ Null \notin User /\ Null \notin Code

VARIABLES
  session,      \* the tokens the browser has: "refresh" (cookie), "access"
  adopted       \* history: a Google sign-in verified the account

vars == <<user, req, disturbed, codeVars, tokenVars, session, adopted>>

Init ==
  /\ user \in Stored
  /\ req = [r \in Slots |-> Idle]
  /\ disturbed = FALSE
  /\ code = Null /\ inbox = Null /\ tried = 0
  /\ token = Null /\ link = Null /\ spent = Null
  /\ session = {} /\ adopted = FALSE

Unverified == user # Null /\ ~user.verified
Protected == user # Null /\ user.password # Null

(***************************************************************************)
(* Requests: the query they begin with                                     *)
(***************************************************************************)
\* findByEmailOrNull; with a verified account only a notice is mailed.
Signup(r) ==
  \/ user = Null /\ Send(r, "signup", "creating", Null, FALSE)
  \/ Unverified /\ Send(r, "signup", "resending", Null, FALSE)

ResendVerification(r) == Unverified /\ Send(r, "resend", "resending", Null, FALSE)

\* The client types the code of its newest mail or a wrong one.
VerifyEmail(r) == Unverified /\ \E c \in {inbox, Null} : Send(r, "verify", "finding", c, FALSE)

\* Without a password only a notice is mailed.
ForgotPassword(r) == Protected /\ Send(r, "forgot", "requesting", Null, FALSE)

ResetPassword(r) ==
  /\ link # Null
  /\ Send(r, "reset", "redeeming", link, link = spent)

\* changePassword and setPassword look at the stored hash and write a new one.
\* A wrong current password ends the request.
ChangePassword(r) ==
  /\ "access" \in session /\ Protected
  /\ Send(r, "change", "saving", Null, FALSE)

SetPassword(r) ==
  /\ "access" \in session /\ user # Null /\ user.password = Null
  /\ Send(r, "set", "saving", Null, FALSE)

\* Mutant: every account that is found is taken over.
GoogleCallback_AlwaysAdopts(r) ==
  /\ \/ user = Null /\ Send(r, "google", "joining", Null, FALSE)
     \/ user # Null /\ Send(r, "google", "adopting", Null, FALSE)
  /\ UNCHANGED <<user, codeVars, tokenVars, session, adopted>>

\* findOrCreateGoogleUser: findOne by e-mail.
GoogleCallback(r) ==
  /\ \/ user = Null /\ Send(r, "google", "joining", Null, FALSE) /\ UNCHANGED session
     \/ Unverified /\ Send(r, "google", "adopting", Null, FALSE) /\ UNCHANGED session
     \/ /\ user # Null /\ user.verified
        /\ "google" \in Operations
        /\ session' = session \cup {"refresh"}
        /\ UNCHANGED <<req, disturbed>>
  /\ UNCHANGED <<user, codeVars, tokenVars, adopted>>

\* Mutant: the flag is not checked.
MayLogin_Unverified == Protected
MayLogin == Protected /\ user.verified

\* authenticate: one query; the password is compared and the flag checked on
\* the copy.
Login ==
  /\ "login" \in Operations
  /\ MayLogin
  /\ session' = {"refresh", "access"}
  /\ UNCHANGED <<user, req, disturbed, codeVars, tokenVars, adopted>>

Refresh ==
  /\ "refresh" \in Operations
  /\ "refresh" \in session /\ user # Null
  /\ session' = session \cup {"access"}
  /\ UNCHANGED <<user, req, disturbed, codeVars, tokenVars, adopted>>

\* logout clears the cookie; the access token lives until it expires.
Logout ==
  /\ "logout" \in Operations
  /\ "access" \in session
  /\ session' = session \ {"refresh"}
  /\ UNCHANGED <<user, req, disturbed, codeVars, tokenVars, adopted>>

TokenExpires ==
  /\ "logout" \in Operations
  /\ \E t \in session : session' = session \ {t}
  /\ UNCHANGED <<user, req, disturbed, codeVars, tokenVars, adopted>>

Begin(r) ==
  /\ \/ Signup(r) \/ ResendVerification(r) \/ VerifyEmail(r) \/ ForgotPassword(r)
     \/ ResetPassword(r) \/ ChangePassword(r) \/ SetPassword(r)
  /\ UNCHANGED <<user, codeVars, tokenVars, session, adopted>>

(***************************************************************************)
(* Writes of users                                                         *)
(***************************************************************************)
\* create: the unique index rejects a second document.
CreateUser(r) ==
  /\ req[r].at = "creating"
  /\ \/ user # Null /\ Answer(r) /\ UNCHANGED user
     \/ /\ user = Null
        /\ user' = [password |-> "claimed", verified |-> FALSE]
        /\ Goto(r, "issuing")
  /\ UNCHANGED <<codeVars, tokenVars, session, adopted>>

MarkEmailVerified(r) ==
  /\ req[r].at = "verifying"
  /\ user' = [user EXCEPT !.verified = TRUE]
  /\ session' = {"refresh", "access"}
  /\ Answer(r)
  /\ UNCHANGED <<codeVars, tokenVars, adopted>>

\* Mutant: the password is kept.
Adopted_PasswordKept == [user EXCEPT !.verified = TRUE]
Adopted == [password |-> Null, verified |-> TRUE]

\* Taking over an unverified account drops its password, and decides so on
\* the copy it found.
AdoptUser(r) ==
  /\ req[r].at = "adopting"
  /\ user' = Adopted
  /\ adopted' = TRUE
  /\ session' = session \cup {"refresh"}
  /\ Answer(r)
  /\ UNCHANGED <<codeVars, tokenVars>>

JoinUser(r) ==
  /\ req[r].at = "joining"
  /\ \/ user # Null /\ UNCHANGED <<user, session>>
     \/ /\ user = Null
        /\ user' = [password |-> Null, verified |-> TRUE]
        /\ session' = session \cup {"refresh"}
  /\ Answer(r)
  /\ UNCHANGED <<codeVars, tokenVars, adopted>>

SavePassword(r) ==
  /\ req[r].at = "saving"
  /\ user' = [user EXCEPT !.password = "chosen"]
  /\ Answer(r)
  /\ UNCHANGED <<codeVars, tokenVars, session, adopted>>

SetPasswordHash(r) ==
  /\ req[r].at = "resetting"
  /\ user' = [user EXCEPT !.password = "chosen"]
  /\ spent' = req[r].holds
  /\ Answer(r)
  /\ UNCHANGED <<codeVars, token, link, session, adopted>>

Lose(r) ==
  /\ r \in Mortal /\ req[r].at # "idle"
  /\ LoseGuess(r)
  /\ AnswerDisturbed(r)
  /\ UNCHANGED <<user, code, inbox, tokenVars, session, adopted>>

(***************************************************************************)
(* Specification                                                           *)
(***************************************************************************)
Tick ==
  /\ code' = Aged(code) /\ token' = Aged(token)
  /\ UNCHANGED <<user, req, disturbed, inbox, tried, link, spent, session, adopted>>

Reap ==
  /\ \/ ReapCode /\ UNCHANGED tokenVars
     \/ ReapToken /\ UNCHANGED codeVars
  /\ UNCHANGED <<session, adopted>>

Handle(r) ==
  \/ CodeStep(r) /\ UNCHANGED <<tokenVars, session, adopted>>
  \/ TokenStep(r) /\ UNCHANGED <<codeVars, session, adopted>>
  \/ CreateUser(r) \/ MarkEmailVerified(r) \/ AdoptUser(r) \/ JoinUser(r)
  \/ SavePassword(r) \/ SetPasswordHash(r)

Next ==
  \/ \E r \in Slots : Begin(r) \/ GoogleCallback(r) \/ Handle(r) \/ Lose(r)
  \/ Login \/ Refresh \/ Logout \/ TokenExpires
  \/ Tick \/ Reap

Spec == Init /\ [][Next]_vars

\* Time passes, and the TTL index runs every minute.  Nothing is asked of clients
\* or of the requests in flight.
FairSpec ==
  Spec /\ WF_vars(Tick) /\ WF_vars(ReapCode /\ UNCHANGED <<tokenVars, session, adopted>>)
       /\ WF_vars(ReapToken /\ UNCHANGED <<codeVars, session, adopted>>)
-------------------------------------------------------------------------------
(***************************************************************************)
(* Properties                                                              *)
(***************************************************************************)
\* Type invariant.
TypeOK ==
  /\ user \in User \cup {Null}
  /\ req \in [Slots -> Request]
  /\ disturbed \in BOOLEAN /\ adopted \in BOOLEAN
  /\ session \subseteq {"refresh", "access"}
  /\ CodesTypeOK /\ TokensTypeOK

\* Whoever holds tokens got them from an account that is verified, by whichever
\* way they were issued (auth.service.ts:92-98, 160-163, 243-250).
SessionsAreVerified == session # {} => user # Null /\ user.verified

\* An account that Google's attestation took over from an unverified sign-up does
\* not keep, and never gets back, the password of that sign-up, whatever
\* requests were in flight (users.service.ts:106-114).
ClaimDropped == adopted => user.password # "claimed"

\* While requests do not overlap a verified account never loses its password:
\* only the take-over of an unverified one drops it (users.service.ts:107-111).
\* With a sign-in by Google that found the account before it was verified it does.
PasswordKept ==
  [][~disturbed' /\ Protected /\ user.verified => user'.password # Null]_vars
===============================================================================
