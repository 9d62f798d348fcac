---------------------------- MODULE AccountRequests ----------------------------
(***************************************************************************)
(* What the requests about one account share: the account of one e-mail    *)
(* address, and the requests in flight.  The server handles at most one    *)
(* request per slot at a time and any number one after the other.          *)
(***************************************************************************)
EXTENDS Naturals, FiniteSets

CONSTANTS
  Slots,        \* requests that may be in flight at once
  Operations,   \* what clients may ask for
  Mortal,       \* slots whose process may die between two calls
  MailFails,    \* TRUE: the mail server may reject a message
  Null

ASSUME RequestsAssumption ==
  /\ Operations \subseteq {"signup", "verify", "resend", "forgot", "reset", "login", "google",
                           "change", "set", "refresh", "logout"}
  /\ IsFiniteSet(Slots) /\ Mortal \subseteq Slots
  /\ MailFails \in BOOLEAN
  /\ Null \notin Nat /\ Null \notin BOOLEAN /\ Null \notin {"claimed", "chosen"}

VARIABLES
  user,         \* the document of the e-mail address, or Null
  req,          \* what each request awaits and holds
  disturbed     \* history: requests have overlapped, died or failed to send mail

\* A password is the one entered at sign-up, or one chosen later by somebody
\* who was signed in or had a reset link.
User == [password : {"claimed", "chosen", Null}, verified : BOOLEAN]

Stages == {"idle", "creating", "resending", "issuing", "mailing code",
           "finding", "counting", "discarding", "consuming", "verifying",
           "requesting", "linking", "mailing link", "redeeming", "dropping", "spending",
           "adopting", "joining", "saving", "resetting"}

Request == [at : Stages,
            holds : Nat \cup {Null},   \* the code or token it was sent or has read
            id : Nat \cup {Null},      \* the _id of the token document it has read
            late : BOOLEAN]            \* history: sent with a link that had been used

Idle == [at |-> "idle", holds |-> Null, id |-> Null, late |-> FALSE]

Send(r, op, where, held, late) ==
  /\ op \in Operations
  /\ req[r].at = "idle"
  /\ req' = [req EXCEPT ![r] = [at |-> where, holds |-> held, id |-> Null, late |-> late]]
  /\ disturbed' = (disturbed \/ \E s \in Slots \ {r} : req[s].at # "idle")

Goto(r, where) == req' = [req EXCEPT ![r].at = where] /\ UNCHANGED disturbed
Hold(r, where, held) ==
  req' = [req EXCEPT ![r].at = where, ![r].holds = held] /\ UNCHANGED disturbed
Answer(r) == req' = [req EXCEPT ![r] = Idle] /\ UNCHANGED disturbed
AnswerDisturbed(r) == req' = [req EXCEPT ![r] = Idle] /\ disturbed' = TRUE

\* Codes and tokens are random: a new one equals none that anybody still has.
IsNew(n, all, known) == LET new == all \ known IN n \in new /\ \A m \in new : n <= m

\* Periods are counted down: ttl until expiresAt, cool until the cooldown after
\* lastSentAt is over.
Less(n) == IF n = 0 THEN 0 ELSE n - 1
Aged(d) == IF d = Null THEN Null ELSE [d EXCEPT !.ttl = Less(@), !.cool = Less(@)]
Expired(d) == d # Null /\ d.ttl = 0
\* Mutant: the limit of sends is not checked.
Limited_CooldownOnly(d, max) == d # Null /\ d.cool > 0
Limited(d, max) == d # Null /\ (d.cool > 0 \/ d.sends >= max)
===============================================================================
