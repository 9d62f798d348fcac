--------------------------- MODULE EmailVerification ---------------------------
(***************************************************************************)
(* The verification code of an account (email-verification.service.ts):    *)
(* issued at sign-up, resent under a cooldown and a limit, and consumed    *)
(* under a limit of wrong guesses.  The record is found, judged on the     *)
(* copy, and then written by another call.                                 *)
(***************************************************************************)
EXTENDS AccountRequests

CONSTANTS
  Codes,          \* bound: the codes that exist at once
  CODE_TTL, RESEND_COOLDOWN,
  MAX_ATTEMPTS, MAX_CODES

ASSUME CodesAssumption ==
  /\ Codes \subseteq Nat
  /\ {CODE_TTL, RESEND_COOLDOWN} \subseteq Nat
  /\ {MAX_ATTEMPTS, MAX_CODES} \subseteq Nat \ {0}

VARIABLES
  code,         \* the emailverifications document of the user, or Null
  inbox,        \* the code in the newest mail, or Null
  tried         \* history: wrong guesses of the stored code that get an answer

codeVars == <<code, inbox, tried>>

Code == [code : Codes, ttl : Nat, cool : Nat, attempts : Nat, sends : Nat]
KnownCodes == {inbox} \cup {req[s].holds : s \in Slots} \cup (IF code = Null THEN {} ELSE {code.code})

\* resendCode: findOne, the cooldown and the limit.  Sign-up and
\* resendVerification answer the same when it is refused.
ResendCode(r) ==
  /\ req[r].at = "resending"
  /\ IF Limited(code, MAX_CODES) THEN Answer(r) ELSE Goto(r, "issuing")
  /\ UNCHANGED <<user, codeVars>>

\* issueCode: the upsert.
\* Mutant: the hash of the code is set on insert only.
Issued_FirstKept(c) ==
  [code |-> IF code = Null THEN c ELSE code.code, ttl |-> CODE_TTL, cool |-> RESEND_COOLDOWN,
   attempts |-> 0, sends |-> IF code = Null THEN 1 ELSE code.sends + 1]
Issued(c) ==
  [code |-> c, ttl |-> CODE_TTL, cool |-> RESEND_COOLDOWN, attempts |-> 0,
   sends |-> IF code = Null THEN 1 ELSE code.sends + 1]

IssueCode(r) ==
  /\ req[r].at = "issuing"
  /\ \E c \in Codes :
       /\ IsNew(c, Codes, KnownCodes)
       /\ code' = Issued(c)
       /\ Hold(r, "mailing code", c)
  /\ tried' = 0
  /\ UNCHANGED <<user, inbox>>

MailCode(r) ==
  /\ req[r].at = "mailing code"
  /\ \/ inbox' = req[r].holds /\ Answer(r)
     \/ MailFails /\ UNCHANGED inbox /\ AnswerDisturbed(r)
  /\ UNCHANGED <<user, code, tried>>

\* consumeCode: findOne, then the checks and the comparison on the copy.
FindCode(r) ==
  /\ req[r].at = "finding"
  /\ \/ code = Null /\ Answer(r) /\ UNCHANGED tried
     \/ /\ code # Null
        /\ code.ttl = 0 \/ code.attempts >= MAX_ATTEMPTS
        /\ Hold(r, "discarding", Null) /\ UNCHANGED tried
     \/ /\ code # Null /\ code.ttl > 0 /\ code.attempts < MAX_ATTEMPTS
        /\ IF req[r].holds = code.code
           THEN Hold(r, "consuming", Null) /\ UNCHANGED tried
           ELSE Hold(r, "counting", code.code) /\ tried' = tried + 1
  /\ UNCHANGED <<user, code, inbox>>

\* Mutant: attempts is never incremented.
Counted_Not(d) == d
Counted(d) == [d EXCEPT !.attempts = @ + 1]

\* A wrong guess: $inc by user, whatever record is stored by now.
CountGuess(r) ==
  /\ req[r].at = "counting"
  /\ IF code = Null
     THEN Hold(r, "discarding", Null) /\ UNCHANGED code
     ELSE /\ code' = Counted(code)
          /\ IF Counted(code).attempts >= MAX_ATTEMPTS THEN Hold(r, "discarding", Null) ELSE Answer(r)
  /\ UNCHANGED <<user, inbox, tried>>

\* deleteOne by user.
DropCode(r) ==
  /\ \/ req[r].at = "discarding" /\ Answer(r)
     \/ req[r].at = "consuming" /\ Goto(r, "verifying")
  /\ code' = Null /\ tried' = 0
  /\ UNCHANGED <<user, inbox>>

\* Mutant: the collection has no TTL index.
ReapCode_NoIndex == FALSE
\* The TTL index deletes the record some time after it expired.
ReapCode ==
  /\ Expired(code)
  /\ code' = Null /\ tried' = 0
  /\ UNCHANGED <<user, req, disturbed, inbox>>

LoseGuess(r) ==
  tried' = IF req[r].at = "counting" /\ code # Null /\ code.code = req[r].holds
           THEN tried - 1 ELSE tried

CodeStep(r) ==
  ResendCode(r) \/ IssueCode(r) \/ MailCode(r) \/ FindCode(r) \/ CountGuess(r) \/ DropCode(r)
-------------------------------------------------------------------------------
CodesTypeOK ==
  /\ code \in Code \cup {Null}
  /\ inbox \in Codes \cup {Null}
  /\ tried \in Nat

\* attempts is read before the comparison and counted after it
\* (email-verification.service.ts:115-126): however guesses interleave with each
\* other and with new codes, a code admits at most MAX_ATTEMPTS wrong guesses
\* and one more for each other request in flight.
GuessLimit == tried <= MAX_ATTEMPTS + Cardinality(Slots) - 1

\* The limit is checked before the upsert that counts (lines 92, 66): overlapping
\* requests exceed MAX_SENDS by no more than their number.
CodeSendLimit == code # Null => code.sends <= MAX_CODES + Cardinality(Slots) - 1

\* Requests that do not overlap leave the newest mail and the stored code
\* together, through every sequence of sign-ups, resends, guesses and expiries
\* (lines 51-73): a user is never sent a code that was replaced already.
NewestCodeWorks == ~disturbed /\ code # Null /\ (\A s \in Slots : req[s].at = "idle") => code.code = inbox

\* A refusal is not for good (lines 79-100, "Please try again in 15 minutes"):
\* time and the TTL index always make resending possible again, also after
\* crashes and rejected mails.  Without the index this fails: nothing else
\* resets sendCount for a user who only asks for codes.
CodeReopens == Limited(code, MAX_CODES) ~> ~Limited(code, MAX_CODES)
===============================================================================
