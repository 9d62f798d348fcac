----------------------------- MODULE PasswordReset -----------------------------
(***************************************************************************)
(* The reset link of an account (password-reset.service.ts).  A new link   *)
(* replaces the token in the document of the user, which keeps its _id; a  *)
(* link is redeemed by finding that document and deleting it by _id.       *)
(***************************************************************************)
EXTENDS AccountRequests

CONSTANTS
  Tokens,         \* bound: the tokens that exist at once
  TOKEN_TTL, LINK_COOLDOWN, MAX_LINKS

ASSUME TokensAssumption ==
  /\ Tokens \subseteq Nat
  /\ {TOKEN_TTL, LINK_COOLDOWN} \subseteq Nat
  /\ MAX_LINKS \in Nat \ {0}

VARIABLES
  token,        \* the passwordresets document of the user, or Null
  link,         \* the token in the newest mail, or Null
  spent         \* history: the token that set the password last, or Null

tokenVars == <<token, link, spent>>

\* A document is named after the token it was inserted with.
Token == [id : Tokens, token : Tokens, ttl : Nat, cool : Nat, sends : Nat]
KnownTokens ==
  {link, spent} \cup UNION {{req[s].holds, req[s].id} : s \in Slots}
    \cup (IF token = Null THEN {} ELSE {token.id, token.token})

\* requestReset: findOne, the cooldown and the limit.
RequestReset(r) ==
  /\ req[r].at = "requesting"
  /\ IF Limited(token, MAX_LINKS) THEN Answer(r) ELSE Goto(r, "linking")
  /\ UNCHANGED <<user, tokenVars>>

\* The upsert.
\* Mutant: the hash of the token is set on insert only.
IssuedLink_FirstKept(t) ==
  [id |-> IF token = Null THEN t ELSE token.id, token |-> IF token = Null THEN t ELSE token.token,
   ttl |-> TOKEN_TTL, cool |-> LINK_COOLDOWN, sends |-> IF token = Null THEN 1 ELSE token.sends + 1]
IssuedLink(t) ==
  [id |-> IF token = Null THEN t ELSE token.id, token |-> t,
   ttl |-> TOKEN_TTL, cool |-> LINK_COOLDOWN, sends |-> IF token = Null THEN 1 ELSE token.sends + 1]

IssueLink(r) ==
  /\ req[r].at = "linking"
  /\ \E t \in Tokens :
       /\ IsNew(t, Tokens, KnownTokens)
       /\ token' = IssuedLink(t)
       /\ Hold(r, "mailing link", t)
  /\ UNCHANGED <<user, link, spent>>

MailLink(r) ==
  /\ req[r].at = "mailing link"
  /\ \/ link' = req[r].holds /\ Answer(r)
     \/ MailFails /\ UNCHANGED link /\ AnswerDisturbed(r)
  /\ UNCHANGED <<user, token, spent>>

\* consumeToken: findOne by the hash of the token, and the check of the copy.
FindToken(r) ==
  /\ req[r].at = "redeeming"
  /\ IF token = Null \/ token.token # req[r].holds
     THEN Answer(r)
     ELSE /\ req' = [req EXCEPT ![r].id = token.id,
                                ![r].at = IF Expired(token) THEN "dropping" ELSE "spending"]
          /\ UNCHANGED disturbed
  /\ UNCHANGED <<user, tokenVars>>

\* Mutant: only an expired token is deleted.
Remaining_Unexpired(r) == IF Expired(token) /\ token.id = req[r].id THEN Null ELSE token
Remaining(r) == IF token # Null /\ token.id = req[r].id THEN Null ELSE token

\* deleteOne by _id.
DropToken(r) ==
  /\ \/ req[r].at = "dropping" /\ Answer(r)
     \/ /\ req[r].at = "spending"
        /\ req' = [req EXCEPT ![r].at = "resetting", ![r].id = Null]
        /\ UNCHANGED disturbed
  /\ token' = Remaining(r)
  /\ UNCHANGED <<user, link, spent>>

ReapToken ==
  /\ Expired(token)
  /\ token' = Null
  /\ UNCHANGED <<user, req, disturbed, link, spent>>

TokenStep(r) == RequestReset(r) \/ IssueLink(r) \/ MailLink(r) \/ FindToken(r) \/ DropToken(r)
-------------------------------------------------------------------------------
TokensTypeOK ==
  /\ token \in Token \cup {Null}
  /\ {link, spent} \subseteq Tokens \cup {Null}

\* Requests that do not overlap leave the newest mail and the stored token
\* together (lines 65-89).
NewestLinkWorks == ~disturbed /\ token # Null /\ (\A s \in Slots : req[s].at = "idle") => token.token = link

\* Once a link has set the password, a request sent with it later sets none
\* ("has already been used", line 101), however requests for new links,
\* expiries and deaths come between.  Two requests that both found the token
\* before either deleted it do both set one.
SpentLinkRefused == \A s \in Slots : req[s].late => req[s].at # "resetting"
===============================================================================
