---------------------------- MODULE AccountsProofs ----------------------------
(***************************************************************************)
(* Proofs about Accounts, for every number of requests in flight, every    *)
(* limit, cooldown and period.                                             *)
(***************************************************************************)
EXTENDS Accounts, FiniteSetTheorems, TLAPS

\* A request past its first query is about an account that is stored, and holds
\* the code or the token that its next call needs.
Fits(q, u) ==
  /\ q.at \notin {"idle", "creating", "joining"} => u # Null
  /\ q.at = "mailing code" => q.holds \in Codes
  /\ q.at \in {"mailing link", "redeeming", "dropping", "spending", "resetting"} => q.holds \in Tokens

Shape ==
  /\ \A r \in Slots : Fits(req[r], user)
  /\ user = Null => code = Null /\ link = Null /\ session = {} /\ ~adopted

TypeInv == TypeOK /\ Shape

LEMMA NullIsNone == Null \notin Nat /\ Null \notin Codes /\ Null \notin Tokens
BY RequestsAssumption, CodesAssumption, TokensAssumption

\* A request that becomes another one, while the account stays stored.
LEMMA Becomes ==
  ASSUME TypeInv, NEW r \in Slots, NEW q \in Request, NEW u,
         user # Null => u # Null, Fits(q, u), req' = [req EXCEPT ![r] = q]
  PROVE  req' \in [Slots -> Request] /\ \A s \in Slots : Fits(req'[s], u)
<1>1. req \in [Slots -> Request]  BY DEF TypeInv, TypeOK
<1>2. \A s \in Slots : Fits(req[s], u)  BY DEF TypeInv, Shape, Fits
<1> QED  BY <1>1, <1>2

LEMMA Sends ==
  ASSUME TypeInv, NEW r \in Slots, NEW op, NEW s \in Stages, NEW h \in Nat \cup {Null},
         NEW l \in BOOLEAN, Send(r, op, s, h, l), user' = user,
         s \notin {"idle", "creating", "joining"} => user # Null,
         s \notin {"mailing code", "mailing link", "dropping", "spending", "resetting"},
         s = "redeeming" => h \in Tokens
  PROVE  /\ req' \in [Slots -> Request] /\ \A t \in Slots : Fits(req'[t], user')
         /\ disturbed' \in BOOLEAN
<1> DEFINE q == [at |-> s, holds |-> h, id |-> Null, late |-> l]
<1>1. q \in Request  BY DEF Request
<1>2. Fits(q, user)  BY DEF Fits
<1>3. req' = [req EXCEPT ![r] = q]  BY DEF Send
<1>4. disturbed' \in BOOLEAN  BY ZenonT(20) DEF Send, TypeInv, TypeOK
<1> HIDE DEF q
<1> QED  BY <1>1, <1>2, <1>3, <1>4, Becomes

LEMMA Answers ==
  ASSUME TypeInv, NEW r \in Slots, NEW u, user # Null => u # Null,
         req' = [req EXCEPT ![r] = Idle]
  PROVE  req' \in [Slots -> Request] /\ \A t \in Slots : Fits(req'[t], u)
<1>1. Idle \in Request /\ Fits(Idle, u)  BY DEF Idle, Request, Stages, Fits
<1> QED  BY <1>1, Becomes

\* A request moves on to its next call.
LEMMA Holds ==
  ASSUME TypeInv, NEW r \in Slots, NEW s \in Stages, NEW h \in Nat \cup {Null},
         NEW u, u # Null, Fits([req[r] EXCEPT !.at = s, !.holds = h], u),
         req' = [req EXCEPT ![r].at = s, ![r].holds = h]
  PROVE  req' \in [Slots -> Request] /\ \A t \in Slots : Fits(req'[t], u)
<1> DEFINE q == [req[r] EXCEPT !.at = s, !.holds = h]
<1>1. req[r] \in Request  BY DEF TypeInv, TypeOK
<1>2. q \in Request  BY <1>1 DEF Request
<1>3. req' = [req EXCEPT ![r] = q]  BY DEF TypeInv, TypeOK
<1> HIDE DEF q
<1> QED  BY <1>2, <1>3, Becomes DEF q

LEMMA Gotos ==
  ASSUME TypeInv, NEW r \in Slots, NEW s \in Stages, req[r].at # "idle", NEW u, u # Null,
         s \notin {"mailing code", "mailing link", "redeeming", "dropping", "spending", "resetting"},
         req' = [req EXCEPT ![r].at = s]
  PROVE  req' \in [Slots -> Request] /\ \A t \in Slots : Fits(req'[t], u)
<1> DEFINE q == [req[r] EXCEPT !.at = s]
<1>1. req[r] \in Request  BY DEF TypeInv, TypeOK
<1>2. q \in Request /\ Fits(q, u)  BY <1>1 DEF Request, Fits
<1>3. req' = [req EXCEPT ![r] = q]  BY DEF TypeInv, TypeOK
<1> HIDE DEF q
<1> QED  BY <1>2, <1>3, Becomes
-------------------------------------------------------------------------------
LEMMA InitShape == Init => TypeInv
<1> SUFFICES ASSUME Init PROVE TypeInv  OBVIOUS
<1>1. Idle \in Request /\ \A u : Fits(Idle, u)  BY DEF Idle, Request, Stages, Fits
<1>2. TypeOK  BY <1>1, AccountsAssumption DEF Init, TypeOK, CodesTypeOK, TokensTypeOK
<1>3. Shape  BY <1>1 DEF Init, Shape
<1> QED  BY <1>2, <1>3 DEF TypeInv

LEMMA BeginShape ==
  ASSUME TypeInv, NEW r \in Slots, Begin(r) \/ GoogleCallback(r)
  PROVE  TypeInv'
<1>1. UNCHANGED <<user, codeVars, tokenVars, adopted>>  BY DEF Begin, GoogleCallback
<1>2. session' \subseteq {"refresh", "access"} /\ (user = Null => session' = {})
  BY DEF Begin, GoogleCallback, TypeInv, TypeOK, Shape
<1> DEFINE Goal == /\ req' \in [Slots -> Request] /\ \A t \in Slots : Fits(req'[t], user')
                   /\ disturbed' \in BOOLEAN
<1>3. user' = user /\ Null \in Nat \cup {Null} /\ FALSE \in BOOLEAN  BY <1>1
<1>4. Goal
  <2>1. CASE UNCHANGED <<req, disturbed>>  BY <1>1, <2>1 DEF TypeInv, TypeOK, Shape
  <2>2. ASSUME NEW op, Send(r, op, "creating", Null, FALSE) \/ Send(r, op, "joining", Null, FALSE)
        PROVE  Goal
    <3>1. {"creating", "joining"} \subseteq Stages  BY DEF Stages
    <3> QED  BY <1>3, <2>2, <3>1, Sends
  <2>3. ASSUME NEW op, NEW s \in {"resending", "requesting", "saving", "adopting"}, user # Null,
               Send(r, op, s, Null, FALSE)
        PROVE  Goal
    <3>1. s \in Stages  BY DEF Stages
    <3> QED  BY <1>3, <2>3, <3>1, Sends
  <2>4. CASE VerifyEmail(r)
    <3>1. PICK c \in {inbox, Null} : Send(r, "verify", "finding", c, FALSE) /\ user # Null
      BY <2>4 DEF VerifyEmail, Unverified
    <3>2. c \in Nat \cup {Null}  BY CodesAssumption DEF TypeInv, TypeOK, CodesTypeOK
    <3>3. "finding" \in Stages  BY DEF Stages
    <3> QED  BY <1>3, <3>1, <3>2, <3>3, Sends
  <2>5. CASE ResetPassword(r)
    <3>1. link \in Tokens /\ user # Null /\ (link = spent) \in BOOLEAN
      BY <2>5 DEF ResetPassword, TypeInv, TypeOK, TokensTypeOK, Shape
    <3>2. link \in Nat \cup {Null}  BY <3>1, TokensAssumption
    <3>3. "redeeming" \in Stages  BY DEF Stages
    <3>4. Send(r, "reset", "redeeming", link, link = spent)  BY <2>5 DEF ResetPassword
    <3> QED  BY <1>3, <3>1, <3>2, <3>3, <3>4, Sends
  <2>6. CASE Signup(r)
    <3>1. \/ Send(r, "signup", "creating", Null, FALSE)
          \/ user # Null /\ Send(r, "signup", "resending", Null, FALSE)
      BY <2>6 DEF Signup, Unverified
    <3> QED  BY <2>2, <2>3, <3>1
  <2>7. CASE ResendVerification(r) \/ ForgotPassword(r) \/ ChangePassword(r) \/ SetPassword(r)
    <3>1. /\ user # Null
          /\ \E op : \/ Send(r, op, "resending", Null, FALSE)
                     \/ Send(r, op, "requesting", Null, FALSE)
                     \/ Send(r, op, "saving", Null, FALSE)
      BY <2>7 DEF ResendVerification, ForgotPassword, ChangePassword, SetPassword, Unverified, Protected
    <3> QED  BY <2>3, <3>1
  <2>8. CASE GoogleCallback(r)
    <3>1. \/ UNCHANGED <<req, disturbed>>
          \/ Send(r, "google", "joining", Null, FALSE)
          \/ user # Null /\ Send(r, "google", "adopting", Null, FALSE)
      BY <2>8 DEF GoogleCallback, Unverified
    <3> QED  BY <2>1, <2>2, <2>3, <3>1
  <2> QED  BY <2>4, <2>5, <2>6, <2>7, <2>8 DEF Begin
<1> QED
  BY <1>1, <1>2, <1>4
     DEF TypeInv, TypeOK, Shape, CodesTypeOK, TokensTypeOK, codeVars, tokenVars

LEMMA CodeStepShape ==
  ASSUME TypeInv, NEW r \in Slots, CodeStep(r), UNCHANGED <<tokenVars, session, adopted>>
  PROVE  TypeInv'
<1> DEFINE Goal == req' \in [Slots -> Request] /\ \A t \in Slots : Fits(req'[t], user)
<1>1. user' = user /\ disturbed' \in BOOLEAN /\ user # Null
  BY DEF CodeStep, ResendCode, IssueCode, MailCode, FindCode, CountGuess, DropCode, Goto, Hold,
     Answer, AnswerDisturbed, TypeInv, TypeOK, Shape, Fits
<1>2. ASSUME req' = [req EXCEPT ![r] = Idle] PROVE Goal
  BY <1>2, Answers
<1>3. ASSUME NEW s \in {"issuing", "verifying"}, req[r].at # "idle", req' = [req EXCEPT ![r].at = s]
      PROVE  Goal
  <2>1. s \in Stages  BY DEF Stages
  <2> QED  BY <1>1, <1>3, <2>1, Gotos
<1>4. ASSUME NEW s \in {"mailing code", "discarding", "consuming", "counting"}, NEW h,
             h \in Codes \/ (s # "mailing code" /\ h = Null),
             req' = [req EXCEPT ![r].at = s, ![r].holds = h]
      PROVE  Goal
  <2>1. s \in Stages /\ h \in Nat \cup {Null}  BY <1>4, CodesAssumption DEF Stages
  <2>2. req[r] \in Request  BY DEF TypeInv, TypeOK
  <2>3. Fits([req[r] EXCEPT !.at = s, !.holds = h], user)  BY <1>1, <1>4, <2>2 DEF Fits, Request
  <2> QED  BY <1>1, <1>4, <2>1, <2>3, Holds
<1>5. CASE ResendCode(r)
  <2>1. Goal  BY <1>2, <1>3, <1>5 DEF ResendCode, Goto, Answer
  <2> QED  BY <1>1, <1>5, <2>1
           DEF ResendCode, codeVars, tokenVars, TypeInv, TypeOK, CodesTypeOK, TokensTypeOK, Shape
<1>6. CASE IssueCode(r)
  <2>1. PICK c \in Codes : code' = Issued(c) /\ Hold(r, "mailing code", c)  BY <1>6 DEF IssueCode
  <2>2. Goal  BY <1>4, <2>1 DEF Hold
  <2>3. Issued(c) \in Code
    <3>1. code # Null => code.sends + 1 \in Nat  BY DEF TypeInv, TypeOK, CodesTypeOK, Code
    <3> QED  BY <3>1, CodesAssumption DEF Issued, Code
  <2> QED  BY <1>1, <1>6, <2>1, <2>2, <2>3
           DEF IssueCode, tokenVars, TypeInv, TypeOK, CodesTypeOK, TokensTypeOK, Shape
<1>7. CASE MailCode(r)
  <2>1. Goal  BY <1>2, <1>7 DEF MailCode, Answer, AnswerDisturbed
  <2>2. req[r].holds \in Codes  BY <1>7 DEF MailCode, TypeInv, Shape, Fits
  <2> QED  BY <1>1, <1>7, <2>1, <2>2
           DEF MailCode, tokenVars, TypeInv, TypeOK, CodesTypeOK, TokensTypeOK, Shape
<1>8. CASE FindCode(r)
  <2>1. code # Null => code.code \in Codes  BY DEF TypeInv, TypeOK, CodesTypeOK, Code
  <2>2. Goal  BY <1>2, <1>4, <1>8, <2>1 DEF FindCode, Hold, Answer
  <2>3. tried' \in Nat  BY <1>8 DEF FindCode, TypeInv, TypeOK, CodesTypeOK
  <2> QED  BY <1>1, <1>8, <2>2, <2>3
           DEF FindCode, tokenVars, TypeInv, TypeOK, CodesTypeOK, TokensTypeOK, Shape
<1>9. CASE CountGuess(r)
  <2>1. Goal  BY <1>2, <1>4, <1>9 DEF CountGuess, Hold, Answer
  <2>2. code # Null => Counted(code) \in Code
    <3>1. ASSUME code # Null PROVE code \in Code
      BY <3>1 DEF TypeInv, TypeOK, CodesTypeOK
    <3>2. ASSUME NEW d \in Code PROVE Counted(d) \in Code  BY DEF Counted, Code
    <3> QED  BY <3>1, <3>2
  <2> QED  BY <1>1, <1>9, <2>1, <2>2
           DEF CountGuess, tokenVars, TypeInv, TypeOK, CodesTypeOK, TokensTypeOK, Shape
<1>10. CASE DropCode(r)
  <2>1. Goal  BY <1>2, <1>3, <1>10 DEF DropCode, Goto, Answer
  <2> QED  BY <1>1, <1>10, <2>1
           DEF DropCode, tokenVars, TypeInv, TypeOK, CodesTypeOK, TokensTypeOK, Shape
<1> QED  BY <1>5, <1>6, <1>7, <1>8, <1>9, <1>10 DEF CodeStep

LEMMA TokenStepShape ==
  ASSUME TypeInv, NEW r \in Slots, TokenStep(r), UNCHANGED <<codeVars, session, adopted>>
  PROVE  TypeInv'
<1> DEFINE Goal == req' \in [Slots -> Request] /\ \A t \in Slots : Fits(req'[t], user)
<1>1. user' = user /\ disturbed' \in BOOLEAN /\ user # Null
  BY DEF TokenStep, RequestReset, IssueLink, MailLink, FindToken, DropToken, Goto, Hold,
     Answer, AnswerDisturbed, TypeInv, TypeOK, Shape, Fits
<1>2. ASSUME req' = [req EXCEPT ![r] = Idle] PROVE Goal
  BY <1>2, Answers
<1>3. CASE RequestReset(r)
  <2>1. "linking" \in Stages  BY DEF Stages
  <2>2. Goal  BY <1>1, <1>2, <1>3, <2>1, Gotos DEF RequestReset, Goto, Answer
  <2> QED  BY <1>1, <1>3, <2>2
           DEF RequestReset, codeVars, tokenVars, TypeInv, TypeOK, CodesTypeOK, TokensTypeOK, Shape
<1>4. CASE IssueLink(r)
  <2>1. PICK t \in Tokens : token' = IssuedLink(t) /\ Hold(r, "mailing link", t)
    BY <1>4 DEF IssueLink
  <2>2. req[r] \in Request  BY DEF TypeInv, TypeOK
  <2>3. Fits([req[r] EXCEPT !.at = "mailing link", !.holds = t], user)
    BY <1>1, <2>2 DEF Fits, Request
  <2>4. "mailing link" \in Stages /\ t \in Nat \cup {Null}  BY TokensAssumption DEF Stages
  <2>5. Goal  BY <1>1, <2>1, <2>3, <2>4, Holds DEF Hold
  <2>6. IssuedLink(t) \in Token
    <3>1. token # Null => token.sends + 1 \in Nat /\ token.id \in Tokens
      BY DEF TypeInv, TypeOK, TokensTypeOK, Token
    <3> QED  BY <3>1, TokensAssumption DEF IssuedLink, Token
  <2> QED  BY <1>1, <1>4, <2>1, <2>5, <2>6
           DEF IssueLink, codeVars, TypeInv, TypeOK, CodesTypeOK, TokensTypeOK, Shape
<1>5. CASE MailLink(r)
  <2>1. Goal  BY <1>2, <1>5 DEF MailLink, Answer, AnswerDisturbed
  <2>2. req[r].holds \in Tokens  BY <1>5 DEF MailLink, TypeInv, Shape, Fits
  <2> QED  BY <1>1, <1>5, <2>1, <2>2
           DEF MailLink, codeVars, TypeInv, TypeOK, CodesTypeOK, TokensTypeOK, Shape
<1>6. CASE FindToken(r)
  <2>1. CASE Answer(r)
    <3>1. Goal  BY <1>2, <2>1 DEF Answer
    <3> QED  BY <1>1, <1>6, <3>1
             DEF FindToken, codeVars, tokenVars, TypeInv, TypeOK, CodesTypeOK, TokensTypeOK, Shape
  <2>2. CASE ~Answer(r)
    <3>1. PICK s \in {"dropping", "spending"} :
            token # Null /\ req' = [req EXCEPT ![r].id = token.id, ![r].at = s]
      BY <1>6, <2>2 DEF FindToken
    <3> DEFINE q == [req[r] EXCEPT !.id = token.id, !.at = s]
    <3>2. req[r] \in Request /\ req[r].holds \in Tokens
      BY <1>6 DEF FindToken, TypeInv, TypeOK, Shape, Fits
    <3>3. token.id \in Nat  BY <3>1, TokensAssumption DEF TypeInv, TypeOK, TokensTypeOK, Token
    <3>4. q \in Request /\ Fits(q, user)  BY <1>1, <3>2, <3>3 DEF Request, Stages, Fits
    <3>5. req' = [req EXCEPT ![r] = q]  BY <3>1 DEF TypeInv, TypeOK
    <3> HIDE DEF q
    <3>6. Goal  BY <3>4, <3>5, Becomes
    <3> QED  BY <1>1, <1>6, <3>6
             DEF FindToken, codeVars, tokenVars, TypeInv, TypeOK, CodesTypeOK, TokensTypeOK, Shape
  <2> QED  BY <2>1, <2>2
<1>7. CASE DropToken(r)
  <2>1. CASE req' = [req EXCEPT ![r] = Idle]
    <3>1. Goal  BY <1>2, <2>1
    <3> QED  BY <1>1, <1>7, <3>1
             DEF DropToken, Remaining, codeVars, TypeInv, TypeOK, CodesTypeOK, TokensTypeOK, Shape
  <2>2. CASE req[r].at = "spending" /\ req' = [req EXCEPT ![r].at = "resetting", ![r].id = Null]
    <3> DEFINE q == [req[r] EXCEPT !.at = "resetting", !.id = Null]
    <3>1. req[r] \in Request /\ req[r].holds \in Tokens  BY <2>2 DEF TypeInv, TypeOK, Shape, Fits
    <3>2. q \in Request /\ Fits(q, user)  BY <1>1, <3>1 DEF Request, Stages, Fits
    <3>3. req' = [req EXCEPT ![r] = q]  BY <2>2 DEF TypeInv, TypeOK
    <3> HIDE DEF q
    <3>4. Goal  BY <3>2, <3>3, Becomes
    <3> QED  BY <1>1, <1>7, <3>4
             DEF DropToken, Remaining, codeVars, TypeInv, TypeOK, CodesTypeOK, TokensTypeOK, Shape
  <2> QED  BY <1>7, <2>1, <2>2 DEF DropToken, Answer
<1> QED  BY <1>3, <1>4, <1>5, <1>6, <1>7 DEF TokenStep

\* Writing the account.
LEMMA Stores ==
  ASSUME TypeInv, NEW r \in Slots, user' \in User, disturbed' \in BOOLEAN,
         \/ req' = [req EXCEPT ![r] = Idle]
         \/ req[r].at # "idle" /\ req' = [req EXCEPT ![r].at = "issuing"],
         UNCHANGED codeVars, token' = token, link' = link, spent' \in {spent, req[r].holds},
         spent' # spent => spent' \in Tokens,
         session' \subseteq {"refresh", "access"}, adopted' \in BOOLEAN
  PROVE  TypeInv'
<1>1. user' # Null  BY AccountsAssumption
<1>2. req' \in [Slots -> Request] /\ \A t \in Slots : Fits(req'[t], user')
  BY <1>1, Answers, Gotos DEF Stages
<1> QED  BY <1>1, <1>2 DEF codeVars, TypeInv, TypeOK, CodesTypeOK, TokensTypeOK, Shape

LEMMA UserWriteShape ==
  ASSUME TypeInv, NEW r \in Slots,
         \/ CreateUser(r) \/ MarkEmailVerified(r) \/ AdoptUser(r) \/ JoinUser(r)
         \/ SavePassword(r) \/ SetPasswordHash(r)
  PROVE  TypeInv'
<1>1. ASSUME NEW p \in {"claimed", "chosen", Null}, NEW v \in BOOLEAN
      PROVE  [password |-> p, verified |-> v] \in User
  BY DEF User
<1>2. ASSUME user # Null
      PROVE  /\ user \in User
             /\ [user EXCEPT !.verified = TRUE] \in User
             /\ [user EXCEPT !.password = "chosen"] \in User
  BY <1>2 DEF TypeInv, TypeOK, User
<1>3. disturbed \in BOOLEAN /\ session \subseteq {"refresh", "access"} /\ adopted \in BOOLEAN
  BY DEF TypeInv, TypeOK
<1>4. req[r].at \notin {"idle", "creating", "joining"} => user # Null  BY DEF TypeInv, Shape, Fits
<1>5. CASE CreateUser(r)
  <2>1. user' \in User  BY <1>1, <1>2, <1>5 DEF CreateUser
  <2> QED  BY <1>3, <1>5, <2>1, Stores DEF CreateUser, Answer, Goto, tokenVars
<1>6. CASE MarkEmailVerified(r)
  <2>1. user' \in User  BY <1>2, <1>4, <1>6 DEF MarkEmailVerified
  <2> QED  BY <1>3, <1>6, <2>1, Stores DEF MarkEmailVerified, Answer, tokenVars
<1>7. CASE AdoptUser(r)
  <2>1. user' \in User  BY <1>1, <1>7 DEF AdoptUser, Adopted
  <2> QED  BY <1>3, <1>7, <2>1, Stores DEF AdoptUser, Answer, tokenVars
<1>8. CASE JoinUser(r)
  <2>1. user' \in User  BY <1>1, <1>2, <1>8 DEF JoinUser
  <2> QED  BY <1>3, <1>8, <2>1, Stores DEF JoinUser, Answer, tokenVars
<1>9. CASE SavePassword(r)
  <2>1. user' \in User  BY <1>2, <1>4, <1>9 DEF SavePassword
  <2> QED  BY <1>3, <1>9, <2>1, Stores DEF SavePassword, Answer, tokenVars
<1>10. CASE SetPasswordHash(r)
  <2>1. user' \in User  BY <1>2, <1>4, <1>10 DEF SetPasswordHash
  <2>2. req[r].holds \in Tokens  BY <1>10 DEF SetPasswordHash, TypeInv, Shape, Fits
  <2> QED  BY <1>3, <1>10, <2>1, <2>2, Stores DEF SetPasswordHash, Answer
<1> QED  BY <1>5, <1>6, <1>7, <1>8, <1>9, <1>10

LEMMA LoseShape ==
  ASSUME TypeInv, NEW r \in Slots, Lose(r), tried' \in Nat
  PROVE  TypeInv'
<1>1. req' \in [Slots -> Request] /\ \A t \in Slots : Fits(req'[t], user)
  BY Answers DEF Lose, AnswerDisturbed
<1> QED
  BY <1>1 DEF Lose, AnswerDisturbed, tokenVars, TypeInv, TypeOK, CodesTypeOK, TokensTypeOK, Shape

LEMMA ClockShape ==
  ASSUME TypeInv, Login \/ Refresh \/ Logout \/ TokenExpires \/ Tick \/ Reap
  PROVE  TypeInv'
<1>1. CASE Login \/ Refresh \/ Logout \/ TokenExpires
  <2>1. session' \subseteq {"refresh", "access"} /\ (session' # {} => user # Null)
    BY <1>1 DEF Login, MayLogin, Protected, Refresh, Logout, TokenExpires, TypeInv, TypeOK, Shape
  <2> QED
    BY <1>1, <2>1 DEF Login, Refresh, Logout, TokenExpires, codeVars, tokenVars,
                      TypeInv, TypeOK, CodesTypeOK, TokensTypeOK, Shape
<1>2. CASE Tick
  <2>1. \A n \in Nat : Less(n) \in Nat  BY DEF Less
  <2>2. ASSUME NEW d \in Code PROVE [d EXCEPT !.ttl = Less(d.ttl), !.cool = Less(d.cool)] \in Code
    BY <2>1 DEF Code
  <2>3. ASSUME NEW d \in Token PROVE [d EXCEPT !.ttl = Less(d.ttl), !.cool = Less(d.cool)] \in Token
    BY <2>1 DEF Token
  <2>4. Aged(code) \in Code \cup {Null}  BY <2>2 DEF Aged, TypeInv, TypeOK, CodesTypeOK
  <2>5. Aged(token) \in Token \cup {Null}  BY <2>3 DEF Aged, TypeInv, TypeOK, TokensTypeOK
  <2>6. user = Null => Aged(code) = Null  BY DEF Aged, TypeInv, Shape
  <2> QED  BY <1>2, <2>4, <2>5, <2>6 DEF Tick, TypeInv, TypeOK, CodesTypeOK, TokensTypeOK, Shape
<1>3. CASE Reap
  BY <1>3 DEF Reap, ReapCode, ReapToken, codeVars, tokenVars,
              TypeInv, TypeOK, CodesTypeOK, TokensTypeOK, Shape
<1> QED  BY <1>1, <1>2, <1>3

LEMMA NextShape ==
  ASSUME TypeInv, [Next]_vars, (\E r \in Slots : Lose(r)) => tried' \in Nat
  PROVE  TypeInv'
<1>1. CASE UNCHANGED vars
  BY <1>1 DEF vars, codeVars, tokenVars, TypeInv, TypeOK, CodesTypeOK, TokensTypeOK, Shape
<1> QED
  BY <1>1, BeginShape, CodeStepShape, TokenStepShape, UserWriteShape, LoseShape, ClockShape
     DEF Next, Handle
-------------------------------------------------------------------------------
(***************************************************************************)
(* Guesses.  A guess of the stored code that was judged wrong is counted   *)
(* already in attempts, or by a request that is about to count it.  The    *)
(* limit follows: a guess is judged only while attempts is below it, and   *)
(* no more guesses are in flight than there are slots.                     *)
(***************************************************************************)
Guessers(q, c) == {s \in Slots : q[s].at = "counting" /\ q[s].holds = c}
GuessInv ==
  /\ code = Null => tried = 0
  /\ code # Null =>
       /\ Cardinality(Guessers(req, code.code)) <= tried
       /\ tried <= code.attempts + Cardinality(Guessers(req, code.code))
  /\ GuessLimit

LEMMA GuessersCount ==
  ASSUME NEW q, NEW c
  PROVE  /\ IsFiniteSet(Guessers(q, c))
         /\ Cardinality(Guessers(q, c)) \in Nat /\ Cardinality(Slots) \in Nat
         /\ Cardinality(Guessers(q, c)) <= Cardinality(Slots)
<1>1. Guessers(q, c) \in SUBSET Slots  BY DEF Guessers
<1> QED  BY <1>1, RequestsAssumption, FS_Subset, FS_CardinalityType

\* A request that neither begins nor ends to count.
Uncounted(r) == req[r].at # "counting" /\ req'[r].at # "counting"

LEMMA GuessersKept ==
  ASSUME NEW r \in Slots, \A s \in Slots \ {r} : req'[s] = req[s], Uncounted(r), NEW c
  PROVE  Guessers(req', c) = Guessers(req, c)
BY DEF Guessers, Uncounted

LEMMA GuessKept ==
  ASSUME GuessInv, tried' = tried, code' = Null <=> code = Null,
         code # Null => /\ code'.code = code.code /\ code'.attempts = code.attempts
                        /\ Guessers(req', code.code) = Guessers(req, code.code)
  PROVE  GuessInv'
BY DEF GuessInv, GuessLimit

LEMMA GuessReset ==
  ASSUME TypeInv, tried' = 0, code' = Null
  PROVE  GuessInv'
<1>1. Cardinality(Slots) \in Nat  BY GuessersCount
<1> QED  BY <1>1, CodesAssumption DEF GuessInv, GuessLimit

LEMMA IssueGuess ==
  ASSUME TypeInv, NEW r \in Slots, IssueCode(r)
  PROVE  GuessInv'
<1>1. PICK c \in Codes : IsNew(c, Codes, KnownCodes) /\ code' = Issued(c) /\ Hold(r, "mailing code", c)
  BY DEF IssueCode
<1>2. req' = [req EXCEPT ![r].at = "mailing code", ![r].holds = c]  BY <1>1 DEF Hold
<1>3. req'[r].at = "mailing code" /\ \A s \in Slots \ {r} : req'[s] = req[s] /\ req[s].holds # c
  BY <1>1, <1>2 DEF IsNew, KnownCodes, TypeInv, TypeOK, Request
<1>4. Guessers(req', c) = {}  BY <1>3 DEF Guessers
<1>5. code'.code = c /\ code'.attempts = 0  BY <1>1 DEF Issued
<1>6. tried' = 0  BY DEF IssueCode
<1>7. Cardinality(Guessers(req', c)) = 0 /\ Cardinality(Slots) \in Nat
  BY <1>4, FS_EmptySet, GuessersCount
<1>8. GuessLimit'  BY <1>6, <1>7, CodesAssumption DEF GuessLimit
<1> QED  BY <1>5, <1>6, <1>7, <1>8 DEF GuessInv

LEMMA FindGuess ==
  ASSUME TypeInv, GuessInv, NEW r \in Slots, FindCode(r)
  PROVE  GuessInv'
<1>1. CASE UNCHANGED tried
  <2>1. \A s \in Slots \ {r} : req'[s] = req[s]
    BY DEF FindCode, Answer, Hold, TypeInv, TypeOK
  <2>2. Uncounted(r)
    <3>1. tried + 1 # tried  BY DEF TypeInv, TypeOK, CodesTypeOK
    <3> QED  BY <1>1, <3>1 DEF Uncounted, FindCode, Answer, Hold, Idle, TypeInv, TypeOK, Request
  <2> QED  BY <1>1, <2>1, <2>2, GuessersKept, GuessKept DEF FindCode
<1>2. CASE ~UNCHANGED tried
  <2> DEFINE G == Guessers(req, code.code)
  <2>1. /\ code # Null /\ code' = code /\ code.attempts < MAX_ATTEMPTS /\ tried' = tried + 1
        /\ req[r].at = "finding"
        /\ req' = [req EXCEPT ![r].at = "counting", ![r].holds = code.code]
    BY <1>2 DEF FindCode, Hold
  <2>2. r \notin G /\ Guessers(req', code.code) = G \cup {r}
    BY <2>1 DEF Guessers, TypeInv, TypeOK, Request
  <2>3. /\ Cardinality(G) \in Nat /\ Cardinality(Slots) \in Nat
        /\ Cardinality(Guessers(req', code.code)) = Cardinality(G) + 1
        /\ Cardinality(Guessers(req', code.code)) <= Cardinality(Slots)
    BY <2>2, GuessersCount, FS_AddElement
  <2>4. tried \in Nat /\ code.attempts \in Nat /\ MAX_ATTEMPTS \in Nat
    BY <2>1, CodesAssumption DEF TypeInv, TypeOK, CodesTypeOK, Code
  <2>5. Cardinality(G) <= tried /\ tried <= code.attempts + Cardinality(G)
    BY <2>1 DEF GuessInv
  <2> HIDE DEF G
  <2>6. /\ Cardinality(Guessers(req', code.code)) <= tried'
        /\ tried' <= code.attempts + Cardinality(Guessers(req', code.code))
    BY <2>1, <2>3, <2>4, <2>5
  <2>7. tried' <= MAX_ATTEMPTS + Cardinality(Slots) - 1
    BY <2>1, <2>3, <2>4, <2>6
  <2> QED  BY <2>1, <2>6, <2>7 DEF GuessInv, GuessLimit
<1> QED  BY <1>1, <1>2

LEMMA CountGuessGuess ==
  ASSUME TypeInv, GuessInv, NEW r \in Slots, CountGuess(r)
  PROVE  GuessInv'
<1>1. tried' = tried  BY DEF CountGuess
<1>2. CASE code = Null
  BY <1>1, <1>2, GuessKept DEF CountGuess
<1>3. CASE code # Null
  <2> DEFINE G == Guessers(req, code.code)
  <2>1. code' = Counted(code) /\ code \in Code  BY <1>3 DEF CountGuess, TypeInv, TypeOK, CodesTypeOK
  <2>2. code'.code = code.code /\ code'.attempts = code.attempts + 1  BY <2>1 DEF Counted, Code
  <2>3. Guessers(req', code.code) = G \ {r}
    <3>1. req'[r].at # "counting" /\ \A s \in Slots \ {r} : req'[s] = req[s]
      BY <1>3 DEF CountGuess, Hold, Answer, Idle, TypeInv, TypeOK, Request
    <3> QED  BY <3>1 DEF Guessers
  <2>4. /\ Cardinality(G) \in Nat
        /\ Cardinality(Guessers(req', code.code)) \in {Cardinality(G) - 1, Cardinality(G)}
    BY <2>3, GuessersCount, FS_RemoveElement
  <2>5. tried \in Nat /\ code.attempts \in Nat  BY <2>1 DEF TypeInv, TypeOK, CodesTypeOK, Code
  <2>6. Cardinality(G) <= tried /\ tried <= code.attempts + Cardinality(G) /\ GuessLimit
    BY <1>3 DEF GuessInv
  <2> HIDE DEF G
  <2>7. /\ Cardinality(Guessers(req', code.code)) <= tried
        /\ tried <= code.attempts + 1 + Cardinality(Guessers(req', code.code))
    BY <2>4, <2>5, <2>6
  <2>8. code' # Null
    <3>1. code' \in Code  BY <2>1, <2>5 DEF Counted, Code
    <3> QED  BY <3>1, AccountsAssumption
  <2> QED  BY <1>1, <2>2, <2>6, <2>7, <2>8 DEF GuessInv, GuessLimit
<1> QED  BY <1>2, <1>3

LEMMA LoseGuessGuess ==
  ASSUME TypeInv, GuessInv, NEW r \in Slots, Lose(r)
  PROVE  GuessInv' /\ tried' \in Nat
<1> DEFINE G == Guessers(req, code.code)
<1>1. /\ code' = code /\ LoseGuess(r) /\ req' = [req EXCEPT ![r] = Idle] /\ tried \in Nat
      /\ code # Null => code.attempts \in Nat
  BY DEF Lose, AnswerDisturbed, TypeInv, TypeOK, CodesTypeOK, Code
<1>2. Guessers(req', code.code) = G \ {r}  BY <1>1 DEF Guessers, Idle, TypeInv, TypeOK
<1>3. Cardinality(G) \in Nat /\ Cardinality(Slots) \in Nat  BY GuessersCount
<1>4. CASE code # Null /\ r \in G
  <2>1. tried' = tried - 1  BY <1>1, <1>4 DEF LoseGuess, Guessers
  <2>2. Cardinality(Guessers(req', code.code)) = Cardinality(G) - 1 /\ Cardinality(G) - 1 \in Nat
    <3>1. Cardinality(Guessers(req', code.code)) = Cardinality(G) - 1
      <4>1. IsFiniteSet(G)  BY GuessersCount
      <4> HIDE DEF G
      <4> QED  BY <1>2, <1>4, <4>1, FS_RemoveElement
    <3>2. Cardinality(Guessers(req', code.code)) \in Nat  BY GuessersCount
    <3> QED  BY <3>1, <3>2
  <2>3. Cardinality(G) <= tried /\ tried <= code.attempts + Cardinality(G) /\ GuessLimit
    BY <1>4 DEF GuessInv
  <2> HIDE DEF G
  <2>4. /\ tried' \in Nat /\ Cardinality(Guessers(req', code.code)) <= tried'
        /\ tried' <= code.attempts + Cardinality(Guessers(req', code.code))
    BY <1>1, <1>3, <1>4, <2>1, <2>2, <2>3
  <2>5. GuessLimit'
    <3>1. tried <= MAX_ATTEMPTS + Cardinality(Slots) - 1 /\ MAX_ATTEMPTS \in Nat
      BY <2>3, CodesAssumption DEF GuessLimit
    <3>2. tried' <= MAX_ATTEMPTS + Cardinality(Slots) - 1  BY <1>1, <1>3, <2>1, <3>1
    <3> QED  BY <3>2 DEF GuessLimit
  <2> QED  BY <1>1, <1>4, <2>4, <2>5 DEF GuessInv
<1>5. CASE ~(code # Null /\ r \in G)
  <2>1. tried' = tried  BY <1>1, <1>5 DEF LoseGuess, Guessers
  <2>2. code # Null => Guessers(req', code.code) = G  BY <1>2, <1>5
  <2> QED  BY <1>1, <2>1, <2>2, GuessKept
<1> QED  BY <1>4, <1>5

LEMMA NextGuess ==
  ASSUME TypeInv, GuessInv, [Next]_vars
  PROVE  GuessInv'
<1>1. CASE UNCHANGED vars
  BY <1>1 DEF vars, codeVars, GuessInv, GuessLimit, Guessers
<1>2. ASSUME NEW r \in Slots, UNCHANGED <<code, tried>>, Uncounted(r),
             \A s \in Slots \ {r} : req'[s] = req[s]
      PROVE  GuessInv'
  BY <1>2, GuessersKept, GuessKept
<1>3. ASSUME NEW r \in Slots, Begin(r) \/ GoogleCallback(r) PROVE GuessInv'
  <2>1. UNCHANGED <<code, tried>>  BY <1>3 DEF Begin, GoogleCallback, codeVars
  <2>2. CASE UNCHANGED req  BY <2>1, <2>2, GuessKept
  <2>3. CASE ~UNCHANGED req
    <3>1. ASSUME NEW op, NEW s, NEW h, NEW l, s # "counting", Send(r, op, s, h, l)
          PROVE  GuessInv'
      <4>1. req[r].at = "idle" /\ req'[r].at = s /\ \A t \in Slots \ {r} : req'[t] = req[t]
        BY <3>1 DEF Send, TypeInv, TypeOK
      <4>2. Uncounted(r)  BY <3>1, <4>1 DEF Uncounted
      <4> QED  BY <1>2, <2>1, <4>1, <4>2
    <3>2. CASE Begin(r)
      BY <3>1, <3>2 DEF Begin, Signup, ResendVerification, VerifyEmail, ForgotPassword,
         ResetPassword, ChangePassword, SetPassword
    <3>3. CASE GoogleCallback(r)  BY <2>3, <3>1, <3>3 DEF GoogleCallback
    <3> QED  BY <1>3, <3>2, <3>3
  <2> QED  BY <2>2, <2>3
<1>4. ASSUME NEW r \in Slots,
             ResendCode(r) \/ MailCode(r) \/ (TokenStep(r) /\ UNCHANGED codeVars)
      PROVE  GuessInv'
  <2>1. UNCHANGED <<code, tried>>  BY <1>4 DEF ResendCode, MailCode, codeVars
  <2>2. req \in [Slots -> Request]  BY DEF TypeInv, TypeOK
  <2>3. \A s \in Slots \ {r} : req'[s] = req[s]
    BY <1>4, <2>2 DEF ResendCode, MailCode, TokenStep, RequestReset, IssueLink, MailLink, FindToken,
       DropToken, Goto, Hold, Answer, AnswerDisturbed
  <2>4. Uncounted(r)
    <3>1. CASE ResendCode(r) \/ RequestReset(r)
      BY <2>2, <3>1 DEF ResendCode, RequestReset, Goto, Answer, Idle, Uncounted, Request
    <3>5. CASE MailCode(r) \/ MailLink(r)
      <4>1. req' = [req EXCEPT ![r] = Idle] /\ req[r].at # "counting"
        BY <3>5 DEF MailCode, MailLink, Answer, AnswerDisturbed
      <4> QED  BY <2>2, <4>1 DEF Idle, Uncounted
    <3>2. CASE IssueLink(r)
      BY <2>2, <3>2 DEF IssueLink, Hold, Uncounted, Request
    <3>3. CASE FindToken(r)
      BY <2>2, <3>3 DEF FindToken, Answer, Idle, Uncounted, Request
    <3>4. CASE DropToken(r)
      BY <2>2, <3>4 DEF DropToken, Answer, Idle, Uncounted, Request
    <3> QED  BY <1>4, <3>1, <3>5, <3>2, <3>3, <3>4 DEF TokenStep
  <2> QED  BY <1>2, <2>1, <2>3, <2>4
<1>5. ASSUME NEW r \in Slots,
             \/ CreateUser(r) \/ MarkEmailVerified(r) \/ AdoptUser(r) \/ JoinUser(r)
             \/ SavePassword(r) \/ SetPasswordHash(r)
      PROVE  GuessInv'
  <2>1. UNCHANGED <<code, tried>>
    BY <1>5 DEF CreateUser, MarkEmailVerified, AdoptUser, JoinUser, SavePassword, SetPasswordHash, codeVars
  <2>2. Uncounted(r) /\ \A s \in Slots \ {r} : req'[s] = req[s]
    BY <1>5 DEF CreateUser, MarkEmailVerified, AdoptUser, JoinUser, SavePassword, SetPasswordHash,
       Goto, Answer, Idle, Uncounted, TypeInv, TypeOK, Request
  <2> QED  BY <1>2, <2>1, <2>2
<1>6. ASSUME NEW r \in Slots, DropCode(r) PROVE GuessInv'
  BY <1>6, GuessReset DEF DropCode
<1>7. CASE Login \/ Refresh \/ Logout \/ TokenExpires
  BY <1>7, GuessKept DEF Login, Refresh, Logout, TokenExpires, codeVars
<1>8. CASE Tick
  <2>1. code # Null => Aged(code) \in Code /\ Aged(code).code = code.code
                         /\ Aged(code).attempts = code.attempts
    <3>1. \A n \in Nat : Less(n) \in Nat  BY DEF Less
    <3>2. ASSUME NEW d \in Code, d # Null
          PROVE  Aged(d) \in Code /\ Aged(d).code = d.code /\ Aged(d).attempts = d.attempts
      BY <3>1, <3>2 DEF Aged, Code
    <3> QED  BY <3>2 DEF TypeInv, TypeOK, CodesTypeOK
  <2>2. code' = Null <=> code = Null  BY <1>8, <2>1, AccountsAssumption DEF Tick, Aged
  <2> QED  BY <1>8, <2>1, <2>2, GuessKept DEF Tick
<1>9. CASE Reap
  BY <1>9, GuessReset, GuessKept DEF Reap, ReapCode, ReapToken, codeVars
<1>10. ASSUME NEW r \in Slots, Handle(r) PROVE GuessInv'
  <2>1. CASE CodeStep(r)
    <3>1. CASE ResendCode(r) \/ MailCode(r)  BY <1>4, <3>1
    <3>2. CASE IssueCode(r)  BY <3>2, IssueGuess
    <3>3. CASE FindCode(r) \/ CountGuess(r)  BY <3>3, FindGuess, CountGuessGuess
    <3>4. CASE DropCode(r)  BY <1>6, <3>4
    <3> QED  BY <2>1, <3>1, <3>2, <3>3, <3>4 DEF CodeStep
  <2>2. CASE TokenStep(r) /\ UNCHANGED codeVars  BY <1>4, <2>2
  <2> QED  BY <1>5, <1>10, <2>1, <2>2 DEF Handle
<1> QED  BY <1>1, <1>3, <1>7, <1>8, <1>9, <1>10, LoseGuessGuess DEF Next

LEMMA InitGuess == Init => GuessInv
<1>1. Cardinality(Slots) \in Nat  BY GuessersCount
<1> QED  BY <1>1, CodesAssumption DEF Init, GuessInv, GuessLimit

LEMMA GuessStep == TypeInv /\ GuessInv /\ [Next]_vars => (TypeInv /\ GuessInv)'
<1> SUFFICES ASSUME TypeInv, GuessInv, [Next]_vars PROVE TypeInv' /\ GuessInv'  OBVIOUS
<1> QED  BY NextShape, NextGuess, LoseGuessGuess

\* Type correctness: the account, its code, its link and the requests about
\* them keep their types, whatever overlaps, dies or expires.
THEOREM AccountsTyped == Spec => []TypeOK
<1>1. Init => TypeInv /\ GuessInv  BY InitShape, InitGuess
<1>2. TypeInv => TypeOK  BY DEF TypeInv
<1> QED  BY <1>1, <1>2, GuessStep, PTL DEF Spec

\* However many requests are in flight, a code admits MAX_ATTEMPTS wrong guesses
\* and one more for each other request, although attempts is read before the
\* comparison and counted after it (email-verification.service.ts:115-126).
THEOREM GuessLimitHolds == Spec => []GuessLimit
<1>1. Init => TypeInv /\ GuessInv  BY InitShape, InitGuess
<1>2. GuessInv => GuessLimit  BY DEF GuessInv
<1> QED  BY <1>1, <1>2, GuessStep, PTL DEF Spec
-------------------------------------------------------------------------------
(***************************************************************************)
(* Sends.  The limit is checked on a copy of the record, so that each      *)
(* request that is about to issue a code may add one to it.                *)
(***************************************************************************)
Issuers(q) == {s \in Slots : q[s].at = "issuing"}
SendCount(d) == IF d = Null THEN 0 ELSE d.sends
SendInv == SendCount(code) + Cardinality(Issuers(req)) <= MAX_CODES + Cardinality(Slots) - 1

LEMMA IssuersCount ==
  ASSUME NEW q
  PROVE  /\ IsFiniteSet(Issuers(q))
         /\ Cardinality(Issuers(q)) \in Nat /\ Cardinality(Slots) \in Nat
         /\ Cardinality(Issuers(q)) <= Cardinality(Slots)
<1>1. Issuers(q) \in SUBSET Slots  BY DEF Issuers
<1> QED  BY <1>1, RequestsAssumption, FS_Subset, FS_CardinalityType

LEMMA SendsTyped ==
  ASSUME TypeInv
  PROVE  SendCount(code) \in Nat
BY DEF SendCount, TypeInv, TypeOK, CodesTypeOK, Code

\* A code sent no more often than the limit allows, or none.
LEMMA SendsFew ==
  ASSUME SendCount(code') \in Nat, SendCount(code') < MAX_CODES
  PROVE  SendInv'
<1>1. SendCount(code)' = SendCount(code')  BY DEF SendCount
<1>2. /\ Cardinality(Issuers(req')) \in Nat /\ Cardinality(Slots) \in Nat
      /\ Cardinality(Issuers(req')) <= Cardinality(Slots)
  BY IssuersCount
<1>3. SendCount(code') + Cardinality(Issuers(req')) <= MAX_CODES + Cardinality(Slots) - 1
  BY <1>2, CodesAssumption
<1> QED  BY <1>1, <1>3 DEF SendInv

\* Nobody comes to issue a code, and the record is not written.
LEMMA SendsKept ==
  ASSUME TypeInv, SendInv, SendCount(code') = SendCount(code), Issuers(req') \subseteq Issuers(req)
  PROVE  SendInv'
<1>1. SendCount(code)' = SendCount(code')  BY DEF SendCount
<1>2. Issuers(req') \in SUBSET Issuers(req)  OBVIOUS
<1>3. /\ Cardinality(Issuers(req)) \in Nat /\ Cardinality(Issuers(req')) \in Nat
      /\ Cardinality(Issuers(req')) <= Cardinality(Issuers(req)) /\ Cardinality(Slots) \in Nat
  BY <1>2, IssuersCount, FS_Subset
<1>4. SendCount(code') + Cardinality(Issuers(req')) <= MAX_CODES + Cardinality(Slots) - 1
  BY <1>3, SendsTyped, CodesAssumption DEF SendInv
<1> QED  BY <1>1, <1>4 DEF SendInv

LEMMA IssueSends ==
  ASSUME TypeInv, SendInv, NEW r \in Slots, IssueCode(r)
  PROVE  SendInv'
<1>1. PICK c \in Codes : code' = Issued(c) /\ Hold(r, "mailing code", c)  BY DEF IssueCode
<1>2. r \in Issuers(req) /\ Issuers(req') = Issuers(req) \ {r}
  <2>1. req[r].at = "issuing" /\ req' = [req EXCEPT ![r].at = "mailing code", ![r].holds = c]
    BY <1>1 DEF IssueCode, Hold
  <2>2. req'[r].at = "mailing code" /\ \A s \in Slots \ {r} : req'[s] = req[s]
    BY <2>1 DEF TypeInv, TypeOK, Request
  <2> QED  BY <2>1, <2>2 DEF Issuers
<1>3. Cardinality(Issuers(req')) = Cardinality(Issuers(req)) - 1
  <2>1. IsFiniteSet(Issuers(req))  BY IssuersCount
  <2> QED  BY <1>2, <2>1, FS_RemoveElement
<1>4. code' # Null
  <2>1. Issued(c) \in Code
    <3>1. code # Null => code.sends + 1 \in Nat  BY DEF TypeInv, TypeOK, CodesTypeOK, Code
    <3> QED  BY <3>1, CodesAssumption DEF Issued, Code
  <2> QED  BY <1>1, <2>1, AccountsAssumption
<1>5. SendCount(code') = SendCount(code) + 1
  <2>1. Issued(c).sends = SendCount(code) + 1
    <3>1. CASE code = Null  BY <3>1 DEF SendCount, Issued
    <3>2. CASE code # Null  BY <3>2 DEF SendCount, Issued
    <3> QED  BY <3>1, <3>2
  <2> QED  BY <1>1, <1>4, <2>1 DEF SendCount
<1>6. SendCount(code)' = SendCount(code')  BY DEF SendCount
<1>7. SendCount(code) \in Nat /\ Cardinality(Issuers(req)) \in Nat /\ Cardinality(Slots) \in Nat
  BY SendsTyped, IssuersCount
<1>8. SendCount(code') + Cardinality(Issuers(req')) <= MAX_CODES + Cardinality(Slots) - 1
  BY <1>3, <1>5, <1>7, CodesAssumption DEF SendInv
<1> QED  BY <1>6, <1>8 DEF SendInv

LEMMA NextSends ==
  ASSUME TypeInv, SendInv, [Next]_vars
  PROVE  SendInv'
<1> USE DEF SendCount
<1>a. req \in [Slots -> Request]  BY DEF TypeInv, TypeOK
<1>b. SendCount(Null) \in Nat /\ SendCount(Null) < MAX_CODES  BY CodesAssumption
<1>1. CASE UNCHANGED vars  BY <1>1, SendsKept DEF vars, codeVars
<1>2. ASSUME NEW r \in Slots, UNCHANGED code, req'[r].at # "issuing",
             \A s \in Slots \ {r} : req'[s] = req[s]
      PROVE  SendInv'
  <2>1. Issuers(req') \subseteq Issuers(req)  BY <1>2 DEF Issuers
  <2> QED  BY <1>2, <2>1, SendsKept
<1>3. ASSUME NEW r \in Slots, Begin(r) \/ GoogleCallback(r) PROVE SendInv'
  <2>1. UNCHANGED code  BY <1>3 DEF Begin, GoogleCallback, codeVars
  <2>2. CASE UNCHANGED req  BY <2>1, <2>2, SendsKept
  <2>3. ASSUME NEW op, NEW s, NEW h, NEW l, s # "issuing", Send(r, op, s, h, l)
        PROVE  SendInv'
    BY <1>2, <1>a, <2>1, <2>3 DEF Send
  <2>4. CASE Begin(r)
    BY <2>3, <2>4 DEF Begin, Signup, ResendVerification, VerifyEmail, ForgotPassword,
       ResetPassword, ChangePassword, SetPassword
  <2>5. CASE GoogleCallback(r)  BY <2>2, <2>3, <2>5 DEF GoogleCallback
  <2> QED  BY <1>3, <2>4, <2>5
<1>4. ASSUME NEW r \in Slots, ResendCode(r) PROVE SendInv'
  <2>1. CASE Limited(code, MAX_CODES)
    BY <1>2, <1>4, <1>a, <2>1 DEF ResendCode, Answer, Idle, codeVars
  <2>2. CASE ~Limited(code, MAX_CODES)
    <3>1. code' = code /\ SendCount(code) \in Nat  BY <1>4, SendsTyped DEF ResendCode, codeVars
    <3>2. SendCount(code) < MAX_CODES
      <4>1. CASE code = Null  BY <1>b, <4>1
      <4>2. CASE code # Null  BY <2>2, <3>1, <4>2, CodesAssumption DEF Limited
      <4> QED  BY <4>1, <4>2
    <3> QED  BY <3>1, <3>2, SendsFew
  <2> QED  BY <2>1, <2>2
<1>5. ASSUME NEW r \in Slots, MailCode(r) \/ FindCode(r) PROVE SendInv'
  <2>1. UNCHANGED code /\ \A s \in Slots \ {r} : req'[s] = req[s]
    BY <1>5, <1>a DEF MailCode, FindCode, Answer, AnswerDisturbed, Hold
  <2>2. req'[r].at # "issuing"
    <3>1. CASE MailCode(r)
      <4>1. req' = [req EXCEPT ![r] = Idle]  BY <3>1 DEF MailCode, Answer, AnswerDisturbed
      <4> QED  BY <1>a, <4>1 DEF Idle
    <3>2. CASE FindCode(r)
      BY <1>a, <3>2 DEF FindCode, Answer, Hold, Idle, Request
    <3> QED  BY <1>5, <3>1, <3>2
  <2> QED  BY <1>2, <2>1, <2>2
<1>6. ASSUME NEW r \in Slots, CountGuess(r) PROVE SendInv'
  <2>1. Issuers(req') \subseteq Issuers(req)
    BY <1>6, <1>a DEF CountGuess, Hold, Answer, Idle, Issuers, Request
  <2>2. SendCount(code') = SendCount(code)
    <3>1. CASE code = Null  BY <1>6, <3>1 DEF CountGuess
    <3>2. CASE code # Null
      <4>1. code' = Counted(code) /\ code \in Code
        BY <1>6, <3>2 DEF CountGuess, TypeInv, TypeOK, CodesTypeOK
      <4>2. code'.sends = code.sends /\ code' \in Code  BY <4>1 DEF Counted, Code
      <4> QED  BY <3>2, <4>2, AccountsAssumption
    <3> QED  BY <3>1, <3>2
  <2> QED  BY <2>1, <2>2, SendsKept
<1>7. ASSUME NEW r \in Slots, DropCode(r) PROVE SendInv'
  <2>1. code' = Null  BY <1>7 DEF DropCode
  <2> QED  BY <1>b, <2>1, SendsFew
<1>8. ASSUME NEW r \in Slots, TokenStep(r), UNCHANGED codeVars PROVE SendInv'
  <2>1. UNCHANGED code /\ \A s \in Slots \ {r} : req'[s] = req[s]
    BY <1>8, <1>a DEF TokenStep, RequestReset, IssueLink, MailLink, FindToken, DropToken,
       Goto, Hold, Answer, AnswerDisturbed, codeVars
  <2>2. req'[r].at # "issuing"
    <3>1. CASE RequestReset(r)
      BY <1>a, <3>1 DEF RequestReset, Goto, Answer, Idle, Request
    <3>2. CASE MailLink(r)
      <4>1. req' = [req EXCEPT ![r] = Idle]  BY <3>2 DEF MailLink, Answer, AnswerDisturbed
      <4> QED  BY <1>a, <4>1 DEF Idle
    <3>3. CASE IssueLink(r)  BY <1>a, <3>3 DEF IssueLink, Hold, Request
    <3>4. CASE FindToken(r)  BY <1>a, <3>4 DEF FindToken, Answer, Idle, Request
    <3>5. CASE DropToken(r)  BY <1>a, <3>5 DEF DropToken, Answer, Idle, Request
    <3> QED  BY <1>8, <3>1, <3>2, <3>3, <3>4, <3>5 DEF TokenStep
  <2> QED  BY <1>2, <2>1, <2>2
<1>9. ASSUME NEW r \in Slots, CreateUser(r) PROVE SendInv'
  <2>1. CASE user = Null
    <3>1. code' = Null  BY <1>9, <2>1 DEF CreateUser, codeVars, TypeInv, Shape
    <3> QED  BY <1>b, <3>1, SendsFew
  <2>2. CASE user # Null
    BY <1>2, <1>9, <1>a, <2>2 DEF CreateUser, Answer, Idle, codeVars
  <2> QED  BY <2>1, <2>2
<1>10. ASSUME NEW r \in Slots,
              \/ MarkEmailVerified(r) \/ AdoptUser(r) \/ JoinUser(r)
              \/ SavePassword(r) \/ SetPasswordHash(r) \/ Lose(r)
       PROVE  SendInv'
  <2>1. UNCHANGED code /\ req' = [req EXCEPT ![r] = Idle]
    BY <1>10 DEF MarkEmailVerified, AdoptUser, JoinUser, SavePassword, SetPasswordHash, Lose,
       Answer, AnswerDisturbed, codeVars
  <2> QED  BY <1>2, <1>a, <2>1 DEF Idle
<1>11. CASE Login \/ Refresh \/ Logout \/ TokenExpires
  BY <1>11, SendsKept DEF Login, Refresh, Logout, TokenExpires, codeVars
<1>12. CASE Tick
  <2>1. SendCount(code') = SendCount(code)
    <3>1. CASE code = Null  BY <1>12, <3>1 DEF Tick, Aged
    <3>2. CASE code # Null
      <4>1. code \in Code /\ code' = [code EXCEPT !.ttl = Less(code.ttl), !.cool = Less(code.cool)]
        BY <1>12, <3>2 DEF Tick, Aged, TypeInv, TypeOK, CodesTypeOK
      <4>2. \A n \in Nat : Less(n) \in Nat  BY DEF Less
      <4>3. code'.sends = code.sends /\ code' \in Code  BY <4>1, <4>2 DEF Code
      <4> QED  BY <3>2, <4>3, AccountsAssumption
    <3> QED  BY <3>1, <3>2
  <2> QED  BY <1>12, <2>1, SendsKept DEF Tick
<1>13. CASE Reap
  <2>1. CASE code' = Null  BY <1>b, <2>1, SendsFew
  <2>2. CASE UNCHANGED <<code, req>>  BY <2>2, SendsKept
  <2> QED  BY <1>13, <2>1, <2>2 DEF Reap, ReapCode, ReapToken, codeVars
<1>14. ASSUME NEW r \in Slots, CodeStep(r) PROVE SendInv'
  BY <1>4, <1>5, <1>6, <1>7, <1>14, IssueSends DEF CodeStep
<1>15. ASSUME NEW r \in Slots, Handle(r) PROVE SendInv'
  BY <1>8, <1>9, <1>10, <1>14, <1>15 DEF Handle
<1> QED  BY <1>1, <1>3, <1>10, <1>11, <1>12, <1>13, <1>15 DEF Next

\* However many requests are in flight, the codes mailed for an account exceed
\* MAX_SENDS by no more than the other requests (email-verification.service.ts:92, 66).
THEOREM CodeSendLimitHolds == Spec => []CodeSendLimit
<1>1. Init => TypeInv /\ GuessInv /\ SendInv
  <2>1. Init => SendCount(code) = 0 /\ Issuers(req) = {}  BY DEF Init, SendCount, Issuers, Idle
  <2>2. Cardinality(Slots) \in Nat /\ Cardinality({}) = 0  BY IssuersCount, FS_EmptySet
  <2>3. Init => SendInv  BY <2>1, <2>2, CodesAssumption DEF SendInv
  <2> QED  BY <2>3, InitShape, InitGuess
<1>2. TypeInv /\ GuessInv /\ SendInv /\ [Next]_vars => (TypeInv /\ GuessInv /\ SendInv)'
  BY GuessStep, NextSends
<1>3. TypeInv /\ SendInv => CodeSendLimit
  <2> SUFFICES ASSUME TypeInv, SendInv, code # Null
               PROVE  code.sends <= MAX_CODES + Cardinality(Slots) - 1
    BY DEF CodeSendLimit
  <2>1. SendCount(code) \in Nat /\ SendCount(code) = code.sends  BY SendsTyped DEF SendCount
  <2>2. Cardinality(Issuers(req)) \in Nat /\ Cardinality(Slots) \in Nat  BY IssuersCount
  <2> QED  BY <2>1, <2>2, CodesAssumption DEF SendInv
<1> QED  BY <1>1, <1>2, <1>3, PTL DEF Spec
-------------------------------------------------------------------------------
(***************************************************************************)
(* Sessions and the password of an unverified sign-up.                     *)
(***************************************************************************)
SessionInv == SessionsAreVerified /\ ClaimDropped

LEMMA NextSession ==
  ASSUME TypeInv, SessionInv, [Next]_vars
  PROVE  SessionInv'
<1> USE DEF SessionInv, SessionsAreVerified, ClaimDropped
<1>1. CASE UNCHANGED <<user, session, adopted>>  BY <1>1
<1>2. ASSUME NEW r \in Slots, GoogleCallback(r) PROVE SessionInv'
  BY <1>2 DEF GoogleCallback
<1>3. ASSUME NEW r \in Slots, CreateUser(r) PROVE SessionInv'
  BY <1>3 DEF CreateUser, TypeInv, Shape
<1>4. ASSUME NEW r \in Slots, AdoptUser(r) \/ JoinUser(r) PROVE SessionInv'
  <2>1. [password |-> Null, verified |-> TRUE] \in User  BY DEF User
  <2>2. [password |-> Null, verified |-> TRUE] # Null /\ Null # "claimed"
    BY <2>1, AccountsAssumption, RequestsAssumption
  <2>3. CASE UNCHANGED <<user, session, adopted>>  BY <1>1, <2>3
  <2>4. CASE user' = [password |-> Null, verified |-> TRUE]  BY <2>2, <2>4
  <2> QED  BY <1>4, <2>3, <2>4 DEF AdoptUser, JoinUser, Adopted
<1>5. ASSUME NEW r \in Slots, MarkEmailVerified(r) \/ SavePassword(r) \/ SetPasswordHash(r)
      PROVE  SessionInv'
  <2>1. user \in User
    BY <1>5 DEF MarkEmailVerified, SavePassword, SetPasswordHash, TypeInv, TypeOK, Shape, Fits
  <2>2. /\ [user EXCEPT !.verified = TRUE] \in User
        /\ [user EXCEPT !.password = "chosen"] \in User
    BY <2>1 DEF User
  <2>3. CASE MarkEmailVerified(r)
    BY <2>1, <2>2, <2>3, AccountsAssumption DEF MarkEmailVerified, User
  <2>4. CASE SavePassword(r) \/ SetPasswordHash(r)
    BY <2>1, <2>2, <2>4, AccountsAssumption DEF SavePassword, SetPasswordHash, User
  <2> QED  BY <1>5, <2>3, <2>4
<1>6. CASE Login \/ Refresh \/ Logout \/ TokenExpires
  BY <1>6 DEF Login, MayLogin, Protected, Refresh, Logout, TokenExpires
<1>7. ASSUME NEW r \in Slots, Begin(r) \/ Lose(r) PROVE SessionInv'
  BY <1>1, <1>7 DEF Begin, Lose
<1>8. ASSUME NEW r \in Slots, CodeStep(r) /\ UNCHANGED <<tokenVars, session, adopted>> PROVE SessionInv'
  BY <1>1, <1>8 DEF CodeStep, ResendCode, IssueCode, MailCode, FindCode, CountGuess, DropCode
<1>9. ASSUME NEW r \in Slots, TokenStep(r) /\ UNCHANGED <<codeVars, session, adopted>> PROVE SessionInv'
  BY <1>1, <1>9 DEF TokenStep, RequestReset, IssueLink, MailLink, FindToken, DropToken
<1>10. CASE Tick \/ Reap
  BY <1>1, <1>10 DEF Tick, Reap, ReapCode, ReapToken
<1>11. ASSUME NEW r \in Slots, Handle(r) PROVE SessionInv'
  BY <1>3, <1>4, <1>5, <1>8, <1>9, <1>11 DEF Handle
<1> QED  BY <1>1, <1>2, <1>6, <1>7, <1>10, <1>11 DEF Next, vars

LEMMA InitSession == Init => SessionInv
BY DEF Init, SessionInv, SessionsAreVerified, ClaimDropped

\* Tokens are held only where the account is verified, whichever way they were
\* issued and whatever was in flight (auth.service.ts:92-98, 160-163, 243-250).
THEOREM SessionsAreVerifiedHolds == Spec => []SessionsAreVerified
<1>1. Init => TypeInv /\ GuessInv /\ SessionInv  BY InitShape, InitGuess, InitSession
<1>2. TypeInv /\ GuessInv /\ SessionInv /\ [Next]_vars => (TypeInv /\ GuessInv /\ SessionInv)'
  BY GuessStep, NextSession
<1>3. SessionInv => SessionsAreVerified  BY DEF SessionInv
<1> QED  BY <1>1, <1>2, <1>3, PTL DEF Spec

\* The password of a sign-up that Google's attestation took over never comes back.
THEOREM ClaimDroppedHolds == Spec => []ClaimDropped
<1>1. Init => TypeInv /\ GuessInv /\ SessionInv  BY InitShape, InitGuess, InitSession
<1>2. TypeInv /\ GuessInv /\ SessionInv /\ [Next]_vars => (TypeInv /\ GuessInv /\ SessionInv)'
  BY GuessStep, NextSession
<1>3. SessionInv => ClaimDropped  BY DEF SessionInv
<1> QED  BY <1>1, <1>2, <1>3, PTL DEF Spec
-------------------------------------------------------------------------------
(***************************************************************************)
(* Reset links.  The stored token is not the one that was used last.  A    *)
(* request sent with a used link finds no document; one that has found it  *)
(* knows the only _id under which its token is stored, and leaves no       *)
(* document with that token when it sets the password.                     *)
(***************************************************************************)
SpentInv ==
  /\ token # Null => token.token # spent
  /\ \A s \in Slots :
       /\ req[s].late => req[s].at = "redeeming"
       /\ (req[s].late \/ req[s].at = "resetting") /\ token # Null => token.token # req[s].holds
       /\ req[s].at = "spending" /\ token # Null /\ token.token = req[s].holds => token.id = req[s].id

\* Nothing is found, found out or used by a step that ends requests, or moves
\* those that were sent with no used link and are not about to set a password.
LEMMA SpentKept ==
  ASSUME SpentInv, spent' = spent,
         token' # Null => token # Null /\ token'.token = token.token /\ token'.id = token.id,
         \A s \in Slots : \/ req'[s] = req[s]
                          \/ ~req'[s].late /\ req'[s].at \notin {"resetting", "spending"}
  PROVE  SpentInv'
BY DEF SpentInv

LEMMA Moves ==
  ASSUME TypeInv, SpentInv, NEW r \in Slots, req[r].at # "redeeming",
         \/ req' = [req EXCEPT ![r] = Idle]
         \/ \E s \in Stages \ {"resetting", "spending"} : \E h :
              req' = [req EXCEPT ![r].at = s] \/ req' = [req EXCEPT ![r].at = s, ![r].holds = h]
  PROVE  \A t \in Slots : \/ req'[t] = req[t]
                          \/ ~req'[t].late /\ req'[t].at \notin {"resetting", "spending"}
<1>1. req \in [Slots -> Request] /\ ~req[r].late  BY DEF TypeInv, TypeOK, SpentInv, Request
<1>2. CASE req' = [req EXCEPT ![r] = Idle]  BY <1>1, <1>2 DEF Idle
<1>3. ASSUME NEW s \in Stages \ {"resetting", "spending"}, NEW h,
             req' = [req EXCEPT ![r].at = s] \/ req' = [req EXCEPT ![r].at = s, ![r].holds = h]
      PROVE  \A t \in Slots : \/ req'[t] = req[t]
                              \/ ~req'[t].late /\ req'[t].at \notin {"resetting", "spending"}
  <2>1. req'[r].at = s /\ req'[r].late = req[r].late /\ \A t \in Slots \ {r} : req'[t] = req[t]
    BY <1>1, <1>3 DEF Request
  <2> QED  BY <1>1, <2>1
<1> QED  BY <1>2, <1>3

LEMMA SentSpent ==
  ASSUME TypeInv, SpentInv, NEW r \in Slots, Begin(r) \/ GoogleCallback(r)
  PROVE  SpentInv'
<1>1. UNCHANGED tokenVars /\ req \in [Slots -> Request]
  BY DEF Begin, GoogleCallback, TypeInv, TypeOK
<1>2. CASE UNCHANGED req  BY <1>1, <1>2, SpentKept DEF tokenVars
<1>3. ASSUME NEW op, NEW s, s \notin {"resetting", "spending"}, NEW h, Send(r, op, s, h, FALSE)
      PROVE  SpentInv'
  <2>1. \A t \in Slots : \/ req'[t] = req[t]
                         \/ ~req'[t].late /\ req'[t].at \notin {"resetting", "spending"}
    BY <1>1, <1>3 DEF Send
  <2> QED  BY <1>1, <2>1, SpentKept DEF tokenVars
<1>4. CASE ResetPassword(r)
  <2>1. /\ req'[r].at = "redeeming" /\ req'[r].holds = link /\ req'[r].late = (link = spent)
        /\ \A t \in Slots \ {r} : req'[t] = req[t]
    BY <1>1, <1>4 DEF ResetPassword, Send
  <2> QED  BY <1>1, <2>1 DEF SpentInv, tokenVars
<1>5. CASE VerifyEmail(r)  BY <1>3, <1>5 DEF VerifyEmail
<1>6. CASE Signup(r) \/ ResendVerification(r) \/ ForgotPassword(r) \/ ChangePassword(r) \/ SetPassword(r)
  BY <1>3, <1>6 DEF Signup, ResendVerification, ForgotPassword, ChangePassword, SetPassword
<1>7. CASE GoogleCallback(r)  BY <1>2, <1>3, <1>7 DEF GoogleCallback
<1> QED  BY <1>4, <1>5, <1>6, <1>7 DEF Begin

LEMMA CodeSpent ==
  ASSUME TypeInv, SpentInv, NEW r \in Slots, CodeStep(r), UNCHANGED tokenVars
  PROVE  SpentInv'
<1>1. /\ req[r].at # "redeeming"
      /\ \/ req' = [req EXCEPT ![r] = Idle]
         \/ \E s \in Stages \ {"resetting", "spending"} : \E h :
              req' = [req EXCEPT ![r].at = s] \/ req' = [req EXCEPT ![r].at = s, ![r].holds = h]
  <2> USE DEF Goto, Hold, Answer, AnswerDisturbed, Stages
  <2>1. CASE ResendCode(r)  BY <2>1 DEF ResendCode
  <2>2. CASE IssueCode(r)  BY <2>2 DEF IssueCode
  <2>3. CASE MailCode(r)  BY <2>3 DEF MailCode
  <2>4. CASE FindCode(r)  BY <2>4 DEF FindCode
  <2>5. CASE CountGuess(r)  BY <2>5 DEF CountGuess
  <2>6. CASE DropCode(r)  BY <2>6 DEF DropCode
  <2> QED  BY <2>1, <2>2, <2>3, <2>4, <2>5, <2>6 DEF CodeStep
<1> QED  BY <1>1, Moves, SpentKept DEF tokenVars

LEMMA TokenSpent ==
  ASSUME TypeInv, SpentInv, NEW r \in Slots, TokenStep(r)
  PROVE  SpentInv'
<1>0. req \in [Slots -> Request] /\ token \in Token \cup {Null} /\ link \in Tokens \cup {Null}
  BY DEF TypeInv, TypeOK, TokensTypeOK
<1>1. CASE RequestReset(r) \/ MailLink(r)
  <2>1. /\ req[r].at # "redeeming" /\ spent' = spent /\ token' = token
        /\ \/ req' = [req EXCEPT ![r] = Idle]
           \/ req' = [req EXCEPT ![r].at = "linking"]
    BY <1>1 DEF RequestReset, MailLink, Goto, Answer, AnswerDisturbed, tokenVars
  <2>2. "linking" \in Stages \ {"resetting", "spending"}  BY DEF Stages
  <2> QED  BY <2>1, <2>2, Moves, SpentKept
\* A new token is neither the one used last nor one that a request holds.
<1>2. CASE IssueLink(r)
  <2>1. PICK t \in Tokens :
          t \notin KnownTokens /\ token' = IssuedLink(t) /\ Hold(r, "mailing link", t)
    BY <1>2 DEF IssueLink, IsNew
  <2>2. /\ spent' = spent /\ req[r].at = "linking"
        /\ req' = [req EXCEPT ![r].at = "mailing link", ![r].holds = t]
    BY <1>2, <2>1 DEF IssueLink, Hold
  <2>3. /\ req'[r].at = "mailing link" /\ req'[r].late = req[r].late
        /\ \A s \in Slots \ {r} : req'[s] = req[s]
    BY <1>0, <2>2 DEF Request
  <2>4. token'.token = t  BY <2>1 DEF IssuedLink
  <2>5. t # spent /\ \A s \in Slots : t # req[s].holds
    <3>1. ASSUME NEW s \in Slots PROVE req[s].holds \in KnownTokens
      <4>1. {req[s].holds, req[s].id} \in {{req[x].holds, req[x].id} : x \in Slots}  OBVIOUS
      <4>2. req[s].holds \in UNION {{req[x].holds, req[x].id} : x \in Slots}  BY <4>1
      <4> QED  BY <4>2 DEF KnownTokens
    <3>2. spent \in KnownTokens  BY DEF KnownTokens
    <3> QED  BY <2>1, <3>1, <3>2
  <2>6. ~req[r].late  BY <1>0, <2>2 DEF SpentInv, Request
  <2> QED  BY <2>2, <2>3, <2>4, <2>5, <2>6 DEF SpentInv
<1>3. CASE FindToken(r)
  <2>1. UNCHANGED tokenVars /\ req[r].at = "redeeming"  BY <1>3 DEF FindToken
  <2>2. CASE token = Null \/ token.token # req[r].holds
    <3>1. req' = [req EXCEPT ![r] = Idle]  BY <1>3, <2>2 DEF FindToken, Answer
    <3>2. \A t \in Slots : \/ req'[t] = req[t]
                           \/ ~req'[t].late /\ req'[t].at \notin {"resetting", "spending"}
      BY <1>0, <3>1 DEF Idle
    <3> QED  BY <2>1, <3>2, SpentKept DEF tokenVars
  <2>3. CASE token # Null /\ token.token = req[r].holds
    <3>1. req' = [req EXCEPT ![r].id = token.id,
                             ![r].at = IF Expired(token) THEN "dropping" ELSE "spending"]
      BY <1>3, <2>3 DEF FindToken
    <3>2. /\ req'[r].at \in {"dropping", "spending"} /\ req'[r].id = token.id
          /\ req'[r].late = req[r].late /\ \A s \in Slots \ {r} : req'[s] = req[s]
      BY <1>0, <3>1 DEF Request
    <3>3. ~req[r].late  BY <1>0, <2>3 DEF SpentInv, Request
    <3> QED  BY <2>1, <3>2, <3>3 DEF SpentInv, tokenVars
  <2> QED  BY <2>2, <2>3
<1>4. CASE DropToken(r)
  <2>1. spent' = spent /\ token' = Remaining(r) /\ req[r].at \in {"dropping", "spending"}
    BY <1>4 DEF DropToken
  <2>2. /\ token' # Null => token' = token
        /\ token' # Null => token.id # req[r].id
    BY <2>1 DEF Remaining
  <2>3. CASE req' = [req EXCEPT ![r] = Idle]
    BY <2>1, <2>2, <2>3, Moves, SpentKept
  <2>4. CASE req[r].at = "spending" /\ req' = [req EXCEPT ![r].at = "resetting", ![r].id = Null]
    <3>1. /\ req'[r].at = "resetting" /\ req'[r].holds = req[r].holds /\ req'[r].late = req[r].late
          /\ \A s \in Slots \ {r} : req'[s] = req[s]
      BY <1>0, <2>4 DEF Request
    <3>2. ~req[r].late /\ (token' # Null => token'.token # req[r].holds)
      BY <1>0, <2>2, <2>4 DEF SpentInv, Request
    <3> QED  BY <2>1, <2>2, <3>1, <3>2 DEF SpentInv
  <2> QED  BY <1>4, <2>3, <2>4 DEF DropToken, Answer
<1> QED  BY <1>1, <1>2, <1>3, <1>4 DEF TokenStep

\* Time and the TTL index change neither the token nor the _id of a document.
LEMMA ClockKeeps ==
  ASSUME TypeInv, Tick \/ Reap
  PROVE  /\ token' # Null => token # Null /\ token'.token = token.token /\ token'.id = token.id
         /\ code' # Null => code # Null /\ code'.code = code.code
<1>1. CASE Tick
  <2>1. token' = Aged(token) /\ code' = Aged(code)  BY <1>1 DEF Tick
  <2>2. token # Null => token'.token = token.token /\ token'.id = token.id
    BY <2>1 DEF Aged, TypeInv, TypeOK, TokensTypeOK, Token
  <2>3. code # Null => code'.code = code.code
    BY <2>1 DEF Aged, TypeInv, TypeOK, CodesTypeOK, Code
  <2> QED  BY <2>1, <2>2, <2>3 DEF Aged
<1>2. CASE Reap  BY <1>2 DEF Reap, ReapCode, ReapToken, codeVars, tokenVars
<1> QED  BY <1>1, <1>2

LEMMA NextSpent ==
  ASSUME TypeInv, SpentInv, [Next]_vars
  PROVE  SpentInv'
<1>1. CASE UNCHANGED <<req, tokenVars>>  BY <1>1, SpentKept DEF tokenVars
<1>2. CASE Login \/ Refresh \/ Logout \/ TokenExpires
  BY <1>1, <1>2 DEF Login, Refresh, Logout, TokenExpires
<1>3. CASE Tick \/ Reap
  <2>1. UNCHANGED <<req, spent>>
    BY <1>3 DEF Tick, Reap, ReapCode, ReapToken, tokenVars
  <2> QED  BY <1>3, <2>1, ClockKeeps, SpentKept
<1>4. ASSUME NEW r \in Slots,
             CreateUser(r) \/ MarkEmailVerified(r) \/ AdoptUser(r) \/ JoinUser(r) \/ SavePassword(r)
      PROVE  SpentInv'
  <2>1. /\ UNCHANGED tokenVars /\ req[r].at # "redeeming"
        /\ req' = [req EXCEPT ![r] = Idle] \/ req' = [req EXCEPT ![r].at = "issuing"]
    BY <1>4 DEF CreateUser, MarkEmailVerified, AdoptUser, JoinUser, SavePassword, Answer, Goto
  <2>2. "issuing" \in Stages \ {"resetting", "spending"}  BY DEF Stages
  <2> QED  BY <2>1, <2>2, Moves, SpentKept DEF tokenVars
\* A password is set: no document has that token, and no request sent later finds one.
<1>5. ASSUME NEW r \in Slots, SetPasswordHash(r) PROVE SpentInv'
  <2>1. /\ spent' = req[r].holds /\ token' = token /\ req[r].at = "resetting"
        /\ req' = [req EXCEPT ![r] = Idle]
    BY <1>5 DEF SetPasswordHash, Answer
  <2>2. ~req'[r].late /\ req'[r].at = "idle" /\ \A s \in Slots \ {r} : req'[s] = req[s]
    BY <2>1 DEF Idle, TypeInv, TypeOK
  <2> QED  BY <2>1, <2>2 DEF SpentInv
<1>6. ASSUME NEW r \in Slots, Lose(r) PROVE SpentInv'
  <2>1. UNCHANGED tokenVars /\ req' = [req EXCEPT ![r] = Idle]  BY <1>6 DEF Lose, AnswerDisturbed
  <2>2. \A s \in Slots : \/ req'[s] = req[s]
                         \/ ~req'[s].late /\ req'[s].at \notin {"resetting", "spending"}
    BY <2>1 DEF Idle, TypeInv, TypeOK
  <2> QED  BY <2>1, <2>2, SpentKept DEF tokenVars
<1>7. ASSUME NEW r \in Slots, Handle(r) PROVE SpentInv'
  BY <1>4, <1>5, <1>7, CodeSpent, TokenSpent DEF Handle
<1> QED  BY <1>1, <1>2, <1>3, <1>6, <1>7, SentSpent DEF Next, vars

\* A used reset link sets no password again, however requests for new links,
\* expiries and deaths come between (password-reset.service.ts:93-113).
THEOREM SpentLinkRefusedHolds == Spec => []SpentLinkRefused
<1>1. Init => TypeInv /\ GuessInv /\ SpentInv
  <2>1. Init => SpentInv  BY DEF Init, SpentInv, Idle
  <2> QED  BY <2>1, InitShape, InitGuess
<1>2. TypeInv /\ GuessInv /\ SpentInv /\ [Next]_vars => (TypeInv /\ GuessInv /\ SpentInv)'
  BY GuessStep, NextSpent
<1>3. SpentInv => SpentLinkRefused  BY DEF SpentInv, SpentLinkRefused
<1> QED  BY <1>1, <1>2, <1>3, PTL DEF Spec
-------------------------------------------------------------------------------
(***************************************************************************)
(* Requests that do not overlap, die or fail to send mail.  One is in      *)
(* flight at most; what is stored is in the newest mail, or in the one     *)
(* about to be sent; only an unverified account is being adopted.          *)
(***************************************************************************)
CodeMailed(q) == code # Null => code.code = IF q.at = "mailing code" THEN q.holds ELSE inbox
LinkMailed(q) == token # Null => token.token = IF q.at = "mailing link" THEN q.holds ELSE link
InOrder(q) ==
  /\ CodeMailed(q) /\ LinkMailed(q)
  /\ q.at = "adopting" => ~user.verified

SerialInv ==
  ~disturbed =>
    /\ \A r, s \in Slots : req[r].at # "idle" /\ req[s].at # "idle" => r = s
    /\ \A r \in Slots : req[r].at # "idle" => InOrder(req[r])
    /\ (\A r \in Slots : req[r].at = "idle") => InOrder(Idle)

\* The request whose turn it is, when the others are answered.
LEMMA AloneInOrder ==
  ASSUME SerialInv, ~disturbed, NEW r \in Slots, \A s \in Slots \ {r} : req[s].at = "idle"
  PROVE  InOrder(req[r])
<1>1. CASE req[r].at = "idle"
  <2>1. InOrder(Idle)  BY <1>1 DEF SerialInv
  <2> QED  BY <1>1, <2>1 DEF InOrder, CodeMailed, LinkMailed, Idle
<1>2. CASE req[r].at # "idle"  BY <1>2 DEF SerialInv
<1> QED  BY <1>1, <1>2

LEMMA StillInOrder ==
  ASSUME NEW r \in Slots, \A s \in Slots \ {r} : req'[s].at = "idle", (InOrder(req[r]))'
  PROVE  SerialInv'
<1>1. ASSUME req'[r].at = "idle" PROVE InOrder(Idle)'
  BY <1>1 DEF InOrder, CodeMailed, LinkMailed, Idle
<1> QED  BY <1>1 DEF SerialInv

\* A request is in flight alone.
Alone(r) ==
  /\ ~disturbed /\ \A s \in Slots \ {r} : req[s].at = "idle" /\ req'[s] = req[s]

Others(r) == \A t \in Slots \ {r} : req'[t] = req[t]
Now(r, s) == req'[r].at = s /\ Others(r)

LEMMA MovesOn ==
  ASSUME TypeInv, NEW r \in Slots
  PROVE  /\ \A s : Goto(r, s) => Now(r, s) /\ disturbed' = disturbed
         /\ \A s, h : Hold(r, s, h) => Now(r, s) /\ req'[r].holds = h /\ disturbed' = disturbed
         /\ Answer(r) => Now(r, "idle") /\ disturbed' = disturbed
         /\ AnswerDisturbed(r) => Now(r, "idle") /\ disturbed' = TRUE
<1>1. req \in [Slots -> Request]  BY DEF TypeInv, TypeOK
<1>2. ASSUME NEW s, Goto(r, s) PROVE Now(r, s) /\ disturbed' = disturbed
  BY <1>1, <1>2 DEF Goto, Now, Others, Request
<1>3. ASSUME NEW s, NEW h, Hold(r, s, h)
      PROVE  Now(r, s) /\ req'[r].holds = h /\ disturbed' = disturbed
  BY <1>1, <1>3 DEF Hold, Now, Others, Request
<1>4. ASSUME req' = [req EXCEPT ![r] = Idle] PROVE Now(r, "idle")
  BY <1>1, <1>4 DEF Now, Others, Idle
<1> QED  BY <1>2, <1>3, <1>4 DEF Answer, AnswerDisturbed

LEMMA SentAlone ==
  ASSUME TypeInv, SerialInv, NEW r \in Slots, Begin(r) \/ GoogleCallback(r), ~disturbed'
  PROVE  SerialInv'
<1>1. UNCHANGED <<user, code, inbox, token, link>> /\ req \in [Slots -> Request]
  BY DEF Begin, GoogleCallback, codeVars, tokenVars, TypeInv, TypeOK
<1>2. CASE UNCHANGED <<req, disturbed>>
  BY <1>1, <1>2 DEF SerialInv, InOrder, CodeMailed, LinkMailed
<1>3. ASSUME NEW op, NEW s, NEW h, NEW l, Send(r, op, s, h, l),
             s \notin {"mailing code", "mailing link"}, s # "adopting" \/ ~user.verified
      PROVE  SerialInv'
  <2>1. /\ Alone(r) /\ req[r].at = "idle" /\ req'[r].at = s
    BY <1>1, <1>3 DEF Send, Alone
  <2>2. InOrder(req[r])  BY <2>1, AloneInOrder DEF Alone
  <2>3. (InOrder(req[r]))'
    BY <1>1, <1>3, <2>1, <2>2 DEF InOrder, CodeMailed, LinkMailed
  <2>4. \A t \in Slots \ {r} : req'[t].at = "idle"  BY <2>1 DEF Alone
  <2> QED  BY <2>3, <2>4, StillInOrder
<1>4. ASSUME NEW op, NEW s \in {"creating", "resending", "finding", "requesting", "redeeming", "saving",
                                "joining"},
             NEW h, NEW l, Send(r, op, s, h, l)
      PROVE  SerialInv'
  BY <1>3, <1>4
<1>5. CASE VerifyEmail(r)  BY <1>4, <1>5 DEF VerifyEmail
<1>6. CASE Signup(r) \/ ResendVerification(r) \/ ForgotPassword(r) \/ ChangePassword(r) \/ SetPassword(r)
           \/ ResetPassword(r)
  BY <1>4, <1>6
     DEF Signup, ResendVerification, ForgotPassword, ChangePassword, SetPassword, ResetPassword
<1>7. CASE GoogleCallback(r)
  <2>1. ~user.verified /\ Send(r, "google", "adopting", Null, FALSE) => SerialInv'
    <3>1. ASSUME ~user.verified, Send(r, "google", "adopting", Null, FALSE) PROVE SerialInv'
      <4> "adopting" \notin {"mailing code", "mailing link"}  OBVIOUS
      <4> QED  BY <1>3, <3>1
    <3> QED  BY <3>1
  <2>2. Send(r, "google", "joining", Null, FALSE) => SerialInv'  BY <1>4
  <2> QED  BY <1>2, <1>7, <2>1, <2>2 DEF GoogleCallback, Unverified
<1> QED  BY <1>5, <1>6, <1>7 DEF Begin

LEMMA CodeAlone ==
  ASSUME TypeInv, NEW r \in Slots, CodeStep(r), UNCHANGED tokenVars, InOrder(req[r]), ~disturbed'
  PROVE  (InOrder(req[r]))'
<1>0. req \in [Slots -> Request]  BY DEF TypeInv, TypeOK
<1>a. /\ \A s : Goto(r, s) => req'[r].at = s
      /\ \A s, h : Hold(r, s, h) => req'[r].at = s /\ req'[r].holds = h
      /\ Answer(r) => req'[r].at = "idle"
      /\ ~AnswerDisturbed(r)
  BY MovesOn DEF Now, AnswerDisturbed
<1>1. /\ UNCHANGED <<user, token, link>>
      /\ req[r].at \notin {"mailing link", "adopting"} /\ req'[r].at \notin {"mailing link", "adopting"}
  <2>1. CASE ResendCode(r)  BY <1>a, <2>1 DEF ResendCode, tokenVars
  <2>2. CASE IssueCode(r)
    <3>1. PICK c \in Codes : Hold(r, "mailing code", c)  BY <2>2 DEF IssueCode
    <3>2. req'[r].at = "mailing code"  BY <1>a, <3>1
    <3> QED  BY <2>2, <3>2 DEF IssueCode, tokenVars
  <2>3. CASE MailCode(r)  BY <1>a, <2>3 DEF MailCode, tokenVars
  <2>4. CASE FindCode(r)
    <3>1. req'[r].at \in {"idle", "discarding", "consuming", "counting"}  BY <1>a, <2>4 DEF FindCode
    <3> QED  BY <2>4, <3>1 DEF FindCode, tokenVars
  <2>5. CASE CountGuess(r)
    <3>1. req'[r].at \in {"idle", "discarding"}  BY <1>a, <2>5 DEF CountGuess
    <3> QED  BY <2>5, <3>1 DEF CountGuess, tokenVars
  <2>6. CASE DropCode(r)  BY <1>a, <2>6 DEF DropCode, tokenVars
  <2> QED  BY <2>1, <2>2, <2>3, <2>4, <2>5, <2>6 DEF CodeStep
<1>2. (CodeMailed(req[r]))'
  <2> USE DEF InOrder, CodeMailed
  <2>1. CASE ResendCode(r)
    <3>1. UNCHANGED <<code, inbox>> /\ req[r].at = "resending" /\ req'[r].at \in {"idle", "issuing"}
      BY <1>a, <2>1 DEF ResendCode, codeVars
    <3> QED  BY <3>1
  <2>2. CASE IssueCode(r)
    <3>1. PICK c \in Codes : code' = Issued(c) /\ Hold(r, "mailing code", c)  BY <2>2 DEF IssueCode
    <3>2. req'[r].at = "mailing code" /\ req'[r].holds = c  BY <1>a, <3>1
    <3>3. code'.code = c  BY <3>1 DEF Issued
    <3> QED  BY <3>2, <3>3
  <2>3. CASE MailCode(r)
    <3>1. req[r].at = "mailing code" /\ code' = code /\ inbox' = req[r].holds /\ req'[r].at = "idle"
      BY <1>a, <2>3 DEF MailCode
    <3> QED  BY <3>1
  <2>4. CASE FindCode(r)
    <3>1. /\ UNCHANGED <<code, inbox>> /\ req[r].at = "finding"
          /\ req'[r].at \in {"idle", "discarding", "consuming", "counting"}
      BY <1>a, <2>4 DEF FindCode
    <3> QED  BY <3>1
  <2>5. CASE CountGuess(r)
    <3>1. inbox' = inbox /\ req[r].at = "counting" /\ req'[r].at \in {"idle", "discarding"}
      BY <1>a, <2>5 DEF CountGuess
    <3>2. code' # Null => code # Null /\ code'.code = code.code
      BY <2>5 DEF CountGuess, Counted, TypeInv, TypeOK, CodesTypeOK, Code
    <3> QED  BY <3>1, <3>2
  <2>6. CASE DropCode(r)  BY <2>6 DEF DropCode
  <2> QED  BY <2>1, <2>2, <2>3, <2>4, <2>5, <2>6 DEF CodeStep
<1> QED  BY <1>1, <1>2 DEF InOrder, LinkMailed

LEMMA TokenAlone ==
  ASSUME TypeInv, NEW r \in Slots, TokenStep(r), UNCHANGED codeVars, InOrder(req[r]), ~disturbed'
  PROVE  (InOrder(req[r]))'
<1>0. req \in [Slots -> Request]  BY DEF TypeInv, TypeOK
<1> USE MovesOn DEF Now
<1>1. CASE FindToken(r)
  <2>1. req' = [req EXCEPT ![r].id = token.id, ![r].at = IF Expired(token) THEN "dropping" ELSE "spending"]
          => req'[r].at \in {"dropping", "spending"}
    BY <1>0 DEF Request
  <2>2. /\ UNCHANGED <<user, code, inbox, token, link>> /\ req[r].at = "redeeming"
        /\ req'[r].at \in {"idle", "dropping", "spending"}
    BY <1>1, <2>1 DEF FindToken, codeVars, tokenVars
  <2> QED  BY <2>2 DEF InOrder, CodeMailed, LinkMailed
<1>2. CASE DropToken(r)
  <2>1. req' = [req EXCEPT ![r].at = "resetting", ![r].id = Null] => req'[r].at = "resetting"
    BY <1>0 DEF Request
  <2>2. /\ UNCHANGED <<user, code, inbox, link>> /\ req[r].at \in {"dropping", "spending"}
        /\ req'[r].at \in {"idle", "resetting"}
    BY <1>2, <2>1 DEF DropToken, codeVars
  <2>3. token' # Null => token' = token  BY <1>2 DEF DropToken, Remaining
  <2> QED  BY <2>2, <2>3 DEF InOrder, CodeMailed, LinkMailed
<1>3. CASE RequestReset(r)
  <2>1. /\ UNCHANGED <<user, code, inbox, token, link>> /\ req[r].at = "requesting"
        /\ req'[r].at \in {"idle", "linking"}
    BY <1>3 DEF RequestReset, codeVars, tokenVars
  <2> QED  BY <2>1 DEF InOrder, CodeMailed, LinkMailed
<1>4. CASE IssueLink(r)
  <2>1. PICK t \in Tokens : token' = IssuedLink(t) /\ Hold(r, "mailing link", t)  BY <1>4 DEF IssueLink
  <2>2. req'[r].at = "mailing link" /\ req'[r].holds = t /\ token'.token = t
    BY <2>1 DEF IssuedLink
  <2>3. UNCHANGED <<user, code, inbox>> /\ req[r].at = "linking"  BY <1>4 DEF IssueLink, codeVars
  <2> QED  BY <2>2, <2>3 DEF InOrder, CodeMailed, LinkMailed
<1>5. CASE MailLink(r)
  <2>1. /\ req[r].at = "mailing link" /\ token' = token /\ link' = req[r].holds /\ req'[r].at = "idle"
        /\ UNCHANGED <<user, code, inbox>>
    BY <1>5 DEF MailLink, codeVars
  <2> QED  BY <2>1 DEF InOrder, CodeMailed, LinkMailed
<1> QED  BY <1>1, <1>2, <1>3, <1>4, <1>5 DEF TokenStep

LEMMA HandledAlone ==
  ASSUME TypeInv, SerialInv, NEW r \in Slots, Handle(r), ~disturbed'
  PROVE  SerialInv'
<1>0. req \in [Slots -> Request]  BY DEF TypeInv, TypeOK
<1>a. /\ \A s : Goto(r, s) => disturbed' = disturbed /\ Others(r)
      /\ \A s, h : Hold(r, s, h) => disturbed' = disturbed /\ Others(r)
      /\ Answer(r) => disturbed' = disturbed /\ Others(r)
      /\ ~AnswerDisturbed(r)
  BY MovesOn DEF Now, Others, AnswerDisturbed
<1>1. ~disturbed /\ req[r].at # "idle" /\ Others(r)
  <2>1. CASE CodeStep(r)
    <3>1. CASE ResendCode(r)  BY <1>a, <3>1 DEF ResendCode
    <3>2. CASE MailCode(r)
      <4>1. Answer(r)  BY <1>a, <3>2 DEF MailCode
      <4>2. disturbed' = disturbed /\ Others(r)  BY <1>a, <4>1
      <4>3. req[r].at # "idle"  BY <3>2 DEF MailCode
      <4> QED  BY <4>2, <4>3
    <3>3. CASE IssueCode(r)
      <4>1. PICK c \in Codes : Hold(r, "mailing code", c)  BY <3>3 DEF IssueCode
      <4>2. disturbed' = disturbed /\ Others(r)  BY <1>a, <4>1
      <4>3. req[r].at # "idle"  BY <3>3 DEF IssueCode
      <4> QED  BY <4>2, <4>3
    <3>4. CASE FindCode(r)  BY <1>a, <3>4 DEF FindCode
    <3>5. CASE CountGuess(r) \/ DropCode(r)  BY <1>a, <3>5 DEF CountGuess, DropCode
    <3> QED  BY <2>1, <3>1, <3>2, <3>3, <3>4, <3>5 DEF CodeStep
  <2>2. CASE RequestReset(r) \/ IssueLink(r) \/ MailLink(r)
    <3>1. CASE RequestReset(r)  BY <1>a, <3>1 DEF RequestReset
    <3>2. CASE MailLink(r)
      <4>1. Answer(r)  BY <1>a, <3>2 DEF MailLink
      <4>2. disturbed' = disturbed /\ Others(r)  BY <1>a, <4>1
      <4>3. req[r].at # "idle"  BY <3>2 DEF MailLink
      <4> QED  BY <4>2, <4>3
    <3>3. CASE IssueLink(r)
      <4>1. PICK t \in Tokens : Hold(r, "mailing link", t)  BY <3>3 DEF IssueLink
      <4>2. disturbed' = disturbed /\ Others(r)  BY <1>a, <4>1
      <4>3. req[r].at # "idle"  BY <3>3 DEF IssueLink
      <4> QED  BY <4>2, <4>3
    <3> QED  BY <2>2, <3>1, <3>2, <3>3
  <2>3. CASE FindToken(r)
    <3>1. req' = [req EXCEPT ![r].id = token.id,
                             ![r].at = IF Expired(token) THEN "dropping" ELSE "spending"]
            => Others(r)
      BY <1>0 DEF Others
    <3> QED  BY <1>a, <2>3, <3>1 DEF FindToken
  <2>4. CASE DropToken(r)
    <3>1. req' = [req EXCEPT ![r].at = "resetting", ![r].id = Null] => Others(r)
      BY <1>0 DEF Others
    <3> QED  BY <1>a, <2>4, <3>1 DEF DropToken
  <2>5. CASE CreateUser(r) \/ MarkEmailVerified(r) \/ AdoptUser(r) \/ JoinUser(r)
             \/ SavePassword(r) \/ SetPasswordHash(r)
    BY <1>a, <2>5 DEF CreateUser, MarkEmailVerified, AdoptUser, JoinUser, SavePassword, SetPasswordHash
  <2> QED  BY <2>1, <2>2, <2>3, <2>4, <2>5 DEF Handle, TokenStep
<1>2. \A s \in Slots \ {r} : req[s].at = "idle" /\ req'[s].at = "idle"
  BY <1>1 DEF SerialInv, Others
<1>3. InOrder(req[r])  BY <1>1, <1>2, AloneInOrder
<1>4. (InOrder(req[r]))'
  <2>1. CASE CodeStep(r) /\ UNCHANGED <<tokenVars, session, adopted>>  BY <1>3, <2>1, CodeAlone
  <2>2. CASE TokenStep(r) /\ UNCHANGED <<codeVars, session, adopted>>  BY <1>3, <2>2, TokenAlone
  <2>3. CASE CreateUser(r) \/ MarkEmailVerified(r) \/ AdoptUser(r) \/ JoinUser(r)
             \/ SavePassword(r) \/ SetPasswordHash(r)
    <3>1. /\ UNCHANGED <<code, inbox, token, link>>
          /\ req[r].at \notin {"mailing code", "mailing link"}
          /\ req' = [req EXCEPT ![r] = Idle] \/ req' = [req EXCEPT ![r].at = "issuing"]
      BY <2>3
         DEF CreateUser, MarkEmailVerified, AdoptUser, JoinUser, SavePassword, SetPasswordHash,
             Goto, Answer, codeVars, tokenVars
    <3>2. req' = [req EXCEPT ![r] = Idle] => req'[r].at = "idle"  BY <1>0 DEF Idle
    <3>3. req' = [req EXCEPT ![r].at = "issuing"] => req'[r].at = "issuing"  BY <1>0 DEF Request
    <3> QED  BY <1>3, <3>1, <3>2, <3>3 DEF InOrder, CodeMailed, LinkMailed
  <2> QED  BY <2>1, <2>2, <2>3 DEF Handle
<1> QED  BY <1>2, <1>4, StillInOrder

LEMMA NextSerial ==
  ASSUME TypeInv, SerialInv, [Next]_vars
  PROVE  SerialInv'
<1> SUFFICES ASSUME ~disturbed' PROVE SerialInv'  BY DEF SerialInv
<1>1. CASE UNCHANGED <<user, req, disturbed, code, inbox, token, link>>
  BY <1>1 DEF SerialInv, InOrder, CodeMailed, LinkMailed
<1>2. CASE Login \/ Refresh \/ Logout \/ TokenExpires
  BY <1>1, <1>2 DEF Login, Refresh, Logout, TokenExpires, codeVars, tokenVars
<1>3. CASE Tick \/ Reap
  <2>1. UNCHANGED <<user, req, disturbed, inbox, link>>
    BY <1>3 DEF Tick, Reap, ReapCode, ReapToken, codeVars, tokenVars
  <2>2. ASSUME NEW q, InOrder(q)
        PROVE  /\ code' # Null => code'.code = IF q.at = "mailing code" THEN q.holds ELSE inbox'
               /\ token' # Null => token'.token = IF q.at = "mailing link" THEN q.holds ELSE link'
               /\ q.at = "adopting" => ~user'.verified
    BY <1>3, <2>1, <2>2, ClockKeeps DEF InOrder, CodeMailed, LinkMailed
  <2>3. \A r \in Slots : req[r].at # "idle" => (InOrder(req[r]))'
    BY <2>1, <2>2 DEF SerialInv, InOrder, CodeMailed, LinkMailed
  <2>4. (\A r \in Slots : req[r].at = "idle") => InOrder(Idle)'
    BY <2>1, <2>2 DEF SerialInv, InOrder, CodeMailed, LinkMailed, Idle
  <2> QED  BY <2>1, <2>3, <2>4 DEF SerialInv
<1>4. \A r \in Slots : ~Lose(r)  BY DEF Lose, AnswerDisturbed
<1> QED  BY <1>1, <1>2, <1>3, <1>4, SentAlone, HandledAlone DEF Next, vars, codeVars, tokenVars

LEMMA InitSerial == Init => SerialInv
BY DEF Init, SerialInv, InOrder, CodeMailed, LinkMailed, Idle

LEMMA SerialStep ==
  TypeInv /\ GuessInv /\ SerialInv /\ [Next]_vars => (TypeInv /\ GuessInv /\ SerialInv)'
BY GuessStep, NextSerial

\* Without overlap the stored code is the one in the newest mail, through every
\* sequence of sign-ups, resends, guesses and expiries
\* (email-verification.service.ts:51-73).
THEOREM NewestCodeWorksHolds == Spec => []NewestCodeWorks
<1>1. Init => TypeInv /\ GuessInv /\ SerialInv  BY InitShape, InitGuess, InitSerial
<1>2. SerialInv => NewestCodeWorks
  BY DEF SerialInv, InOrder, CodeMailed, Idle, NewestCodeWorks
<1> QED  BY <1>1, <1>2, SerialStep, PTL DEF Spec

\* And the stored token that of the newest link (password-reset.service.ts:65-89).
THEOREM NewestLinkWorksHolds == Spec => []NewestLinkWorks
<1>1. Init => TypeInv /\ GuessInv /\ SerialInv  BY InitShape, InitGuess, InitSerial
<1>2. SerialInv => NewestLinkWorks
  BY DEF SerialInv, InOrder, LinkMailed, Idle, NewestLinkWorks
<1> QED  BY <1>1, <1>2, SerialStep, PTL DEF Spec

\* Without overlap no step takes the password of a verified account away: only
\* the adoption of an account that is unverified does (users.service.ts:107-111).
THEOREM PasswordIsKept == Spec => PasswordKept
<1>1. Init => TypeInv /\ GuessInv /\ SerialInv  BY InitShape, InitGuess, InitSerial
<1>2. TypeInv /\ SerialInv /\ [Next]_vars =>
        [~disturbed' /\ Protected /\ user.verified => user'.password # Null]_vars
  <2> SUFFICES ASSUME TypeInv, SerialInv, Next, ~disturbed', Protected, user.verified
               PROVE  user'.password # Null
    OBVIOUS
  <2>1. user \in User /\ user.password # Null /\ Null # "chosen"
    BY RequestsAssumption DEF Protected, TypeInv, TypeOK
  <2>2. CASE user' = user  BY <2>1, <2>2
  <2>3. ASSUME NEW r \in Slots, AdoptUser(r) PROVE FALSE
    <3>1. ~disturbed /\ req[r].at = "adopting"  BY <2>3 DEF AdoptUser, Answer
    <3> QED  BY <3>1 DEF SerialInv, InOrder
  <2>4. ASSUME NEW r \in Slots, CreateUser(r) \/ JoinUser(r) PROVE user' = user
    BY <2>4 DEF CreateUser, JoinUser, Protected
  <2>5. ASSUME NEW r \in Slots, MarkEmailVerified(r) \/ SavePassword(r) \/ SetPasswordHash(r)
        PROVE  user'.password # Null
    BY <2>1, <2>5 DEF MarkEmailVerified, SavePassword, SetPasswordHash, User
  <2>6. ASSUME NEW r \in Slots, CodeStep(r) \/ TokenStep(r) PROVE user' = user
    BY <2>6
       DEF CodeStep, ResendCode, IssueCode, MailCode, FindCode, CountGuess, DropCode,
           TokenStep, RequestReset, IssueLink, MailLink, FindToken, DropToken
  <2>7. ASSUME NEW r \in Slots, Begin(r) \/ GoogleCallback(r) \/ Lose(r) PROVE user' = user
    BY <2>7 DEF Begin, GoogleCallback, Lose
  <2>8. CASE Login \/ Refresh \/ Logout \/ TokenExpires \/ Tick \/ Reap
    BY <2>2, <2>8 DEF Login, Refresh, Logout, TokenExpires, Tick, Reap, ReapCode, ReapToken
  <2> QED  BY <2>2, <2>3, <2>4, <2>5, <2>6, <2>7, <2>8 DEF Next, Handle
<1> QED  BY <1>1, <1>2, SerialStep, PTL DEF Spec, PasswordKept
===============================================================================
