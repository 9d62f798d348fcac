SPECIFICATION Spec
CONSTANTS
  Slots = {r1, r2}
  Operations = {"forgot", "reset"}
  Mortal = {r2}
  MailFails = TRUE
  Null = Null
  Codes = {1}
  CODE_TTL = 1
  RESEND_COOLDOWN = 1
  MAX_ATTEMPTS = 1
  MAX_CODES = 1
  Tokens = {1, 2, 3, 4, 5, 6}
  TOKEN_TTL = 2
  LINK_COOLDOWN = 1
  MAX_LINKS = 2
  Stored <- SignedUp
INVARIANTS
  NewestLinkWorks
  SpentLinkRefused
CHECK_DEADLOCK FALSE
