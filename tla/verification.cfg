SPECIFICATION FairSpec
CONSTANTS
  Slots = {r1, r2}
  Operations = {"signup", "verify", "resend", "google", "login", "change", "set", "refresh", "logout"}
  Mortal = {r2}
  MailFails = TRUE
  Null = Null
  Codes = {1, 2, 3, 4}
  CODE_TTL = 2
  RESEND_COOLDOWN = 1
  MAX_ATTEMPTS = 2
  MAX_CODES = 2
  Tokens = {1}
  TOKEN_TTL = 1
  LINK_COOLDOWN = 1
  MAX_LINKS = 1
  Stored <- NoAccount
INVARIANTS
  GuessLimit
  CodeSendLimit
  NewestCodeWorks
  SessionsAreVerified
  ClaimDropped
PROPERTIES
  PasswordKept
  CodeReopens
CHECK_DEADLOCK FALSE
