CONSTANTS
  Workers = {w1}
  Codes = {c1, c2, c3}
  Watched = c1
  MAX_ATTEMPTS = 2
  MAX_SMS_PER_PHONE_PER_DAY = 2
  OTP_TTL_MS = 1
  RESEND_COOLDOWN_MS = 1
  CLEANUP_MS = 0
  NoCode = NoCode
  MaxAttempts = 4
  MaxClock = 2
  MaxDay = 1
SPECIFICATION OtpSpec
INVARIANT PhoneDailyCap
CHECK_DEADLOCK FALSE
