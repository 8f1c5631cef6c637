CONSTANTS
  Subjects = {"rate", "otp", "sms", "guard", "factor", "backup"}
  Requests = {r1, r2, r3}
  Limiters <- McLimiters
  windowMs <- McWindowMs
  max <- McMax
  skipSuccess <- McSkipSuccess
  NoRow = NoRow
  MaxTime = 3
  MaxCount = 4
  Workers = {w1, w2}
  Codes = {c1, c2, c3}
  Watched = c1
  MAX_ATTEMPTS = 2
  MAX_SMS_PER_PHONE_PER_DAY = 1
  OTP_TTL_MS = 1
  RESEND_COOLDOWN_MS = 1
  CLEANUP_MS = 0
  NoCode = NoCode
  MaxAttempts = 3
  MaxClock = 2
  MaxDay = 2
  Senders = {s1, s2, s3}
  SMS_DAILY_CAP = 2
  LastDay = 3
  MaxTimeouts = 2
  Logins = {l1, l2, l3}
  MAX_FAILS = 2
  LastStep = 1
  LOCK_STEPS_MS <- McLockSteps
  FORGET_MS = 2
  NoRecord = NoRecord
  MaxGuardTime = 6
  Verifiers = {v1, v2}
  WINDOW = 1
  STEP_TTL = 4
  MaxDelay = 1
  RecoveryCodes = {rc1}
  NoStep = NoStep
  MaxStep = 5
  Runs = {b1, b2}
  KEEP = 2
  LastCopyDay = 4
SPECIFICATION LimitsSpec
SYMMETRY Symmetry
INVARIANTS SuccessIsFree GuessesAreFew LoginsOfACode DayCountHolds BillWithinCap FailuresAreFree LockHolds CodeWorksOnce
PROPERTIES AdmitsWithinMax LastGoodCopyStays
CHECK_DEADLOCK FALSE
