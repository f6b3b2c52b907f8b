\* Two server processes, which may crash and start again, draining the same outbox;
\* one process that sweeps, one member, a meal reminder and an expiry reminder.
SPECIFICATION AllSpec
CONSTANTS
  Dispatchers = {d1, d2}
  Tokens = {t1, t2}
  MaxAttempts = 3
  BaseBackoff = 1
  SendTimeout = 1
  StaleAfter = 2
  MaxFaults = 2
  MaxRegisters = 1
  Sweepers = {s1}
  Members = {m1}
  Meals = {r1}
  Expiries = {r2}
  Switched = {"_all"}
  Operations = {"disable", "mute"}
  KeepRead = 1
  MaxEvents = 1
  MaxEdits = 2
  MaxSweepFaults = 1
INVARIANTS OneHolder NoNeedlessDuplicate ConsentKept
PROPERTIES SettledForGood RetriesBounded PushesSettle RemindersReach
