CONSTANTS
  t1 = t1
  t2 = t2
  w1 = w1
  r1 = r1
  r2 = r2
  r3 = r3
  pay = pay
  delay = delay
  check = check
  ship = ship
  stop = stop
  NoJob = NoJob
  NoStep = NoStep
  Tasks = {t1, t2}
  Workers = {w1}
  Jobs = {r1, r2, r3}
  StepNames = {pay, delay, check, ship, stop}
  Definitions <- MCEdited
  Fragile = {t1, t2, w1}
  MaxAttempts = 2
  MaxMishaps = 2
  MaxManualResumes = 1
  MaxEdits = 1
  MaxTroubles = 3
SPECIFICATION MCSpec
INVARIANTS
  NoLostWakeup
  QuietCancelIsFinal
  RepeatsArePaidFor
PROPERTIES
  ComesToRest
CHECK_DEADLOCK FALSE
