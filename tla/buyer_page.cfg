SPECIFICATION ViewSpec
CONSTANTS
  Users = {1, 2}
  Reservations = {1, 2}
  Crons = {c1}
  Workers = {w1}
  Joiners = {j1}
  Payers = {p1}
  Instances = {}
  TotalSeats = 1
  MaxActive = 2
  MaxAttempts = 3
  Faults = {"markDone", "lostSocket", "lateSocket"}
  MaxMishaps = 1
  c1 = c1
  j1 = j1
  p1 = p1
  w1 = w1
INVARIANTS
  PageTruthful
  HolderIsTold
SYMMETRY Interchangeable
CHECK_DEADLOCK FALSE
