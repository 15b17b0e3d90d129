SPECIFICATION Spec
CONSTANTS
  Users = {1, 2}
  Reservations = {1, 2}
  Crons = {c1}
  Workers = {w1}
  Joiners = {j1}
  Payers = {}
  Instances = {}
  TotalSeats = 1
  MaxActive = 1
  MaxAttempts = 3
  Faults = {"slowPromotion", "addJob"}
  MaxMishaps = 1
  c1 = c1
  j1 = j1
  w1 = w1
INVARIANTS
  NoOversell
SYMMETRY Interchangeable
CHECK_DEADLOCK FALSE
