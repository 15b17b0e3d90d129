SPECIFICATION Spec
CONSTANTS
  Users = {1, 2}
  Reservations = {1, 2}
  Crons = {c1}
  Workers = {w1}
  Joiners = {j1}
  Payers = {p1, p2}
  Instances = {}
  TotalSeats = 1
  MaxActive = 1
  MaxAttempts = 3
  Faults = {"slowPromotion", "slowPay"}
  MaxMishaps = 0
  c1 = c1
  j1 = j1
  p1 = p1
  p2 = p2
  w1 = w1
INVARIANTS
  NoOversell
SYMMETRY Interchangeable
CHECK_DEADLOCK FALSE
