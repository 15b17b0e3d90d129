SPECIFICATION Spec
CONSTANTS
  Users = {1, 2}
  Reservations = {1, 2, 3}
  Crons = {c1}
  Workers = {w1}
  Joiners = {j1}
  Payers = {}
  Instances = {}
  TotalSeats = 2
  MaxActive = 1
  MaxAttempts = 3
  Faults = {"keyTTL", "lockTTL", "stall", "closeSales", "findReservation", "setnx", "saveReservation"}
  MaxMishaps = 1
  c1 = c1
  j1 = j1
  w1 = w1
INVARIANTS
  TypeOK
  SeatConservation
  PendingIsWatched
  OvershootBounded

  
SYMMETRY Interchangeable
CHECK_DEADLOCK FALSE
