SPECIFICATION Spec
CONSTANTS
  Users = {1}
  Reservations = {1, 2}
  Crons = {c1, c2}
  Workers = {}
  Joiners = {j1}
  Payers = {}
  Instances = {}
  TotalSeats = 2
  MaxActive = 2
  MaxAttempts = 3
  Faults = {"slowPromotion"}
  MaxMishaps = 0
  c1 = c1
  c2 = c2
  j1 = j1
INVARIANTS
  OneReservationEach
SYMMETRY Interchangeable
CHECK_DEADLOCK FALSE
