SPECIFICATION Spec
CONSTANTS
  Users = {1, 2, 3}
  Reservations = {1, 2, 3}
  Crons = {c1}
  Workers = {}
  Joiners = {j1}
  Payers = {p1}
  Instances = {}
  TotalSeats = 2
  MaxActive = 3
  MaxAttempts = 3
  Faults = {"slowPromotion", "savePaid", "markDone"}
  MaxMishaps = 1
  c1 = c1
  j1 = j1
  p1 = p1
INVARIANTS
  OneReservationEach
  HolderNotTurnedAway
SYMMETRY Interchangeable
CHECK_DEADLOCK FALSE
