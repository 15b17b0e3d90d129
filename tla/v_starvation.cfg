SPECIFICATION FairSpec
CONSTANTS
  Users = {1, 2}
  Reservations = {1, 2}
  Crons = {c1}
  Workers = {w1}
  Joiners = {j1}
  Payers = {p1}
  Instances = {}
  TotalSeats = 2
  MaxActive = 1
  MaxAttempts = 3
  Faults = {"slowPromotion"}
  MaxMishaps = 0
  c1 = c1
  j1 = j1
  p1 = p1
  w1 = w1
PROPERTIES
  QueueDrains
CHECK_DEADLOCK FALSE
