SPECIFICATION LinkSpec
CONSTANTS
  Users = {1}
  Reservations = {1, 2}
  Crons = {c1}
  Workers = {w1, w2}
  Joiners = {j1}
  Payers = {}
  Instances = {{c1, w1}, {w2}}
  TotalSeats = 1
  MaxActive = 1
  MaxAttempts = 3
  Faults = {"slowPromotion", "crash", "stall", "lockTTL", "break", "saveReservation", "markSoldOut"}
  MaxMishaps = 1
  Resent = {"decrementSeats", "setnx", "delActive", "incrActiveCount"}
  c1 = c1
  j1 = j1
  w1 = w1
  w2 = w2
INVARIANTS
  NoOverhold
  CreditsExclusive
PROPERTIES
  RefinesSeatPool
  HandlersReturn
CHECK_DEADLOCK FALSE
