SPECIFICATION FairSpec
CONSTANTS
  Users = {1, 2}
  Reservations = {1, 2, 3}
  Crons = {c1}
  Workers = {w1}
  Joiners = {j1}
  Payers = {p1}
  Instances = {}
  TotalSeats = 1
  MaxActive = 1
  MaxAttempts = 3
  Faults = {"slowPromotion", "closeSales", "keyTTL"}
  MaxMishaps = 0
  c1 = c1
  j1 = j1
  p1 = p1
  w1 = w1
INVARIANTS
  SeatConservation
  NoOversell
  StatsAddUp
  ActiveNeverUndercounted
PROPERTIES
  RefusedOnlyWhenTaken
  OutcomeIsFinal
  UnsoldSeatsReturn
CHECK_DEADLOCK FALSE
