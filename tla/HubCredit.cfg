\* One mate publishes, three cite; no failures.
CONSTANTS
  Mates = {m1, m2, m3, m4}
  Users = {m1, m2, m3, m4}
  UserOf <- Alone
  SearchLimit = 5
  MaxFaults = 0
  MaxWithdrawn = 0
SPECIFICATION CreditSpec
SYMMETRY Sym
INVARIANTS CreditOnlyForOwnPages
CHECK_DEADLOCK FALSE
