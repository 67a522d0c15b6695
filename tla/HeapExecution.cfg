SPECIFICATION ExecutionSpec
CONSTANTS
  Scopes = {"Full"}
  MaxTickets = 1
  Continuous = FALSE
INVARIANT
  ExecutionIsNoticed
