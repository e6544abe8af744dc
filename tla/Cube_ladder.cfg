\* Two windows, merged and sent over the wire in every order.
SPECIFICATION Spec
CONSTANTS
  CellBudget = 9
  Windows <- MCWindows
  Shifts <- MCShifts
  MaxBuilt = 2
INVARIANTS
  CountsAreExact
  WireIsLossless
  BudgetIsMet
  BorderIsTheEmergentSet
  NothingEmergesOfTheSame
CHECK_DEADLOCK FALSE
