\* One client asks one condition after another, of one table.
CONSTANTS
  Tables = {t1}
  Values = {x, y}
  Clients = {c}
  Queries = {1, 2}
  Servers = {0, 1, 2}
  MaxConds = 1
  Nothing = Nothing
SPECIFICATION Spec
INVARIANT OwnConditions
CHECK_DEADLOCK FALSE
