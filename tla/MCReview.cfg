SPECIFICATION Spec
CONSTANTS
  Candidates = {c1, c2}
  Works = {w1, w2}
  Unmatched = Unmatched
  Tab = t
  Late = l
  Other = o
  Clients = {t, l, o}
  Awaited = {t}
  c1 = c1
  c2 = c2
  w1 = w1
  w2 = w2
  t1 = t1
  t2 = t2
  Tiles = {t1, t2}
  Captures <- MCCaptures
  Elsewhere = {"list", "unlist", "suppress", "decide", "finish"}
  Budgets <- MCBudgets
  Offline = TRUE
INVARIANTS
  ChoicesAreKept
PROPERTIES
  TabComesBack
  AppliedAsConfirmed
  ExplicitStands
CHECK_DEADLOCK FALSE
