SPECIFICATION Spec
CONSTANTS
  t1 = t1
  t2 = t2
  w1 = w1
  w2 = w2
  x1 = x1
  x2 = x2
  c1 = c1
  Tasks = {t1, t2}
  Workers = {w1, w2}
  Threads = {x1, x2, c1}
  Callbacks = {c1}
  Prios = {"high", "normal"}
  NoTask = NoTask
SYMMETRY Symmetry
INVARIANTS
  Accounting
  RunnableUnique
  CloseDiscardsNothing
  WildOnlyIfOver
CHECK_DEADLOCK FALSE
