CONSTANTS
  s1 = s1
  s2 = s2
  o1 = o1
  o2 = o2
  c1 = c1
  t1 = t1
  t2 = t2
  NoSub = NoSub
  NoCtl = NoCtl
  Subs = {s1, s2}
  Observers = {o1, o2}
  Controllers = {c1}
  Teardowns = {t1, t2}
  IteratorClosers = {t1}
  MaxDepth = 3
SPECIFICATION Spec
CHECK_DEADLOCK FALSE
INVARIANTS
  TerminalsAllOrNone
PROPERTIES
  ImplementsLifecycle
