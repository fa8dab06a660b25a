SPECIFICATION Spec
CONSTANTS
  Tabs = {t1, t2}
  Students = {s1, s2}
  Slots = {q1, q2}
  MaxSent = 2
  None = None
SYMMETRY Interchangeable
INVARIANTS TypeOK ListIsOwn OneTabSendsAsShown
