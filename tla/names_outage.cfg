CONSTANTS
  c1 = c1 c2 = c2 t1 = t1 t2 = t2 t3 = t3 d = d f = f
  Client = {c1, c2}
  Proc = {t1, t2}
  Home <- HomeOf
  Path = {d, f}
  Root = Root
  Parent <- ParentOf
SPECIFICATION Spec
INVARIANTS OutageReported
