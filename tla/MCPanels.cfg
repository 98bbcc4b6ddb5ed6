SPECIFICATION Spec
CONSTANTS
  Panels = {p1, p2}
  Dashboards = {d0, d1}
  Default = d0
  Bodies = {"plain", "bad"}
  Loadable = {"plain"}
  Rejected = {"bad"}
  Workers = {w1, w2}
CONSTRAINT OverlapAlone
SYMMETRY Symmetry
INVARIANTS TypeOK InStep
PROPERTY DeletedForGood
CHECK_DEADLOCK FALSE
