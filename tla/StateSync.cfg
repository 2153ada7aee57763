CONSTANTS
  Executions = {e1, e2}
  Clients = {c1}
  Limits = {"searches", "pages", "tokens"}
SPECIFICATION Spec
SYMMETRY Symmetry
INVARIANTS TypeOK SettledIsProjected OverrunIsGuarded
