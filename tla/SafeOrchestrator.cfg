SPECIFICATION Spec

CONSTANTS
  Modes <- SomeModes
  Apps = {a1, a2}
  Operators = {o1, o2}
  Executors = {e1}
  Nothing = Nothing
  Torn = Torn
  Absent = Absent
  DemoAllowed = {"noop", "restart"}
  Sources = {"rl_decision_layer", "direct"}
  Requested = {"noop", "restart", "scale_up", "scale_down", "unknown_name", "unknown_index"}
  StoreExists = FALSE
  LegacyCalls = TRUE
  Durations = {1}
  Replicas = {2}
  Limits = {0, 1, 3}
  MaxTime = 1
  MaxWork = 3


SYMMETRY OverrideSymmetry

\* Bounded: time, overrides and calls run out.
CHECK_DEADLOCK FALSE
INVARIANTS ServicesAreAccountedFor FreezesAreKept
PROPERTY FrozenAppsAreLeftAlone
