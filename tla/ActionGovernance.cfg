\* evaluate_action lets everything pass.
SPECIFICATION Spec
CONSTANTS
  Env = "dev"
  RepetitionLimit = 3
  HistoryLimit = 100
  Never = Never
  MaxMinutes = 6
  MaxEvaluations = 5
CHECK_DEADLOCK FALSE
INVARIANT PassedActionsAreChecked
