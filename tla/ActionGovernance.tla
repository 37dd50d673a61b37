--------------------------- MODULE ActionGovernance ---------------------------
(***************************************************************************)
(* Action governance (core/action_governance.py) as the execution gate     *)
(* uses it, which makes an instance for each call (rl_orchestrator_safe.py,*)
(* execute_action).  evaluate_action records the action and lets it pass;  *)
(* the three checks it is documented to make are there, and nobody calls   *)
(* them.  The runtime keeps an instance too (agent_runtime.py:91) and has  *)
(* a method that would ask it, _enforce (686), but its loop fills in the   *)
(* answer itself (376-379) and never calls it: no action of the runtime    *)
(* comes here.                                                             *)
(*                                                                         *)
(* A tick is a minute, in which all the periods are whole numbers.         *)
(***************************************************************************)
EXTENDS Integers, Sequences, FiniteSets

CONSTANTS
  Env,
  RepetitionLimit,    \* DEFAULT_REPETITION_LIMIT, 3
  HistoryLimit,       \* maxlen of _action_history, 100
  Never,              \* no execution is known
  MaxMinutes, MaxEvaluations   \* bounds

VARIABLES
  now,
  governance,   \* the instance of the last call
  earlier,      \* ghost. The instance that would have seen all the calls
  let_through   \* ghost. What the checks say of the last action that passed

vars == <<now, governance, earlier, let_through>>

Actions == {"noop", "restart", "scale_up", "scale_down", "rollback"}

-----------------------------------------------------------------------------
(* An instance.                                                            *)

\* DEFAULT_COOLDOWNS and DEFAULT_REPETITION_WINDOW.
CooldownPeriod(a) == CASE a = "restart" -> 1
                       [] a \in {"scale_up", "scale_down"} -> 2
                       [] a = "rollback" -> 5
                       [] OTHER -> 0
RepetitionWindow == 5

EligibilityRules == CASE Env = "prod"  -> {"noop", "restart"}
                      [] Env = "stage" -> {"restart", "noop", "scale_up", "scale_down"}
                      [] OTHER         -> Actions

NewInstance == [last_execution |-> [a \in Actions |-> Never], history |-> <<>>]

\* _record_action; the deque drops its oldest record.
Recorded(g, a) ==
  LET h == Append(g.history, [action |-> a, timestamp |-> now])
  IN [last_execution |-> [g.last_execution EXCEPT ![a] = now],
      history |-> IF Len(h) > HistoryLimit THEN Tail(h) ELSE h]

\* _check_eligibility, without the prerequisites, which are keys of the context.
NotEligible(a) == a \notin EligibilityRules

\* _check_cooldown.
CooldownActive(g, a) ==
  /\ CooldownPeriod(a) # 0
  /\ g.last_execution[a] # Never
  /\ now - g.last_execution[a] < CooldownPeriod(a)

\* _check_repetition.
RepetitionExceeded(g, a) ==
  Cardinality({i \in 1..Len(g.history) :
                 /\ g.history[i].timestamp > now - RepetitionWindow
                 /\ g.history[i].action = a}) >= RepetitionLimit

Reasons(g, a) ==
  {r \in {"action_not_eligible", "cooldown_active", "repetition_limit_exceeded"} :
     CASE r = "action_not_eligible" -> NotEligible(a)
       [] r = "cooldown_active"     -> CooldownActive(g, a)
       [] OTHER                     -> RepetitionExceeded(g, a)}

-----------------------------------------------------------------------------

Init ==
  /\ now = 1
  /\ governance = NewInstance
  /\ earlier = NewInstance
  /\ let_through = {}

\* evaluate_action: the action is recorded, and nothing is blocked.
EvaluateAction(g, a) ==
  /\ Len(earlier.history) < MaxEvaluations
  /\ governance' = Recorded(g, a)
  /\ earlier' = Recorded(earlier, a)
  /\ let_through' = Reasons(earlier, a)
  /\ UNCHANGED now

\* Gate 4, with an instance of its own, for what the gates before it let pass.
SafetyRules == IF Env \in {"prod", "stage"} THEN {"noop", "restart"}
               ELSE {"noop", "restart", "scale_up", "scale_down"}
Gate == \E a \in SafetyRules : EvaluateAction(NewInstance, a)

Minute == now < MaxMinutes /\ now' = now + 1 /\ UNCHANGED <<governance, earlier, let_through>>

Next == Gate \/ Minute

Spec == Init /\ [][Next]_vars

-----------------------------------------------------------------------------

\* "Governance gates: eligibility, cooldown, repetition" (README.md), "Cooldowns: Minimum
\* time between repeated actions" (action_governance.py): what governance lets pass is
\* nothing its own checks would block after what the gate has let pass before.
PassedActionsAreChecked == let_through = {}

=============================================================================
