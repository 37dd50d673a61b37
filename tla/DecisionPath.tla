----------------------------- MODULE DecisionPath -----------------------------
(***************************************************************************)
(* From a runtime event to an action: the pipe                             *)
(* (core/runtime_rl_pipe.py) with its checks of the event, the remote      *)
(* client and its circuit breaker (core/rl_remote_client.py), a decision   *)
(* service (core/rl/rityadani_decision_layer/decision.py, or any other)    *)
(* and the check of a response (core/rl_response_validator.py).            *)
(* core/resilience.py has a second circuit breaker and                     *)
(* core/self_restraint.py a third reason not to act; a behaviour is about  *)
(* one of the three, guard.                                                *)
(*                                                                         *)
(* Callers are threads of one process.  They share the counters without a  *)
(* lock; a thread may lose its turn wherever the code calls something, and *)
(* a step here ends there.                                                 *)
(***************************************************************************)
EXTENDS Integers, FiniteSets

CONSTANTS
  Callers,
  Curious,        \* bound: callers that ask about every kind of event
  Settings,       \* environments, gates and services, see env, enabled and brain
  Nothing,
  MaxFailures,    \* failures in a row that open a breaker: 3 or 5
  MaxCount,       \* bound: the counter of failures stays there
  Cooldown,       \* bound: ticks that stand for 300 s and 60 s
  Answers,        \* bound: what a service may answer, see Answer
  Confidences,    \* bound: confidences, in percent, and thresholds of them
  Scores,         \* bound: scores of instability, and thresholds of them
  Counts          \* bound: numbers of recent failures, and thresholds of them

ASSUME DecisionAssumption ==
  /\ IsFiniteSet(Callers)
  /\ MaxFailures \in Nat \ {0} /\ Cooldown \in Nat \ {0}
  /\ MaxCount \in Nat /\ MaxCount > MaxFailures
  /\ Settings \subseteq [env : {"dev", "stage", "prod"}, enabled : BOOLEAN,
                          brain : {"rules", "other"}]
  /\ Confidences \subseteq Int /\ Scores \subseteq Int /\ Counts \subseteq Int

VARIABLES
  guard,       \* "client", "breaker" or "restraint"
  env,         \* "dev", "stage" or "prod"
  enabled,     \* autonomy_decisions_enabled
  brain,       \* is the service decision.py, "rules", or another, "other"
  service,     \* does it answer
  pc,          \* per caller: the point of its call
  ask,         \* per caller: what it asks
  failures,    \* _consecutive_failures, failure_count
  age,         \* ticks since the last failure, up to Cooldown
  state,       \* the second breaker: closed, open, half_open
  success_count,
  stored,      \* per caller: the failure_count it is about to store
  said,        \* ghost. Per caller: what the service answered to it
  result,      \* per caller: the decision it gets
  tries,       \* ghost. Calls since the last answer or the last full cooldown
  halves,      \* ghost. Answers in half-open since the breaker was closed
  config,      \* thresholds of SelfRestraint
  signals      \* what it is asked about

setting  == <<guard, env, enabled, brain>>
counters == <<failures, age, state, success_count, stored, tries, halves>>
vars     == <<setting, service, pc, ask, counters, said, result, config, signals>>

-----------------------------------------------------------------------------
(* Data.                                                                   *)

Actions == {"noop", "restart", "scale_up", "scale_down", "rollback"}

\* What the safe executor behind the pipe may execute.
SafetyRules == CASE env = "prod"  -> {"noop", "restart"}
                 [] env = "stage" -> {"noop", "restart"}
                 [] OTHER         -> {"noop", "restart", "scale_up", "scale_down"}

\* ALLOWED_ACTIONS of decision.py.
Scope == CASE env = "prod"  -> {"noop", "restart"}
           [] env = "stage" -> {"noop", "scale_up", "scale_down"}
           [] OTHER         -> {"noop", "restart", "scale_up", "scale_down"}

\* safety_rules of the response validator, which pass fewer than the executor's.
ResponseRules == CASE env = "prod"  -> {"noop"}
                   [] env = "stage" -> {"noop", "restart"}
                   [] OTHER         -> {"noop", "restart", "scale_up", "scale_down"}

\* validate_runtime_event: keys, event type and types; an event that passes can still
\* have a metric that is no number.
Events == [valid : BOOLEAN, numeric : BOOLEAN, state : {"healthy", "critical", "deciding"},
           load : {"low", "latency", "errors"}]
Plain == [valid |-> TRUE, numeric |-> TRUE, state |-> "deciding", load |-> "low"]
Asks(c) ==
  IF c \notin Curious THEN {[entry |-> "query", event |-> Plain]}
  ELSE {[entry |-> n, event |-> e] : n \in {"query", "pipe"},
          e \in {x \in Events : ~x.valid \/ ~x.numeric \/ brain = "other" =>
                    x.state = "deciding" /\ x.load = "low"}}

\* An action may also be a number, or a text that int() reads as one.
Names == [c \in {"0", "1", "2", "3", "4"} |->
            CASE c = "0" -> "noop" [] c = "1" -> "restart" [] c = "2" -> "scale_up"
              [] c = "3" -> "scale_down" [] OTHER -> "rollback"]
Codes == DOMAIN Names
Means(a) == IF a \in Codes THEN Names[a] ELSE a

\* What comes back with status 200: an object whose action is a name, a code, a number out
\* of bounds, a code beside an error or fallback flag, an unknown text, a list or an object;
\* one without an action; something that is no object; text that is no JSON.
Answer == Actions \cup Codes \cup
            {"5", "flagged", "unknown", "nested", "missing", "list", "garbled"}

ASSUME AnswerAssumption == Answers \subseteq Answer /\ Nothing \notin Answer

Decision == [action : Answer, confidence : {"zero", "service", "sure"}]

\* What is executed for lack of anything else.
Noop(confidence) == [action |-> "noop", confidence |-> confidence]

-----------------------------------------------------------------------------
(* The rules of decision.py: consume_runtime_event, make_decision.         *)

\* Faulty variant: the state comes last, and nothing is checked against the scope.
AdviceUnscoped(e) ==
  CASE e.load = "latency" -> "scale_up"
    [] e.load # "latency" /\ (e.load = "errors" \/ e.state = "critical") -> "restart"
    [] OTHER -> "noop"

\* _decide_action.
Proposed(e) ==
  CASE e.state = "critical" -> "restart"
    [] e.state # "critical" /\ e.load = "latency" -> "scale_up"
    [] e.state # "critical" /\ e.load = "errors" -> "restart"
    [] OTHER -> "noop"

\* The pipe sends the state of the agent, which these rules do not know.
Advice(e) ==
  IF e.state # "deciding" /\ Proposed(e) \in Scope THEN Proposed(e) ELSE "noop"

(* The response validator, which nothing calls: it knows actions as codes, *)
(* and 0 for whatever it does not let pass.                                *)

\* Faulty variant: names pass as the codes they stand for.
PassesNames(a) == Means(a) \in ResponseRules

\* validate_response: int() refuses a name, and a flag refuses even what is allowed.
Passes(a) == a \in Codes /\ Names[a] \in ResponseRules

\* The action that the code it returns stands for.
Validated(a) == IF Passes(a) THEN Means(a) ELSE "noop"

-----------------------------------------------------------------------------
(* SelfRestraint.  A group of signals that is not given is Nothing.        *)

\* Confidence and uncertainty are in percent.
Groups == [conflict : BOOLEAN \cup {Nothing},
           memory   : {Nothing} \cup [instability : Scores, failures : Counts],
           decision : Confidences \cup {Nothing}]

Conflicting(s) == s.conflict = TRUE

\* Faulty variant: failures are looked at where there is no score.
AtRiskElse(s) ==
  /\ s.memory # Nothing
  /\ \/ s.memory.instability > config.instability
     \/ s.memory.instability = 0 /\ s.memory.failures > config.failures

\* _check_memory_risk.
AtRisk(s) ==
  /\ s.memory # Nothing
  /\ s.memory.instability > config.instability \/ s.memory.failures > config.failures

LowConfidence(s) == s.decision # Nothing /\ s.decision < config.confidence

InsufficientData(s) == s.conflict = Nothing /\ s.memory = Nothing /\ s.decision = Nothing

\* Faulty variant: the first group that is given decides.
ShouldBlockFirst(s) ==
  IF s.conflict # Nothing THEN Conflicting(s)
  ELSE IF s.memory # Nothing THEN AtRisk(s) ELSE LowConfidence(s) \/ InsufficientData(s)

\* evaluate_block.
ShouldBlock(s) ==
  Conflicting(s) \/ AtRisk(s) \/ LowConfidence(s) \/ InsufficientData(s)

\* check_uncertainty and should_observe_instead_of_act, with their own thresholds.
Uncertain(s)     == s.decision # Nothing /\ 100 - s.decision > 50
ShouldObserve(s) == Conflicting(s) \/ (s.memory # Nothing /\ s.memory.instability > 50)

Defaults == [confidence |-> 60, instability |-> 75, failures |-> 5]

-----------------------------------------------------------------------------

Init ==
  /\ guard \in {"client", "breaker", "restraint"}
  /\ \E x \in Settings : env = x.env /\ enabled = x.enabled /\ brain = x.brain
  /\ guard = "client" \/ <<env, enabled, brain>> = <<"dev", TRUE, "other">>
  /\ service = "up"
  /\ pc = [c \in Callers |-> "idle"] /\ ask = [c \in Callers |-> Nothing]
  /\ failures = 0 /\ age = Cooldown
  /\ state = "closed" /\ success_count = 0 /\ stored = [c \in Callers |-> 0]
  /\ said = [c \in Callers |-> Nothing] /\ result = [c \in Callers |-> Nothing]
  /\ tries = 0 /\ halves = 0
  /\ config = Defaults
  /\ signals = Nothing

\* Time passes.
Tick ==
  /\ age < Cooldown /\ age' = age + 1
  /\ tries' = IF age' = Cooldown THEN 0 ELSE tries
  /\ UNCHANGED <<setting, service, pc, ask, failures, state, success_count, stored, said,
                 result, halves, config, signals>>

\* The service comes and goes.
Turn ==
  /\ guard # "restraint"
  /\ service' = IF service = "up" THEN "down" ELSE "up"
  /\ UNCHANGED <<setting, pc, ask, counters, said, result, config, signals>>

GoTo(c, p) == pc' = [pc EXCEPT ![c] = p]
Return(c, d) == GoTo(c, "done") /\ result' = [result EXCEPT ![c] = d]

\* get_decision and pipe_runtime_event up to the call of the client, and call up to the
\* test of the breaker.  Only get_decision asks whether decisions are enabled; a metric
\* that is no number raises.
Ask(c) ==
  /\ guard # "restraint" /\ pc[c] = "idle"
  /\ IF guard = "breaker" THEN GoTo(c, "check") /\ UNCHANGED <<ask, result>>
     ELSE \E a \in Asks(c) :
            /\ ask' = [ask EXCEPT ![c] = a]
            /\ CASE ~a.event.valid -> Return(c, Noop("sure"))
                 [] a.event.valid /\ a.entry = "query" /\ ~enabled -> Return(c, Noop("sure"))
                 [] a.event.valid /\ (a.entry = "pipe" \/ enabled) /\ ~a.event.numeric ->
                      Return(c, Nothing)
                 [] OTHER -> GoTo(c, "check") /\ UNCHANGED result
  /\ UNCHANGED <<setting, service, counters, said, config, signals>>

\* Faulty variant: the fallback leaves its confidence to the caller's default.
FallbackUnmarked == Noop("service")

\* _fallback_response.
Fallback == Noop("zero")

\* Is the breaker open?
Tripped == IF guard = "client" THEN failures >= MaxFailures ELSE state = "open"

\* Faulty variant: an open breaker stays open.
CheckOnce(c) ==
  /\ pc[c] = "check"
  /\ IF Tripped THEN Return(c, Fallback) /\ UNCHANGED tries
     ELSE GoTo(c, "calling") /\ tries' = tries + 1 /\ UNCHANGED result
  /\ UNCHANGED <<setting, service, ask, failures, age, state, success_count, stored, said,
                 halves, config, signals>>

\* The test of the breaker, up to time.time(): the client answers with its fallback, call
\* raises.
Check(c) ==
  /\ pc[c] = "check"
  /\ CASE Tripped /\ age < Cooldown -> Return(c, Fallback) /\ UNCHANGED tries
       [] Tripped /\ age = Cooldown -> GoTo(c, "reset") /\ UNCHANGED <<result, tries>>
       [] OTHER -> GoTo(c, "calling") /\ tries' = tries + 1 /\ UNCHANGED result
  /\ UNCHANGED <<setting, service, ask, failures, age, state, success_count, stored, said,
                 halves, config, signals>>

\* What follows the test is no longer true when another caller has failed in between.
Reset(c) ==
  /\ pc[c] = "reset" /\ GoTo(c, "calling")
  /\ tries' = tries + 1
  /\ IF guard = "client" THEN failures' = 0 /\ UNCHANGED state
     ELSE state' = "half_open" /\ UNCHANGED failures
  /\ UNCHANGED <<setting, service, ask, age, success_count, stored, said, result, halves,
                 config, signals>>

\* Status 200: the client resets its counter, and then reads the body.
Answered(c) ==
  /\ pc[c] = "calling" /\ service = "up"
  /\ tries' = 0
  /\ IF guard = "breaker" THEN GoTo(c, "success") /\ UNCHANGED <<failures, said>>
     ELSE /\ failures' = 0
          /\ \E a \in (IF brain = "rules" THEN {Advice(ask[c].event)} ELSE Answers) :
               /\ said' = [said EXCEPT ![c] = a]
               /\ GoTo(c, IF a = "garbled" THEN "count" ELSE "answered")
  /\ UNCHANGED <<setting, service, ask, age, state, success_count, stored, result, halves,
                 config, signals>>

\* Another status, a timeout, no connection: an exception of the guarded function.
Failed(c) ==
  /\ pc[c] = "calling" /\ service = "down"
  /\ GoTo(c, "count")
  /\ UNCHANGED <<setting, service, ask, counters, said, result, config, signals>>

\* Faulty variant: the exceptions of the call are not counted.
CountedNot == IF service = "down" THEN failures ELSE failures + 1

Counted == IF failures = MaxCount THEN MaxCount ELSE failures + 1

\* _track_failure and _on_failure, up to the call of the clock.
Count(c) ==
  /\ pc[c] = "count" /\ GoTo(c, "stamp")
  /\ failures' = Counted
  /\ UNCHANGED <<setting, service, ask, age, state, success_count, stored, said, result, tries,
                 halves, config, signals>>

Stamp(c) ==
  /\ pc[c] = "stamp" /\ age' = 0
  /\ Return(c, Fallback)
  /\ state' = IF guard = "breaker" /\ (state = "half_open" \/ failures >= MaxFailures)
              THEN "open" ELSE state
  /\ UNCHANGED <<setting, service, ask, failures, success_count, stored, said, tries, halves,
                 config, signals>>

\* Faulty variant: the first answer closes the breaker.
Needed1 == 1

Needed == 2

\* _on_success: in half-open the second answer closes; else max(0, ...) is called before
\* its value is stored.
Succeed(c) ==
  /\ pc[c] = "success"
  /\ IF state = "half_open"
     THEN LET closes == success_count + 1 >= Needed
          IN /\ success_count' = IF closes THEN 0 ELSE success_count + 1
             /\ state' = IF closes THEN "closed" ELSE state
             /\ failures' = IF closes THEN 0 ELSE failures
             /\ halves' = IF closes THEN 0 ELSE halves + 1
             /\ GoTo(c, "done") /\ UNCHANGED stored
     ELSE /\ stored' = [stored EXCEPT ![c] = IF failures = 0 THEN 0 ELSE failures - 1]
          /\ GoTo(c, "store") /\ UNCHANGED <<success_count, state, failures, halves>>
  /\ UNCHANGED <<setting, service, ask, age, said, result, tries, config, signals>>

Store(c) ==
  /\ pc[c] = "store" /\ GoTo(c, "done")
  /\ failures' = stored[c] /\ stored' = [stored EXCEPT ![c] = 0]
  /\ UNCHANGED <<setting, service, ask, age, state, success_count, said, result, tries, halves,
                 config, signals>>

\* Faulty variant: a code is executed as the action it stands for.
ExecutedCodes(a) == IF Means(a) \in Actions \cap SafetyRules THEN Means(a) ELSE "noop"

\* action_map.get(action, 0), which knows names only, and what validate_and_execute makes
\* of it.
Executed(a) == IF a \in Actions \cap SafetyRules THEN a ELSE "noop"

\* What the pipe does with an answer: what is no object raises; get_decision passes any
\* action on, pipe_runtime_event looks it up, where a list or an object raises, and has it
\* executed.
Conclude(c) ==
  LET action == IF said[c] = "missing" THEN "noop" ELSE said[c]
  IN /\ pc[c] = "answered"
     /\ Return(c, IF said[c] = "list" \/ (said[c] = "nested" /\ ask[c].entry = "pipe")
                  THEN Nothing
                  ELSE [action |-> IF ask[c].entry = "pipe" THEN Executed(action) ELSE action,
                        confidence |-> "service"])
     /\ UNCHANGED <<setting, service, ask, counters, said, config, signals>>

Leave(c) ==
  /\ pc[c] = "done" /\ GoTo(c, "idle")
  /\ ask' = [ask EXCEPT ![c] = Nothing] /\ said' = [said EXCEPT ![c] = Nothing]
  /\ result' = [result EXCEPT ![c] = Nothing]
  /\ UNCHANGED <<setting, service, counters, config, signals>>

\* Restraint is asked, or reconfigured (update_config).
Evaluate ==
  /\ guard = "restraint"
  /\ signals' \in Groups
  /\ UNCHANGED <<setting, service, pc, ask, counters, said, result, config>>

UpdateConfig ==
  /\ guard = "restraint"
  /\ config' \in [confidence : Confidences \cup {config.confidence},
                  instability : Scores \cup {config.instability},
                  failures : Counts \cup {config.failures}]
  /\ UNCHANGED <<setting, service, pc, ask, counters, said, result, signals>>

Step(c) ==
  \/ Ask(c) \/ Check(c) \/ Reset(c) \/ Answered(c) \/ Failed(c) \/ Count(c) \/ Stamp(c)
  \/ Succeed(c) \/ Store(c) \/ Conclude(c) \/ Leave(c)

Next == Tick \/ Turn \/ (\E c \in Callers : Step(c)) \/ Evaluate \/ UpdateConfig

\* Time goes on, and callers, whose calls time out, ask again and again.
Spec == Init /\ [][Next]_vars /\ WF_vars(Tick) /\ \A c \in Callers : WF_vars(Step(c))

-----------------------------------------------------------------------------

TypeOK ==
  /\ guard \in {"client", "breaker", "restraint"} /\ env \in {"dev", "stage", "prod"}
  /\ enabled \in BOOLEAN /\ brain \in {"rules", "other"} /\ service \in {"up", "down"}
  /\ pc \in [Callers -> {"idle", "check", "reset", "calling", "count", "stamp", "answered",
                         "success", "store", "done"}]
  /\ \A c \in Callers : ask[c] \in Asks(c) \cup {Nothing}
  /\ failures \in 0..MaxCount /\ age \in 0..Cooldown
  /\ state \in {"closed", "open", "half_open"} /\ success_count \in 0..1
  /\ stored \in [Callers -> Nat]
  /\ said \in [Callers -> Answer \cup {Nothing}] /\ result \in [Callers -> Decision \cup {Nothing}]
  /\ tries \in Nat /\ halves \in Nat
  /\ config \in [confidence : Int, instability : Int, failures : Int]
  /\ signals \in Groups \cup {Nothing}

(* Breakers.                                                               *)

\* However callers interleave, a service that does not answer is called a bounded number
\* of times until a full cooldown has passed.  The counters have no lock: a reset after the
\* cooldown, or a decrement read before others failed, wipes out what was counted
\* meanwhile, once for each caller that is on its way to it.
BurstsAreBounded ==
  tries <= Cardinality(Callers) * (MaxFailures + Cardinality(Callers) - 1)

\* The second breaker closes only after an answer in half-open before the one that closes
\* it.  That answer may be from before another failure, which does not reset
\* success_count: two in a row are not what closes it.
ClosingNeedsTwoAnswers ==
  [][state = "half_open" /\ state' = "closed" => halves >= 1]_vars

\* Once the service stays up and callers go on asking, no breaker stays open: the second
\* one is closed for good, and the client's, which garbled answers can trip, is closed
\* again and again.
RecoversWithTheService ==
  enabled /\ <>[](service = "up") =>
    []<>(guard # "breaker" => ~Tripped) /\ <>[](guard = "breaker" => state = "closed")

(* Decisions.                                                              *)

\* What a caller is told a service decided is what the service answered to this call; all
\* else is noop.
DecisionsAreTheServices ==
  \A c \in Callers :
    pc[c] = "done" /\ result[c] # Nothing =>
      IF result[c].confidence = "service"
      THEN /\ said[c] \notin {Nothing, "garbled"}
           /\ result[c].action \in {said[c], "noop"}
      ELSE result[c].action = "noop"

\* decision.py stays in its scope.  Through the pipe only what the executor's rules allow
\* is executed, and with decision.py in stage, whose scope has nothing in common with
\* those rules, nothing at all.  What the response validator lets through, the pipe turns
\* into noop, and what the pipe has executed, the validator would refuse: the one reads
\* codes and the other names, so that putting the validator in front of the pipe as it is
\* would let no service act.
ExecutedIsAllowedTwice ==
  \A c \in Callers :
    pc[c] = "done" /\ said[c] # Nothing =>
      /\ brain = "rules" => said[c] \in Scope
      /\ result[c] # Nothing /\ ask[c].entry = "pipe" =>
           /\ result[c].action \in SafetyRules
           /\ brain = "rules" /\ env = "stage" => result[c].action = "noop"
           /\ Validated(said[c]) = "noop" \/ result[c].action = "noop"

(* Restraint.                                                              *)

Grave(t, s) ==
  /\ t.conflict = s.conflict \/ (s.conflict = FALSE /\ t.conflict = TRUE)
  /\ IF s.memory = Nothing THEN t.memory = Nothing
     ELSE /\ t.memory # Nothing
          /\ t.memory.instability >= s.memory.instability
          /\ t.memory.failures >= s.memory.failures
  /\ IF s.decision = Nothing THEN t.decision = Nothing
     ELSE t.decision # Nothing /\ t.decision <= s.decision

Strict(d, c) ==
  d.confidence >= c.confidence /\ d.instability <= c.instability /\ d.failures <= c.failures

\* Signals that are worse in every group, or stricter thresholds, never lift a block,
\* though rules are tried in an order and the first one that blocks returns.
WorseNeverUnblocks ==
  [][signals # Nothing /\ ShouldBlock(signals)
       /\ Grave(signals', signals) /\ Strict(config', config) => ShouldBlock(signals)']_vars

\* The three questions agree as long as update_config has not set a threshold below the
\* fixed one of its counterpart: what is uncertain is blocked unless a confidence below
\* 0.5 is enough, a score that blocks is one to observe unless one of 50 or less blocks,
\* and a conflict is both.  A score that is one to observe need not block.
CautionAgrees ==
  signals # Nothing =>
    /\ Conflicting(signals) => ShouldBlock(signals) /\ ShouldObserve(signals)
    /\ Uncertain(signals) /\ config.confidence >= 50 => ShouldBlock(signals)
    /\ config.instability >= 50 /\ signals.memory # Nothing
         /\ signals.memory.instability > config.instability =>
         ShouldBlock(signals) /\ ShouldObserve(signals)

\* Both breakers: how often a dead service is called, and what closes the second one.
BreakersHold == []BurstsAreBounded /\ ClosingNeedsTwoAnswers

\* What a caller is told and what is executed, in every environment.
DecisionsAreSound == TypeOK /\ DecisionsAreTheServices /\ ExecutedIsAllowedTwice

\* The self-restraint neither contradicts itself nor relents when things get worse.
RestraintIsSound == []CautionAgrees /\ WorseNeverUnblocks

=============================================================================
