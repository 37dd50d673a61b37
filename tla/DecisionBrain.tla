---------------------------- MODULE DecisionBrain ----------------------------
(***************************************************************************)
(* The decisions of the dashboard backend (backend/app/main.py): the       *)
(* handlers that decide and that report what was decided, which FastAPI    *)
(* runs in a pool of threads, and the thread of the autonomous loop, which *)
(* polls a service (monitoring/runtime_poller.py), turns the answer into a *)
(* request (runtime_adapter.py), decides it (decision_engine.py), executes *)
(* the decision (execution_simulator.py) and publishes it.                 *)
(*                                                                         *)
(* They share bounded deques and two globals without a lock.  An operation *)
(* of a deque is atomic; everything that a handler reads or writes in turn *)
(* is a step of its own.                                                   *)
(***************************************************************************)
EXTENDS Naturals, FiniteSets, Sequences, SequencesExt

CONSTANTS
  Callers,        \* threads of the pool
  Requests,       \* bound: what POST /decision is asked, see Request
  Services,       \* bound: what the polled service does, see Service
  RecentLimit,    \* maxlen of _RECENT_DECISIONS
  AutoLimit,      \* maxlen of _AUTONOMOUS_DECISIONS
  BridgeLimit,    \* maxlen of rl_decisions of the bridge
  MaxCalls,    \* bound: requests served
  MaxCycles       \* bound: cycles of the loop are counted up to it

ASSUME BrainAssumption ==
  /\ RecentLimit \in Nat \ {0} /\ AutoLimit \in Nat \ {0} /\ BridgeLimit \in Nat \ {0}
  /\ MaxCalls \in Nat /\ MaxCycles \in Nat \ {0}

VARIABLES
  cast,       \* bound: what runs. Handlers that decide, of which the loop shares nothing
              \* ("brain"), the loop and the handlers that report on it ("status"), the
              \* loop and a service that changes ("service"), or nothing of this module
  service,    \* what the polled service does now
  disk,       \* can the poller write its files
  loop,       \* the autonomous loop
  replicas,   \* containers of the backend
  last,       \* _LAST_AUTONOMOUS_RUNTIME and _LAST_EXECUTED_ACTION
  autos,      \* _AUTONOMOUS_DECISIONS, newest first
  recent,     \* _RECENT_DECISIONS, newest first
  bridge,     \* rl_decisions of the bridge, newest first
  caller,     \* per thread: the request it serves
  begun,      \* requests begun
  made        \* ghost. Per thread: decisions it has made

world   == <<cast, service, disk>>
outcome == <<replicas, last, autos>>
history == <<recent, bridge>>
brainVars == <<world, loop, outcome, history, caller, begun, made>>

-----------------------------------------------------------------------------
(* Data.                                                                   *)

Actions == {"noop", "scale_up", "scale_down", "restart"}

\* ACTION_SCOPE.
Scope(env) == CASE env = "DEV"   -> Actions
                [] env = "STAGE" -> Actions \ {"restart"}
                [] env = "PROD"  -> {"noop", "restart"}

Request == [env : {"DEV", "STAGE", "PROD"}, cpu : 0..100, memory : 0..100]

\* Does it answer, or is there a timeout or another exception of the client; and of an
\* answer: is its status 200, does its body tell of trouble, did it take over 2 s.
Service == [reach : {"answers", "timeout", "request_exception"},
            ok : BOOLEAN, sick : BOOLEAN, slow : BOOLEAN]

Unasked == [reach |-> "answers", ok |-> TRUE, sick |-> FALSE, slow |-> FALSE]

Limited(deque, limit) == SubSeq(deque, 1, IF Len(deque) < limit THEN Len(deque) ELSE limit)

\* Faulty variant: append where the readers expect appendleft.
PushedRight(deque, entry, limit) ==
  IF Len(deque) < limit THEN Append(deque, entry) ELSE Append(Tail(deque), entry)

\* appendleft of a deque with a maxlen.
Pushed(deque, entry, limit) == Limited(<<entry>> \o deque, limit)

-----------------------------------------------------------------------------
(* DecisionEngine.decide.                                                  *)

\* The memory counts only where the CPU says nothing: a request with little CPU and
\* much memory is to be scaled down.
Proposed(r) ==
  CASE r.cpu > 80                                       -> "scale_up"
    [] r.cpu < 30                                       -> "scale_down"
    [] r.cpu \in 30..80 /\ r.memory > 85                -> "scale_up"
    [] OTHER                                            -> "noop"

Decide(r) == IF Proposed(r) \in Scope(r.env) THEN Proposed(r) ELSE "noop"

-----------------------------------------------------------------------------
(* From an answer of the service to a request: RuntimePoller and           *)
(* map_runtime_to_decision.                                                *)

Healthy(s) == s.reach = "answers" /\ s.ok /\ ~s.sick /\ ~s.slow

\* poll_once: the body outweighs the status, and both outweigh the latency.
ErrorType(s) ==
  CASE s.reach # "answers"                                 -> s.reach
    [] s.reach = "answers" /\ s.sick                       -> "body_status_unhealthy"
    [] s.reach = "answers" /\ ~s.sick /\ ~s.ok             -> "http_error"
    [] s.reach = "answers" /\ ~s.sick /\ s.ok /\ s.slow    -> "high_latency"
    [] OTHER                                               -> "none"

\* Faulty variant: whatever is wrong counts as a crash.
PayloadCoarse(s, n) ==
  [state |-> IF Healthy(s) THEN "running" ELSE "crashed",
   errors |-> IF Healthy(s) THEN 0 ELSE 1, cycle |-> n]

\* build_runtime_payload; cycle is a ghost.
Payload(s, n) ==
  [state |-> IF Healthy(s) THEN "running"
             ELSE IF ErrorType(s) \in {"timeout", "request_exception"} THEN "crashed"
             ELSE "degraded",
   errors |-> IF Healthy(s) THEN 0 ELSE 1, cycle |-> n]

\* The figures are made up, and the event type, which would tell of latency, is nothing
\* the engine looks at. The poller is one of the environment dev.
Asked(payload) ==
  [env |-> "DEV", cpu |-> IF payload.state = "running" THEN 30 ELSE 70,
   memory |-> IF payload.errors > 0 THEN 75 ELSE 40]

\* docker compose up --scale, of which restart changes nothing that lasts.
Scaled(action) == CASE action = "scale_up"   -> 3
                    [] action = "scale_down" -> 1
                    [] OTHER                 -> replicas

-----------------------------------------------------------------------------

Quiet == [pc |-> "idle", op |-> "none", request |-> [env |-> "DEV", cpu |-> 50, memory |-> 40],
          action |-> "noop", total |-> 0, synced |-> 0, name |-> "-", runtime |-> 0,
          executed |-> 0]

BrainInit ==
  /\ cast \in {"brain", "status", "service", "other"}
  /\ service \in IF cast = "service" THEN Services ELSE {Unasked}
  /\ disk = TRUE
  /\ loop = [pc |-> "poll", cycle |-> 0, service |-> Unasked, action |-> "noop"]
  /\ replicas = 2
  /\ last = [runtime |-> [state |-> "none", errors |-> 0, cycle |-> 0],
             action |-> "none", executed |-> 0]
  /\ autos = <<>> /\ recent = <<>> /\ bridge = <<>>
  /\ caller = [c \in Callers |-> Quiet]
  /\ begun = 0
  /\ made = [c \in Callers |-> 0]

\* The service changes; the files of the poller cannot be written, or can again.
Weather ==
  /\ cast = "service"
  /\ \/ /\ service' \in Services \ {service}
        /\ UNCHANGED disk
     \/ /\ disk' = ~disk
        /\ UNCHANGED service
  /\ UNCHANGED <<cast, loop, outcome, history, caller, begun, made>>

-----------------------------------------------------------------------------
(* autonomous_loop.                                                        *)

LoopStep(from) ==
  /\ cast \in {"status", "service"} /\ loop.pc = from
  /\ UNCHANGED <<world, history, caller, begun, made>>
LoopTo(to) == loop' = [loop EXCEPT !.pc = to]

\* `except Exception`: whatever fails, the next cycle comes.
Fails(from) == LoopStep(from) /\ ~disk /\ LoopTo("sleep") /\ UNCHANGED outcome

\* poll_service with the row that _log_result writes.
Poll ==
  /\ LoopStep("poll")
  /\ disk
  /\ loop' = [loop EXCEPT !.pc = "decide", !.service = service]
  /\ UNCHANGED outcome

\* The payload with its row, and the decision.
DecideForService ==
  /\ LoopStep("decide")
  /\ disk
  /\ loop' = [loop EXCEPT !.pc = "execute",
                          !.action = Decide(Asked(Payload(loop.service, loop.cycle))),
                          !.cycle = IF @ < MaxCycles THEN @ + 1 ELSE @]
  /\ UNCHANGED outcome

Execute ==
  /\ LoopStep("execute")
  /\ replicas' = Scaled(loop.action)
  /\ LoopTo("runtime")
  /\ UNCHANGED <<last, autos>>

StoreRuntime ==
  /\ LoopStep("runtime")
  /\ last' = [last EXCEPT !.runtime = Payload(loop.service, loop.cycle)]
  /\ LoopTo("action")
  /\ UNCHANGED <<replicas, autos>>

StoreAction ==
  /\ LoopStep("action")
  /\ last' = [last EXCEPT !.action = loop.action, !.executed = loop.cycle]
  /\ LoopTo("decision")
  /\ UNCHANGED <<replicas, autos>>

\* Faulty variant: a decision not to act is not worth a record.
StoreDecisionIfActed ==
  /\ LoopStep("decision")
  /\ autos' = IF loop.action = "noop" THEN autos
              ELSE Pushed(autos, [runtime |-> Payload(loop.service, loop.cycle),
                                  action |-> loop.action], AutoLimit)
  /\ LoopTo("sleep")
  /\ UNCHANGED <<replicas, last>>

StoreDecision ==
  /\ LoopStep("decision")
  /\ autos' = Pushed(autos, [runtime |-> Payload(loop.service, loop.cycle),
                             action |-> loop.action], AutoLimit)
  /\ LoopTo("sleep")
  /\ UNCHANGED <<replicas, last>>

Sleep ==
  /\ LoopStep("sleep")
  /\ LoopTo("poll")
  /\ UNCHANGED outcome

Loop ==
  \/ Poll \/ Fails("poll") \/ DecideForService \/ Fails("decide")
  \/ Execute \/ StoreRuntime \/ StoreAction \/ StoreDecision \/ Sleep

-----------------------------------------------------------------------------
(* Handlers.                                                               *)

First == [decision |-> "decide", sync |-> "decide", summary |-> "count", metrics |-> "synced",
          status |-> "runtime"]

BeginCall(c, op, request) ==
  /\ cast = (IF op = "status" THEN "status" ELSE "brain") /\ caller[c].pc = "idle"
  /\ begun < MaxCalls
  /\ begun' = begun + 1
  /\ caller' = [caller EXCEPT ![c] = [Quiet EXCEPT !.pc = First[op], !.op = op,
                                                   !.request = request]]
  /\ UNCHANGED <<world, loop, outcome, history, made>>

HandlerStep(c, from) == caller[c].pc = from /\ UNCHANGED <<world, loop, outcome, begun>>
Answer(c) == caller' = [caller EXCEPT ![c] = Quiet]

\* Faulty variant: the bridge learns of a decision that is still to be appended.
MakeDecisionRecorded(c) ==
  /\ HandlerStep(c, "decide")
  /\ made' = [made EXCEPT ![c] = @ + 1]
  /\ caller' = [caller EXCEPT ![c].pc = "append", ![c].action = Decide(caller[c].request)]
  /\ bridge' = IF caller[c].op = "sync"
               THEN Pushed(bridge, Decide(caller[c].request), BridgeLimit) ELSE bridge
  /\ UNCHANGED recent

\* The body of POST /decision and of POST /decision-with-control-plane: DecisionEngine,
MakeDecision(c) ==
  /\ HandlerStep(c, "decide")
  /\ made' = [made EXCEPT ![c] = @ + 1]
  /\ caller' = [caller EXCEPT ![c].pc = "append", ![c].action = Decide(caller[c].request)]
  /\ UNCHANGED history

\* the deque
AppendDecision(c) ==
  /\ HandlerStep(c, "append")
  /\ recent' = Pushed(recent, [action |-> caller[c].action, by |-> c, number |-> made[c]],
                      RecentLimit)
  /\ IF caller[c].op = "sync" THEN caller' = [caller EXCEPT ![c].pc = "record"] ELSE Answer(c)
  /\ UNCHANGED <<bridge, made>>

\* and, of the latter, record_rl_decision of the bridge.
RecordDecision(c) ==
  /\ HandlerStep(c, "record")
  /\ bridge' = Pushed(bridge, caller[c].action, BridgeLimit)
  /\ Answer(c)
  /\ UNCHANGED <<recent, made>>

Newest == IF recent = <<>> THEN "-" ELSE recent[1].action

\* GET /decision-summary: the number of decisions,
CountDecisions(c) ==
  /\ HandlerStep(c, "count")
  /\ caller' = [caller EXCEPT ![c].total = Len(recent), ![c].pc = "name"]
  /\ UNCHANGED <<history, made>>

\* Faulty variant: the action was read with the request.
NameEarlier(c) ==
  /\ HandlerStep(c, "name")
  /\ caller' = [caller EXCEPT ![c].pc = "summarised"]
  /\ UNCHANGED <<history, made>>

\* and then the action of the newest.
NameNewest(c) ==
  /\ HandlerStep(c, "name")
  /\ caller' = [caller EXCEPT ![c].name = Newest, ![c].pc = "summarised"]
  /\ UNCHANGED <<history, made>>

\* GET /orchestration/metrics: the figures of the bridge are read first,
ReadSynced(c) ==
  /\ HandlerStep(c, "synced")
  /\ caller' = [caller EXCEPT ![c].synced = Len(bridge), ![c].pc = "brain"]
  /\ UNCHANGED <<history, made>>

\* then those of the brain, which are read again for the unified total.
ReadDecided(c) ==
  /\ HandlerStep(c, "brain")
  /\ caller' = [caller EXCEPT ![c].total = Len(recent), ![c].pc = "counted"]
  /\ UNCHANGED <<history, made>>

\* GET /autonomous-status: three globals, in the order in which the loop writes them.
ReadRuntime(c) ==
  /\ HandlerStep(c, "runtime")
  /\ caller' = [caller EXCEPT ![c].runtime = last.runtime.cycle, ![c].pc = "action"]
  /\ UNCHANGED <<history, made>>

ReadAction(c) ==
  /\ HandlerStep(c, "action")
  /\ caller' = [caller EXCEPT ![c].executed = last.executed, ![c].pc = "autos"]
  /\ UNCHANGED <<history, made>>

ReadAutos(c) ==
  /\ HandlerStep(c, "autos")
  /\ caller' = [caller EXCEPT ![c].total = IF autos = <<>> THEN 0 ELSE autos[1].runtime.cycle,
                              ![c].pc = "reported"]
  /\ UNCHANGED <<history, made>>

Reply(c) ==
  /\ caller[c].pc \in {"summarised", "counted", "reported"}
  /\ Answer(c)
  /\ UNCHANGED <<world, loop, outcome, history, begun, made>>

Serve(c) ==
  \/ MakeDecision(c) \/ AppendDecision(c) \/ RecordDecision(c)
  \/ CountDecisions(c) \/ NameNewest(c) \/ ReadSynced(c) \/ ReadDecided(c)
  \/ ReadRuntime(c) \/ ReadAction(c) \/ ReadAutos(c) \/ Reply(c)

-----------------------------------------------------------------------------

BrainNext ==
  \/ Weather \/ Loop
  \/ \E c \in Callers :
       \/ \E op \in {"decision", "sync"}, r \in Requests : BeginCall(c, op, r)
       \/ \E op \in {"summary", "metrics", "status"} : BeginCall(c, op, Quiet.request)
       \/ Serve(c)

\* The loop's thread goes on by itself: every call in it has a timeout or ends.
BrainFairness == WF_brainVars(Loop)
BrainSpec == BrainInit /\ [][BrainNext]_brainVars /\ BrainFairness

-----------------------------------------------------------------------------
(* Properties.                                                             *)

Entries(deque) == {deque[i] : i \in DOMAIN deque}

\* The deques keep to their limits, and every variable to its values.
DecisionsTypeOK ==
  /\ cast \in {"brain", "status", "service", "other"}
  /\ service \in Services \cup {Unasked} /\ disk \in BOOLEAN
  /\ loop.pc \in {"poll", "decide", "execute", "runtime", "action", "decision", "sleep"}
  /\ loop.cycle \in 0..MaxCycles /\ loop.service \in Services \cup {Unasked}
  /\ {loop.action} \cup Entries(bridge) \subseteq Actions
  /\ replicas \in 1..3
  /\ last.runtime.state \in {"none", "running", "degraded", "crashed"}
  /\ last.action \in Actions \cup {"none"} /\ last.executed \in 0..MaxCycles
  /\ \A e \in Entries(recent) : e.action \in Actions /\ e.by \in Callers /\ e.number \in Nat
  /\ Len(recent) <= RecentLimit /\ Len(autos) <= AutoLimit /\ Len(bridge) <= BridgeLimit
  /\ \A c \in Callers : /\ caller[c].total \in Nat /\ caller[c].synced \in Nat
                        /\ made[c] \in 0..begun
  /\ begun \in 0..MaxCalls

\* The summary is put together from two reads between which other threads decide. As the
\* number is read first and the deque never shrinks, a summary that counts a decision
\* also names one (decision_summary, main.py:640-641).
SummaryNamesWhatItCounts ==
  \A c \in Callers :
    caller[c].pc = "summarised" /\ caller[c].total > 0 => caller[c].name # "-"

\* In the unified metrics the bridge never shows more decisions than the brain has, up to
\* the limit of the brain's deque: a decision is recorded by the bridge after it is
\* appended, and the bridge is asked first (main.py:746-755, 789-798).
CountsAgree ==
  \A c \in Callers :
    caller[c].pc = "counted" =>
      caller[c].synced <= caller[c].total \/ caller[c].total = RecentLimit

\* Between threads the recent activity is in the order of the appends, which need not be
\* that of the decisions; but of one thread the newer decision always comes first, and
\* the last one is there unless RecentLimit others are (recent_activity, main.py:616).
OwnDecisionsNewestFirst ==
  /\ \A i, j \in DOMAIN recent :
       i < j /\ recent[i].by = recent[j].by => recent[i].number > recent[j].number
  /\ \A c \in Callers :
       made[c] > 0 /\ caller[c].pc # "append" /\ Len(recent) < RecentLimit =>
         \E e \in Entries(recent) : e.by = c /\ e.number = made[c]

\* GET /autonomous-status reads the globals one after the other while the loop writes
\* them in the same order: what it reads later is at most one cycle behind what it read
\* before (main.py:840-845, 861-864).
StatusLagsAtMostOneCycle ==
  \A c \in Callers :
    caller[c].pc = "reported" =>
      /\ caller[c].runtime <= caller[c].executed + 1
      /\ caller[c].runtime <= caller[c].total + 1
      /\ caller[c].executed <= caller[c].total + 1

\* Once the service is steady and the disk can be written, the runtime that is shown is
\* what the service does, for good; no failure of a cycle ends the loop (main.py:825-850).
StatusFollowsService ==
  cast = "service" =>
  /\ <>[](disk /\ service.reach # "answers") => <>[](last.runtime.state = "crashed")
  /\ <>[](disk /\ Healthy(service)) => <>[](last.runtime.state = "running")
  /\ <>[](disk /\ service.reach = "answers" /\ ~Healthy(service)) =>
       <>[](last.runtime.state = "degraded")

\* The reports on decisions, each put together from several reads.
ReportsAreConsistent ==
  /\ DecisionsTypeOK
  /\ SummaryNamesWhatItCounts /\ CountsAgree /\ OwnDecisionsNewestFirst
  /\ StatusLagsAtMostOneCycle

=============================================================================
