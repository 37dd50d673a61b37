---------------------------- MODULE AgentRuntime ----------------------------
(***************************************************************************)
(* The agent runtime (agent_runtime.py, control_plane/core/agent_state.py) *)
(* as control_plane/api/agent_api.py deploys it: one AgentRuntime object   *)
(* shared by the daemon thread inside run() and by the Flask request       *)
(* threads that call handle_external_event.  The threads serialise their   *)
(* cycles with _loop_lock; _shutdown, called by the loop thread, moves the *)
(* state machine and saves it without that lock.                           *)
(*                                                                         *)
(* transition_to tests VALID_TRANSITIONS and then assigns _current_state;  *)
(* the two are separate steps here, so that a transition of _shutdown may  *)
(* fall between the two halves of a transition of the lock's holder.       *)
(***************************************************************************)
EXTENDS Naturals, FiniteSets

CONSTANTS
  Requests,            \* Flask request threads, each handling one event
  Loop,                \* the thread inside run()
  Nobody,              \* owner of a free lock; no decision explained yet
  PerceptionOutcomes,  \* what _sense may get from the registered adapters
  ReusesAgentId,       \* is the process restarted with the same --agent-id
  MaxRestarts          \* bound: restarts explored

ASSUME RuntimeAssumption ==
  /\ Loop \notin Requests
  /\ Nobody \notin Requests \cup {Loop}
  /\ Requests \cap {"none", "failed", "refused", "empty", "lost"} = {}
  /\ Loop \notin {"none", "failed", "refused", "empty", "lost"}
  /\ PerceptionOutcomes \subseteq {"nothing", "observation", "error"}
  /\ ReusesAgentId \in BOOLEAN
  /\ MaxRestarts \in Nat

Threads == Requests \cup {Loop}

VARIABLES
  fsm,           \* state_manager._current_state
  pending,       \* per thread: a state read or approved, not yet written
  lock,          \* owner of _loop_lock
  shutdown,      \* _shutdown_requested
  pc,            \* per thread: the program point it is at
  lastDecision,  \* _last_decision: whose cycle was explained last
  outcome,       \* per request: what handle_external_event gave its caller
  answered,      \* threads whose last external decision was answered
  executed,      \* threads whose signal the executer has emitted
  history,       \* threads with a row in the decision history file
  file,          \* the saved agent state
  restarts       \* processes started after the first

vars == <<fsm, pending, lock, shutdown, pc, lastDecision, outcome, answered,
          executed, history, file, restarts>>

-----------------------------------------------------------------------------
(* The state machine of agent_state.py.                                    *)

AgentState == {"idle", "observing", "validating", "deciding", "enforcing",
               "acting", "observing_results", "explaining", "blocked",
               "shutting_down"}

\* A faulty table: ACTING does not lead to OBSERVING_RESULTS.
TransitionsNoResults(s) ==
  CASE s = "idle"       -> {"observing", "shutting_down"}
    [] s = "observing"  -> {"validating", "idle", "blocked"}
    [] s = "validating" -> {"deciding", "idle", "blocked"}
    [] s = "deciding"   -> {"enforcing", "blocked"}
    [] s = "enforcing"  -> {"acting", "idle", "blocked"}
    [] s = "blocked"    -> {"idle", "shutting_down"}
    [] OTHER            -> {}

\* VALID_TRANSITIONS.
ValidTransitions(s) ==
  CASE s = "idle"              -> {"observing", "shutting_down"}
    [] s = "observing"         -> {"validating", "idle", "blocked"}
    [] s = "validating"        -> {"deciding", "idle", "blocked"}
    [] s = "deciding"          -> {"enforcing", "blocked"}
    [] s = "enforcing"         -> {"acting", "idle", "blocked"}
    [] s = "acting"            -> {"observing_results", "blocked"}
    [] s = "observing_results" -> {"explaining", "blocked"}
    [] s = "explaining"        -> {"idle", "blocked"}
    [] s = "blocked"           -> {"idle", "shutting_down"}
    [] OTHER                   -> {}

\* Program points that ask for a transition, and the state they ask for.
TransitionPoints == {"sense", "block", "validate", "decide", "enforce", "act",
                     "observe", "explain", "reset", "stop"}

Target(point) ==
  CASE point = "sense"    -> "observing"
    [] point = "block"    -> "blocked"
    [] point = "validate" -> "validating"
    [] point = "decide"   -> "deciding"
    [] point = "enforce"  -> "enforcing"
    [] point = "act"      -> "acting"
    [] point = "observe"  -> "observing_results"
    [] point = "explain"  -> "explaining"
    [] point = "reset"    -> "idle"
    [] OTHER              -> "shutting_down"

\* Where a thread goes once the transition has been made.
After(t, point) ==
  CASE point = "sense"    -> IF t = Loop THEN "perceive" ELSE "validate"
    [] point = "block"    -> "reset"
    [] point = "validate" -> "decide"
    [] point = "decide"   -> "consult"
    [] point = "enforce"  -> "act"
    [] point = "act"      -> "execute"
    [] point = "observe"  -> "explain"
    [] point = "explain"  -> "store"
    [] point = "reset"    -> IF t = Loop THEN "release" ELSE "reply"
    [] OTHER              -> "save"

Points == TransitionPoints \cup
  {"start", "new", "wait", "admit", "perceive", "consult", "execute", "record",
   "store", "reply", "release", "save", "write", "dead", "done"}

\* Points between acquiring and releasing _loop_lock.
CyclePoints == {"admit", "sense", "block", "perceive", "validate", "decide",
                "consult", "enforce", "act", "execute", "record", "observe",
                "explain", "store", "reset", "reply", "release"}

\* The loop thread has left its while loop.
StopPoints == {"stop", "save", "write", "dead"}

Goto(t, point) == pc' = [pc EXCEPT ![t] = point]

-----------------------------------------------------------------------------

Init ==
  /\ fsm = "idle"
  /\ pending = [t \in Threads |-> "none"]
  /\ lock = Nobody
  /\ shutdown = FALSE
  /\ pc = [t \in Threads |-> IF t = Loop THEN "start" ELSE "new"]
  /\ lastDecision = Nobody
  /\ outcome = [r \in Requests |-> "none"]
  /\ answered = {}
  /\ executed = {}
  /\ history = {}
  /\ file = "absent"
  /\ restarts = 0

\* runtime_decision: a validated event is handed to handle_external_event.
Submit(r) ==
  /\ pc[r] = "new"
  /\ Goto(r, "wait")
  /\ UNCHANGED <<fsm, pending, lock, shutdown, lastDecision, outcome, answered,
                 executed, history, file, restarts>>

\* A faulty variant: the loop does not look at the flag.
TestNothing ==
  /\ pc[Loop] = "start"
  /\ Goto(Loop, "wait")
  /\ UNCHANGED <<fsm, pending, lock, shutdown, lastDecision, outcome, answered,
                 executed, history, file, restarts>>

\* run: the test of the while loop, made before the lock is taken.
TestShutdown ==
  /\ pc[Loop] = "start"
  /\ Goto(Loop, IF shutdown THEN "stop" ELSE "wait")
  /\ UNCHANGED <<fsm, pending, lock, shutdown, lastDecision, outcome, answered,
                 executed, history, file, restarts>>

\* `with self._loop_lock`, in run and in handle_external_event.
Acquire(t) ==
  /\ pc[t] = "wait"
  /\ lock = Nobody
  /\ lock' = t
  /\ Goto(t, IF t = Loop THEN "sense" ELSE "admit")
  /\ UNCHANGED <<fsm, pending, shutdown, lastDecision, outcome, answered,
                 executed, history, file, restarts>>

\* handle_external_event, holding the lock: refuse once shutting down.
Admit(r) ==
  /\ pc[r] = "admit"
  /\ IF shutdown
       THEN /\ outcome' = [outcome EXCEPT ![r] = "refused"]
            /\ Goto(r, "release")
       ELSE /\ Goto(r, "sense")
            /\ UNCHANGED outcome
  /\ UNCHANGED <<fsm, pending, lock, shutdown, lastDecision, answered,
                 executed, history, file, restarts>>

(***************************************************************************)
(* transition_to.  CheckTransition is can_transition_to, AssignTransition  *)
(* the assignment of _current_state.  A manual cycle does not ask for      *)
(* OBSERVING unless the agent is IDLE, and no cycle asks for IDLE twice.   *)
(***************************************************************************)
SkipsTransition(t) ==
  \/ pc[t] = "sense" /\ t # Loop /\ fsm # "idle"
  \/ pc[t] = "reset" /\ fsm = "idle"

CheckTransition(t) ==
  /\ pc[t] \in TransitionPoints
  /\ pending[t] = "none"
  /\ ~SkipsTransition(t)
  /\ Target(pc[t]) \in ValidTransitions(fsm)
  /\ pending' = [pending EXCEPT ![t] = Target(pc[t])]
  /\ UNCHANGED <<fsm, lock, shutdown, pc, lastDecision, outcome, answered,
                 executed, history, file, restarts>>

AssignTransition(t) ==
  /\ pc[t] \in TransitionPoints
  /\ pending[t] # "none"
  /\ fsm' = pending[t]
  /\ pending' = [pending EXCEPT ![t] = "none"]
  /\ Goto(t, After(t, pc[t]))
  /\ UNCHANGED <<lock, shutdown, lastDecision, outcome, answered, executed,
                 history, file, restarts>>

SkipTransition(t) ==
  /\ pending[t] = "none"
  /\ SkipsTransition(t)
  /\ Goto(t, IF pc[t] = "sense" THEN "validate" ELSE After(t, pc[t]))
  /\ UNCHANGED <<fsm, pending, lock, shutdown, lastDecision, outcome, answered,
                 executed, history, file, restarts>>

\* An exception inside a cycle.  run's `with` releases the lock and its
\* `finally` calls _shutdown; handle_external_event's `finally` resets.
Raise(t) ==
  IF t = Loop
    THEN /\ lock' = Nobody
         /\ Goto(t, "stop")
         /\ UNCHANGED outcome
    ELSE /\ outcome' = [outcome EXCEPT ![t] = "failed"]
         /\ Goto(t, "reset")
         /\ UNCHANGED lock

\* ValueError from transition_to: swallowed by _shutdown, an exception of
\* the cycle elsewhere.
RejectTransition(t) ==
  /\ pc[t] \in TransitionPoints
  /\ pending[t] = "none"
  /\ ~SkipsTransition(t)
  /\ Target(pc[t]) \notin ValidTransitions(fsm)
  /\ \/ /\ pc[t] = "stop"
        /\ Goto(t, "save")
        /\ UNCHANGED <<lock, outcome>>
     \/ /\ pc[t] # "stop"
        /\ pc[t] = "reset" => t = Loop
        /\ Raise(t)
  /\ UNCHANGED <<fsm, pending, shutdown, lastDecision, answered, executed,
                 history, file, restarts>>

\* A faulty variant: the manual cycle gives up where IDLE is not reachable.
NoForceReset(r) ==
  /\ pc[r] = "reset"
  /\ pending[r] = "none"
  /\ fsm # "idle"
  /\ "idle" \notin ValidTransitions(fsm)
  /\ Goto(r, "reply")
  /\ UNCHANGED <<fsm, pending, lock, shutdown, lastDecision, outcome, answered,
                 executed, history, file, restarts>>

\* handle_external_event's last resort: _current_state is overwritten.
ForceReset(r) ==
  /\ pc[r] = "reset"
  /\ pending[r] = "none"
  /\ fsm # "idle"
  /\ "idle" \notin ValidTransitions(fsm)
  /\ fsm' = "idle"
  /\ Goto(r, "reply")
  /\ UNCHANGED <<pending, lock, shutdown, lastDecision, outcome, answered,
                 executed, history, file, restarts>>

-----------------------------------------------------------------------------
(* The phases of _execute_agent_loop that do more than change state.       *)

\* _sense, after its transition.
Perceive ==
  /\ pc[Loop] = "perceive"
  /\ \E found \in PerceptionOutcomes :
       Goto(Loop, CASE found = "observation" -> "validate"
                    [] found = "error"       -> "block"
                    [] OTHER                 -> "reset")
  /\ UNCHANGED <<fsm, pending, lock, shutdown, lastDecision, outcome, answered,
                 executed, history, file, restarts>>

\* _decide: when the service does not answer, the fallback noop decision is
\* returned; when it answers, no return statement is reached, and the
\* caller's `safe_action.get` raises AttributeError on None.
Consult(t) ==
  /\ pc[t] = "consult"
  /\ \/ /\ answered' = answered \cup {t}
        /\ Raise(t)
     \/ /\ Goto(t, "enforce")
        /\ UNCHANGED <<lock, outcome, answered>>
  /\ UNCHANGED <<fsm, pending, shutdown, lastDecision, executed, history, file,
                 restarts>>

\* A faulty variant: a signal the executer refused counts as executed.
ExecuteOrNot(t) ==
  /\ pc[t] = "execute"
  /\ \/ executed' = executed \cup {t}
     \/ UNCHANGED executed
  /\ Goto(t, "record")
  /\ UNCHANGED <<fsm, pending, lock, shutdown, lastDecision, outcome, answered,
                 history, file, restarts>>

\* _act: the signal goes through executer.runner.execute.  An event of the
\* API always carries a trace_id; an observation without one fails first,
\* and _act then returns without a history row.
Execute(t) ==
  /\ pc[t] = "execute"
  /\ \/ /\ executed' = executed \cup {t}
        /\ Goto(t, "record")
     \/ /\ t = Loop
        /\ Goto(t, "observe")
        /\ UNCHANGED executed
  /\ UNCHANGED <<fsm, pending, lock, shutdown, lastDecision, outcome, answered,
                 history, file, restarts>>

\* _act: append_decision_history; a failed write is logged and forgotten.
Record(t) ==
  /\ pc[t] = "record"
  /\ \/ history' = history \cup {t}
     \/ UNCHANGED history
  /\ Goto(t, "observe")
  /\ UNCHANGED <<fsm, pending, lock, shutdown, lastDecision, outcome, answered,
                 executed, file, restarts>>

\* A faulty variant: the explanation is not kept for the caller.
ForgetDecision(t) ==
  /\ pc[t] = "store"
  /\ Goto(t, "reset")
  /\ UNCHANGED <<fsm, pending, lock, shutdown, lastDecision, outcome, answered,
                 executed, history, file, restarts>>

\* _explain: the explanation is kept for synchronous retrieval.
StoreDecision(t) ==
  /\ pc[t] = "store"
  /\ lastDecision' = t
  /\ Goto(t, "reset")
  /\ UNCHANGED <<fsm, pending, lock, shutdown, outcome, answered, executed,
                 history, file, restarts>>

\* handle_external_event: the return value, read while the lock is held.
Reply(r) ==
  /\ pc[r] = "reply"
  /\ \/ outcome[r] = "failed" /\ UNCHANGED outcome
     \/ /\ outcome[r] # "failed"
        /\ outcome' = [outcome EXCEPT ![r] =
                         IF lastDecision = Nobody THEN "empty" ELSE lastDecision]
  /\ Goto(r, "release")
  /\ UNCHANGED <<fsm, pending, lock, shutdown, lastDecision, answered,
                 executed, history, file, restarts>>

\* A faulty variant: the loop thread keeps the lock while it sleeps.
KeepLock(t) ==
  /\ pc[t] = "release"
  /\ Goto(t, IF t = Loop THEN "start" ELSE "done")
  /\ UNCHANGED <<fsm, pending, lock, shutdown, lastDecision, outcome, answered,
                 executed, history, file, restarts>>

\* The end of the `with` block: the request returns, the loop sleeps.
Release(t) ==
  /\ pc[t] = "release"
  /\ lock' = Nobody
  /\ Goto(t, IF t = Loop THEN "start" ELSE "done")
  /\ UNCHANGED <<fsm, pending, shutdown, lastDecision, outcome, answered,
                 executed, history, file, restarts>>

-----------------------------------------------------------------------------
(* Shutdown, crash and restart.                                            *)

\* _signal_handler.
Signal ==
  /\ ~shutdown
  /\ shutdown' = TRUE
  /\ UNCHANGED <<fsm, pending, lock, pc, lastDecision, outcome, answered,
                 executed, history, file, restarts>>

\* A faulty variant: the file is truncated before the state is read.
OpenUnread ==
  /\ pc[Loop] = "save"
  /\ file' = "torn"
  /\ Goto(Loop, "write")
  /\ UNCHANGED <<fsm, pending, lock, shutdown, lastDecision, outcome, answered,
                 executed, history, restarts>>

\* _shutdown, after its transition: save_to_file reads the state, then
\* truncates the file.  The lock is not taken.
OpenStateFile ==
  /\ pc[Loop] = "save"
  /\ pending' = [pending EXCEPT ![Loop] = fsm]
  /\ file' = "torn"
  /\ Goto(Loop, "write")
  /\ UNCHANGED <<fsm, lock, shutdown, lastDecision, outcome, answered, executed,
                 history, restarts>>

\* save_to_file: json.dump writes what was read; then run ends.
WriteStateFile ==
  /\ pc[Loop] = "write"
  /\ file' = pending[Loop]
  /\ pending' = [pending EXCEPT ![Loop] = "none"]
  /\ Goto(Loop, "dead")
  /\ UNCHANGED <<fsm, lock, shutdown, lastDecision, outcome, answered, executed,
                 history, restarts>>

\* The process dies at any point, or has ended, and is started again.
\* __init__ reloads the state of the same agent id; a file that does not
\* parse yields a fresh manager.  Requests in flight lose their caller.
Restart ==
  /\ restarts < MaxRestarts
  /\ restarts' = restarts + 1
  /\ fsm' = IF ReusesAgentId /\ file \in AgentState THEN file ELSE "idle"
  /\ file' = IF ReusesAgentId THEN file ELSE "absent"
  /\ pending' = [t \in Threads |-> "none"]
  /\ lock' = Nobody
  /\ shutdown' = FALSE
  /\ lastDecision' = Nobody
  /\ pc' = [t \in Threads |->
              IF t = Loop THEN "start"
              ELSE IF pc[t] = "new" THEN "new" ELSE "done"]
  /\ outcome' = [r \in Requests |->
                   IF pc[r] \in {"new", "done"} THEN outcome[r] ELSE "lost"]
  /\ UNCHANGED <<answered, executed, history>>

\* run has ended and every request has been answered.
Finished ==
  /\ pc[Loop] = "dead"
  /\ \A r \in Requests : pc[r] = "done"
  /\ UNCHANGED vars

-----------------------------------------------------------------------------

CycleStep(t) ==
  \/ CheckTransition(t)
  \/ AssignTransition(t)
  \/ SkipTransition(t)
  \/ RejectTransition(t)
  \/ Consult(t)
  \/ Execute(t)
  \/ Record(t)
  \/ StoreDecision(t)
  \/ Release(t)

RequestStep(r) == Admit(r) \/ ForceReset(r) \/ Reply(r) \/ CycleStep(r)

LoopStep == \/ TestShutdown
            \/ Perceive
            \/ OpenStateFile
            \/ WriteStateFile
            \/ CycleStep(Loop)

Next ==
  \/ \E r \in Requests : Submit(r) \/ RequestStep(r)
  \/ \E t \in Threads : Acquire(t)
  \/ LoopStep
  \/ Signal
  \/ Restart
  \/ Finished

Spec == Init /\ [][Next]_vars

\* Every thread is scheduled, and every call in a cycle returns (the POST
\* has a two-second timeout).  A thread blocked on the lock gets it if the
\* lock is released again and again: the loop thread sleeps between cycles
\* without the lock.  Nothing obliges a client, a signal or a crash.
FairSpec ==
  /\ Spec
  /\ WF_vars(LoopStep)
  /\ \A r \in Requests : WF_vars(RequestStep(r))
  /\ \A t \in Threads : SF_vars(Acquire(t))

-----------------------------------------------------------------------------

TypeOK ==
  /\ fsm \in AgentState
  /\ pending \in [Threads -> AgentState \cup {"none"}]
  /\ lock \in Threads \cup {Nobody}
  /\ shutdown \in BOOLEAN
  /\ pc \in [Threads -> Points]
  /\ lastDecision \in Threads \cup {Nobody}
  /\ outcome \in [Requests -> Threads \cup {"none", "failed", "refused",
                                            "empty", "lost"}]
  /\ answered \subseteq Threads
  /\ executed \subseteq Threads
  /\ history \subseteq Threads
  /\ file \in AgentState \cup {"absent", "torn"}
  /\ restarts \in 0..MaxRestarts

\* The lock excludes: a thread inside its cycle, from admission to the end
\* of the `with` block, owns the lock (run and handle_external_event).
CycleHoldsLock == \A t \in Threads : pc[t] \in CyclePoints <=> lock = t

\* "Return to idle while still holding the lock (Atomic Cycle)"
\* (agent_runtime.py:296): while the loop thread is in service, whoever
\* finds the lock free finds the agent IDLE, however the last cycle ended.
\* It is claimed for a process that did not resume a saved state.
ResumedNothing == restarts = 0 \/ ~ReusesAgentId

AtomicCycle ==
  (lock = Nobody /\ pc[Loop] \notin StopPoints /\ ResumedNothing)
    => fsm = "idle"

\* A request whose cycle failed after its action had been executed is told
\* so only when the loop thread was stopping at the time: _shutdown is the
\* one writer that can break into a cycle.
FailureExecutesNothing ==
  \A r \in Requests :
    (pc[r] = "reset" /\ outcome[r] = "failed" /\ r \in executed)
      => pc[Loop] \in StopPoints

\* The decision history never tells of an execution that did not happen,
\* also across a crash between the two (the order of the steps of _act).
HistoryMatchesExecution == history \subseteq executed

\* Every request that reaches handle_external_event gets a reply: nobody
\* waits for the lock for ever, whatever becomes of the other cycles.
EveryRequestReturns ==
  \A r \in Requests : (pc[r] = "wait") ~> (pc[r] = "done")

\* A shutdown request ends the loop thread with a complete state file, or
\* the process is killed first.
ShutdownSavesState ==
  shutdown ~> (~shutdown \/ (pc[Loop] = "dead" /\ file \in AgentState))

\* The runtime implements the serial service: the lock's owner is the one
\* active cycle.
Serial == INSTANCE SerialAgent WITH active <- lock
SerialService == Serial!SSpec

-----------------------------------------------------------------------------
(* Statements of the source that the code contradicts.                     *)

\* "terminal state" (agent_state.py:41): a process that has moved to
\* SHUTTING_DOWN stays there.
ShuttingDownIsTerminal ==
  [][(fsm = "shutting_down" /\ restarts' = restarts)
       => fsm' = "shutting_down"]_vars

\* "sense -> validate -> decide -> enforce -> act -> observe -> explain"
\* (agent_runtime.py:6): a decision that the decision service returned is
\* enforced and acted on, it does not end the cycle with an error.
AnsweredDecisionsAreActedOn ==
  \A r \in Requests \cap answered : outcome[r] # "failed"

=============================================================================
