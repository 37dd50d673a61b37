------------------------------ MODULE AgentMemory ------------------------------
(***************************************************************************)
(* The agent's short-term memory (control_plane/core/agent_memory.py): a   *)
(* bounded deque of decisions, one bounded deque of states per             *)
(* application, two counters, and the snapshot file from which             *)
(* agent_runtime.py recovers them when the process starts.                 *)
(*                                                                         *)
(* One thread records (the holder of the runtime's loop lock).  Another,   *)
(* the one that shuts the agent down, saves without that lock: it walks    *)
(* the live deques element by element, so a record made in the middle of   *)
(* its walk raises RuntimeError and ends the save before the file is       *)
(* opened.  The process may be killed between any two steps.               *)
(***************************************************************************)
EXTENDS Integers, Sequences, FiniteSets, FiniteSetsExt

CONSTANTS
  Apps,
  Decisions,         \* the key of the deque of decisions
  DecisionKinds,     \* what a decision may say: its app, its action and its outcome
  MaxDecisions, MaxStatesPerApp,   \* max_decisions, max_states_per_app
  Lookbacks,         \* the lookback arguments of get_memory_context
  StatusLookback, StatusWindow,    \* its default, 10, and the 50 of get_agent_status
  Nothing, Absent, Torn,           \* no app; no file; a file that does not parse
  MaxEvents, MaxRestarts           \* bounds: records made, kills

Keys == Apps \cup {Decisions}

ASSUME MemoryAssumption ==
  /\ Decisions \notin Apps /\ Nothing \notin Apps
  /\ Absent # Torn
  /\ MaxDecisions \in Nat \ {0} /\ MaxStatesPerApp \in Nat \ {0}
  /\ Lookbacks \subseteq Nat
  /\ StatusLookback \in Nat \ {0} /\ StatusWindow \in Nat /\ StatusLookback <= StatusWindow
  /\ MaxEvents \in Nat /\ MaxRestarts \in Nat

VARIABLES
  memory,     \* decision_memory and app_state_memory: a deque per key
  decisionsSeen, statesSeen,   \* total_decisions_seen, total_states_seen
  writing,    \* the recording thread: a record appended and not yet counted
  saving,     \* the saving thread
  file,       \* memory_snapshot_<agent>.json
  now,        \* the clock that stamps records
  restarts,
  history,    \* ghost. Per key: every record, as far as the process remembers
  cleared,    \* ghost. Per key: the length of history at the last clear_memory
  restored    \* ghost. Per key: the records that were counted by an earlier process

recorder == <<memory, decisionsSeen, statesSeen, writing, now, history>>
vars == <<recorder, saving, file, restarts, cleared, restored>>

-----------------------------------------------------------------------------

Capacity(k) == IF k = Decisions THEN MaxDecisions ELSE MaxStatesPerApp

Times  == 0..MaxEvents
Record(k) == IF k = Decisions THEN [at : Times, says : DecisionKinds] ELSE [at : Times]

\* What a deque with maxlen = n holds after the elements of s were appended.
Window(s, n) == IF Len(s) > n THEN SubSeq(s, Len(s) - n + 1, Len(s)) ELSE s

\* A faulty variant that evicts the newest element of a full deque.
PushEvictsNewest(q, r, n) ==
  IF Len(q) < n THEN Append(q, r) ELSE Append(SubSeq(q, 1, n - 1), r)
\* deque.append.
Push(q, r, n) == Window(Append(q, r), n)

\* An application is in the dictionary when it has a state.
Known == {a \in Apps : memory[a] # <<>>}

Empty   == [k \in Keys |-> <<>>]
Lengths == [k \in Keys |-> Len(history[k])]
Zero    == [k \in Keys |-> 0]

NotSaving == [pc |-> "idle", stale |-> FALSE, key |-> Decisions, todo |-> {},
              copy |-> Empty, upTo |-> Zero]

Init ==
  /\ memory = Empty
  /\ decisionsSeen = 0 /\ statesSeen = 0
  /\ writing = "no"
  /\ saving = NotSaving
  /\ file = Absent
  /\ now = 0 /\ restarts = 0
  /\ history = Empty
  /\ cleared = Zero /\ restored = Zero

-----------------------------------------------------------------------------
(* The recording thread.                                                   *)

\* A faulty variant: a walk over a deque that nothing guards.
DisturbsNever(k) == FALSE
\* Does a record under k disturb the walk the saving thread is making?
Disturbs(k) ==
  LET grows == k \in Apps \ Known
  IN \/ saving.pc = "sum" /\ grows
     \/ saving.pc = "walk" /\ (k = saving.key \/ (grows /\ saving.key # Decisions))

Store(k, r) ==
  /\ writing = "no"
  /\ now < MaxEvents
  /\ memory' = [memory EXCEPT ![k] = Push(@, r, Capacity(k))]
  /\ history' = [history EXCEPT ![k] = Append(@, r)]
  /\ now' = now + 1
  /\ saving' = [saving EXCEPT !.stale = @ \/ Disturbs(k)]
  /\ UNCHANGED <<decisionsSeen, statesSeen, file, restarts, cleared, restored>>

RememberDecision ==
  /\ \E d \in DecisionKinds : Store(Decisions, [at |-> now, says |-> d])
  /\ writing' = "decision"

RememberAppState(a) ==
  /\ Store(a, [at |-> now])
  /\ writing' = "state"

\* The counter follows the append in a statement of its own.
Count ==
  /\ \/ /\ writing = "decision"
        /\ decisionsSeen' = decisionsSeen + 1
        /\ UNCHANGED statesSeen
     \/ /\ writing = "state"
        /\ statesSeen' = statesSeen + 1
        /\ UNCHANGED decisionsSeen
  /\ writing' = "no"
  /\ UNCHANGED <<memory, now, history, saving, file, restarts, cleared, restored>>

\* clear_memory, which no code in the repository calls while a save runs.
ClearMemory ==
  /\ writing = "no" /\ saving.pc = "idle"
  /\ memory # Empty
  /\ memory' = Empty
  /\ decisionsSeen' = 0 /\ statesSeen' = 0
  /\ cleared' = Lengths
  /\ restored' = Zero
  /\ UNCHANGED <<writing, saving, file, now, restarts, history>>

-----------------------------------------------------------------------------
(* The saving thread: to_json.  get_memory_stats sums over the dictionary, *)
(* then the decisions are copied, then the states app by app, and only     *)
(* then the file is opened, which truncates it, and written.               *)

Abort == saving' = NotSaving
OnlySaving == UNCHANGED <<recorder, file, restarts, cleared, restored>>

\* A faulty variant that takes the states before the decisions.
StartSaveWithStates ==
  /\ saving.pc = "idle"
  /\ saving' = [NotSaving EXCEPT !.pc = "sum", !.upTo = cleared,
                  !.copy = [memory EXCEPT ![Decisions] = <<>>]]
  /\ OnlySaving

\* upTo: the length of each history when it was copied; of an app that has no
\* state there is nothing to copy since the last clear.
StartSave ==
  /\ saving.pc = "idle"
  /\ saving' = [NotSaving EXCEPT !.pc = "sum", !.upTo = cleared]
  /\ OnlySaving

SumStates ==
  /\ saving.pc = "sum"
  /\ IF saving.stale THEN Abort
     ELSE saving' = [saving EXCEPT !.pc = "walk", !.key = Decisions]
  /\ OnlySaving

\* The lists left to walk: the dictionary is opened after the decisions are copied.
Left == IF saving.key = Decisions THEN Known ELSE saving.todo \ {saving.key}

WalkOn ==
  LET k == saving.key
  IN /\ saving.pc = "walk" /\ ~saving.stale
     /\ Len(saving.copy[k]) < Len(memory[k])
     /\ saving' = [saving EXCEPT
                     !.copy[k] = Append(@, memory[k][Len(@) + 1])]
     /\ OnlySaving

\* The list is walked to its end; the next one is begun, or the walk is over.
EndWalk ==
  LET k == saving.key
      walked == [saving EXCEPT !.upTo[k] = Len(history[k]), !.todo = Left]
  IN /\ saving.pc = "walk" /\ ~saving.stale
     /\ Len(saving.copy[k]) >= Len(memory[k])
     /\ \/ Left = {} /\ saving' = [walked EXCEPT !.pc = "open"]
        \/ \E a \in Left : saving' = [walked EXCEPT !.key = a]
     /\ OnlySaving

\* RuntimeError: the deque, or the dictionary, changed during its iteration.
FailWalk ==
  /\ saving.pc = "walk" /\ saving.stale
  /\ Abort
  /\ OnlySaving

OpenSnapshot ==
  /\ saving.pc = "open"
  /\ file' = Torn
  /\ saving' = [saving EXCEPT !.pc = "write"]
  /\ UNCHANGED <<recorder, restarts, cleared, restored>>

\* since: what had been cleared when the snapshot was made (ghost, as upTo).
WriteSnapshot ==
  /\ saving.pc = "write"
  /\ file' = [memory |-> saving.copy, upTo |-> saving.upTo, since |-> cleared]
  /\ Abort
  /\ UNCHANGED <<recorder, restarts, cleared, restored>>

-----------------------------------------------------------------------------
(* The process is killed and started again.  A file that does not parse,   *)
(* and no file, make a fresh memory; load_memory_snapshot appends what the *)
(* file holds and leaves the counters at 0.                                *)

Complete == file \notin {Absent, Torn}

\* A faulty variant that pushes the records on the wrong end.
LoadReversed(k) ==
  LET s == file.memory[k] IN [i \in 1..Len(s) |-> s[Len(s) + 1 - i]]
Load(k) == Window(file.memory[k], Capacity(k))

Restart ==
  /\ restarts < MaxRestarts
  /\ restarts' = restarts + 1
  /\ IF Complete
     THEN /\ memory'   = [k \in Keys |-> Load(k)]
          /\ history'  = [k \in Keys |-> SubSeq(history[k], 1, file.upTo[k])]
          /\ cleared'  = file.since
          /\ restored' = [k \in Keys |-> file.upTo[k] - file.since[k]]
     ELSE /\ memory' = Empty /\ history' = Empty
          /\ cleared' = Zero /\ restored' = Zero
  /\ decisionsSeen' = 0 /\ statesSeen' = 0
  /\ writing' = "no"
  /\ saving' = NotSaving
  /\ UNCHANGED <<file, now>>

Next ==
  \/ RememberDecision
  \/ \E a \in Apps : RememberAppState(a)
  \/ Count
  \/ ClearMemory
  \/ StartSave \/ SumStates \/ WalkOn \/ EndWalk \/ FailWalk
  \/ OpenSnapshot \/ WriteSnapshot
  \/ Restart

Spec == Init /\ [][Next]_vars

-----------------------------------------------------------------------------
(* get_memory_context: the signals of the last decisions, of one app or of *)
(* all.                                                                    *)

\* recall_recent_decisions(n): decisions[-n:], and the slice [-0:] is the list.
Recall(n) ==
  LET all == memory[Decisions]
  IN IF n = 0 THEN all ELSE Window(all, n)

RecentActions(entity, lookback) ==
  LET all == Recall(lookback)
      about[i \in 0..Len(all)] ==
        IF i = 0 THEN <<>>
        ELSE IF entity \in {Nothing, all[i].says.app}
             THEN Append(about[i - 1], all[i].says.action)
        ELSE about[i - 1]
  IN about[Len(all)]

\* A faulty variant that resets consecutive_count to 0.
RunAtFromZero(actions) ==
  LET run[i \in 1..Len(actions)] ==
        IF i = 1 THEN 1 ELSE IF actions[i] = actions[i - 1] THEN run[i - 1] + 1 ELSE 0
  IN run

\* The loop over recent_actions: the run that ends at i, and the longest so far.
RunAt(actions) ==
  LET run[i \in 1..Len(actions)] ==
        IF i > 1 /\ actions[i] = actions[i - 1] THEN run[i - 1] + 1 ELSE 1
  IN run
RepeatedActions(entity, lookback) ==
  LET actions == RecentActions(entity, lookback)
  IN IF Len(actions) < 2 THEN 0
     ELSE Max({RunAt(actions)[i] : i \in 2..Len(actions)})

(* get_agent_status: how many of the last decisions failed or were         *)
(* executed, of how many.                                                  *)

\* A faulty variant: the newest decision is left out of the count.
ConsideredOne == IF decisionsSeen > 1 THEN decisionsSeen - 1 ELSE 1

Considered == Max({1, Min({decisionsSeen, StatusWindow})})
OutcomesOf(kinds) ==
  LET recent == Recall(StatusLookback)
  IN Cardinality({i \in 1..Len(recent) : recent[i].says.outcome \in kinds})

Evicted == decisionsSeen - Len(memory[Decisions])

-----------------------------------------------------------------------------
(* Properties.                                                             *)

Records  == UNION {Record(k) : k \in Keys}
Memories == {m \in [Keys -> Seq(Records)] : \A k \in Keys : m[k] \in Seq(Record(k))}
Counts   == [Keys -> Nat]

\* The types, and the bound of every deque.
TypeOK ==
  /\ memory \in Memories /\ history \in Memories
  /\ \A k \in Keys : Len(memory[k]) <= Capacity(k)
  /\ decisionsSeen \in Nat /\ statesSeen \in Nat
  /\ writing \in {"no", "decision", "state"}
  /\ saving \in [pc : {"idle", "sum", "walk", "open", "write"}, stale : BOOLEAN,
                 key : Keys, todo : SUBSET Apps, copy : Memories, upTo : Counts]
  /\ file \in {Absent, Torn} \cup [memory : Memories, upTo : Counts, since : Counts]
  /\ now \in Times /\ restarts \in 0..MaxRestarts
  /\ cleared \in Counts /\ restored \in Counts

\* The records of k made since the last clear, of the first n.
Since(k, from, n) == SubSeq(history[k], from + 1, n)

\* The memory holds exactly the newest records made since it was last cleared,
\* in order, as many as its capacity allows, in one process and across restarts:
\* what remember_decision, remember_app_state, clear_memory and
\* load_memory_snapshot do to the deques never loses, doubles or reorders one.
MemoryIsAWindow ==
  \A k \in Keys :
    memory[k] = Window(Since(k, cleared[k], Len(history[k])), Capacity(k))

\* A snapshot that parses holds, for the decisions and for every application, the
\* memory as it was at some earlier moment: to_json, which walks live deques while
\* another thread records, never writes a mixture of two moments of one deque.
FileIsAnEarlierMemory ==
  Complete =>
    \A k \in Keys : \E n \in file.since[k] .. Len(history[k]) :
      file.memory[k] = Window(Since(k, file.since[k], n), Capacity(k))

\* A snapshot never explains a decision by states older than those the agent had
\* when it decided: every state recorded before the newest saved decision is in the
\* file, or newer states of that application are (get_memory_snapshot copies the
\* decisions before the states).
SavedStatesAreCurrent ==
  Complete /\ file.memory[Decisions] # <<>> =>
    LET saved  == file.memory
        newest == saved[Decisions][Len(saved[Decisions])].at
    IN \A a \in Apps : \A i \in file.since[a] + 1 .. Len(history[a]) :
         history[a][i].at < newest =>
           /\ saved[a] # <<>>
           /\ saved[a][Len(saved[a])].at >= history[a][i].at

\* repeated_actions, which one pass over the recalled decisions computes, is the
\* length of the longest run of equal actions among them (0 of fewer than two).
RepeatsAreTheLongestRun ==
  \A entity \in Apps \cup {Nothing}, lookback \in Lookbacks :
    LET actions == RecentActions(entity, lookback)
        runs == {r \in (1..Len(actions)) \X (1..Len(actions)) :
                   /\ r[1] <= r[2]
                   /\ \A m, n \in r[1]..r[2] : actions[m] = actions[n]}
    IN RepeatedActions(entity, lookback) =
         IF Len(actions) < 2 THEN 0 ELSE Max({r[2] - r[1] + 1 : r \in runs})

\* In the process that made the records, between two of them, the rates of the status are
\* from 0 to 100 %: it counts outcomes in the memory and divides by a counter of its own,
\* which a record, a clear and an eviction change in their own ways.  decisions_evicted is
\* what was evicted since the last clear; in a process that has restored its memory, which
\* starts to count at 0, it is short of that by the records of the earlier ones.
RatesAreRates ==
  writing = "no" =>
    /\ restored[Decisions] = 0 /\ decisionsSeen > 0 =>
         OutcomesOf({"failed"}) + OutcomesOf({"executed"}) <= Considered
    /\ Evicted + restored[Decisions] =
         Len(history[Decisions]) - cleared[Decisions] - Len(memory[Decisions])

\* What is read from the memory: the saved states, the run-length signal, the rates.
RecollectionsAreRight ==
  SavedStatesAreCurrent /\ RepeatsAreTheLongestRun /\ RatesAreRates

=============================================================================
