# Verification of the multi-agent control plane

This directory holds TLA+ models of the control plane, the TLC configurations that
check them on small instances, and proofs that TLAPS checks for every value of the
constants. `PROJECT.json` is the index: it maps each definition to the lines of the
source it models, and lists the runs, the faulty variants that show each property can
fail, the findings, the hazards and the theorems.

Contents: [the system](#the-system) · [modules](#modules) · [runs](#runs) ·
[fairness](#fairness) · [proofs](#proofs) · [findings](#findings) ·
[met while modelling](#met-while-modelling) · [not modelled](#not-modelled) ·
[plan](#plan)

## The system

The repository is a set of loosely coupled Python processes that watch applications,
decide on an action (noop, restart, scale up, scale down, rollback) and execute it
under safety gates. All paths below are relative to `src/`; a bare name such as
`resilience.py` is in `control_plane/core/`.

| Component | State | Operations | Hard because | Correct when |
|---|---|---|---|---|
| Agent runtime (`agent_runtime.py`, `agent_state.py`, `control_plane/api/agent_api.py`) | state machine, loop lock, shutdown flag, last decision, decision history and state files | `run`, `handle_external_event`, the phases sense … explain, `_shutdown`, resume | Flask threads and the loop thread share one state machine; `_shutdown` works without the lock; exceptions end cycles in the middle | cycles exclude each other and leave the agent IDLE, a caller gets the answer to its own event, the history is true, shutdown saves |
| Agent memory (`agent_memory.py`) | deques, counters, snapshot file | remember, recall, `get_memory_context`, `to_json`, `load_memory_snapshot`, `clear_memory` | the snapshot is walked while another thread records; kills between truncation and write | memory and snapshot are windows of what was recorded; signals and rates are right |
| Perception (`perception.py`, `perception_adapters.py`, `control_plane/agents/uptime_monitor.py`) | processed lines, alerts, timeline | sense, append, change of status | lines are read while they are appended; status, event and row are three steps | what is passed over has a reason, the timeline tells changes |
| RL decision path (`runtime_rl_pipe.py`, `rl_remote_client.py`, `rl_response_validator.py`, `resilience.py`, `self_restraint.py`, `rl/rityadani_decision_layer/decision.py`) | failure counters, breaker state | decide, validate, fall back, restrain | callers share the counters without a lock, answers come after the breaker has moved on | no call storm, breakers recover, an unsafe or missing answer is a noop |
| Safe orchestrator (`rl_orchestrator_safe.py`, `prod_safety.py`) | service state per process, decision log | `execute_action`, `execute_safe_action` | seven gates in order, two entries, three environments | nothing refused is executed; limits hold; the log adds up |
| Action governance (`action_governance.py`) | history of actions | `evaluate_action` | checks over past actions; an instance per call, and one that is never asked | what passes keeps cooldown and repetition limits |
| Manual override store (`control_plane/app_override_manager.py`) | one JSON file | set and clear a freeze, read | read-truncate-write from several processes without a lock | confirmed freezes are stored, expire, and stop actions |
| Reliability controller (`reliability-controller2-main/`) | cooldown per service, docker containers | probe, recommend, post, execute | check and store of the cooldown are apart, clients time out and retry, stale probes | restarts are spaced, crashed services come back, no restart storm |
| Deploy worker pool and scaler (`control_plane/agents/multi_deploy_agent.py`, `deploy_agent.py`, `guaranteed_events.py`, `auto_scaler.py`) | work queue, unfinished count, threads, logs; the scaler's flag and count | start, stop, submit, join, the worker, event emission, scaling | pills and jobs share a FIFO, workers are one-shot, exceptions skip `task_done`, a stop is seen an interval later | no job is lost or done twice, join means done, the scaler's count is the pool's |
| Dashboard backend (`backend/app/`) | module-global lists, dictionaries and deques | ingest, remove and list links, decide, report, the autonomous loop | sync endpoints run in a threadpool without locks, beside a loop | links are lost, doubled or revived only by overlapping requests; reports do not contradict themselves; the loop survives |
| Registry of applications (`onboarding_entry.py`, `control_plane/apps/`, `orchestrator/`, `control_plane/multi_app_control_plane.py`) | specs, index, state file, decision history | onboard, register, deploy, stop, scale, overview | look-up and creation are apart, a whole state is read once and written back | names are unique, files parse, only stale state is lost |
| Healing simulation (`_local_simulation.py`, `utils.py`, `control_plane/agents/`, `rl/rl_trainer.py`) | dataset, one backup, Q-table, status | degrade, detect, heal, learn, recover | runs share files that are truncated before they are written | a restore undoes the run; what was learned stays |
| Sovereign bus (`sovereign_bus.py`, `event_bus.py`, `monitoring/monitor_bus.py`) and MCP relay (`mcp_bridge.py`, `mcp_adapter.py`, `mcp_manager.py`) | kept messages, log file, inbox, outbox, flags | publish, subscribe, relay, watch | several processes replace one file; threads walk copies and change the original | what is heard, kept, printed and forwarded, and how often |
| Redis bus (`redis_event_bus.py`, `redis_stability.py`, `monitoring/queue_monitor.py`) | subscribers, listener thread, flag, connection | subscribe, publish, listen, stop | the listener walks what `subscribe` grows, a replaced listener clears its successor's flag | one call per callback and channel, a listener while the flag says so |

How they interact:

- `agent_api.py` owns one `AgentRuntime`; its request threads call
  `handle_external_event`, the daemon thread runs `run`. Both go through `_loop_lock`.
  The runtime asks the decision service over HTTP (two-second timeout) and hands signals to
  `executer/runner.py`. It owns the agent memory and the perception layer.
- The same API writes the override store through `AppOverrideManager`. Any process that
  holds a `SafeOrchestrator` reads it; the store is their only link.
- `runtime_rl_pipe.py` calls the remote client, a decision service behind it, and then the
  safe orchestrator; nothing in the repository imports the pipe. The agent runtime has a
  request of its own to the service.
- The reliability controller is two Flask services (monitor, executer) and docker. What
  closes the loop between them is outside the repository, except for the client
  `execute_action` in the dashboard backend.
- The worker pool is driven by a main program or by the scaler, and calls the
  guaranteed-event emitter and `log_deployment`.
- The backend's autonomous loop polls a service over HTTP, turns the answer into a request
  to its own decision engine, and publishes it in globals that its handlers read.
- The simulation is one script that is run again and again. Its healing agents publish on
  the sovereign bus, its uptime monitor writes the timeline that the agent's perception
  reads, and its MCP bridge exchanges files with agents of other processes.
- Onboarding, the orchestrators and the control plane's views meet only in files.

## Modules

The modules follow one convention: a variable per piece of state, named after the source
where the source has a name; one action per handler, split where another thread, a crash or
an exception may come in between; `CONSTANTS` for the parameters, with the bounds marked as
bounds; variables and conjuncts marked *ghost* when only properties read them; faulty
variants directly before the definition they vary. A property that a run checks is often a
conjunction of a few named ones (`HealingIsSound` has five parts beside the types): each
part has its own comment, and most have a faulty variant of their own.

| Module | Component | Source | Checked in |
|---|---|---|---|
| `AgentRuntime`, `SerialAgent` | runtime, its promise to callers | `agent_runtime.py`, `agent_state.py` | `runtime_*` |
| `AgentMemory` | memory | `agent_memory.py` | `agent_memory` |
| `SafeOrchestrator` | gate and override store | `rl_orchestrator_safe.py`, `app_override_manager.py` | `override_gate` |
| `ActionGovernance` | governance | `action_governance.py` | `governance` |
| `DecisionPath`, `ReliabilityLoop` | decision path; monitor and executer | see below | `control_loops` |
| `DeployPool`, `JobQueue`, `AutoScaler` | worker pool, its promise to submitters; scaler | `multi_deploy_agent.py`; `auto_scaler.py` | `deploy_pool` |
| `LinkRegistry`, `DecisionBrain` | backend: links; decisions | `backend/app/` | `dashboard_backend` |
| `McpRelay`, `RedisBus` | relay; Redis bus | see below | `message_buses` |
| `AppRegistry`, `Perception`, `Healing`, `SovereignBus` | registry; senses; simulation; sovereign bus | see below | `shared_files` |

`AgentRuntimeProofs`, `AgentMemoryProofs`, `SafeOrchestratorProofs`, `ControlLoopsProofs`,
`DeployPoolProofs`, `DashboardProofs`, `SharedFilesProofs` and `MessageBusesProofs` hold the
theorems. The `MC` modules give the constants their values and put components that share no state into one
run: a variable (`part`, `guard` or `cast`) says which of them a behaviour is about, the others
keep their initial state.

### AgentRuntime, SerialAgent

`fsm` is `_current_state`, `lock` the owner of `_loop_lock`, `pc` the program point of the
loop thread and of each request thread, `pending` a transition that was approved and not yet
assigned, `file` the saved state, `executed` and `history` the effects. `CheckTransition` and
`AssignTransition` are the two halves of `transition_to`: `_shutdown` does not take the lock,
so its transition may fall between them. `RejectTransition` is the ValueError, and `Raise`
what an exception does to each kind of thread: `run` releases the lock and shuts down, a
request resets the state machine (`ForceReset` when the table does not allow it). `Perceive`,
`Consult`, `Execute`, `Record`, `StoreDecision`, `Reply` are the phases that do more than
change state. `Restart` is a kill at any point with or without the same agent id. What the
perception, the validators and the decision service answer is a nondeterministic choice.

`SerialAgent` is the promise to callers: one active cycle, at most one answer per caller,
about its own event, after that event's action was executed, and no execution after it.
`SerialService` is the refinement with `active <- lock`.

### AgentMemory

Deques with a capacity (`Push`), the two counters that are incremented after the append
(`Count`), the snapshot walk element by element (`WalkOn`, `EndWalk`, `FailWalk`: Python
raises RuntimeError when a deque changes during iteration), the truncation and the write of
the file (`OpenSnapshot`, `WriteSnapshot`), a kill with recovery (`Restart`), the run
length that `get_memory_context` computes (`RunAt`, `RepeatedActions`), and the numbers of
`get_agent_status` (`OutcomesOf`, `Considered`, `Evicted`). The module models the API of the
class: the deployed runtime reaches few of its calls, because the cycle raises or takes its
fallback before it remembers anything.

### SafeOrchestrator

`Refusal` is the first gate of `execute_action` that refuses, in the order `GateOrder`;
`Check` lets a call pass by what the store says at that moment, `Refuse` ends one without effect.
What has passed is executed later and is not checked again: overrides and other calls come in
between. `Execute` is the handler with its limit and the restart that may time out; `Raise` an
exception before, in or after it (a proof log that is not written gives a failure though the
service has changed), `Abandon` one before the gates. Limits and first replicas come with each
call, in its context, and differ from call to call. `ReadStore`, `OpenStore` and `WriteStore` are an override
request: read, truncate, write at offset 0, so that of two overlapping writes the shorter
text may leave the tail of the longer one. `CreateStore` is `AppOverrideManager.__init__`
that found no file; a store that cannot be read counts as empty. The ghost `excused` has the
executors that looked at the store before a freeze was confirmed, during a write, or in vain:
for them, and for nobody else, a confirmed freeze comes too late. The allow-list of demo mode
comes from a module that is not in the repository and is a constant.

### ActionGovernance

The history of actions, `evaluate_action` as the gate calls it, with an instance for each
call, and the three checks that exist and that nobody calls. The runtime keeps an instance and
has a method that would ask it (`_enforce`), but fills in the answer itself
(`agent_runtime.py:376`) and never calls it. The ghost `let_through` collects what was passed
though a check would have refused it.

### DecisionPath

One module for what stands between an event and an action. `guard` says which of three a
behaviour is about: the remote client (`Check`, `Reset`,
`Answered`, `Failed`, `Count`, `Stamp`, `Succeed`, `Store`, `Conclude`: the counter of failures,
its reset after the cooldown, the call that a service answers or not, and the reset before the
body is read, each a step of its own as threads share the counter), the breaker of `resilience.py`
(`closed`, `open`, `half_open`), or self restraint, whose answer is a function of signals and
thresholds. `Validated`, `Scope` and `SafetyRules` are the three tables of what an environment
allows. With `brain = "rules"` the service is `decision.py`; otherwise it answers anything:
names, codes, numbers out of bounds, codes beside an error flag, text, lists, no JSON. The
response validator, which nothing calls, reads codes (`int(action)`) and refuses names; the
pipe knows names and makes noop of codes. `Passes`, `Validated` and `Executed` say so, each for
its own. The thresholds of `update_config` are any numbers.

### ReliabilityLoop

Time is counted in ticks and kept as remaining or elapsed time, so that the state space is
finite without an end of time. `Receive` is the check of the cooldown, `SetCooldown` its
store (the gap is the race), `Run` and `Finish` the docker command, `Probe` a metrics
request and the recommendation that follows from it, `GiveUp` the client's timeout. The
ghost `since` is the time since the clock reading of the last accepted action, and `raced`
marks a thread that passed the check before another one stored. A service answers until docker
has stopped it (`Stops`), at any time within the grace, and does not answer from then until it
has started again: a restart that takes as long as its cooldown can be met by the next one.
`Outlasts` is that case, and `SecondCommandsAreLate`, `CrashedServicesRecover` and
`RestartsDieOut` say what is true up to it. Controllers are external.

### DeployPool, JobQueue, AutoScaler

`StartWorkers`/`StartThread`, `StopWorkers`/`PutPill`/`StopReturns`, `Submit`,
`Join`/`JoinReturns` are the calls of the main program, in any order: a stop may come before a
start or after another, and leaves its pills in the queue; `CheckRunning`, `Get`,
`GetTimesOut`, `Emit`, `Log`, `TaskDone`, `Raise` the worker. The work queue is Python's
`queue.Queue` with its count of unfinished tasks. Workers are daemon threads; the end of
the process may cut them off anywhere, which every state invariant covers.

`JobQueue` is the promise to those who submit: a job is accepted or refused once, accepted jobs
are taken in the order of their acceptance, each is taken once and then done or failed for good,
and who waits for the work goes on only when all is done. Workers, starts, stops and pills are not
to be seen. `JobQueueService` is the refinement: `JobState` says where a job is (waiting in the
queue, taken by a thread, done, failed), `InFront` which jobs lie before it, whatever pills are
between them. It implies `JoinMeansLogged`.

`AutoScaler` counts time in check intervals: `ScaleTick` wakes all sleeping loops, which finish
before the next. A start is three steps (flag, pool, loop), so a loop that slept over a stop
may run between them. `PoolMethods` is what the pool offers; `Scaled` is what a decision
comes to with and without the method it needs.

### LinkRegistry, DecisionBrain

The service that `render.yaml` starts. FastAPI runs its handlers in a pool of threads over
module globals without a lock, so both modules split them at each access to one.

In `LinkRegistry`, `objects` are the list objects in the order of their creation, `links` the
one that `_INGESTED_LINKS` names, `metadata` the keys of `_LINK_METADATA`, `events` the deque
`_LINK_EVENTS`. `Load` reads the global; `AppendItem` appends to the object that was loaded,
and `Assign` binds a list that `Filter` built from an earlier one, which is how additions get
lost and removed links come back. A walk over a list is one step where its result is that of
its end (lists only grow), and a step per item in the sum (`SumItem`), which also reads the
metadata. The ghosts say what the overlaps were: `changed` and `stale` per request,
`disturbed` for links. The properties state that nothing goes wrong for a link, or in an
answer, without an overlap that interferes with it.

In `DecisionBrain`, `recent`, `autos` and `bridge` are the bounded deques, `last` the globals
that the loop publishes, `loop` the thread of the autonomous loop (`poll` … `sleep`), `caller`
the request threads, which decide or put together one of three reports. `Poll` and `Payload`
are the poller, `Asked` the adapter, `Decide` and `Proposed` the decision engine: what a service
in each of the conditions the poller tells apart comes to.

### McpRelay, RedisBus

A change of a file of the relay is a read of all and a write of all; `todo` is what an actor
still has to change, `copy` what it has read, `Found` what it may find while others write. A
run loads the inbox into `flags`, publishes and flags one message after the other
(`Pending`), writes `flags` back, forwards the mail that its adapter finds due (`batch`, in
any order), and may be killed anywhere (`Kill`); MCP agents append. An exception may end the
loop over the inbox before the flags are written, or their writing, which the bridge catches
(`LeaveInbox`), or may end the whole run, where nothing catches it (`Raise`): at a message of
another shape, or in a publication that Redis has but the subscribers of the process have not
(`Unheard`). Of the three files, `crossed` are those two changes of which met.

`RedisBus` is one process: `subscribe` in its steps, `publish`, `stop`, and a listener that
reads, tests the flag, walks the subscribers and, at its end, clears the flag. Listeners that
were replaced are still there. Redis and the connection fail by `troubles`.

### AppRegistry, Perception, Healing, SovereignBus

Files that are truncated and then written: `Empty`, `Emptied` or `BrokenLog` in between and
after a kill, `Garbled` after two writes that overlapped.

- `AppRegistry`: onboarding looks the name up (`ValidateInput`), creates the spec, and appends to
  the index; a registrar overwrites; a write of a spec or of the state may fail half-way
  (`WriteFails`: a YAML date has no JSON, a disk is full), which the registrar answers and leaves.
  The state file at the start may be the one the repository ships, which has an app running
  without a spec; deployers look the spec up, build, and write the state
  file from the copy they read at their start; recorders append stamped rows to the history,
  of which the overview and the history are two views. The build engine is not in the
  repository and is modelled from its call.
- `Perception`: `requests` is the file of onboarding requests with a line that may be half
  written, `processed` the lines that a pass has counted. A line is blank, no JSON, an object
  without a name, a value that is no object (which raises like a request), or a request.
  No adapter can make a perception (see below), so what matters is what a pass consumes before it fails. The monitor emits,
  writes the row and assigns the status in three steps.
- `Healing`: one run is the script from backup to the last report; `sim` holds a run's
  program point, strategy, table and status. Q-values are the set of runs that were learned
  from, as the trainer may choose any strategy; two tables written over each other may leave one
  that parses and is neither (`Muddled`). `RestoreFails` is the restore that its handler catches,
  with the dataset truncated or as it was.
- `SovereignBus`: the log that each process keeps and writes to one file, in a save that may fail
  and be swallowed (`SaveFails`: the file is old or broken until somebody saves again); a
  publication that raises before any listener is called (`PublishRaises`); the kept messages
  that a subscription's thread walks and pops by index, and the monitor that knows messages
  by their number in the file.

## Runs

| Run | Instance | Shows |
|---|---|---|
| `runtime_api` | 3 requests (symmetric), loop, signal, 1 restart that may resume | lock, atomic cycles, truthful history and answers, refinement of `SerialAgent` |
| `runtime_live` | 2 requests, loop, signal | every request returns, shutdown saves |
| `agent_memory` | 2 apps, capacities 3 and 1, 4 records, 1 kill, saves and clears | windows, snapshots, counters, run length, rates |
| `override_gate` | 2 apps, 2 operators, 1 executor, no store at the start, 4 modes, the action names but rollback, both entries, limits 0, 1 and 3, 1 tick, 3 overrides and calls | expiry, confirmed freezes stay and stop the gate, the log accounts for the services, replica limits |
| `control_loops` | 2 callers, 2 breakers, 8 answers, 3 settings, thresholds beyond and below the code's; or 1 service, 2 clients, 2 executer threads, 2 faults, docker's grace as long as the cooldown | bursts, closing, recovery, allowed actions, restraint; cooldown, recovery, no restart storm |
| `deploy_pool` | 2 workers started and stopped twice in any order, a deploy and a restart, dev and prod, 1 exception; or 3 starts of the scaler | jobs accounted for, refinement of `JobQueue` (order, join), ends of workers; the scaler's beliefs and loops |
| `dashboard_backend` | 3 links, 2 of them at startup, 2 threads, 4 requests; or 3 cycles, 5 conditions of the service, 4 requests | what overlaps lose or double; what reports say together, that the status follows |
| `message_buses` | 2 runs, 1 inbox item, 1 mail, 1 kill; or 2 patterns, 2 listeners, 2 subscriptions, 2 troubles | flags, repetitions, losses and their causes; who hears what |
| `shared_files` | registry: 2 apps, 2 onboardings, a registrar, an orchestrator, 3 recorders in 4 casts, 1 kill or failed write; senses: 3 lines, 3 rows, 2 starts; healing: 2 runs, 3 places; bus: 2 processes, 2 types, 2 callbacks, 3 messages, 1 failed save, 1 publication that raises | names, broken files and lost state with their causes, agreeing views; skipped lines, timeline; backup, restore and learning; log, hearing and monitor |
| `runtime_terminal`, `runtime_answered`, `governance` | | expected violations, see [findings](#findings) |

Why these bounds are enough:

- *Runtime.* Requests only meet at the lock and at `_last_decision`. Two contend with each
  other and the loop; a third can overtake between the cycle and the reply of another. Each
  thread passes each program point once except the loop, which goes round without a
  bound. One restart gives resume, fresh start and lost replies. `runtime_live` has no
  observation error and no restart, which only end the threads sooner.
- *Memory.* Capacity 3 with 4 records evicts and wraps in one process, and a second key
  makes the interleaving of the walk. The lookbacks are the whole list (0), less than and
  as much as the capacity; the status looks at 2 of up to 3.
- *Gate.* A call touches one application of one executor. It begins with two replicas, and
  each call brings the limit 0, 1 or 3: below what is there, at its floor, above it; a call
  undoes what another with another limit did. The second operator and the second application
  are what an interference through one file needs; a freeze of one tick ends at the second
  instant. Rollback is refused in every environment, as an unknown name is. Each switch of
  the mode is met in another environment; "stage" has the rules of "prod".
- *Control loops.* Two callers make the race between check, call and count; the counter is
  cut at a value above every threshold. Both thresholds are small with room below and
  above them. Services do not share state in the executer. Two threads make the race, two
  clients the retry. A tick is a third of the cooldown (10 s), docker's grace (10 s) is three
  ticks too, and the client's timeout (3 s) one; a probe may be a tick old, a thread stalled for
  one, and a start takes two. So a restart lasts from less than its cooldown to more than it.
- *Pool.* A second start meets leftover pills and threads of the first one. Two of the four
  destinations are one that fails before and one that fails after another. The scaler's
  third start meets the loops of both earlier ones.
- *Backend.* Two requests overlap in every way, a third prepares and a fourth follows. The
  third link is one to add, and one to remove that is not there. The three decision requests
  lie at the thresholds (29/30/81 of CPU, 86/90 of memory); three cycles let a report
  span two of them.
- *Buses.* Two runs and the agents' own appends make every pair of crossing changes. The
  patterns overlap in one event; the second listener replaces the first.
- *Files.* Two processes cross in one file; the third recorder puts a row between two. Of
  three lines, a request has one before and one behind it. A log of two with three messages
  overflows. On the bus what is heard and what the file holds are checked apart (the casts
  `callbacks` and `log`): a failed save changes nothing of what is heard.

`CHECK_DEADLOCK FALSE` is set where records, calls or time are bounded, and in the pool,
which may stop for good. Symmetry is used where the permuted constants are only compared;
where runs, callbacks and topics may take any name, `MCSharedFiles` says which is used first;
in the two runs that have symmetry beside a liveness property, no permuted process takes a step in
the behaviours which that property is about (`MCDashboardBackend`, `MCMessageBuses`).

## Fairness

- `AgentRuntime`: weak fairness of each thread's own steps: every call in a cycle returns
  (the HTTP call has a timeout). Strong fairness of `Acquire`: the loop thread sleeps
  between cycles without the lock, so a waiting thread meets a free lock again and again.
  Nothing obliges a client, a signal or a crash.
- `DecisionPath`: time passes, a caller that has begun goes on (its request has a timeout),
  and callers ask again, as the agent does in every cycle. That the service stays up is a
  hypothesis of `RecoversWithTheService`, not fairness.
- `ReliabilityLoop`: time passes, executer threads run, a request in the network arrives,
  and some controller keeps probing each service ("Monitor continuously checks services",
  Architrecture.txt). The last is an assumption about what drives the monitor, which the
  repository does not contain.
- `DeployPool`: the main program's own call proceeds, and some worker runs while one can:
  less than what a scheduler gives each thread. Nobody has to call anything.
- `DecisionBrain`: the autonomous loop goes on; each call in it has a timeout.
- `RedisBus`: each listener thread goes on, and so does a subscription that has begun.
- The other modules state no liveness.

## Proofs

`AgentRuntimeProofs` (any set of requests, any number of restarts):

- `TypeCorrect` rests on `SnapshotRead`: a thread about to write the state file has read a
  state.
- `MutualExclusion` (`CycleHoldsLock`) by `LockInv` = types, which points each kind of
  thread can be at, and the lock itself.
- `CyclesAreAtomic` (`AtomicCycle`). "The lock is free, so the agent is IDLE" is not
  inductive: the cycle in progress has to bring IDLE back. `IdleAtTheEdges` extends it to
  the points between acquisition and first transition and between reset and release;
  `PendingIsTarget` says that an approved transition is the one its point asked for.
- `HistoryIsTruthful` (`HistoryMatchesExecution`) by `EffectsInv`: what a thread's point says
  about its execution and its outcome.
- `FailuresExecuteNothing` (`FailureExecutesNothing`) from `EffectsInv`: a request whose cycle
  executed and failed has met SHUTTING_DOWN, so the loop thread is past its shutdown.
- `ImplementsSerialService` (`SerialService`): initial states map to initial states and
  each step to a step of `SerialAgent` or a stutter, using `LockInv` and `EffectsInv`.

`AgentMemoryProofs` (any applications, capacities, number of records, saves and kills):

- `MemoryTypeCorrect`, `MemoryKeepsTheNewest` (`MemoryIsAWindow`) and
  `SnapshotIsAnEarlierMemory` (`FileIsAnEarlierMemory`) from one inductive invariant `IInv`:
  types, `MemoryIsAWindow`, and for a save in progress (`SavingOK`) and for the file
  (`FileOK`) that what has been copied is a prefix of the deque it walks, or the window of
  an earlier moment. The lemmas on sequences say that a window of an append is the append
  to a window, cut.
- `RecollectionsStayRight` (`RecollectionsAreRight`) adds to it, in `RecallIInv`, that histories
  are stamped in order (`ClockInv`), that every decision since the last clear is counted, about
  to be, or was by an earlier process (`CountedInv`), and that what was recorded of an app after
  its states were copied is not older than any decision copied before (`CopyInv`, and
  `SnapshotInv` of the file). An app without states when the dictionary is opened counts as
  copied: its window is empty, so its history has nothing since the last clear.
  `RepeatsAreLongest` is about data alone: `RunAt` is a recursion, which `Recursion` solves and
  whose value at each action is the length of the longest run that ends there (`RunsEnd`).

`SafeOrchestratorProofs` (any applications, operators and durations, any first replicas and
limits of calls, any finite set of executors):

- `FreezesAreKeptAlways` (`FreezesAreKept`) and `FrozenAppsStay` (`FrozenAppsAreLeftAlone`)
  from `IInv`, which has, beside the types, `PointsInv` (what an operator holds at each
  point of its override), `ExpiryInv` and `StoreInv`. What the file holds is not inductive:
  an end in it comes from a copy some operator read, so `ExpiryInv` bounds copies and jobs
  by what was granted too. `StoreInv` says that, until two overrides overlap, at most one is
  under way; that the file has every confirmed freeze until that one truncates it; and that
  its copy has them all, but for the application it changes. `ActInv` carries this over the
  gap between the gate and the handler: a call of an executor that is not excused, and that has
  passed, is about no application with a confirmed freeze, as a freeze confirmed in the gap
  excuses it.
- `ServicesAddUp` (`ServicesAreAccountedFor`) by `ServicesInv`: each service is `Accounted`, what
  its log adds up to give or take the calls that an exception ended, and `Within` the limits of
  the calls in its log. A row adds to the counts it matches and to no other (`CountOfAppend`), and
  limits are only added.

`ControlLoopsProofs`, about `ReliabilityLoop` (any services, threads, controllers, durations):

- `LoopIsTyped` and `CooldownsKeepApart` (`OnlyRacesShareACooldown`) from `LoopIInv`. What a
  thread found at its check must stay true until its store, so `FoundItEnded` says that a
  thread between the two, which nobody raced, is a cooldown and its own age after the last
  accepted action; and `Covered` that the stored cooldown ends no earlier than a cooldown
  after that action.
- `CooldownsProtect` (`CooldownProtects`), for any grace of docker's, adds `OverlapIInv`: the
  cooldown that a command stored has not ended, or the command and the stalls before it have
  taken as long as the cooldown (`StillCooling`); so whoever joins a command passed the check
  before that store, or one of the two has lasted (`OneIsRaced`). With the 10 s of
  `COOLDOWN_TIME` and docker's default grace of 10 s the second case is real: "one command at a
  time" is true only of services that stop sooner.

About `DecisionPath` (any finite set of callers, any services and signals):

- `DecisionsStaySound` (`DecisionsAreSound`) and `RestraintStaysSound` (`RestraintIsSound`)
  from `PathIInv`: what is shared (`SharedInv`), and for each caller what it knows at each
  point of its call, whatever the others do (`CallInv`). Of the answers nothing is assumed: what
  the validator passes, the pipe makes noop of, and the other way round. Of the thresholds
  nothing either; where the questions of self restraint agree only while a threshold is not
  below the fixed one of its counterpart, `CautionAgrees` says so.
- `BreakersDoHold` (`BreakersHold`), with `ClosingIsEarned` (`ClosingNeedsTwoAnswers`). The
  bound on calls in one cooldown counts callers by where they are: those about to call,
  those about to stamp a failure, and the wipers, which have an answer from before and are
  going to reset the counter. `BeforeCooldown` says that the calls so far are at most a burst
  for each caller that is no wiper, the last of these bursts being what is counted and what
  is on its way; `AfterCooldown` that at the end of a cooldown each caller calls once before
  it stamps. While the service is silent wipers only become fewer, which bounds the whole.

`DeployPoolProofs`, about `DeployPool` (any jobs, workers, destinations and number of starts):

- `JobsStayAccountedFor` (`DeploymentsAreAccountedFor`) from `IInv`: types; `PointsInv` (a
  thread has a job exactly while it works); `PlacesInv`, which says for each item of the
  queue and each worker that its job is nowhere else and has its row only at the last
  point; and `TriedInv`, what a worker has tried of the destinations at each point.
- `JoinWaits` (`JoinMeansLogged`) by `CountInv`: the queue's count is never below what is in
  it, with a worker, or left by an exception. It may be above, by the pills that were taken:
  that is why `join` may never return, and never returns early.
- `ImplementsJobQueue` (`JobQueueService`): initial states map to initial states, and under `IInv`
  each step maps to a step of `JobQueue` or a stutter. `StateIs` shows that the places of a job
  exclude each other and leave none out; `PillStep` and `QuietStep` that pills, starts, stops and
  a worker's own progress are stutters, `TakeStep` that what a worker gets has no job before it,
  and `JoinStep`, from `CountInv`, that `join` returns only in a state where all is done.

About `AutoScaler` (any limits, cooldowns and number of starts):

- `ScalerStaysSound` (`ScalerIsSound`). A start that is under way keeps the flag set and has
  room for its loop (`Underway`); once a tick has passed since a stop, each loop left is
  about to look at the flag (`Woken`), which makes "two intervals after a stop no loop is
  left" inductive.

`DashboardProofs`, about `DecisionBrain` (any threads, requests, services and limits):

- `ReportsStayConsistent` (`ReportsAreConsistent`) from `BrainIInv`. A report is right when its
  last read is made, so `ReadsOK` says of each read that it stays right of what is still
  to be read, which only grows. `BridgeBehind` adds the threads that are about to record to
  what the bridge has, and `InTurn` says which of the three globals a cycle has written.

About `LinkRegistry` (any links and coverage, threads, number of requests and limit of the log):

- `RegistryStaysConsistent` (`RegistryIsConsistent`) and `OthersSurvive`
  (`ChangesOfOthersSurvive`) from `LinkIInv`. That a link is listed once and has metadata
  while it is listed is not inductive: `OnceInv` says it of every list object and of the lists
  that removals have built, any of which may become the current one; `AgreeInv` and `GoneInv`
  leave out the requests that have done one of their two changes; and `KnowsInv` is what a
  request knows at each point while its link is not disturbed. `StaleInv` accounts for the
  links in which the list of a removal differs from the current one.
- `AnswersStayTrue` (`AnswersAreTrue`) adds `AnswerIInv`: what the search of an ingest has found
  (`FoundInv`), that the lengths a removal compares differ exactly if its link was there
  (`CountInv`), and that a sum so far is that of a prefix of the list (`SumInv`).
- What `Without` and `Total` compute for a list of any length needs induction. The library's
  theorems of induction take an operator and are out of reach, so `SetInduction`, here, in
  `AgentMemoryProofs` and in `SharedFilesProofs`, proves it for sets of naturals, by counting: a gap in such a set would
  map into a proper part of itself.

`SharedFilesProofs`, about `AppRegistry` (any apps, processes, commands and kills):

- `RegistryIsInductive` has the invariant `RegistryIInv`: the way of each kind of process
  (`WaysInv`), what has a file before it is built and is built before it is stored
  (`BuiltInv`), who writes into which file (`SpecFilesInv`, `StateFileInv`), who holds a name
  (`NamesInv`) and who has read the current entry of an app (`FreshInv`).
- `NamesGivenOnce` (`NamesAreGivenOnce`). That two rows of the index with one name were
  looked up together is not inductive, as the file is created before the row is appended:
  `NamesInv` says it of all onboardings that hold the name, with a row or on their way to
  one, and that a name held has a file, which the next lookup finds.
- `FilesStaySound` (`FilesAreSound`) and `StaleStateOnlyIsLost` (`OnlyStaleStateIsLost`).
- `ViewsAgree` (`OverviewAgreesWithHistory`) needs no more than the types of the rows, and a proof
  about two algorithms: the overview walks the file and keeps the newest row it has seen, the
  history is sorted and cut. `LatestIsNewest` follows the walk by `SetInduction`; the sorted list
  is defined by ranks, the row at place `n` being the one with `n - 1` others before it, and
  `EveryPlaceIsTaken` shows that there is one for each place.
- `HistoryShowsTheNewest` says what such a list is, for every limit: rows of this app, each once,
  sorted, as many as the limit lets through, and none newer among those left out.

About `Perception` (any lines, alerts and starts):

- `PerceptionStaysSound` (`PerceptionIsSound`) from `SenseIInv`. `MonitorInv` says what the
  monitor knows of the last row at each point of a change of status; `EventsInv` maps the
  rows into the events emitted so far, in order, and before a row is written into those but
  the last, which is its own. The step that writes a row extends the map by that event.

About `Healing` (any number of runs, in any environment, with any kills and exceptions):

- `HealingStaysSound` (`HealingIsSound`) from `HealIInv`. What a run that is alone finds in the
  dataset, in the backup and in the table at each of its points (`RunFits`), a failed restore
  among them, is inductive with
  `AloneInv`, "of two runs under way neither is alone": a step of one run then has nothing to
  say of the others. `RuinInv` keeps every run at or before its reading once a dataset is
  ruined. `StatusInv` follows a DOWN to the run that is going to report UP, which `killed = 0`
  and `raised = 0` guarantee outside production.

About `SovereignBus` (any processes, callbacks, topics and messages, any length of the file):

- `SovereignBusStaysSound` (`SovereignBusIsSound`) from `SovIInv`, whose two halves have no
  step in common but the publication by `Home`.
- `LogIInv` is about the log and the monitor. That no message is printed twice needs more than
  the order of each log: `ViewsInv` compares whatever may be read now or after any process's
  next save, and says that if two of these have a message at different places, the one that
  has it further to the front is full; a file that is full is at most as long as what was
  counted (`PrintedInv`). `LoneInv` is the history of processes that come one after another, in which a save that
  failed is made good by the next.
- `HomeIInv` is about the callbacks. `HeardInv` splits the calls into those as a listener
  (`NotifiedOf`) and those by the thread (`HandedTo`), one of each at most; `MessagesInv` and
  `HandInv` say where a message of `Home` is from its publication on: in hand, in the list, or
  taken out; and `ThreadInv` what a thread has in its copy.

`MessageBusesProofs`, about `RedisBus` (any finite set of patterns, any events and listeners):

- `DispatchStaysSound` (`DispatchIsSound`) from `BusIInv`. How often a callback was called says
  nothing by itself of the next call. `CopiesInv` counts copies of an event instead: those in
  the socket, those with a listener that still has the pattern before it, and those that
  were used up, which together never exceed the channels the event came through; each
  call uses one, as a dictionary has a pattern only once.

About `McpRelay` (any runs, messages, threads and kills; files stay below the 100 and 1000
messages the code keeps, so nothing is cut):

- `RelayStaysSound` (`RelayIsSound`) from `RelayIInv`. A flag in the inbox passes through
  copies that others hold and write back, so `RowsInv` says of every copy, and not of the
  file alone, that its flags are deserved. `AloneInv` is what makes an append safe: a file
  that is not crossed has one writer at most, whose copy is the file, and the file is what was
  appended. `InboxInv` says the same of the run that holds the inbox, and that a message is
  appended once, without which one publication would not count for two rows. `MailOnceInv`
  carries the clock from run to run: what is published was stamped before, so a run that
  starts later takes it for old.

Assumptions are those of the `ASSUME` of each module: distinct names, finite sets of
processes, positive capacities, naturals in order, a broken file that is not a log.

Each safety property of the passing runs has a theorem. Only model-checked: all liveness
(fairness and ENABLED are out of the prover's reach), that is `EveryRequestReturns`,
`ShutdownSavesState`, `RecoversWithTheService`, `CrashedServicesRecover`, `RestartsDieOut`,
`WorkersEnd`, `WaitingWorkersTakeJobs`, `StatusFollowsService` and `EventsReachCallbacks`, and
the three violations of the findings. The provers do not expand operators that take an operator,
such as the folds and sorts of the community modules, and the theorems of induction. What
`LinkRegistry`, `AgentMemory` and `AppRegistry` select from their lists is therefore written as a
recursive function or by ranks.

A proof attempt corrected one property: `WorseNeverUnblocks` judged the new signals by the
thresholds of before, so that a change of thresholds was never looked at; it now compares what
was blocked with what is. Another corrected a ghost of `Healing`: a saver that is killed after
another has written the table (three runs, one more than TLC has) leaves a file that is whole,
and `KillRun` took it for cut off. In `McpRelay` a run may now find the inbox or the mail
unreadable while an agent writes it, which the statement about mail in time had taken for
impossible. No module uses a RECURSIVE operator.

## Findings

Each has a run that must end in a violation.

| Run | The code | The statement |
|---|---|---|
| `runtime_terminal` | a request's reset overwrites SHUTTING_DOWN, which `_shutdown` entered without the lock | `agent_state.py:41` "terminal state" |
| `runtime_answered` | `_decide` returns nothing when the decision service answered, so the cycle ends with an AttributeError | `agent_runtime.py:321` sense … explain |
| `governance` | `evaluate_action` records and blocks nothing; its checks have no caller, and the gate makes a new instance per call | `README.md:16` "Governance gates: eligibility, cooldown, repetition" |

### Met while modelling

Without a run of their own; where a property holds only up to one of these, it names it.

*Runtime, memory, perception.*
- A process resumed after a graceful shutdown starts in SHUTTING_DOWN (`agent_runtime.py:1138`
  saves it, `__init__` reloads it), no transition leaves that state, and its loop dies in its
  first sense, though "Run the agent loop continuously" (`agent_runtime.py:275`).
- After a restart the memory's counters start at 0 while the restored decisions remain:
  `decisions_evicted` can be negative and so can the rates. The success rate divides the
  successes among the last ten by up to fifty decisions: fifty successes are 20 %. The status
  thread reads counter and memory at two moments. `recall_recent_decisions(0)` returns all.
- The import of `PerceptionType` is commented out (`perception_adapters.py:9`), so no adapter
  can make a perception: a pass that meets something to report fails, after it has
  counted the lines before it as processed. `add_alert` and `add_onboarding_request` have no
  caller.
- Self restraint is commented out in the runtime (`agent_runtime.py:131`).

*Decision path and gate.*
- A reader of a truncated override store takes it for an empty one and acts on a frozen
  application, against `ARCHITECTURE_CURRENT.md:64` "enforces freeze before any non-noop
  action"; two overlapping overrides lose one. `execute_safe_action` does not look at
  freezes at all.
- A rollback in dev is refused (`rl_orchestrator_safe.py:31`), against
  `ARCHITECTURE.md:99`. The validator's rules are not those of the gate, though its comment
  says so (`rl_response_validator.py:42`); in stage, the scope of `decision.py` and the gate
  share nothing but noop. The validator reads codes and returns codes, the pipe knows names: in
  front of the pipe it would let no service act at all.
- The remote client resets its counter before it has read the body. A fallback decision has
  the source "rl_brain". The pipe for runtime events asks without looking at the autonomy
  switch. The runtime's adapter sends agent states that `decision.py` does not know, for
  which it answers noop.
- In the breaker of `resilience.py` a success that was on its way before a failure counts
  for closing after it.

*Reliability controller.* Two racing requests both act in one cooldown, against
readme.md:139; a restart of the executer forgets cooldowns; noop and failed actions use up a
cooldown; docker's stop grace and the cooldown are both 10 s. A container that uses its grace, or
needs longer to start than its cooldown lasts, is restarted again while it is still down, and
this may feed itself: `<>[]Responds(s)` alone, and recovery alone, fail. What holds is that
nothing else keeps a service from coming back for good, and `[]<>Outlasts(s)` in the two
properties is that restarts outlast their cooldown again and again.

*Pool and scaler.*
- Workers handle one item each, so `join` never returns for more jobs than workers, though
  "Wait for work to complete" (`multi_deploy_agent.py:269`). Pills left by a stop end workers
  of the next start. An `EventEmissionError` is swallowed by the worker, against "no silent
  failures" (`guaranteed_events.py:21`).
- `auto_scaler.py` calls `add_worker` and `remove_worker`, which the pool does not have: its
  pool never has another number of workers than it began with, and each attempt is
  repeated at the next interval. A stop and a start within one interval leave two loops
  for good.

*Backend.*
- `remove_link` compares two lengths of the list (`backend/app/main.py:709`): when an ingest
  of another link comes in between it answers "Link not found" for a link it removed, and
  when another removal does, "Link removed" for one that was not there.
- The decision of the autonomous loop is always noop: the adapter maps its inputs to a CPU
  of 30 or 70 and a memory of 40 or 75, and the thresholds are above 80 and 85 and below 30.
  A low CPU outweighs a high memory. The loop is always in dev, and by default polls the
  service it runs in.
- The bridge's applications are those of start-up, its latest decision is the oldest of its
  deque, and the unified total counts synced decisions twice.
- `control_plane/executor/executor.py` calls `log_event` of `core/trace_logger.py:51` with
  keywords it does not take, so `execute` raises TypeError before its lock: each
  `/control-plane/runtime-ingest` (`main.py:855-900`) stores the payload and then reports an
  error. The copy's `runtime_adapter.py:74` uses the undefined name `decision`.

*Buses.*
- The log is cut to 100 messages and the monitor counts them, so it prints nothing more once
  the log is full. Processes overwrite each other's messages; a monitor that starts in the
  middle of a save takes the whole history for new. A save that fails is swallowed
  (`sovereign_bus.py:28`) and may leave a file that does not parse.
- An exception in the relay's loop over its inbox, such as a message of another shape, ends the
  loop before the flags are written (`mcp_bridge.py:57`): what was published is published again,
  and the messages behind it never are.
- A subscription's thread pops kept messages by indexes that others have moved: it may
  remove a message of another type that nobody has heard. One published before the thread
  looks is heard twice. Without Redis `event_bus.publish` calls no subscriber.
- On the Redis bus a connection error gives the mock, though `redis_stability.py` "Removes
  silent Redis mock fallback". A listener that has ended is not replaced before the next
  `subscribe`, and a replaced one clears the flag of its successor.

*Simulation.*
- The detector's log file is its own log of issues, so that a failed deployment is never
  detected, though it is there to be (`issue_detector.py:70`, `:116`): the argument
  `log_file` is dropped, and `BaseAgent.__init__` gives the attribute the detector's own log.
- A restore that fails is caught (`auto_heal_agent.py:142`), answers with a failure and leaves
  the dataset truncated. A kill between truncation and write ruins it too, and the next run copies the ruin
  over the only backup. A restore puts back the anomaly that an earlier run left and reports
  success. A failed emission counts as "no failure". `docker-compose` starts `main.py`, which
  is not there any more.

## Not modelled

Every component is in `PROJECT.json` with its status and the reason.

- *Runtime ingest and executor*: unreachable as the code stands (the TypeError above).
- *The copy of the backend under `control_plane/backend`*: not what is deployed; its handlers
  of links are the same, and its runtime adapter raises.
- *Realtime bus, websocket server, telemetry; the Q-learning optimizer*: imported by nobody.
- *Metrics, logs and proofs*: output that no modelled decision reads. Where a failing write
  may interrupt a step, the step has that failure.
- *Monitoring of containers*: one query each, no state between two calls.
- *Security helpers*: used by their own tests only; the signatures of the Redis bus are
  verified by no subscriber.
- *Environment configuration*: constants.
- *Stubs, demos, static files*: no behaviour of their own.

Of the modelled components, what is left out is in their notes: queries and statistics, calls
without a caller, the kubernetes branch of the executer, and the policy services other than
`decision.py`, whose answer is a nondeterministic input. The build engine and the demo-mode
configuration are not in the repository and are external.

## Plan

Done: the runtime with its abstract service, the gate with the override store, the memory,
the reliability loop, the pool and its scaler, the backend, the decision path, governance,
the buses, and the processes that share files.

Next, models: an abstract registry whose operations are atomic, implemented by
`LinkRegistry` while requests do not overlap; the pipe of `DecisionPath` composed with the
gate of `SafeOrchestrator` by INSTANCE.
