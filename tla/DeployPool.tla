------------------------------ MODULE DeployPool ------------------------------
(***************************************************************************)
(* The pool of deploy workers (control_plane/agents/multi_deploy_agent.py) *)
(* with the events that a worker emits (core/guaranteed_events.py) and the *)
(* row it logs (agents/deploy_agent.py).                                   *)
(*                                                                         *)
(* One main thread starts and stops the pool, submits work and waits for   *)
(* it.  A worker thread handles one item of the work queue and ends.  The  *)
(* queue is Python's queue.Queue: it counts what was put and not yet       *)
(* reported as done, and join waits for that count to be 0.                *)
(***************************************************************************)
EXTENDS Naturals, Sequences, FiniteSets, SequencesExt

CONSTANTS
  Deploys, Scalings, Restarts,   \* the jobs that may be submitted, by action type
  Nothing,
  Workers,                       \* the number of deploy agents
  Envs,
  Destinations,                  \* where an event is sent, in order: Redis, CSV, metrics, RL
  MaxStarts,                     \* bound: calls of start_workers that start threads
  MaxStops,                      \* bound: calls of stop_workers
  MaxFaults                      \* bound: exceptions in workers

Jobs == Deploys \cup Scalings \cup Restarts

ASSUME PoolAssumption ==
  /\ Deploys \cap Scalings = {} /\ Deploys \cap Restarts = {} /\ Scalings \cap Restarts = {}
  /\ Nothing \notin Jobs
  /\ Workers \in Nat \ {0}
  /\ Envs \subseteq {"dev", "stage", "prod"}
  /\ Destinations \in Seq(STRING) /\ Destinations # <<>>
  /\ MaxStarts \in Nat /\ MaxStops \in Nat /\ MaxFaults \in Nat

VARIABLES
  env,
  running,
  work_queue,
  unfinished,   \* unfinished_tasks of the queue
  spawned,      \* the length of worker_threads
  thread,       \* per thread: where it is, its job, the next destination
  main,         \* what the main thread is doing, and how often it still has to
  submitted,    \* the jobs that were submitted
  refused,      \* the jobs that were refused
  delivered,    \* per job: the destinations its event has reached
  missed,       \* per job: the destinations that raised
  rows,         \* per job: the number of its rows in the deployment logs
  dropped,      \* ghost: jobs whose worker ended in its exception handler
  faults, stops

jobs == <<submitted, refused, delivered, missed, rows, dropped>>
vars == <<env, running, work_queue, unfinished, spawned, thread, main, jobs, faults, stops>>

AllDestinations == ToSet(Destinations)

Threads == 1..(Workers * MaxStarts)
Started == 1..spawned
Ended(t) == thread[t].pc = "ended"
Quiet == [do |-> "idle", left |-> 0]

\* The poison pill.
Pill == Nothing

Init ==
  /\ env \in Envs
  /\ running = FALSE
  /\ work_queue = <<>>
  /\ unfinished = 0
  /\ spawned = 0
  /\ thread = [t \in Threads |-> [pc |-> "none", job |-> Nothing, next |-> 1]]
  /\ main = Quiet
  /\ submitted = {} /\ refused = {} /\ dropped = {}
  /\ delivered = [j \in Jobs |-> {}] /\ missed = [j \in Jobs |-> {}]
  /\ rows = [j \in Jobs |-> 0]
  /\ faults = 0 /\ stops = 0

\* Faulty variant: what is put comes before what is there.
PutFirst(item) ==
  /\ work_queue' = <<item>> \o work_queue
  /\ unfinished' = unfinished + 1

Put(item) ==
  /\ work_queue' = Append(work_queue, item)
  /\ unfinished' = unfinished + 1

Fault == faults < MaxFaults /\ faults' = faults + 1

-----------------------------------------------------------------------------
(* The main thread.                                                        *)

\* start_workers, up to its loop; it does nothing when the pool is running.
StartWorkers ==
  /\ main = Quiet
  /\ spawned + Workers <= Workers * MaxStarts
  /\ ~running
  /\ running' = TRUE
  /\ main' = [do |-> "start", left |-> Workers]
  /\ UNCHANGED <<env, work_queue, unfinished, spawned, thread, jobs, faults, stops>>

\* One thread of the loop; they run as soon as they are started.
StartThread ==
  /\ main.do = "start"
  /\ spawned' = spawned + 1
  /\ thread' = [thread EXCEPT ![spawned + 1].pc = "new"]
  /\ main' = IF main.left = 1 THEN Quiet ELSE [main EXCEPT !.left = @ - 1]
  /\ UNCHANGED <<env, running, work_queue, unfinished, jobs, faults, stops>>

\* stop_workers clears the flag, puts one pill per agent, whether the pool runs or not, and
\* waits for each thread for a second; a thread that is still at work is left behind.
StopWorkers ==
  /\ main = Quiet
  /\ stops < MaxStops /\ stops' = stops + 1
  /\ running' = FALSE
  /\ main' = [do |-> "stop", left |-> Workers]
  /\ UNCHANGED <<env, work_queue, unfinished, spawned, thread, jobs, faults>>

PutPill ==
  /\ main.do = "stop"
  /\ Put(Pill)
  /\ main' = IF main.left = 1 THEN [do |-> "await", left |-> 0]
             ELSE [main EXCEPT !.left = @ - 1]
  /\ UNCHANGED <<env, running, spawned, thread, jobs, faults, stops>>

StopReturns ==
  /\ main.do = "await"
  /\ main' = Quiet
  /\ UNCHANGED <<env, running, work_queue, unfinished, spawned, thread, jobs, faults, stops>>

\* validate_prod_action: of what is submitted here, prod allows restarts only.
Refuses(j) == env = "prod" /\ j \notin Restarts

\* Faulty variant of Submit: the refusal does not return.
SubmitAnyway(j) ==
  /\ main = Quiet
  /\ j \notin submitted
  /\ submitted' = submitted \cup {j}
  /\ refused' = IF Refuses(j) THEN refused \cup {j} ELSE refused
  /\ Put(j)
  /\ UNCHANGED <<env, running, spawned, thread, main, delivered, missed, rows, dropped, faults, stops>>

\* submit_deployment.
Submit(j) ==
  /\ main = Quiet
  /\ j \notin submitted
  /\ submitted' = submitted \cup {j}
  /\ IF Refuses(j)
     THEN refused' = refused \cup {j} /\ UNCHANGED <<work_queue, unfinished>>
     ELSE Put(j) /\ UNCHANGED refused
  /\ UNCHANGED <<env, running, spawned, thread, main, delivered, missed, rows, dropped, faults, stops>>

\* work_queue.join().
Join ==
  /\ main = Quiet
  /\ main' = [do |-> "join", left |-> 0]
  /\ UNCHANGED <<env, running, work_queue, unfinished, spawned, thread, jobs, faults, stops>>

JoinReturns ==
  /\ main.do = "join" /\ unfinished = 0
  /\ main' = Quiet
  /\ UNCHANGED <<env, running, work_queue, unfinished, spawned, thread, jobs, faults, stops>>

-----------------------------------------------------------------------------
(* A worker: _worker_loop.                                                 *)

End(t) == thread' = [thread EXCEPT ![t] = [pc |-> "ended", job |-> Nothing, next |-> 1]]
GoTo(t, pc) == thread' = [thread EXCEPT ![t].pc = pc]

CheckRunning(t) ==
  /\ thread[t].pc = "new"
  /\ IF running THEN GoTo(t, "get") ELSE End(t)
  /\ UNCHANGED <<env, running, work_queue, unfinished, spawned, main, jobs, faults, stops>>

\* get(timeout=1) takes the oldest item; a pill ends the thread.
Get(t) ==
  /\ thread[t].pc = "get"
  /\ work_queue # <<>>
  /\ work_queue' = Tail(work_queue)
  /\ IF Head(work_queue) = Pill THEN End(t)
     ELSE thread' = [thread EXCEPT ![t] = [@ EXCEPT !.pc = "emit", !.job = Head(work_queue)]]
  /\ UNCHANGED <<env, running, unfinished, spawned, main, jobs, faults, stops>>

\* Faulty variants of GetTimesOut: only a stopped pool lets go of its workers; the second
\* passes whatever is in the queue.
GetTimesOutWhenStopped(t) ==
  /\ thread[t].pc = "get"
  /\ work_queue = <<>> /\ ~running
  /\ End(t)
  /\ UNCHANGED <<env, running, work_queue, unfinished, spawned, main, jobs, faults, stops>>
GetTimesOutEarly(t) ==
  /\ thread[t].pc = "get"
  /\ End(t)
  /\ UNCHANGED <<env, running, work_queue, unfinished, spawned, main, jobs, faults, stops>>

\* queue.Empty: a second has passed and the queue is still empty.
GetTimesOut(t) ==
  /\ thread[t].pc = "get"
  /\ work_queue = <<>>
  /\ End(t)
  /\ UNCHANGED <<env, running, work_queue, unfinished, spawned, main, jobs, faults, stops>>

\* Faulty variant of EmitNext: the first failure ends the emission.
EmitNextAborting(t) ==
  IF thread[t].next = Len(Destinations) \/ missed' # missed THEN "log" ELSE "emit"

\* One destination of the event.  What raises is remembered and the next one is tried;
\* the worker catches the error at the end and goes on.
EmitNext(t) == IF thread[t].next = Len(Destinations) THEN "log" ELSE "emit"
Emit(t) ==
  LET j == thread[t].job
      d == Destinations[thread[t].next]
  IN /\ thread[t].pc = "emit"
     /\ \/ /\ delivered' = [delivered EXCEPT ![j] = @ \cup {d}]
           /\ UNCHANGED <<missed, faults>>
        \/ /\ Fault
           /\ missed' = [missed EXCEPT ![j] = @ \cup {d}]
           /\ UNCHANGED delivered
     /\ thread' = [thread EXCEPT ![t] = [thread[t] EXCEPT !.pc = EmitNext(t), !.next = @ + 1]]
     /\ UNCHANGED <<env, running, work_queue, unfinished, spawned, main,
                    submitted, refused, rows, dropped, stops>>

\* log_deployment writes the row and then publishes and records metrics.
Log(t) ==
  /\ thread[t].pc = "log"
  /\ rows' = [rows EXCEPT ![thread[t].job] = @ + 1]
  /\ GoTo(t, "record")
  /\ UNCHANGED <<env, running, work_queue, unfinished, spawned, main,
                 submitted, refused, delivered, missed, dropped, faults, stops>>

TaskDone(t) ==
  /\ thread[t].pc = "record"
  /\ unfinished' = unfinished - 1
  /\ End(t)
  /\ UNCHANGED <<env, running, work_queue, spawned, main, jobs, faults, stops>>

\* Faulty variant: task_done is called in any case.
HandleErrorDone(t) ==
  /\ unfinished' = unfinished - 1
  /\ dropped' = dropped \cup {thread[t].job}

\* except Exception: the item is neither put back nor reported as done.
HandleError(t) ==
  /\ UNCHANGED unfinished
  /\ dropped' = dropped \cup {thread[t].job}

Raise(t) ==
  /\ \/ thread[t].pc = "emit" /\ thread[t].next = 1     \* the deployment itself
     \/ thread[t].pc \in {"log", "record"}
  /\ Fault
  /\ HandleError(t)
  /\ End(t)
  /\ UNCHANGED <<env, running, work_queue, spawned, main,
                 submitted, refused, delivered, missed, rows, stops>>

-----------------------------------------------------------------------------

MainStep == StartThread \/ PutPill \/ StopReturns \/ JoinReturns
WorkerStep(t) ==
  \/ CheckRunning(t) \/ Get(t) \/ GetTimesOut(t) \/ Emit(t) \/ Log(t)
  \/ TaskDone(t) \/ Raise(t)

Next ==
  \/ StartWorkers \/ StopWorkers \/ Join
  \/ \E j \in Jobs : Submit(j)
  \/ MainStep
  \/ \E t \in Threads : WorkerStep(t)

\* While a worker can run, some worker runs: less than what the scheduler promises to
\* each.  Nobody has to call anything.
Fairness == WF_vars(MainStep) /\ WF_vars(\E t \in Threads : WorkerStep(t))

Spec == Init /\ [][Next]_vars /\ Fairness

-----------------------------------------------------------------------------

Queued(j) == \E i \in 1..Len(work_queue) : work_queue[i] = j
Held(j)   == \E t \in Threads : thread[t].job = j
Logged(j) == rows[j] > 0 /\ ~Held(j) /\ j \notin dropped
Accepted  == submitted \ refused

TypeOK ==
  /\ env \in Envs
  /\ running \in BOOLEAN
  /\ work_queue \in Seq(Jobs \cup {Pill})
  /\ unfinished \in Nat
  /\ spawned \in 0..(Workers * MaxStarts)
  /\ thread \in [Threads ->
       [pc : {"none", "new", "get", "emit", "log", "record", "ended"},
        job : Jobs \cup {Nothing}, next : 1..(Len(Destinations) + 1)]]
  /\ main \in [do : {"idle", "start", "stop", "await", "join"},
               left : 0..Workers]
  /\ submitted \subseteq Jobs /\ refused \subseteq submitted /\ dropped \subseteq submitted
  /\ delivered \in [Jobs -> SUBSET AllDestinations]
  /\ missed \in [Jobs -> SUBSET AllDestinations]
  /\ rows \in [Jobs -> Nat]
  /\ faults \in 0..MaxFaults /\ stops \in 0..MaxStops

\* No job is lost without an error message, and none is deployed twice: an accepted job
\* is in one place of the queue, or with one worker, or logged in one row, or was
\* dropped by an exception; whatever stops, restarts and pills went by.  A refused job
\* is nowhere.
JobsAreAccountedFor ==
  /\ \A j \in Accepted :
       Cardinality({p \in {"queued", "held", "logged", "dropped"} :
                      \/ p = "queued"  /\ Queued(j)
                      \/ p = "held"    /\ Held(j)
                      \/ p = "logged"  /\ Logged(j)
                      \/ p = "dropped" /\ j \in dropped}) = 1
  /\ \A j \in Jobs :
       /\ rows[j] <= 1
       /\ \A i, k \in 1..Len(work_queue) : work_queue[i] = j /\ work_queue[k] = j => i = k
       /\ \A t, u \in Threads : thread[t].job = j /\ thread[u].job = j => t = u
  /\ \A j \in Jobs \ Accepted : ~Queued(j) /\ ~Held(j) /\ rows[j] = 0

\* What work_queue.join() is called for: when it returns, every accepted job has been
\* logged, none is left behind by an exception or a pill.
JoinMeansLogged == [][JoinReturns => \A j \in Accepted : Logged(j)]_vars

\* "Emit runtime event to ALL destinations": a destination that raises keeps no other
\* from being tried, so a job that has its row has been sent everywhere or is known to
\* have missed the rest.
EveryDestinationIsTried ==
  \A j \in Jobs : rows[j] > 0 => delivered[j] \cup missed[j] = AllDestinations

\* No worker outlives its item: every thread ends, whether it gets a job, a pill or
\* nothing, and whether the pool is stopped before, while or after it waits.
WorkersEnd == <>[](\A t \in Threads : thread[t].pc \in {"none", "ended"})

\* A job is taken if enough workers wait for what is in front of it and for it.
WaitingWorkers == {t \in Threads : thread[t].pc = "get"}
Covered(j) == \E i \in 1..Len(work_queue) :
                work_queue[i] = j /\ i <= Cardinality(WaitingWorkers)
WaitingWorkersTakeJobs == \A j \in Jobs : Covered(j) ~> ~Queued(j)

\* What has become of a job, seen from outside, and which jobs it waits for.
JobState(j) ==
  IF j \notin submitted THEN "new"
  ELSE IF j \in refused THEN "refused"
  ELSE IF Queued(j) THEN "waiting"
  ELSE IF Held(j) THEN "taken"
  ELSE IF j \in dropped THEN "failed"
  ELSE IF Logged(j) THEN "done"
  ELSE "lost"
InFront(j) == {k \in Jobs : \E i, l \in 1..Len(work_queue) :
                 i < l /\ work_queue[i] = k /\ work_queue[l] = j}

\* The pool implements a queue of jobs: they are taken in the order of their submission, none
\* goes back to an earlier state, and join returns when all are done (submit_deployment,
\* _worker_loop and work_queue.join), though workers end after one job each, and pills of an
\* earlier stop lie between the jobs.
Queue == INSTANCE JobQueue
         WITH state   <- [j \in Jobs |-> JobState(j)],
              ahead   <- [j \in Jobs |-> InFront(j)],
              joining <- main.do = "join"
JobQueueService == Queue!QSpec

\* Jobs and their runtime events: nothing is lost, doubled or silently left out.
DeploymentsAreAccountedFor == TypeOK /\ JobsAreAccountedFor /\ EveryDestinationIsTried

=============================================================================
