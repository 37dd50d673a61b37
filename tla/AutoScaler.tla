------------------------------ MODULE AutoScaler ------------------------------
(***************************************************************************)
(* The automatic scaling of the deploy workers (auto_scaler.py).  One      *)
(* thread starts and stops it.  A start makes a pool of its own            *)
(* (DeployPool) and a loop that looks at the length of its queue every     *)
(* check_interval; a stop clears a flag that a sleeping loop sees only     *)
(* when it wakes, so a start that comes soon leaves two loops over one     *)
(* pool.  The loops act by add_worker and remove_worker, which the pool    *)
(* does not have: what raises is caught, and tried again an interval       *)
(* later.                                                                  *)
(*                                                                         *)
(* A tick is one check_interval: whatever a loop does takes much less.     *)
(***************************************************************************)
EXTENDS Naturals, FiniteSets

CONSTANTS
  MinWorkers, MaxWorkers,     \* min_workers, max_workers
  UpCooldown, DownCooldown,   \* scale_up_cooldown, scale_down_cooldown, in ticks
  MaxScalings                 \* bound: calls of start_auto_scaling that start a loop

ASSUME ScalerAssumption ==
  /\ MinWorkers \in Nat \ {0} /\ MaxWorkers \in Nat /\ MinWorkers <= MaxWorkers
  /\ UpCooldown \in Nat /\ DownCooldown \in Nat /\ UpCooldown <= DownCooldown
  /\ MaxScalings \in Nat

VARIABLES
  scaling,          \* running
  multi_agent,      \* the number of agents of the pool, 0 if there is none
  current_workers,
  since_action,     \* ticks since last_scale_action, up to DownCooldown
  manager,          \* the thread that starts and stops: what it has to do next
  loop,             \* per loop: where it is
  decision,         \* per loop: what it has decided
  stopped_for       \* ghost. Ticks since the last stop, up to 2

scaleVars == <<scaling, multi_agent, current_workers, since_action, manager, loop, decision,
               stopped_for>>

Loops == 1..MaxScalings
Begun == {l \in Loops : loop[l] # "none"}
Alive == {l \in Begun : loop[l] # "ended"}

ScaleInit ==
  /\ scaling = FALSE
  /\ multi_agent = 0
  /\ current_workers = 1
  /\ since_action = DownCooldown
  /\ manager = "idle"
  /\ loop = [l \in Loops |-> "none"] /\ decision = [l \in Loops |-> "no_action"]
  /\ stopped_for = 0

\* Everybody who is awake is done before the next tick; then every sleeper is awake.
ScaleTick ==
  /\ manager = "idle"
  /\ \A l \in Alive : loop[l] = "sleep"
  /\ loop' = [l \in Loops |-> IF loop[l] = "sleep" THEN "test" ELSE loop[l]]
  /\ since_action' = IF since_action = DownCooldown THEN DownCooldown ELSE since_action + 1
  /\ stopped_for' = IF scaling \/ stopped_for = 2 THEN stopped_for ELSE stopped_for + 1
  /\ UNCHANGED <<scaling, multi_agent, current_workers, manager, decision>>

-----------------------------------------------------------------------------
(* start_auto_scaling: the flag, the pool, the loop.  stop_auto_scaling.   *)

StartScaling ==
  /\ manager = "idle" /\ ~scaling
  /\ Cardinality(Begun) < MaxScalings
  /\ scaling' = TRUE
  /\ manager' = "pool"
  /\ stopped_for' = 0
  /\ UNCHANGED <<multi_agent, current_workers, since_action, loop, decision>>

CreatePool ==
  /\ manager = "pool"
  /\ multi_agent' = current_workers
  /\ manager' = "loop"
  /\ UNCHANGED <<scaling, current_workers, since_action, loop, decision, stopped_for>>

StartLoop ==
  /\ manager = "loop"
  /\ manager' = "idle"
  /\ loop' = [loop EXCEPT ![Cardinality(Begun) + 1] = "test"]
  /\ UNCHANGED <<scaling, multi_agent, current_workers, since_action, decision, stopped_for>>

\* The workers of the pool are stopped; the pool, and its queue, stay.
StopScaling ==
  /\ manager = "idle" /\ scaling
  /\ scaling' = FALSE
  /\ UNCHANGED <<multi_agent, current_workers, since_action, manager, loop, decision,
                 stopped_for>>

-----------------------------------------------------------------------------
(* _scaling_loop.                                                          *)

\* Faulty variant: the loop looks at the flag only when it begins.
GoesOnForever(l) == scaling \/ decision[l] # "no_action"

GoesOn(l) == scaling

TestScaling(l) ==
  /\ loop[l] = "test"
  /\ loop' = [loop EXCEPT ![l] = IF GoesOn(l) THEN "decide" ELSE "ended"]
  /\ UNCHANGED <<scaling, multi_agent, current_workers, since_action, manager, decision,
                 stopped_for>>

\* _make_scale_decision.  The queue is long, short or neither; an old loop may be here
\* before the new pool is there, and reads the queue of the old one.
Decisions(depth) ==
  CASE depth = "long" /\ current_workers < MaxWorkers /\ since_action >= UpCooldown -> "scale_up"
    [] depth = "short" /\ current_workers > MinWorkers /\ since_action >= DownCooldown ->
         "scale_down"
    [] OTHER -> "no_action"

Decide(l) ==
  /\ loop[l] = "decide"
  /\ \E depth \in {"long", "some", "short"} :
       decision' = [decision EXCEPT ![l] = Decisions(depth)]
  /\ loop' = [loop EXCEPT ![l] = "act"]
  /\ UNCHANGED <<scaling, multi_agent, current_workers, since_action, manager, stopped_for>>

\* What a scaler may ask of its pool (MultiDeployAgent).
PoolMethods == {"start_workers", "stop_workers", "submit_deployment", "get_status"}

\* Faulty variant: the new count is assigned before the worker is added.
ScaledEarly(l) ==
  /\ current_workers' = IF decision[l] = "scale_up" THEN current_workers + 1 ELSE current_workers
  /\ UNCHANGED <<multi_agent, since_action>>
\* _scale_up and _scale_down: the method is called first, then the count and the time are
\* assigned; an AttributeError skips both.
Scaled(l) ==
  IF \/ decision[l] = "scale_up" /\ "add_worker" \in PoolMethods
     \/ decision[l] = "scale_down" /\ "remove_worker" \in PoolMethods
  THEN /\ current_workers' = IF decision[l] = "scale_up" THEN current_workers + 1
                             ELSE current_workers - 1
       /\ multi_agent' = current_workers'
       /\ since_action' = 0
  ELSE UNCHANGED <<multi_agent, current_workers, since_action>>

\* Faulty variant: an error is not caught.
AfterErrorEnded(l) == IF decision[l] = "no_action" THEN "sleep" ELSE "ended"

\* Both branches sleep for an interval.
AfterError(l) == "sleep"

\* The loop acts, and writes a row of metrics unless it has raised.
Act(l) ==
  /\ loop[l] = "act"
  /\ Scaled(l)
  /\ loop' = [loop EXCEPT ![l] = AfterError(l)]
  /\ UNCHANGED <<scaling, manager, decision, stopped_for>>

ScaleNext ==
  \/ ScaleTick \/ StartScaling \/ CreatePool \/ StartLoop \/ StopScaling
  \/ \E l \in Loops : TestScaling(l) \/ Decide(l) \/ Act(l)

ScaleSpec == ScaleInit /\ [][ScaleNext]_scaleVars

-----------------------------------------------------------------------------

ScaleTypeOK ==
  /\ scaling \in BOOLEAN
  /\ multi_agent \in 0..MaxWorkers /\ current_workers \in 1..MaxWorkers
  /\ since_action \in 0..DownCooldown
  /\ manager \in {"idle", "pool", "loop"}
  /\ loop \in [Loops -> {"none", "test", "decide", "act", "sleep", "ended"}]
  /\ decision \in [Loops -> {"scale_up", "scale_down", "no_action"}]
  /\ stopped_for \in 0..2

\* The scaler's idea of the pool is true: what it counts as its workers, which bounds and
\* directs its next decision, is what the pool has, after any number of decisions that
\* could not be carried out, by however many loops.
CountIsThePools == multi_agent # 0 /\ manager # "pool" => current_workers = multi_agent

\* A scaler that is on is watched: whatever its loops ran into, and however stops and
\* starts fell between their tests, one of them is left.
ScalerIsWatched == scaling /\ manager = "idle" => Alive # {}

\* A scaler that has been off for two intervals has no loop left, however many were there:
\* a loop that missed one stop does not miss the next.
StoppedScalerEnds == ~scaling /\ manager = "idle" /\ stopped_for = 2 => Alive = {}

\* The loops of the scaler, and what they believe.
ScalerIsSound == ScaleTypeOK /\ CountIsThePools /\ ScalerIsWatched /\ StoppedScalerEnds

=============================================================================
