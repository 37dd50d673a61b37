---------------------------- MODULE MCControlLoops ----------------------------
(* What stands between a recommendation and an action while services fail, for   *)
(* TLC: the pipe with its breakers and the self-restraint (DecisionPath), and    *)
(* the monitor and the executer with its cooldown (ReliabilityLoop; one service, *)
(* two clients and two request threads, enough for a race of the check of the    *)
(* cooldown, for a client that times out and asks again, and for a restart       *)
(* recommended from a probe older than the restart before it).  They share no    *)
(* data: a behaviour is about one of them.                                       *)
EXTENDS DecisionPath, ReliabilityLoop, TLC

VARIABLE part

SomeSettings ==
  {[env |-> "stage", enabled |-> TRUE, brain |-> "rules"],
   [env |-> "prod", enabled |-> FALSE, brain |-> "rules"],
   [env |-> "dev", enabled |-> TRUE, brain |-> "other"]}

ControlInit ==
  /\ part \in {"path", "loop"} /\ Init /\ LoopInit
  /\ part = "path" \/ guard = "restraint"
ControlNext ==
  \/ part = "path" /\ Next /\ UNCHANGED <<loopVars, part>>
  \/ part = "loop" /\ LoopNext /\ UNCHANGED <<vars, part>>

\* The fairness of the component that the behaviour is about.
ControlFairness ==
  /\ WF_vars(part = "path" /\ Tick)
  /\ \A c \in Callers : WF_vars(part = "path" /\ Step(c))
  /\ WF_loopVars(part = "loop" /\ LoopTick)
  /\ \A c \in Controllers :
       /\ WF_loopVars(part = "loop" /\ GiveUp(c))
       /\ WF_loopVars(part = "loop" /\ \E t \in Threads : Receive(t, c))
       /\ \A s \in Services : SF_loopVars(part = "loop" /\ Probe(c, s))
  /\ \A t \in Threads : WF_loopVars(part = "loop" /\ ThreadStep(t))

ControlSpec == ControlInit /\ [][ControlNext]_<<vars, loopVars, part>> /\ ControlFairness
=============================================================================
