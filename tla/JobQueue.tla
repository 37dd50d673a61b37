------------------------------- MODULE JobQueue -------------------------------
(***************************************************************************)
(* What the pool of deploy workers promises to those who submit jobs: a    *)
(* job is accepted or refused once, accepted jobs are taken in the order   *)
(* of their submission, each is taken once and then done or failed, and    *)
(* who waits for the work to complete goes on only when all is done.       *)
(* (control_plane/agents/multi_deploy_agent.py: submit_deployment,         *)
(* _worker_loop, "Wait for work to complete".)  Workers, starts, stops and *)
(* poison pills are not to be seen.                                        *)
(***************************************************************************)
CONSTANT Jobs

VARIABLES
  state,     \* per job: what has become of it
  ahead,     \* per job: the waiting jobs that were accepted before it
  joining    \* does the submitter wait for the work to complete

queueVars == <<state, ahead, joining>>

QInit ==
  /\ state = [j \in Jobs |-> "new"]
  /\ ahead = [j \in Jobs |-> {}]
  /\ joining = FALSE

Becomes(j, old, new) ==
  /\ state[j] = old
  /\ state' = [state EXCEPT ![j] = new]
  /\ UNCHANGED joining

QAccept(j) ==
  /\ ~joining
  /\ Becomes(j, "new", "waiting")
  /\ ahead' = [ahead EXCEPT ![j] = {k \in Jobs : state[k] = "waiting"}]

QRefuse(j) == ~joining /\ Becomes(j, "new", "refused") /\ UNCHANGED ahead

\* The job that has waited longest.
QTake(j) ==
  /\ ahead[j] = {}
  /\ Becomes(j, "waiting", "taken")
  /\ ahead' = [k \in Jobs |-> ahead[k] \ {j}]

QFinish(j) == Becomes(j, "taken", "done") /\ UNCHANGED ahead
QFail(j)   == Becomes(j, "taken", "failed") /\ UNCHANGED ahead

QJoin == ~joining /\ joining' = TRUE /\ UNCHANGED <<state, ahead>>

QJoinReturns ==
  /\ joining /\ \A j \in Jobs : state[j] \in {"new", "refused", "done"}
  /\ joining' = FALSE
  /\ UNCHANGED <<state, ahead>>

QNext ==
  \/ \E j \in Jobs : QAccept(j) \/ QRefuse(j) \/ QTake(j) \/ QFinish(j) \/ QFail(j)
  \/ QJoin \/ QJoinReturns

QSpec == QInit /\ [][QNext]_queueVars

=============================================================================
