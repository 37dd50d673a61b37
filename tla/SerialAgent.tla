----------------------------- MODULE SerialAgent -----------------------------
(***************************************************************************)
(* What the agent runtime promises its callers: cycles run one at a time,  *)
(* a caller is told at most once what became of its event, the answer is   *)
(* about the caller's own event and comes after the event's action was     *)
(* executed, and nothing is executed for an event that has its answer.     *)
(* (agent_runtime.py: "Respects the FSM lifecycle and uses the execution   *)
(* lock", handle_external_event.)                                          *)
(***************************************************************************)
CONSTANTS Requests, Loop, Nobody

VARIABLES active,    \* whose cycle is running
          executed,  \* whose action has been executed
          outcome    \* per request: its answer

serialVars == <<active, executed, outcome>>

SInit ==
  /\ active = Nobody
  /\ executed = {}
  /\ outcome = [r \in Requests |-> "none"]

SBegin(t) ==
  /\ active = Nobody
  /\ t \in Requests => outcome[t] = "none"
  /\ active' = t
  /\ UNCHANGED <<executed, outcome>>

SExecute ==
  /\ active # Nobody
  /\ active \in Requests => outcome[active] = "none"
  /\ executed' = executed \cup {active}
  /\ UNCHANGED <<active, outcome>>

\* An event is refused before anything is done for it, or fails, or is
\* answered with its own decision.
SAnswer(r) ==
  /\ active = r
  /\ outcome[r] = "none"
  /\ \/ /\ r \notin executed
        /\ outcome' = [outcome EXCEPT ![r] = "refused"]
     \/ outcome' = [outcome EXCEPT ![r] = "failed"]
     \/ /\ r \in executed
        /\ outcome' = [outcome EXCEPT ![r] = r]
  /\ UNCHANGED <<active, executed>>

SEnd ==
  /\ active # Nobody
  /\ active \in Requests => outcome[active] # "none"
  /\ active' = Nobody
  /\ UNCHANGED <<executed, outcome>>

\* The process dies: a request whose answer had not reached its caller is
\* lost.  An answer that has been delivered stays.
SCrash ==
  /\ active' = Nobody
  /\ outcome' \in [Requests -> Requests \cup {"none", "failed", "refused", "lost"}]
  /\ \A r \in Requests :
       \/ outcome'[r] = outcome[r]
       \/ outcome'[r] = "lost" /\ (outcome[r] = "none" \/ active = r)
  /\ UNCHANGED executed

SNext ==
  \/ \E t \in Requests \cup {Loop} : SBegin(t)
  \/ SExecute
  \/ \E r \in Requests : SAnswer(r)
  \/ SEnd
  \/ SCrash

SSpec == SInit /\ [][SNext]_serialVars

=============================================================================
