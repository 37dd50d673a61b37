----------------------------- MODULE MCSharedFiles -----------------------------
(* Processes that share files without a lock, are killed and started again, for *)
(* TLC: the registry of applications (AppRegistry), what the agent senses       *)
(* (Perception), the runs of the simulation (Healing), and the log of the       *)
(* sovereign bus (SovereignBus). They share no data, and a behaviour is about   *)
(* one of them.                                                                 *)
(*                                                                              *)
(* AppRegistry, in turn: two onboardings compete for a name while an            *)
(* orchestrator deploys, stops and scales beside their deployments; the second  *)
(* is replaced by a registrar, which overwrites what it likes; the two compete  *)
(* and there is no orchestrator; one onboarding, and agents that record         *)
(* decisions. Perception: three lines, so that a request has one before it and  *)
(* one behind it, and a timeline that is new or left by an earlier process.     *)
(* Healing: two runs, after or beside each other, on scores, where strategies   *)
(* are free or refused, and on a dataset whose anomaly nothing removes.         *)
(* SovereignBus: messages of two types, which its one process hands to two      *)
(* callbacks, one of which raises, or one of the three publications does, the   *)
(* second; or messages that two processes write, once in vain, to the file that *)
(* the monitor reads.                                                           *)
EXTENDS AppRegistry, Perception, Healing, SovereignBus, TLC

AllCasts == {Onboarders \cup Orchestrators, Onboarders \cup Registrars}
  \cup {{o} \cup Registrars \cup Orchestrators : o \in Onboarders}
  \cup {{o} \cup Recorders : o \in Onboarders}
  \cup {{}}

OneRuns ==
  {Absent} \cup {[NoApps EXCEPT ![a] = [status |-> "running", workers |-> 1]] : a \in Apps}

Timelines == {<<>>, <<"UP", "DOWN">>}

ThreePlaces == {[dataset |-> "scores", env |-> "dev"], [dataset |-> "scores", env |-> "prod"],
                [dataset |-> "sick", env |-> "stage"]}

VARIABLE part

FilesInit ==
  /\ part \in {"registry", "senses", "healing", "callbacks", "log"}
  /\ Init /\ SenseInit /\ HealInit /\ SovInit
  /\ (part = "registry") = (cast # {})
  /\ file # Absent => cast \cap Orchestrators # {} /\ cast \cap Registrars # {}
  /\ part # "senses" => timeline = <<>> /\ program = "agent"
  /\ part # "healing" => where.env = "stage"

\* What runs, callbacks and topics are used for tells them apart, and so it is said which
\* is used first.
FirstSim == CHOOSE s \in Sims : TRUE
FirstCallback == CHOOSE k \in Callbacks : TRUE
FirstTopic == CHOOSE t \in Topics : TRUE
Topical == {events'[i].on : i \in 1..Len(events')} \cup {listens'[k].to : k \in Callbacks}
InTurn ==
  /\ (\E s \in Sims : sim'[s].pc # "new") => sim'[FirstSim].pc # "new"
  /\ (\E k \in Callbacks : listens'[k].to # NoTopic) => listens'[FirstCallback].to # NoTopic
  /\ Topical \subseteq {NoTopic} \/ FirstTopic \in Topical

AloneAtHome ==
  /\ UNCHANGED <<viewer, failed>> /\ \A p \in Publishers \ {Home} : publisher'[p] = "off"
  /\ unheard' \subseteq {2} /\ (unheard' = {} \/ raised_by' = {})
NobodyListens ==
  UNCHANGED <<listens, unheard>> /\ Topical \subseteq {NoTopic, FirstTopic}

FilesNext ==
  /\ UNCHANGED part
  /\ \/ part = "registry" /\ Next /\ UNCHANGED <<senseVars, simVars, sovVars>>
     \/ part = "senses" /\ SenseNext /\ UNCHANGED <<vars, simVars, sovVars>>
     \/ part = "healing" /\ HealNext /\ UNCHANGED <<vars, senseVars, sovVars>>
     \/ /\ part = "callbacks" /\ SovNext /\ AloneAtHome
        /\ UNCHANGED <<vars, senseVars, simVars>>
     \/ /\ part = "log" /\ SovNext /\ NobodyListens
        /\ UNCHANGED <<vars, senseVars, simVars>>
  /\ InTurn
FilesSpec == FilesInit /\ [][FilesNext]_<<part, vars, senseVars, simVars, sovVars>>

FilesSymmetry == Permutations(Onboarders) \cup Permutations(Apps)
=============================================================================
