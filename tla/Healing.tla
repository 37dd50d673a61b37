-------------------------------- MODULE Healing --------------------------------
(***************************************************************************)
(* The healing loop of the simulation (_local_simulation.py): it backs up  *)
(* and changes a dataset (utils.py), looks for issues (IssueDetector),     *)
(* heals (AutoHealAgent), learns which strategy helps (RLTrainer) and      *)
(* reports the status (UptimeMonitor).                                     *)
(*                                                                         *)
(* Each run is a process that goes through the script once; it may be      *)
(* killed, and docker-compose starts the next one.  Runs share the         *)
(* dataset, its one backup and the Q-table: a file is opened for writing   *)
(* (it is then empty), written and closed, without a lock.                 *)
(***************************************************************************)
EXTENDS Naturals, Sequences, FiniteSets

CONSTANTS
  Sims,             \* runs of the simulation, all in one environment
  Nobodys, Emptied, \* no backup yet; a file that was opened and not yet written
  Muddled,          \* rows of one table behind those of another
  LowBatches,       \* forced batches that bring the average below the threshold
  Places,           \* the dataset ("scores", "sick", "healthy", "other") and the environment
  MaxSimKills,      \* bound: runs that are killed
  MaxRaises         \* bound: exceptions and failures: events, deployments, restores

\* What rl_log.csv can hold: the runs whose learning is in it.
Tables == SUBSET (Sims \cup {Muddled})

ASSUME HealingAssumption ==
  /\ Places \subseteq [dataset : {"scores", "sick", "healthy", "other"},
                      env : {"dev", "stage", "prod"}]
  /\ LowBatches \in Nat \ {0} /\ MaxSimKills \in Nat /\ MaxRaises \in Nat
  /\ Nobodys # Emptied
  /\ Nobodys \notin Seq(Sims) /\ Emptied \notin Seq(Sims)
  /\ Muddled \notin Sims /\ \A table \in Tables : table # Nobodys /\ table # Emptied

VARIABLES
  where,     \* the dataset and the environment: [dataset, env]
  data,      \* the runs whose rows the dataset holds, after its first rows
  backup,    \* <dataset>.bak
  qtable,    \* the runs whose learning rl_log.csv holds
  sim,       \* per run: see Fresh
  shown,     \* the last status of the timeline
  killed, raised,
  ruined,    \* ghost. The dataset was empty while no run was under way
  learned    \* ghost. The table that was last written, while no write was cut off

sharedFiles == <<data, backup, qtable, shown>>
simVars == <<where, sharedFiles, sim, killed, raised, ruined, learned>>

Strategies == {"retry_deployment", "restore_previous_version", "adjust_thresholds"}

\* A run: its options (forced anomaly, planner), where it is; the rows and the table it has
\* read, what it found, chose and achieved, its monitor's last_status.  Ghosts: was it
\* alone so far, and the dataset when it started.
Fresh == [pc |-> "new", forced |-> FALSE, rl |-> FALSE, rows |-> <<>>, table |-> {},
          deployed |-> "success", found |-> "no_failure", strategy |-> "none", status |-> "none",
          last |-> "UP", alone |-> TRUE, before |-> <<>>]

Under(s) == sim[s].pc \notin {"new", "ended", "died"}
Still == \A s \in Sims : ~Under(s)

HealInit ==
  /\ where \in Places
  /\ data = <<>> /\ backup = Nobodys /\ qtable = Nobodys
  /\ sim = [s \in Sims |-> Fresh]
  /\ shown = "UP"
  /\ killed = 0 /\ raised = 0
  /\ ruined = FALSE /\ learned = {}

Step(s, from, new) == sim[s].pc = from /\ sim' = [sim EXCEPT ![s] = new]
Goes(s, from, to)  == Step(s, from, [sim[s] EXCEPT !.pc = to])

\* A run that is over: only whether its rows were forced is still of interest.
Over(s, how) == [Fresh EXCEPT !.pc = how, !.forced = sim[s].forced]
Dies(s) ==
  /\ sim' = [sim EXCEPT ![s] = Over(s, "died")]
  /\ ruined' = (ruined \/ (data = Emptied /\ \A u \in Sims \ {s} : ~Under(u)))
Raises == raised < MaxRaises /\ raised' = raised + 1

\* What a file holds after a write: a second writer may leave the end of a longer text.
Overlaid(old, new) ==
  IF old \in {Emptied, Nobodys} \/ old = <<>> THEN {new}
  ELSE {new, Append(new, old[Len(old)])}

-----------------------------------------------------------------------------
(* The start of a run.                                                     *)

\* Faulty variant: every run starts to learn anew.
LoadedTableNever == {}

\* _load_q_table: no file and an empty file are an empty table. (What pandas cannot read is
\* a run that ends before it has done anything, as one that is not started.)
LoadedTable == IF qtable \in {Nobodys, Emptied} THEN {} ELSE qtable

\* The agents are constructed and the trainer loads its table.
StartRun(s) ==
  /\ sim[s].pc = "new"
  /\ \E forced, rl \in BOOLEAN :
       sim' = [u \in Sims |->
         IF u = s THEN [Fresh EXCEPT !.pc = "backup", !.forced = forced, !.rl = rl,
                                     !.table = IF rl THEN LoadedTable ELSE {},
                                     !.last = shown, !.alone = Still,
                                     !.before = IF Still THEN data ELSE <<>>]
         ELSE IF Under(u) THEN [sim[u] EXCEPT !.alone = FALSE, !.before = <<>>] ELSE sim[u]]
  /\ UNCHANGED <<where, sharedFiles, killed, raised, ruined, learned>>

\* simulate_data_change: copyfile truncates the backup and fills it with what is there.
OpenBackup(s) ==
  /\ Goes(s, "backup", "copy")
  /\ backup' = Emptied
  /\ UNCHANGED <<where, data, qtable, shown, killed, raised, ruined, learned>>
FillBackup(s) ==
  /\ Goes(s, "copy", "read")
  /\ backup' \in IF data = Emptied THEN {backup} ELSE Overlaid(backup, data)
  /\ UNCHANGED <<where, data, qtable, shown, killed, raised, ruined, learned>>

\* Faulty variant: an empty file is a dataset without rows.
ReadDataAnyway(s) ==
  /\ Step(s, "read", [sim[s] EXCEPT !.pc = "open", !.rows = IF data = Emptied THEN <<>> ELSE data])
  /\ UNCHANGED <<where, sharedFiles, killed, raised, ruined, learned>>

\* read_csv: an empty file ends the run, after its backup has been made.
ReadData(s) ==
  /\ \/ /\ data # Emptied
        /\ Step(s, "read", [sim[s] EXCEPT !.pc = "open", !.rows = data])
        /\ UNCHANGED ruined
     \/ data = Emptied /\ sim[s].pc = "read" /\ Dies(s)
  /\ UNCHANGED <<where, sharedFiles, killed, raised, learned>>

OpenData(s) ==
  /\ Goes(s, "open", "write")
  /\ data' = Emptied
  /\ UNCHANGED <<where, backup, qtable, shown, killed, raised, ruined, learned>>

\* Only a dataset of scores gets rows; every dataset is written again.
WithRowsOf(s, rows) == IF where.dataset = "scores" THEN Append(rows, s) ELSE rows

\* Faulty variant: the backup is not taken before the change.
WriteDataBackedUpAfter(s) ==
  /\ data' = Append(sim[s].rows, s) /\ backup' = data'
  /\ Step(s, "write", [sim[s] EXCEPT !.pc = "detect", !.rows = <<>>])
  /\ UNCHANGED <<where, qtable, shown, killed, raised, ruined, learned>>

WriteData(s) ==
  /\ data' \in Overlaid(data, WithRowsOf(s, sim[s].rows))
  /\ Step(s, "write", [sim[s] EXCEPT !.pc = "detect", !.rows = <<>>])
  /\ UNCHANGED <<where, backup, qtable, shown, killed, raised, ruined, learned>>

-----------------------------------------------------------------------------
(* IssueDetector.detect_failure_type, before and after the deployment.     *)

Anomalous ==
  \/ where.dataset = "sick"
  \/ /\ where.dataset = "scores"
     /\ Cardinality({i \in DOMAIN data : sim[data[i]].forced}) >= LowBatches

\* get_log_headers: the columns of the detector's own issue log. BaseAgent has set log_file
\* to that log, in place of the log of deployments.
LogColumns == {"timestamp", "failure_state", "reason"}
SeenFailed(s) == "status" \in LogColumns /\ sim[s].deployed = "failure"

\* An empty file counts as no failure. Without an anomaly, the status of the last row of
\* log_file is looked at, if it has one.
FailureStates(s) ==
  {IF data # Emptied /\ Anomalous THEN "anomaly"
   ELSE IF SeenFailed(s) THEN "deployment_failure" ELSE "no_failure"}

Detect(s, from, to) ==
  \/ /\ \E state \in FailureStates(s) :
          Step(s, from, [sim[s] EXCEPT !.pc = to, !.found = state])
     /\ UNCHANGED <<where, sharedFiles, killed, raised, ruined, learned>>
  \/ /\ "no_failure" \notin FailureStates(s)  \* _log_issue raises: caught, no failure
     /\ Raises
     /\ Goes(s, from, to)
     /\ UNCHANGED <<where, sharedFiles, killed, ruined, learned>>

DetectFirst(s) == Detect(s, "detect", "deploy")
DetectSecond(s) == Detect(s, "again", "report")

\* trigger_dashboard_deployment, called without the environment, and log_deployment.
Deploy(s) ==
  /\ \E deployed \in {"success", "failure"} :
       /\ IF deployed = "success" THEN UNCHANGED raised ELSE Raises
       /\ Step(s, "deploy", [sim[s] EXCEPT !.deployed = deployed,
            !.pc = IF sim[s].found = "no_failure" THEN "again" ELSE "report"])
  /\ UNCHANGED <<where, sharedFiles, killed, ruined, learned>>

\* Faulty variant: last_status is not assigned.
StatusForgotten(s, status, to) ==
  /\ sim' = [sim EXCEPT ![s].pc = to]
  /\ shown' = IF sim[s].last = status THEN shown ELSE status

\* UptimeMonitor.update_status: a row only for a change of what this monitor has seen.
UpdatesStatus(s, status, to) ==
  /\ sim' = [sim EXCEPT ![s].pc = to, ![s].last = status, ![s].deployed = "success"]
  /\ shown' = IF sim[s].last = status THEN shown ELSE status

AfterHealing(s) == IF sim[s].rl THEN "save" ELSE "end"

ReportFound(s) ==
  /\ sim[s].pc = "report"
  /\ IF sim[s].found = "no_failure" THEN UpdatesStatus(s, "UP", AfterHealing(s))
     ELSE UpdatesStatus(s, "DOWN", "heal")
  /\ UNCHANGED <<where, data, backup, qtable, killed, raised, ruined, learned>>

-----------------------------------------------------------------------------
(* AutoHealAgent.execute_action and what follows it.                       *)

\* validate_prod_action.
RefusedInProd(strategy) == where.env = "prod" /\ strategy # "retry_deployment"

Healed(s, strategy, status, to) ==
  Step(s, "heal", [sim[s] EXCEPT !.pc = to, !.strategy = strategy, !.status = status])

\* Any strategy: by chance, by the seed in stage, or by the trainer, which explores.
ChooseStrategy(s) ==
  /\ \E strategy \in Strategies :
       IF RefusedInProd(strategy) THEN Healed(s, strategy, "refused", "learn")
       ELSE CASE strategy = "adjust_thresholds" -> Healed(s, strategy, "success", "learn")
              [] strategy = "retry_deployment" -> Healed(s, strategy, "none", "redeploy")
              [] strategy = "restore_previous_version" ->
                   IF backup = Nobodys THEN Healed(s, strategy, "failure", "learn")
                   ELSE Healed(s, strategy, "none", "restore")
  /\ UNCHANGED <<where, sharedFiles, killed, raised, ruined, learned>>

\* copyfile again, the other way round.
OpenRestored(s) ==
  /\ Goes(s, "restore", "restoring")
  /\ data' = Emptied
  /\ UNCHANGED <<where, backup, qtable, shown, killed, raised, ruined, learned>>
FillRestored(s) ==
  /\ Goes(s, "restoring", "redeploy")
  /\ data' \in IF backup = Emptied THEN {data} ELSE Overlaid(data, backup)
  /\ UNCHANGED <<where, backup, qtable, shown, killed, raised, ruined, learned>>

\* copyfile fails, before or after it has emptied the dataset: caught, and only answered.
RestoreFails(s) ==
  /\ \E from \in {"restore", "restoring"} :
       Step(s, from, [sim[s] EXCEPT !.pc = "learn", !.status = "failure"])
  /\ Raises
  /\ UNCHANGED <<where, sharedFiles, killed, ruined, learned>>

\* trigger_dashboard_deployment with the environment: stage always succeeds.
Redeploy(s) ==
  /\ \/ Step(s, "redeploy", [sim[s] EXCEPT !.pc = "learn", !.status = "success"])
        /\ UNCHANGED raised
     \/ /\ where.env # "stage" /\ Raises
        /\ Step(s, "redeploy", [sim[s] EXCEPT !.pc = "learn", !.status = "failure"])
  /\ UNCHANGED <<where, sharedFiles, killed, ruined, learned>>

\* The event and the log of the healing; RLTrainer.learn, after the user was asked.
Learn(s) ==
  /\ Step(s, "learn", [sim[s] EXCEPT !.pc = "recover",
                                     !.table = IF sim[s].rl THEN @ \cup {s} ELSE @])
  /\ UNCHANGED <<where, sharedFiles, killed, raised, ruined, learned>>

\* log_deployment, and the status.
ReportHealed(s) ==
  /\ sim[s].pc = "recover"
  /\ IF sim[s].status = "success" THEN UpdatesStatus(s, "UP", AfterHealing(s))
     ELSE Goes(s, "recover", AfterHealing(s)) /\ UNCHANGED shown
  /\ UNCHANGED <<where, data, backup, qtable, killed, raised, ruined, learned>>

\* save_q_table, also of a run that has learned nothing. Of two that write, the second may
\* leave the end of the first one's rows.
OpenTable(s) ==
  /\ Goes(s, "save", "saving")
  /\ qtable' = Emptied
  /\ UNCHANGED <<where, data, backup, shown, killed, raised, ruined, learned>>
SaveTable(s) ==
  /\ Goes(s, "saving", "end")
  /\ qtable' \in {sim[s].table}
                \cup IF qtable = Emptied THEN {} ELSE {sim[s].table \cup {Muddled}}
  /\ learned' = qtable'
  /\ UNCHANGED <<where, data, backup, shown, killed, raised, ruined>>

EndRun(s) ==
  /\ sim[s].pc = "end"
  /\ sim' = [sim EXCEPT ![s] = Over(s, "ended")]
  /\ ruined' = (ruined \/ (data = Emptied /\ \A u \in Sims \ {s} : ~Under(u)))
  /\ UNCHANGED <<where, sharedFiles, killed, raised, learned>>

\* An event that cannot be emitted or published, or no terminal to ask the user: not caught.
RunRaises(s) ==
  /\ sim[s].pc \in {"report", "learn", "recover"} \/ (sim[s].pc = "heal" /\ sim[s].rl)
  /\ Raises /\ Dies(s)
  /\ UNCHANGED <<where, sharedFiles, killed, learned>>

\* Killed, or ended by an exception elsewhere: a file that cannot be written.
KillRun(s) ==
  /\ Under(s)
  /\ killed < MaxSimKills /\ killed' = killed + 1
  /\ Dies(s)
  /\ learned' = IF sim[s].pc = "saving" /\ qtable = Emptied THEN {} ELSE learned
  /\ UNCHANGED <<where, sharedFiles, raised>>

-----------------------------------------------------------------------------

RunStep(s) ==
  \/ StartRun(s) \/ OpenBackup(s) \/ FillBackup(s) \/ ReadData(s) \/ OpenData(s) \/ WriteData(s)
  \/ DetectFirst(s) \/ Deploy(s) \/ DetectSecond(s) \/ ReportFound(s)
  \/ ChooseStrategy(s) \/ OpenRestored(s) \/ FillRestored(s) \/ RestoreFails(s)
  \/ Redeploy(s) \/ Learn(s) \/ ReportHealed(s)
  \/ OpenTable(s) \/ SaveTable(s) \/ EndRun(s)
  \/ RunRaises(s) \/ KillRun(s)

HealNext == \E s \in Sims : RunStep(s)

HealSpec == HealInit /\ [][HealNext]_simVars

-----------------------------------------------------------------------------

HealTypeOK ==
  /\ data \in Seq(Sims) \cup {Emptied} /\ backup \in Seq(Sims) \cup {Emptied, Nobodys}
  /\ qtable \in Tables \cup {Emptied, Nobodys} /\ learned \in Tables
  /\ shown \in {"UP", "DOWN"}
  /\ \A s \in Sims : sim[s].table \in Tables /\ sim[s].strategy \in Strategies \cup {"none"}
  /\ killed \in 0..MaxSimKills /\ raised \in 0..MaxRaises

\* restore_previous_version undoes exactly what its own run has added, when no other run
\* was under way: not the anomaly of an earlier run, which the backup of this one holds.
\* One that is answered with failure has done that, nothing, or emptied the dataset.
RestoreUndoesTheRun ==
  \A s \in Sims :
    sim[s].alone /\ sim[s].pc \in {"redeploy", "learn", "recover"}
                 /\ sim[s].strategy = "restore_previous_version" /\ sim[s].status # "refused"
      => \/ data = sim[s].before
         \/ sim[s].status = "failure" /\ data \in {WithRowsOf(s, sim[s].before), Emptied}

\* A dataset that was left empty stays empty: the next run overwrites the one good backup
\* before it fails to read the dataset, and no run gets as far as a restore.
RuinIsFinal == ruined => data = Emptied

\* A run on its own has all that was learned, unless the table was cut off by a kill.
LearningIsKept ==
  \A s \in Sims : Under(s) /\ sim[s].alone /\ sim[s].rl => sim[s].table \ {s} = learned \ {s}

\* DOWN stays on the timeline, when no run is under way, only if one of them has not
\* healed; whatever the other monitors believe the status to be.
DownIsFounded ==
  Still /\ shown = "DOWN" => killed > 0 \/ raised > 0 \/ where.env = "prod"

\* What a run leaves behind: the dataset and its backup, the table, the status.
HealingIsSound ==
  /\ HealTypeOK
  /\ RestoreUndoesTheRun /\ RuinIsFinal /\ LearningIsKept
  /\ DownIsFounded
=============================================================================
