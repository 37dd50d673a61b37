------------------------------ MODULE Perception ------------------------------
(***************************************************************************)
(* What the agent senses: the perception layer (core/perception.py), its   *)
(* four adapters (core/perception_adapters.py) as agent_runtime.py         *)
(* registers them, and the uptime monitor (agents/uptime_monitor.py).      *)
(*                                                                         *)
(* Every adapter builds its perception from PerceptionType, whose import   *)
(* is commented out (perception_adapters.py:9): a NameError where a        *)
(* perception would be made.  What differs is who catches it, and what was *)
(* consumed before.                                                        *)
(*                                                                         *)
(* Others append to the file of onboarding requests while the agent reads  *)
(* it, and a pass may meet a line that is half written.  Two programs      *)
(* construct a monitor over the same timeline: the agent, which senses and *)
(* never changes the status, and the simulation (_local_simulation.py),    *)
(* which changes it.  One of them runs at a time here; it may be killed    *)
(* between any two steps, and one of them is started again.                *)
(***************************************************************************)
EXTENDS Naturals, Sequences, SequencesExt

CONSTANTS
  MaxLines,      \* bound: lines of the file of requests
  MaxAlerts,     \* bound: alerts given to one process
  OldTimelines,  \* bound: rows of the timeline before the first start
  MaxRows,       \* bound: rows of the timeline
  MaxStarts      \* bound: processes

ASSUME PerceptionAssumption ==
  /\ MaxLines \in Nat /\ MaxAlerts \in Nat /\ MaxRows \in Nat /\ MaxStarts \in Nat \ {0}
  /\ \A rows \in OldTimelines :  \* as earlier processes have left them
       /\ rows \in Seq({"UP", "DOWN"})
       /\ \A i \in 1..Len(rows) - 1 : rows[i] # rows[i + 1]

VARIABLES
  requests,   \* the lines of data/onboarding_requests.jsonl
  half,       \* is its last line half written
  processed,  \* processed_lines, numbered from 1
  met_half,   \* ghost: processed lines that the pass met half written
  alerts,     \* alerts of the SystemAlertAdapter that wait
  perceived,  \* perception_history
  timeline,   \* the statuses in uptime_log.csv
  last,       \* last_status of the UptimeMonitor
  monitor,    \* what it is doing: nothing, or a change of status and how far that is
  emitted,    \* ghost: statuses whose restart event was emitted, in order
  program,    \* the process that runs: "agent" or "simulation"
  starts      \* processes started

onboarding == <<requests, half, processed, met_half>>
uptime     == <<timeline, last, monitor, emitted>>
process    == <<program, starts>>
senseVars  == <<onboarding, alerts, perceived, uptime, process>>

-----------------------------------------------------------------------------
(* The adapters.                                                           *)

\* What a stripped line is: empty, no JSON, JSON that can be searched and has no app_id, a
\* number or null, in which nothing can be searched, a request.
LineKinds == {"blank", "garbled", "nameless", "scalar", "request"}

\* The lines at which a pass ends: a TypeError of the search, the NameError of a perception.
Raising == {"scalar", "request"}

\* A line as it is read: half of it is no JSON.
Reads(i) == IF half /\ i = Len(requests) THEN "garbled" ELSE requests[i]

New == {i \in DOMAIN requests : i \notin processed}

\* What `Perception(type=PerceptionType...)` makes.
Made == {}

\* Faulty variant: a line counts as processed before it is looked at.
PassedOver == {i \in New : \A j \in New : j < i => Reads(j) \notin Raising}

\* OnboardingInputAdapter.perceive: new lines in order, up to the first one that raises,
\* which the outer handler catches before the line counts as processed.
PassOver == {i \in New : \A j \in New : j <= i => Reads(j) \notin Raising}

\* SystemAlertAdapter.perceive: the alert is popped before the NameError, which only the
\* layer catches; the rest waits for the next pass.
AlertsLeft == IF alerts = 0 THEN 0 ELSE alerts - 1

\* The agent has been constructed.
Senses == program = "agent" /\ monitor.do = "ready"

\* PerceptionLayer.perceive, called by _sense. The event bus has no get_recent_events
\* and the health adapter raises as well: both return nothing.
Perceive ==
  /\ Senses
  /\ processed' = processed \cup PassOver
  /\ met_half' = met_half \cup {i \in PassOver : half /\ i = Len(requests)}
  /\ alerts' = AlertsLeft
  /\ perceived' = perceived \cup Made
  /\ UNCHANGED <<requests, half, uptime, process>>

\* add_alert, which nothing in the program calls.
AddAlert ==
  /\ Senses
  /\ alerts < MaxAlerts /\ alerts' = alerts + 1
  /\ UNCHANGED <<onboarding, perceived, uptime, process>>

\* A writer appends a line, or the first half of one.
AppendLine ==
  /\ ~half /\ Len(requests) < MaxLines
  /\ \E kind \in LineKinds : requests' = Append(requests, kind)
  /\ half' \in IF Last(requests') = "blank" THEN {FALSE} ELSE BOOLEAN
  /\ UNCHANGED <<processed, met_half, alerts, perceived, uptime, process>>

CompleteLine ==
  /\ half /\ half' = FALSE
  /\ UNCHANGED <<requests, processed, met_half, alerts, perceived, uptime, process>>

-----------------------------------------------------------------------------
(* The uptime monitor.                                                     *)

MonitorReady == [do |-> "ready", status |-> "UP"]

\* _get_initial_status: the status of the last row, if there is one.
InitialStatus(rows) == IF rows = <<>> THEN "none" ELSE Last(rows)

\* Faulty variant: the first status is logged whatever the file says.
ConstructedUp(rows) == [do |-> "emit", status |-> "UP"]

\* __init__: without a status, the monitor says UP.
Constructed(rows) == IF rows = <<>> THEN [do |-> "emit", status |-> "UP"] ELSE MonitorReady

\* update_status, up to the comparison with the last status.
UpdateStatus(status) ==
  /\ program = "simulation" /\ monitor.do = "ready" /\ Len(timeline) < MaxRows
  /\ status # last
  /\ monitor' = [do |-> "emit", status |-> status]
  /\ UNCHANGED <<onboarding, alerts, perceived, timeline, last, emitted, process>>

\* emit_restart_event.
EmitStatus ==
  /\ monitor.do = "emit"
  /\ emitted' = Append(emitted, monitor.status)
  /\ monitor' = [monitor EXCEPT !.do = "write"]
  /\ UNCHANGED <<onboarding, alerts, perceived, timeline, last, process>>

\* A destination raised. The exception is passed on, out of the constructor as well, and
\* neither program catches it.
EmitRaises ==
  /\ monitor.do = "emit"
  /\ monitor' = [MonitorReady EXCEPT !.do = "failed"]
  /\ UNCHANGED <<onboarding, alerts, perceived, timeline, last, emitted, process>>

\* Faulty variant: the status is kept for the next comparison before the row is written.
WriteStatusLast ==
  /\ monitor.do = "write"
  /\ last' = monitor.status
  /\ monitor' = MonitorReady
  /\ UNCHANGED <<onboarding, alerts, perceived, timeline, emitted, process>>

WriteStatus ==
  /\ monitor.do = "write"
  /\ timeline' = Append(timeline, monitor.status)
  /\ monitor' = [monitor EXCEPT !.do = "assign"]
  /\ UNCHANGED <<onboarding, alerts, perceived, last, emitted, process>>

\* last_status is assigned; a publication that fails is only printed.
AssignStatus ==
  /\ monitor.do = "assign"
  /\ last' = monitor.status
  /\ monitor' = MonitorReady
  /\ UNCHANGED <<onboarding, alerts, perceived, timeline, emitted, process>>

-----------------------------------------------------------------------------

Programs == {"agent", "simulation"}

SenseInit ==
  /\ requests = <<>> /\ half = FALSE
  /\ processed = {} /\ met_half = {}
  /\ alerts = 0
  /\ perceived = {}
  /\ timeline \in OldTimelines
  /\ last = InitialStatus(timeline) /\ monitor = Constructed(timeline)
  /\ emitted = timeline
  /\ program \in Programs /\ starts = 1

\* The process is killed, or has failed to start, and is started again: the adapters and
\* the history are new, the two files are as they were left.
StartAgain ==
  /\ starts < MaxStarts /\ starts' = starts + 1
  /\ program' \in Programs
  /\ processed' = {} /\ met_half' = {}
  /\ alerts' = 0 /\ perceived' = {}
  /\ last' = InitialStatus(timeline) /\ monitor' = Constructed(timeline)
  /\ UNCHANGED <<requests, half, timeline, emitted>>

MonitorStep == EmitStatus \/ EmitRaises \/ WriteStatus \/ AssignStatus

SenseNext ==
  \/ Perceive \/ AddAlert \/ AppendLine \/ CompleteLine
  \/ \E status \in {"UP", "DOWN"} : UpdateStatus(status)
  \/ MonitorStep
  \/ StartAgain

SenseSpec == SenseInit /\ [][SenseNext]_senseVars

-----------------------------------------------------------------------------

SenseTypeOK ==
  /\ requests \in Seq(LineKinds) /\ half \in BOOLEAN
  /\ processed \subseteq DOMAIN requests /\ met_half \subseteq processed
  /\ alerts \in 0..MaxAlerts
  /\ perceived = {}
  /\ timeline \in Seq({"UP", "DOWN"}) /\ emitted \in Seq({"UP", "DOWN"})
  /\ last \in {"UP", "DOWN", "none"}
  /\ monitor \in [do : {"ready", "emit", "write", "assign", "failed"}, status : {"UP", "DOWN"}]
  /\ program \in Programs /\ starts \in 1..MaxStarts

\* A line that raises is passed over only when the pass met half of it; that one is never
\* looked at again by this process, although it is complete by now.
OnlyHalfLinesAreSkipped ==
  \A i \in processed : requests[i] \in Raising => i \in met_half

\* The first such line that no pass has skipped, a request or a number, stops all that is
\* behind it: bad lines there are not even reported.
NothingBehindARaise ==
  \A i \in processed : \A j \in 1..i : requests[j] \in Raising => j \in met_half

\* The timeline tells changes: no status is followed by itself, whatever restarts, failed
\* emissions and kills came in between, and a monitor that is not in the middle of a
\* change compares with the status of the last row.
TimelineTellsChanges ==
  /\ \A i \in 1..Len(timeline) - 1 : timeline[i] # timeline[i + 1]
  /\ monitor.do = "ready" => last = InitialStatus(timeline)

\* "Guaranteed event emission": a row has had its event before; a kill or a failed write
\* leaves events without a row, in the order of the rows otherwise.
RowsHadTheirEvents ==
  \E at \in [DOMAIN timeline -> DOMAIN emitted] :
    \A i, j \in DOMAIN timeline :
      timeline[i] = emitted[at[i]] /\ (i < j => at[i] < at[j])

\* The input files and the timeline, as the passes and the monitor leave them.
PerceptionIsSound ==
  /\ SenseTypeOK
  /\ OnlyHalfLinesAreSkipped /\ NothingBehindARaise
  /\ TimelineTellsChanges /\ RowsHadTheirEvents
=============================================================================
