------------------------------ MODULE AppRegistry ------------------------------
(***************************************************************************)
(* The registration of applications (onboarding_entry.py,                  *)
(* control_plane/apps/onboard_app.py), their deployment                    *)
(* (orchestrator/app_orchestrator.py, deploy_orchestrator.py) and the      *)
(* views over them (control_plane/multi_app_control_plane.py).             *)
(*                                                                         *)
(* Each registration and each orchestrator is a process of its own.  They  *)
(* share the directory of specs, the index, the build registry and one     *)
(* state file, without a lock: a file is opened for writing (it is then    *)
(* empty), written and closed.                                             *)
(***************************************************************************)
EXTENDS Naturals, Sequences, FiniteSets, FiniteSetsExt

CONSTANTS
  Apps,
  Onboarders,      \* runs of onboarding_entry.py
  Registrars,      \* runs of onboard_app.py
  Orchestrators,   \* holders of an AppOrchestrator: deploy_orchestrator.py
  Recorders,       \* agents that append to the decision history, one row each
  Casts,           \* which of these processes there are, see the variable cast
  ShippedFiles,    \* the state files there may be at the start
  Nothing, Absent, Empty, Garbled,   \* no value; no file, a truncated file, two writes mixed
  MaxWorkers,
  MaxCommands,     \* bound: commands of one orchestrator
  MaxKills         \* bound: processes that are killed or fail to write

Deployers == Onboarders \cup Orchestrators
Procs == Deployers \cup Registrars
Unreadable == {Empty, Garbled}

ASSUME RegistryAssumption ==
  /\ Onboarders \cap Registrars = {} /\ Onboarders \cap Orchestrators = {}
  /\ Registrars \cap Orchestrators = {}
  /\ Casts \subseteq SUBSET (Procs \cup Recorders)
  /\ MaxWorkers \in Nat \ {0} /\ MaxCommands \in Nat /\ MaxKills \in Nat

VARIABLES
  cast,       \* the processes of this behaviour
  shipped,    \* ghost. The apps of the state file at the start
  spec,       \* per app: the registration apps/registry/<app>.json holds
  index,      \* registry_index.jsonl
  build,      \* per app: the registration its successful build was made from
  file,       \* app_state_<env>.json: per app its entry
  pc, job,    \* per process: where it is, what it was asked for
  read,       \* per process: the registration a deployment builds
  copy,       \* per process: the state in memory
  commands,   \* commands given to orchestrators
  history,    \* decision_history.jsonl
  stamp,      \* per recorder: the timestamp it has taken, the row being written
  clock,
  kills,
  together,   \* ghost. Pairs of onboardings that both found a name free
  mixed,      \* ghost. Files that two processes had open for writing at once
  stored,     \* ghost. The state that was last written completely
  fresh       \* ghost. Per app: orchestrators that have read its current entry

setting == <<cast, shipped>>
files   == <<spec, index, build, file>>
views   == <<history, stamp, clock>>
ghosts  == <<together, mixed, stored, fresh>>
vars    == <<setting, files, pc, job, read, copy, commands, views, kills, ghosts>>

Entry    == [status : {"running", "stopped"}, workers : 1..MaxWorkers]
NoApps   == [a \in Apps |-> Nothing]
States   == [Apps -> Entry \cup {Nothing}]
Commands == {"deploy", "stop"} \cup {"scale"}
Tasks    == [app : Apps, command : Commands, workers : 0..MaxWorkers]

\* Where a process can be.
Points == {"idle", "create", "write", "index", "load", "ready", "lookup", "build", "open",
           "save", "done", "killed", "killed_writing", "killed_saving", "failed_writing",
           "failed_saving"}

\* What stands for no value or no file is none of the values.
ASSUME NoValueAssumption ==
  /\ Nothing \notin Procs /\ Nothing \notin Entry /\ Nothing \notin Tasks
  /\ Absent \notin Procs \cup Unreadable /\ Empty # Garbled
  /\ Unreadable \cap Procs = {}
  /\ ShippedFiles \subseteq States \cup {Absent}
  /\ Absent \notin States /\ \A u \in Unreadable : u \notin States
  /\ Nothing \notin [app : Apps, at : Nat, by : Recorders]

Init ==
  /\ cast \in Casts
  /\ spec = [a \in Apps |-> Absent] /\ build = NoApps
  /\ index = <<>>
  /\ file \in ShippedFiles
  /\ stored = (IF file = Absent THEN NoApps ELSE file)
  /\ shipped = {a \in Apps : stored[a] # Nothing}
  /\ pc = [p \in Procs |-> "idle"] /\ job = [p \in Procs |-> Nothing]
  /\ read = [p \in Procs |-> Nothing]
  /\ copy = [p \in Procs |-> NoApps]
  /\ commands = [p \in Orchestrators |-> 0]
  /\ history = <<>> /\ stamp = [r \in Recorders |-> Nothing] /\ clock = 0
  /\ kills = 0
  /\ together = {} /\ mixed = {}
  /\ fresh = [a \in Apps |-> {}]

GoTo(p, label) == pc' = [pc EXCEPT ![p] = label]
At(p, label)   == pc[p] = label

\* Faulty variant: a write that fails goes unnoticed.
WrittenOrLeftEmpty(old, new) == {new, Empty}

\* What a file holds after a write: all of it when nothing was written since it was
\* truncated; otherwise the tail of a longer one may be left.
Written(old, new) == IF old \in {Empty, Absent} THEN {new} ELSE {new, Garbled}

\* And after a write that failed: nothing, or the start of it (Empty too: it does not parse).
LeftOff(old) == IF old \in {Empty, Absent} THEN {Empty} ELSE {old, Garbled}

-----------------------------------------------------------------------------
(* Registration.                                                           *)

Ask(p, a) == job' = [job EXCEPT ![p] = [app |-> a, command |-> "deploy", workers |-> 1]]

\* Faulty variant: the name is not looked up.
ValidateInputAnyName(a, wellFormed) == wellFormed

\* _validate_input: name, runtime and URL are well formed and the name is not taken.
ValidateInput(a, wellFormed) == wellFormed /\ spec[a] = Absent

\* OnboardingEntry.process up to the end of validation: refused, or on to the spec.
Onboard(p) ==
  /\ p \in cast \cap Onboarders /\ At(p, "idle")
  /\ \E a \in Apps, wellFormed \in BOOLEAN :
       /\ Ask(p, a)
       /\ IF ValidateInput(a, wellFormed)
          THEN /\ GoTo(p, "create")
               /\ together' = together \cup
                    {{p, q} : q \in {o \in Onboarders : At(o, "create") /\ job[o].app = a}}
          ELSE GoTo(p, "done") /\ UNCHANGED together
  /\ UNCHANGED <<setting, files, read, copy, commands, views, kills, mixed, stored, fresh>>

\* AppOnboarder.onboard up to save_to_registry: a valid spec of whatever name.
Register(p) ==
  /\ p \in cast \cap Registrars /\ At(p, "idle")
  /\ \E a \in Apps : Ask(p, a)
  /\ GoTo(p, "create")
  /\ UNCHANGED <<setting, files, read, copy, commands, views, kills, ghosts>>

\* open(<app>.json, "w").
CreateSpec(p) ==
  /\ At(p, "create")
  /\ spec' = [spec EXCEPT ![job[p].app] = Empty]
  /\ mixed' = IF \E q \in Procs : At(q, "write") /\ job[q].app = job[p].app
              THEN mixed \cup {job[p].app} ELSE mixed
  /\ GoTo(p, "write")
  /\ UNCHANGED <<setting, index, build, file, job, read, copy, commands, views, kills,
                 together, stored, fresh>>

WriteSpec(p) ==
  /\ At(p, "write")
  /\ \E s \in Written(spec[job[p].app], p) : spec' = [spec EXCEPT ![job[p].app] = s]
  /\ GoTo(p, IF p \in Onboarders THEN "index" ELSE "done")
  /\ UNCHANGED <<setting, index, build, file, job, read, copy, commands, views, kills, ghosts>>

\* The index row, and the ACCEPTED row of the log; the deployment comes next.
AppendIndex(p) ==
  /\ At(p, "index")
  /\ index' = Append(index, [app |-> job[p].app, by |-> p])
  /\ GoTo(p, "load")
  /\ UNCHANGED <<setting, spec, build, file, job, read, copy, commands, views, kills, ghosts>>

-----------------------------------------------------------------------------
(* AppOrchestrator.                                                        *)

\* deploy_orchestrator.py is started.
StartOrchestrator(p) ==
  /\ p \in cast \cap Orchestrators /\ At(p, "idle")
  /\ GoTo(p, "load")
  /\ UNCHANGED <<setting, files, job, read, copy, commands, views, kills, ghosts>>

\* Faulty variant: an orchestrator starts without the state of the others.
LoadedAfresh(p) == [copy EXCEPT ![p] = NoApps]

\* _load_state: a state file that does not parse ends the process; an onboarding catches
\* the exception and ends without a deployment.
Loaded(p) == [copy EXCEPT ![p] = IF file = Absent THEN NoApps ELSE file]
LoadState(p) ==
  /\ At(p, "load")
  /\ IF file \in Unreadable
     THEN GoTo(p, "done") /\ UNCHANGED <<copy, fresh>>
     ELSE /\ copy' = Loaded(p)
          /\ fresh' = [a \in Apps |-> fresh[a] \cup {p}]
          /\ GoTo(p, IF p \in Onboarders THEN "lookup" ELSE "ready")
  /\ UNCHANGED <<setting, files, job, read, commands, views, kills, together, mixed, stored>>

\* The command ends without a change of state.
Ready(p) == GoTo(p, IF p \in Onboarders THEN "done" ELSE "ready")

Refuses(p, a, w) == copy[p][a] = Nothing \/ w < 1

\* stop_app and scale_app write the entry whatever docker answers.  They refuse an app
\* that is not in memory, and scale_app less than one worker.
Command(p) ==
  /\ p \in Orchestrators /\ At(p, "ready") /\ commands[p] < MaxCommands
  /\ commands' = [commands EXCEPT ![p] = @ + 1]
  /\ \E a \in Apps, c \in Commands, w \in 0..MaxWorkers :
       /\ c # "scale" => w = 1
       /\ job' = [job EXCEPT ![p] = [app |-> a, command |-> c, workers |-> w]]
       /\ \/ c = "deploy" /\ GoTo(p, "lookup")
          \/ /\ c # "deploy"
             /\ IF Refuses(p, a, w) THEN Ready(p) ELSE GoTo(p, "open")
  /\ UNCHANGED <<setting, files, read, copy, views, kills, ghosts>>

\* Faulty variant: a deployment does not need a spec.
LookUpAnything(p) ==
  /\ At(p, "lookup")
  /\ read' = [read EXCEPT ![p] = p]
  /\ GoTo(p, IF build[job[p].app] # Nothing THEN "open" ELSE "build")
  /\ UNCHANGED <<setting, files, job, copy, commands, views, kills, ghosts>>

\* deploy_app: with a build of the app the spec is not looked at; without one it must be
\* there and parse.
LookUp(p) ==
  LET a == job[p].app
  IN /\ At(p, "lookup")
     /\ \/ /\ build[a] # Nothing
           /\ GoTo(p, "open") /\ UNCHANGED read
        \/ /\ build[a] = Nothing
           /\ IF spec[a] \in {Absent} \cup Unreadable THEN Ready(p) /\ UNCHANGED read
              ELSE GoTo(p, "build") /\ read' = [read EXCEPT ![p] = spec[a]]
     /\ UNCHANGED <<setting, files, job, copy, commands, views, kills, ghosts>>

\* BuildEngine.build, which records a successful build in the build registry.
Build(p) ==
  /\ At(p, "build")
  /\ \/ /\ build' = [build EXCEPT ![job[p].app] = read[p]]
        /\ GoTo(p, "open")
     \/ Ready(p) /\ UNCHANGED build
  /\ UNCHANGED <<setting, spec, index, file, job, read, copy, commands, views, kills, ghosts>>

\* The entry the command writes: a deployment starts with one worker again; stopping keeps
\* the number, scaling keeps the status.
Changed(p) ==
  LET j   == job[p]
      old == copy[p][j.app]
  IN CASE j.command = "deploy" -> [status |-> "running", workers |-> 1]
       [] j.command = "stop"   -> [old EXCEPT !.status = "stopped"]
       [] j.command = "scale"  -> [old EXCEPT !.workers = j.workers]

\* _save_state: the whole state in memory.
OpenState(p) ==
  /\ At(p, "open")
  /\ copy' = [copy EXCEPT ![p][job[p].app] = Changed(p)]
  /\ file' = Empty
  /\ mixed' = IF \E q \in Deployers : At(q, "save") THEN mixed \cup {"state"} ELSE mixed
  /\ GoTo(p, "save")
  /\ UNCHANGED <<setting, spec, index, build, job, read, commands, views, kills,
                 together, stored, fresh>>

SaveState(p) ==
  /\ At(p, "save")
  /\ file' \in Written(file, copy[p])
  /\ stored' = copy[p]
  /\ fresh' = [a \in Apps |-> IF stored[a] = copy[p][a] THEN fresh[a] ELSE {p}]
  /\ Ready(p)
  /\ UNCHANGED <<setting, spec, index, build, job, read, copy, commands, views, kills,
                 together, mixed>>

Exit(p) ==
  /\ At(p, "ready")
  /\ GoTo(p, "done")
  /\ UNCHANGED <<setting, files, job, read, copy, commands, views, kills, ghosts>>

\* The write of a spec or of the state fails, because the disk is full or a value of the
\* spec (a YAML date) has no JSON.  The registrar and the deployment of an onboarding
\* catch the exception, and end, as the others do.
WriteFails(p) ==
  /\ kills < MaxKills /\ kills' = kills + 1
  /\ \/ /\ At(p, "write")
        /\ \E s \in LeftOff(spec[job[p].app]) : spec' = [spec EXCEPT ![job[p].app] = s]
        /\ GoTo(p, "failed_writing") /\ UNCHANGED file
     \/ /\ At(p, "save")
        /\ file' \in LeftOff(file)
        /\ GoTo(p, "failed_saving") /\ UNCHANGED spec
  /\ UNCHANGED <<setting, index, build, job, read, copy, commands, views, ghosts>>

\* A process that is killed, or ended by an exception elsewhere, leaves what it has open
\* as it is.
Kill(p) ==
  /\ kills < MaxKills /\ kills' = kills + 1
  /\ pc[p] \in {"create", "write", "index", "load", "ready", "lookup", "build", "open", "save"}
  /\ GoTo(p, CASE pc[p] = "write" -> "killed_writing"
               [] pc[p] = "save"  -> "killed_saving"
               [] OTHER           -> "killed")
  /\ UNCHANGED <<setting, files, job, read, copy, commands, views, ghosts>>

-----------------------------------------------------------------------------
(* The views of the control plane.                                         *)

\* append_decision_history stamps the row and then appends it.  The rows carry no
\* trace_id, so that no signal is built from them.
StampRecord(r) ==
  /\ r \in cast /\ stamp[r] = Nothing
  /\ \E a \in Apps, t \in {clock, clock + 1} :
       /\ stamp' = [stamp EXCEPT ![r] = [app |-> a, at |-> t]]
       /\ clock' = t
  /\ UNCHANGED <<setting, files, pc, job, read, copy, commands, history, kills, ghosts>>

AppendRecord(r) ==
  /\ stamp[r] # Nothing /\ ~\E i \in 1..Len(history) : history[i].by = r
  /\ history' = Append(history, [app |-> stamp[r].app, at |-> stamp[r].at, by |-> r])
  /\ UNCHANGED <<setting, files, pc, job, read, copy, commands, stamp, clock, kills, ghosts>>

\* list_apps skips what does not parse.
ListedApps == {a \in Apps : spec[a] \notin {Absent} \cup Unreadable}

\* In a list sorted by time, newest first, the row i stands before the row k; rows of the
\* same time stay in their order.
Before(i, k) ==
  \/ history[i].at > history[k].at
  \/ history[i].at = history[k].at /\ i < k

RowsOf(a) == {i \in 1..Len(history) : history[i].app = a}

\* get_decision_history: the row with n others before it is the one at the place n + 1.
\* SetToSortSeq takes the order as an operator, which keeps the provers out.
DecisionHistory(a, limit) ==
  LET ahead(i) == {k \in RowsOf(a) : Before(k, i)}
      nth(j)   == CHOOSE i \in RowsOf(a) : Cardinality(ahead(i)) = j - 1
      n        == Max({1, Min({limit, 1000})})
  IN [j \in 1..Min({n, Cardinality(RowsOf(a))}) |-> history[nth(j)]]

\* Faulty variant: of two rows of the same time the later one is shown.
LatestDecisionLastOfEqual(a) ==
  LET latest[i \in 0..Len(history)] ==
        IF i = 0 THEN Nothing
        ELSE IF history[i].app = a
                /\ (latest[i - 1] = Nothing \/ history[i].at >= latest[i - 1].at)
        THEN history[i]
        ELSE latest[i - 1]
  IN latest[Len(history)]

\* The row get_health_overview shows for an app: one walk over the file.
LatestDecision(a) ==
  LET latest[i \in 0..Len(history)] ==
        IF i = 0 THEN Nothing
        ELSE IF history[i].app = a
                /\ (latest[i - 1] = Nothing \/ history[i].at > latest[i - 1].at)
        THEN history[i]
        ELSE latest[i - 1]
  IN latest[Len(history)]

-----------------------------------------------------------------------------

Next ==
  \/ \E p \in Procs :
       \/ Onboard(p) \/ Register(p) \/ CreateSpec(p) \/ WriteSpec(p) \/ AppendIndex(p)
       \/ StartOrchestrator(p) \/ LoadState(p) \/ Command(p) \/ LookUp(p) \/ Build(p)
       \/ OpenState(p) \/ SaveState(p) \/ Exit(p) \/ Kill(p)
       \/ WriteFails(p)
  \/ \E r \in Recorders : StampRecord(r) \/ AppendRecord(r)

Spec == Init /\ [][Next]_vars

-----------------------------------------------------------------------------

TypeOK ==
  /\ cast \in Casts /\ shipped \subseteq Apps
  /\ spec \in [Apps -> Onboarders \cup Registrars \cup {Absent} \cup Unreadable]
  /\ index \in Seq([app : Apps, by : Onboarders])
  /\ build \in [Apps -> Procs \cup {Nothing}]
  /\ file \in States \cup {Absent} \cup Unreadable
  /\ pc \in [Procs -> Points]
  /\ job \in [Procs -> Tasks \cup {Nothing}]
  /\ read \in [Procs -> Procs \cup {Nothing}]
  /\ copy \in [Procs -> States]
  /\ commands \in [Orchestrators -> 0..MaxCommands]
  /\ history \in Seq([app : Apps, at : Nat, by : Recorders])
  /\ stamp \in [Recorders -> [app : Apps, at : Nat] \cup {Nothing}]
  /\ clock \in Nat /\ kills \in 0..MaxKills
  /\ together \subseteq SUBSET Onboarders
  /\ mixed \subseteq Apps \cup {"state"}
  /\ stored \in States /\ fresh \in [Apps -> SUBSET Deployers]

\* "App name already exists in registry": a name is given to two onboardings only if both
\* had looked it up before either created the file.
NamesAreGivenOnce ==
  \A i, k \in 1..Len(index) :
    i # k /\ index[i].app = index[k].app => {index[i].by, index[k].by} \in together

\* Nothing is built, run or listed in the index that was not registered; whichever process
\* registered it and whichever was killed or failed.  Only what the state file held at the
\* start, as the one that ships with the repository does, may be stored without a build.
NothingUnregisteredRuns ==
  /\ \A a \in Apps : build[a] # Nothing => spec[a] # Absent
  /\ \A i \in 1..Len(index) : spec[index[i].app] # Absent
  /\ \A a \in Apps \ shipped : stored[a] # Nothing => build[a] # Nothing

\* A file that does not parse is being written, was left by a writer that was killed or
\* whose write failed, or mixes two writes that overlapped; no sequence of complete commands
\* breaks one.
BrokenFilesHaveACause ==
  /\ \A a \in Apps :
       /\ spec[a] = Empty => \E p \in Procs :
            pc[p] \in {"write", "killed_writing", "failed_writing"} /\ job[p].app = a
       /\ spec[a] = Garbled => a \in mixed
  /\ file = Empty => \E p \in Procs : pc[p] \in {"save", "killed_saving", "failed_saving"}
  /\ file = Garbled => "state" \in mixed

\* An orchestrator that has read the current entry of an app never undoes it by a command
\* on another app; only one that holds an older state can.
OnlyStaleStateIsLost ==
  [][\A p \in Deployers, a \in Apps :
       SaveState(p) /\ a # job[p].app /\ p \in fresh[a] => stored'[a] = stored[a]]_vars

\* GET overview and GET history are computed separately: the overview shows the first row
\* of the history, whatever limit the request has (0, and 200 when it names none), also when
\* rows were appended out of the order of their times.
OverviewAgreesWithHistory ==
  \A a \in ListedApps, limit \in {0, 200} :
    LatestDecision(a) = IF DecisionHistory(a, limit) = <<>> THEN Nothing
                        ELSE Head(DecisionHistory(a, limit))

\* The files of the registry: what is in them has been registered and built, and what
\* cannot be read has a cause.
FilesAreSound == TypeOK /\ NothingUnregisteredRuns /\ BrokenFilesHaveACause

=============================================================================
