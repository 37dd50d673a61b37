--------------------------- MODULE SharedFilesProofs ---------------------------
(* Proofs about the processes that share files without a lock: AppRegistry, for  *)
(* any apps, processes and numbers of commands and kills; Perception, for any    *)
(* lines, alerts and rows; Healing, for any runs of the simulation, wherever     *)
(* they run; SovereignBus, for any processes, callbacks, messages and length of  *)
(* the file. They share no variables and no lemmas.                              *)
EXTENDS AppRegistry, Perception, Healing, SovereignBus, FiniteSetTheorems, TLAPS

\* Each kind of process goes its own way, and knows what it was asked for when it needs it.
WaysInv ==
  /\ \A p \in Onboarders : pc[p] # "ready" /\ (pc[p] # "idle" => job[p] # Nothing)
  /\ \A p \in Registrars :
       /\ pc[p] \in {"idle", "create", "write", "done", "killed", "killed_writing",
                     "failed_writing"}
       /\ pc[p] # "idle" => job[p] # Nothing
  /\ \A p \in Orchestrators :
       /\ pc[p] \in {"idle", "load", "ready", "lookup", "build", "open", "save", "done",
                     "killed", "killed_saving", "failed_saving"}
       /\ pc[p] \in {"lookup", "build", "open", "save", "killed_saving", "failed_saving"} =>
            job[p] # Nothing
       /\ pc[p] \in {"lookup", "build"} => job[p].command = "deploy"
  /\ \A p \in Onboarders : job[p] # Nothing => job[p].command = "deploy"
  /\ \A p \in Registrars : job[p] # Nothing => job[p].command = "deploy"

\* A command that is about to be stored was not refused.
OpenInv ==
  \A p \in Procs : pc[p] = "open" /\ job[p].command # "deploy" =>
    copy[p][job[p].app] # Nothing /\ (job[p].command = "scale" => job[p].workers > 0)

\* What is in memory or in the state has been built, or was in the file at the start, and
\* what was built, or is about to be, has a file of its name.
BuiltInv ==
  /\ \A a \in Apps : build[a] # Nothing => spec[a] # Absent
  /\ \A p \in Procs : pc[p] = "build" => read[p] # Nothing /\ spec[job[p].app] # Absent
  /\ \A p \in Procs : pc[p] = "open" => build[job[p].app] # Nothing \/ job[p].app \in shipped
  /\ \A p \in Procs, a \in Apps : copy[p][a] # Nothing => build[a] # Nothing \/ a \in shipped
  /\ \A a \in Apps : stored[a] # Nothing => build[a] # Nothing \/ a \in shipped

\* The state file has what was last written completely, unless it cannot be read.
StoredInv ==
  /\ file = Absent => stored = NoApps
  /\ file \in States => file = stored

\* Two that write to one file have mixed it; so has one that finds something in it.
SpecFilesInv ==
  /\ \A p, q \in Procs :
       /\ pc[p] = "write" /\ pc[q] = "write" /\ p # q
       /\ job[p].app = job[q].app
       => job[p].app \in mixed
  /\ \A p \in Procs : pc[p] = "write" =>
       spec[job[p].app] # Absent /\ (spec[job[p].app] # Empty => job[p].app \in mixed)
StateFileInv ==
  /\ \A p, q \in Procs : pc[p] = "save" /\ pc[q] = "save" /\ p # q => "state" \in mixed
  /\ \A p \in Procs : pc[p] = "save" => file # Absent /\ (file # Empty => "state" \in mixed)

\* The onboardings that hold a name: on their way to the index, or in it. A name that has
\* a file is held by one of them, or by those that found it free together.
IndexRows == 1..Len(index)
Holding == {p \in Onboarders : pc[p] \in {"create", "write", "index"}
                                 \/ \E i \in IndexRows : index[i].by = p}
NamesInv ==
  /\ \A i \in IndexRows :
       /\ pc[index[i].by] \notin {"idle", "create", "write", "index"}
       /\ job[index[i].by].app = index[i].app
       /\ \A k \in IndexRows : index[i].by = index[k].by => i = k
  /\ \A p \in Holding : pc[p] # "create" => spec[job[p].app] # Absent
  /\ \A p, q \in Holding : p # q /\ job[p].app = job[q].app => {p, q} \in together

\* Who has read the current entry of an app has it in memory, but for the one it changes.
FreshInv ==
  \A a \in Apps : \A p \in fresh[a] :
    \/ copy[p][a] = stored[a]
    \/ pc[p] \in {"save", "killed_saving", "failed_saving"} /\ a = job[p].app

RegistryIInv ==
  /\ TypeOK /\ WaysInv /\ OpenInv /\ BuiltInv /\ StoredInv /\ SpecFilesInv /\ StateFileInv
  /\ BrokenFilesHaveACause /\ NamesInv /\ FreshInv

-----------------------------------------------------------------------------
(* The registry: types.                                                     *)

LEMMA RegistryNoValues ==
  /\ Absent # Empty /\ Absent # Garbled /\ Empty # Garbled
  /\ Absent \notin States /\ Empty \notin States /\ Garbled \notin States
  /\ \A p \in Procs : p # Nothing /\ p # Absent /\ p # Empty /\ p # Garbled
  /\ \A e \in Entry : e # Nothing
  /\ \A t \in Tasks : t # Nothing
  /\ 1 \in 0..MaxWorkers /\ 1 \in 1..MaxWorkers
  /\ Onboarders \subseteq Deployers /\ Orchestrators \subseteq Deployers
  /\ Deployers \subseteq Procs /\ Registrars \subseteq Procs /\ Onboarders \subseteq Procs
  /\ Orchestrators \subseteq Procs
  /\ \A p \in Procs : p \in Onboarders \/ p \in Registrars \/ p \in Orchestrators
<1>1. 1 \in 0..MaxWorkers /\ 1 \in 1..MaxWorkers
  BY RegistryAssumption, SMT
<1>2. QED
  BY <1>1, NoValueAssumption DEF Unreadable, Procs, Deployers

LEMMA RegistryInit == Init => RegistryIInv
<1> SUFFICES ASSUME Init PROVE RegistryIInv
  OBVIOUS
<1>1. TypeOK
  <2>1. 0 \in 0..MaxCommands /\ 0 \in 0..MaxKills /\ 0 \in Nat
    BY RegistryAssumption, SMT
  <2>2. <<>> \in Seq([app : Apps, by : Onboarders])
        /\ <<>> \in Seq([app : Apps, at : Nat, by : Recorders])
    BY SMT
  <2>3. QED
    BY <2>1, <2>2, NoValueAssumption DEF Init, TypeOK, NoApps, States, Points
<1>2. WaysInv /\ OpenInv
  BY RegistryNoValues DEF Init, WaysInv, OpenInv
<1>3. BuiltInv /\ StoredInv
  BY RegistryNoValues, <1>1 DEF Init, BuiltInv, StoredInv, NoApps, TypeOK
<1>4. SpecFilesInv /\ StateFileInv /\ BrokenFilesHaveACause
  BY RegistryNoValues, NoValueAssumption DEF Init, SpecFilesInv, StateFileInv, BrokenFilesHaveACause
<1>5. NamesInv /\ FreshInv
  <2>1. IndexRows = {}
    BY SMT DEF Init, IndexRows
  <2>2. QED
    BY <2>1 DEF Init, NamesInv, Holding, FreshInv, Procs, Deployers
<1>6. QED
  BY <1>1, <1>2, <1>3, <1>4, <1>5 DEF RegistryIInv

\* A step of a process.
RegistryStep(p) ==
  \/ Onboard(p) \/ Register(p) \/ CreateSpec(p) \/ WriteSpec(p) \/ AppendIndex(p)
  \/ StartOrchestrator(p) \/ LoadState(p) \/ Command(p) \/ LookUp(p) \/ Build(p)
  \/ OpenState(p) \/ SaveState(p) \/ Exit(p) \/ Kill(p) \/ WriteFails(p)

\* What is known of a process at its point.
LEMMA RegistryAt ==
  ASSUME TypeOK, WaysInv, NEW p \in Procs
  PROVE  /\ pc[p] \in {"create", "write", "index", "lookup", "build", "open", "save"} =>
              job[p] \in Tasks /\ job[p].app \in Apps
         /\ pc[p] \in {"create", "write"} => p \in Onboarders \cup Registrars
         /\ pc[p] = "index" => p \in Onboarders
         /\ pc[p] \in {"load", "lookup", "build", "open", "save"} => p \in Deployers
         /\ p \in Onboarders \/ p \in Registrars \/ p \in Orchestrators
<1>1. pc[p] \in {"create", "write", "index", "lookup", "build", "open", "save"} => job[p] \in Tasks
  BY RegistryNoValues DEF TypeOK, WaysInv
<1>2. job[p] \in Tasks => job[p].app \in Apps
  BY DEF Tasks
<1>3. QED
  BY <1>1, <1>2, RegistryNoValues DEF WaysInv, Deployers

\* A step leaves the other processes where they are and as they are.
LEMMA RegistryOthers ==
  ASSUME TypeOK, NEW p \in Procs, RegistryStep(p)
  PROVE  /\ \A q \in Procs \ {p} : pc'[q] = pc[q] /\ job'[q] = job[q]
                                   /\ copy'[q] = copy[q] /\ read'[q] = read[q]
         /\ \A l : GoTo(p, l) => pc'[p] = l
<1> USE DEF TypeOK, files, views, ghosts, Ready, GoTo
<1>1. CASE Onboard(p) \/ Register(p) \/ Command(p)
  BY <1>1 DEF Onboard, Register, Ask, Command
<1>2. CASE CreateSpec(p) \/ WriteSpec(p) \/ AppendIndex(p) \/ StartOrchestrator(p) \/ Exit(p)
  BY <1>2 DEF CreateSpec, WriteSpec, AppendIndex, StartOrchestrator, Exit
<1>3. CASE LoadState(p) \/ LookUp(p) \/ Build(p)
  BY <1>3 DEF LoadState, Loaded, LookUp, Build
<1>4. CASE OpenState(p) \/ SaveState(p) \/ Kill(p) \/ WriteFails(p)
  BY <1>4 DEF OpenState, SaveState, Kill, WriteFails
<1>5. QED
  BY <1>1, <1>2, <1>3, <1>4 DEF RegistryStep

\* A write that fails leaves a file as it was, cut off, or mixed with what was in it.
LEMMA RegistryFails ==
  ASSUME TypeOK, WaysInv, NEW p \in Procs, WriteFails(p)
  PROVE  /\ setting' = setting /\ job' = job /\ copy' = copy /\ build' = build /\ read' = read
         /\ stored' = stored /\ mixed' = mixed /\ fresh' = fresh /\ index' = index
         /\ together' = together
         /\ \/ /\ pc[p] = "write" /\ pc'[p] = "failed_writing" /\ file' = file
               /\ job[p].app \in Apps
               /\ spec'[job[p].app] \in LeftOff(spec[job[p].app])
               /\ \A a \in Apps \ {job[p].app} : spec'[a] = spec[a]
               /\ spec' \in [Apps -> Onboarders \cup Registrars \cup {Absent} \cup Unreadable]
            \/ /\ pc[p] = "save" /\ pc'[p] = "failed_saving" /\ spec' = spec
               /\ file' \in LeftOff(file)
<1>1. UNCHANGED <<setting, job, copy, build, read, stored, mixed, fresh, index, together>>
  BY DEF WriteFails, ghosts
<1>2. pc[p] = "write" => job[p].app \in Apps
  BY RegistryAt
<1>3. CASE At(p, "write")
  <2>1. PICK s \in LeftOff(spec[job[p].app]) :
          spec' = [spec EXCEPT ![job[p].app] = s] /\ file' = file /\ pc'[p] = "failed_writing"
    BY <1>3 DEF WriteFails, At, GoTo, TypeOK
  <2>2. s \in {spec[job[p].app], Empty, Garbled}
    BY <2>1 DEF LeftOff
  <2>3. QED
    BY <1>1, <1>2, <1>3, <2>1, <2>2 DEF At, TypeOK, Unreadable
<1>4. CASE ~At(p, "write")
  BY <1>1, <1>4 DEF WriteFails, At, GoTo, TypeOK
<1>5. QED
  BY <1>3, <1>4

LEMMA RegistryTypeStep ==
  ASSUME RegistryIInv, NEW p \in Procs, RegistryStep(p)
  PROVE  TypeOK'
<1> USE DEF RegistryIInv, setting, files, views, ghosts, At
<1>a. \A l \in Points : GoTo(p, l) => pc' \in [Procs -> Points]
  BY DEF GoTo, TypeOK
<1>b. \A l \in {"create", "write", "index", "load", "ready", "lookup", "build", "open",
                "save", "done", "killed", "killed_writing", "killed_saving", "failed_writing",
                "failed_saving"} : l \in Points
  BY DEF Points
<1>1. CASE Onboard(p)
  <2>1. job' \in [Procs -> Tasks \cup {Nothing}]
    BY <1>1, RegistryNoValues DEF Onboard, TypeOK, Ask, Tasks, Commands
  <2>2. \A q \in Onboarders : {p, q} \in SUBSET Onboarders
    BY <1>1 DEF Onboard
  <2>3. together' \subseteq SUBSET Onboarders
    <3> DEFINE Beside(a) == {o \in Onboarders : At(o, "create") /\ job[o].app = a}
    <3>1. PICK a \in Apps :
            together' = together \/ together' = together \cup {{p, q} : q \in Beside(a)}
      BY <1>1 DEF Onboard
    <3>2. Beside(a) \subseteq Onboarders
      OBVIOUS
    <3> HIDE DEF Beside
    <3>3. {{p, q} : q \in Beside(a)} \subseteq SUBSET Onboarders
      BY <3>2, <2>2
    <3>4. QED
      BY <3>1, <3>3 DEF TypeOK
  <2>4. pc' \in [Procs -> Points]
    BY <1>1, <1>a, <1>b DEF Onboard
  <2>5. QED
    BY <1>1, <2>1, <2>3, <2>4 DEF Onboard, TypeOK
<1>2. CASE Register(p)
  <2>1. job' \in [Procs -> Tasks \cup {Nothing}]
    BY <1>2, RegistryNoValues DEF Register, TypeOK, Ask, Tasks, Commands
  <2>2. QED
    BY <1>2, <2>1, <1>a, <1>b DEF Register, TypeOK
<1>3. CASE CreateSpec(p)
  <2>1. /\ spec' \in [Apps -> Onboarders \cup Registrars \cup {Absent} \cup Unreadable]
        /\ mixed' \subseteq Apps \cup {"state"}
    BY <1>3, RegistryAt DEF CreateSpec, TypeOK, Unreadable
  <2>2. QED
    BY <1>3, <2>1, <1>a, <1>b DEF CreateSpec, TypeOK
<1>4. CASE WriteSpec(p)
  <2>1. p \in Onboarders \cup Registrars /\ job[p].app \in Apps
    BY <1>4, RegistryAt DEF WriteSpec
  <2>2. spec' \in [Apps -> Onboarders \cup Registrars \cup {Absent} \cup Unreadable]
    BY <1>4, <2>1 DEF WriteSpec, Written, TypeOK, Unreadable
  <2>3. QED
    BY <1>4, <2>2, <1>a, <1>b DEF WriteSpec, TypeOK
<1>5. CASE AppendIndex(p)
  <2>1. [app |-> job[p].app, by |-> p] \in [app : Apps, by : Onboarders]
    BY <1>5, RegistryAt DEF AppendIndex
  <2>2. index' \in Seq([app : Apps, by : Onboarders])
    BY <1>5, <2>1, SMT DEF AppendIndex, TypeOK
  <2>3. QED
    BY <1>5, <2>2, <1>a, <1>b DEF AppendIndex, TypeOK
<1>6. CASE StartOrchestrator(p)
  BY <1>6, <1>a, <1>b DEF StartOrchestrator, TypeOK
<1>7. CASE LoadState(p)
  <2>1. NoApps \in States
    BY DEF NoApps, States
  <2>2. file \notin Unreadable => Loaded(p) \in [Procs -> States]
    BY <2>1 DEF Loaded, TypeOK
  <2>3. copy' \in [Procs -> States]
    BY <1>7, <2>2 DEF LoadState, TypeOK
  <2>4. fresh' \in [Apps -> SUBSET Deployers]
    BY <1>7, RegistryAt DEF LoadState, TypeOK
  <2>5. QED
    BY <1>7, <2>3, <2>4, <1>a, <1>b DEF LoadState, TypeOK
<1>8. CASE Command(p)
  <2>1. job' \in [Procs -> Tasks \cup {Nothing}]
    BY <1>8 DEF Command, TypeOK, Tasks
  <2>2. commands' \in [Orchestrators -> 0..MaxCommands]
    <3>1. commands[p] + 1 \in 0..MaxCommands
      BY <1>8, RegistryAssumption, SMT DEF Command, TypeOK
    <3>2. QED
      BY <1>8, <3>1 DEF Command, TypeOK
  <2>3. pc' \in [Procs -> Points]
    BY <1>8, <1>a, <1>b DEF Command, Ready
  <2>4. QED
    BY <1>8, <2>1, <2>2, <2>3 DEF Command, TypeOK
<1>9. CASE LookUp(p)
  <2>1. spec[job[p].app] \in Procs \cup {Absent} \cup Unreadable
    BY <1>9, RegistryAt, RegistryNoValues DEF LookUp, TypeOK
  <2>2. read' = read \/ (spec[job[p].app] \in Procs /\ read' = [read EXCEPT ![p] = spec[job[p].app]])
    BY <1>9, <2>1 DEF LookUp
  <2>3. read' \in [Procs -> Procs \cup {Nothing}]
    BY <2>2 DEF TypeOK
  <2>4. QED
    BY <1>9, <2>3, <1>a, <1>b DEF LookUp, Ready, TypeOK
<1>10. CASE Build(p)
  <2>1. build' \in [Apps -> Procs \cup {Nothing}]
    BY <1>10, RegistryAt DEF Build, TypeOK
  <2>2. QED
    BY <1>10, <2>1, <1>a, <1>b DEF Build, Ready, TypeOK
<1>11. CASE OpenState(p)
  <2>1. job[p] \in Tasks /\ job[p].app \in Apps /\ copy[p] \in States
    BY <1>11, RegistryAt DEF OpenState, TypeOK
  <2>2. Changed(p) \in Entry
    <3>1. job[p].command # "deploy" => copy[p][job[p].app] \in Entry
      BY <1>11, <2>1 DEF OpenState, OpenInv, States
    <3>2. job[p].command = "scale" => job[p].workers \in 1..MaxWorkers
      BY <1>11, <2>1, RegistryAssumption, SMT DEF OpenState, OpenInv, Tasks
    <3>3. CASE job[p].command = "deploy"
      BY <3>3, RegistryNoValues DEF Changed, Entry
    <3>4. CASE job[p].command = "stop"
      BY <3>1, <3>4 DEF Changed, Entry
    <3>5. CASE job[p].command = "scale"
      BY <3>1, <3>2, <3>5 DEF Changed, Entry
    <3>6. QED
      BY <2>1, <3>3, <3>4, <3>5 DEF Tasks, Commands
  <2>3. copy' \in [Procs -> States]
    <3>1. [copy[p] EXCEPT ![job[p].app] = Changed(p)] \in States
      BY <2>1, <2>2 DEF States
    <3>2. QED
      BY <1>11, <3>1 DEF OpenState, TypeOK
  <2>4. file' \in States \cup {Absent} \cup Unreadable /\ mixed' \subseteq Apps \cup {"state"}
    BY <1>11 DEF OpenState, TypeOK, Unreadable
  <2>5. QED
    BY <1>11, <2>3, <2>4, <1>a, <1>b DEF OpenState, TypeOK
<1>12. CASE SaveState(p)
  <2>1. p \in Deployers /\ copy[p] \in States
    BY <1>12, RegistryAt DEF SaveState, TypeOK
  <2>2. file' \in States \cup {Absent} \cup Unreadable
    BY <1>12, <2>1 DEF SaveState, Written, Unreadable
  <2>3. fresh' \in [Apps -> SUBSET Deployers]
    BY <1>12, <2>1 DEF SaveState, TypeOK
  <2>4. QED
    BY <1>12, <2>1, <2>2, <2>3, <1>a, <1>b DEF SaveState, Ready, TypeOK
<1>13. CASE Exit(p)
  BY <1>13, <1>a, <1>b DEF Exit, TypeOK
<1>14. CASE Kill(p)
  <2>1. kills' \in 0..MaxKills
    BY <1>14, RegistryAssumption, SMT DEF Kill, TypeOK
  <2>2. QED
    BY <1>14, <2>1, <1>a, <1>b DEF Kill, TypeOK
<1>15. CASE WriteFails(p)
  <2>1. kills' \in 0..MaxKills /\ pc' \in [Procs -> Points]
    BY <1>15, <1>a, <1>b, RegistryAssumption, SMT DEF WriteFails, TypeOK
  <2>2. \/ file' = file
        \/ file' \in {file, Empty, Garbled}
    BY <1>15, RegistryFails DEF LeftOff
  <2>3. spec' \in [Apps -> Onboarders \cup Registrars \cup {Absent} \cup Unreadable]
    BY <1>15, RegistryFails DEF TypeOK
  <2>4. UNCHANGED <<setting, job, copy, build, read, ghosts, index, commands, history, stamp, clock>>
    BY <1>15 DEF WriteFails
  <2>5. QED
    BY <2>1, <2>2, <2>3, <2>4 DEF TypeOK, Unreadable, setting
<1>16. QED
  BY <1>1, <1>2, <1>3, <1>4, <1>5, <1>6, <1>7, <1>8, <1>9, <1>10, <1>11, <1>12, <1>13, <1>14,
     <1>15 DEF RegistryStep

LEMMA RegistryWaysStep ==
  ASSUME RegistryIInv, NEW p \in Procs, RegistryStep(p)
  PROVE  WaysInv' /\ OpenInv'
<1> USE DEF RegistryIInv, At
<1>a. /\ \A q \in Onboarders : q \notin Registrars /\ q \notin Orchestrators
      /\ \A q \in Registrars : q \notin Orchestrators
  BY RegistryAssumption
<1>b. pc \in [Procs -> Points] /\ job \in [Procs -> Tasks \cup {Nothing}] /\ copy \in [Procs -> States]
  BY DEF TypeOK
<1>c. /\ \A q \in Procs \ {p} : pc'[q] = pc[q] /\ job'[q] = job[q] /\ copy'[q] = copy[q]
      /\ \A l : GoTo(p, l) => pc'[p] = l
  BY RegistryOthers
<1>d. SUFFICES
        /\ p \in Onboarders =>
             /\ pc'[p] # "ready" /\ pc'[p] # "idle"
             /\ job'[p] # Nothing /\ job'[p].command = "deploy"
        /\ p \in Registrars =>
             /\ pc'[p] \in {"create", "write", "done", "killed", "killed_writing",
                            "failed_writing"}
             /\ job'[p] # Nothing /\ job'[p].command = "deploy"
        /\ p \in Orchestrators =>
             /\ pc'[p] \in {"load", "ready", "lookup", "build", "open", "save", "done",
                            "killed", "killed_saving", "failed_saving"}
             /\ pc'[p] \in {"lookup", "build", "open", "save", "killed_saving",
                            "failed_saving"} => job'[p] # Nothing
             /\ pc'[p] \in {"lookup", "build"} => job'[p].command = "deploy"
        /\ pc'[p] = "open" /\ job'[p].command # "deploy" =>
             copy'[p][job'[p].app] # Nothing /\ (job'[p].command = "scale" => job'[p].workers > 0)
  <2>1. WaysInv'
    BY <1>c, <1>d, RegistryNoValues DEF WaysInv
  <2>2. OpenInv'
    BY <1>c, <1>d DEF OpenInv
  <2>3. QED
    BY <2>1, <2>2
<1>1. CASE Onboard(p) \/ Register(p)
  <2>1. \A a \in Apps : [app |-> a, command |-> "deploy", workers |-> 1] \in Tasks
    BY RegistryNoValues DEF Tasks, Commands
  <2>2. job'[p] \in Tasks /\ job'[p].command = "deploy"
    BY <1>1, <1>b, <2>1 DEF Onboard, Register, Ask
  <2>3. pc'[p] \in {"create", "done"} /\ p \notin Orchestrators
        /\ (p \in Registrars => pc'[p] = "create")
    BY <1>1, <1>a, <1>c DEF Onboard, Register
  <2>4. QED
    BY <2>2, <2>3, RegistryNoValues
<1>2. CASE CreateSpec(p) \/ WriteSpec(p) \/ AppendIndex(p)
  <2>1. job' = job
    BY <1>2 DEF CreateSpec, WriteSpec, AppendIndex
  <2>2. \/ pc[p] = "create" /\ pc'[p] = "write"
        \/ pc[p] = "write" /\ p \in Onboarders /\ pc'[p] = "index"
        \/ pc[p] = "write" /\ p \notin Onboarders /\ pc'[p] = "done"
        \/ pc[p] = "index" /\ pc'[p] = "load"
    BY <1>2, <1>c DEF CreateSpec, WriteSpec, AppendIndex
  <2>3. QED
    BY <2>1, <2>2, <1>a DEF WaysInv
<1>3. CASE StartOrchestrator(p) \/ LoadState(p) \/ Exit(p)
  <2>1. job' = job
    BY <1>3 DEF StartOrchestrator, LoadState, Exit
  <2>2. \/ p \in Orchestrators /\ pc'[p] \in {"load", "done", "ready"}
        \/ pc[p] = "load" /\ p \in Onboarders /\ pc'[p] \in {"lookup", "done"}
    BY <1>3, <1>a, <1>c, RegistryNoValues DEF StartOrchestrator, LoadState, Exit, WaysInv
  <2>3. QED
    BY <2>1, <2>2, <1>a DEF WaysInv
<1>4. CASE Command(p)
  <2>1. p \in Orchestrators /\ copy' = copy
    BY <1>4 DEF Command
  <2>2. PICK a \in Apps, c \in Commands, w \in 0..MaxWorkers :
          /\ c # "scale" => w = 1
          /\ job'[p] = [app |-> a, command |-> c, workers |-> w]
          /\ \/ c = "deploy" /\ GoTo(p, "lookup")
             \/ /\ c # "deploy"
                /\ IF Refuses(p, a, w) THEN Ready(p) ELSE GoTo(p, "open")
    BY <1>4, <1>b DEF Command
  <2>3. job'[p] # Nothing
    BY <2>2, RegistryNoValues DEF Tasks
  <2>4. pc'[p] \in {"lookup", "ready", "open"}
        /\ (pc'[p] = "open" => ~Refuses(p, a, w)) /\ (pc'[p] = "lookup" => c = "deploy")
    BY <2>1, <2>2, <1>a, <1>c DEF Ready
  <2>5. ~Refuses(p, a, w) => copy[p][a] # Nothing /\ w > 0
    BY SMT DEF Refuses
  <2>6. QED
    BY <2>1, <2>2, <2>3, <2>4, <2>5, <1>a
<1>5. CASE LookUp(p) \/ Build(p)
  <2>1. job' = job
    BY <1>5 DEF LookUp, Build
  <2>2. /\ pc[p] \in {"lookup", "build"}
        /\ pc'[p] \in {"build", "open"} \/ pc'[p] = IF p \in Onboarders THEN "done" ELSE "ready"
    BY <1>5, <1>c DEF LookUp, Build, Ready
  <2>3. p \notin Registrars /\ job[p] # Nothing /\ job[p].command = "deploy"
    BY <2>2, RegistryNoValues DEF WaysInv
  <2>4. QED
    BY <2>1, <2>2, <2>3, <1>a
<1>6. CASE OpenState(p) \/ SaveState(p)
  <2>1. job' = job
    BY <1>6 DEF OpenState, SaveState
  <2>2. /\ pc[p] \in {"open", "save"}
        /\ pc'[p] = "save" \/ pc'[p] = IF p \in Onboarders THEN "done" ELSE "ready"
    BY <1>6, <1>c DEF OpenState, SaveState, Ready
  <2>3. QED
    BY <2>1, <2>2, <1>a DEF WaysInv
<1>7. CASE Kill(p)
  <2>1. job' = job
    BY <1>7 DEF Kill
  <2>2. /\ pc[p] \notin {"idle", "done"}
        /\ \/ pc[p] = "write" /\ pc'[p] = "killed_writing"
           \/ pc[p] = "save" /\ pc'[p] = "killed_saving"
           \/ pc'[p] = "killed"
    BY <1>7, <1>c DEF Kill
  <2>3. QED
    BY <2>1, <2>2, <1>a DEF WaysInv
<1>8. CASE WriteFails(p)
  <2>1. job' = job
    BY <1>8, RegistryFails
  <2>2. \/ pc[p] = "write" /\ pc'[p] = "failed_writing"
        \/ pc[p] = "save" /\ pc'[p] = "failed_saving"
    BY <1>8, RegistryFails
  <2>3. QED
    BY <2>1, <2>2, <1>a DEF WaysInv
<1>9. QED
  BY <1>1, <1>2, <1>3, <1>4, <1>5, <1>6, <1>7, <1>8 DEF RegistryStep

-----------------------------------------------------------------------------
(* The registry: what is built and stored.                                  *)

\* A file of a spec and a build are never taken away.
LEMMA RegistryGrows ==
  ASSUME RegistryIInv, NEW p \in Procs, RegistryStep(p), NEW a \in Apps
  PROVE  (spec[a] # Absent => spec'[a] # Absent) /\ (build[a] # Nothing => build'[a] # Nothing)
<1> USE DEF RegistryIInv, At
<1>1. CASE CreateSpec(p)
  BY <1>1, RegistryAt, RegistryNoValues DEF CreateSpec, TypeOK
<1>2. CASE WriteSpec(p)
  <2>1. p \in Procs /\ \A s \in Written(spec[job[p].app], p) : s # Absent
    BY RegistryNoValues DEF Written
  <2>2. QED
    BY <1>2, <2>1, RegistryAt DEF WriteSpec, TypeOK
<1>3. CASE Build(p)
  BY <1>3, RegistryAt DEF Build, BuiltInv, TypeOK
<1>6. CASE WriteFails(p)
  <2>1. spec[a] # Absent => \A s \in LeftOff(spec[a]) : s # Absent
    BY RegistryNoValues DEF LeftOff
  <2>2. QED
    BY <1>6, <2>1, RegistryFails
<1>4. CASE ~CreateSpec(p) /\ ~WriteSpec(p) /\ ~Build(p) /\ ~WriteFails(p)
  <2>1. spec' = spec /\ build' = build
    BY <1>4 DEF RegistryStep, Onboard, Register, AppendIndex, StartOrchestrator, LoadState, Command,
       LookUp, OpenState, SaveState, Exit, Kill, files
  <2>2. QED
    BY <2>1
<1>5. QED
  BY <1>1, <1>2, <1>3, <1>4, <1>6

LEMMA RegistryBuiltStep ==
  ASSUME RegistryIInv, NEW p \in Procs, RegistryStep(p)
  PROVE  BuiltInv' /\ StoredInv'
<1> USE DEF RegistryIInv, At
<1>a. /\ \A a \in Apps : (spec[a] # Absent => spec'[a] # Absent)
                         /\ (build[a] # Nothing => build'[a] # Nothing)
      /\ \A q \in Procs \ {p} : pc'[q] = pc[q] /\ job'[q] = job[q]
                                /\ copy'[q] = copy[q] /\ read'[q] = read[q]
      /\ \A l : GoTo(p, l) => pc'[p] = l
      /\ shipped' = shipped
  <2>1. shipped' = shipped
    BY DEF RegistryStep, Onboard, Register, CreateSpec, WriteSpec, AppendIndex, StartOrchestrator,
       LoadState, Command, LookUp, Build, OpenState, SaveState, Exit, Kill, WriteFails, setting
  <2>2. QED
    BY <2>1, RegistryGrows, RegistryOthers
<1>b. \A q \in Procs : pc[q] \in {"build", "open"} => job[q].app \in Apps
  BY RegistryAt
<1>c. SUFFICES
        /\ \A a \in Apps : build'[a] # Nothing => build[a] # Nothing \/ spec'[a] # Absent
        /\ pc'[p] = "build" => read'[p] # Nothing /\ spec'[job'[p].app] # Absent
        /\ pc'[p] = "open" => build'[job'[p].app] # Nothing \/ job'[p].app \in shipped
        /\ \A a \in Apps : copy'[p][a] # Nothing => build'[a] # Nothing \/ a \in shipped
        /\ \A a \in Apps : stored'[a] # Nothing => build'[a] # Nothing \/ a \in shipped
        /\ file' = Absent => stored' = NoApps
        /\ file' \in States => file' = stored'
  BY <1>a, <1>b DEF BuiltInv, StoredInv
<1>1. CASE Onboard(p) \/ Register(p)
  <2>1. UNCHANGED <<spec, build, file, copy, stored>> /\ pc'[p] \notin {"build", "open"}
    BY <1>1, <1>a DEF Onboard, Register, files, ghosts
  <2>2. QED
    BY <2>1 DEF BuiltInv, StoredInv
<1>2. CASE CreateSpec(p) \/ WriteSpec(p) \/ AppendIndex(p) \/ StartOrchestrator(p) \/ Exit(p)
  <2>1. UNCHANGED <<build, file, copy, stored>> /\ pc'[p] \notin {"build", "open"}
    BY <1>2, <1>a DEF CreateSpec, WriteSpec, AppendIndex, StartOrchestrator, Exit, files, ghosts
  <2>2. QED
    BY <2>1 DEF BuiltInv, StoredInv
<1>3. CASE LoadState(p)
  <2>1. UNCHANGED <<build, file, stored>> /\ pc'[p] \notin {"build", "open"}
    BY <1>3, <1>a DEF LoadState, files
  <2>2. file \notin Unreadable => file = Absent \/ file \in States
    BY DEF TypeOK
  <2>3. copy'[p] = copy[p] \/ copy'[p] = stored
    BY <1>3, <2>2 DEF LoadState, Loaded, StoredInv, TypeOK
  <2>4. QED
    BY <2>1, <2>3 DEF BuiltInv, StoredInv
<1>4. CASE Command(p)
  <2>1. UNCHANGED <<build, file, copy, stored>>
    BY <1>4 DEF Command, files, ghosts
  <2>2. PICK a \in Apps, c \in Commands, w \in 0..MaxWorkers :
          /\ job'[p] = [app |-> a, command |-> c, workers |-> w]
          /\ \/ c = "deploy" /\ GoTo(p, "lookup")
             \/ /\ c # "deploy"
                /\ IF Refuses(p, a, w) THEN Ready(p) ELSE GoTo(p, "open")
    BY <1>4 DEF Command, TypeOK
  <2>3. pc'[p] # "build" /\ (pc'[p] = "open" => ~Refuses(p, a, w))
    BY <2>2, <1>a DEF Ready
  <2>4. QED
    BY <2>1, <2>2, <2>3 DEF BuiltInv, StoredInv, Refuses
<1>5. CASE LookUp(p)
  <2>1. UNCHANGED <<spec, build, file, copy, stored, job>>
    BY <1>5 DEF LookUp, files, ghosts
  <2>2. /\ pc'[p] = "open" => build[job[p].app] # Nothing
        /\ pc'[p] = "build" => spec[job[p].app] \notin {Absent} \cup Unreadable
                               /\ read'[p] = spec[job[p].app]
    BY <1>5, <1>a DEF LookUp, Ready, TypeOK
  <2>3. spec[job[p].app] \notin {Absent} \cup Unreadable => spec[job[p].app] \in Procs
    BY <1>5, RegistryAt, RegistryNoValues DEF LookUp, TypeOK
  <2>4. QED
    BY <2>1, <2>2, <2>3, RegistryNoValues DEF BuiltInv, StoredInv
<1>6. CASE Build(p)
  <2>1. UNCHANGED <<spec, file, copy, stored, job>> /\ pc'[p] # "build" /\ pc[p] = "build"
    BY <1>6, <1>a DEF Build, Ready, ghosts
  <2>2. job[p].app \in Apps
    BY <2>1, <1>b
  <2>3. /\ \A a \in Apps : build'[a] = build[a] \/ (a = job[p].app /\ build'[a] = read[p])
        /\ pc'[p] = "open" => build'[job[p].app] = read[p]
    BY <1>6, <1>a, <2>2 DEF Build, Ready, TypeOK
  <2>4. QED
    BY <1>a, <2>1, <2>2, <2>3 DEF BuiltInv, StoredInv
<1>7. CASE OpenState(p)
  <2>1. UNCHANGED <<spec, build, stored, job>> /\ pc'[p] = "save" /\ pc[p] = "open" /\ file' = Empty
    BY <1>7, <1>a DEF OpenState
  <2>2. job[p].app \in Apps
    BY <2>1, <1>b
  <2>3. \A a \in Apps : copy'[p][a] = copy[p][a] \/ a = job[p].app
    BY <1>7, <2>2 DEF OpenState, TypeOK, States
  <2>4. QED
    BY <2>1, <2>2, <2>3, RegistryNoValues DEF BuiltInv, StoredInv
<1>8. CASE SaveState(p)
  <2>1. UNCHANGED <<spec, build, copy, job>> /\ stored' = copy[p] /\ pc'[p] \notin {"build", "open"}
    BY <1>8, <1>a DEF SaveState, Ready
  <2>2. file' = copy[p] \/ file' = Garbled
    BY <1>8 DEF SaveState, Written
  <2>3. copy[p] \in States
    BY DEF TypeOK
  <2>4. QED
    BY <2>1, <2>2, <2>3, RegistryNoValues DEF BuiltInv
<1>9. CASE Kill(p)
  <2>1. UNCHANGED <<spec, build, file, copy, stored>> /\ pc'[p] \notin {"build", "open"}
    BY <1>9, <1>a DEF Kill, files, ghosts
  <2>2. QED
    BY <2>1 DEF BuiltInv, StoredInv
<1>10. CASE WriteFails(p)
  <2>1. /\ UNCHANGED <<build, copy, stored>> /\ pc'[p] \notin {"build", "open"}
        /\ file' = file \/ (pc[p] = "save" /\ file' \in LeftOff(file))
    BY <1>10, RegistryFails
  <2>2. pc[p] = "save" => file # Absent
    BY DEF StateFileInv
  <2>3. \A f \in LeftOff(file) : f = file \/ f \in {Empty, Garbled}
    BY DEF LeftOff
  <2>4. QED
    BY <2>1, <2>2, <2>3, RegistryNoValues DEF BuiltInv, StoredInv
<1>11. QED
  BY <1>1, <1>2, <1>3, <1>4, <1>5, <1>6, <1>7, <1>8, <1>9, <1>10 DEF RegistryStep

-----------------------------------------------------------------------------
(* The registry: files that cannot be read.                                 *)

\* Only the steps that open and write a spec, or the state, and fail to write it, change it;
\* who is killed between them stays there.
LEMMA RegistryWriters ==
  ASSUME RegistryIInv, NEW p \in Procs, RegistryStep(p)
  PROVE  /\ ~CreateSpec(p) /\ ~WriteSpec(p) /\ ~(WriteFails(p) /\ pc[p] = "write") =>
              /\ spec' = spec /\ pc'[p] # "write"
              /\ pc[p] \in {"write", "killed_writing", "failed_writing"} =>
                   pc'[p] = "killed_writing" /\ job'[p] = job[p]
         /\ ~OpenState(p) /\ ~SaveState(p) /\ ~(WriteFails(p) /\ pc[p] = "save") =>
              /\ file' = file /\ pc'[p] # "save"
              /\ pc[p] \in {"save", "killed_saving", "failed_saving"} => pc'[p] = "killed_saving"
         /\ mixed \subseteq mixed'
<1> USE DEF At, Ready
<1>a. \A l : GoTo(p, l) => pc'[p] = l
  BY RegistryOthers DEF RegistryIInv
<1>1. mixed \subseteq mixed'
  BY DEF RegistryStep, Onboard, Register, CreateSpec, WriteSpec, AppendIndex, StartOrchestrator,
     LoadState, Command, LookUp, Build, OpenState, SaveState, Exit, Kill, WriteFails, ghosts
<1>2. CASE CreateSpec(p) \/ WriteSpec(p) \/ AppendIndex(p)
  BY <1>a, <1>1, <1>2 DEF CreateSpec, WriteSpec, AppendIndex
<1>3. CASE OpenState(p) \/ SaveState(p)
  BY <1>a, <1>1, <1>3 DEF OpenState, SaveState
<1>4. CASE Onboard(p) \/ Register(p) \/ StartOrchestrator(p) \/ LoadState(p) \/ Exit(p)
  BY <1>a, <1>1, <1>4 DEF Onboard, Register, StartOrchestrator, LoadState, Exit, files
<1>5. CASE Command(p) \/ LookUp(p) \/ Build(p)
  BY <1>a, <1>1, <1>5 DEF Command, LookUp, Build, files
<1>6. CASE Kill(p)
  BY <1>a, <1>1, <1>6 DEF Kill, files
<1>7. CASE WriteFails(p)
  BY <1>1, <1>7, RegistryFails DEF RegistryIInv
<1>8. QED
  BY <1>2, <1>3, <1>4, <1>5, <1>6, <1>7 DEF RegistryStep

SpecsHaveACause ==
  \A a \in Apps :
    /\ spec[a] = Empty => \E p \in Procs :
         pc[p] \in {"write", "killed_writing", "failed_writing"} /\ job[p].app = a
    /\ spec[a] = Garbled => a \in mixed
StateHasACause ==
  /\ file = Empty => \E p \in Procs : pc[p] \in {"save", "killed_saving", "failed_saving"}
  /\ file = Garbled => "state" \in mixed

LEMMA RegistrySpecFilesStep ==
  ASSUME RegistryIInv, NEW p \in Procs, RegistryStep(p)
  PROVE  SpecFilesInv' /\ SpecsHaveACause'
<1> USE DEF RegistryIInv, At
<1>a. /\ \A q \in Procs \ {p} : pc'[q] = pc[q] /\ job'[q] = job[q]
      /\ \A l : GoTo(p, l) => pc'[p] = l
  BY RegistryOthers
<1>b. SpecsHaveACause
  BY DEF BrokenFilesHaveACause, SpecsHaveACause
<1>c. spec \in [Apps -> Onboarders \cup Registrars \cup {Absent} \cup Unreadable]
  BY DEF TypeOK
<1>d. \A q \in Procs : pc[q] = "write" => job[q].app \in Apps
  BY RegistryAt
<1>1. CASE CreateSpec(p)
  <2> DEFINE a == job[p].app
  <2>1. a \in Apps /\ job' = job /\ pc[p] = "create" /\ pc'[p] = "write"
    BY <1>1, <1>a, RegistryAt DEF CreateSpec
  <2>2. spec' = [spec EXCEPT ![a] = Empty]
    BY <1>1 DEF CreateSpec
  <2>3. spec'[a] = Empty /\ \A b \in Apps \ {a} : spec'[b] = spec[b]
    BY <1>c, <2>1, <2>2
  <2>4. /\ mixed \subseteq mixed'
        /\ (\E q \in Procs : pc[q] = "write" /\ job[q].app = a) => a \in mixed'
    BY <1>1 DEF CreateSpec
  <2> HIDE DEF a
  <2>5. SpecFilesInv'
    <3>1. ASSUME NEW q \in Procs, NEW r \in Procs, pc'[q] = "write", pc'[r] = "write", q # r,
                 job[q].app = job[r].app
          PROVE  job[q].app \in mixed'
      BY <1>a, <2>1, <2>4, <3>1 DEF SpecFilesInv, a
    <3>2. ASSUME NEW q \in Procs, pc'[q] = "write"
          PROVE  spec'[job[q].app] # Absent /\ (spec'[job[q].app] # Empty => job[q].app \in mixed')
      <4>1. CASE job[q].app = a
        BY <2>3, <4>1, RegistryNoValues
      <4>2. CASE job[q].app # a
        BY <1>a, <1>d, <2>1, <2>3, <2>4, <3>2, <4>2 DEF SpecFilesInv, a
      <4>3. QED
        BY <4>1, <4>2
    <3>3. QED
      BY <2>1, <3>1, <3>2 DEF SpecFilesInv
  <2>6. SpecsHaveACause'
    BY <1>a, <1>b, <2>1, <2>3, <2>4, RegistryNoValues DEF SpecsHaveACause, a
  <2>7. QED
    BY <2>5, <2>6
<1>2. CASE WriteSpec(p)
  <2> DEFINE a == job[p].app
  <2>1. a \in Apps /\ job' = job /\ mixed' = mixed /\ pc[p] = "write" /\ pc'[p] \in {"index", "done"}
    BY <1>2, <1>a, RegistryAt DEF WriteSpec, ghosts
  <2>2. PICK s \in Written(spec[a], p) : spec' = [spec EXCEPT ![a] = s]
    BY <1>2 DEF WriteSpec
  <2>3. spec'[a] = s /\ \A b \in Apps \ {a} : spec'[b] = spec[b]
    BY <1>c, <2>1, <2>2
  <2>4. s # Empty /\ s # Absent
    BY <2>2, RegistryNoValues DEF Written
  <2>5. s = Garbled => a \in mixed
    BY <2>1, <2>2, RegistryNoValues DEF Written, SpecFilesInv
  <2> HIDE DEF a
  <2>6. \A q \in Procs : pc'[q] = "write" => q # p /\ pc[q] = "write"
    BY <1>a, <2>1
  <2>7. SpecFilesInv'
    <3>1. ASSUME NEW q \in Procs, pc'[q] = "write"
          PROVE  spec'[job[q].app] # Absent /\ (spec'[job[q].app] # Empty => job[q].app \in mixed)
      <4>1. CASE job[q].app = a
        BY <2>1, <2>3, <2>4, <2>6, <3>1, <4>1 DEF SpecFilesInv, a
      <4>2. CASE job[q].app # a
        BY <1>d, <2>3, <2>6, <3>1, <4>2 DEF SpecFilesInv
      <4>3. QED
        BY <4>1, <4>2
    <3>2. QED
      BY <2>1, <2>6, <3>1 DEF SpecFilesInv
  <2>8. SpecsHaveACause'
    <3>1. ASSUME NEW b \in Apps, spec'[b] = Empty
          PROVE  \E q \in Procs : pc'[q] \in {"write", "killed_writing", "failed_writing"}
                                   /\ job[q].app = b
      <4>1. b # a /\ spec[b] = Empty
        BY <2>3, <2>4, <3>1
      <4>2. PICK q \in Procs :
              pc[q] \in {"write", "killed_writing", "failed_writing"} /\ job[q].app = b
        BY <1>b, <4>1 DEF SpecsHaveACause
      <4>3. QED
        BY <1>a, <4>1, <4>2 DEF a
    <3>2. \A b \in Apps : spec'[b] = Garbled => b \in mixed
      BY <1>b, <2>3, <2>5 DEF SpecsHaveACause
    <3>3. QED
      BY <2>1, <3>1, <3>2 DEF SpecsHaveACause
  <2>9. QED
    BY <2>7, <2>8
<1>5. CASE WriteFails(p) /\ pc[p] = "write"
  <2>1. PICK a \in Apps : a = job[p].app
    BY <1>5, <1>d
  <2>2. /\ job' = job /\ mixed' = mixed /\ pc'[p] = "failed_writing"
        /\ spec'[a] \in LeftOff(spec[a]) /\ \A b \in Apps \ {a} : spec'[b] = spec[b]
    BY <1>5, <2>1, RegistryFails
  <2>3. spec[a] # Absent /\ (spec[a] # Empty => a \in mixed)
    BY <1>5, <2>1 DEF SpecFilesInv
  <2>4. spec'[a] # Absent /\ (spec'[a] # Empty => a \in mixed)
    BY <2>2, <2>3, RegistryNoValues DEF LeftOff
  <2>5. \A q \in Procs : pc'[q] = "write" => q # p /\ pc[q] = "write"
    BY <1>a, <2>2
  <2>6. SpecFilesInv'
    <3>1. ASSUME NEW q \in Procs, pc'[q] = "write"
          PROVE  spec'[job[q].app] # Absent /\ (spec'[job[q].app] # Empty => job[q].app \in mixed)
      BY <1>d, <2>2, <2>4, <2>5, <3>1 DEF SpecFilesInv
    <3>2. QED
      BY <2>2, <2>5, <3>1 DEF SpecFilesInv
  <2>7. SpecsHaveACause'
    <3>1. ASSUME NEW b \in Apps, spec'[b] = Empty
          PROVE  \E q \in Procs : pc'[q] \in {"write", "killed_writing", "failed_writing"}
                                   /\ job[q].app = b
      <4>1. CASE b = a
        BY <2>1, <2>2, <4>1
      <4>2. CASE b # a
        <5>1. PICK q \in Procs :
                pc[q] \in {"write", "killed_writing", "failed_writing"} /\ job[q].app = b
          BY <1>b, <2>2, <3>1, <4>2 DEF SpecsHaveACause
        <5>2. QED
          BY <1>a, <2>1, <4>2, <5>1
      <4>3. QED
        BY <4>1, <4>2
    <3>2. \A b \in Apps : spec'[b] = Garbled => b \in mixed
      BY <1>b, <2>2, <2>4, RegistryNoValues DEF SpecsHaveACause
    <3>3. QED
      BY <2>2, <3>1, <3>2 DEF SpecsHaveACause
  <2>8. QED
    BY <2>6, <2>7
<1>3. CASE ~CreateSpec(p) /\ ~WriteSpec(p) /\ ~(WriteFails(p) /\ pc[p] = "write")
  <2>1. /\ spec' = spec /\ pc'[p] # "write" /\ mixed \subseteq mixed'
        /\ pc[p] \in {"write", "killed_writing", "failed_writing"} => pc'[p] = "killed_writing" /\ job'[p] = job[p]
    BY <1>3, RegistryWriters
  <2>2. SpecFilesInv'
    BY <1>a, <2>1 DEF SpecFilesInv
  <2>3. SpecsHaveACause'
    BY <1>a, <1>b, <2>1 DEF SpecsHaveACause
  <2>4. QED
    BY <2>2, <2>3
<1>4. QED
  BY <1>1, <1>2, <1>3, <1>5

LEMMA RegistryStateFileStep ==
  ASSUME RegistryIInv, NEW p \in Procs, RegistryStep(p)
  PROVE  StateFileInv' /\ StateHasACause'
<1> USE DEF RegistryIInv, At
<1>a. /\ \A q \in Procs \ {p} : pc'[q] = pc[q]
      /\ \A l : GoTo(p, l) => pc'[p] = l
  BY RegistryOthers
<1>b. StateHasACause /\ \A q \in Procs : pc[q] = "save" => q \in Deployers
  BY RegistryAt DEF BrokenFilesHaveACause, StateHasACause
<1>1. CASE OpenState(p)
  <2>1. /\ file' = Empty /\ pc[p] = "open" /\ pc'[p] = "save"
        /\ (\E q \in Deployers : pc[q] = "save") => "state" \in mixed'
        /\ mixed \subseteq mixed'
    BY <1>1, <1>a DEF OpenState
  <2>2. StateFileInv'
    BY <1>a, <1>b, <2>1, RegistryNoValues DEF StateFileInv
  <2>3. QED
    BY <2>1, <2>2, RegistryNoValues DEF StateHasACause
<1>2. CASE SaveState(p)
  <2>1. /\ mixed' = mixed /\ pc[p] = "save" /\ pc'[p] # "save" /\ copy[p] \in States
        /\ file' = copy[p] \/ (file' = Garbled /\ file \notin {Empty, Absent})
    BY <1>2, <1>a DEF SaveState, Written, Ready, TypeOK
  <2>2. file' # Empty /\ file' # Absent /\ (file' = Garbled => "state" \in mixed)
    BY <2>1, RegistryNoValues DEF StateFileInv
  <2>3. StateFileInv'
    BY <1>a, <2>1, <2>2 DEF StateFileInv
  <2>4. QED
    BY <2>1, <2>2, <2>3 DEF StateHasACause
<1>5. CASE WriteFails(p) /\ pc[p] = "save"
  <2>1. mixed' = mixed /\ pc'[p] = "failed_saving" /\ file' \in LeftOff(file)
    BY <1>5, RegistryFails
  <2>2. file # Absent /\ (file # Empty => "state" \in mixed)
    BY <1>5 DEF StateFileInv
  <2>3. file' # Absent /\ (file' # Empty => "state" \in mixed)
    BY <2>1, <2>2, RegistryNoValues DEF LeftOff
  <2>4. StateFileInv'
    BY <1>a, <2>1, <2>3 DEF StateFileInv
  <2>5. StateHasACause'
    BY <2>1, <2>3, RegistryNoValues DEF StateHasACause
  <2>6. QED
    BY <2>4, <2>5
<1>3. CASE ~OpenState(p) /\ ~SaveState(p) /\ ~(WriteFails(p) /\ pc[p] = "save")
  <2>1. /\ file' = file /\ pc'[p] # "save" /\ mixed \subseteq mixed'
        /\ pc[p] \in {"save", "killed_saving", "failed_saving"} => pc'[p] = "killed_saving"
    BY <1>3, RegistryWriters
  <2>2. StateFileInv'
    BY <1>a, <2>1 DEF StateFileInv
  <2>3. StateHasACause'
    BY <1>a, <1>b, <2>1 DEF StateHasACause
  <2>4. QED
    BY <2>2, <2>3
<1>4. QED
  BY <1>1, <1>2, <1>3, <1>5

-----------------------------------------------------------------------------
(* The registry: who has a name.                                            *)

LEMMA RegistryRows ==
  ASSUME TypeOK
  PROVE  \A i \in IndexRows : index[i].by \in Onboarders /\ index[i].app \in Apps
<1> DEFINE Row == [app : Apps, by : Onboarders]
<1>1. \A r \in Row : r.by \in Onboarders /\ r.app \in Apps
  OBVIOUS
<1>2. index \in Seq(Row)
  BY DEF TypeOK
<1> HIDE DEF Row
<1>3. \A i \in IndexRows : index[i] \in Row
  BY <1>2, SMT DEF IndexRows
<1>4. QED
  BY <1>1, <1>3

\* An onboarding that has a name goes on with it.
LEMMA RegistryNamesFrame ==
  ASSUME RegistryIInv, NEW p \in Procs, RegistryStep(p),
         index' = index, together \subseteq together',
         \A q \in Onboarders : job'[q] = job[q]
           /\ (pc'[q] = pc[q] \/ pc'[q] \notin {"idle", "create", "write", "index"})
  PROVE  NamesInv'
<1> USE DEF RegistryIInv
<1>1. IndexRows' = IndexRows /\ Holding' \subseteq Holding /\ Holding \subseteq Onboarders
  BY DEF IndexRows, Holding
<1>2. \A q \in Holding' : pc'[q] # "create" => spec'[job[q].app] # Absent
  <2>1. ASSUME NEW q \in Holding', pc'[q] # "create" PROVE spec'[job[q].app] # Absent
    <3>1. q \in Holding /\ q \in Onboarders
      BY <1>1, <2>1
    <3>2. pc[q] # "create" \/ ((\E i \in IndexRows : index[i].by = q) /\ pc[q] = "create")
      BY <1>1, <2>1, <3>1 DEF Holding
    <3>3. pc[q] # "create" /\ pc[q] # "idle"
      BY <3>1, <3>2 DEF NamesInv, Holding
    <3>4. spec[job[q].app] # Absent /\ job[q].app \in Apps
      <4>1. job[q] \in Tasks
        BY <3>1, <3>3, RegistryNoValues DEF TypeOK, WaysInv
      <4>2. QED
        BY <3>1, <3>3, <4>1 DEF NamesInv, Tasks
    <3>5. QED
      BY <3>4, RegistryGrows
  <2>2. QED
    BY <2>1
<1>3. QED
  BY <1>1, <1>2, RegistryRows DEF NamesInv

LEMMA RegistryNamesStep ==
  ASSUME RegistryIInv, NEW p \in Procs, RegistryStep(p)
  PROVE  NamesInv'
<1> USE DEF RegistryIInv, At
<1>a. /\ \A q \in Procs \ {p} : pc'[q] = pc[q] /\ job'[q] = job[q]
      /\ \A l : GoTo(p, l) => pc'[p] = l
      /\ \A q \in Onboarders : q \in Procs
  BY RegistryOthers, RegistryNoValues
<1>b. /\ \A i \in IndexRows : index[i].by \in Onboarders /\ index[i].app \in Apps
      /\ Holding \subseteq Onboarders
  BY RegistryRows DEF Holding
<1>c. \A q \in Onboarders : pc[q] # "idle" => job[q] \in Tasks /\ job[q].app \in Apps
  BY <1>a DEF TypeOK, WaysInv, Tasks
<1>d. \A a \in Apps : spec[a] # Absent => spec'[a] # Absent
  BY RegistryGrows
<1>1. CASE Onboard(p)
  <2>1. p \in Onboarders /\ pc[p] = "idle" /\ index' = index /\ spec' = spec
    BY <1>1 DEF Onboard, files
  <2>2. p \notin Holding /\ \A i \in IndexRows : index[i].by # p
    BY <2>1 DEF Holding, NamesInv
  <2>3. PICK a \in Apps, wellFormed \in BOOLEAN :
          /\ Ask(p, a)
          /\ IF ValidateInput(a, wellFormed)
             THEN /\ GoTo(p, "create")
                  /\ together' = together \cup
                       {{p, q} : q \in {o \in Onboarders : At(o, "create") /\ job[o].app = a}}
             ELSE GoTo(p, "done") /\ UNCHANGED together
    BY <1>1 DEF Onboard
  <2>4. job'[p].app = a
    BY <2>3 DEF Ask, TypeOK
  <2>5. IndexRows' = IndexRows
    BY <2>1 DEF IndexRows
  <2>6. CASE ~ValidateInput(a, wellFormed)
    <3>1. Holding' = Holding /\ together' = together /\ pc'[p] = "done"
      BY <1>a, <1>b, <2>2, <2>3, <2>5, <2>1, <2>6 DEF Holding
    <3>2. QED
      BY <1>a, <1>b, <2>1, <2>2, <2>5, <3>1 DEF NamesInv
  <2>7. CASE ValidateInput(a, wellFormed)
    <3>1. spec[a] = Absent /\ pc'[p] = "create"
      BY <1>a, <2>3, <2>7 DEF ValidateInput
    <3>2. Holding' = Holding \cup {p}
      BY <1>a, <1>b, <2>1, <2>2, <2>5, <3>1 DEF Holding
    <3>3. /\ together \subseteq together'
          /\ \A q \in Onboarders : pc[q] = "create" /\ job[q].app = a => {p, q} \in together'
      BY <2>3, <2>7
    <3>4. \A q \in Holding : job[q].app = a => {p, q} \in together'
      BY <1>b, <3>1, <3>3 DEF NamesInv
    <3>5. \A q, r \in Holding' : q # r /\ job'[q].app = job'[r].app => {q, r} \in together'
      <4>1. \A q, r \in Holding : q # r /\ job'[q].app = job'[r].app => {q, r} \in together'
        BY <1>a, <1>b, <2>2, <3>3 DEF NamesInv
      <4>2. \A q \in Holding : job'[q].app = a => {p, q} \in together' /\ {q, p} \in together'
        <5>1. \A q : {p, q} = {q, p}
          OBVIOUS
        <5>2. QED
          BY <1>a, <1>b, <2>2, <3>4, <5>1
      <4>3. QED
        BY <2>4, <3>2, <4>1, <4>2
    <3>6. \A q \in Holding' : pc'[q] # "create" => spec'[job'[q].app] # Absent
      BY <1>a, <1>b, <2>1, <2>2, <3>1, <3>2 DEF NamesInv
    <3>7. QED
      BY <1>a, <1>b, <2>1, <2>2, <2>5, <3>5, <3>6 DEF NamesInv
  <2>8. QED
    BY <2>6, <2>7
<1>2. CASE CreateSpec(p) \/ WriteSpec(p)
  <2>1. /\ index' = index /\ job' = job /\ together' = together /\ pc[p] \in {"create", "write"}
        /\ pc'[p] \in {"write", "index", "done"} /\ (p \in Onboarders => pc'[p] # "done")
    BY <1>2, <1>a DEF CreateSpec, WriteSpec, ghosts
  <2>2. IndexRows' = IndexRows /\ \A i \in IndexRows : index[i].by # p
    BY <1>b, <2>1 DEF IndexRows, NamesInv
  <2>3. Holding' = Holding
    BY <1>a, <1>b, <2>1, <2>2 DEF Holding
  <2>4. p \in Onboarders => spec'[job[p].app] # Absent
    <3>1. CASE CreateSpec(p)
      BY <3>1, RegistryAt, RegistryNoValues DEF CreateSpec, TypeOK
    <3>2. CASE WriteSpec(p)
      BY <3>2, <1>c, <1>d DEF WriteSpec, SpecFilesInv
    <3>3. QED
      BY <1>2, <3>1, <3>2
  <2>5. \A q \in Holding : pc'[q] # "create" => spec'[job[q].app] # Absent
    <3>1. ASSUME NEW q \in Holding, q # p, pc'[q] # "create" PROVE spec'[job[q].app] # Absent
      <4>1. q \in Onboarders /\ pc[q] # "create" /\ pc[q] # "idle"
        BY <1>a, <1>b, <3>1 DEF Holding, NamesInv
      <4>2. QED
        BY <1>c, <1>d, <3>1, <4>1 DEF NamesInv
    <3>2. QED
      BY <1>b, <2>4, <3>1
  <2>6. \A i \in IndexRows : pc'[index[i].by] = pc[index[i].by]
    BY <1>a, <1>b, <2>2
  <2>7. QED
    BY <2>1, <2>2, <2>3, <2>5, <2>6 DEF NamesInv
<1>3. CASE AppendIndex(p)
  <2>1. /\ pc[p] = "index" /\ pc'[p] = "load" /\ UNCHANGED <<spec, job, together>>
        /\ index' = Append(index, [app |-> job[p].app, by |-> p])
    BY <1>3, <1>a DEF AppendIndex, ghosts
  <2>2. p \in Onboarders /\ p \in Holding /\ \A i \in IndexRows : index[i].by # p
    BY <2>1, RegistryAt DEF Holding, NamesInv
  <2>3. /\ Len(index) \in Nat /\ Len(index') = Len(index) + 1
        /\ \A i \in IndexRows : index'[i] = index[i]
        /\ index'[Len(index) + 1] = [app |-> job[p].app, by |-> p]
        /\ index'[Len(index) + 1].by = p /\ index'[Len(index) + 1].app = job[p].app
    BY <2>1, SMT DEF TypeOK, IndexRows
  <2>4. IndexRows' = IndexRows \cup {Len(index) + 1} /\ Len(index) + 1 \notin IndexRows
    BY <2>3, SMT DEF IndexRows
  <2> DEFINE lastRow == Len(index) + 1
  <2> HIDE DEF lastRow
  <2>a. /\ IndexRows' = IndexRows \cup {lastRow} /\ lastRow \notin IndexRows
        /\ \A i \in IndexRows : index'[i] = index[i]
        /\ index'[lastRow].by = p /\ index'[lastRow].app = job[p].app
    BY <2>3, <2>4 DEF lastRow
  <2>5. \A q : (\E i \in IndexRows' : index'[i].by = q) <=> (q = p \/ \E i \in IndexRows : index[i].by = q)
    <3>1. ASSUME NEW q, NEW i \in IndexRows', index'[i].by = q
          PROVE  q = p \/ \E k \in IndexRows : index[k].by = q
      BY <2>a, <3>1
    <3>2. ASSUME NEW q, NEW i \in IndexRows, index[i].by = q
          PROVE  \E k \in IndexRows' : index'[k].by = q
      BY <2>a, <3>2
    <3>3. \E k \in IndexRows' : index'[k].by = p
      BY <2>a
    <3>4. QED
      BY <3>1, <3>2, <3>3
  <2>6. Holding' = Holding
    <3>1. p \in Holding'
      BY <2>2, <2>5 DEF Holding
    <3>2. ASSUME NEW q \in Onboarders, q # p PROVE q \in Holding' <=> q \in Holding
      BY <1>a, <2>5, <3>2 DEF Holding
    <3>3. Holding \subseteq Onboarders /\ Holding' \subseteq Onboarders
      BY DEF Holding
    <3>4. QED
      BY <2>2, <3>1, <3>2, <3>3
  <2>7. \A i \in IndexRows' :
          /\ pc'[index'[i].by] \notin {"idle", "create", "write", "index"}
          /\ job'[index'[i].by].app = index'[i].app
          /\ \A k \in IndexRows' : index'[i].by = index'[k].by => i = k
    <3>1. \A i \in IndexRows : pc'[index[i].by] = pc[index[i].by]
      BY <1>a, <1>b, <2>2
    <3>2. ASSUME NEW i \in IndexRows'
          PROVE  /\ pc'[index'[i].by] \notin {"idle", "create", "write", "index"}
                 /\ job'[index'[i].by].app = index'[i].app
      <4>1. CASE i = lastRow
        BY <2>1, <2>a, <4>1
      <4>2. CASE i \in IndexRows
        BY <2>1, <2>a, <3>1, <4>2 DEF NamesInv
      <4>3. QED
        BY <2>a, <4>1, <4>2
    <3>3. ASSUME NEW i \in IndexRows', NEW k \in IndexRows', index'[i].by = index'[k].by
          PROVE  i = k
      <4>1. CASE i \in IndexRows /\ k \in IndexRows
        BY <2>a, <3>3, <4>1 DEF NamesInv
      <4>2. CASE i = lastRow \/ k = lastRow
        BY <2>2, <2>a, <3>3, <4>2
      <4>3. QED
        BY <2>a, <4>1, <4>2
    <3>4. QED
      BY <3>2, <3>3
  <2>8. \A q \in Holding : pc'[q] # "create" => spec[job[q].app] # Absent
    BY <1>a, <1>b, <2>1 DEF NamesInv
  <2>9. QED
    BY <2>1, <2>6, <2>7, <2>8 DEF NamesInv
<1>4. CASE ~Onboard(p) /\ ~CreateSpec(p) /\ ~WriteSpec(p) /\ ~AppendIndex(p)
  <2>1. index' = index /\ together' = together
    BY <1>4 DEF RegistryStep, Register, StartOrchestrator, LoadState, Command, LookUp, Build,
       OpenState, SaveState, Exit, Kill, WriteFails, files, ghosts
  <2>2. p \in Onboarders => p \notin Registrars /\ p \notin Orchestrators
    BY RegistryAssumption
  <2>3. p \in Onboarders => job' = job /\ pc'[p] \notin {"idle", "create", "write", "index"}
    BY <1>4, <1>a, <2>2 DEF RegistryStep, Register, StartOrchestrator, LoadState, Command, LookUp,
       Build, OpenState, SaveState, Exit, Kill, WriteFails, Ready
  <2>4. \A q \in Onboarders : job'[q] = job[q]
          /\ (pc'[q] = pc[q] \/ pc'[q] \notin {"idle", "create", "write", "index"})
    BY <1>a, <2>3
  <2>5. QED
    BY <2>1, <2>4, RegistryNamesFrame
<1>5. QED
  BY <1>1, <1>2, <1>3, <1>4

-----------------------------------------------------------------------------
(* The registry: who knows the current entries.                             *)

LEMMA RegistryFreshStep ==
  ASSUME RegistryIInv, NEW p \in Procs, RegistryStep(p)
  PROVE  FreshInv'
<1> USE DEF RegistryIInv, At
<1>a. /\ \A q \in Procs \ {p} : pc'[q] = pc[q] /\ job'[q] = job[q] /\ copy'[q] = copy[q]
      /\ \A l : GoTo(p, l) => pc'[p] = l
      /\ \A a \in Apps : \A q \in fresh[a] : q \in Procs
  BY RegistryOthers, RegistryNoValues DEF TypeOK
<1>1. CASE LoadState(p)
  <2>1. stored' = stored /\ file' = file /\ job' = job /\ pc[p] = "load"
    BY <1>1 DEF LoadState, files
  <2>2. CASE file \in Unreadable
    BY <1>a, <1>1, <2>1, <2>2 DEF LoadState, FreshInv
  <2>3. CASE file \notin Unreadable
    <3>1. file = Absent \/ file \in States
      BY <2>3 DEF TypeOK
    <3>2. copy'[p] = stored
      BY <1>1, <2>3, <3>1 DEF LoadState, Loaded, StoredInv, TypeOK
    <3>3. \A a \in Apps : fresh'[a] = fresh[a] \cup {p}
      BY <1>1, <2>3 DEF LoadState
    <3>4. QED
      BY <1>a, <2>1, <3>2, <3>3 DEF FreshInv
  <2>4. QED
    BY <2>2, <2>3
<1>2. CASE OpenState(p)
  <2>1. stored' = stored /\ fresh' = fresh /\ job' = job /\ pc[p] = "open" /\ pc'[p] = "save"
    BY <1>2, <1>a DEF OpenState
  <2>2. \A a \in Apps : copy'[p][a] = copy[p][a] \/ a = job[p].app
    BY <1>2, RegistryAt DEF OpenState, TypeOK, States
  <2>3. QED
    BY <1>a, <2>1, <2>2 DEF FreshInv
<1>3. CASE SaveState(p)
  <2>1. /\ stored' = copy[p] /\ job' = job /\ copy' = copy
        /\ \A a \in Apps : fresh'[a] = IF stored[a] = copy[p][a] THEN fresh[a] ELSE {p}
    BY <1>3 DEF SaveState
  <2>2. \A a \in Apps : \A q \in fresh'[a] :
          \/ copy[q][a] = copy[p][a]
          \/ pc'[q] \in {"save", "killed_saving", "failed_saving"} /\ a = job[q].app
    <3>1. ASSUME NEW a \in Apps, NEW q \in fresh'[a], q # p
          PROVE  \/ copy[q][a] = copy[p][a]
                 \/ pc'[q] \in {"save", "killed_saving", "failed_saving"} /\ a = job[q].app
      <4>1. stored[a] = copy[p][a] /\ q \in fresh[a]
        BY <2>1, <3>1
      <4>2. q \in Procs \ {p}
        BY <1>a, <3>1, <4>1
      <4>3. QED
        BY <1>a, <4>1, <4>2 DEF FreshInv
    <3>2. QED
      BY <3>1
  <2>3. QED
    BY <2>1, <2>2 DEF FreshInv
<1>4. CASE Onboard(p) \/ Register(p) \/ StartOrchestrator(p) \/ Exit(p) \/ Command(p) \/ LookUp(p)
           \/ Build(p) \/ CreateSpec(p) \/ WriteSpec(p) \/ AppendIndex(p)
  <2>1. stored' = stored /\ fresh' = fresh /\ copy' = copy
        /\ pc[p] \notin {"save", "killed_saving", "failed_saving"}
    BY <1>4 DEF Onboard, Register, StartOrchestrator, Exit, Command, LookUp, Build, CreateSpec,
       WriteSpec, AppendIndex, files, ghosts
  <2>2. QED
    BY <1>a, <2>1 DEF FreshInv
<1>5. CASE Kill(p)
  <2>1. /\ stored' = stored /\ fresh' = fresh /\ copy' = copy /\ job' = job
        /\ pc[p] \notin {"killed_saving", "failed_saving"} /\ (pc[p] = "save" => pc'[p] = "killed_saving")
    BY <1>5, <1>a DEF Kill, ghosts
  <2>2. QED
    BY <1>a, <2>1 DEF FreshInv
<1>6. CASE WriteFails(p)
  <2>1. /\ stored' = stored /\ fresh' = fresh /\ copy' = copy /\ job' = job
        /\ \/ pc[p] = "save" /\ pc'[p] = "failed_saving"
           \/ pc[p] = "write"
    BY <1>6, RegistryFails
  <2>2. QED
    BY <1>a, <2>1 DEF FreshInv
<1>7. QED
  BY <1>1, <1>2, <1>3, <1>4, <1>5, <1>6 DEF RegistryStep

-----------------------------------------------------------------------------
(* The registry: every step, and what follows.                              *)

LEMMA RegistryStepIInv ==
  ASSUME RegistryIInv, [Next]_vars
  PROVE  RegistryIInv'
<1>1. CASE UNCHANGED vars
  <2> USE <1>1 DEF RegistryIInv, vars, setting, files, views, ghosts
  <2>1. TypeOK' /\ WaysInv' /\ OpenInv' /\ BuiltInv' /\ StoredInv'
    BY DEF TypeOK, WaysInv, OpenInv, BuiltInv, StoredInv
  <2>2. SpecFilesInv' /\ StateFileInv' /\ BrokenFilesHaveACause'
    BY DEF SpecFilesInv, StateFileInv, BrokenFilesHaveACause
  <2>3. NamesInv'
    <3>1. IndexRows' = IndexRows /\ Holding' = Holding
      BY DEF IndexRows, Holding
    <3>2. QED
      BY <3>1 DEF NamesInv
  <2>4. FreshInv'
    BY DEF FreshInv
  <2>5. QED
    BY <2>1, <2>2, <2>3, <2>4
<1>2. ASSUME NEW r \in Recorders, StampRecord(r) \/ AppendRecord(r)
      PROVE  RegistryIInv'
  <2>1. UNCHANGED <<setting, files, pc, job, read, copy, commands, kills, ghosts>>
    BY <1>2 DEF StampRecord, AppendRecord
  <2>2. /\ stamp' \in [Recorders -> [app : Apps, at : Nat] \cup {Nothing}] /\ clock' \in Nat
        /\ history' \in Seq([app : Apps, at : Nat, by : Recorders])
    <3>1. CASE StampRecord(r)
      <4>1. PICK a \in Apps, t \in {clock, clock + 1} :
              stamp' = [stamp EXCEPT ![r] = [app |-> a, at |-> t]] /\ clock' = t
        BY <3>1 DEF StampRecord
      <4>2. t \in Nat
        BY <4>1, SMT DEF RegistryIInv, TypeOK
      <4>3. history' = history
        BY <3>1 DEF StampRecord
      <4>4. QED
        BY <4>1, <4>2, <4>3 DEF RegistryIInv, TypeOK
    <3>2. CASE AppendRecord(r)
      <4>1. stamp[r] \in [app : Apps, at : Nat]
        BY <3>2 DEF AppendRecord, RegistryIInv, TypeOK
      <4>2. [app |-> stamp[r].app, at |-> stamp[r].at, by |-> r] \in [app : Apps, at : Nat, by : Recorders]
        BY <4>1
      <4>3. QED
        BY <3>2, <4>2, SMT DEF AppendRecord, RegistryIInv, TypeOK
    <3>3. QED
      BY <1>2, <3>1, <3>2
  <2>3. TypeOK'
    BY <2>1, <2>2 DEF RegistryIInv, TypeOK, setting, files, ghosts
  <2>4. WaysInv' /\ OpenInv' /\ BuiltInv' /\ StoredInv'
    BY <2>1 DEF RegistryIInv, WaysInv, OpenInv, BuiltInv, StoredInv, setting, files, ghosts
  <2>5. SpecFilesInv' /\ StateFileInv' /\ BrokenFilesHaveACause' /\ FreshInv'
    BY <2>1 DEF RegistryIInv, SpecFilesInv, StateFileInv, BrokenFilesHaveACause, FreshInv, files, ghosts
  <2>6. NamesInv'
    <3>1. IndexRows' = IndexRows /\ Holding' = Holding
      BY <2>1 DEF IndexRows, Holding, files
    <3>2. QED
      BY <2>1, <3>1 DEF RegistryIInv, NamesInv, files, ghosts
  <2>7. QED
    BY <2>3, <2>4, <2>5, <2>6 DEF RegistryIInv
<1>3. ASSUME NEW p \in Procs, RegistryStep(p)
      PROVE  RegistryIInv'
  <2>1. SpecsHaveACause' /\ StateHasACause' => BrokenFilesHaveACause'
    BY DEF SpecsHaveACause, StateHasACause, BrokenFilesHaveACause
  <2>2. QED
    BY <1>3, <2>1, RegistryTypeStep, RegistryWaysStep, RegistryBuiltStep, RegistrySpecFilesStep,
       RegistryStateFileStep, RegistryNamesStep, RegistryFreshStep DEF RegistryIInv
<1>4. QED
  BY <1>1, <1>2, <1>3 DEF Next, RegistryStep

\* The inductive invariant holds in every reachable state.
THEOREM RegistryIsInductive == Spec => []RegistryIInv
<1>1. QED
  BY RegistryInit, RegistryStepIInv, PTL DEF Spec

\* A name is given to two onboardings only if both had looked it up (_validate_input) before
\* either created the file.
THEOREM NamesGivenOnce == Spec => []NamesAreGivenOnce
<1>1. RegistryIInv => NamesAreGivenOnce
  <2> SUFFICES ASSUME RegistryIInv PROVE NamesAreGivenOnce
    OBVIOUS
  <2>1. SUFFICES ASSUME NEW i \in IndexRows, NEW k \in IndexRows, i # k, index[i].app = index[k].app
                 PROVE  {index[i].by, index[k].by} \in together
    BY DEF NamesAreGivenOnce, IndexRows
  <2>2. index[i].by \in Holding /\ index[k].by \in Holding /\ index[i].by # index[k].by
    BY <2>1, RegistryRows DEF RegistryIInv, NamesInv, Holding
  <2>3. QED
    BY <2>1, <2>2 DEF RegistryIInv, NamesInv
<1>2. QED
  BY <1>1, RegistryIsInductive, PTL

\* What is built or in the index was registered, what is stored was built or was there at
\* the start (deploy_app), and a file that does not parse is
\* being written, was left by a writer that was killed or failed, or mixes two writes
\* (_save_spec, save_to_registry, _save_state).
THEOREM FilesStaySound == Spec => []FilesAreSound
<1>1. RegistryIInv => FilesAreSound
  <2> SUFFICES ASSUME RegistryIInv PROVE FilesAreSound
    OBVIOUS
  <2>1. \A i \in IndexRows : spec[index[i].app] # Absent
    <3>1. SUFFICES ASSUME NEW i \in IndexRows PROVE spec[index[i].app] # Absent
      OBVIOUS
    <3>2. index[i].by \in Holding /\ pc[index[i].by] # "create" /\ job[index[i].by].app = index[i].app
      BY RegistryRows DEF RegistryIInv, NamesInv, Holding
    <3>3. QED
      BY <3>2 DEF RegistryIInv, NamesInv
  <2>2. NothingUnregisteredRuns
    BY <2>1 DEF RegistryIInv, BuiltInv, NothingUnregisteredRuns, IndexRows
  <2>3. QED
    BY <2>2 DEF RegistryIInv, FilesAreSound
<1>2. QED
  BY <1>1, RegistryIsInductive, PTL

\* An orchestrator that has read the current entry of an app does not undo it by a command
\* on another one (_load_state and _save_state).
THEOREM StaleStateOnlyIsLost == Spec => OnlyStaleStateIsLost
<1>1. RegistryIInv /\ [Next]_vars =>
        [\A p \in Deployers, a \in Apps :
           SaveState(p) /\ a # job[p].app /\ p \in fresh[a] => stored'[a] = stored[a]]_vars
  <2> SUFFICES ASSUME RegistryIInv, NEW p \in Deployers, NEW a \in Apps, SaveState(p),
                      a # job[p].app, p \in fresh[a]
               PROVE  stored'[a] = stored[a]
    OBVIOUS
  <2>1. copy[p][a] = stored[a]
    BY DEF RegistryIInv, FreshInv
  <2>2. QED
    BY <2>1 DEF SaveState
<1>2. QED
  BY <1>1, RegistryIsInductive, PTL DEF Spec, OnlyStaleStateIsLost

-----------------------------------------------------------------------------
(* Induction and recursion.                                                 *)

\* Induction, for a set of naturals: were n the end of a gap, then k - 1 would map the part
\* of the gap up to n into what is left of it without n.
LEMMA SetInduction ==
  ASSUME NEW T, 0 \in T, \A n \in Nat : n \in T => n + 1 \in T
  PROVE  \A n \in Nat : n \in T
<1> SUFFICES ASSUME NEW n \in Nat, n \notin T PROVE FALSE
  OBVIOUS
<1> DEFINE Gap == {k \in 0..n : k \notin T}
           f == [k \in Gap |-> k - 1]
<1>1. IsFiniteSet(Gap) /\ n \in Gap
  <2>1. IsFiniteSet(0..n)
    BY FS_Interval
  <2>2. Gap \subseteq 0..n /\ n \in Gap
    OBVIOUS
  <2>3. QED
    BY <2>1, <2>2, FS_Subset
<1>2. /\ IsFiniteSet(Gap \ {n}) /\ Cardinality(Gap) \in Nat
      /\ Cardinality(Gap \ {n}) = Cardinality(Gap) - 1
  BY <1>1, FS_RemoveElement, FS_CardinalityType
<1>3. \A k \in Gap : k - 1 \in Gap \ {n}
  <2> SUFFICES ASSUME NEW k \in Gap PROVE k - 1 \in Gap \ {n}
    OBVIOUS
  <2>1. k \in 1..n /\ k - 1 \in Nat
    OBVIOUS
  <2>2. k - 1 \notin T
    <3>1. k - 1 \in T => (k - 1) + 1 \in T
      BY <2>1
    <3>2. QED
      BY <2>1, <3>1
  <2>3. QED
    BY <2>1, <2>2
<1>4. f \in [Gap -> Gap \ {n}]
  BY <1>3
<1>5. \E x, y \in Gap : x # y /\ f[x] = f[y]
  <2> HIDE DEF f
  <2>1. Cardinality(Gap \ {n}) < Cardinality(Gap)
    BY <1>2
  <2>2. QED
    BY <1>1, <1>2, <1>4, <2>1, FS_PigeonHole
<1>6. QED
  BY <1>5

\* f solves a recursion on 0..n; and a recursion has a solution, and whatever follows it is
\* that solution.
Solution(f, n, S, z, Nth) ==
  /\ f \in [0..n -> S]
  /\ f[0] = z /\ \A i \in 1..n : f[i] = Nth[i][f[i - 1]]
  /\ \A g : /\ g[0] = z
            /\ \A i \in 1..n : g[i - 1] \in S => g[i] = Nth[i][g[i - 1]]
            => \A i \in 0..n : g[i] = f[i]

LEMMA Recursion ==
  ASSUME NEW n, NEW S, NEW z, NEW Nth, n \in Nat, z \in S, Nth \in [1..n -> [S -> S]]
  PROVE  \E f : Solution(f, n, S, z, Nth)
<1> DEFINE Solves(f, m) == f[0] = z /\ \A i \in 1..m : f[i] = Nth[i][f[i - 1]]
           T == {m \in Nat : m <= n => \E f \in [0..m -> S] : Solves(f, m)}
<1>1. 0 \in T
  <2> DEFINE f == [i \in 0..0 |-> z]
  <2>1. f \in [0..0 -> S] /\ Solves(f, 0)
    OBVIOUS
  <2>2. QED
    BY <2>1
<1>2. ASSUME NEW m \in Nat, m \in T PROVE m + 1 \in T
  <2> SUFFICES ASSUME m + 1 <= n PROVE \E g \in [0..(m + 1) -> S] : Solves(g, m + 1)
    OBVIOUS
  <2>1. PICK f \in [0..m -> S] : Solves(f, m)
    BY <1>2
  <2> DEFINE g == [i \in 0..(m + 1) |-> IF i <= m THEN f[i] ELSE Nth[m + 1][f[m]]]
  <2>2. m + 1 \in 1..n /\ f[m] \in S
    BY <2>1
  <2>3. Nth[m + 1][f[m]] \in S
    BY <2>2
  <2>4. g \in [0..(m + 1) -> S]
    BY <2>3
  <2>5. \A i \in 0..m : g[i] = f[i]
    OBVIOUS
  <2>6. g[m + 1] = Nth[m + 1][f[m]]
    OBVIOUS
  <2> HIDE DEF g
  <2>7. ASSUME NEW i \in 1..(m + 1) PROVE g[i] = Nth[i][g[i - 1]]
    <3>1. i - 1 \in 0..m /\ (i \in 1..m \/ i = m + 1)
      OBVIOUS
    <3>2. g[i - 1] = f[i - 1]
      BY <2>5, <3>1
    <3>3. CASE i \in 1..m
      <4>1. g[i] = f[i] /\ f[i] = Nth[i][f[i - 1]]
        BY <2>1, <2>5, <3>3
      <4>2. QED
        BY <3>2, <4>1
    <3>4. CASE i = m + 1
      BY <2>6, <3>2, <3>4
    <3>5. QED
      BY <3>1, <3>3, <3>4
  <2>8. g[0] = z
    BY <2>1, <2>5
  <2>9. QED
    BY <2>4, <2>7, <2>8
<1>3. PICK f \in [0..n -> S] : Solves(f, n)
  <2> HIDE DEF T
  <2>1. n \in T
    BY <1>1, <1>2, SetInduction
  <2>2. QED
    BY <2>1 DEF T
<1>4. ASSUME NEW g, g[0] = z, \A i \in 1..n : g[i - 1] \in S => g[i] = Nth[i][g[i - 1]]
      PROVE  \A i \in 0..n : g[i] = f[i]
  <2> DEFINE U == {m \in Nat : m <= n => g[m] = f[m]}
  <2>1. 0 \in U
    BY <1>3, <1>4
  <2>2. ASSUME NEW m \in Nat, m \in U PROVE m + 1 \in U
    <3> SUFFICES ASSUME m + 1 <= n PROVE g[m + 1] = f[m + 1]
      OBVIOUS
    <3>1. m + 1 \in 1..n /\ (m + 1) - 1 = m /\ m \in 0..n /\ g[m] = f[m]
      BY <2>2
    <3>2. f[m + 1] = Nth[m + 1][f[m]]
      BY <1>3, <3>1
    <3>3. g[m] \in S => g[m + 1] = Nth[m + 1][g[m]]
      BY <1>4, <3>1
    <3>4. f[m] \in S
      BY <3>1
    <3>5. QED
      BY <3>1, <3>2, <3>3, <3>4
  <2> HIDE DEF U
  <2>3. \A m \in Nat : m \in U
    BY <2>1, <2>2, SetInduction
  <2>4. QED
    BY <2>3 DEF U
<1>5. QED
  BY <1>3, <1>4 DEF Solution

-----------------------------------------------------------------------------
(* The registry: the views of the decision history.                         *)

DecisionRows == [app : Apps, at : Nat, by : Recorders]

LEMMA HistoryRows ==
  ASSUME TypeOK
  PROVE  /\ Len(history) \in Nat
         /\ \A i \in 1..Len(history) : history[i] \in DecisionRows /\ history[i] # Nothing
<1>1. history \in Seq(DecisionRows)
  BY DEF TypeOK, DecisionRows
<1>2. Nothing \notin DecisionRows
  BY NoValueAssumption DEF DecisionRows
<1> HIDE DEF DecisionRows
<1>3. Len(history) \in Nat /\ \A i \in 1..Len(history) : history[i] \in DecisionRows
  BY <1>1, SMT
<1>4. QED
  BY <1>2, <1>3

\* The order of the sorted list is total and strict.
LEMMA BeforeIsAnOrder ==
  ASSUME TypeOK
  PROVE  /\ \A i, k \in 1..Len(history) : i # k => Before(i, k) \/ Before(k, i)
         /\ \A i \in 1..Len(history) : ~Before(i, i)
         /\ \A i, k, l \in 1..Len(history) : Before(i, k) /\ Before(k, l) => Before(i, l)
<1>1. \A i \in 1..Len(history) : i \in Nat /\ history[i].at \in Nat
  <2>1. \A row \in DecisionRows : row.at \in Nat
    BY DEF DecisionRows
  <2>2. QED
    BY <2>1, HistoryRows
<1>2. QED
  BY <1>1, SMT DEF Before

\* A row of the app that stands before all others of it.
First(a, i) == i \in RowsOf(a) /\ \A k \in RowsOf(a) : k # i => Before(i, k)

\* The walk of get_health_overview: at each place the row it has is the first, in the sorted
\* list, of those it has seen.
NewestSoFar(a, i, row) ==
  \/ row = Nothing /\ \A k \in RowsOf(a) : k > i
  \/ \E j \in RowsOf(a) :
       /\ j <= i /\ row = history[j]
       /\ \A k \in RowsOf(a) : k <= i /\ k # j => Before(j, k)

LEMMA NewestGrows ==
  ASSUME TypeOK, NEW a, NEW i \in 1..Len(history), NEW row, NewestSoFar(a, i - 1, row)
  PROVE  NewestSoFar(a, i, IF history[i].app = a /\ (row = Nothing \/ history[i].at > row.at)
                      THEN history[i] ELSE row)
<1>0. /\ \A k \in RowsOf(a) : k \in 1..Len(history) /\ k \in Nat
      /\ i \in Nat /\ (i \in RowsOf(a) <=> history[i].app = a)
      /\ \A k \in 1..Len(history) : history[k].at \in Nat /\ history[k] # Nothing
  BY HistoryRows DEF RowsOf, DecisionRows
<1>1. CASE history[i].app # a
  <2>1. \A k \in RowsOf(a) : k <= i <=> k <= i - 1
    BY <1>0, <1>1
  <2>2. \A k \in RowsOf(a) : k > i - 1 => k > i
    BY <1>0, <1>1
  <2>3. NewestSoFar(a, i, row)
    BY <2>1, <2>2 DEF NewestSoFar
  <2>4. QED
    BY <1>1, <2>3
<1>2. CASE history[i].app = a /\ row = Nothing
  <2>1. \A k \in RowsOf(a) : k > i - 1
    BY <1>0, <1>2 DEF NewestSoFar
  <2>2. \A k \in RowsOf(a) : k <= i => k = i
    BY <1>0, <2>1
  <2>3. i \in RowsOf(a) /\ i <= i
    BY <1>0, <1>2
  <2>4. NewestSoFar(a, i, history[i])
    BY <2>2, <2>3 DEF NewestSoFar
  <2>5. QED
    BY <1>2, <2>4
<1>3. CASE history[i].app = a /\ row # Nothing
  <2>1. PICK j \in RowsOf(a) : /\ j <= i - 1 /\ row = history[j]
                               /\ \A k \in RowsOf(a) : k <= i - 1 /\ k # j => Before(j, k)
    BY <1>3 DEF NewestSoFar
  <2>2. i \in RowsOf(a) /\ j < i /\ j \in 1..Len(history)
    BY <1>0, <1>3, <2>1
  <2>3. CASE history[i].at > row.at
    <3>1. Before(i, j)
      BY <2>1, <2>3 DEF Before
    <3>2. ASSUME NEW k \in RowsOf(a), k <= i, k # i PROVE Before(i, k)
      <4>1. k <= i - 1
        BY <1>0, <3>2
      <4>2. CASE k = j
        BY <3>1, <4>2
      <4>3. CASE k # j
        BY <1>0, <2>1, <2>2, <3>1, <4>1, <4>3, BeforeIsAnOrder
      <4>4. QED
        BY <4>2, <4>3
    <3>3. NewestSoFar(a, i, history[i])
      BY <1>0, <2>2, <3>2 DEF NewestSoFar
    <3>4. QED
      BY <1>3, <2>3, <3>3
  <2>4. CASE ~(history[i].at > row.at)
    <3>1. Before(j, i)
      BY <1>0, <2>1, <2>2, <2>4 DEF Before
    <3>2. ASSUME NEW k \in RowsOf(a), k <= i, k # j PROVE Before(j, k)
      <4>1. k <= i - 1 \/ k = i
        BY <1>0, <3>2
      <4>2. QED
        BY <2>1, <3>1, <3>2, <4>1
    <3>3. j <= i
      BY <1>0, <2>1
    <3>4. NewestSoFar(a, i, row)
      BY <2>1, <3>2, <3>3 DEF NewestSoFar
    <3>5. QED
      BY <1>3, <2>4, <3>4
  <2>5. QED
    BY <2>3, <2>4
<1>4. QED
  BY <1>1, <1>2, <1>3

LEMMA LatestIsNewest ==
  ASSUME TypeOK, NEW a
  PROVE  NewestSoFar(a, Len(history), LatestDecision(a))
<1> DEFINE N == Len(history)
           S == DecisionRows \cup {Nothing}
           Later(i, row) == IF history[i].app = a /\ (row = Nothing \/ history[i].at > row.at)
                            THEN history[i] ELSE row
           Nth == [i \in 1..N |-> [row \in S |-> Later(i, row)]]
           Walk(g) == [i \in 0..N |-> IF i = 0 THEN Nothing ELSE Later(i, g[i - 1])]
           latest == CHOOSE g : g = Walk(g)
<1>0. N \in Nat /\ \A i \in 1..N : history[i] \in S
  BY HistoryRows
<1>1. Nth \in [1..N -> [S -> S]]
  BY <1>0
<1>2. \A i \in 1..N : \A row \in S : Nth[i][row] = Later(i, row)
  OBVIOUS
<1>3. PICK f : Solution(f, N, S, Nothing, Nth)
  <2> HIDE DEF Nth, N
  <2>1. Nothing \in S
    OBVIOUS
  <2>2. QED
    BY <1>0, <1>1, <2>1, Recursion
<1> HIDE DEF Nth
<1>4. f \in [0..N -> S] /\ f[0] = Nothing /\ \A i \in 1..N : f[i] = Later(i, f[i - 1])
  <2>1. f \in [0..N -> S] /\ f[0] = Nothing /\ \A i \in 1..N : f[i] = Nth[i][f[i - 1]]
    BY <1>3 DEF Solution
  <2>2. \A i \in 1..N : f[i - 1] \in S
    BY <1>0, <2>1
  <2>3. QED
    BY <1>2, <2>1, <2>2
<1> HIDE DEF Later
<1>5. latest = Walk(latest)
  <2>1. f = Walk(f)
    <3>1. \A i \in 0..N : i = 0 \/ i \in 1..N
      BY <1>0
    <3>2. QED
      BY <1>4, <3>1
  <2> HIDE DEF Walk
  <2>2. QED
    BY <2>1
<1> HIDE DEF latest
<1>6. \A i \in 0..N : latest[i] = f[i]
  <2>1. latest[0] = Nothing
    BY <1>0, <1>5
  <2>2. ASSUME NEW i \in 1..N, latest[i - 1] \in S PROVE latest[i] = Nth[i][latest[i - 1]]
    <3>1. i \in 0..N /\ i # 0
      BY <1>0
    <3>2. latest[i] = Later(i, latest[i - 1])
      BY <1>5, <3>1
    <3>3. QED
      BY <1>2, <2>2, <3>2
  <2>3. QED
    BY <1>3, <2>1, <2>2 DEF Solution
<1> DEFINE T == {i \in Nat : i <= N => NewestSoFar(a, i, f[i])}
<1>7. 0 \in T
  <2>1. \A k \in RowsOf(a) : k > 0
    BY <1>0 DEF RowsOf
  <2>2. QED
    BY <1>4, <2>1 DEF NewestSoFar
<1>8. ASSUME NEW i \in Nat, i \in T PROVE i + 1 \in T
  <2> SUFFICES ASSUME i + 1 <= N PROVE NewestSoFar(a, i + 1, f[i + 1])
    OBVIOUS
  <2>1. i + 1 \in 1..Len(history) /\ (i + 1) - 1 = i /\ NewestSoFar(a, i, f[i])
    BY <1>0, <1>8
  <2>2. NewestSoFar(a, i + 1, Later(i + 1, f[i]))
    BY <2>1, NewestGrows DEF Later
  <2>3. QED
    BY <1>4, <2>1, <2>2
<1>9. NewestSoFar(a, N, f[N])
  <2> HIDE DEF T
  <2>1. N \in T
    BY <1>0, <1>7, <1>8, SetInduction
  <2>2. QED
    BY <1>0, <2>1 DEF T
<1>10. LatestDecision(a) = latest[N]
  BY DEF LatestDecision, latest, Walk, Later
<1>11. QED
  BY <1>0, <1>6, <1>9, <1>10

\* The rows that stand before the row i of the app.
Ahead(a, i) == {k \in RowsOf(a) : Before(k, i)}

LEMMA AheadIsFinite ==
  ASSUME TypeOK, NEW a
  PROVE  /\ IsFiniteSet(RowsOf(a)) /\ Cardinality(RowsOf(a)) \in Nat
         /\ \A i : /\ Ahead(a, i) \subseteq RowsOf(a) /\ IsFiniteSet(Ahead(a, i))
                   /\ Cardinality(Ahead(a, i)) \in Nat
<1>1. IsFiniteSet(1..Len(history))
  BY HistoryRows, FS_Interval
<1>2. IsFiniteSet(RowsOf(a))
  BY <1>1, FS_Subset DEF RowsOf
<1>3. \A i : Ahead(a, i) \subseteq RowsOf(a)
  BY DEF Ahead
<1>4. \A i : IsFiniteSet(Ahead(a, i))
  BY <1>2, <1>3, FS_Subset
<1>5. QED
  BY <1>2, <1>3, <1>4, FS_CardinalityType

\* The row that stands before another has fewer before it.
LEMMA AheadOrders ==
  ASSUME TypeOK, NEW a, NEW i \in RowsOf(a), NEW k \in RowsOf(a), Before(i, k)
  PROVE  Cardinality(Ahead(a, i)) < Cardinality(Ahead(a, k))
<1>1. \A j \in RowsOf(a) : j \in 1..Len(history)
  BY DEF RowsOf
<1>2. Ahead(a, i) \subseteq Ahead(a, k)
  BY <1>1, BeforeIsAnOrder DEF Ahead
<1>3. i \in Ahead(a, k) /\ i \notin Ahead(a, i)
  BY <1>1, BeforeIsAnOrder DEF Ahead
<1>4. /\ Cardinality(Ahead(a, i)) <= Cardinality(Ahead(a, k))
      /\ Cardinality(Ahead(a, i)) # Cardinality(Ahead(a, k))
  BY <1>2, <1>3, AheadIsFinite, FS_Subset
<1>5. QED
  BY <1>4, AheadIsFinite, SMT

\* Each place of the list has a row.
LEMMA EveryPlaceIsTaken ==
  ASSUME TypeOK, NEW a, NEW j \in 1..Cardinality(RowsOf(a))
  PROVE  \E i \in RowsOf(a) : Cardinality(Ahead(a, i)) = j - 1
<1> DEFINE R == RowsOf(a)
           C == Cardinality(R)
           rank == [i \in R |-> Cardinality(Ahead(a, i))]
<1>0. IsFiniteSet(R) /\ C \in Nat /\ IsFiniteSet(0..(C - 1)) /\ Cardinality(0..(C - 1)) = C
  <2>1. IsFiniteSet(R) /\ C \in Nat
    BY AheadIsFinite
  <2> HIDE DEF C
  <2>2. /\ IsFiniteSet(0..(C - 1))
        /\ Cardinality(0..(C - 1)) = IF 0 > C - 1 THEN 0 ELSE C - 1 - 0 + 1
    BY <2>1, FS_Interval
  <2>3. QED
    BY <2>1, <2>2
<1>1. ASSUME NEW i \in R PROVE rank[i] \in 0..(C - 1)
  <2>1. i \in 1..Len(history)
    BY DEF RowsOf
  <2>2. i \notin Ahead(a, i)
    BY <2>1, BeforeIsAnOrder DEF Ahead
  <2>3. Cardinality(Ahead(a, i)) <= C /\ Cardinality(Ahead(a, i)) # C
    BY <1>0, <2>2, AheadIsFinite, FS_Subset
  <2>4. QED
    BY <1>0, <2>3, AheadIsFinite, SMT
<1>2. ASSUME NEW i \in R, NEW k \in R, rank[i] = rank[k] PROVE i = k
  <2>1. i # k => Before(i, k) \/ Before(k, i)
    BY BeforeIsAnOrder DEF RowsOf
  <2>2. Cardinality(Ahead(a, i)) = Cardinality(Ahead(a, k))
    BY <1>2
  <2>3. ~Before(i, k) /\ ~Before(k, i)
    BY <2>2, AheadOrders, AheadIsFinite, SMT
  <2>4. QED
    BY <2>1, <2>3
<1>3. rank \in Injection(R, 0..(C - 1))
  <2>1. rank \in [R -> 0..(C - 1)]
    BY <1>1
  <2> HIDE DEF rank
  <2>2. QED
    BY <1>2, <2>1 DEF Injection, IsInjective
<1>4. rank \in Surjection(R, 0..(C - 1))
  <2> HIDE DEF rank
  <2>1. QED
    BY <1>0, <1>3, FS_Injection
<1>5. j - 1 \in 0..(C - 1)
  BY <1>0
<1>6. PICK i \in R : rank[i] = j - 1
  <2> HIDE DEF rank
  <2>1. QED
    BY <1>4, <1>5 DEF Surjection
<1>7. QED
  BY <1>6

\* How many rows are shown: all there are, up to the limit, which is at least 1 and at most
\* 1000.
Shown(a, limit) == Min({Max({1, Min({limit, 1000})}), Cardinality(RowsOf(a))})

LEMMA ShownIs ==
  ASSUME TypeOK, NEW a, NEW limit \in Nat
  PROVE  /\ Shown(a, limit) \in 0..Cardinality(RowsOf(a))
         /\ Shown(a, limit) = 0 <=> RowsOf(a) = {}
<1>1. \A x, y \in Nat : /\ Min({x, y}) = IF x <= y THEN x ELSE y
                        /\ Max({x, y}) = IF x >= y THEN x ELSE y
  BY SMT DEF Min, Max
<1> DEFINE C == Cardinality(RowsOf(a))
           n == Max({1, Min({limit, 1000})})
<1>2. C \in Nat /\ (C = 0 <=> RowsOf(a) = {})
  BY AheadIsFinite, FS_EmptySet
<1>3. n \in Nat /\ n >= 1
  <2> DEFINE m == Min({limit, 1000})
  <2>1. m \in Nat
    BY <1>1
  <2>2. n = Max({1, m})
    OBVIOUS
  <2> HIDE DEF m, n
  <2>3. Max({1, m}) = IF 1 >= m THEN 1 ELSE m
    BY <1>1, <2>1
  <2>4. QED
    BY <2>1, <2>2, <2>3
<1>4. Shown(a, limit) = Min({n, C})
  BY DEF Shown
<1> HIDE DEF n, C
<1>5. Shown(a, limit) \in 0..C /\ (Shown(a, limit) = 0 <=> C = 0)
  BY <1>1, <1>2, <1>3, <1>4
<1>6. QED
  BY <1>2, <1>5 DEF C

\* The row at a place of the list.
RowAt(a, j) == CHOOSE i \in RowsOf(a) : Cardinality(Ahead(a, i)) = j - 1

LEMMA HistoryIs ==
  ASSUME TypeOK, NEW a, NEW limit \in Nat
  PROVE  /\ DecisionHistory(a, limit) = [j \in 1..Shown(a, limit) |-> history[RowAt(a, j)]]
         /\ DecisionHistory(a, limit) \in Seq(DecisionRows)
         /\ Len(DecisionHistory(a, limit)) = Shown(a, limit)
         /\ \A j \in 1..Cardinality(RowsOf(a)) :
              RowAt(a, j) \in RowsOf(a) /\ Cardinality(Ahead(a, RowAt(a, j))) = j - 1
<1>1. DecisionHistory(a, limit) = [j \in 1..Shown(a, limit) |-> history[RowAt(a, j)]]
  BY DEF DecisionHistory, Shown, RowAt, Ahead
<1>2. \A j \in 1..Cardinality(RowsOf(a)) :
        RowAt(a, j) \in RowsOf(a) /\ Cardinality(Ahead(a, RowAt(a, j))) = j - 1
  BY EveryPlaceIsTaken DEF RowAt
<1>3. Shown(a, limit) \in Nat /\ \A j \in 1..Shown(a, limit) : history[RowAt(a, j)] \in DecisionRows
  <2>1. Cardinality(RowsOf(a)) \in Nat /\ Shown(a, limit) \in 0..Cardinality(RowsOf(a))
    BY AheadIsFinite, ShownIs
  <2>2. \A j \in 1..Shown(a, limit) : j \in 1..Cardinality(RowsOf(a))
    BY <2>1
  <2>3. QED
    BY <1>2, <2>1, <2>2, HistoryRows DEF RowsOf
<1> DEFINE h == [j \in 1..Shown(a, limit) |-> history[RowAt(a, j)]]
<1>4. h \in Seq(DecisionRows) /\ Len(h) = Shown(a, limit)
  <2>1. h \in [1..Shown(a, limit) -> DecisionRows] /\ DOMAIN h = 1..Shown(a, limit)
    BY <1>3
  <2> HIDE DEF h
  <2>2. QED
    BY <1>3, <2>1, SMT
<1>5. QED
  BY <1>1, <1>2, <1>4

\* Of two rows of the app, the one with fewer before it stands before the other.
LEMMA RanksOrder ==
  ASSUME TypeOK, NEW a, NEW i \in RowsOf(a), NEW k \in RowsOf(a)
  PROVE  /\ Cardinality(Ahead(a, i)) < Cardinality(Ahead(a, k)) => Before(i, k)
         /\ Cardinality(Ahead(a, i)) = Cardinality(Ahead(a, k)) => i = k
<1>1. i # k => Before(i, k) \/ Before(k, i)
  BY BeforeIsAnOrder DEF RowsOf
<1>2. /\ Before(i, k) => Cardinality(Ahead(a, i)) < Cardinality(Ahead(a, k))
      /\ Before(k, i) => Cardinality(Ahead(a, k)) < Cardinality(Ahead(a, i))
  BY AheadOrders
<1>3. Cardinality(Ahead(a, i)) \in Nat /\ Cardinality(Ahead(a, k)) \in Nat
  BY AheadIsFinite
<1>4. QED
  BY <1>1, <1>2, <1>3, SMT

\* The row that stands before all others is the first of the list.
LEMMA FirstIsShownFirst ==
  ASSUME TypeOK, NEW a, NEW limit \in Nat, NEW i, First(a, i)
  PROVE  DecisionHistory(a, limit) # <<>> /\ Head(DecisionHistory(a, limit)) = history[i]
<1>1. i \in RowsOf(a) /\ Shown(a, limit) \in 1..Cardinality(RowsOf(a))
  <2>1. i \in RowsOf(a)
    BY DEF First
  <2>2. QED
    BY <2>1, ShownIs, AheadIsFinite, SMT
<1>2. Ahead(a, i) = {}
  <2>1. ASSUME NEW k \in RowsOf(a), Before(k, i) PROVE FALSE
    <3>1. k \in 1..Len(history) /\ i \in 1..Len(history)
      BY <1>1 DEF RowsOf
    <3>2. k = i \/ Before(i, k)
      BY DEF First
    <3>3. Before(i, i)
      BY <2>1, <3>1, <3>2, BeforeIsAnOrder
    <3>4. QED
      BY <3>1, <3>3, BeforeIsAnOrder
  <2>2. QED
    BY <2>1 DEF Ahead
<1>3. 1 \in 1..Cardinality(RowsOf(a)) /\ 1 \in 1..Shown(a, limit)
  BY <1>1, AheadIsFinite, SMT
<1>4. RowAt(a, 1) \in RowsOf(a) /\ Cardinality(Ahead(a, RowAt(a, 1))) = 0
  BY <1>3, HistoryIs
<1>5. RowAt(a, 1) = i
  BY <1>1, <1>2, <1>4, RanksOrder, FS_EmptySet
<1>6. DecisionHistory(a, limit)[1] = history[i] /\ Len(DecisionHistory(a, limit)) > 0
  BY <1>1, <1>3, <1>5, HistoryIs, SMT
<1>7. DecisionHistory(a, limit) \in Seq(DecisionRows)
  BY HistoryIs
<1>8. QED
  BY <1>6, <1>7, SMT

\* Whatever the limit, the overview shows the first row of the history.
LEMMA OverviewAgrees ==
  ASSUME TypeOK, NEW a, NEW limit \in Nat
  PROVE  LatestDecision(a) = IF DecisionHistory(a, limit) = <<>> THEN Nothing
                             ELSE Head(DecisionHistory(a, limit))
<1>1. \A k \in RowsOf(a) : k \in Nat /\ k <= Len(history)
  BY HistoryRows DEF RowsOf
<1>2. NewestSoFar(a, Len(history), LatestDecision(a))
  BY LatestIsNewest
<1>3. CASE LatestDecision(a) = Nothing /\ \A k \in RowsOf(a) : k > Len(history)
  <2>1. RowsOf(a) = {}
    BY <1>1, <1>3, HistoryRows
  <2>2. Len(DecisionHistory(a, limit)) = 0 /\ DecisionHistory(a, limit) \in Seq(DecisionRows)
    BY <2>1, HistoryIs, ShownIs
  <2>3. DecisionHistory(a, limit) = <<>>
    BY <2>2, SMT
  <2>4. QED
    BY <1>3, <2>3
<1>4. CASE \E j \in RowsOf(a) :
             /\ j <= Len(history) /\ LatestDecision(a) = history[j]
             /\ \A k \in RowsOf(a) : k <= Len(history) /\ k # j => Before(j, k)
  <2>1. PICK j \in RowsOf(a) :
               /\ LatestDecision(a) = history[j]
               /\ \A k \in RowsOf(a) : k <= Len(history) /\ k # j => Before(j, k)
    BY <1>4
  <2>2. First(a, j)
    BY <1>1, <2>1 DEF First
  <2>3. QED
    BY <2>1, <2>2, FirstIsShownFirst
<1>5. QED
  BY <1>2, <1>3, <1>4 DEF NewestSoFar

\* GET overview and GET history never contradict each other: the overview shows the first row
\* of the history (get_health_overview and get_decision_history), in whatever order of their
\* times the agents' rows were appended.
THEOREM ViewsAgree == Spec => []OverviewAgreesWithHistory
<1>1. RegistryIInv => OverviewAgreesWithHistory
  <2>1. 0 \in Nat /\ 200 \in Nat
    OBVIOUS
  <2>2. QED
    BY <2>1, OverviewAgrees DEF RegistryIInv, OverviewAgreesWithHistory
<1>2. QED
  BY <1>1, RegistryIsInductive, PTL

\* What a request with a limit is shown of an app: distinct rows of it, as many as there are
\* up to the limit, newest first and in the order of the file at the same time; and none of
\* those it is not shown belongs before one that it is shown.
NewestAreShown(a, limit) ==
  LET answer == DecisionHistory(a, limit)
  IN /\ Len(answer) = Shown(a, limit)
     /\ \E row \in [1..Len(answer) -> RowsOf(a)] :
          /\ \A j \in 1..Len(answer) : answer[j] = history[row[j]]
          /\ \A j, k \in 1..Len(answer) : j < k => Before(row[j], row[k])
          /\ \A i \in RowsOf(a) : \/ \E j \in 1..Len(answer) : row[j] = i
                                  \/ \A j \in 1..Len(answer) : Before(row[j], i)

LEMMA NewestAreShownHolds ==
  ASSUME TypeOK, NEW a, NEW limit \in Nat
  PROVE  NewestAreShown(a, limit)
<1> DEFINE answer == DecisionHistory(a, limit)
           n == Shown(a, limit)
           C == Cardinality(RowsOf(a))
           row == [j \in 1..n |-> RowAt(a, j)]
<1>1. /\ Len(answer) = n /\ n \in Nat /\ C \in Nat /\ n <= C
      /\ \A j \in 1..n : answer[j] = history[RowAt(a, j)]
      /\ \A j \in 1..C : RowAt(a, j) \in RowsOf(a) /\ Cardinality(Ahead(a, RowAt(a, j))) = j - 1
  <2>1. C \in Nat /\ n \in 0..C
    BY AheadIsFinite, ShownIs
  <2>2. QED
    BY <2>1, HistoryIs
<1> HIDE DEF answer, n, C
<1>2. \A j \in 1..n : j \in 1..C
  BY <1>1
<1>3. row \in [1..n -> RowsOf(a)] /\ \A j \in 1..n : row[j] = RowAt(a, j)
  BY <1>1, <1>2
<1>4. \A j, k \in 1..n : j < k => Before(row[j], row[k])
  <2> SUFFICES ASSUME NEW j \in 1..n, NEW k \in 1..n, j < k PROVE Before(row[j], row[k])
    OBVIOUS
  <2>1. /\ RowAt(a, j) \in RowsOf(a) /\ Cardinality(Ahead(a, RowAt(a, j))) = j - 1
        /\ RowAt(a, k) \in RowsOf(a) /\ Cardinality(Ahead(a, RowAt(a, k))) = k - 1
    BY <1>1, <1>2
  <2>2. j - 1 < k - 1
    OBVIOUS
  <2>3. Before(RowAt(a, j), RowAt(a, k))
    BY <2>1, <2>2, RanksOrder
  <2>4. QED
    BY <1>3, <2>3
<1>5. ASSUME NEW i \in RowsOf(a), ~\E j \in 1..n : row[j] = i
      PROVE  \A j \in 1..n : Before(row[j], i)
  <2> SUFFICES ASSUME NEW j \in 1..n PROVE Before(row[j], i)
    OBVIOUS
  <2> DEFINE r == Cardinality(Ahead(a, i))
  <2>1. r \in Nat
    BY AheadIsFinite
  <2>2. r + 1 \notin 1..n
    <3>1. SUFFICES ASSUME r + 1 \in 1..n PROVE FALSE
      OBVIOUS
    <3>2. RowAt(a, r + 1) \in RowsOf(a) /\ Cardinality(Ahead(a, RowAt(a, r + 1))) = (r + 1) - 1
      BY <1>1, <1>2, <3>1
    <3>3. Cardinality(Ahead(a, RowAt(a, r + 1))) = Cardinality(Ahead(a, i))
      BY <2>1, <3>2
    <3>4. RowAt(a, r + 1) = i
      BY <3>2, <3>3, RanksOrder
    <3>5. QED
      BY <1>3, <1>5, <3>1, <3>4
  <2>3. RowAt(a, j) \in RowsOf(a) /\ Cardinality(Ahead(a, RowAt(a, j))) = j - 1
    BY <1>1, <1>2
  <2>4. j - 1 < r
    <3> HIDE DEF r
    <3>1. QED
      BY <1>1, <2>1, <2>2
  <2>5. QED
    BY <1>3, <2>3, <2>4, RanksOrder
<1> HIDE DEF row
<1>6. QED
  BY <1>1, <1>3, <1>4, <1>5 DEF NewestAreShown, answer, n

\* get_decision_history returns the newest rows of an app, sorted, for any limit.
THEOREM HistoryShowsTheNewest ==
  Spec => [](\A a \in Apps, limit \in Nat : NewestAreShown(a, limit))
<1>1. RegistryIInv => \A a \in Apps, limit \in Nat : NewestAreShown(a, limit)
  BY NewestAreShownHolds DEF RegistryIInv
<1>2. QED
  BY <1>1, RegistryIsInductive, PTL

--------------------------------------------------------------------------------
(* Perception.                                                                   *)

\* What the monitor knows of the last row at each point of a change of status.
MonitorInv ==
  /\ monitor.do \in {"ready", "emit", "write"} => last = InitialStatus(timeline)
  /\ monitor.do \in {"emit", "write"} => monitor.status # InitialStatus(timeline)
  /\ monitor.do = "assign" => timeline # <<>> /\ monitor.status = InitialStatus(timeline)

\* The rows had their events, in their order, among the first n that were emitted; before a
\* row is written, its own event is behind those.
HadAmong(n) ==
  \E at \in [DOMAIN timeline -> 1..n] :
    \A i, j \in DOMAIN timeline :
      timeline[i] = emitted[at[i]] /\ (i < j => at[i] < at[j])
EventsInv ==
  IF monitor.do = "write"
  THEN Len(emitted) > 0 /\ emitted[Len(emitted)] = monitor.status /\ HadAmong(Len(emitted) - 1)
  ELSE HadAmong(Len(emitted))

SenseIInv ==
  /\ SenseTypeOK
  /\ OnlyHalfLinesAreSkipped /\ NothingBehindARaise
  /\ \A i \in 1..Len(timeline) - 1 : timeline[i] # timeline[i + 1]
  /\ MonitorInv /\ EventsInv

LEMMA SenseInitIInv == SenseInit => SenseIInv
<1> SUFFICES ASSUME SenseInit PROVE SenseIInv
  OBVIOUS
<1>1. /\ timeline \in Seq({"UP", "DOWN"}) /\ emitted = timeline
      /\ \A i \in 1..Len(timeline) - 1 : timeline[i] # timeline[i + 1]
  BY PerceptionAssumption DEF SenseInit
<1>2. last \in {"UP", "DOWN", "none"}
  <2>1. CASE timeline = <<>>
    BY <2>1 DEF SenseInit, InitialStatus
  <2>2. CASE timeline # <<>>
    BY <2>2, <1>1 DEF SenseInit, InitialStatus, Last
  <2>3. QED
    BY <2>1, <2>2
<1>3. SenseTypeOK
  <2>1. monitor = [do |-> "emit", status |-> "UP"] \/ monitor = [do |-> "ready", status |-> "UP"]
    BY Zenon DEF SenseInit, Constructed, MonitorReady
  <2>2. alerts \in 0..MaxAlerts /\ starts \in 1..MaxStarts
    BY PerceptionAssumption DEF SenseInit
  <2>3. monitor \in [do : {"ready", "emit", "write", "assign", "failed"},
                    status : {"UP", "DOWN"}]
    BY <2>1
  <2>4. processed = {} /\ met_half = {} /\ requests = <<>> /\ half = FALSE
    BY DEF SenseInit
  <2>5. requests \in Seq(LineKinds)
    BY <2>4
  <2>6. QED
    BY <1>1, <1>2, <2>2, <2>3, <2>4, <2>5 DEF SenseInit, SenseTypeOK
<1>4. MonitorInv
  BY <1>1 DEF SenseInit, MonitorInv, Constructed, MonitorReady, InitialStatus
<1>5. EventsInv
  <2>1. monitor.do # "write"
    BY DEF SenseInit, Constructed, MonitorReady
  <2>2. [i \in DOMAIN timeline |-> i] \in [DOMAIN timeline -> 1..Len(emitted)]
    BY <1>1
  <2>3. HadAmong(Len(emitted))
    BY <1>1, <2>2 DEF HadAmong
  <2>4. QED
    BY <2>1, <2>3 DEF EventsInv
<1>6. QED
  BY <1>1, <1>3, <1>4, <1>5
    DEF SenseIInv, SenseInit, OnlyHalfLinesAreSkipped, NothingBehindARaise

\* Steps of the adapters and of those who write the requests leave the timeline alone.
LEMMA TimelineKept ==
  ASSUME SenseIInv, UNCHANGED uptime
  PROVE  /\ \A i \in 1..Len(timeline') - 1 : timeline'[i] # timeline'[i + 1]
         /\ MonitorInv' /\ EventsInv'
  BY DEF SenseIInv, uptime, MonitorInv, EventsInv, HadAmong, InitialStatus

\* And steps of the monitor leave the requests alone.
LEMMA RequestsKept ==
  ASSUME SenseIInv, UNCHANGED <<onboarding, alerts, perceived, process>>
  PROVE  /\ OnlyHalfLinesAreSkipped' /\ NothingBehindARaise'
         /\ requests' \in Seq(LineKinds) /\ half' \in BOOLEAN
         /\ processed' \subseteq DOMAIN requests' /\ met_half' \subseteq processed'
         /\ alerts' \in 0..MaxAlerts /\ perceived' = {}
         /\ program' \in Programs /\ starts' \in 1..MaxStarts
  BY DEF SenseIInv, SenseTypeOK, onboarding, process, OnlyHalfLinesAreSkipped,
         NothingBehindARaise

LEMMA PerceiveStep == SenseIInv /\ Perceive => SenseIInv'
<1> SUFFICES ASSUME SenseIInv, Perceive PROVE SenseIInv'
  OBVIOUS
<1>1. SenseTypeOK'
  BY PerceptionAssumption
    DEF SenseIInv, SenseTypeOK, Perceive, PassOver, New, AlertsLeft, Made, uptime, process
<1>2. \A i \in processed' : requests'[i] \in Raising => i \in met_half'
  BY DEF SenseIInv, OnlyHalfLinesAreSkipped, Perceive, PassOver, New, Reads, SenseTypeOK
<1>3. ASSUME NEW i \in processed', NEW j \in 1..i, requests'[j] \in Raising
      PROVE  j \in met_half'
  <2>1. CASE i \in processed
    BY <1>3, <2>1 DEF SenseIInv, NothingBehindARaise, Perceive
  <2>2. CASE i \in PassOver
    <3>1. CASE j \in processed
      BY <1>3, <3>1 DEF SenseIInv, OnlyHalfLinesAreSkipped, Perceive
    <3>2. CASE j \notin processed
      <4>1. j \in New /\ i \in DOMAIN requests
        BY <2>2, <3>2 DEF PassOver, New, SenseIInv, SenseTypeOK
      <4>2. Reads(j) \notin Raising
        BY <2>2, <4>1 DEF PassOver
      <4>3. half /\ j = Len(requests) /\ requests \in Seq(LineKinds)
        BY <1>3, <4>2 DEF Reads, Perceive, SenseIInv, SenseTypeOK
      <4>4. j = i
        BY <4>1, <4>3
      <4>5. QED
        BY <2>2, <4>3, <4>4 DEF Perceive
    <3>3. QED
      BY <3>1, <3>2
  <2>3. QED
    BY <2>1, <2>2 DEF Perceive
<1>4. QED
  BY <1>1, <1>2, <1>3, TimelineKept
    DEF SenseIInv, OnlyHalfLinesAreSkipped, NothingBehindARaise, Perceive

LEMMA LineSteps ==
  ASSUME SenseIInv, AddAlert \/ AppendLine \/ CompleteLine
  PROVE  SenseIInv'
<1>1. UNCHANGED <<uptime, process, processed, met_half, perceived>>
  BY DEF AddAlert, AppendLine, CompleteLine, onboarding
<1>2. /\ requests' \in Seq(LineKinds) /\ half' \in BOOLEAN
      /\ DOMAIN requests \subseteq DOMAIN requests'
      /\ \A i \in DOMAIN requests : requests'[i] = requests[i]
  <2>1. requests \in Seq(LineKinds) /\ half \in BOOLEAN
    BY DEF SenseIInv, SenseTypeOK
  <2>2. CASE AppendLine
    <3>1. PICK kind \in LineKinds : requests' = Append(requests, kind)
      BY <2>2 DEF AppendLine
    <3>2. half' \in BOOLEAN
      BY <2>2, Zenon DEF AppendLine
    <3>3. QED
      BY <2>1, <3>1, <3>2
  <2>3. CASE AddAlert \/ CompleteLine
    BY <2>1, <2>3 DEF AddAlert, CompleteLine, onboarding
  <2>4. QED
    BY <2>2, <2>3
<1>3. alerts' \in 0..MaxAlerts
  <2>1. alerts \in 0..MaxAlerts
    BY DEF SenseIInv, SenseTypeOK
  <2>2. CASE AddAlert
    BY <2>1, <2>2, PerceptionAssumption DEF AddAlert
  <2>3. CASE AppendLine \/ CompleteLine
    BY <2>1, <2>3 DEF AppendLine, CompleteLine
  <2>4. QED
    BY <2>2, <2>3
<1>4. SenseTypeOK'
  BY <1>1, <1>2, <1>3 DEF SenseIInv, SenseTypeOK, uptime, process
<1>5. OnlyHalfLinesAreSkipped'
  BY <1>1, <1>2 DEF SenseIInv, SenseTypeOK, OnlyHalfLinesAreSkipped
<1>6. NothingBehindARaise'
  <2> SUFFICES ASSUME NEW i \in processed, NEW j \in 1..i, requests'[j] \in Raising
               PROVE  j \in met_half
    BY <1>1 DEF NothingBehindARaise
  <2>1. j \in DOMAIN requests
    BY DEF SenseIInv, SenseTypeOK
  <2>2. QED
    BY <1>2, <2>1 DEF SenseIInv, NothingBehindARaise
<1>7. QED
  BY <1>1, <1>4, <1>5, <1>6, TimelineKept DEF SenseIInv

LEMMA UpdateStatusStep ==
  ASSUME SenseIInv, NEW status \in {"UP", "DOWN"}, UpdateStatus(status)
  PROVE  SenseIInv'
<1>1. /\ monitor' = [do |-> "emit", status |-> status] /\ monitor.do = "ready"
      /\ UNCHANGED <<onboarding, alerts, perceived, timeline, last, emitted, process>>
      /\ status # last
  BY DEF UpdateStatus
<1>2. SenseTypeOK'
  BY <1>1, RequestsKept DEF SenseIInv, SenseTypeOK
<1>3. MonitorInv' /\ EventsInv'
  BY <1>1 DEF SenseIInv, MonitorInv, EventsInv, HadAmong, InitialStatus
<1>4. QED
  BY <1>1, <1>2, <1>3, RequestsKept DEF SenseIInv

LEMMA EmitStatusStep == SenseIInv /\ EmitStatus => SenseIInv'
<1> SUFFICES ASSUME SenseIInv, EmitStatus PROVE SenseIInv'
  OBVIOUS
<1>1. /\ monitor.do = "emit" /\ emitted' = Append(emitted, monitor.status)
      /\ monitor' = [monitor EXCEPT !.do = "write"]
      /\ UNCHANGED <<onboarding, alerts, perceived, timeline, last, process>>
  BY DEF EmitStatus
<1>2. /\ emitted \in Seq({"UP", "DOWN"}) /\ timeline \in Seq({"UP", "DOWN"})
      /\ monitor \in [do : {"ready", "emit", "write", "assign", "failed"},
                      status : {"UP", "DOWN"}]
  BY DEF SenseIInv, SenseTypeOK
<1>3. monitor'.do = "write" /\ monitor'.status = monitor.status
  BY <1>1, <1>2
<1>4. /\ emitted' \in Seq({"UP", "DOWN"}) /\ Len(emitted') = Len(emitted) + 1
      /\ emitted'[Len(emitted')] = monitor.status
      /\ \A i \in 1..Len(emitted) : emitted'[i] = emitted[i]
  BY <1>1, <1>2
<1>5. SenseTypeOK'
  BY <1>1, <1>2, <1>4, RequestsKept DEF SenseIInv, SenseTypeOK
<1>6. MonitorInv'
  BY <1>1, <1>2, <1>3 DEF SenseIInv, MonitorInv, InitialStatus
<1>7. HadAmong(Len(emitted))
  BY <1>1 DEF SenseIInv, EventsInv
<1>8. PICK at \in [DOMAIN timeline -> 1..Len(emitted)] :
        \A i, j \in DOMAIN timeline :
          timeline[i] = emitted[at[i]] /\ (i < j => at[i] < at[j])
  BY <1>7 DEF HadAmong
<1>9. at \in [DOMAIN timeline' -> 1..Len(emitted') - 1]
  BY <1>1, <1>2, <1>4
<1>10. \A i, j \in DOMAIN timeline' :
         timeline'[i] = emitted'[at[i]] /\ (i < j => at[i] < at[j])
  BY <1>1, <1>4, <1>8
<1>11. EventsInv'
  <2>1. HadAmong(Len(emitted) - 1)'
    BY <1>9, <1>10 DEF HadAmong
  <2>2. Len(emitted') > 0
    BY <1>2, <1>4
  <2>3. QED
    BY <1>3, <1>4, <2>1, <2>2 DEF EventsInv
<1>12. QED
  BY <1>1, <1>5, <1>6, <1>11, RequestsKept DEF SenseIInv

LEMMA EmitRaisesStep == SenseIInv /\ EmitRaises => SenseIInv'
<1> SUFFICES ASSUME SenseIInv, EmitRaises PROVE SenseIInv'
  OBVIOUS
<1>1. /\ monitor.do = "emit" /\ monitor' = [MonitorReady EXCEPT !.do = "failed"]
      /\ UNCHANGED <<onboarding, alerts, perceived, timeline, last, emitted, process>>
  BY DEF EmitRaises
<1>2. SenseTypeOK'
  BY <1>1, RequestsKept DEF SenseIInv, SenseTypeOK, MonitorReady
<1>3. MonitorInv' /\ EventsInv'
  BY <1>1 DEF SenseIInv, MonitorInv, EventsInv, HadAmong, InitialStatus, MonitorReady
<1>4. QED
  BY <1>1, <1>2, <1>3, RequestsKept DEF SenseIInv

\* The event of the row was emitted behind those of the rows before.
LEMMA WriteStatusStep == SenseIInv /\ WriteStatus => SenseIInv'
<1> SUFFICES ASSUME SenseIInv, WriteStatus PROVE SenseIInv'
  OBVIOUS
<1>1. /\ monitor.do = "write" /\ timeline' = Append(timeline, monitor.status)
      /\ monitor' = [monitor EXCEPT !.do = "assign"]
      /\ UNCHANGED <<onboarding, alerts, perceived, last, emitted, process>>
  BY DEF WriteStatus
<1>2. /\ emitted \in Seq({"UP", "DOWN"}) /\ timeline \in Seq({"UP", "DOWN"})
      /\ monitor \in [do : {"ready", "emit", "write", "assign", "failed"},
                      status : {"UP", "DOWN"}]
  BY DEF SenseIInv, SenseTypeOK
<1>3. monitor'.do = "assign" /\ monitor'.status = monitor.status
  BY <1>1, <1>2
<1> DEFINE n == Len(timeline) + 1
<1>4. /\ timeline' \in Seq({"UP", "DOWN"}) /\ Len(timeline') = n
      /\ timeline'[n] = monitor.status /\ n \in Nat \ {0}
      /\ \A i \in 1..Len(timeline) : timeline'[i] = timeline[i]
  BY <1>1, <1>2
<1>5. SenseTypeOK'
  BY <1>1, <1>2, <1>4, RequestsKept DEF SenseIInv, SenseTypeOK
<1>6. MonitorInv'
  BY <1>3, <1>4 DEF MonitorInv, InitialStatus, Last
<1>7. ASSUME NEW i \in 1..Len(timeline') - 1 PROVE timeline'[i] # timeline'[i + 1]
  <2>1. CASE i < Len(timeline)
    BY <2>1, <1>2, <1>4 DEF SenseIInv
  <2>2. CASE i = Len(timeline)
    BY <2>2, <1>1, <1>2, <1>4 DEF SenseIInv, MonitorInv, InitialStatus, Last
  <2>3. QED
    BY <1>2, <1>4, <2>1, <2>2
<1>8. /\ Len(emitted) > 0 /\ emitted[Len(emitted)] = monitor.status
      /\ HadAmong(Len(emitted) - 1)
  BY <1>1 DEF SenseIInv, EventsInv
<1>9. PICK at \in [DOMAIN timeline -> 1..Len(emitted) - 1] :
        \A i, j \in DOMAIN timeline :
          timeline[i] = emitted[at[i]] /\ (i < j => at[i] < at[j])
  BY <1>8 DEF HadAmong
<1> DEFINE new == [i \in DOMAIN timeline' |-> IF i = n THEN Len(emitted) ELSE at[i]]
<1>10. DOMAIN timeline' = 1..n /\ DOMAIN timeline = 1..Len(timeline) /\ emitted' = emitted
  BY <1>1, <1>2, <1>4
<1>11. new \in [DOMAIN timeline' -> 1..Len(emitted')]
  BY <1>2, <1>4, <1>8, <1>10
<1>12. ASSUME NEW i \in DOMAIN timeline', NEW j \in DOMAIN timeline'
       PROVE  timeline'[i] = emitted'[new[i]] /\ (i < j => new[i] < new[j])
  <2>1. timeline'[i] = emitted'[new[i]]
    BY <1>4, <1>8, <1>9, <1>10
  <2>2. ASSUME i < j PROVE new[i] < new[j]
    <3>1. i \in DOMAIN timeline /\ new[i] = at[i]
      BY <2>2, <1>2, <1>10
    <3>2. CASE j = n
      BY <3>1, <3>2, <1>2, <1>9
    <3>3. CASE j # n
      BY <2>2, <3>1, <3>3, <1>2, <1>9, <1>10
    <3>4. QED
      BY <3>2, <3>3
  <2>3. QED
    BY <2>1, <2>2
<1>13. HadAmong(Len(emitted))'
  BY <1>11, <1>12 DEF HadAmong
<1>14. EventsInv'
  BY <1>3, <1>13 DEF EventsInv
<1>15. QED
  BY <1>1, <1>5, <1>6, <1>7, <1>14, RequestsKept DEF SenseIInv

LEMMA AssignStatusStep == SenseIInv /\ AssignStatus => SenseIInv'
<1> SUFFICES ASSUME SenseIInv, AssignStatus PROVE SenseIInv'
  OBVIOUS
<1>1. /\ monitor.do = "assign" /\ last' = monitor.status /\ monitor' = MonitorReady
      /\ UNCHANGED <<onboarding, alerts, perceived, timeline, emitted, process>>
  BY DEF AssignStatus
<1>2. SenseTypeOK'
  BY <1>1, RequestsKept DEF SenseIInv, SenseTypeOK, MonitorReady
<1>3. MonitorInv' /\ EventsInv'
  BY <1>1 DEF SenseIInv, MonitorInv, EventsInv, HadAmong, InitialStatus, MonitorReady
<1>4. QED
  BY <1>1, <1>2, <1>3, RequestsKept DEF SenseIInv

\* A monitor that starts on a timeline compares with its last row.
LEMMA StartAgainStep == SenseIInv /\ StartAgain => SenseIInv'
<1> SUFFICES ASSUME SenseIInv, StartAgain PROVE SenseIInv'
  OBVIOUS
<1>1. /\ processed' = {} /\ met_half' = {} /\ alerts' = 0 /\ perceived' = {}
      /\ starts < MaxStarts /\ starts' = starts + 1 /\ program' \in Programs
      /\ last' = InitialStatus(timeline) /\ monitor' = Constructed(timeline)
      /\ UNCHANGED <<requests, half, timeline, emitted>>
  BY DEF StartAgain
<1>2. timeline \in Seq({"UP", "DOWN"}) /\ emitted \in Seq({"UP", "DOWN"})
  BY DEF SenseIInv, SenseTypeOK
<1>3. last' \in {"UP", "DOWN", "none"}
  <2>1. CASE timeline = <<>>
    BY <2>1, <1>1 DEF InitialStatus
  <2>2. CASE timeline # <<>>
    BY <2>2, <1>1, <1>2 DEF InitialStatus, Last
  <2>3. QED
    BY <2>1, <2>2
<1>4. SenseTypeOK'
  BY <1>1, <1>2, <1>3, PerceptionAssumption
    DEF SenseIInv, SenseTypeOK, Constructed, MonitorReady
<1>5. MonitorInv'
  BY <1>1, <1>2 DEF MonitorInv, Constructed, MonitorReady, InitialStatus
<1>6. HadAmong(Len(emitted))
  <2>1. CASE monitor.do # "write"
    BY <2>1 DEF SenseIInv, EventsInv
  <2>2. CASE monitor.do = "write"
    <3>1. HadAmong(Len(emitted) - 1)
      BY <2>2 DEF SenseIInv, EventsInv
    <3>2. 1..Len(emitted) - 1 \subseteq 1..Len(emitted)
      BY <1>2
    <3>3. QED
      BY <3>1, <3>2 DEF HadAmong
  <2>3. QED
    BY <2>1, <2>2
<1>7. EventsInv'
  BY <1>1, <1>6 DEF EventsInv, HadAmong, Constructed, MonitorReady
<1>8. QED
  BY <1>1, <1>4, <1>5, <1>7
    DEF SenseIInv, OnlyHalfLinesAreSkipped, NothingBehindARaise

LEMMA SenseStepIInv == SenseIInv /\ [SenseNext]_senseVars => SenseIInv'
<1> SUFFICES ASSUME SenseIInv, [SenseNext]_senseVars PROVE SenseIInv'
  OBVIOUS
<1>1. CASE UNCHANGED senseVars
  <2>1. UNCHANGED <<onboarding, alerts, perceived, uptime, process>>
    BY <1>1 DEF senseVars
  <2>2. SenseTypeOK'
    BY <2>1, RequestsKept DEF SenseIInv, SenseTypeOK, uptime
  <2>3. QED
    BY <2>1, <2>2, RequestsKept, TimelineKept DEF SenseIInv
<1>2. CASE SenseNext
  BY <1>2, PerceiveStep, LineSteps, UpdateStatusStep, EmitStatusStep, EmitRaisesStep,
     WriteStatusStep, AssignStatusStep, StartAgainStep
    DEF SenseNext, MonitorStep
<1>3. QED
  BY <1>1, <1>2

\* What the adapters have passed over (perceive) and what the uptime monitor has written
\* (update_status, _get_initial_status): half lines are all that is skipped for good, and
\* whatever emissions fail and processes are killed, the timeline tells changes, each of
\* which had its event before.
THEOREM PerceptionStaysSound == SenseSpec => []PerceptionIsSound
<1>1. SenseIInv => PerceptionIsSound
  <2> SUFFICES ASSUME SenseIInv PROVE PerceptionIsSound
    OBVIOUS
  <2>1. TimelineTellsChanges
    BY DEF SenseIInv, MonitorInv, TimelineTellsChanges
  <2>2. emitted \in Seq({"UP", "DOWN"})
    BY DEF SenseIInv, SenseTypeOK
  <2>3. \E n \in {Len(emitted), Len(emitted) - 1} : HadAmong(n)
    BY DEF SenseIInv, EventsInv
  <2>4. \A n \in {Len(emitted), Len(emitted) - 1} : 1..n \subseteq DOMAIN emitted
    BY <2>2
  <2>5. RowsHadTheirEvents
    BY <2>3, <2>4 DEF HadAmong, RowsHadTheirEvents
  <2>6. QED
    BY <2>1, <2>5 DEF SenseIInv, PerceptionIsSound
<1>2. QED
  BY <1>1, SenseInitIInv, SenseStepIInv, PTL DEF SenseSpec

--------------------------------------------------------------------------------
(* Healing.                                                                      *)

RunPoints == {"new", "backup", "copy", "read", "open", "write", "detect", "deploy", "again",
              "report", "heal", "restore", "restoring", "redeploy", "learn", "recover", "save",
              "saving", "end", "ended", "died"}
NotUnder == {"new", "ended", "died"}
BeforeReading == {"backup", "copy", "read"}
AfterWriting == {"detect", "deploy", "again", "report", "heal", "restore"}
WhileHealing == {"heal", "restore", "restoring", "redeploy", "learn", "recover"}
Datasets == Seq(Sims) \cup {Emptied}

RunRec ==
  [pc : RunPoints, forced : BOOLEAN, rl : BOOLEAN, rows : Seq(Sims), table : Tables,
   deployed : {"success", "failure"}, found : {"anomaly", "deployment_failure", "no_failure"},
   strategy : Strategies \cup {"none"}, status : {"success", "failure", "refused", "none"},
   last : {"UP", "DOWN"}, alone : BOOLEAN, before : Datasets]

HealTypes ==
  /\ where.env \in {"dev", "stage", "prod"}
  /\ data \in Datasets /\ backup \in Datasets \cup {Nobodys}
  /\ qtable \in Tables \cup {Emptied, Nobodys} /\ learned \in Tables
  /\ shown \in {"UP", "DOWN"} /\ ruined \in BOOLEAN
  /\ killed \in 0..MaxSimKills /\ raised \in 0..MaxRaises
  /\ sim \in [Sims -> RunRec]

\* Of two runs under way neither is alone.
AloneInv ==
  \A s, u \in Sims : s # u /\ Under(s) /\ Under(u) => ~sim[s].alone

\* There is a backup once a run has begun to make it.
BackupInv ==
  \A s \in Sims : Under(s) /\ sim[s].pc # "backup" => backup # Nobodys

\* After a restore: the dataset is as it was, or the restore is known to have failed.
RestoredOrFailed(s, r) ==
  \/ data = r.before
  \/ r.status = "failure" /\ data \in {WithRowsOf(s, r.before), Emptied}

\* What a run that is alone finds in the files: the dataset as it was when it started, until
\* it writes it, and then that with its rows; what it was in the backup, from its copy on;
\* and in its table all that was learned.
RunFits(s, r) ==
  r.alone /\ r.pc \notin NotUnder =>
    /\ r.pc \in {"backup", "copy", "read", "open"} => data = r.before
    /\ r.pc = "copy" => backup = Emptied
    /\ r.pc \notin {"backup", "copy"} => backup = r.before
    /\ r.pc \notin BeforeReading => r.before \in Seq(Sims)
    /\ r.pc \in {"open", "write"} => r.rows = r.before
    /\ r.pc \in {"write", "restoring"} => data = Emptied
    /\ r.pc \in AfterWriting => data = WithRowsOf(s, r.before)
    /\ r.pc \in {"redeploy", "learn", "recover"} /\ r.strategy = "restore_previous_version"
         /\ r.status # "refused" => RestoredOrFailed(s, r)
    /\ r.pc \in {"restore", "restoring", "redeploy"} => r.status = "none"
    /\ r.pc = "saving" => qtable = Emptied
    /\ r.rl => r.table \ {s} = learned \ {s}
AloneRunsFit == \A s \in Sims : RunFits(s, sim[s])

\* In a ruined dataset no run gets further than reading it.
RuinInv ==
  ruined => data = Emptied /\ \A s \in Sims : Under(s) => sim[s].pc \in BeforeReading

\* The file of the table: what was last written, unless it is being written or was cut off.
TableInv ==
  /\ qtable = Nobodys => learned = {}
  /\ qtable = Emptied => learned = {} \/ \E s \in Sims : sim[s].pc = "saving"
  /\ qtable \notin {Nobodys, Emptied} => learned = qtable

\* Without exceptions and refusals a run that reports DOWN is going to report UP.
StatusInv ==
  killed = 0 /\ raised = 0 /\ where.env # "prod" =>
    /\ \A s \in Sims : sim[s].pc \in WhileHealing => sim[s].last = "DOWN"
    /\ \A s \in Sims : sim[s].pc \in {"learn", "recover"} => sim[s].status = "success"
    /\ shown = "DOWN" => \E s \in Sims : sim[s].pc \in WhileHealing

HealIInv ==
  /\ HealTypes /\ AloneInv /\ BackupInv /\ AloneRunsFit /\ RuinInv /\ TableInv /\ StatusInv

-----------------------------------------------------------------------------

LEMMA OverlaidFile ==
  /\ \A old \in Datasets, new \in Seq(Sims) : Overlaid(old, new) \subseteq Seq(Sims)
  /\ \A new \in Seq(Sims) : Overlaid(Emptied, new) = {new}
<1>1. ASSUME NEW old \in Datasets, NEW new \in Seq(Sims)
      PROVE  Overlaid(old, new) \subseteq Seq(Sims)
  <2>1. CASE old \in {Emptied, Nobodys} \/ old = <<>>
    BY <2>1 DEF Overlaid
  <2>2. CASE ~(old \in {Emptied, Nobodys} \/ old = <<>>)
    <3>1. old \in Seq(Sims) /\ old # <<>>
      BY <2>2 DEF Datasets
    <3>2. old[Len(old)] \in Sims
      BY <3>1
    <3>3. Append(new, old[Len(old)]) \in Seq(Sims)
      BY <3>2
    <3>4. QED
      BY <2>2, <3>3 DEF Overlaid
  <2>3. QED
    BY <2>1, <2>2
<1>2. QED
  BY <1>1 DEF Overlaid

LEMMA HealInitIInv == HealInit => HealIInv
<1> SUFFICES ASSUME HealInit PROVE HealIInv
  OBVIOUS
<1>1. Fresh \in RunRec
  <2>1. <<>> \in Seq(Sims) /\ <<>> \in Datasets /\ {} \in Tables
    BY DEF Datasets, Tables
  <2>2. "new" \in RunPoints /\ "none" \in Strategies \cup {"none"}
    BY DEF RunPoints
  <2>3. QED
    BY <2>1, <2>2 DEF Fresh, RunRec
<1>2. HealTypes
  <2>1. sim \in [Sims -> RunRec]
    BY <1>1 DEF HealInit
  <2>2. data \in Datasets
    BY DEF HealInit, Datasets
  <2>3. killed \in 0..MaxSimKills /\ raised \in 0..MaxRaises
    BY HealingAssumption DEF HealInit
  <2>4. where.env \in {"dev", "stage", "prod"}
    BY HealingAssumption DEF HealInit
  <2>5. QED
    BY <2>1, <2>2, <2>3, <2>4 DEF HealInit, HealTypes, Tables
<1>3. \A s \in Sims : sim[s] = Fresh /\ ~Under(s)
  BY DEF HealInit, Under, Fresh
<1>4. \A s \in Sims : sim[s].pc = "new"
  BY <1>3 DEF Fresh
<1>5. QED
  BY <1>2, <1>3, <1>4
    DEF HealInit, HealIInv, AloneInv, BackupInv, AloneRunsFit, RunFits, NotUnder, RuinInv,
        TableInv, StatusInv, WhileHealing

\* A step of a run that is under way, and what is left to say of it for each part of the
\* invariant: the other runs either are not under way, or are not alone.
LEMMA OneRunMoves ==
  ASSUME HealIInv, NEW s \in Sims, Under(s), NEW r \in RunRec, r.pc # "new",
         sim' = [sim EXCEPT ![s] = r], r.pc \notin NotUnder => r.alone = sim[s].alone
  PROVE  /\ sim' \in [Sims -> RunRec] /\ sim'[s] = r
         /\ \A u \in Sims \ {s} : sim'[u] = sim[u]
         /\ \A u \in Sims \ {s} : Under(u)' <=> Under(u)
         /\ Under(s)' <=> r.pc \notin NotUnder
         /\ AloneInv'
         /\ \A u \in Sims \ {s} : RunFits(u, sim[u])'
<1>1. sim \in [Sims -> RunRec]
  BY DEF HealIInv, HealTypes
<1>2. sim' \in [Sims -> RunRec] /\ sim'[s] = r /\ \A u \in Sims \ {s} : sim'[u] = sim[u]
  BY <1>1
<1>3. /\ \A u \in Sims \ {s} : Under(u)' <=> Under(u)
      /\ Under(s)' <=> r.pc \notin NotUnder
  BY <1>2 DEF Under, NotUnder
<1>4. \A u, v \in Sims : u # v /\ Under(u) /\ Under(v) => ~sim[u].alone
  BY DEF HealIInv, AloneInv
<1>5. AloneInv'
  <2> SUFFICES ASSUME NEW u \in Sims, NEW v \in Sims, u # v, Under(u)', Under(v)'
               PROVE  ~sim'[u].alone
    BY DEF AloneInv
  <2>1. Under(u) /\ Under(v)
    BY <1>3
  <2>2. sim'[u].alone = sim[u].alone
    BY <1>2, <1>3
  <2>3. QED
    BY <1>4, <2>1, <2>2
<1>6. ASSUME NEW u \in Sims \ {s} PROVE RunFits(u, sim[u])'
  <2>1. sim'[u].pc \notin NotUnder => ~sim'[u].alone
    BY <1>2, <1>4 DEF Under, NotUnder
  <2>2. QED
    BY <2>1 DEF RunFits
<1>7. QED
  BY <1>2, <1>3, <1>5, <1>6

LEMMA MoveStep ==
  ASSUME HealIInv, NEW s \in Sims, Under(s), NEW r \in RunRec, r.pc # "new",
         sim' = [sim EXCEPT ![s] = r], r.pc \notin NotUnder => r.alone = sim[s].alone,
         HealTypes', BackupInv', RunFits(s, r)', RuinInv', TableInv', StatusInv'
  PROVE  HealIInv'
<1>1. /\ sim' \in [Sims -> RunRec] /\ sim'[s] = r
      /\ AloneInv'
      /\ \A u \in Sims \ {s} : RunFits(u, sim[u])'
  BY OneRunMoves
<1>2. AloneRunsFit'
  BY <1>1 DEF AloneRunsFit
<1>3. QED
  BY <1>1, <1>2 DEF HealIInv

LEMMA BackupKept ==
  ASSUME HealIInv, NEW s \in Sims, Under(s), NEW r \in RunRec, r.pc # "new",
         sim' = [sim EXCEPT ![s] = r], r.pc \notin NotUnder => r.alone = sim[s].alone,
         \/ backup' \in Datasets
         \/ backup' = backup /\ (sim[s].pc # "backup" \/ r.pc \in NotUnder)
  PROVE  BackupInv' /\ backup' \in Datasets \cup {Nobodys}
<1>1. CASE backup' \in Datasets
  BY <1>1, HealingAssumption DEF BackupInv, Datasets
<1>2. CASE backup' = backup /\ (sim[s].pc # "backup" \/ r.pc \in NotUnder)
  <2>1. \A u \in Sims : Under(u) /\ sim[u].pc # "backup" => backup # Nobodys
    BY DEF HealIInv, BackupInv
  <2>2. /\ Under(s)' <=> r.pc \notin NotUnder
        /\ \A u \in Sims \ {s} : sim'[u] = sim[u] /\ (Under(u)' <=> Under(u))
    BY OneRunMoves
  <2>3. backup \in Datasets \cup {Nobodys}
    BY DEF HealIInv, HealTypes
  <2>4. QED
    BY <1>2, <2>1, <2>2, <2>3 DEF BackupInv
<1>3. QED
  BY <1>1, <1>2

\* The parts that a step leaves as they are.
LEMMA RuinKept ==
  ASSUME HealIInv, NEW s \in Sims, Under(s), NEW r \in RunRec, r.pc # "new",
         sim' = [sim EXCEPT ![s] = r], r.pc \notin NotUnder => r.alone = sim[s].alone,
         UNCHANGED ruined,
         sim[s].pc \in BeforeReading => UNCHANGED data /\ (r.pc \in BeforeReading \/ ~ruined)
  PROVE  RuinInv' /\ ruined' \in BOOLEAN
<1>1. /\ \A u \in Sims \ {s} : sim'[u] = sim[u] /\ (Under(u)' <=> Under(u))
      /\ sim'[s] = r
  BY OneRunMoves
<1>2. ruined \in BOOLEAN /\ (ruined => sim[s].pc \in BeforeReading /\ data = Emptied)
  BY DEF HealIInv, RuinInv, HealTypes
<1>3. \A u \in Sims : ruined /\ Under(u) => sim[u].pc \in BeforeReading
  BY DEF HealIInv, RuinInv
<1>4. QED
  BY <1>1, <1>2, <1>3 DEF RuinInv

LEMMA TableKept ==
  ASSUME HealIInv, NEW s \in Sims, Under(s), NEW r \in RunRec, r.pc # "new",
         sim' = [sim EXCEPT ![s] = r], r.pc \notin NotUnder => r.alone = sim[s].alone,
         UNCHANGED <<qtable, learned>>, sim[s].pc # "saving"
  PROVE  /\ TableInv' /\ qtable' \in Tables \cup {Emptied, Nobodys}
         /\ learned' \in Tables
<1>1. \A u \in Sims \ {s} : sim'[u] = sim[u]
  BY OneRunMoves
<1>2. /\ TableInv /\ qtable \in Tables \cup {Emptied, Nobodys}
      /\ learned \in Tables
  BY DEF HealIInv, HealTypes
<1>3. (\E u \in Sims : sim[u].pc = "saving") => \E u \in Sims : sim'[u].pc = "saving"
  BY <1>1
<1>4. QED
  BY <1>2, <1>3 DEF TableInv

LEMMA StatusKept ==
  ASSUME HealIInv, NEW s \in Sims, Under(s), NEW r \in RunRec, r.pc # "new",
         sim' = [sim EXCEPT ![s] = r], r.pc \notin NotUnder => r.alone = sim[s].alone,
         UNCHANGED <<where, killed, shown>>, raised' \in Nat, raised' >= raised,
         killed = 0 /\ raised' = 0 /\ where.env # "prod" =>
           /\ r.pc \in WhileHealing => r.last = "DOWN"
           /\ r.pc \in {"learn", "recover"} => r.status = "success"
           /\ sim[s].pc \in WhileHealing => r.pc \in WhileHealing
  PROVE  StatusInv' /\ shown' \in {"UP", "DOWN"} /\ killed' \in 0..MaxSimKills
<1>1. (\A u \in Sims \ {s} : sim'[u] = sim[u]) /\ sim'[s] = r
  BY OneRunMoves
<1>2. /\ shown' \in {"UP", "DOWN"} /\ killed' \in 0..MaxSimKills
      /\ raised' = 0 => raised = 0
  BY HealingAssumption DEF HealIInv, HealTypes
<1>3. ASSUME killed = 0, raised' = 0, where.env # "prod"
      PROVE  /\ \A u \in Sims : sim'[u].pc \in WhileHealing => sim'[u].last = "DOWN"
             /\ \A u \in Sims : sim'[u].pc \in {"learn", "recover"}
                                  => sim'[u].status = "success"
             /\ shown = "DOWN" => \E u \in Sims : sim'[u].pc \in WhileHealing
  BY <1>1, <1>2, <1>3 DEF HealIInv, StatusInv
<1>4. QED
  BY <1>2, <1>3 DEF StatusInv

-----------------------------------------------------------------------------
(* The steps of a run.                                                     *)

LEMMA RunFacts ==
  ASSUME HealIInv, NEW s \in Sims
  PROVE  /\ sim[s] \in RunRec /\ RunFits(s, sim[s])
         /\ Under(s) <=> sim[s].pc \notin NotUnder
         /\ data \in Datasets /\ backup \in Datasets \cup {Nobodys}
         /\ shown \in {"UP", "DOWN"} /\ learned \in Tables /\ ruined \in BOOLEAN
         /\ killed \in 0..MaxSimKills /\ raised \in 0..MaxRaises
         /\ killed \in Nat /\ raised \in Nat
  BY HealingAssumption DEF HealIInv, HealTypes, AloneRunsFit, Under, NotUnder

\* What a step keeps of a run, but for where it is.
Alike(r, q) ==
  /\ r.rl = q.rl /\ r.rows = q.rows /\ r.table = q.table /\ r.strategy = q.strategy
  /\ r.status = q.status /\ r.last = q.last /\ r.alone = q.alone /\ r.before = q.before

LEMMA GoesTo ==
  ASSUME HealIInv, NEW s \in Sims, NEW from \in RunPoints \ NotUnder, NEW to \in RunPoints,
         Goes(s, from, to)
  PROVE  /\ Under(s) /\ sim[s].pc = from
         /\ \E r \in RunRec : r.pc = to /\ Alike(r, sim[s]) /\ sim' = [sim EXCEPT ![s] = r]
<1> DEFINE r == [sim[s] EXCEPT !.pc = to]
<1>1. sim[s] \in RunRec
  BY RunFacts
<1>2. r \in RunRec /\ r.pc = to /\ Alike(r, sim[s])
  BY <1>1 DEF RunRec, Alike
<1>3. sim[s].pc = from /\ sim' = [sim EXCEPT ![s] = r]
  BY DEF Goes, Step
<1>4. QED
  BY <1>2, <1>3, RunFacts


\* A step of a run that goes on: the parts of the invariant that it may leave as they are,
\* by what it does not write.
LEMMA LiveStep ==
  ASSUME HealIInv, NEW s \in Sims, NEW r \in RunRec, Under(s), r.pc \notin NotUnder,
         sim' = [sim EXCEPT ![s] = r], r.alone = sim[s].alone,
         where' = where, killed' = killed, ruined' = ruined,
         raised' \in 0..MaxRaises, raised' >= raised,
         data' \in Datasets,
         backup' \in Datasets \/ (sim[s].pc # "backup" /\ backup' = backup),
         sim[s].pc \in BeforeReading => data' = data /\ (r.pc \in BeforeReading \/ ~ruined),
         RunFits(s, r)',
         \/ qtable' = qtable /\ learned' = learned /\ sim[s].pc # "saving"
         \/ TableInv' /\ qtable' \in Tables \cup {Emptied, Nobodys}
              /\ learned' \in Tables,
         \/ /\ shown' = shown
            /\ killed = 0 /\ raised' = 0 /\ where.env # "prod" =>
                 /\ r.pc \in WhileHealing => r.last = "DOWN"
                 /\ r.pc \in {"learn", "recover"} => r.status = "success"
                 /\ sim[s].pc \in WhileHealing => r.pc \in WhileHealing
         \/ shown' \in {"UP", "DOWN"} /\ StatusInv'
  PROVE  HealIInv'
<1>1. r.pc # "new"
  BY DEF NotUnder
<1>2. killed' \in 0..MaxSimKills /\ raised' \in Nat
  BY RunFacts, HealingAssumption
<1>3. RuinInv' /\ ruined' \in BOOLEAN
  BY <1>1, RuinKept
<1>4. /\ TableInv' /\ qtable' \in Tables \cup {Emptied, Nobodys}
      /\ learned' \in Tables
  BY <1>1, TableKept
<1>5. StatusInv' /\ shown' \in {"UP", "DOWN"}
  BY <1>1, <1>2, StatusKept
<1>6. BackupInv' /\ backup' \in Datasets \cup {Nobodys}
  BY <1>1, BackupKept
<1>7. sim' \in [Sims -> RunRec]
  BY <1>1, OneRunMoves
<1>8. HealTypes'
  BY <1>2, <1>3, <1>4, <1>5, <1>6, <1>7 DEF HealTypes, HealIInv
<1>9. QED
  BY <1>1, <1>3, <1>4, <1>5, <1>6, <1>8, MoveStep

LEMMA OpenBackupStep == ASSUME HealIInv, NEW s \in Sims, OpenBackup(s) PROVE HealIInv'
<1>1. /\ Goes(s, "backup", "copy") /\ backup' = Emptied
      /\ UNCHANGED <<where, data, qtable, shown, killed, raised, ruined, learned>>
  BY DEF OpenBackup
<1>2. Under(s) /\ sim[s].pc = "backup"
  BY <1>1, GoesTo DEF RunPoints, NotUnder
<1>3. PICK r \in RunRec : r.pc = "copy" /\ Alike(r, sim[s]) /\ sim' = [sim EXCEPT ![s] = r]
  BY <1>1, GoesTo DEF RunPoints, NotUnder
<1>4. RunFits(s, r)'
  BY <1>1, <1>2, <1>3, RunFacts DEF RunFits, Alike, NotUnder, BeforeReading, AfterWriting
<1>5. data' \in Datasets /\ backup' \in Datasets /\ raised' \in 0..MaxRaises /\ raised' >= raised
  BY <1>1, RunFacts DEF Datasets
<1>6. r.alone = sim[s].alone /\ r.pc \notin NotUnder /\ r.pc \notin WhileHealing
      /\ r.pc \in BeforeReading /\ sim[s].pc # "saving" /\ r.pc \notin {"learn", "recover"}
      /\ sim[s].pc \notin WhileHealing
  BY <1>2, <1>3 DEF NotUnder, BeforeReading, WhileHealing, Alike
<1>7. QED
  BY <1>1, <1>2, <1>3, <1>4, <1>5, <1>6, LiveStep

LEMMA FillBackupStep == ASSUME HealIInv, NEW s \in Sims, FillBackup(s) PROVE HealIInv'
<1>1. /\ Goes(s, "copy", "read")
      /\ backup' \in IF data = Emptied THEN {backup} ELSE Overlaid(backup, data)
      /\ UNCHANGED <<where, data, qtable, shown, killed, raised, ruined, learned>>
  BY DEF FillBackup
<1>2. Under(s) /\ sim[s].pc = "copy"
  BY <1>1, GoesTo DEF RunPoints, NotUnder
<1>3. PICK r \in RunRec : r.pc = "read" /\ Alike(r, sim[s]) /\ sim' = [sim EXCEPT ![s] = r]
  BY <1>1, GoesTo DEF RunPoints, NotUnder
<1>4. /\ data \in Datasets /\ backup \in Datasets
      /\ data # Emptied => data \in Seq(Sims)
  BY <1>2, RunFacts DEF HealIInv, BackupInv, Datasets
<1>5. backup' \in Datasets
  <2>1. CASE data = Emptied
    BY <2>1, <1>1, <1>4
  <2>2. CASE data # Emptied
    <3>1. backup' \in Overlaid(backup, data)
      BY <2>2, <1>1
    <3>2. QED
      BY <3>1, <2>2, <1>4, OverlaidFile DEF Datasets
  <2>3. QED
    BY <2>1, <2>2
<1>6. ASSUME sim[s].alone PROVE backup' = sim[s].before
  <2>1. data = sim[s].before /\ backup = Emptied
    BY <1>2, <1>6, RunFacts DEF RunFits, NotUnder
  <2>2. CASE data = Emptied
    BY <2>1, <2>2, <1>1
  <2>3. CASE data # Emptied
    BY <2>1, <2>3, <1>1, <1>4, OverlaidFile
  <2>4. QED
    BY <2>2, <2>3
<1>7. RunFits(s, r)'
  BY <1>1, <1>2, <1>3, <1>6, RunFacts DEF RunFits, Alike, NotUnder, BeforeReading, AfterWriting
<1>8. raised' \in 0..MaxRaises /\ raised' >= raised /\ data' \in Datasets
  BY <1>1, RunFacts
<1>9. r.alone = sim[s].alone /\ r.pc \notin NotUnder /\ r.pc \notin WhileHealing
      /\ r.pc \in BeforeReading /\ sim[s].pc # "saving" /\ r.pc \notin {"learn", "recover"}
      /\ sim[s].pc \notin WhileHealing
  BY <1>2, <1>3 DEF NotUnder, BeforeReading, WhileHealing, Alike
<1>10. QED
  BY <1>1, <1>2, <1>3, <1>5, <1>7, <1>8, <1>9, LiveStep

\* A step that writes no file.
LEMMA QuietStep ==
  ASSUME HealIInv, NEW s \in Sims, NEW r \in RunRec, Under(s),
         sim' = [sim EXCEPT ![s] = r], r.alone = sim[s].alone, r.before = sim[s].before,
         UNCHANGED <<where, sharedFiles, killed, ruined, learned>>,
         raised' = raised \/ Raises,
         r.pc \notin NotUnder \cup BeforeReading \cup {"open", "write", "restoring", "saving"},
         sim[s].pc \notin BeforeReading \cup {"saving"},
         r.alone /\ r.pc \in {"redeploy", "learn", "recover"}
           /\ r.strategy = "restore_previous_version" /\ r.status # "refused"
           => RestoredOrFailed(s, r),
         r.pc \in AfterWriting => sim[s].pc \in AfterWriting,
         r.pc \in {"restore", "redeploy"} => r.status = "none",
         r.rl = sim[s].rl, r.rl => r.table \ {s} = sim[s].table \ {s},
         killed = 0 /\ raised' = 0 /\ where.env # "prod" =>
           /\ r.pc \in WhileHealing => r.last = "DOWN"
           /\ r.pc \in {"learn", "recover"} => r.status = "success"
           /\ sim[s].pc \in WhileHealing => r.pc \in WhileHealing,
         sim[s].pc # "backup"
  PROVE  HealIInv'
<1>1. UNCHANGED <<data, backup, qtable, shown, where, killed, ruined, learned>>
  BY DEF sharedFiles
<1>2. raised' \in 0..MaxRaises /\ raised' >= raised /\ data' \in Datasets
  BY <1>1, RunFacts, HealingAssumption DEF Raises
<1>3. sim[s].pc \notin NotUnder /\ RunFits(s, sim[s])
  BY RunFacts
<1>4. r.alone => backup = r.before /\ r.before \in Seq(Sims)
                 /\ (r.rl => r.table \ {s} = learned \ {s})
                 /\ (r.pc \in AfterWriting => data = WithRowsOf(s, r.before))
  BY <1>3 DEF RunFits, BeforeReading
<1>5. RunFits(s, r)'
  BY <1>1, <1>4 DEF RunFits, BeforeReading, WithRowsOf, RestoredOrFailed
<1>6. QED
  BY <1>1, <1>2, <1>5, LiveStep

\* What dies or ends is forgotten.
LEMMA OverStep ==
  ASSUME HealIInv, NEW s \in Sims, Under(s), NEW how \in {"ended", "died"},
         sim' = [sim EXCEPT ![s] = Over(s, how)],
         ruined' = (ruined \/ (data = Emptied /\ \A u \in Sims \ {s} : ~Under(u))),
         UNCHANGED <<where, sharedFiles>>,
         killed' \in 0..MaxSimKills, raised' \in 0..MaxRaises, raised' >= raised,
         \/ learned' = learned /\ sim[s].pc # "saving"
         \/ TableInv' /\ learned' \in Tables,
         killed' = 0 /\ raised' = 0 /\ where.env # "prod" =>
           sim[s].pc \notin WhileHealing /\ killed' = killed
  PROVE  HealIInv'
<1>1. UNCHANGED <<data, backup, qtable, shown, where>>
  BY DEF sharedFiles
<1>2. PICK r \in RunRec : r.pc = how /\ sim' = [sim EXCEPT ![s] = r]
  <2>1. sim[s] \in RunRec
    BY RunFacts
  <2>2. Over(s, how) \in RunRec /\ Over(s, how).pc = how
    <3>1. <<>> \in Seq(Sims) /\ <<>> \in Datasets /\ {} \in Tables
      BY DEF Datasets, Tables
    <3>2. how \in RunPoints /\ "none" \in Strategies \cup {"none"}
      BY DEF RunPoints
    <3>3. sim[s].forced \in BOOLEAN
      BY <2>1 DEF RunRec
    <3>4. QED
      BY <3>1, <3>2, <3>3 DEF Over, Fresh, RunRec
  <2>3. QED
    BY <2>2
<1>3. r.pc \in NotUnder /\ r.pc # "new" /\ r.pc \notin WhileHealing \cup {"learn", "recover"}
  BY <1>2 DEF NotUnder, WhileHealing
<1>4. /\ \A u \in Sims \ {s} : sim'[u] = sim[u] /\ (Under(u)' <=> Under(u))
      /\ sim'[s] = r /\ ~Under(s)'
  BY <1>2, <1>3, OneRunMoves
<1>5. RuinInv' /\ ruined' \in BOOLEAN
  <2>1. ruined => data = Emptied /\ \A u \in Sims : Under(u) => sim[u].pc \in BeforeReading
    BY DEF HealIInv, RuinInv
  <2>2. ruined' => data = Emptied
                   /\ \A u \in Sims \ {s} : Under(u) => sim[u].pc \in BeforeReading
    BY <2>1
  <2>3. ruined \in BOOLEAN
    BY RunFacts
  <2>4. QED
    BY <1>1, <1>4, <2>2, <2>3 DEF RuinInv
<1>6. /\ TableInv' /\ qtable' \in Tables \cup {Emptied, Nobodys}
      /\ learned' \in Tables
  <2>1. qtable \in Tables \cup {Emptied, Nobodys}
    BY DEF HealIInv, HealTypes
  <2>2. CASE learned' = learned /\ sim[s].pc # "saving"
    BY <1>1, <1>2, <1>3, <2>2, TableKept
  <2>3. CASE TableInv' /\ learned' \in Tables
    BY <1>1, <2>1, <2>3
  <2>4. QED
    BY <2>2, <2>3
<1>7. StatusInv' /\ shown' \in {"UP", "DOWN"}
  <2>1. shown' \in {"UP", "DOWN"} /\ raised \in Nat /\ raised' \in Nat
    BY <1>1, RunFacts, HealingAssumption
  <2>2. ASSUME killed' = 0, raised' = 0, where.env # "prod"
        PROVE  /\ \A u \in Sims : sim'[u].pc \in WhileHealing => sim'[u].last = "DOWN"
               /\ \A u \in Sims : sim'[u].pc \in {"learn", "recover"}
                                    => sim'[u].status = "success"
               /\ shown = "DOWN" => \E u \in Sims : sim'[u].pc \in WhileHealing
    <3>1. killed = 0 /\ raised = 0 /\ sim[s].pc \notin WhileHealing
      BY <2>1, <2>2
    <3>2. QED
      BY <3>1, <2>2, <1>3, <1>4 DEF HealIInv, StatusInv
  <2>3. QED
    BY <1>1, <2>1, <2>2 DEF StatusInv
<1>8. RunFits(s, r)' /\ data' \in Datasets
  BY <1>1, <1>3, RunFacts DEF RunFits
<1>9. QED
  <2>1. BackupInv' /\ backup' \in Datasets \cup {Nobodys}
    BY <1>1, <1>2, <1>3, BackupKept
  <2>2. sim' \in [Sims -> RunRec]
    BY <1>2, <1>3, OneRunMoves
  <2>3. HealTypes'
    BY <1>1, <1>5, <1>6, <1>7, <1>8, <2>1, <2>2 DEF HealTypes, HealIInv
  <2>4. QED
    BY <1>2, <1>3, <1>5, <1>6, <1>7, <1>8, <2>1, <2>3, MoveStep

LEMMA StartRunStep == ASSUME HealIInv, NEW s \in Sims, StartRun(s) PROVE HealIInv'
<1>1. PICK forced \in BOOLEAN, rl \in BOOLEAN :
        sim' = [u \in Sims |->
          IF u = s THEN [Fresh EXCEPT !.pc = "backup", !.forced = forced, !.rl = rl,
                                      !.table = IF rl THEN LoadedTable ELSE {},
                                      !.last = shown, !.alone = Still,
                                      !.before = IF Still THEN data ELSE <<>>]
          ELSE IF Under(u) THEN [sim[u] EXCEPT !.alone = FALSE, !.before = <<>>]
          ELSE sim[u]]
  BY DEF StartRun
<1>2. /\ sim[s].pc = "new"
      /\ UNCHANGED <<where, data, backup, qtable, shown, killed, raised, ruined, learned>>
  BY DEF StartRun, sharedFiles
<1>3. /\ sim \in [Sims -> RunRec] /\ data \in Datasets /\ shown \in {"UP", "DOWN"}
      /\ qtable \in Tables \cup {Emptied, Nobodys} /\ <<>> \in Datasets
      /\ <<>> \in Seq(Sims)
  BY DEF HealIInv, HealTypes, Datasets
<1>4. /\ Still \in BOOLEAN /\ LoadedTable \in Tables
      /\ IF Still THEN \A u \in Sims : ~Under(u) ELSE TRUE
  BY <1>3 DEF Still, LoadedTable, Tables
<1>5. PICK r \in RunRec :
        /\ r = [Fresh EXCEPT !.pc = "backup", !.forced = forced, !.rl = rl,
                             !.table = IF rl THEN LoadedTable ELSE {},
                             !.last = shown, !.alone = Still,
                             !.before = IF Still THEN data ELSE <<>>]
        /\ r.pc = "backup" /\ r.rl = rl /\ r.alone = Still
        /\ r.table = (IF rl THEN LoadedTable ELSE {})
        /\ r.before = (IF Still THEN data ELSE <<>>)
  <2> DEFINE q == [Fresh EXCEPT !.pc = "backup", !.forced = forced, !.rl = rl,
                                !.table = IF rl THEN LoadedTable ELSE {},
                                !.last = shown, !.alone = Still,
                                !.before = IF Still THEN data ELSE <<>>]
  <2>1. /\ q.pc = "backup" /\ q.rl = rl /\ q.alone = Still
        /\ q.table = (IF rl THEN LoadedTable ELSE {})
        /\ q.before = (IF Still THEN data ELSE <<>>)
    BY DEF Fresh
  <2>2. (IF rl THEN LoadedTable ELSE {}) \in Tables
    BY <1>4 DEF Tables
  <2>3. (IF Still THEN data ELSE <<>>) \in Datasets
    BY <1>3
  <2>4. "backup" \in RunPoints /\ "none" \in Strategies \cup {"none"}
    BY DEF RunPoints
  <2>5. q \in RunRec
    BY <1>3, <1>4, <2>2, <2>3, <2>4 DEF Fresh, RunRec
  <2>6. QED
    BY <2>1, <2>5
<1>6. sim'[s] = r
  BY <1>1, <1>5
<1>7. ASSUME NEW u \in Sims \ {s}
      PROVE  /\ sim'[u] \in RunRec /\ sim'[u].pc = sim[u].pc /\ sim'[u].last = sim[u].last
             /\ sim'[u].status = sim[u].status
             /\ Under(u) => ~sim'[u].alone
  <2>1. CASE Under(u)
    <3>1. sim'[u] = [sim[u] EXCEPT !.alone = FALSE, !.before = <<>>]
      BY <1>1, <2>1
    <3>2. sim[u] \in RunRec
      BY <1>3
    <3>3. QED
      BY <1>3, <3>1, <3>2 DEF RunRec
  <2>2. CASE ~Under(u)
    <3>1. sim'[u] = sim[u]
      BY <1>1, <2>2
    <3>2. QED
      BY <1>3, <2>2, <3>1
  <2>3. QED
    BY <2>1, <2>2
<1>8. \A u \in Sims \ {s} : Under(u)' <=> Under(u)
  BY <1>7 DEF Under
<1>9. HealTypes'
  <2>1. DOMAIN sim' = Sims /\ sim' = [u \in Sims |-> sim'[u]]
    BY <1>1
  <2>2. \A u \in Sims : sim'[u] \in RunRec
    BY <1>6, <1>7
  <2>3. sim' \in [Sims -> RunRec]
    BY <2>1, <2>2
  <2>4. QED
    BY <1>2, <2>3 DEF HealIInv, HealTypes
<1>10. AloneInv'
  <2> SUFFICES ASSUME NEW u \in Sims, NEW v \in Sims, u # v, Under(u)', Under(v)'
               PROVE  ~sim'[u].alone
    BY DEF AloneInv
  <2>1. CASE u = s
    BY <2>1, <1>4, <1>5, <1>6, <1>8
  <2>2. CASE u # s
    BY <2>2, <1>7, <1>8
  <2>3. QED
    BY <2>1, <2>2
<1>11. BackupInv'
  <2>1. \A u \in Sims \ {s} : Under(u) /\ sim[u].pc # "backup" => backup # Nobodys
    BY DEF HealIInv, BackupInv
  <2>2. QED
    BY <1>2, <1>5, <1>6, <1>7, <1>8, <2>1 DEF BackupInv
<1>12. ASSUME Still PROVE LoadedTable = learned
  <2>1. \A u \in Sims : sim[u].pc # "saving"
    BY <1>4, <1>12 DEF Under
  <2>2. QED
    BY <2>1 DEF HealIInv, TableInv, LoadedTable
<1>13. AloneRunsFit'
  <2>1. RunFits(s, sim[s])'
    BY <1>2, <1>5, <1>6, <1>12 DEF RunFits, BeforeReading, AfterWriting
  <2>2. \A u \in Sims \ {s} : RunFits(u, sim[u])'
    BY <1>7 DEF RunFits, Under, NotUnder
  <2>3. QED
    BY <2>1, <2>2 DEF AloneRunsFit
<1>14. RuinInv'
  BY <1>2, <1>5, <1>6, <1>7, <1>8 DEF HealIInv, RuinInv, BeforeReading
<1>15. TableInv'
  <2>1. (\E u \in Sims : sim[u].pc = "saving") => \E u \in Sims : sim'[u].pc = "saving"
    BY <1>2, <1>7
  <2>2. QED
    BY <1>2, <2>1 DEF HealIInv, TableInv
<1>16. StatusInv'
  <2>1. \A u \in Sims : sim'[u].pc \in WhileHealing \cup {"learn", "recover"} =>
          u # s /\ sim'[u].pc = sim[u].pc /\ sim'[u].last = sim[u].last
            /\ sim'[u].status = sim[u].status
    BY <1>5, <1>6, <1>7 DEF WhileHealing
  <2>2. \A u \in Sims : sim[u].pc \in WhileHealing => sim'[u].pc \in WhileHealing
    BY <1>2, <1>7 DEF WhileHealing
  <2>3. QED
    BY <1>2, <2>1, <2>2 DEF HealIInv, StatusInv
<1>17. QED
  BY <1>9, <1>10, <1>11, <1>13, <1>14, <1>15, <1>16 DEF HealIInv

LEMMA ReadDataStep == ASSUME HealIInv, NEW s \in Sims, ReadData(s) PROVE HealIInv'
<1>1. sim[s].pc = "read" /\ Under(s)
  BY RunFacts DEF ReadData, Step, NotUnder
<1>2. UNCHANGED <<where, sharedFiles, killed, raised, learned>>
  BY DEF ReadData
<1>3. CASE data = Emptied /\ Dies(s)
  <2>1. /\ sim' = [sim EXCEPT ![s] = Over(s, "died")]
        /\ ruined' = (ruined \/ (data = Emptied /\ \A u \in Sims \ {s} : ~Under(u)))
    BY <1>3 DEF Dies
  <2>2. /\ killed' \in 0..MaxSimKills /\ raised' \in 0..MaxRaises /\ raised' >= raised
        /\ learned' = learned /\ killed' = killed /\ sim[s].pc \notin WhileHealing \cup {"saving"}
    BY <1>1, <1>2, RunFacts DEF WhileHealing
  <2>3. UNCHANGED <<where, sharedFiles>>
    BY <1>2
  <2>4. QED
    BY <1>1, <2>1, <2>2, <2>3, OverStep
<1>4. CASE /\ data # Emptied
           /\ Step(s, "read", [sim[s] EXCEPT !.pc = "open", !.rows = data])
           /\ ruined' = ruined
  <2>1. sim[s] \in RunRec /\ data \in Seq(Sims)
    BY <1>4, RunFacts DEF Datasets
  <2>2. PICK r \in RunRec :
          /\ sim' = [sim EXCEPT ![s] = r] /\ r.pc = "open" /\ r.rows = data
          /\ r.rl = sim[s].rl /\ r.table = sim[s].table /\ r.alone = sim[s].alone
          /\ r.before = sim[s].before
    <3> DEFINE q == [sim[s] EXCEPT !.pc = "open", !.rows = data]
    <3>1. /\ q \in RunRec /\ q.pc = "open" /\ q.rows = data /\ q.rl = sim[s].rl
          /\ q.table = sim[s].table /\ q.alone = sim[s].alone /\ q.before = sim[s].before
      BY <2>1 DEF RunRec, RunPoints
    <3>2. QED
      BY <1>4, <3>1 DEF Step
  <2>3. UNCHANGED <<where, data, backup, qtable, shown, killed, raised, learned>>
    BY <1>2 DEF sharedFiles
  <2>4. RunFits(s, sim[s]) /\ ~ruined
    BY <1>4, RunFacts DEF HealIInv, RuinInv
  <2>5. RunFits(s, r)'
    BY <1>1, <2>1, <2>2, <2>3, <2>4 DEF RunFits, NotUnder, BeforeReading, AfterWriting
  <2>6. r.pc \notin NotUnder \cup WhileHealing \cup {"learn", "recover"}
        /\ sim[s].pc \notin WhileHealing \cup {"saving", "backup"}
    BY <1>1, <2>2 DEF NotUnder, WhileHealing
  <2>7. raised' \in 0..MaxRaises /\ raised' >= raised /\ data' \in Datasets
    BY <2>3, RunFacts
  <2>8. QED
    BY <1>1, <1>4, <2>2, <2>3, <2>4, <2>5, <2>6, <2>7, LiveStep
<1>5. QED
  BY <1>3, <1>4 DEF ReadData

LEMMA OpenDataStep == ASSUME HealIInv, NEW s \in Sims, OpenData(s) PROVE HealIInv'
<1>1. /\ Goes(s, "open", "write") /\ data' = Emptied
      /\ UNCHANGED <<where, backup, qtable, shown, killed, raised, ruined, learned>>
  BY DEF OpenData
<1>2. Under(s) /\ sim[s].pc = "open"
  BY <1>1, GoesTo DEF RunPoints, NotUnder
<1>3. PICK r \in RunRec : r.pc = "write" /\ Alike(r, sim[s]) /\ sim' = [sim EXCEPT ![s] = r]
  BY <1>1, GoesTo DEF RunPoints, NotUnder
<1>4. RunFits(s, r)'
  BY <1>1, <1>2, <1>3, RunFacts DEF RunFits, Alike, NotUnder, BeforeReading, AfterWriting
<1>5. data' \in Datasets /\ raised' \in 0..MaxRaises /\ raised' >= raised
  BY <1>1, RunFacts DEF Datasets
<1>6. r.alone = sim[s].alone /\ r.pc \notin NotUnder \cup WhileHealing \cup {"learn", "recover"}
      /\ sim[s].pc \notin BeforeReading \cup WhileHealing \cup {"saving", "backup"}
  BY <1>2, <1>3 DEF NotUnder, BeforeReading, WhileHealing, Alike
<1>7. QED
  BY <1>1, <1>2, <1>3, <1>4, <1>5, <1>6, LiveStep

LEMMA WriteDataStep == ASSUME HealIInv, NEW s \in Sims, WriteData(s) PROVE HealIInv'
<1>1. /\ data' \in Overlaid(data, WithRowsOf(s, sim[s].rows))
      /\ sim[s].pc = "write"
      /\ sim' = [sim EXCEPT ![s] = [sim[s] EXCEPT !.pc = "detect", !.rows = <<>>]]
      /\ UNCHANGED <<where, backup, qtable, shown, killed, raised, ruined, learned>>
  BY DEF WriteData, Step
<1>2. Under(s) /\ sim[s] \in RunRec
  BY <1>1, RunFacts DEF NotUnder
<1>3. PICK r \in RunRec :
        /\ sim' = [sim EXCEPT ![s] = r] /\ r.pc = "detect" /\ r.rl = sim[s].rl
        /\ r.table = sim[s].table /\ r.alone = sim[s].alone /\ r.before = sim[s].before
  <2> DEFINE q == [sim[s] EXCEPT !.pc = "detect", !.rows = <<>>]
  <2>0. <<>> \in Seq(Sims) /\ "detect" \in RunPoints
    BY DEF RunPoints
  <2>1. /\ q \in RunRec /\ q.pc = "detect" /\ q.rl = sim[s].rl
        /\ q.table = sim[s].table /\ q.alone = sim[s].alone /\ q.before = sim[s].before
    BY <1>2, <2>0 DEF RunRec
  <2>2. QED
    BY <1>1, <2>1
<1>4. data' \in Datasets
  <2>1. sim[s].rows \in Seq(Sims)
    BY <1>2 DEF RunRec
  <2>2. WithRowsOf(s, sim[s].rows) \in Seq(Sims)
    BY <2>1 DEF WithRowsOf
  <2>3. data \in Datasets
    BY RunFacts
  <2>4. data' \in Seq(Sims)
    BY <1>1, <2>2, <2>3, OverlaidFile
  <2>5. QED
    BY <2>4 DEF Datasets
<1>5. RunFits(s, r)'
  <2>1. RunFits(s, sim[s])
    BY RunFacts
  <2>2. ASSUME sim[s].alone
        PROVE  /\ data = Emptied /\ backup = sim[s].before /\ sim[s].rows = sim[s].before
               /\ sim[s].before \in Seq(Sims)
               /\ sim[s].rl => sim[s].table \ {s} = learned \ {s}
    BY <1>1, <2>1, <2>2 DEF RunFits, NotUnder, BeforeReading
  <2>3. ASSUME sim[s].alone PROVE data' = WithRowsOf(s, sim[s].before)
    <3>1. WithRowsOf(s, sim[s].before) \in Seq(Sims)
      BY <2>2, <2>3 DEF WithRowsOf
    <3>2. data' \in Overlaid(Emptied, WithRowsOf(s, sim[s].before))
      BY <1>1, <2>2, <2>3
    <3>3. QED
      BY <3>1, <3>2, OverlaidFile
  <2>4. WithRowsOf(s, r.before)' = WithRowsOf(s, sim[s].before)
    BY <1>1, <1>3 DEF WithRowsOf
  <2>5. QED
    BY <1>1, <1>3, <2>2, <2>3, <2>4
      DEF RunFits, NotUnder, BeforeReading, AfterWriting, RestoredOrFailed
<1>6. raised' \in 0..MaxRaises /\ raised' >= raised
  BY <1>1, RunFacts
<1>7. r.pc \notin NotUnder \cup WhileHealing \cup {"learn", "recover"}
      /\ sim[s].pc \notin BeforeReading \cup WhileHealing \cup {"saving", "backup"}
  BY <1>1, <1>3 DEF NotUnder, BeforeReading, WhileHealing
<1>8. QED
  BY <1>1, <1>2, <1>3, <1>4, <1>5, <1>6, <1>7, LiveStep

LEMMA DetectStep ==
  ASSUME HealIInv, NEW s \in Sims, DetectFirst(s) \/ DetectSecond(s)
  PROVE  HealIInv'
<1>1. PICK from \in {"detect", "again"}, to \in {"deploy", "report"} : Detect(s, from, to)
  BY DEF DetectFirst, DetectSecond
<1>2. /\ UNCHANGED <<where, sharedFiles, killed, ruined, learned>>
      /\ raised' = raised \/ Raises
      /\ sim[s].pc = from
  BY <1>1 DEF Detect, Goes, Step
<1>3. Under(s) /\ sim[s] \in RunRec
  BY <1>2, RunFacts DEF NotUnder
<1>4. PICK r \in RunRec :
        /\ sim' = [sim EXCEPT ![s] = r] /\ r.pc = to /\ r.rl = sim[s].rl
        /\ r.table = sim[s].table /\ r.alone = sim[s].alone /\ r.before = sim[s].before
  <2>1. CASE \E state \in FailureStates(s) :
               Step(s, from, [sim[s] EXCEPT !.pc = to, !.found = state])
    <3>1. PICK state \in FailureStates(s) :
            Step(s, from, [sim[s] EXCEPT !.pc = to, !.found = state])
      BY <2>1
    <3>2. state \in {"anomaly", "deployment_failure", "no_failure"}
      BY DEF FailureStates
    <3> DEFINE q == [sim[s] EXCEPT !.pc = to, !.found = state]
    <3>3. /\ q \in RunRec /\ q.pc = to /\ q.rl = sim[s].rl
          /\ q.table = sim[s].table /\ q.alone = sim[s].alone /\ q.before = sim[s].before
      BY <1>3, <3>2 DEF RunRec, RunPoints
    <3>4. QED
      BY <3>1, <3>3 DEF Step
  <2>2. CASE Goes(s, from, to)
    <3>1. from \in RunPoints \ NotUnder /\ to \in RunPoints
      BY DEF RunPoints, NotUnder
    <3>2. PICK r \in RunRec : r.pc = to /\ Alike(r, sim[s]) /\ sim' = [sim EXCEPT ![s] = r]
      BY <2>2, <3>1, GoesTo
    <3>3. QED
      BY <3>2 DEF Alike
  <2>3. QED
    BY <1>1, <2>1, <2>2 DEF Detect
<1>5. /\ r.pc \notin NotUnder \cup BeforeReading \cup {"open", "write", "restoring", "saving"}
      /\ r.pc \notin WhileHealing \cup {"restore", "redeploy", "learn", "recover"}
      /\ sim[s].pc \notin WhileHealing \cup BeforeReading \cup {"saving"} /\ sim[s].pc # "backup"
      /\ sim[s].pc \in AfterWriting
  BY <1>2, <1>4 DEF NotUnder, BeforeReading, WhileHealing, AfterWriting
<1>6. QED
  BY <1>2, <1>3, <1>4, <1>5, QuietStep

LEMMA DeployStep == ASSUME HealIInv, NEW s \in Sims, Deploy(s) PROVE HealIInv'
<1>1. /\ UNCHANGED <<where, sharedFiles, killed, ruined, learned>>
      /\ raised' = raised \/ Raises
      /\ sim[s].pc = "deploy"
  BY DEF Deploy, Step
<1>2. Under(s) /\ sim[s] \in RunRec
  BY <1>1, RunFacts DEF NotUnder
<1>3. PICK r \in RunRec :
        /\ sim' = [sim EXCEPT ![s] = r] /\ r.pc \in {"again", "report"} /\ r.rl = sim[s].rl
        /\ r.table = sim[s].table /\ r.alone = sim[s].alone /\ r.before = sim[s].before
  <2>1. PICK deployed \in {"success", "failure"} :
          sim' = [sim EXCEPT ![s] = [sim[s] EXCEPT !.deployed = deployed,
                    !.pc = IF sim[s].found = "no_failure" THEN "again" ELSE "report"]]
    BY DEF Deploy, Step
  <2> DEFINE q == [sim[s] EXCEPT !.deployed = deployed,
                     !.pc = IF sim[s].found = "no_failure" THEN "again" ELSE "report"]
  <2>2. /\ q \in RunRec /\ q.pc \in {"again", "report"} /\ q.rl = sim[s].rl
        /\ q.table = sim[s].table /\ q.alone = sim[s].alone /\ q.before = sim[s].before
    BY <1>2 DEF RunRec, RunPoints
  <2>3. QED
    BY <2>1, <2>2
<1>4. /\ r.pc \notin NotUnder \cup BeforeReading \cup {"open", "write", "restoring", "saving"}
      /\ r.pc \notin WhileHealing \cup {"restore", "redeploy", "learn", "recover"}
      /\ sim[s].pc \notin WhileHealing \cup BeforeReading \cup {"saving"} /\ sim[s].pc # "backup"
      /\ sim[s].pc \in AfterWriting
  BY <1>1, <1>3 DEF NotUnder, BeforeReading, WhileHealing, AfterWriting
<1>5. QED
  BY <1>1, <1>2, <1>3, <1>4, QuietStep

LEMMA AfterHealingPoint == \A s \in Sims : AfterHealing(s) \in {"save", "end"}
  BY DEF AfterHealing

LEMMA UpdatedRun ==
  ASSUME HealIInv, NEW s \in Sims, NEW status \in {"UP", "DOWN"}, NEW to \in RunPoints,
         UpdatesStatus(s, status, to)
  PROVE  /\ \E r \in RunRec :
              /\ sim' = [sim EXCEPT ![s] = r] /\ r.pc = to /\ r.rl = sim[s].rl
              /\ r.table = sim[s].table /\ r.alone = sim[s].alone
              /\ r.before = sim[s].before /\ r.last = status
         /\ shown' = IF sim[s].last = status THEN shown ELSE status
<1>1. /\ sim' = [sim EXCEPT ![s].pc = to, ![s].last = status, ![s].deployed = "success"]
      /\ shown' = IF sim[s].last = status THEN shown ELSE status
  BY DEF UpdatesStatus
<1>2. sim[s] \in RunRec /\ sim \in [Sims -> RunRec]
  BY RunFacts DEF HealIInv, HealTypes
<1> DEFINE q == [sim[s] EXCEPT !.pc = to, !.last = status, !.deployed = "success"]
<1>3. /\ q \in RunRec /\ q.pc = to /\ q.rl = sim[s].rl /\ q.table = sim[s].table
      /\ q.alone = sim[s].alone /\ q.before = sim[s].before /\ q.last = status
  BY <1>2 DEF RunRec
<1>4. sim' = [sim EXCEPT ![s] = q]
  BY <1>1, <1>2
<1>5. QED
  BY <1>1, <1>3, <1>4

LEMMA ReportFoundStep == ASSUME HealIInv, NEW s \in Sims, ReportFound(s) PROVE HealIInv'
<1>1. /\ sim[s].pc = "report"
      /\ UNCHANGED <<where, data, backup, qtable, killed, raised, ruined, learned>>
  BY DEF ReportFound
<1>2. Under(s) /\ RunFits(s, sim[s]) /\ sim[s].pc \notin NotUnder
  BY <1>1, RunFacts DEF NotUnder
<1>3. PICK status \in {"UP", "DOWN"}, to \in {"save", "end", "heal"} :
        UpdatesStatus(s, status, to) /\ (to = "heal" <=> status = "DOWN")
  BY AfterHealingPoint DEF ReportFound
<1>4. to \in RunPoints
  BY DEF RunPoints
<1>5. PICK r \in RunRec :
        /\ sim' = [sim EXCEPT ![s] = r] /\ r.pc = to /\ r.rl = sim[s].rl
        /\ r.table = sim[s].table /\ r.alone = sim[s].alone
        /\ r.before = sim[s].before /\ r.last = status
  BY <1>3, <1>4, UpdatedRun
<1>6. shown' = IF sim[s].last = status THEN shown ELSE status
  BY <1>3, <1>4, UpdatedRun
<1>7. r.pc \notin NotUnder /\ r.pc # "new"
  BY <1>5 DEF NotUnder
<1>8. (\A u \in Sims \ {s} : sim'[u] = sim[u]) /\ sim'[s] = r
  BY <1>2, <1>5, <1>7, OneRunMoves
<1>9. shown' \in {"UP", "DOWN"} /\ StatusInv'
  <2>1. shown' \in {"UP", "DOWN"}
    BY <1>6, RunFacts
  <2>2. r.pc \in WhileHealing => r.last = "DOWN" /\ r.pc = "heal"
    BY <1>3, <1>5 DEF WhileHealing
  <2>3. sim[s].pc \notin WhileHealing
    BY <1>1 DEF WhileHealing
  <2>4. shown' = "DOWN" => r.pc = "heal" \/ shown = "DOWN"
    BY <1>3, <1>5, <1>6
  <2>5. "heal" \in WhileHealing
    BY DEF WhileHealing
  <2>6. ASSUME killed = 0, raised = 0, where.env # "prod"
        PROVE  /\ \A u \in Sims : sim'[u].pc \in WhileHealing => sim'[u].last = "DOWN"
               /\ \A u \in Sims : sim'[u].pc \in {"learn", "recover"}
                                    => sim'[u].status = "success"
               /\ shown' = "DOWN" => \E u \in Sims : sim'[u].pc \in WhileHealing
    BY <1>8, <2>2, <2>3, <2>4, <2>5, <2>6, <1>5 DEF HealIInv, StatusInv
  <2>7. QED
    BY <1>1, <2>1, <2>6 DEF StatusInv
<1>10. RunFits(s, r)'
  BY <1>1, <1>2, <1>5 DEF RunFits, BeforeReading, AfterWriting, WithRowsOf, RestoredOrFailed
<1>11. data' \in Datasets /\ raised' \in 0..MaxRaises /\ raised' >= raised
  BY <1>1, RunFacts
<1>12. sim[s].pc \notin BeforeReading \cup {"saving", "backup"}
  BY <1>1 DEF BeforeReading
<1>13. QED
  BY <1>1, <1>2, <1>5, <1>7, <1>9, <1>10, <1>11, <1>12, LiveStep

LEMMA ChooseStrategyStep ==
  ASSUME HealIInv, NEW s \in Sims, ChooseStrategy(s)
  PROVE  HealIInv'
<1>1. /\ UNCHANGED <<where, sharedFiles, killed, raised, ruined, learned>>
      /\ sim[s].pc = "heal"
  BY DEF ChooseStrategy, Healed, Step, Strategies
<1>2. Under(s) /\ sim[s] \in RunRec /\ RunFits(s, sim[s]) /\ sim[s].pc \notin NotUnder
  BY <1>1, RunFacts DEF NotUnder
<1>3. backup # Nobodys
  BY <1>1, <1>2 DEF HealIInv, BackupInv
<1>4. PICK strategy \in Strategies, status \in {"success", "refused", "none"},
           to \in {"learn", "redeploy", "restore"} :
        /\ Healed(s, strategy, status, to)
        /\ status = "refused" => where.env = "prod"
        /\ to = "learn" <=> status # "none"
        /\ strategy = "restore_previous_version" => to = "restore" \/ status = "refused"
  BY <1>3 DEF ChooseStrategy, RefusedInProd, Strategies
<1>5. PICK r \in RunRec :
        /\ sim' = [sim EXCEPT ![s] = r] /\ r.pc = to /\ r.rl = sim[s].rl
        /\ r.table = sim[s].table /\ r.alone = sim[s].alone /\ r.before = sim[s].before
        /\ r.strategy = strategy /\ r.status = status /\ r.last = sim[s].last
  <2> DEFINE q == [sim[s] EXCEPT !.pc = to, !.strategy = strategy, !.status = status]
  <2>1. /\ q \in RunRec /\ q.pc = to /\ q.rl = sim[s].rl
        /\ q.table = sim[s].table /\ q.alone = sim[s].alone /\ q.before = sim[s].before
        /\ q.strategy = strategy /\ q.status = status /\ q.last = sim[s].last
    BY <1>2 DEF RunRec, RunPoints
  <2>2. QED
    BY <1>4, <2>1 DEF Healed, Step
<1>6. /\ r.pc \notin NotUnder \cup BeforeReading \cup {"open", "write", "restoring", "saving"}
      /\ r.pc \in WhileHealing /\ sim[s].pc \in WhileHealing /\ sim[s].pc \in AfterWriting
      /\ sim[s].pc \notin BeforeReading \cup {"saving"} /\ sim[s].pc # "backup"
  BY <1>1, <1>5 DEF NotUnder, BeforeReading, WhileHealing, AfterWriting
<1>7. ~(r.pc \in {"redeploy", "learn", "recover"}
          /\ r.strategy = "restore_previous_version" /\ r.status # "refused")
      /\ (r.pc \in {"restore", "redeploy"} => r.status = "none")
  BY <1>4, <1>5
<1>8. ASSUME killed = 0, raised = 0, where.env # "prod"
      PROVE  r.last = "DOWN" /\ (r.pc \in {"learn", "recover"} => r.status = "success")
  BY <1>4, <1>5, <1>6, <1>8 DEF HealIInv, StatusInv
<1>9. QED
  BY <1>1, <1>2, <1>5, <1>6, <1>7, <1>8, QuietStep

LEMMA OpenRestoredStep == ASSUME HealIInv, NEW s \in Sims, OpenRestored(s) PROVE HealIInv'
<1>1. /\ Goes(s, "restore", "restoring") /\ data' = Emptied
      /\ UNCHANGED <<where, backup, qtable, shown, killed, raised, ruined, learned>>
  BY DEF OpenRestored
<1>2. Under(s) /\ sim[s].pc = "restore"
  BY <1>1, GoesTo DEF RunPoints, NotUnder
<1>3. PICK r \in RunRec :
        r.pc = "restoring" /\ Alike(r, sim[s]) /\ sim' = [sim EXCEPT ![s] = r]
  BY <1>1, GoesTo DEF RunPoints, NotUnder
<1>4. RunFits(s, r)'
  BY <1>1, <1>2, <1>3, RunFacts DEF RunFits, Alike, NotUnder, BeforeReading, AfterWriting
<1>5. data' \in Datasets /\ raised' \in 0..MaxRaises /\ raised' >= raised
  BY <1>1, RunFacts DEF Datasets
<1>6. /\ r.alone = sim[s].alone /\ r.pc \notin NotUnder \cup {"learn", "recover"}
      /\ r.last = sim[s].last /\ r.pc \in WhileHealing /\ sim[s].pc \in WhileHealing
      /\ sim[s].pc \notin BeforeReading \cup {"saving", "backup"}
  BY <1>2, <1>3 DEF NotUnder, BeforeReading, WhileHealing, Alike
<1>7. killed = 0 /\ raised' = 0 /\ where.env # "prod" => r.last = "DOWN"
  BY <1>1, <1>6 DEF HealIInv, StatusInv
<1>8. QED
  BY <1>1, <1>2, <1>3, <1>4, <1>5, <1>6, <1>7, LiveStep

LEMMA FillRestoredStep == ASSUME HealIInv, NEW s \in Sims, FillRestored(s) PROVE HealIInv'
<1>1. /\ Goes(s, "restoring", "redeploy")
      /\ data' \in IF backup = Emptied THEN {data} ELSE Overlaid(data, backup)
      /\ UNCHANGED <<where, backup, qtable, shown, killed, raised, ruined, learned>>
  BY DEF FillRestored
<1>2. Under(s) /\ sim[s].pc = "restoring"
  BY <1>1, GoesTo DEF RunPoints, NotUnder
<1>3. PICK r \in RunRec :
        r.pc = "redeploy" /\ Alike(r, sim[s]) /\ sim' = [sim EXCEPT ![s] = r]
  BY <1>1, GoesTo DEF RunPoints, NotUnder
<1>4. data \in Datasets /\ backup \in Datasets
  BY <1>2, RunFacts DEF HealIInv, BackupInv
<1>5. data' \in Datasets
  <2>1. CASE backup = Emptied
    BY <2>1, <1>1, <1>4
  <2>2. CASE backup # Emptied
    <3>1. data' \in Overlaid(data, backup) /\ backup \in Seq(Sims)
      BY <2>2, <1>1, <1>4 DEF Datasets
    <3>2. QED
      BY <3>1, <1>4, OverlaidFile DEF Datasets
  <2>3. QED
    BY <2>1, <2>2
<1>6. sim[s].alone =>
        /\ data = Emptied /\ backup = sim[s].before /\ backup \in Seq(Sims)
        /\ sim[s].status = "none"
        /\ (sim[s].rl => sim[s].table \ {s} = learned \ {s})
  BY <1>2, RunFacts DEF RunFits, NotUnder, BeforeReading
<1>7. ASSUME sim[s].alone PROVE data' = sim[s].before
  <2>1. backup # Emptied
    BY <1>6, <1>7, HealingAssumption
  <2>2. data' \in Overlaid(Emptied, backup)
    BY <1>1, <1>6, <1>7, <2>1
  <2>3. QED
    BY <1>6, <1>7, <2>2, OverlaidFile
<1>8. RunFits(s, r)'
  BY <1>1, <1>3, <1>6, <1>7 DEF RunFits, Alike, BeforeReading, AfterWriting, RestoredOrFailed
<1>9. raised' \in 0..MaxRaises /\ raised' >= raised
  BY <1>1, RunFacts
<1>10. /\ r.alone = sim[s].alone /\ r.pc \notin NotUnder \cup {"learn", "recover"}
       /\ r.last = sim[s].last /\ r.pc \in WhileHealing /\ sim[s].pc \in WhileHealing
       /\ sim[s].pc \notin BeforeReading \cup {"saving", "backup"}
  BY <1>2, <1>3 DEF NotUnder, BeforeReading, WhileHealing, Alike
<1>11. killed = 0 /\ raised' = 0 /\ where.env # "prod" => r.last = "DOWN"
  BY <1>1, <1>10 DEF HealIInv, StatusInv
<1>12. QED
  BY <1>1, <1>2, <1>3, <1>5, <1>8, <1>9, <1>10, <1>11, LiveStep

LEMMA RestoreFailsStep == ASSUME HealIInv, NEW s \in Sims, RestoreFails(s) PROVE HealIInv'
<1>1. PICK from \in {"restore", "restoring"} :
        Step(s, from, [sim[s] EXCEPT !.pc = "learn", !.status = "failure"])
  BY DEF RestoreFails
<1>2. /\ UNCHANGED <<where, sharedFiles, killed, ruined, learned>> /\ Raises
      /\ sim[s].pc = from
  BY <1>1 DEF RestoreFails, Step
<1>3. Under(s) /\ sim[s] \in RunRec /\ RunFits(s, sim[s]) /\ sim[s].pc \notin NotUnder
  BY <1>2, RunFacts DEF NotUnder
<1>4. PICK r \in RunRec :
        /\ sim' = [sim EXCEPT ![s] = r] /\ r.pc = "learn" /\ r.rl = sim[s].rl
        /\ r.table = sim[s].table /\ r.alone = sim[s].alone /\ r.before = sim[s].before
        /\ r.strategy = sim[s].strategy /\ r.status = "failure" /\ r.last = sim[s].last
  <2> DEFINE q == [sim[s] EXCEPT !.pc = "learn", !.status = "failure"]
  <2>1. /\ q \in RunRec /\ q.pc = "learn" /\ q.rl = sim[s].rl
        /\ q.table = sim[s].table /\ q.alone = sim[s].alone /\ q.before = sim[s].before
        /\ q.strategy = sim[s].strategy /\ q.status = "failure" /\ q.last = sim[s].last
    BY <1>3 DEF RunRec, RunPoints
  <2>2. QED
    BY <1>1, <2>1 DEF Step
<1>5. /\ r.pc \notin NotUnder \cup BeforeReading \cup {"open", "write", "restoring", "saving"}
      /\ r.pc \in WhileHealing /\ sim[s].pc \in WhileHealing /\ r.pc \notin AfterWriting
      /\ sim[s].pc \notin BeforeReading \cup {"saving"} /\ sim[s].pc # "backup"
  BY <1>2, <1>4 DEF NotUnder, BeforeReading, WhileHealing, AfterWriting
<1>6. raised' # 0
  BY <1>2, RunFacts DEF Raises
<1>7. r.alone => RestoredOrFailed(s, r)
  BY <1>2, <1>3, <1>4 DEF RunFits, RestoredOrFailed, AfterWriting
<1>8. QED
  BY <1>2, <1>3, <1>4, <1>5, <1>6, <1>7, QuietStep

LEMMA RedeployStep == ASSUME HealIInv, NEW s \in Sims, Redeploy(s) PROVE HealIInv'
<1>1. /\ UNCHANGED <<where, sharedFiles, killed, ruined, learned>>
      /\ sim[s].pc = "redeploy"
  BY DEF Redeploy, Step
<1>2. Under(s) /\ sim[s] \in RunRec /\ RunFits(s, sim[s]) /\ sim[s].pc \notin NotUnder
  BY <1>1, RunFacts DEF NotUnder
<1>3. PICK status \in {"success", "failure"} :
        /\ Step(s, "redeploy", [sim[s] EXCEPT !.pc = "learn", !.status = status])
        /\ raised' = raised \/ Raises
        /\ status = "failure" => Raises
  BY DEF Redeploy
<1>4. PICK r \in RunRec :
        /\ sim' = [sim EXCEPT ![s] = r] /\ r.pc = "learn" /\ r.rl = sim[s].rl
        /\ r.table = sim[s].table /\ r.alone = sim[s].alone /\ r.before = sim[s].before
        /\ r.strategy = sim[s].strategy /\ r.status = status /\ r.last = sim[s].last
  <2> DEFINE q == [sim[s] EXCEPT !.pc = "learn", !.status = status]
  <2>1. /\ q \in RunRec /\ q.pc = "learn" /\ q.rl = sim[s].rl
        /\ q.table = sim[s].table /\ q.alone = sim[s].alone /\ q.before = sim[s].before
        /\ q.strategy = sim[s].strategy /\ q.status = status /\ q.last = sim[s].last
    BY <1>2 DEF RunRec, RunPoints
  <2>2. QED
    BY <1>3, <2>1 DEF Step
<1>5. /\ r.pc \notin NotUnder \cup BeforeReading \cup {"open", "write", "restoring", "saving"}
      /\ r.pc \in WhileHealing /\ sim[s].pc \in WhileHealing
      /\ r.pc \notin AfterWriting \cup {"redeploy"}
      /\ sim[s].pc \notin BeforeReading \cup {"saving"} /\ sim[s].pc # "backup"
  BY <1>1, <1>4 DEF NotUnder, BeforeReading, WhileHealing, AfterWriting
<1>6. ASSUME killed = 0, raised' = 0, where.env # "prod"
      PROVE  r.last = "DOWN" /\ r.status = "success"
  <2>1. raised = 0 /\ status = "success"
    BY <1>3, <1>6, RunFacts DEF Raises
  <2>2. QED
    BY <1>4, <1>5, <1>6, <2>1 DEF HealIInv, StatusInv
<1>7. r.alone /\ r.strategy = "restore_previous_version" => RestoredOrFailed(s, r)
  <2> SUFFICES ASSUME r.alone, r.strategy = "restore_previous_version"
               PROVE  data = r.before
    BY DEF RestoredOrFailed
  <2>1. sim[s].status = "none"
    BY <1>1, <1>2, <1>4 DEF RunFits
  <2>2. RestoredOrFailed(s, sim[s])
    BY <1>1, <1>2, <1>4, <2>1 DEF RunFits
  <2>3. QED
    BY <1>4, <2>1, <2>2 DEF RestoredOrFailed
<1>8. QED
  BY <1>1, <1>2, <1>3, <1>4, <1>5, <1>6, <1>7, QuietStep

LEMMA LearnStep == ASSUME HealIInv, NEW s \in Sims, Learn(s) PROVE HealIInv'
<1>1. /\ UNCHANGED <<where, sharedFiles, killed, raised, ruined, learned>>
      /\ sim[s].pc = "learn"
  BY DEF Learn, Step
<1>2. Under(s) /\ sim[s] \in RunRec /\ RunFits(s, sim[s]) /\ sim[s].pc \notin NotUnder
  BY <1>1, RunFacts DEF NotUnder
<1>3. PICK r \in RunRec :
        /\ sim' = [sim EXCEPT ![s] = r] /\ r.pc = "recover" /\ r.rl = sim[s].rl
        /\ r.table \in {sim[s].table, sim[s].table \cup {s}}
        /\ r.alone = sim[s].alone /\ r.before = sim[s].before
        /\ r.strategy = sim[s].strategy /\ r.status = sim[s].status /\ r.last = sim[s].last
  <2> DEFINE table == IF sim[s].rl THEN sim[s].table \cup {s} ELSE sim[s].table
             q == [sim[s] EXCEPT !.pc = "recover", !.table = table]
  <2>1. table \in Tables /\ table \in {sim[s].table, sim[s].table \cup {s}}
    BY <1>2 DEF RunRec, Tables
  <2>2. "recover" \in RunPoints
    BY DEF RunPoints
  <2>3. /\ q \in RunRec /\ q.pc = "recover" /\ q.rl = sim[s].rl /\ q.table = table
        /\ q.alone = sim[s].alone /\ q.before = sim[s].before
        /\ q.strategy = sim[s].strategy /\ q.status = sim[s].status /\ q.last = sim[s].last
    <3> HIDE DEF table
    <3> QED
      BY <1>2, <2>1, <2>2 DEF RunRec
  <2>4. sim' = [sim EXCEPT ![s] = q]
    BY DEF Learn, Step
  <2>5. QED
    BY <2>1, <2>3, <2>4
<1>4. /\ r.pc \notin NotUnder \cup BeforeReading \cup {"open", "write", "restoring", "saving"}
      /\ r.pc \in WhileHealing /\ sim[s].pc \in WhileHealing
      /\ r.pc \notin AfterWriting \cup {"redeploy"}
      /\ sim[s].pc \notin BeforeReading \cup {"saving"} /\ sim[s].pc # "backup"
  BY <1>1, <1>3 DEF NotUnder, BeforeReading, WhileHealing, AfterWriting
<1>5. ASSUME killed = 0, raised' = 0, where.env # "prod"
      PROVE  r.last = "DOWN" /\ r.status = "success"
  BY <1>1, <1>3, <1>4, <1>5 DEF HealIInv, StatusInv
<1>6. r.alone /\ r.strategy = "restore_previous_version" /\ r.status # "refused"
        => RestoredOrFailed(s, r)
  BY <1>1, <1>2, <1>3 DEF RunFits, RestoredOrFailed
<1>7. r.table \ {s} = sim[s].table \ {s}
  BY <1>3
<1>8. QED
  BY <1>1, <1>2, <1>3, <1>4, <1>5, <1>6, <1>7, QuietStep

LEMMA ReportHealedStep == ASSUME HealIInv, NEW s \in Sims, ReportHealed(s) PROVE HealIInv'
<1>1. /\ sim[s].pc = "recover"
      /\ UNCHANGED <<where, data, backup, qtable, killed, raised, ruined, learned>>
  BY DEF ReportHealed
<1>2. Under(s) /\ RunFits(s, sim[s]) /\ sim[s].pc \notin NotUnder
  BY <1>1, RunFacts DEF NotUnder
<1>3. AfterHealing(s) \in RunPoints /\ AfterHealing(s) \in {"save", "end"}
  BY AfterHealingPoint DEF RunPoints
<1>4. PICK r \in RunRec :
        /\ sim' = [sim EXCEPT ![s] = r] /\ r.pc \in {"save", "end"} /\ r.rl = sim[s].rl
        /\ r.table = sim[s].table /\ r.alone = sim[s].alone
        /\ r.before = sim[s].before
  <2>1. CASE sim[s].status = "success"
    <3>1. UpdatesStatus(s, "UP", AfterHealing(s))
      BY <2>1 DEF ReportHealed
    <3>2. QED
      BY <1>3, <3>1, UpdatedRun
  <2>2. CASE sim[s].status # "success"
    <3>1. Goes(s, "recover", AfterHealing(s))
      BY <2>2 DEF ReportHealed
    <3>2. "recover" \in RunPoints \ NotUnder
      BY DEF RunPoints, NotUnder
    <3>3. QED
      BY <1>3, <3>1, <3>2, GoesTo DEF Alike
  <2>3. QED
    BY <2>1, <2>2
<1>5. /\ shown' \in {"UP", "DOWN"}
      /\ sim[s].status = "success" /\ sim[s].last = "DOWN" => shown' = "UP"
  <2>1. CASE sim[s].status = "success"
    <3>1. UpdatesStatus(s, "UP", AfterHealing(s))
      BY <2>1 DEF ReportHealed
    <3>2. shown' = IF sim[s].last = "UP" THEN shown ELSE "UP"
      BY <3>1 DEF UpdatesStatus
    <3>3. QED
      BY <3>2, RunFacts
  <2>2. CASE sim[s].status # "success"
    BY <2>2, RunFacts DEF ReportHealed
  <2>3. QED
    BY <2>1, <2>2
<1>6. r.pc \notin NotUnder /\ r.pc # "new" /\ r.pc \notin WhileHealing \cup {"learn", "recover"}
  BY <1>4 DEF NotUnder, WhileHealing
<1>7. (\A u \in Sims \ {s} : sim'[u] = sim[u]) /\ sim'[s] = r
  BY <1>2, <1>4, <1>6, OneRunMoves
<1>8. StatusInv'
  <2>1. sim[s].pc \in WhileHealing
    BY <1>1 DEF WhileHealing
  <2>2. ASSUME killed = 0, raised = 0, where.env # "prod"
        PROVE  /\ \A u \in Sims : sim'[u].pc \in WhileHealing => sim'[u].last = "DOWN"
               /\ \A u \in Sims : sim'[u].pc \in {"learn", "recover"}
                                    => sim'[u].status = "success"
               /\ shown' = "UP"
    <3>1. sim[s].status = "success" /\ sim[s].last = "DOWN"
      BY <1>1, <2>1, <2>2 DEF HealIInv, StatusInv
    <3>2. QED
      BY <1>5, <1>6, <1>7, <2>2, <3>1 DEF HealIInv, StatusInv
  <2>3. QED
    BY <1>1, <2>2 DEF StatusInv
<1>9. RunFits(s, r)'
  BY <1>1, <1>2, <1>4 DEF RunFits, BeforeReading, AfterWriting
<1>10. data' \in Datasets /\ raised' \in 0..MaxRaises /\ raised' >= raised
  BY <1>1, RunFacts
<1>11. sim[s].pc \notin BeforeReading \cup {"saving", "backup"}
  BY <1>1 DEF BeforeReading
<1>12. QED
  BY <1>1, <1>2, <1>4, <1>5, <1>6, <1>8, <1>9, <1>10, <1>11, LiveStep

LEMMA OpenTableStep == ASSUME HealIInv, NEW s \in Sims, OpenTable(s) PROVE HealIInv'
<1>1. /\ Goes(s, "save", "saving") /\ qtable' = Emptied
      /\ UNCHANGED <<where, data, backup, shown, killed, raised, ruined, learned>>
  BY DEF OpenTable
<1>2. Under(s) /\ sim[s].pc = "save"
  BY <1>1, GoesTo DEF RunPoints, NotUnder
<1>3. PICK r \in RunRec : r.pc = "saving" /\ Alike(r, sim[s]) /\ sim' = [sim EXCEPT ![s] = r]
  BY <1>1, GoesTo DEF RunPoints, NotUnder
<1>4. RunFits(s, r)'
  BY <1>1, <1>2, <1>3, RunFacts DEF RunFits, Alike, NotUnder, BeforeReading, AfterWriting
<1>5. data' \in Datasets /\ raised' \in 0..MaxRaises /\ raised' >= raised
      /\ learned' \in Tables /\ learned' = learned
  BY <1>1, RunFacts
<1>6. r.alone = sim[s].alone /\ r.pc \notin NotUnder \cup WhileHealing \cup {"learn", "recover"}
      /\ sim[s].pc \notin BeforeReading \cup WhileHealing \cup {"backup"} /\ r.pc # "new"
  BY <1>2, <1>3 DEF NotUnder, BeforeReading, WhileHealing, Alike
<1>7. TableInv' /\ qtable' \in Tables \cup {Emptied, Nobodys}
  <2>1. sim'[s].pc = "saving"
    BY <1>2, <1>3, <1>6, OneRunMoves
  <2>2. QED
    BY <1>1, <2>1, HealingAssumption DEF TableInv
<1>8. QED
  BY <1>1, <1>2, <1>3, <1>4, <1>5, <1>6, <1>7, LiveStep

LEMMA SaveTableStep == ASSUME HealIInv, NEW s \in Sims, SaveTable(s) PROVE HealIInv'
<1>1. /\ Goes(s, "saving", "end") /\ learned' = qtable'
      /\ qtable' \in {sim[s].table, sim[s].table \cup {Muddled}}
      /\ qtable = Emptied => qtable' = sim[s].table
      /\ UNCHANGED <<where, data, backup, shown, killed, raised, ruined>>
  BY DEF SaveTable
<1>2. Under(s) /\ sim[s].pc = "saving"
  BY <1>1, GoesTo DEF RunPoints, NotUnder
<1>3. PICK r \in RunRec : r.pc = "end" /\ Alike(r, sim[s]) /\ sim' = [sim EXCEPT ![s] = r]
  BY <1>1, GoesTo DEF RunPoints, NotUnder
<1>4. RunFits(s, r)'
  <2>1. RunFits(s, sim[s]) /\ sim[s].pc \notin NotUnder
    BY <1>2, RunFacts
  <2>2. r.alone => qtable' = sim[s].table
    BY <1>1, <1>2, <1>3, <2>1 DEF RunFits, Alike
  <2>3. QED
    BY <1>1, <1>2, <1>3, <2>1, <2>2 DEF RunFits, Alike, NotUnder, BeforeReading, AfterWriting
<1>5. data' \in Datasets /\ raised' \in 0..MaxRaises /\ raised' >= raised
  BY <1>1, RunFacts
<1>6. r.alone = sim[s].alone /\ r.pc \notin NotUnder \cup WhileHealing \cup {"learn", "recover"}
      /\ sim[s].pc \notin BeforeReading \cup WhileHealing \cup {"backup"}
  BY <1>2, <1>3 DEF NotUnder, BeforeReading, WhileHealing, Alike
<1>7. /\ TableInv' /\ qtable' \in Tables \cup {Emptied, Nobodys}
      /\ learned' \in Tables
  <2>1. sim[s].table \in Tables
    BY RunFacts DEF RunRec
  <2>2. qtable' \in Tables
    BY <1>1, <2>1 DEF Tables
  <2>3. QED
    BY <1>1, <2>2, HealingAssumption DEF TableInv
<1>8. QED
  BY <1>1, <1>2, <1>3, <1>4, <1>5, <1>6, <1>7, LiveStep

LEMMA EndRunStep == ASSUME HealIInv, NEW s \in Sims, EndRun(s) PROVE HealIInv'
<1>1. Under(s) /\ sim[s].pc \notin WhileHealing \cup {"saving"}
  BY DEF EndRun, Under, WhileHealing
<1>2. /\ killed' \in 0..MaxSimKills /\ killed' = killed
      /\ raised' \in 0..MaxRaises /\ raised' >= raised
  BY RunFacts DEF EndRun
<1>3. QED
  BY <1>1, <1>2, OverStep DEF EndRun

LEMMA RunRaisesStep == ASSUME HealIInv, NEW s \in Sims, RunRaises(s) PROVE HealIInv'
<1>1. Under(s) /\ sim[s].pc # "saving"
  BY DEF RunRaises, Under
<1>2. /\ killed' \in 0..MaxSimKills /\ raised' \in 0..MaxRaises /\ raised' >= raised
      /\ raised' # 0
  BY RunFacts, HealingAssumption DEF RunRaises, Raises
<1>3. QED
  BY <1>1, <1>2, OverStep DEF RunRaises, Dies

LEMMA KillRunStep == ASSUME HealIInv, NEW s \in Sims, KillRun(s) PROVE HealIInv'
<1>1. /\ Under(s) /\ sim' = [sim EXCEPT ![s] = Over(s, "died")]
      /\ ruined' = (ruined \/ (data = Emptied /\ \A u \in Sims \ {s} : ~Under(u)))
      /\ UNCHANGED <<where, sharedFiles>> /\ raised' = raised
      /\ learned' = IF sim[s].pc = "saving" /\ qtable = Emptied THEN {} ELSE learned
  BY DEF KillRun, Dies
<1>2. /\ killed' \in 0..MaxSimKills /\ raised' \in 0..MaxRaises /\ raised' >= raised
      /\ killed' # 0
  BY <1>1, RunFacts, HealingAssumption DEF KillRun
<1>3. TableInv' /\ learned' \in Tables
  <2>1. /\ qtable = Nobodys => learned = {}
        /\ qtable = Emptied => learned = {} \/ \E u \in Sims : sim[u].pc = "saving"
        /\ qtable \notin {Nobodys, Emptied} => learned = qtable
    BY DEF HealIInv, TableInv
  <2>2. qtable' = qtable
    BY <1>1 DEF sharedFiles
  <2>3. \A u \in Sims \ {s} : sim'[u] = sim[u]
    BY <1>1 DEF HealIInv, HealTypes
  <2>4. learned \in Tables
    BY RunFacts
  <2>5. CASE sim[s].pc = "saving" /\ qtable = Emptied
    BY <1>1, <2>2, <2>5, HealingAssumption DEF TableInv, Tables
  <2>6. CASE ~(sim[s].pc = "saving" /\ qtable = Emptied)
    <3>1. learned' = learned
      BY <1>1, <2>6
    <3>2. qtable = Emptied => learned = {} \/ \E u \in Sims : sim'[u].pc = "saving"
      BY <2>1, <2>3, <2>6
    <3>3. QED
      BY <2>1, <2>2, <2>4, <3>1, <3>2 DEF TableInv
  <2>7. QED
    BY <2>5, <2>6
<1>4. QED
  BY <1>1, <1>2, <1>3, OverStep

LEMMA HealStepIInv == HealIInv /\ [HealNext]_simVars => HealIInv'
<1> SUFFICES ASSUME HealIInv, [HealNext]_simVars PROVE HealIInv'
  OBVIOUS
<1>1. CASE HealNext
  <2> SUFFICES ASSUME NEW s \in Sims, RunStep(s) PROVE HealIInv'
    BY <1>1 DEF HealNext
  <2>1. CASE StartRun(s) \/ OpenBackup(s) \/ FillBackup(s) \/ ReadData(s) \/ OpenData(s)
             \/ WriteData(s)
    BY <2>1, StartRunStep, OpenBackupStep, FillBackupStep, ReadDataStep, OpenDataStep,
       WriteDataStep
  <2>2. CASE DetectFirst(s) \/ Deploy(s) \/ DetectSecond(s) \/ ReportFound(s)
    BY <2>2, DetectStep, DeployStep, ReportFoundStep
  <2>3. CASE ChooseStrategy(s) \/ OpenRestored(s) \/ FillRestored(s) \/ RestoreFails(s)
             \/ Redeploy(s)
    BY <2>3, ChooseStrategyStep, OpenRestoredStep, FillRestoredStep, RestoreFailsStep,
       RedeployStep
  <2>4. CASE Learn(s) \/ ReportHealed(s) \/ OpenTable(s) \/ SaveTable(s)
    BY <2>4, LearnStep, ReportHealedStep, OpenTableStep, SaveTableStep
  <2>5. CASE EndRun(s) \/ RunRaises(s) \/ KillRun(s)
    BY <2>5, EndRunStep, RunRaisesStep, KillRunStep
  <2>6. QED
    BY <2>1, <2>2, <2>3, <2>4, <2>5 DEF RunStep
<1>2. CASE UNCHANGED simVars
  <2>1. UNCHANGED <<where, data, backup, qtable, shown, sim, killed, raised, ruined, learned>>
    BY <1>2 DEF simVars, sharedFiles
  <2>2. /\ HealTypes' /\ AloneInv' /\ BackupInv' /\ AloneRunsFit'
    BY <2>1
      DEF HealIInv, HealTypes, AloneInv, BackupInv, AloneRunsFit, RunFits, Under, WithRowsOf,
          RestoredOrFailed
  <2>3. RuinInv' /\ TableInv' /\ StatusInv'
    BY <2>1 DEF HealIInv, RuinInv, TableInv, StatusInv, Under
  <2>4. QED
    BY <2>2, <2>3 DEF HealIInv
<1>3. QED
  BY <1>1, <1>2

LEMMA HealingFollows == HealIInv => HealingIsSound
<1> SUFFICES ASSUME HealIInv PROVE HealingIsSound
  OBVIOUS
<1>1. \A s \in Sims : /\ sim[s] \in RunRec /\ RunFits(s, sim[s])
                      /\ Under(s) <=> sim[s].pc \notin NotUnder
  BY RunFacts
<1>2. HealTypeOK
  BY <1>1 DEF HealIInv, HealTypes, HealTypeOK, RunRec, Datasets
<1>3. RestoreUndoesTheRun
  BY <1>1 DEF RestoreUndoesTheRun, RunFits, NotUnder, RestoredOrFailed
<1>4. RuinIsFinal
  BY DEF HealIInv, RuinInv, RuinIsFinal
<1>5. LearningIsKept
  BY <1>1 DEF LearningIsKept, RunFits
<1>6. DownIsFounded
  <2> SUFFICES ASSUME Still, shown = "DOWN", ~(killed > 0 \/ raised > 0 \/ where.env = "prod")
               PROVE  FALSE
    BY DEF DownIsFounded
  <2>1. killed = 0 /\ raised = 0
    BY HealingAssumption DEF HealIInv, HealTypes
  <2>2. PICK s \in Sims : sim[s].pc \in WhileHealing
    BY <2>1 DEF HealIInv, StatusInv
  <2>3. Under(s)
    BY <2>2, <1>1 DEF WhileHealing, NotUnder
  <2>4. QED
    BY <2>3 DEF Still
<1>7. QED
  BY <1>2, <1>3, <1>4, <1>5, <1>6 DEF HealingIsSound

\* What the runs of the simulation leave behind, for any number of them: a restore undoes
\* what its own run has added, unless another run was under way, or says that it failed; an
\* empty dataset is final; the table keeps what was learned; and DOWN is shown only for a
\* reason (AutoHealAgent, IssueDetector, RLTrainer, UptimeMonitor).
THEOREM HealingStaysSound == HealSpec => []HealingIsSound
<1>1. HealInit => HealIInv
  BY HealInitIInv
<1>2. HealIInv /\ [HealNext]_simVars => HealIInv'
  BY HealStepIInv
<1>3. HealIInv => HealingIsSound
  BY HealingFollows
<1>4. QED
  BY <1>1, <1>2, <1>3, PTL DEF HealSpec

--------------------------------------------------------------------------------
(* SovereignBus.                                                                 *)

LogTypes ==
  /\ events \in Seq([by : Publishers, on : Topics]) /\ LastEvent <= MaxMessages
  /\ message_log \in [Publishers -> Seq(Numbers)]
  /\ bus_file \in Seq(Numbers) \cup {BrokenLog}
  /\ publisher \in [Publishers -> {"off", "up", "open", "write", "keep", "notify"}]
  /\ viewer \in [on : BOOLEAN, last_count : Nat, first : Nat]
  /\ printed \in [Numbers -> Nat]
  /\ crowded \in BOOLEAN /\ unsaved \in BOOLEAN
  /\ cutOff \in 0..MaxCutOff /\ failed \in 0..MaxFailed
HomeTypes ==
  /\ messages \in Seq(Numbers)
  /\ listens \in [Callbacks -> [to : Topics \cup {NoTopic}, from : Nat]]
  /\ walk \in [Callbacks -> [pc : {"none", "new", "walk", "pop", "ended"},
                             todo : Seq(Numbers), at : Nat]]
  /\ heard \in [Callbacks -> [Numbers -> Nat]] /\ late \in [Callbacks -> SUBSET Numbers]
  /\ forgotten \subseteq Numbers /\ unheard \subseteq Numbers /\ raised_by \subseteq Callbacks

\* The numbers in a log are of messages, and rise.
Rising(log) ==
  /\ \A i \in 1..Len(log) : log[i] \in 1..LastEvent
  /\ \A i, j \in 1..Len(log) : i < j => log[i] < log[j]
LogsInv ==
  /\ \A p \in Publishers : Rising(message_log[p])
  /\ Rising(LogContent) /\ Len(LogContent) <= LogLimit

\* What may be read from the file, now or when a process has saved its log: where two of
\* these have a message at different places, the one that has it further to the front is full.
Views == {Saved(message_log[p]) : p \in Publishers} \cup {LogContent}
Agree(v, w) ==
  \A i \in 1..Len(v), j \in 1..Len(w) : v[i] = w[j] /\ i < j => Len(v) = LogLimit
ViewsInv == \A v, w \in Views : Agree(v, w)

\* A message that was printed is not behind those that were counted, in any of them.
PrintedInv ==
  /\ \A m \in Numbers : printed[m] \in {0, 1} /\ (printed[m] = 1 => viewer.on /\ m <= LastEvent)
  /\ \A v \in Views : \A i \in 1..Len(v) : printed[v[i]] = 1 => i <= viewer.last_count

\* The newest of n messages, as many as the file may hold.
Held(n) == IF n < LogLimit THEN n ELSE LogLimit
Newest(log, n) ==
  Len(log) = Held(n) /\ \A i \in 1..Held(n) : log[i] = n - Held(n) + i

\* Of processes that come one after another: the log of the one that runs, and the file,
\* which is older than the log, or broken, after a save that failed.
LoneInv ==
  ~crowded =>
    /\ \A p, q \in Running : p = q
    /\ unsaved => Running # {}
    /\ bus_file = BrokenLog => unsaved \/ \E p \in Publishers : publisher[p] = "write"
    /\ bus_file # BrokenLog => \E n \in 0..LastEvent : Newest(bus_file, n)
    /\ bus_file # BrokenLog /\ ~unsaved =>
         Newest(bus_file, IF \E p \in Publishers : publisher[p] = "open" THEN LastEvent - 1
                          ELSE LastEvent)
    /\ \A p \in Running :
         /\ Len(message_log[p]) >= Held(LastEvent)
         /\ \A i \in 1..Len(message_log[p]) :
              message_log[p][i] = LastEvent - Len(message_log[p]) + i
    /\ \A p \in Publishers : publisher[p] = "open" => LastEvent > 0
ViewerInv ==
  ~crowded /\ LastEvent <= LogLimit /\ viewer.on =>
    /\ viewer.first <= viewer.last_count /\ viewer.last_count <= LastEvent
    /\ \A m \in Numbers : printed[m] = 1 <=> m \in viewer.first + 1 .. viewer.last_count

LogIInv == LogTypes /\ LogsInv /\ ViewsInv /\ PrintedInv /\ LoneInv /\ ViewerInv

\* The message that Home is publishing, until its listeners are called, and until it is kept.
InHand == IF publisher[Home] \in {"open", "write", "keep", "notify"} THEN {Newcomer} ELSE {}
Unkept == IF publisher[Home] \in {"open", "write", "keep"} THEN {Newcomer} ELSE {}
HandInv ==
  /\ unheard \subseteq 1..LastEvent
  /\ publisher[Home] \in {"open", "write", "keep", "notify"} =>
       /\ message_log[Home] # <<>> /\ events[Newcomer].by = Home /\ Newcomer \notin unheard
       /\ \A m \in Newcomer + 1 .. LastEvent : events[m].by # Home
       /\ \A k \in Callbacks : listens[k].to # NoTopic => listens[k].from < Newcomer

OfHome(list) == \A i \in 1..Len(list) : events[list[i]].by = Home
Has(list, m) == \E i \in 1..Len(list) : list[i] = m
MessagesInv ==
  /\ Rising(messages) /\ OfHome(messages)
  /\ \A m \in Unkept : ~Has(messages, m)
  /\ \A m \in 1..LastEvent :
       events[m].by = Home => m \in Unkept \cup forgotten \/ Has(messages, m)

\* A thread walks over what was kept at the time of its look: all from before the
\* subscription that was not taken out, and of the rest what came before the look.
ThreadInv(k) ==
  LET w == walk[k] from == listens[k].from
  IN /\ from <= LastEvent /\ w.at >= 1
     /\ listens[k].to = NoTopic <=> w.pc = "none"
     /\ w.pc \in {"none", "new"} => w.todo = <<>> /\ w.at = 1
     /\ w.pc = "new" =>
          \A i \in 1..Len(messages) : messages[i] > from => messages[i] \in late[k]
     /\ Rising(w.todo) /\ OfHome(w.todo)
     /\ \A i \in 1..Len(w.todo) : w.todo[i] > from => w.todo[i] \in late[k]
     /\ w.pc \in {"walk", "pop", "ended"} =>
          \A m \in 1..from : events[m].by = Home => m \in forgotten \/ Has(w.todo, m)
     /\ w.pc = "ended" => k \in raised_by \/ w.at > Len(w.todo)
ThreadsInv == \A k \in Callbacks : ThreadInv(k)

\* How often a callback has been called: as a listener, unless the publication raised, and
\* by its thread.
NotifiedOf(k, m) ==
  /\ listens[k].to # NoTopic /\ m \in 1..LastEvent /\ m > listens[k].from
  /\ events[m] = [by |-> Home, on |-> listens[k].to] /\ m \notin InHand \cup unheard
HandedTo(k, m) ==
  LET w == walk[k]
  IN \E i \in 1..Len(w.todo) :
       /\ w.todo[i] = m /\ events[m].on = listens[k].to
       /\ i < w.at \/ (i = w.at /\ w.pc \in {"pop", "ended"})
HeardInv ==
  \A k \in Callbacks, m \in Numbers :
    heard[k][m] = (IF NotifiedOf(k, m) THEN 1 ELSE 0) + (IF HandedTo(k, m) THEN 1 ELSE 0)

HomeIInv == HomeTypes /\ HandInv /\ MessagesInv /\ ThreadsInv /\ HeardInv

-----------------------------------------------------------------------------

Cut(log) == IF Len(log) > LogLimit THEN Len(log) - LogLimit ELSE 0

LEMMA SavedLog ==
  ASSUME NEW log \in Seq(Numbers)
  PROVE  /\ Cut(log) \in Nat /\ Len(log) \in Nat
         /\ Saved(log) \in Seq(Numbers) /\ Len(Saved(log)) = Len(log) - Cut(log)
         /\ Len(Saved(log)) <= LogLimit
         /\ \A i \in 1..Len(Saved(log)) : i + Cut(log) \in 1..Len(log)
                                          /\ Saved(log)[i] = log[i + Cut(log)]
         /\ Len(log) <= LogLimit => Saved(log) = log
<1>1. LogLimit \in Nat \ {0} /\ Len(log) \in Nat
  BY SovereignAssumption
<1>2. Cut(log) \in Nat /\ Cut(log) <= Len(log) /\ Len(log) - Cut(log) <= LogLimit
  BY <1>1 DEF Cut
<1>3. Saved(log) = SubSeq(log, Cut(log) + 1, Len(log))
  BY <1>1 DEF Saved, Cut
<1> HIDE DEF Cut
<1>4. /\ Saved(log) \in Seq(Numbers) /\ Len(Saved(log)) = Len(log) - Cut(log)
      /\ \A i \in 1..Len(Saved(log)) : i + Cut(log) \in 1..Len(log)
                                       /\ Saved(log)[i] = log[i + Cut(log)]
  BY <1>1, <1>2, <1>3
<1>5. Len(log) <= LogLimit => Cut(log) = 0
  BY <1>1 DEF Cut
<1>6. ASSUME Len(log) <= LogLimit PROVE Saved(log) = log
  BY <1>1, <1>3, <1>5, <1>6
<1>7. QED
  BY <1>1, <1>2, <1>4, <1>6

LEMMA LogFacts ==
  ASSUME LogIInv
  PROVE  /\ LastEvent \in Nat /\ LogLimit \in Nat \ {0} /\ MaxMessages \in Nat
         /\ Numbers \subseteq Nat /\ LastEvent <= MaxMessages
         /\ LogContent \in Seq(Numbers) /\ Len(LogContent) \in Nat
         /\ \A p \in Publishers : /\ message_log[p] \in Seq(Numbers)
                                  /\ Len(message_log[p]) \in Nat
         /\ \A v \in Views : v \in Seq(Numbers) /\ Len(v) \in Nat /\ Len(v) <= LogLimit
         /\ viewer.last_count \in Nat /\ viewer.first \in Nat
<1>1. LogContent \in Seq(Numbers)
  BY DEF LogIInv, LogTypes, LogContent
<1>2. \A p \in Publishers : message_log[p] \in Seq(Numbers)
  BY DEF LogIInv, LogTypes
<1>3. ASSUME NEW v \in Views PROVE v \in Seq(Numbers) /\ Len(v) \in Nat /\ Len(v) <= LogLimit
  <2>1. CASE v = LogContent
    BY <1>1, <2>1 DEF LogIInv, LogsInv
  <2>2. CASE \E p \in Publishers : v = Saved(message_log[p])
    BY <1>2, <2>2, SavedLog
  <2>3. QED
    BY <2>1, <2>2 DEF Views
<1>4. QED
  BY <1>1, <1>2, <1>3, SovereignAssumption DEF LogIInv, LogTypes, LastEvent, Numbers

\* No new content of the file: what may be read is what might have been read.
LEMMA ViewsKept ==
  ASSUME LogIInv, Views' \subseteq Views \cup {<<>>}, viewer' = viewer, printed' = printed,
         events' = events
  PROVE  ViewsInv' /\ PrintedInv'
<1>1. \A v, w \in Views : Agree(v, w)
  BY DEF LogIInv, ViewsInv
<1>2. \A v : Agree(v, <<>>) /\ Agree(<<>>, v)
  BY DEF Agree
<1>3. ViewsInv'
  BY <1>1, <1>2 DEF ViewsInv, Agree
<1>4. \A v \in Views : \A i \in 1..Len(v) : printed[v[i]] = 1 => i <= viewer.last_count
  BY DEF LogIInv, PrintedInv
<1>5. \A v \in Views' : \A i \in 1..Len(v) : printed[v[i]] = 1 => i <= viewer.last_count
  BY <1>4
<1>6. PrintedInv'
  BY <1>5 DEF LogIInv, PrintedInv, LastEvent, Numbers
<1>7. QED
  BY <1>3, <1>6

LEMMA LogInit == SovInit => LogIInv
<1> SUFFICES ASSUME SovInit PROVE LogIInv
  OBVIOUS
<1>1. /\ events = <<>> /\ LastEvent = 0 /\ LogContent = <<>> /\ crowded = FALSE /\ cutOff = 0
      /\ unsaved = FALSE /\ failed = 0
      /\ message_log = [p \in Publishers |-> <<>>] /\ bus_file = <<>>
      /\ publisher = [p \in Publishers |-> "off"]
      /\ viewer = [on |-> FALSE, last_count |-> 0, first |-> 0]
      /\ printed = [m \in Numbers |-> 0]
  BY DEF SovInit, LastEvent, LogContent
<1>2. LogTypes
  <2>1. <<>> \in Seq(Numbers) /\ <<>> \in Seq([by : Publishers, on : Topics])
    OBVIOUS
  <2>2. message_log \in [Publishers -> Seq(Numbers)]
    BY <1>1, <2>1
  <2>3. cutOff \in 0..MaxCutOff /\ failed \in 0..MaxFailed /\ LastEvent <= MaxMessages
    BY <1>1, SovereignAssumption
  <2>4. QED
    BY <1>1, <2>1, <2>2, <2>3 DEF LogTypes
<1>3. LogsInv
  BY <1>1, SovereignAssumption DEF LogsInv, Rising
<1>4. \A v \in Views : v = <<>>
  <2>1. Saved(<<>>) = <<>>
    <3>1. <<>> \in Seq(Numbers) /\ Len(<<>>) <= LogLimit
      BY SovereignAssumption
    <3>2. QED
      BY <3>1, SavedLog
  <2>2. QED
    BY <1>1, <2>1 DEF Views
<1>5. ViewsInv
  BY <1>4 DEF ViewsInv, Agree
<1>6. PrintedInv
  BY <1>1, <1>4 DEF PrintedInv
<1>7. LoneInv
  <2>1. Newest(bus_file, 0)
    BY <1>1, SovereignAssumption DEF Newest, Held
  <2>2. bus_file # BrokenLog
    <3>1. <<>> \in Seq(Nat)
      OBVIOUS
    <3>2. QED
      BY <1>1, <3>1, SovereignAssumption
  <2>3. \A p \in Publishers : publisher[p] = "off"
    BY <1>1
  <2>4. QED
    BY <1>1, <2>1, <2>2, <2>3 DEF LoneInv, Running
<1>8. ViewerInv
  BY <1>1 DEF ViewerInv
<1>9. QED
  BY <1>2, <1>3, <1>5, <1>6, <1>7, <1>8 DEF LogIInv

\* A step that publishes nothing and shows nothing: its logs and its file are left to say.
LEMMA LogStep ==
  ASSUME LogIInv, LogTypes', LogsInv', LoneInv', Views' \subseteq Views \cup {<<>>},
         events' = events, viewer' = viewer, printed' = printed, crowded => crowded'
  PROVE  LogIInv'
<1>1. ViewsInv' /\ PrintedInv'
  BY ViewsKept
<1>2. ViewerInv'
  BY DEF LogIInv, ViewerInv, LastEvent, Numbers
<1>3. QED
  BY <1>1, <1>2 DEF LogIInv

LEMMA StartPublisherStep ==
  ASSUME LogIInv, NEW p \in Publishers, StartPublisher(p)
  PROVE  LogIInv'
<1>1. /\ publisher[p] = "off" /\ publisher' = [publisher EXCEPT ![p] = "up"]
      /\ message_log' = [message_log EXCEPT ![p] = LogContent]
      /\ crowded' = (crowded \/ Running # {})
      /\ UNCHANGED <<events, bus_file, unsaved, failed, cutOff, viewer, printed>>
  BY DEF StartPublisher, viewVars
<1>2. LogTypes
  BY DEF LogIInv
<1>3. /\ \A q \in Publishers \ {p} : /\ message_log'[q] = message_log[q]
                                     /\ publisher'[q] = publisher[q]
      /\ message_log'[p] = LogContent /\ publisher'[p] = "up"
      /\ LogContent' = LogContent /\ LastEvent' = LastEvent
  BY <1>1, <1>2 DEF LogTypes, LogContent, LastEvent
<1>4. LogTypes'
  BY <1>1, <1>2, <1>3, LogFacts, Zenon DEF LogTypes, Numbers
<1>5. LogsInv'
  BY <1>3 DEF LogIInv, LogsInv, Rising
<1>6. Views' \subseteq Views
  <2>1. Saved(LogContent) = LogContent
    BY LogFacts, SavedLog DEF LogIInv, LogsInv
  <2>2. QED
    BY <1>3, <2>1 DEF Views, Saved
<1>7. LoneInv'
  <2> SUFFICES ASSUME ~crowded' PROVE LoneInv'
    BY DEF LoneInv
  <2>1. ~crowded /\ ~unsaved /\ \A q \in Publishers : publisher[q] = "off"
    BY <1>1 DEF LogIInv, LoneInv, Running
  <2>2. bus_file # BrokenLog /\ Newest(bus_file, LastEvent)
    BY <2>1 DEF LogIInv, LoneInv
  <2>3. /\ Len(LogContent) = Held(LastEvent)
        /\ \A i \in 1..Len(LogContent) : LogContent[i] = LastEvent - Len(LogContent) + i
    BY <2>2 DEF LogContent, Newest
  <2>4. /\ \A q \in Publishers : publisher'[q] # "open"
        /\ Running' = {p}
    BY <1>3, <2>1 DEF Running
  <2>5. Held(LastEvent) \in Nat
    BY LogFacts DEF Held
  <2>6. Newest(bus_file, LastEvent)' /\ Held(LastEvent)' = Held(LastEvent)
    BY <1>1, <1>3, <2>2 DEF Newest, Held
  <2>7. (\E n \in 0..LastEvent : Newest(bus_file, n))'
    BY <1>3, <2>6, LogFacts
  <2>8. QED
    BY <1>1, <1>3, <2>1, <2>2, <2>3, <2>4, <2>5, <2>6, <2>7 DEF LoneInv
<1>8. QED
  BY <1>1, <1>4, <1>5, <1>6, <1>7, LogStep

LEMMA EndPublisherStep ==
  ASSUME LogIInv, NEW p \in Publishers, EndPublisher(p)
  PROVE  LogIInv'
<1>1. /\ publisher[p] = "up" /\ publisher' = [publisher EXCEPT ![p] = "off"]
      /\ crowded' = (crowded \/ unsaved)
      /\ UNCHANGED <<events, message_log, bus_file, unsaved, failed, cutOff, viewer, printed>>
  BY DEF EndPublisher, viewVars
<1>2. LogTypes
  BY DEF LogIInv
<1>3. /\ \A q \in Publishers \ {p} : publisher'[q] = publisher[q]
      /\ publisher'[p] = "off" /\ LogContent' = LogContent /\ LastEvent' = LastEvent
  BY <1>1, <1>2 DEF LogTypes, LogContent, LastEvent
<1>4. LogTypes'
  BY <1>1, <1>2, <1>3 DEF LogTypes, Numbers
<1>5. LogsInv' /\ Views' = Views
  BY <1>1, <1>3 DEF LogIInv, LogsInv, Rising, Views, Saved
<1>6. LoneInv'
  <2>1. Running' \subseteq Running
    BY <1>3 DEF Running
  <2>2. \A q \in Publishers : /\ publisher'[q] = "open" <=> publisher[q] = "open"
                              /\ publisher'[q] = "write" <=> publisher[q] = "write"
    BY <1>1, <1>3
  <2>3. QED
    BY <1>1, <1>3, <2>1, <2>2 DEF LogIInv, LoneInv, Newest, Held
<1>7. QED
  BY <1>1, <1>4, <1>5, <1>6, LogStep

LEMMA CutOffStep == ASSUME LogIInv, NEW p \in Publishers, CutOff(p) PROVE LogIInv'
<1>1. /\ publisher' = [publisher EXCEPT ![p] = "off"]
      /\ cutOff < MaxCutOff /\ cutOff' = cutOff + 1 /\ crowded' = TRUE
      /\ UNCHANGED <<events, message_log, bus_file, unsaved, failed, viewer, printed>>
  BY DEF CutOff, viewVars
<1>2. LogTypes
  BY DEF LogIInv
<1>3. LogContent' = LogContent /\ LastEvent' = LastEvent
  BY <1>1 DEF LogContent, LastEvent
<1>4. LogTypes'
  <2>1. cutOff' \in 0..MaxCutOff
    BY <1>1, <1>2, SovereignAssumption DEF LogTypes
  <2>2. publisher' \in [Publishers -> {"off", "up", "open", "write", "keep", "notify"}]
    BY <1>1, <1>2 DEF LogTypes
  <2>3. QED
    BY <1>1, <1>2, <1>3, <2>1, <2>2 DEF LogTypes, Numbers
<1>5. LogsInv' /\ Views' = Views
  BY <1>1, <1>3 DEF LogIInv, LogsInv, Rising, Views, Saved
<1>6. LoneInv'
  BY <1>1 DEF LoneInv
<1>7. QED
  BY <1>1, <1>4, <1>5, <1>6, LogStep

LEMMA OpenLogStep == ASSUME LogIInv, NEW p \in Publishers, OpenLog(p) PROVE LogIInv'
<1>1. /\ publisher[p] = "open" /\ publisher' = [publisher EXCEPT ![p] = "write"]
      /\ bus_file' = BrokenLog
      /\ UNCHANGED <<events, message_log, crowded, unsaved, failed, cutOff, viewer, printed>>
  BY DEF OpenLog, viewVars
<1>2. LogTypes
  BY DEF LogIInv
<1>3. /\ \A q \in Publishers \ {p} : publisher'[q] = publisher[q]
      /\ publisher'[p] = "write" /\ LogContent' = <<>> /\ LastEvent' = LastEvent
  BY <1>1, <1>2 DEF LogTypes, LogContent, LastEvent
<1>4. LogTypes'
  <2>1. bus_file' \in Seq(Numbers) \cup {BrokenLog}
    BY <1>1
  <2>2. publisher' \in [Publishers -> {"off", "up", "open", "write", "keep", "notify"}]
    BY <1>1, <1>2 DEF LogTypes
  <2>3. QED
    BY <1>1, <1>2, <1>3, <2>1, <2>2 DEF LogTypes, Numbers
<1>5. LogsInv'
  BY <1>1, <1>3, LogFacts DEF LogIInv, LogsInv, Rising
<1>6. Views' \subseteq Views \cup {<<>>}
  BY <1>1, <1>3 DEF Views, Saved
<1>7. LoneInv'
  <2>1. Running' = Running /\ p \in Running
    BY <1>1, <1>3 DEF Running
  <2>2. ASSUME ~crowded PROVE \A q \in Publishers : publisher'[q] # "open"
    <3>1. \A q \in Running : q = p
      BY <2>1, <2>2 DEF LogIInv, LoneInv
    <3>2. QED
      BY <1>3, <3>1 DEF Running
  <2>3. QED
    BY <1>1, <1>3, <2>1, <2>2 DEF LogIInv, LoneInv, Held
<1>8. QED
  BY <1>1, <1>4, <1>5, <1>6, <1>7, LogStep

\* Home goes on, behind its log; and steps that are not about the logs.
LEMMA HomePointStep ==
  ASSUME LogIInv, publisher[Home] \in {"keep", "notify"}, NEW to \in {"notify", "up"},
         publisher' = [publisher EXCEPT ![Home] = to],
         UNCHANGED <<events, message_log, bus_file, crowded, unsaved, failed, cutOff, viewVars>>
  PROVE  LogIInv'
<1>1. UNCHANGED <<events, message_log, bus_file, crowded, unsaved, failed, cutOff, viewer, printed>>
  BY DEF viewVars
<1>2. LogTypes /\ Home \in Publishers
  BY SovereignAssumption DEF LogIInv
<1>3. /\ \A q \in Publishers \ {Home} : publisher'[q] = publisher[q]
      /\ publisher'[Home] = to /\ LogContent' = LogContent /\ LastEvent' = LastEvent
  BY <1>1, <1>2 DEF LogTypes, LogContent, LastEvent
<1>4. LogTypes'
  <2>1. publisher' \in [Publishers -> {"off", "up", "open", "write", "keep", "notify"}]
    BY <1>2 DEF LogTypes
  <2>2. QED
    BY <1>1, <1>2, <1>3, <2>1 DEF LogTypes, Numbers
<1>5. LogsInv' /\ Views' = Views
  BY <1>1, <1>3 DEF LogIInv, LogsInv, Rising, Views, Saved
<1>6. LoneInv'
  <2>1. Running' = Running
    BY <1>2, <1>3 DEF Running
  <2>2. \A q \in Publishers : /\ publisher'[q] = "open" <=> publisher[q] = "open"
                              /\ publisher'[q] = "write" <=> publisher[q] = "write"
    BY <1>2, <1>3
  <2>3. QED
    BY <1>1, <1>3, <2>1, <2>2 DEF LogIInv, LoneInv, Newest, Held
<1>7. QED
  BY <1>1, <1>4, <1>5, <1>6, LogStep

LEMMA NoLogStep == ASSUME LogIInv, UNCHANGED <<logVars, viewVars>> PROVE LogIInv'
<1>1. /\ UNCHANGED <<events, message_log, bus_file, publisher, crowded, unsaved, failed, cutOff>>
      /\ UNCHANGED <<viewer, printed>>
  BY DEF logVars, viewVars
<1>2. LogContent' = LogContent /\ LastEvent' = LastEvent
  BY <1>1 DEF LogContent, LastEvent
<1>3. LogTypes' /\ LogsInv' /\ Views' = Views
  BY <1>1, <1>2 DEF LogIInv, LogTypes, Numbers, LogsInv, Rising, Views, Saved
<1>4. LoneInv'
  BY <1>1, <1>2 DEF LogIInv, LoneInv, Newest, Held, Running
<1>5. QED
  BY <1>1, <1>3, <1>4, LogStep

LEMMA SavedRising ==
  ASSUME LastEvent \in Nat, NEW log \in Seq(Numbers), Rising(log)
  PROVE  Rising(Saved(log))
<1>1. Numbers \subseteq Nat
  BY SovereignAssumption DEF Numbers
<1> DEFINE new == Saved(log) c == Cut(log)
<1>2. /\ c \in Nat /\ Len(new) \in Nat /\ Len(log) \in Nat
      /\ \A i \in 1..Len(new) : i + c \in 1..Len(log) /\ new[i] = log[i + c]
  BY SavedLog
<1> HIDE DEF new, c
<1>3. \A i \in 1..Len(new) : new[i] \in 1..LastEvent
  BY <1>2 DEF Rising
<1>4. ASSUME NEW i \in 1..Len(new), NEW j \in 1..Len(new), i < j PROVE new[i] < new[j]
  <2>1. i + c \in 1..Len(log) /\ j + c \in 1..Len(log) /\ i + c < j + c
    BY <1>2, <1>4
  <2>2. QED
    BY <1>2, <2>1 DEF Rising
<1>5. Rising(new)
  BY <1>3, <1>4 DEF Rising
<1>6. QED
  BY <1>5 DEF new

LEMMA ViewsRise == ASSUME LogIInv, NEW v \in Views PROVE Rising(v)
  BY LogFacts, SavedRising DEF LogIInv, LogsInv, Views

LEMMA WriteLogStep == ASSUME LogIInv, NEW p \in Publishers, WriteLog(p) PROVE LogIInv'
<1> DEFINE rivals == {q \in Publishers \ {p} : publisher[q] = "write"}
           to == IF p = Home THEN "keep" ELSE "up"
<1>1. /\ publisher[p] = "write" /\ publisher' = [publisher EXCEPT ![p] = to]
      /\ bus_file' = Saved(message_log[p]) \/ (rivals # {} /\ bus_file' = BrokenLog)
      /\ unsaved' = FALSE
      /\ UNCHANGED <<events, message_log, crowded, failed, cutOff, viewer, printed>>
  BY DEF WriteLog, AfterSaving, viewVars
<1>2. LogTypes /\ to \in {"keep", "up"}
  BY DEF LogIInv
<1> HIDE DEF to
<1>3. /\ \A q \in Publishers \ {p} : publisher'[q] = publisher[q]
      /\ publisher'[p] = to /\ LastEvent' = LastEvent
  BY <1>1, <1>2 DEF LogTypes, LastEvent
<1>4. Saved(message_log[p]) \in Seq(Numbers) /\ Saved(message_log[p]) # BrokenLog
  <2>1. Saved(message_log[p]) \in Seq(Numbers)
    BY LogFacts, SavedLog
  <2>2. Saved(message_log[p]) \in Seq(Nat)
    BY <2>1, LogFacts
  <2>3. QED
    BY <2>1, <2>2, SovereignAssumption
<1>5. LogContent' \in {Saved(message_log[p]), <<>>}
  BY <1>1 DEF LogContent
<1>6. LogTypes'
  <2>1. publisher' \in [Publishers -> {"off", "up", "open", "write", "keep", "notify"}]
    BY <1>1, <1>2 DEF LogTypes
  <2>2. bus_file' \in Seq(Numbers) \cup {BrokenLog}
    BY <1>1, <1>4
  <2>3. QED
    BY <1>1, <1>2, <1>3, <2>1, <2>2 DEF LogTypes, Numbers
<1>7. Views' \subseteq Views \cup {<<>>}
  BY <1>1, <1>5 DEF Views, Saved
<1>8. LogsInv'
  <2>1. Saved(message_log[p]) \in Views
    BY DEF Views
  <2>2. \A v \in {Saved(message_log[p]), <<>>} : Rising(v) /\ Len(v) <= LogLimit
    BY <2>1, ViewsRise, LogFacts DEF Rising
  <2>3. QED
    BY <1>1, <1>3, <1>5, <2>2 DEF LogIInv, LogsInv, Rising
<1>9. LoneInv'
  <2> SUFFICES ASSUME ~crowded PROVE LoneInv'
    BY <1>1 DEF LoneInv
  <2>1. Running' = Running /\ p \in Running
    BY <1>1, <1>2, <1>3 DEF Running
  <2>2. \A q \in Publishers \ {p} : publisher[q] = "off"
    BY <2>1 DEF LogIInv, LoneInv, Running
  <2>3. bus_file' = Saved(message_log[p])
    BY <1>1, <2>2
  <2>4. \A q \in Publishers : publisher'[q] # "open"
    BY <1>2, <1>3, <2>2
  <2> DEFINE log == message_log[p]
  <2>5. /\ Len(log) >= Held(LastEvent)
        /\ \A i \in 1..Len(log) : log[i] = LastEvent - Len(log) + i
    BY <2>1 DEF LogIInv, LoneInv
  <2>6. /\ Cut(log) \in Nat /\ Len(log) \in Nat /\ Len(Saved(log)) = Len(log) - Cut(log)
        /\ \A i \in 1..Len(Saved(log)) : i + Cut(log) \in 1..Len(log)
                                         /\ Saved(log)[i] = log[i + Cut(log)]
    BY LogFacts, SavedLog
  <2>7. LastEvent \in Nat /\ LogLimit \in Nat \ {0}
    BY LogFacts
  <2>8. Len(log) <= LastEvent
    <3>1. Len(log) > 0 => log[1] \in 1..LastEvent
      BY <2>6 DEF LogIInv, LogsInv, Rising
    <3>2. ASSUME Len(log) > 0 PROVE Len(log) <= LastEvent
      <4>1. log[1] = LastEvent - Len(log) + 1 /\ log[1] \in 1..LastEvent
        BY <2>5, <2>6, <3>1, <3>2
      <4>2. QED
        BY <2>6, <2>7, <4>1
    <3>3. QED
      BY <2>6, <2>7, <3>2
  <2> HIDE DEF log
  <2>9. Len(Saved(log)) = Held(LastEvent)
    <3>1. Len(log) >= Held(LastEvent) /\ Len(Saved(log)) = Len(log) - Cut(log)
      BY <2>5, <2>6
    <3>2. Len(log) \in Nat
      BY <2>6
    <3>3. CASE Len(log) > LogLimit
      BY <2>7, <2>8, <3>1, <3>2, <3>3 DEF Held, Cut
    <3>4. CASE Len(log) <= LogLimit
      <4>1. Cut(log) = 0
        BY <2>7, <3>2, <3>4 DEF Cut
      <4>2. Len(Saved(log)) = Len(log)
        BY <3>1, <3>2, <4>1
      <4>3. Len(log) = Held(LastEvent)
        BY <2>7, <2>8, <3>1, <3>2, <3>4 DEF Held
      <4>4. QED
        BY <4>2, <4>3
    <3>5. QED
      BY <2>7, <3>2, <3>3, <3>4
  <2>10. ASSUME NEW i \in 1..Held(LastEvent)
         PROVE  Saved(log)[i] = LastEvent - Held(LastEvent) + i
    <3>1. Saved(log)[i] = LastEvent - Len(log) + (i + Cut(log))
      BY <2>5, <2>6, <2>9
    <3>2. Held(LastEvent) = Len(log) - Cut(log)
      BY <2>6, <2>9
    <3>3. QED
      BY <2>6, <2>7, <3>1, <3>2
  <2>11. Newest(bus_file, LastEvent)'
    BY <1>3, <2>3, <2>9, <2>10 DEF Newest, Held, log
  <2>12. bus_file' # BrokenLog
    BY <1>4, <2>3
  <2>13. (\E n \in 0..LastEvent : Newest(bus_file, n))'
    BY <1>3, <2>7, <2>11
  <2>14. QED
    BY <1>1, <1>3, <2>1, <2>4, <2>11, <2>12, <2>13 DEF LogIInv, LoneInv, Held
<1>10. QED
  BY <1>1, <1>6, <1>7, <1>8, <1>9, LogStep

LEMMA SaveFailsStep == ASSUME LogIInv, NEW p \in Publishers, SaveFails(p) PROVE LogIInv'
<1> DEFINE to == AfterSaving(p)
<1>1. /\ publisher[p] \in {"open", "write"} /\ publisher' = [publisher EXCEPT ![p] = to]
      /\ bus_file' \in {bus_file, BrokenLog} /\ unsaved' = TRUE
      /\ failed < MaxFailed /\ failed' = failed + 1
      /\ UNCHANGED <<events, message_log, crowded, cutOff, viewer, printed>>
  BY DEF SaveFails, viewVars
<1>2. LogTypes /\ to \in {"keep", "up"}
  BY DEF LogIInv, AfterSaving
<1> HIDE DEF to
<1>3. /\ \A q \in Publishers \ {p} : publisher'[q] = publisher[q]
      /\ publisher'[p] = to /\ LastEvent' = LastEvent
      /\ LogContent' \in {LogContent, <<>>}
  BY <1>1, <1>2 DEF LogTypes, LastEvent, LogContent
<1>4. LogTypes'
  <2>1. failed' \in 0..MaxFailed
    BY <1>1, <1>2, SovereignAssumption DEF LogTypes
  <2>2. publisher' \in [Publishers -> {"off", "up", "open", "write", "keep", "notify"}]
    BY <1>1, <1>2 DEF LogTypes
  <2>3. bus_file' \in Seq(Numbers) \cup {BrokenLog}
    BY <1>1, <1>2 DEF LogTypes
  <2>4. QED
    BY <1>1, <1>2, <1>3, <2>1, <2>2, <2>3 DEF LogTypes, Numbers
<1>5. LogsInv'
  BY <1>1, <1>3, LogFacts DEF LogIInv, LogsInv, Rising
<1>6. Views' \subseteq Views \cup {<<>>}
  BY <1>1, <1>3 DEF Views, Saved
<1>7. LoneInv'
  <2> SUFFICES ASSUME ~crowded PROVE LoneInv'
    BY <1>1 DEF LoneInv
  <2>1. Running' = Running /\ p \in Running
    BY <1>1, <1>2, <1>3 DEF Running
  <2>2. bus_file' # BrokenLog => \E n \in 0..LastEvent : Newest(bus_file', n)
    BY <1>1 DEF LogIInv, LoneInv
  <2>3. \A q \in Publishers : publisher'[q] = "open" => publisher[q] = "open"
    BY <1>2, <1>3
  <2>4. QED
    BY <1>1, <1>3, <2>1, <2>2, <2>3 DEF LogIInv, LoneInv, Newest, Held
<1>8. QED
  BY <1>1, <1>4, <1>5, <1>6, <1>7, LogStep

\* What a log has when a message is appended, and the oldest may be left out.
LEMMA GrownLog ==
  ASSUME LogLimit \in Nat \ {0}, NEW log \in Seq(Numbers), NEW m \in Numbers,
         NEW all \in Seq(Numbers), Len(all) = Len(log) + 1, all[Len(log) + 1] = m,
         \A i \in 1..Len(log) : all[i] = log[i]
  PROVE  LET old == Saved(log) new == Saved(all)
         IN /\ Len(old) = LogLimit => Len(new) = LogLimit
            /\ \A i \in 1..Len(new) :
                 \/ new[i] = m
                 \/ \E j \in 1..Len(old) :
                      new[i] = old[j] /\ i <= j /\ (i < j => Len(new) = LogLimit)
<1> DEFINE old == Saved(log) new == Saved(all) n == Len(log)
<1>1. n \in Nat /\ Len(all) = n + 1
  OBVIOUS
<1>2. /\ Len(old) = n - Cut(log)
      /\ \A i \in 1..Len(old) : i + Cut(log) \in 1..n /\ old[i] = log[i + Cut(log)]
  BY SavedLog
<1>a. /\ Cut(all) \in Nat /\ Len(new) = Len(all) - Cut(all)
      /\ \A i \in 1..Len(new) : i + Cut(all) \in 1..Len(all) /\ new[i] = all[i + Cut(all)]
  BY SavedLog
<1>3. /\ Len(new) = (n + 1) - Cut(all)
      /\ \A i \in 1..Len(new) : i + Cut(all) \in 1..(n + 1) /\ new[i] = all[i + Cut(all)]
  <2> HIDE DEF new, n
  <2> QED
    BY <1>1, <1>a
<1>4. IF n < LogLimit THEN Cut(log) = 0 /\ Cut(all) = 0
      ELSE Cut(log) = n - LogLimit /\ Cut(all) = n - LogLimit + 1
  BY <1>1 DEF Cut
<1> HIDE DEF old, new
<1>5. Len(old) = LogLimit => Len(new) = LogLimit
  BY <1>1, <1>2, <1>3, <1>4
<1>6. ASSUME NEW i \in 1..Len(new), new[i] # m
      PROVE  \E j \in 1..Len(old) :
               new[i] = old[j] /\ i <= j /\ (i < j => Len(new) = LogLimit)
  <2>1. i + Cut(all) \in 1..n /\ new[i] = log[i + Cut(all)]
    <3>1. i + Cut(all) # n + 1
      BY <1>1, <1>3, <1>6
    <3>2. i + Cut(all) \in 1..n
      BY <1>1, <1>3, <3>1
    <3>3. QED
      BY <1>1, <1>3, <3>2
  <2> DEFINE j == i + (Cut(all) - Cut(log))
  <2>2. /\ j \in 1..Len(old) /\ i <= j /\ j + Cut(log) = i + Cut(all)
        /\ i < j => Len(new) = LogLimit
    BY <1>1, <1>2, <1>3, <1>4, <2>1
  <2>3. new[i] = old[j]
    BY <1>2, <2>1, <2>2
  <2>4. QED
    BY <2>2, <2>3
<1>7. QED
  BY <1>5, <1>6 DEF old, new

LEMMA PublishEventStep ==
  ASSUME LogIInv, NEW p \in Publishers, NEW topic \in Topics, PublishEvent(p, topic)
  PROVE  LogIInv'
<1> DEFINE m == LastEvent + 1 log == message_log[p]
<1>1. /\ publisher[p] = "up" /\ publisher' = [publisher EXCEPT ![p] = "open"]
      /\ LastEvent < MaxMessages /\ events' = Append(events, [by |-> p, on |-> topic])
      /\ message_log' = [message_log EXCEPT ![p] = Append(log, m)]
      /\ UNCHANGED <<bus_file, crowded, unsaved, failed, cutOff, viewer, printed>>
  BY DEF PublishEvent, viewVars
<1>2. LogTypes
  BY DEF LogIInv
<1>3. /\ \A q \in Publishers \ {p} : /\ publisher'[q] = publisher[q]
                                     /\ message_log'[q] = message_log[q]
      /\ publisher'[p] = "open" /\ message_log'[p] = Append(log, m)
      /\ LogContent' = LogContent /\ LastEvent' = m
  BY <1>1, <1>2 DEF LogTypes, LastEvent, LogContent
<1>4. /\ LastEvent \in Nat /\ m \in Numbers /\ Numbers \subseteq Nat /\ log \in Seq(Numbers)
      /\ m > LastEvent
  BY <1>1, LogFacts DEF Numbers
<1>5. LogTypes'
  <2>1. publisher' \in [Publishers -> {"off", "up", "open", "write", "keep", "notify"}]
    BY <1>1, <1>2 DEF LogTypes
  <2>2. message_log' \in [Publishers -> Seq(Numbers)]
    BY <1>1, <1>2, <1>4 DEF LogTypes
  <2>3. events' \in Seq([by : Publishers, on : Topics]) /\ LastEvent' <= MaxMessages
    BY <1>1, <1>2, <1>3, <1>4 DEF LogTypes, Numbers
  <2>4. QED
    BY <1>1, <1>2, <2>1, <2>2, <2>3 DEF LogTypes, Numbers
<1>6. LogsInv'
  <2>1. ASSUME NEW v \in Seq(Numbers), Rising(v)
        PROVE  /\ \A i \in 1..Len(v) : v[i] \in 1..m /\ v[i] < m
               /\ \A i, j \in 1..Len(v) : i < j => v[i] < v[j]
    BY <1>4, <2>1 DEF Rising
  <2>2. Rising(log) /\ Rising(LogContent) /\ LogContent \in Seq(Numbers)
    BY LogFacts DEF LogIInv, LogsInv
  <2>3. Rising(message_log[p])'
    <3>1. /\ \A i \in 1..Len(log) : Append(log, m)[i] = log[i]
          /\ Len(log) \in Nat /\ Len(Append(log, m)) = Len(log) + 1
          /\ Append(log, m)[Len(log) + 1] = m
      BY <1>4
    <3>2. /\ \A i \in 1..Len(log) : log[i] \in 1..m /\ log[i] < m
          /\ \A i, j \in 1..Len(log) : i < j => log[i] < log[j]
      BY <1>4, <2>1, <2>2
    <3> DEFINE all == Append(log, m)
    <3> HIDE DEF all, log, m
    <3>3. \A i \in 1..Len(all) : i \in 1..Len(log) \/ (i = Len(log) + 1 /\ all[i] = m)
      BY <3>1 DEF all
    <3>4. \A i \in 1..Len(all) : all[i] \in 1..m
      BY <1>4, <3>1, <3>2, <3>3 DEF all, m
    <3>5. \A i, j \in 1..Len(all) : i < j => all[i] < all[j]
      BY <3>1, <3>2, <3>3 DEF all
    <3>6. QED
      BY <1>3, <3>4, <3>5 DEF Rising, all
  <2>4. \A q \in Publishers \ {p} : Rising(message_log[q])'
    <3> SUFFICES ASSUME NEW q \in Publishers \ {p} PROVE Rising(message_log[q])'
      OBVIOUS
    <3>1. Rising(message_log[q]) /\ message_log[q] \in Seq(Numbers)
      BY LogFacts DEF LogIInv, LogsInv
    <3>2. QED
      BY <1>3, <2>1, <3>1 DEF Rising
  <2>5. Rising(LogContent)'
    BY <1>3, <2>1, <2>2 DEF Rising
  <2>6. QED
    BY <1>3, <2>3, <2>4, <2>5 DEF LogIInv, LogsInv
<1> DEFINE grown == Saved(Append(log, m))
<1>7. /\ Len(Saved(log)) = LogLimit => Len(grown) = LogLimit
      /\ \A i \in 1..Len(grown) :
           \/ grown[i] = m
           \/ \E j \in 1..Len(Saved(log)) :
                grown[i] = Saved(log)[j] /\ i <= j /\ (i < j => Len(grown) = LogLimit)
  <2>1. /\ Append(log, m) \in Seq(Numbers) /\ Len(Append(log, m)) = Len(log) + 1
        /\ Append(log, m)[Len(log) + 1] = m
        /\ \A i \in 1..Len(log) : Append(log, m)[i] = log[i]
    BY <1>4
  <2> DEFINE all == Append(log, m)
  <2> HIDE DEF all, m
  <2>2. QED
    BY <1>4, <2>1, GrownLog, LogFacts DEF all
<1>8. Views' \subseteq Views \cup {grown} /\ Saved(log) \in Views
  BY <1>3 DEF Views, Saved
<1>9. \A v \in Views : /\ v \in Seq(Numbers) /\ Len(v) \in Nat
                       /\ \A i \in 1..Len(v) : v[i] # m /\ v[i] \in Numbers
  BY ViewsRise, LogFacts, <1>4 DEF Rising
<1>10. Len(grown) \in Nat /\ \A i, j \in 1..Len(grown) : i < j => grown[i] # grown[j]
  <2> DEFINE all == Append(log, m)
  <2>1. all \in Seq(Numbers) /\ message_log'[p] = all
    BY <1>3, <1>4
  <2> HIDE DEF all
  <2>2. \A i, j \in 1..Len(all) : i < j => all[i] < all[j]
    BY <1>6, <2>1 DEF LogsInv, Rising
  <2>3. \A i \in 1..Len(all) : all[i] \in Nat
    <3>1. \A i \in 1..Len(all) : all[i] \in Numbers
      BY <2>1
    <3>2. QED
      BY <1>4, <3>1
  <2>4. \A i, j \in 1..Len(all) : i < j => all[i] # all[j]
    BY <2>2, <2>3
  <2> DEFINE new == Saved(all) c == Cut(all)
  <2>5. /\ c \in Nat /\ Len(all) \in Nat /\ Len(new) \in Nat
        /\ \A i \in 1..Len(new) : i + c \in 1..Len(all) /\ new[i] = all[i + c]
    BY <2>1, SavedLog
  <2> HIDE DEF new, c
  <2>6. ASSUME NEW i \in 1..Len(new), NEW j \in 1..Len(new), i < j PROVE new[i] # new[j]
    <3>1. i + c \in 1..Len(all) /\ j + c \in 1..Len(all) /\ i + c < j + c
      BY <2>5, <2>6
    <3>2. QED
      BY <2>4, <2>5, <3>1
  <2>7. QED
    BY <2>5, <2>6 DEF new, all
<1> HIDE DEF grown, log, m
<1>11. \A v, w \in Views : Agree(v, w)
  BY DEF LogIInv, ViewsInv
<1>12. ASSUME NEW w \in Views PROVE Agree(grown, w) /\ Agree(w, grown)
  <2>1. ASSUME NEW i \in 1..Len(grown), NEW k \in 1..Len(w), grown[i] = w[k]
        PROVE  /\ i < k => Len(grown) = LogLimit
               /\ k < i => Len(w) = LogLimit
    <3>1. PICK j \in 1..Len(Saved(log)) :
            grown[i] = Saved(log)[j] /\ i <= j /\ (i < j => Len(grown) = LogLimit)
      BY <1>7, <1>9, <2>1
    <3>2. /\ j < k => Len(Saved(log)) = LogLimit
          /\ k < j => Len(w) = LogLimit
      BY <1>8, <1>11, <2>1, <3>1 DEF Agree
    <3>3. Len(grown) \in Nat /\ Len(w) \in Nat /\ Len(Saved(log)) \in Nat
      BY <1>8, <1>9, <1>10
    <3>4. QED
      BY <1>7, <3>1, <3>2, <3>3
  <2>2. QED
    BY <2>1 DEF Agree
<1>13. ViewsInv'
  <2>1. Agree(grown, grown)
    BY <1>10 DEF Agree
  <2>2. QED
    BY <1>8, <1>11, <1>12, <2>1 DEF ViewsInv, Agree
<1>14. /\ \A k \in Numbers : /\ printed[k] \in {0, 1}
                             /\ printed[k] = 1 => viewer.on /\ k <= LastEvent
       /\ \A v \in Views : \A i \in 1..Len(v) : printed[v[i]] = 1 => i <= viewer.last_count
  BY DEF LogIInv, PrintedInv
<1>15. PrintedInv'
  <2>1. ASSUME NEW i \in 1..Len(grown), printed[grown[i]] = 1 PROVE i <= viewer.last_count
    <3>1. grown[i] # m
      BY <1>4, <1>14, <2>1
    <3>2. PICK j \in 1..Len(Saved(log)) : grown[i] = Saved(log)[j] /\ i <= j
      BY <1>7, <3>1
    <3>3. j <= viewer.last_count /\ viewer.last_count \in Nat
      BY <1>8, <1>14, <2>1, <3>2, LogFacts
    <3>4. Len(grown) \in Nat /\ Len(Saved(log)) \in Nat
      BY <1>8, <1>9, <1>10
    <3>5. QED
      BY <3>2, <3>3, <3>4
  <2>2. \A v \in Views' : \A i \in 1..Len(v) : printed[v[i]] = 1 => i <= viewer.last_count
    BY <1>8, <1>14, <2>1
  <2>3. \A k \in Numbers : k <= LastEvent => k <= LastEvent'
    BY <1>3, <1>4
  <2>4. QED
    BY <1>1, <1>14, <2>2, <2>3 DEF PrintedInv, Numbers
<1>16. LoneInv'
  <2> SUFFICES ASSUME ~crowded PROVE LoneInv'
    BY <1>1 DEF LoneInv
  <2>1. Running' = Running /\ p \in Running
    BY <1>1, <1>3 DEF Running
  <2>2. \A q \in Publishers \ {p} : publisher[q] = "off"
    BY <2>1 DEF LogIInv, LoneInv, Running
  <2>3. /\ bus_file = BrokenLog => unsaved
        /\ bus_file # BrokenLog /\ ~unsaved => Newest(bus_file, LastEvent)
        /\ bus_file # BrokenLog => \E n \in 0..LastEvent : Newest(bus_file, n)
    BY <1>1, <2>2 DEF LogIInv, LoneInv
  <2>4. LastEvent' - 1 = LastEvent /\ LastEvent' > 0
    BY <1>3, <1>4 DEF m
  <2>5. /\ (bus_file # BrokenLog /\ ~unsaved => Newest(bus_file, LastEvent - 1))'
        /\ (bus_file # BrokenLog => \E n \in 0..LastEvent : Newest(bus_file, n))'
        /\ \A n : Held(n)' = Held(n)
    <3>1. 0..LastEvent \subseteq 0..LastEvent'
      BY <1>3, <1>4 DEF m
    <3>2. \A n : Newest(bus_file, n)' <=> Newest(bus_file, n)
      BY <1>1 DEF Newest, Held
    <3>3. QED
      BY <1>1, <2>3, <2>4, <3>1, <3>2 DEF Held
  <2>6. /\ Len(log) >= Held(LastEvent) /\ Len(log) \in Nat
        /\ \A i \in 1..Len(log) : log[i] = LastEvent - Len(log) + i
    BY <2>1, LogFacts DEF LogIInv, LoneInv, log
  <2>7. /\ Len(Append(log, m)) >= Held(m)
        /\ \A i \in 1..Len(Append(log, m)) :
             Append(log, m)[i] = m - Len(Append(log, m)) + i
    <3>1. /\ Len(Append(log, m)) = Len(log) + 1 /\ Append(log, m)[Len(log) + 1] = m
          /\ \A i \in 1..Len(log) : Append(log, m)[i] = log[i]
      BY <1>4
    <3>2. m = LastEvent + 1 /\ LogLimit \in Nat \ {0}
      BY LogFacts DEF m
    <3> DEFINE all == Append(log, m)
    <3> HIDE DEF all
    <3>3. Len(all) >= Held(m)
      BY <1>4, <2>6, <3>1, <3>2 DEF Held, all
    <3>4. ASSUME NEW i \in 1..Len(all) PROVE all[i] = m - Len(all) + i
      <4>1. CASE i = Len(log) + 1
        BY <4>1, <1>4, <2>6, <3>1, <3>2 DEF all
      <4>2. CASE i # Len(log) + 1
        <5>1. i \in 1..Len(log) /\ Len(all) = Len(log) + 1
          BY <4>2, <2>6, <3>1 DEF all
        <5>2. all[i] = LastEvent - Len(log) + i
          BY <5>1, <2>6, <3>1 DEF all
        <5>3. QED
          BY <5>1, <5>2, <1>4, <2>6, <3>2
      <4>3. QED
        BY <4>1, <4>2
    <3>5. QED
      BY <3>3, <3>4 DEF all
  <2>8. \A q \in Running' : q = p
    BY <2>1, <2>2 DEF Running
  <2>9. QED
    <3>1. publisher'[p] = "open" /\ p \in Running'
      BY <1>3 DEF Running
    <3>2. /\ (\A q, r \in Running : q = r)' /\ (Running # {})'
          /\ (\E q \in Publishers : publisher[q] = "open")'
      BY <2>8, <3>1
    <3>3. (bus_file = BrokenLog => unsaved)'
      BY <1>1, <2>3
    <3>4. (\A q \in Running : /\ Len(message_log[q]) >= Held(LastEvent)
                              /\ \A i \in 1..Len(message_log[q]) :
                                   message_log[q][i] = LastEvent - Len(message_log[q]) + i)'
      BY <1>3, <2>5, <2>7, <2>8
    <3>5. QED
      BY <2>4, <2>5, <3>2, <3>3, <3>4, Zenon DEF LoneInv
<1>17. ViewerInv'
  <2>1. /\ LastEvent' <= LogLimit => LastEvent <= LogLimit
        /\ viewer.last_count <= LastEvent => viewer.last_count <= LastEvent'
    BY <1>3, <1>4, LogFacts DEF m
  <2>2. QED
    BY <1>1, <2>1 DEF LogIInv, ViewerInv, Numbers
<1>18. QED
  BY <1>5, <1>6, <1>13, <1>15, <1>16, <1>17 DEF LogIInv

\* The content of a file with one writer at a time, as long as it is not full.
LEMMA LoneContent ==
  ASSUME LogIInv, ~crowded, LastEvent <= LogLimit
  PROVE  /\ Len(LogContent) <= LastEvent
         /\ \A i \in 1..Len(LogContent) : LogContent[i] = i
<1>1. LastEvent \in Nat /\ LogLimit \in Nat \ {0}
  BY LogFacts
<1>2. CASE bus_file = BrokenLog
  BY <1>1, <1>2 DEF LogContent
<1>3. CASE bus_file # BrokenLog
  <2>1. PICK n \in 0..LastEvent : Newest(bus_file, n)
    BY <1>3 DEF LogIInv, LoneInv
  <2>2. Held(n) = n
    BY <1>1, <2>1 DEF Held
  <2>3. LogContent = bus_file /\ Len(bus_file) = n /\ \A i \in 1..n : bus_file[i] = n - n + i
    BY <1>3, <2>1, <2>2 DEF LogContent, Newest
  <2>4. QED
    BY <1>1, <2>3
<1>4. QED
  BY <1>2, <1>3

LEMMA StartViewerStep == ASSUME LogIInv, StartViewer PROVE LogIInv'
<1>1. /\ ~viewer.on
      /\ viewer' = [on |-> TRUE, last_count |-> Len(LogContent), first |-> Len(LogContent)]
      /\ UNCHANGED <<events, message_log, bus_file, publisher, crowded, unsaved, failed, cutOff, printed>>
  BY DEF StartViewer, logVars
<1>2. LogContent' = LogContent /\ LastEvent' = LastEvent /\ Views' = Views
  BY <1>1 DEF LogContent, LastEvent, Views, Saved
<1>3. /\ Len(LogContent) \in Nat /\ viewer'.on /\ viewer'.first = Len(LogContent)
      /\ viewer'.last_count = Len(LogContent)
  BY <1>1, LogFacts
<1>4. LogTypes'
  <2>1. viewer' \in [on : BOOLEAN, last_count : Nat, first : Nat]
    BY <1>1, <1>3
  <2>2. QED
    BY <1>1, <1>2, <2>1 DEF LogIInv, LogTypes, Numbers
<1>5. LogsInv' /\ ViewsInv'
  BY <1>1, <1>2 DEF LogIInv, LogsInv, Rising, ViewsInv, Agree
<1>6. LoneInv'
  BY <1>1, <1>2 DEF LogIInv, LoneInv, Newest, Held, Running
<1>7. \A m \in Numbers : printed[m] = 0
  BY <1>1 DEF LogIInv, PrintedInv
<1>8. PrintedInv'
  <2>1. \A v \in Views : \A i \in 1..Len(v) : v[i] \in Numbers
    BY LogFacts
  <2>2. QED
    BY <1>1, <1>2, <1>7, <2>1 DEF PrintedInv, Numbers
<1>9. ViewerInv'
  <2>1. ~crowded /\ LastEvent <= LogLimit => Len(LogContent) <= LastEvent
    BY LoneContent
  <2>2. QED
    BY <1>1, <1>2, <1>3, <1>7, <2>1 DEF ViewerInv, Numbers
<1>10. QED
  BY <1>4, <1>5, <1>6, <1>8, <1>9 DEF LogIInv

\* What is printed is at its place in the file for the first time, or the file is full.
LEMMA PollStep == ASSUME LogIInv, Poll PROVE LogIInv'
<1> DEFINE inFile == LogContent
           count == viewer.last_count
           unseen == {inFile[i] : i \in count + 1 .. Len(inFile)}
<1>1. /\ viewer.on
      /\ printed' = [m \in Numbers |-> IF m \in unseen THEN printed[m] + 1 ELSE printed[m]]
      /\ viewer' = [viewer EXCEPT !.last_count = Counted]
      /\ UNCHANGED <<events, message_log, bus_file, publisher, crowded, unsaved, failed, cutOff>>
  BY DEF Poll, logVars
<1>2. LogContent' = LogContent /\ LastEvent' = LastEvent /\ Views' = Views
  BY <1>1 DEF LogContent, LastEvent, Views, Saved
<1>3. /\ inFile \in Seq(Numbers) /\ Len(inFile) \in Nat /\ count \in Nat /\ LastEvent \in Nat
      /\ Len(inFile) <= LogLimit /\ inFile \in Views /\ LogLimit \in Nat
      /\ \A i \in 1..Len(inFile) : inFile[i] \in 1..LastEvent /\ inFile[i] \in Numbers
  BY LogFacts DEF LogIInv, LogsInv, Rising, Views
<1>4. Counted \in Nat /\ Counted >= count /\ Counted >= Len(inFile)
      /\ Counted \in {count, Len(inFile)}
  BY <1>3 DEF Counted
<1>5. /\ viewer' \in [on : BOOLEAN, last_count : Nat, first : Nat]
      /\ viewer'.on /\ viewer'.last_count = Counted /\ viewer'.first = viewer.first
  BY <1>1, <1>4 DEF LogIInv, LogTypes
<1>6. printed \in [Numbers -> Nat] /\ \A m \in Numbers : printed[m] \in {0, 1}
  BY DEF LogIInv, LogTypes, PrintedInv
<1>7. ASSUME NEW m \in Numbers
      PROVE  /\ printed'[m] = IF m \in unseen THEN printed[m] + 1 ELSE printed[m]
             /\ m \in unseen => printed[m] = 0 /\ m <= LastEvent
  <2>1. ASSUME m \in unseen PROVE printed[m] = 0 /\ m <= LastEvent
    <3>1. PICK i \in count + 1 .. Len(inFile) : m = inFile[i]
      BY <2>1
    <3>2. i \in 1..Len(inFile) /\ ~(i <= count)
      BY <1>3
    <3>3. printed[m] # 1
      BY <1>3, <3>1, <3>2 DEF LogIInv, PrintedInv
    <3>4. QED
      BY <1>3, <1>6, <3>1, <3>2, <3>3
  <2>2. QED
    BY <1>1, <2>1
<1> HIDE DEF unseen
<1>8. LogTypes'
  <2>1. printed' \in [Numbers -> Nat]
    <3>1. \A m \in Numbers : (IF m \in unseen THEN printed[m] + 1 ELSE printed[m]) \in Nat
      BY <1>6
    <3>2. QED
      BY <1>1, <3>1
  <2>2. QED
    BY <1>1, <1>2, <1>5, <2>1 DEF LogIInv, LogTypes, Numbers
<1>9. LogsInv' /\ ViewsInv'
  BY <1>1, <1>2 DEF LogIInv, LogsInv, Rising, ViewsInv, Agree
<1>10. LoneInv'
  BY <1>1, <1>2 DEF LogIInv, LoneInv, Newest, Held, Running
<1>11. PrintedInv'
  <2>1. ASSUME NEW m \in Numbers
        PROVE  /\ printed'[m] \in {0, 1}
               /\ printed'[m] = 1 => m <= LastEvent
    <3>1. printed[m] = 1 => m <= LastEvent
      BY DEF LogIInv, PrintedInv
    <3>2. QED
      BY <1>6, <1>7, <3>1
  <2>2. ASSUME NEW v \in Views, NEW i \in 1..Len(v), printed'[v[i]] = 1
        PROVE  i <= Counted
    <3>1. v[i] \in Numbers /\ i \in Nat /\ i <= LogLimit
      BY LogFacts
    <3>2. CASE printed[v[i]] = 1
      <4>1. i <= count
        BY <3>2 DEF LogIInv, PrintedInv
      <4>2. QED
        BY <1>3, <1>4, <3>1, <4>1
    <3>3. CASE v[i] \in unseen
      <4>1. PICK j \in count + 1 .. Len(inFile) : v[i] = inFile[j]
        BY <3>3 DEF unseen
      <4>2. j \in 1..Len(inFile)
        BY <1>3
      <4>3. j < i => Len(inFile) = LogLimit
        BY <1>3, <4>1, <4>2 DEF LogIInv, ViewsInv, Agree
      <4>4. QED
        BY <1>3, <1>4, <3>1, <4>2, <4>3
    <3>4. QED
      BY <1>7, <2>2, <3>1, <3>2, <3>3
  <2>3. QED
    BY <1>2, <1>5, <2>1, <2>2 DEF PrintedInv, Numbers
<1>12. ViewerInv'
  <2> SUFFICES ASSUME ~crowded, LastEvent <= LogLimit PROVE ViewerInv'
    BY <1>1, <1>2 DEF ViewerInv
  <2>1. /\ viewer.first <= count /\ count <= LastEvent
        /\ \A m \in Numbers : printed[m] = 1 <=> m \in viewer.first + 1 .. count
    BY <1>1 DEF LogIInv, ViewerInv
  <2>2. Len(inFile) <= LastEvent /\ \A i \in 1..Len(inFile) : inFile[i] = i
    BY LoneContent
  <2>3. viewer.first \in Nat
    BY LogFacts
  <2>4. ASSUME NEW m \in Numbers
        PROVE  m \in unseen <=> m \in count + 1 .. Len(inFile)
    BY <1>3, <2>2 DEF unseen
  <2>5. ASSUME NEW m \in Numbers
        PROVE  printed'[m] = 1 <=> m \in viewer.first + 1 .. Counted
    <3>1. m \in Nat
      BY SovereignAssumption DEF Numbers
    <3>2. printed'[m] = 1 <=> printed[m] = 1 \/ m \in unseen
      BY <1>6, <1>7
    <3>3. QED
      BY <1>3, <2>1, <2>3, <2>4, <3>1, <3>2 DEF Counted
  <2>6. viewer.first <= Counted /\ Counted <= LastEvent
    BY <1>3, <1>4, <2>1, <2>2, <2>3
  <2>7. QED
    BY <1>2, <1>5, <2>5, <2>6 DEF ViewerInv, Numbers
<1>13. QED
  BY <1>8, <1>9, <1>10, <1>11, <1>12 DEF LogIInv

-----------------------------------------------------------------------------
(* Home.                                                                       *)

HomeBusy == publisher[Home] \in {"open", "write", "keep", "notify"}

LEMMA HomeFacts ==
  ASSUME LogIInv, HomeIInv
  PROVE  /\ LastEvent \in Nat /\ Numbers \subseteq Nat /\ 1..LastEvent \subseteq Numbers
         /\ Home \in Publishers /\ NoTopic \notin Topics
         /\ HomeBusy => Newcomer \in 1..LastEvent /\ events[Newcomer].by = Home
         /\ messages \in Seq(Numbers) /\ Len(messages) \in Nat
         /\ \A i \in 1..Len(messages) : messages[i] \in 1..LastEvent
         /\ \A k \in Callbacks :
              /\ ThreadInv(k) /\ walk[k].todo \in Seq(Numbers) /\ Len(walk[k].todo) \in Nat
              /\ walk[k].at \in Nat /\ listens[k].from \in Nat
              /\ walk[k].pc \in {"none", "new", "walk", "pop", "ended"}
              /\ \A i \in 1..Len(walk[k].todo) : walk[k].todo[i] \in 1..LastEvent
<1>1. /\ LastEvent \in Nat /\ Numbers \subseteq Nat /\ 1..LastEvent \subseteq Numbers
      /\ Home \in Publishers /\ NoTopic \notin Topics
  BY LogFacts, SovereignAssumption DEF Numbers
<1>2. ASSUME HomeBusy PROVE Newcomer \in 1..LastEvent /\ events[Newcomer].by = Home
  <2>1. message_log[Home] \in Seq(Numbers) /\ message_log[Home] # <<>>
    BY <1>1, <1>2, LogFacts DEF HomeIInv, HandInv, HomeBusy
  <2>2. Len(message_log[Home]) \in 1..Len(message_log[Home])
    BY <2>1
  <2>3. Newcomer \in 1..LastEvent
    BY <1>1, <2>2 DEF LogIInv, LogsInv, Rising, Newcomer
  <2>4. QED
    BY <1>2, <2>3 DEF HomeIInv, HandInv, HomeBusy
<1>3. /\ messages \in Seq(Numbers) /\ Len(messages) \in Nat
      /\ \A i \in 1..Len(messages) : messages[i] \in 1..LastEvent
  <2>1. messages \in Seq(Numbers)
    BY DEF HomeIInv, HomeTypes
  <2>2. QED
    BY <2>1 DEF HomeIInv, MessagesInv, Rising
<1>4. ASSUME NEW k \in Callbacks
      PROVE  /\ ThreadInv(k) /\ walk[k].todo \in Seq(Numbers) /\ Len(walk[k].todo) \in Nat
             /\ walk[k].at \in Nat /\ listens[k].from \in Nat
             /\ walk[k].pc \in {"none", "new", "walk", "pop", "ended"}
             /\ \A i \in 1..Len(walk[k].todo) : walk[k].todo[i] \in 1..LastEvent
  <2>1. ThreadInv(k)
    BY DEF HomeIInv, ThreadsInv
  <2>2. /\ walk[k] \in [pc : {"none", "new", "walk", "pop", "ended"},
                        todo : Seq(Numbers), at : Nat]
        /\ listens[k] \in [to : Topics \cup {NoTopic}, from : Nat]
    BY DEF HomeIInv, HomeTypes
  <2>3. \A i \in 1..Len(walk[k].todo) : walk[k].todo[i] \in 1..LastEvent
    BY <2>1 DEF ThreadInv, Rising
  <2>4. QED
    BY <2>1, <2>2, <2>3
<1>5. QED
  BY <1>1, <1>2, <1>3, <1>4

\* The events so far stay what they are.
EventsKept ==
  /\ LastEvent' \in Nat /\ LastEvent' >= LastEvent
  /\ \A m \in 1..LastEvent : events'[m] = events[m]

\* A thread that makes no step.
LEMMA ThreadKept ==
  ASSUME LogIInv, HomeIInv, EventsKept, NEW k \in Callbacks,
         listens'[k] = listens[k], walk'[k] = walk[k], late[k] \subseteq late'[k],
         forgotten \subseteq forgotten', raised_by \subseteq raised_by',
         \A i \in 1..Len(messages') :
           walk[k].pc = "new" /\ messages'[i] > listens[k].from =>
             messages'[i] \in late'[k] \/ Has(messages, messages'[i])
  PROVE  ThreadInv(k)'
<1> DEFINE w == walk[k] from == listens[k].from
<1>1. ThreadInv(k) /\ LastEvent \in Nat /\ from \in Nat
      /\ \A i \in 1..Len(w.todo) : w.todo[i] \in 1..LastEvent
  BY HomeFacts
<1>2. from <= LastEvent' /\ from <= LastEvent
  BY <1>1 DEF ThreadInv, EventsKept
<1>3. Rising(w.todo)'
  <2>1. \A i \in 1..Len(w.todo) : w.todo[i] \in 1..LastEvent'
    BY <1>1 DEF EventsKept
  <2>2. QED
    BY <1>1, <2>1 DEF Rising, ThreadInv
<1>4. OfHome(w.todo)'
  BY <1>1 DEF ThreadInv, OfHome, EventsKept
<1>5. w.pc = "new" =>
        \A i \in 1..Len(messages') : messages'[i] > from => messages'[i] \in late'[k]
  BY <1>1 DEF ThreadInv, Has
<1>6. w.pc \in {"walk", "pop", "ended"} =>
        \A m \in 1..from : events'[m].by = Home => m \in forgotten' \/ Has(w.todo, m)
  <2>1. \A m \in 1..from : events'[m] = events[m]
    BY <1>1, <1>2 DEF EventsKept
  <2>2. QED
    BY <1>1, <2>1 DEF ThreadInv
<1>7. QED
  BY <1>1, <1>2, <1>3, <1>4, <1>5, <1>6 DEF ThreadInv, Has

\* Nobody is called, and what counts as a call stays the same.
LEMMA HeardKept ==
  ASSUME LogIInv, HomeIInv, heard' = heard,
         \A k \in Callbacks, m \in Numbers : NotifiedOf(k, m)' <=> NotifiedOf(k, m),
         \A k \in Callbacks, m \in Numbers : HandedTo(k, m)' <=> HandedTo(k, m)
  PROVE  HeardInv'
<1>1. Numbers' = Numbers
  BY DEF Numbers
<1>2. \A k \in Callbacks, m \in Numbers :
        heard[k][m] = (IF NotifiedOf(k, m) THEN 1 ELSE 0) + (IF HandedTo(k, m) THEN 1 ELSE 0)
  BY DEF HomeIInv, HeardInv
<1>3. QED
  BY <1>1, <1>2 DEF HeardInv

\* Steps that leave Home alone, or move it where nothing is in hand, or between the points
\* at which the same message is.
LEMMA HomeQuiet ==
  ASSUME LogIInv, HomeIInv, events' = events, UNCHANGED homeVars,
         \/ ~HomeBusy /\ ~HomeBusy'
         \/ /\ HomeBusy /\ message_log'[Home] = message_log[Home]
            /\ publisher'[Home] = publisher[Home]
                 \/ /\ publisher[Home] \in {"open", "write"}
                    /\ publisher'[Home] \in {"write", "keep"}
  PROVE  HomeIInv'
<1>1. UNCHANGED <<messages, listens, walk, heard, late, forgotten, unheard, raised_by>>
      /\ LastEvent' = LastEvent
  BY DEF homeVars, LastEvent
<1>2. /\ HomeBusy' <=> HomeBusy
      /\ HomeBusy => Newcomer' = Newcomer /\ message_log'[Home] = message_log[Home]
      /\ publisher'[Home] \in {"open", "write", "keep"}
           <=> publisher[Home] \in {"open", "write", "keep"}
  BY DEF HomeBusy, Newcomer
<1>3. InHand' = InHand /\ Unkept' = Unkept
  BY <1>2 DEF InHand, Unkept, HomeBusy
<1>4. HomeTypes'
  BY <1>1 DEF HomeIInv, HomeTypes, Numbers
<1>5. HandInv'
  BY <1>1, <1>2 DEF HomeIInv, HandInv, HomeBusy
<1>6. MessagesInv'
  BY <1>1, <1>3 DEF HomeIInv, MessagesInv, Rising, OfHome, Has
<1>7. ThreadsInv'
  <2>1. EventsKept
    BY <1>1, HomeFacts DEF EventsKept
  <2>2. \A i \in 1..Len(messages') : Has(messages, messages'[i])
    BY <1>1 DEF Has
  <2>3. QED
    BY <1>1, <2>1, <2>2, ThreadKept DEF ThreadsInv
<1>8. HeardInv'
  BY <1>1, <1>3, HeardKept DEF NotifiedOf, HandedTo
<1>9. QED
  BY <1>4, <1>5, <1>6, <1>7, <1>8 DEF HomeIInv

LEMMA HomeInit == SovInit => HomeIInv
<1> SUFFICES ASSUME SovInit PROVE HomeIInv
  OBVIOUS
<1>1. /\ events = <<>> /\ LastEvent = 0 /\ messages = <<>> /\ forgotten = {} /\ raised_by = {}
      /\ unheard = {}
      /\ Home \in Publishers /\ publisher[Home] = "off"
      /\ listens = [k \in Callbacks |-> [to |-> NoTopic, from |-> 0]]
      /\ walk = [k \in Callbacks |-> [pc |-> "none", todo |-> <<>>, at |-> 1]]
      /\ heard = [k \in Callbacks |-> [m \in Numbers |-> 0]]
      /\ late = [k \in Callbacks |-> {}]
  BY SovereignAssumption DEF SovInit, LastEvent
<1>2. HomeTypes
  <2>1. <<>> \in Seq(Numbers)
    OBVIOUS
  <2>2. walk \in [Callbacks -> [pc : {"none", "new", "walk", "pop", "ended"},
                                todo : Seq(Numbers), at : Nat]]
    BY <1>1, <2>1
  <2>3. heard \in [Callbacks -> [Numbers -> Nat]]
    BY <1>1
  <2>4. QED
    BY <1>1, <2>1, <2>2, <2>3 DEF HomeTypes
<1>3. HandInv
  BY <1>1 DEF HandInv
<1>4. MessagesInv
  BY <1>1 DEF MessagesInv, Rising, OfHome, Has, Unkept
<1>5. ThreadsInv
  <2> SUFFICES ASSUME NEW k \in Callbacks PROVE ThreadInv(k)
    BY DEF ThreadsInv
  <2>1. /\ walk[k].pc = "none" /\ walk[k].todo = <<>> /\ walk[k].at = 1
        /\ listens[k].to = NoTopic /\ listens[k].from = 0
    BY <1>1
  <2>2. QED
    BY <1>1, <2>1 DEF ThreadInv, Rising, OfHome
<1>6. HeardInv
  BY <1>1 DEF HeardInv, NotifiedOf, HandedTo
<1>7. QED
  BY <1>2, <1>3, <1>4, <1>5, <1>6 DEF HomeIInv

LEMMA PublishHome ==
  ASSUME LogIInv, HomeIInv, NEW p \in Publishers, NEW topic \in Topics, PublishEvent(p, topic)
  PROVE  HomeIInv'
<1> DEFINE new == LastEvent + 1
<1>1. /\ publisher[p] = "up" /\ publisher' = [publisher EXCEPT ![p] = "open"]
      /\ LastEvent < MaxMessages /\ events' = Append(events, [by |-> p, on |-> topic])
      /\ message_log' = [message_log EXCEPT ![p] = Append(message_log[p], new)]
      /\ UNCHANGED <<messages, listens, walk, heard, late, forgotten, unheard, raised_by>>
  BY DEF PublishEvent, homeVars
<1>2. /\ events \in Seq([by : Publishers, on : Topics]) /\ Home \in Publishers
      /\ publisher \in [Publishers -> {"off", "up", "open", "write", "keep", "notify"}]
      /\ message_log \in [Publishers -> Seq(Numbers)]
      /\ LastEvent \in Nat /\ LastEvent = Len(events) /\ Numbers' = Numbers
  BY HomeFacts DEF LogIInv, LogTypes, LastEvent, Numbers
<1>3. /\ LastEvent' = new /\ events'[new].by = p /\ new > LastEvent /\ new \in Nat
      /\ \A m \in 1..LastEvent : events'[m] = events[m] /\ m \in 1..LastEvent' /\ m # new
  <2> DEFINE e == [by |-> p, on |-> topic]
             Event == [by : Publishers, on : Topics]
  <2>1. events' = Append(events, e) /\ events \in Seq(Event) /\ e \in Event /\ e.by = p
    BY <1>1, <1>2
  <2> HIDE DEF e, Event
  <2>2. /\ Len(events') = Len(events) + 1 /\ events'[Len(events) + 1] = e
        /\ \A m \in 1..Len(events) : events'[m] = events[m]
    BY <2>1
  <2>3. LastEvent' = new /\ events'[new].by = p
    BY <1>2, <2>1, <2>2 DEF LastEvent
  <2>4. new > LastEvent /\ new \in Nat
    BY <1>2
  <2>5. \A m \in 1..LastEvent : m \in 1..LastEvent' /\ m # new
    BY <1>2, <2>3
  <2>6. QED
    BY <1>2, <2>2, <2>3, <2>4, <2>5
<1>4. EventsKept
  BY <1>2, <1>3 DEF EventsKept
<1>5. /\ Home = p => ~HomeBusy /\ HomeBusy' /\ Unkept = {} /\ InHand = {}
                     /\ Newcomer' = new /\ message_log'[Home] # <<>>
                     /\ Unkept' = {new} /\ InHand' = {new}
      /\ Home # p => (HomeBusy' <=> HomeBusy) /\ Newcomer' = Newcomer
                     /\ message_log'[Home] = message_log[Home]
                     /\ Unkept' = Unkept /\ InHand' = InHand
  <2>1. CASE Home = p
    <3>1. publisher[Home] = "up" /\ publisher'[Home] = "open"
      BY <1>1, <1>2, <2>1
    <3>2. message_log'[Home] = Append(message_log[Home], new)
          /\ message_log[Home] \in Seq(Numbers)
      BY <1>1, <1>2, <2>1
    <3>3. message_log'[Home] # <<>> /\ Newcomer' = new
      <4> HIDE DEF new
      <4> QED
        BY <3>2 DEF Newcomer
    <3>4. QED
      BY <2>1, <3>1, <3>3 DEF HomeBusy, Unkept, InHand
  <2>2. CASE Home # p
    <3>1. publisher'[Home] = publisher[Home] /\ message_log'[Home] = message_log[Home]
      BY <1>1, <1>2, <2>2
    <3>2. Newcomer' = Newcomer
      BY <3>1 DEF Newcomer
    <3>3. QED
      BY <2>2, <3>1, <3>2 DEF HomeBusy, Unkept, InHand
  <2>3. QED
    BY <2>1, <2>2
<1> HIDE DEF new
<1>6. HomeTypes'
  BY <1>1, <1>2 DEF HomeIInv, HomeTypes
<1>7. HandInv'
  <2>a. unheard \subseteq 1..LastEvent /\ unheard' = unheard
    BY <1>1 DEF HomeIInv, HandInv
  <2>b. unheard' \subseteq 1..LastEvent' /\ new \notin unheard'
    BY <1>2, <1>3, <2>a
  <2> SUFFICES ASSUME HomeBusy'
               PROVE  /\ message_log'[Home] # <<>> /\ events'[Newcomer'].by = Home
                      /\ Newcomer' \notin unheard'
                      /\ \A m \in Newcomer' + 1 .. LastEvent' : events'[m].by # Home
                      /\ \A k \in Callbacks : listens'[k].to # NoTopic
                                                => listens'[k].from < Newcomer'
    BY <2>b DEF HandInv, HomeBusy
  <2>1. CASE Home = p
    <3>1. \A k \in Callbacks : listens[k].from <= LastEvent /\ listens[k].from \in Nat
      BY HomeFacts DEF ThreadInv
    <3>2. Newcomer' = new /\ message_log'[Home] # <<>> /\ events'[Newcomer'].by = Home
      BY <1>3, <1>5, <2>1
    <3>3. \A m \in Newcomer' + 1 .. LastEvent' : FALSE
      BY <1>3, <3>2
    <3>4. ASSUME NEW k \in Callbacks PROVE listens'[k].from < Newcomer'
      BY <1>1, <1>2, <1>3, <3>1, <3>2
    <3>5. QED
      BY <2>b, <3>2, <3>3, <3>4
  <2>2. CASE Home # p
    <3>1. HomeBusy /\ Newcomer' = Newcomer /\ message_log'[Home] = message_log[Home]
      BY <1>5, <2>2
    <3>2. /\ message_log[Home] # <<>> /\ events[Newcomer].by = Home
          /\ \A m \in Newcomer + 1 .. LastEvent : events[m].by # Home
          /\ \A k \in Callbacks : listens[k].to # NoTopic => listens[k].from < Newcomer
          /\ Newcomer \in 1..LastEvent /\ Newcomer \notin unheard
      BY <3>1, HomeFacts DEF HomeIInv, HandInv, HomeBusy
    <3>3. ASSUME NEW m \in Newcomer + 1 .. LastEvent' PROVE events'[m].by # Home
      <4>1. m = new \/ m \in Newcomer + 1 .. LastEvent
        <5>1. LastEvent' = LastEvent + 1 /\ LastEvent \in Nat /\ Newcomer \in Nat
          BY <1>2, <1>3, <3>2 DEF new
        <5>2. QED
          BY <5>1 DEF new
      <4>2. m \in Newcomer + 1 .. LastEvent => m \in 1..LastEvent
        BY <1>2, <3>2
      <4>3. QED
        BY <1>3, <2>2, <3>2, <4>1, <4>2
    <3>4. QED
      BY <1>1, <1>3, <2>a, <3>1, <3>2, <3>3
  <2>3. QED
    BY <2>1, <2>2
<1>8. MessagesInv'
  <2>1. /\ Rising(messages) /\ OfHome(messages)
        /\ \A m \in Unkept : ~Has(messages, m)
        /\ \A m \in 1..LastEvent :
             events[m].by = Home => m \in Unkept \cup forgotten \/ Has(messages, m)
        /\ \A i \in 1..Len(messages) : messages[i] \in 1..LastEvent
    BY HomeFacts DEF HomeIInv, MessagesInv
  <2>2. Rising(messages)' /\ OfHome(messages)'
    <3>1. \A i \in 1..Len(messages) : messages[i] \in 1..LastEvent'
      BY <1>3, <2>1
    <3>2. QED
      BY <1>1, <1>3, <2>1, <3>1 DEF Rising, OfHome
  <2>3. \A m \in Unkept' : ~Has(messages, m)
    <3>1. ~Has(messages, new)
      BY <1>2, <1>3, <2>1 DEF Has
    <3>2. QED
      BY <1>5, <2>1, <3>1
  <2>4. ASSUME NEW m \in 1..LastEvent', events'[m].by = Home
        PROVE  m \in Unkept' \cup forgotten \/ Has(messages, m)
    <3>1. m \in 1..LastEvent \/ m = new
      BY <1>2, <1>3 DEF new
    <3>2. CASE m = new
      BY <1>3, <1>5, <2>4, <3>2
    <3>3. CASE m \in 1..LastEvent
      BY <1>3, <1>5, <2>1, <2>4, <3>3
    <3>4. QED
      BY <3>1, <3>2, <3>3
  <2>5. QED
    BY <1>1, <2>2, <2>3, <2>4 DEF MessagesInv, Has
<1>9. ThreadsInv'
  <2>1. \A i \in 1..Len(messages') : Has(messages, messages'[i])
    BY <1>1 DEF Has
  <2>2. QED
    BY <1>1, <1>4, <2>1, ThreadKept DEF ThreadsInv
<1>10. ASSUME NEW k \in Callbacks, NEW m \in Numbers
       PROVE  NotifiedOf(k, m)' <=> NotifiedOf(k, m)
  <2>1. CASE m \in 1..LastEvent
    <3>1. m \in 1..LastEvent' /\ events'[m] = events[m] /\ m # new
      BY <1>3, <2>1
    <3>2. m \in InHand' \cup unheard' <=> m \in InHand \cup unheard
      BY <1>1, <1>5, <3>1
    <3>3. QED
      BY <1>1, <2>1, <3>1, <3>2 DEF NotifiedOf
  <2>2. CASE m = new
    <3>1. Home # p => events'[m].by # Home
      BY <1>3, <2>2
    <3>2. ~NotifiedOf(k, m)'
      BY <1>5, <2>2, <3>1 DEF NotifiedOf
    <3>3. m \notin 1..LastEvent
      BY <1>2, <1>3, <2>2
    <3>4. QED
      BY <3>2, <3>3 DEF NotifiedOf
  <2>3. CASE m \notin 1..LastEvent /\ m # new
    <3>1. m \notin 1..LastEvent'
      BY <1>2, <1>3, <2>3 DEF new
    <3>2. QED
      BY <2>3, <3>1 DEF NotifiedOf
  <2>4. QED
    BY <2>1, <2>2, <2>3
<1>11. ASSUME NEW k \in Callbacks, NEW m \in Numbers
       PROVE  HandedTo(k, m)' <=> HandedTo(k, m)
  <2>1. \A i \in 1..Len(walk[k].todo) : walk[k].todo[i] \in 1..LastEvent
    BY HomeFacts
  <2>2. \A i \in 1..Len(walk[k].todo) : events'[walk[k].todo[i]] = events[walk[k].todo[i]]
    BY <1>3, <2>1
  <2>3. QED
    BY <1>1, <2>2 DEF HandedTo
<1>12. HeardInv'
  BY <1>1, <1>10, <1>11, HeardKept
<1>13. QED
  BY <1>6, <1>7, <1>8, <1>9, <1>12 DEF HomeIInv

LEMMA KeepsHome ==
  ASSUME LogIInv, HomeIInv, publisher[Home] = "keep", NEW to \in {"notify", "up"},
         publisher' = [publisher EXCEPT ![Home] = to], Keeps(Newcomer),
         unheard' = IF to = "up" THEN unheard \cup {Newcomer} ELSE unheard,
         UNCHANGED <<listens, walk, heard, forgotten, raised_by, events, message_log>>
  PROVE  HomeIInv'
<1> DEFINE h == Newcomer
<1>1. /\ messages' = Append(messages, h)
      /\ late' = [k \in Callbacks |-> IF walk[k].pc = "new" THEN late[k] \cup {h} ELSE late[k]]
  BY DEF Keeps
<1>2. /\ HomeBusy /\ h \in 1..LastEvent /\ h \in Numbers /\ events[h].by = Home
      /\ LastEvent \in Nat /\ LastEvent' = LastEvent /\ Home \in Publishers
      /\ messages \in Seq(Numbers) /\ h \notin unheard
  BY HomeFacts DEF HomeBusy, LastEvent, HomeIInv, HandInv
<1>3. /\ publisher'[Home] = to /\ Newcomer' = h
      /\ InHand = {h} /\ InHand' = (IF to = "up" THEN {} ELSE {h})
      /\ Unkept' = {} /\ Unkept = {h}
      /\ InHand' \cup unheard' = InHand \cup unheard
  BY <1>1, <1>2 DEF LogIInv, LogTypes, InHand, Unkept, Newcomer
<1>4. HomeTypes'
  <2>1. messages' \in Seq(Numbers)
    BY <1>1, <1>2
  <2>2. late' \in [Callbacks -> SUBSET Numbers]
    BY <1>1, <1>2 DEF HomeIInv, HomeTypes
  <2>3. QED
    BY <1>1, <1>2, <2>1, <2>2 DEF HomeIInv, HomeTypes, Numbers
<1>5. HandInv'
  BY <1>1, <1>2, <1>3 DEF HomeIInv, HandInv, HomeBusy
<1>6. /\ Rising(messages) /\ OfHome(messages) /\ ~Has(messages, h)
      /\ \A m \in 1..LastEvent :
           events[m].by = Home => m = h \/ m \in forgotten \/ Has(messages, m)
  BY <1>3 DEF HomeIInv, MessagesInv
<1>7. /\ Len(messages') = Len(messages) + 1 /\ Len(messages) \in Nat
      /\ messages'[Len(messages) + 1] = h
      /\ \A i \in 1..Len(messages) : messages'[i] = messages[i]
      /\ \A i \in 1..Len(messages') : i \in 1..Len(messages) \/ i = Len(messages) + 1
  <2> HIDE DEF h
  <2> QED
    BY <1>1, <1>2
<1>8. ASSUME NEW i \in 1..Len(messages) PROVE messages[i] \in 1..LastEvent /\ messages[i] < h
  <2>1. messages[i] \in 1..LastEvent /\ events[messages[i]].by = Home /\ messages[i] # h
    BY <1>6, HomeFacts DEF OfHome, Has
  <2>2. messages[i] \notin h + 1 .. LastEvent
    BY <1>2, <2>1 DEF HomeIInv, HandInv, HomeBusy
  <2>3. QED
    BY <1>2, <2>1, <2>2
<1> HIDE DEF h
<1>9. MessagesInv'
  <2>1. \A i, j \in 1..Len(messages) : i < j => messages[i] < messages[j]
    BY <1>6 DEF Rising
  <2>2. \A i, j \in 1..Len(messages') : i < j => messages'[i] < messages'[j]
    BY <1>7, <1>8, <2>1
  <2>3. Rising(messages)'
    BY <1>2, <1>7, <1>8, <2>2 DEF Rising
  <2>4. OfHome(messages)'
    BY <1>1, <1>2, <1>6, <1>7 DEF OfHome
  <2>5. \A m : Has(messages, m) \/ m = h => Has(messages', m)
    BY <1>7 DEF Has
  <2>6. QED
    BY <1>1, <1>2, <1>3, <1>6, <2>3, <2>4, <2>5 DEF MessagesInv, Has
<1>10. ThreadsInv'
  <2>1. EventsKept
    BY <1>1, <1>2 DEF EventsKept
  <2> SUFFICES ASSUME NEW k \in Callbacks PROVE ThreadInv(k)'
    BY DEF ThreadsInv
  <2>2. late[k] \subseteq late'[k] /\ (walk[k].pc = "new" => h \in late'[k])
    BY <1>1
  <2>3. \A i \in 1..Len(messages') :
          walk[k].pc = "new" => messages'[i] \in late'[k] \/ Has(messages, messages'[i])
    BY <1>7, <2>2 DEF Has
  <2>4. QED
    BY <1>1, <2>1, <2>2, <2>3, ThreadKept
<1>11. HeardInv'
  BY <1>1, <1>2, <1>3, HeardKept DEF NotifiedOf, HandedTo
<1>12. QED
  BY <1>4, <1>5, <1>9, <1>10, <1>11 DEF HomeIInv

LEMMA KeepMessageHome == ASSUME LogIInv, HomeIInv, KeepMessage PROVE HomeIInv'
  BY KeepsHome DEF KeepMessage, HomesOnly, LogsStay

\* The message is not kept, and its publication raises.
LEMMA NotKeptHome ==
  ASSUME LogIInv, HomeIInv, publisher[Home] = "keep",
         publisher' = [publisher EXCEPT ![Home] = "up"],
         forgotten' = forgotten \cup {Newcomer}, unheard' = unheard \cup {Newcomer},
         UNCHANGED <<messages, listens, walk, heard, late, raised_by, events, message_log>>
  PROVE  HomeIInv'
<1> DEFINE h == Newcomer
<1>1. /\ HomeBusy /\ h \in 1..LastEvent /\ h \in Numbers /\ LastEvent' = LastEvent
      /\ Home \in Publishers
  BY HomeFacts DEF HomeBusy, LastEvent
<1>2. /\ publisher'[Home] = "up" /\ InHand = {h} /\ InHand' = {}
      /\ Unkept = {h} /\ Unkept' = {}
  BY <1>1 DEF LogIInv, LogTypes, InHand, Unkept
<1>3. HomeTypes'
  BY <1>1 DEF HomeIInv, HomeTypes, Numbers
<1>4. HandInv'
  BY <1>1, <1>2 DEF HomeIInv, HandInv
<1> HIDE DEF h
<1>5. MessagesInv'
  BY <1>1, <1>2 DEF HomeIInv, MessagesInv, Rising, OfHome, Has, h
<1>6. ThreadsInv'
  <2>1. EventsKept
    BY <1>1, HomeFacts DEF EventsKept
  <2>2. \A i \in 1..Len(messages') : Has(messages, messages'[i])
    BY DEF Has
  <2>3. QED
    BY <2>1, <2>2, ThreadKept DEF ThreadsInv
<1>7. HeardInv'
  <2>1. InHand' \cup unheard' = InHand \cup unheard
    BY <1>2 DEF h
  <2>2. QED
    BY <1>1, <2>1, HeardKept DEF NotifiedOf, HandedTo
<1>8. QED
  BY <1>3, <1>4, <1>5, <1>6, <1>7 DEF HomeIInv

LEMMA PublishRaisesHome == ASSUME LogIInv, HomeIInv, PublishRaises PROVE HomeIInv'
<1>1. CASE Keeps(Newcomer) /\ UNCHANGED forgotten
  BY <1>1, KeepsHome DEF PublishRaises, LogsStay
<1>2. CASE forgotten' = forgotten \cup {Newcomer} /\ UNCHANGED <<messages, late>>
  BY <1>2, NotKeptHome DEF PublishRaises, LogsStay
<1>3. QED
  BY <1>1, <1>2 DEF PublishRaises

LEMMA NotifyHome == ASSUME LogIInv, HomeIInv, NotifyListeners PROVE HomeIInv'
<1> DEFINE h == Newcomer
<1>1. /\ publisher[Home] = "notify" /\ publisher' = [publisher EXCEPT ![Home] = "up"]
      /\ heard' = [k \in Callbacks |->
                     IF listens[k].to = events[h].on THEN [heard[k] EXCEPT ![h] = @ + 1]
                     ELSE heard[k]]
      /\ UNCHANGED <<messages, listens, walk, late, forgotten, unheard, raised_by, events, message_log>>
  BY DEF NotifyListeners, HomesOnly, LogsStay, Newcomer, Listeners
<1>2. /\ HomeBusy /\ h \in 1..LastEvent /\ h \in Numbers /\ events[h].by = Home
      /\ LastEvent \in Nat /\ LastEvent' = LastEvent /\ Home \in Publishers
      /\ heard \in [Callbacks -> [Numbers -> Nat]] /\ h \notin unheard
  BY <1>1, HomeFacts DEF HomeBusy, LastEvent, HomeIInv, HomeTypes, HandInv
<1>3. events[h] = [by |-> Home, on |-> events[h].on] /\ events[h].on \in Topics
  <2> HIDE DEF h
  <2>1. h \in 1..Len(events)
    BY <1>2 DEF LastEvent
  <2>2. events \in Seq([by : Publishers, on : Topics])
    BY DEF LogIInv, LogTypes
  <2>3. events[h] \in [by : Publishers, on : Topics]
    <3> DEFINE Event == [by : Publishers, on : Topics]
    <3>1. events \in Seq(Event)
      BY <2>2
    <3> HIDE DEF Event
    <3>2. events[h] \in Event
      BY <2>1, <3>1
    <3>3. QED
      BY <3>2 DEF Event
  <2>4. QED
    BY <1>2, <2>3
<1>4. publisher'[Home] = "up" /\ InHand' = {} /\ InHand = {h} /\ Unkept' = {} /\ Unkept = {}
  BY <1>1, <1>2 DEF LogIInv, LogTypes, InHand, Unkept
<1> HIDE DEF h
<1>5. HomeTypes'
  <2>1. heard' \in [Callbacks -> [Numbers -> Nat]]
    BY <1>1, <1>2
  <2>2. QED
    BY <1>1, <2>1 DEF HomeIInv, HomeTypes, Numbers
<1>6. HandInv'
  BY <1>1, <1>2, <1>4 DEF HomeIInv, HandInv
<1>7. MessagesInv'
  BY <1>1, <1>2, <1>4 DEF HomeIInv, MessagesInv, Rising, OfHome, Has
<1>8. ThreadsInv'
  <2>1. EventsKept
    BY <1>1, <1>2 DEF EventsKept
  <2>2. \A i \in 1..Len(messages') : Has(messages, messages'[i])
    BY <1>1 DEF Has
  <2>3. QED
    BY <1>1, <2>1, <2>2, ThreadKept DEF ThreadsInv
<1>9. ASSUME NEW k \in Callbacks, NEW m \in Numbers
      PROVE  heard'[k][m] = (IF NotifiedOf(k, m)' THEN 1 ELSE 0)
                            + (IF HandedTo(k, m)' THEN 1 ELSE 0)
  <2>1. heard[k][m] = (IF NotifiedOf(k, m) THEN 1 ELSE 0) + (IF HandedTo(k, m) THEN 1 ELSE 0)
    BY DEF HomeIInv, HeardInv
  <2>2. HandedTo(k, m)' <=> HandedTo(k, m)
    BY <1>1 DEF HandedTo
  <2>3. CASE m = h /\ listens[k].to = events[h].on
    <3>1. heard'[k][m] = heard[k][m] + 1
      BY <1>1, <1>2, <2>3
    <3>2. ~NotifiedOf(k, m)
      BY <1>4, <2>3 DEF NotifiedOf
    <3>3. listens[k].to # NoTopic
      BY <1>3, <2>3, HomeFacts
    <3>4. listens[k].from < h
      BY <1>2, <3>3 DEF HomeIInv, HandInv, HomeBusy, h
    <3>5. h > listens[k].from
      BY <1>2, <3>4, HomeFacts
    <3>6. NotifiedOf(k, m)'
      BY <1>1, <1>2, <1>3, <1>4, <2>3, <3>3, <3>5 DEF NotifiedOf
    <3>7. QED
      BY <2>1, <2>2, <3>1, <3>2, <3>6
  <2>4. CASE ~(m = h /\ listens[k].to = events[h].on)
    <3>1. heard'[k][m] = heard[k][m]
      BY <1>1, <1>2, <2>4
    <3>2. NotifiedOf(k, m)' <=> NotifiedOf(k, m)
      BY <1>1, <1>2, <1>4, <2>4 DEF NotifiedOf
    <3>3. QED
      BY <2>1, <2>2, <3>1, <3>2
  <2>5. QED
    BY <2>3, <2>4
<1>10. HeardInv'
  BY <1>9 DEF HeardInv, Numbers
<1>11. QED
  BY <1>5, <1>6, <1>7, <1>8, <1>10 DEF HomeIInv

LEMMA SubscribeHome ==
  ASSUME LogIInv, HomeIInv, NEW k \in Callbacks, NEW topic \in Topics, Subscribe(k, topic)
  PROVE  HomeIInv'
<1>1. /\ publisher[Home] = "up" /\ listens[k].to = NoTopic
      /\ listens' = [listens EXCEPT ![k] = [to |-> topic, from |-> LastEvent]]
      /\ walk' = [walk EXCEPT ![k].pc = "new"]
      /\ UNCHANGED <<publisher, messages, heard, late, forgotten, unheard, raised_by, events,
                     message_log>>
  BY DEF Subscribe, HomesOnly, LogsStay
<1>2. /\ listens \in [Callbacks -> [to : Topics \cup {NoTopic}, from : Nat]]
      /\ walk \in [Callbacks -> [pc : {"none", "new", "walk", "pop", "ended"},
                                 todo : Seq(Numbers), at : Nat]]
      /\ LastEvent \in Nat /\ LastEvent' = LastEvent /\ NoTopic \notin Topics
  BY <1>1, HomeFacts DEF HomeIInv, HomeTypes, LastEvent
<1>3. walk[k].pc = "none" /\ walk[k].todo = <<>> /\ walk[k].at = 1
  BY <1>1, HomeFacts DEF ThreadInv
<1>4. /\ listens'[k].to = topic /\ listens'[k].from = LastEvent /\ topic # NoTopic
      /\ walk'[k].pc = "new" /\ walk'[k].todo = <<>> /\ walk'[k].at = 1
      /\ \A q \in Callbacks \ {k} : listens'[q] = listens[q] /\ walk'[q] = walk[q]
  BY <1>1, <1>2, <1>3
<1>5. HomeTypes'
  <2>1. listens' \in [Callbacks -> [to : Topics \cup {NoTopic}, from : Nat]]
    BY <1>1, <1>2
  <2>2. walk' \in [Callbacks -> [pc : {"none", "new", "walk", "pop", "ended"},
                                 todo : Seq(Numbers), at : Nat]]
    BY <1>1, <1>2
  <2>3. QED
    BY <1>1, <2>1, <2>2 DEF HomeIInv, HomeTypes, Numbers
<1>6. HandInv' /\ Unkept' = Unkept /\ InHand' = InHand
  BY <1>1, <1>2 DEF HomeIInv, HandInv, Unkept, InHand
<1>7. MessagesInv'
  BY <1>1, <1>2, <1>6 DEF HomeIInv, MessagesInv, Rising, OfHome, Has
<1>8. ThreadsInv'
  <2>1. EventsKept
    BY <1>1, <1>2 DEF EventsKept
  <2>2. \A i \in 1..Len(messages') : Has(messages, messages'[i])
    BY <1>1 DEF Has
  <2>3. \A i \in 1..Len(messages) : ~(messages[i] > LastEvent)
    <3>1. \A i \in 1..Len(messages) : messages[i] \in 1..LastEvent
      BY HomeFacts
    <3>2. QED
      BY <1>2, <3>1
  <2>4. ThreadInv(k)'
    <3>1. LastEvent <= LastEvent /\ 1 >= 1
      BY <1>2
    <3>2. Rising(<<>>)' /\ OfHome(<<>>)'
      BY DEF Rising, OfHome
    <3>3. \A i \in 1..Len(messages') : messages'[i] > LastEvent => messages'[i] \in late'[k]
      BY <1>1, <2>3
    <3>4. \A i \in 1..Len(<<>>) : FALSE
      OBVIOUS
    <3>5. QED
      BY <1>2, <1>4, <3>1, <3>2, <3>3, <3>4 DEF ThreadInv
  <2>5. \A q \in Callbacks \ {k} : ThreadInv(q)'
    BY <1>1, <1>4, <2>1, <2>2, ThreadKept
  <2>6. QED
    BY <2>4, <2>5 DEF ThreadsInv
<1>9. ASSUME NEW q \in Callbacks, NEW m \in Numbers
      PROVE  (NotifiedOf(q, m)' <=> NotifiedOf(q, m)) /\ (HandedTo(q, m)' <=> HandedTo(q, m))
  <2>1. CASE q = k
    <3>1. ~NotifiedOf(k, m) /\ ~HandedTo(k, m)
      BY <1>1, <1>3 DEF NotifiedOf, HandedTo
    <3>2. ~NotifiedOf(k, m)' /\ ~HandedTo(k, m)'
      BY <1>2, <1>4 DEF NotifiedOf, HandedTo
    <3>3. QED
      BY <2>1, <3>1, <3>2
  <2>2. CASE q # k
    BY <1>1, <1>2, <1>4, <1>6, <2>2 DEF NotifiedOf, HandedTo
  <2>3. QED
    BY <2>1, <2>2
<1>10. HeardInv'
  BY <1>1, <1>9, HeardKept
<1>11. QED
  BY <1>5, <1>6, <1>7, <1>8, <1>10 DEF HomeIInv

\* A step of one thread that takes nothing out.
LEMMA ThreadStep ==
  ASSUME LogIInv, HomeIInv, NEW k \in Callbacks, HomeTypes', ThreadInv(k)',
         UNCHANGED <<publisher, messages, listens, late, forgotten, unheard, events,
                     message_log>>,
         raised_by \subseteq raised_by',
         \A q \in Callbacks \ {k} : walk'[q] = walk[q] /\ heard'[q] = heard[q],
         \A m \in Numbers : heard'[k][m] + (IF HandedTo(k, m) THEN 1 ELSE 0)
                              = heard[k][m] + (IF HandedTo(k, m)' THEN 1 ELSE 0)
  PROVE  HomeIInv'
<1>1. LastEvent' = LastEvent /\ LastEvent \in Nat /\ InHand' = InHand /\ Unkept' = Unkept
      /\ Newcomer' = Newcomer
  BY HomeFacts DEF LastEvent, InHand, Unkept, Newcomer
<1>2. HandInv'
  BY <1>1 DEF HomeIInv, HandInv
<1>3. MessagesInv'
  BY <1>1 DEF HomeIInv, MessagesInv, Rising, OfHome, Has
<1>4. ThreadsInv'
  <2>1. EventsKept
    BY <1>1 DEF EventsKept
  <2>2. \A i \in 1..Len(messages') : Has(messages, messages'[i])
    BY DEF Has
  <2>3. \A q \in Callbacks \ {k} : ThreadInv(q)'
    BY <2>1, <2>2, ThreadKept
  <2>4. QED
    BY <2>3 DEF ThreadsInv
<1>5. ASSUME NEW q \in Callbacks, NEW m \in Numbers
      PROVE  heard'[q][m] = (IF NotifiedOf(q, m)' THEN 1 ELSE 0)
                            + (IF HandedTo(q, m)' THEN 1 ELSE 0)
  <2>1. heard[q][m] = (IF NotifiedOf(q, m) THEN 1 ELSE 0) + (IF HandedTo(q, m) THEN 1 ELSE 0)
    BY DEF HomeIInv, HeardInv
  <2>2. NotifiedOf(q, m)' <=> NotifiedOf(q, m)
    BY <1>1 DEF NotifiedOf
  <2>3. CASE q = k
    <3>1. heard'[q][m] \in Nat
      BY DEF HomeTypes, Numbers
    <3>2. QED
      BY <2>1, <2>2, <2>3, <3>1
  <2>4. CASE q # k
    <3>1. heard'[q] = heard[q] /\ (HandedTo(q, m)' <=> HandedTo(q, m))
      BY <2>4 DEF HandedTo
    <3>2. QED
      BY <2>1, <2>2, <3>1
  <2>5. QED
    BY <2>3, <2>4
<1>6. HeardInv'
  BY <1>5 DEF HeardInv, Numbers
<1>7. QED
  BY <1>2, <1>3, <1>4, <1>6 DEF HomeIInv

LEMMA LookAtKeptHome ==
  ASSUME LogIInv, HomeIInv, NEW k \in Callbacks, LookAtKept(k)
  PROVE  HomeIInv'
<1> DEFINE from == listens[k].from
<1>1. /\ walk[k].pc = "new"
      /\ walk' = [walk EXCEPT ![k] = [pc |-> "walk", todo |-> messages, at |-> 1]]
      /\ UNCHANGED <<publisher, messages, listens, heard, late, forgotten, unheard, raised_by, events,
                     message_log>>
  BY DEF LookAtKept, HomesOnly, LogsStay
<1>2. /\ walk \in [Callbacks -> [pc : {"none", "new", "walk", "pop", "ended"},
                                 todo : Seq(Numbers), at : Nat]]
      /\ messages \in Seq(Numbers) /\ from \in Nat /\ LastEvent' = LastEvent
      /\ LastEvent \in Nat /\ ThreadInv(k) /\ walk[k].todo = <<>>
  <2>1. ThreadInv(k)
    BY HomeFacts
  <2>2. walk[k].todo = <<>>
    BY <1>1, <2>1 DEF ThreadInv
  <2>3. QED
    BY <1>1, <2>1, <2>2, HomeFacts DEF HomeIInv, HomeTypes, LastEvent
<1>3. /\ walk'[k].pc = "walk" /\ walk'[k].todo = messages /\ walk'[k].at = 1
      /\ \A q \in Callbacks \ {k} : walk'[q] = walk[q]
  BY <1>1, <1>2
<1>4. HomeTypes'
  <2>1. [pc |-> "walk", todo |-> messages, at |-> 1]
          \in [pc : {"none", "new", "walk", "pop", "ended"}, todo : Seq(Numbers), at : Nat]
    BY <1>2
  <2>2. walk' \in [Callbacks -> [pc : {"none", "new", "walk", "pop", "ended"},
                                 todo : Seq(Numbers), at : Nat]]
    BY <1>1, <1>2, <2>1
  <2>3. QED
    BY <1>1, <2>2 DEF HomeIInv, HomeTypes, Numbers
<1>5. listens[k].to # NoTopic /\ from <= LastEvent
      /\ \A i \in 1..Len(messages) : messages[i] > from => messages[i] \in late[k]
  BY <1>1, <1>2 DEF ThreadInv
<1>6. Rising(messages) /\ OfHome(messages)
  BY DEF HomeIInv, MessagesInv
<1>7. ASSUME NEW m \in 1..from, events[m].by = Home
      PROVE  m \in forgotten \/ Has(messages, m)
  <2>1. m \in Unkept \cup forgotten \/ Has(messages, m)
    BY <1>2, <1>5, <1>7 DEF HomeIInv, MessagesInv
  <2>2. ASSUME m \in Unkept PROVE FALSE
    <3>1. HomeBusy /\ m = Newcomer
      BY <2>2 DEF Unkept, HomeBusy
    <3>2. from < m
      BY <1>5, <3>1 DEF HomeIInv, HandInv, HomeBusy
    <3>3. QED
      BY <1>2, <3>2
  <2>3. QED
    BY <2>1, <2>2
<1>8. ThreadInv(k)'
  <2>1. \A m \in 1..from : events[m].by = Home => m \in forgotten \/ Has(messages, m)
    BY <1>7
  <2>2. QED
    BY <1>1, <1>2, <1>3, <1>5, <1>6, <2>1 DEF ThreadInv, Rising, OfHome, Has
<1>9. \A m : ~HandedTo(k, m) /\ ~HandedTo(k, m)'
  BY <1>2, <1>3 DEF HandedTo
<1>10. QED
  BY <1>1, <1>3, <1>4, <1>8, <1>9, ThreadStep

LEMMA WalkTypes ==
  ASSUME NEW k \in Callbacks,
         walk \in [Callbacks -> [pc : {"none", "new", "walk", "pop", "ended"},
                                todo : Seq(Numbers), at : Nat]]
  PROVE  /\ [walk EXCEPT ![k].at = @ + 1]
              \in [Callbacks -> [pc : {"none", "new", "walk", "pop", "ended"},
                                todo : Seq(Numbers), at : Nat]]
         /\ [walk EXCEPT ![k].pc = "walk", ![k].at = @ + 1]
              \in [Callbacks -> [pc : {"none", "new", "walk", "pop", "ended"},
                                todo : Seq(Numbers), at : Nat]]
<1> DEFINE R == [pc : {"none", "new", "walk", "pop", "ended"}, todo : Seq(Numbers), at : Nat]
           x == [walk[k] EXCEPT !.at = @ + 1]
           y == [[walk[k] EXCEPT !.pc = "walk"] EXCEPT !.at = @ + 1]
<1>1. walk[k] \in R
  OBVIOUS
<1>2. /\ walk[k].todo \in Seq(Numbers) /\ walk[k].at + 1 \in Nat
      /\ walk[k].pc \in {"none", "new", "walk", "pop", "ended"}
  BY <1>1
<1>3. x \in R /\ y \in R
  BY <1>1, <1>2
<1>4. [walk EXCEPT ![k].at = @ + 1] = [walk EXCEPT ![k] = x]
      /\ [walk EXCEPT ![k].pc = "walk", ![k].at = @ + 1] = [walk EXCEPT ![k] = y]
  OBVIOUS
<1> HIDE DEF x, y
<1>5. walk \in [Callbacks -> R]
  OBVIOUS
<1> HIDE DEF R
<1>6. [walk EXCEPT ![k] = x] \in [Callbacks -> R] /\ [walk EXCEPT ![k] = y] \in [Callbacks -> R]
  BY <1>3, <1>5
<1>7. QED
  BY <1>4, <1>6 DEF R

LEMMA PassOnHome ==
  ASSUME LogIInv, HomeIInv, NEW k \in Callbacks, PassOn(k)
  PROVE  HomeIInv'
<1> DEFINE w == walk[k]
<1>1. /\ w.pc = "walk"
      /\ UNCHANGED <<publisher, messages, listens, heard, late, forgotten, unheard, raised_by, events,
                     message_log>>
      /\ \/ w.at > Len(w.todo) /\ walk' = [walk EXCEPT ![k].pc = "ended"]
         \/ /\ w.at <= Len(w.todo) /\ events[w.todo[w.at]].on # listens[k].to
            /\ walk' = [walk EXCEPT ![k].at = @ + 1]
  BY DEF PassOn, HomesOnly, LogsStay
<1>2. /\ walk \in [Callbacks -> [pc : {"none", "new", "walk", "pop", "ended"},
                                 todo : Seq(Numbers), at : Nat]]
      /\ LastEvent' = LastEvent /\ w.at \in Nat /\ Len(w.todo) \in Nat /\ ThreadInv(k)
      /\ Numbers' = Numbers
  BY <1>1, HomeFacts DEF HomeIInv, HomeTypes, LastEvent, Numbers
<1>3. /\ walk'[k].todo = w.todo /\ \A q \in Callbacks \ {k} : walk'[q] = walk[q]
      /\ \/ w.at > Len(w.todo) /\ walk'[k].pc = "ended" /\ walk'[k].at = w.at
         \/ /\ w.at <= Len(w.todo) /\ events[w.todo[w.at]].on # listens[k].to
            /\ walk'[k].pc = "walk" /\ walk'[k].at = w.at + 1
  BY <1>1, <1>2
<1>4. HomeTypes'
  <2>1. walk' \in [Callbacks -> [pc : {"none", "new", "walk", "pop", "ended"},
                                 todo : Seq(Numbers), at : Nat]]
    <3>1. CASE walk' = [walk EXCEPT ![k].pc = "ended"]
      BY <1>2, <3>1
    <3>2. CASE walk' = [walk EXCEPT ![k].at = @ + 1]
      BY <1>2, <3>2, WalkTypes
    <3>3. QED
      BY <1>1, <3>1, <3>2
  <2>2. QED
    BY <1>1, <1>2, <2>1 DEF HomeIInv, HomeTypes
<1>5. ThreadInv(k)'
  <2>1. walk'[k].at >= 1 /\ walk'[k].pc \in {"walk", "ended"}
        /\ (walk'[k].pc = "ended" => walk'[k].at > Len(w.todo))
    BY <1>2, <1>3 DEF ThreadInv
  <2>2. QED
    BY <1>1, <1>2, <1>3, <2>1 DEF ThreadInv, Rising, OfHome, Has
<1>6. ASSUME NEW m \in Numbers PROVE HandedTo(k, m)' <=> HandedTo(k, m)
  <2>1. ASSUME NEW i \in 1..Len(w.todo), w.todo[i] = m, events[m].on = listens[k].to
        PROVE  i < walk'[k].at \/ (i = walk'[k].at /\ walk'[k].pc \in {"pop", "ended"})
                 <=> i < w.at \/ (i = w.at /\ w.pc \in {"pop", "ended"})
    BY <1>1, <1>2, <1>3, <2>1
  <2>2. QED
    BY <1>1, <1>3, <2>1 DEF HandedTo
<1>7. QED
  BY <1>1, <1>3, <1>4, <1>5, <1>6, ThreadStep

LEMMA HandOverHome ==
  ASSUME LogIInv, HomeIInv, NEW k \in Callbacks, HandOver(k)
  PROVE  HomeIInv'
<1> DEFINE w == walk[k] h == walk[k].todo[walk[k].at]
<1>1. /\ w.pc = "walk" /\ w.at <= Len(w.todo) /\ events[h].on = listens[k].to
      /\ heard' = [heard EXCEPT ![k][h] = @ + 1]
      /\ UNCHANGED <<publisher, messages, listens, late, forgotten, unheard, events,
                     message_log>>
      /\ \/ walk' = [walk EXCEPT ![k].pc = "pop"] /\ raised_by' = raised_by
         \/ raised_by' = raised_by \cup {k} /\ walk' = [walk EXCEPT ![k].pc = "ended"]
  BY DEF HandOver, AfterHanding, LogsStay
<1>2. /\ walk \in [Callbacks -> [pc : {"none", "new", "walk", "pop", "ended"},
                                 todo : Seq(Numbers), at : Nat]]
      /\ heard \in [Callbacks -> [Numbers -> Nat]]
      /\ LastEvent' = LastEvent /\ w.at \in Nat /\ Len(w.todo) \in Nat /\ ThreadInv(k)
      /\ Numbers' = Numbers
  BY <1>1, HomeFacts DEF HomeIInv, HomeTypes, LastEvent, Numbers
<1>3. w.at \in 1..Len(w.todo) /\ h \in Numbers
  <2>1. w.at \in 1..Len(w.todo)
    BY <1>1, <1>2 DEF ThreadInv
  <2>2. QED
    BY <2>1, HomeFacts
<1> HIDE DEF h
<1>4. /\ walk'[k].todo = w.todo /\ walk'[k].at = w.at /\ walk'[k].pc \in {"pop", "ended"}
      /\ \A q \in Callbacks \ {k} : walk'[q] = walk[q] /\ heard'[q] = heard[q]
      /\ raised_by \subseteq raised_by' /\ (walk'[k].pc = "ended" => k \in raised_by')
  BY <1>1, <1>2
<1>5. HomeTypes'
  <2>1. walk' \in [Callbacks -> [pc : {"none", "new", "walk", "pop", "ended"},
                                 todo : Seq(Numbers), at : Nat]]
    BY <1>1, <1>2
  <2>2. heard' \in [Callbacks -> [Numbers -> Nat]]
    BY <1>1, <1>2, <1>3
  <2>3. raised_by' \subseteq Callbacks
    BY <1>1 DEF HomeIInv, HomeTypes
  <2>4. QED
    BY <1>1, <1>2, <2>1, <2>2, <2>3 DEF HomeIInv, HomeTypes
<1>6. ThreadInv(k)'
  BY <1>1, <1>2, <1>4 DEF ThreadInv, Rising, OfHome, Has
<1>7. ASSUME NEW m \in Numbers
      PROVE  heard'[k][m] + (IF HandedTo(k, m) THEN 1 ELSE 0)
               = heard[k][m] + (IF HandedTo(k, m)' THEN 1 ELSE 0)
  <2>1. CASE m = h
    <3>1. heard'[k][m] = heard[k][m] + 1
      BY <1>1, <1>2, <2>1
    <3>2. HandedTo(k, m)'
      BY <1>1, <1>3, <1>4, <2>1 DEF HandedTo, h
    <3>3. ~HandedTo(k, m)
      <4>1. \A i \in 1..Len(w.todo) : i < w.at => w.todo[i] < h /\ w.todo[i] \in Nat
        BY <1>2, <1>3, HomeFacts DEF ThreadInv, Rising, h
      <4>2. \A i \in 1..Len(w.todo) : i < w.at => w.todo[i] # h
        BY <1>3, <4>1, HomeFacts
      <4>3. QED
        BY <1>1, <2>1, <4>2 DEF HandedTo
    <3>4. QED
      BY <1>2, <3>1, <3>2, <3>3
  <2>2. CASE m # h
    <3>1. heard'[k][m] = heard[k][m]
      BY <1>1, <1>2, <2>2
    <3>2. HandedTo(k, m)' <=> HandedTo(k, m)
      <4>1. \A i : i = w.at => w.todo[i] # m
        BY <2>2 DEF h
      <4>2. QED
        BY <1>1, <1>4, <4>1 DEF HandedTo
    <3>3. QED
      BY <3>1, <3>2
  <2>3. QED
    BY <2>1, <2>2
<1>8. QED
  BY <1>1, <1>4, <1>5, <1>6, <1>7, ThreadStep

LEMMA Joined ==
  ASSUME NEW S, NEW a \in Seq(S), NEW b \in Seq(S)
  PROVE  /\ a \o b \in Seq(S) /\ Len(a \o b) = Len(a) + Len(b)
         /\ \A j \in 1..(Len(a) + Len(b)) :
              (a \o b)[j] = IF j <= Len(a) THEN a[j] ELSE b[j - Len(a)]
  OBVIOUS

\* A list without its i-th element.
Without(s, i) == SubSeq(s, 1, i - 1) \o SubSeq(s, i + 1, Len(s))

LEMMA WithoutOne ==
  ASSUME NEW S, NEW s \in Seq(S), NEW i \in 1..Len(s)
  PROVE  /\ Without(s, i) \in Seq(S) /\ Len(Without(s, i)) = Len(s) - 1
         /\ \A j \in 1..Len(Without(s, i)) : Without(s, i)[j] = s[IF j < i THEN j ELSE j + 1]
<1> DEFINE a == SubSeq(s, 1, i - 1) b == SubSeq(s, i + 1, Len(s)) r == Without(s, i)
<1>1. Len(s) \in Nat /\ i \in Nat /\ 1 <= i /\ i <= Len(s)
  OBVIOUS
<1>2. a \in Seq(S) /\ Len(a) = i - 1 /\ \A j \in 1..(i - 1) : a[j] = s[j]
  BY <1>1
<1>3. b \in Seq(S) /\ Len(b) = Len(s) - i /\ \A j \in 1..(Len(s) - i) : b[j] = s[i + j]
  BY <1>1
<1>4. r = a \o b
  BY DEF Without
<1> HIDE DEF a, b, r
<1>5. /\ r \in Seq(S) /\ Len(r) = Len(a) + Len(b)
      /\ \A j \in 1..(Len(a) + Len(b)) : r[j] = IF j <= Len(a) THEN a[j] ELSE b[j - Len(a)]
  BY <1>2, <1>3, <1>4, Joined
<1>6. Len(r) = Len(s) - 1
  BY <1>1, <1>2, <1>3, <1>5
<1>7. ASSUME NEW j \in 1..Len(r) PROVE r[j] = s[IF j < i THEN j ELSE j + 1]
  <2>1. j \in Nat /\ j >= 1 /\ j <= Len(s) - 1
    BY <1>1, <1>6
  <2>2. r[j] = IF j <= Len(a) THEN a[j] ELSE b[j - Len(a)]
    BY <1>5
  <2>3. CASE j < i
    BY <1>1, <1>2, <2>1, <2>2, <2>3
  <2>4. CASE ~(j < i)
    <3>1. r[j] = b[j - (i - 1)] /\ j - (i - 1) \in 1..(Len(s) - i)
      BY <1>1, <1>2, <2>1, <2>2, <2>4
    <3>2. i + (j - (i - 1)) = j + 1
      BY <1>1, <2>1
    <3>3. QED
      BY <1>3, <2>4, <3>1, <3>2
  <2>5. QED
    BY <2>3, <2>4
<1>8. QED
  BY <1>5, <1>6, <1>7 DEF r

LEMMA TakeOutHome ==
  ASSUME LogIInv, HomeIInv, NEW k \in Callbacks, TakeOut(k)
  PROVE  HomeIInv'
<1> DEFINE w == walk[k] i == walk[k].at
<1>1. /\ w.pc = "pop" /\ walk' = [walk EXCEPT ![k].pc = "walk", ![k].at = @ + 1]
      /\ UNCHANGED <<publisher, listens, heard, late, unheard, raised_by, events, message_log>>
      /\ IF i <= Len(messages)
         THEN /\ messages' = Without(messages, i)
              /\ forgotten' = forgotten \cup {messages[i]}
         ELSE messages' = messages /\ forgotten' = forgotten
  BY DEF TakeOut, HomesOnly, LogsStay, Without
<1>2. /\ walk \in [Callbacks -> [pc : {"none", "new", "walk", "pop", "ended"},
                                 todo : Seq(Numbers), at : Nat]]
      /\ messages \in Seq(Numbers) /\ Len(messages) \in Nat /\ LastEvent \in Nat
      /\ LastEvent' = LastEvent /\ i \in Nat /\ i >= 1 /\ ThreadInv(k)
      /\ Numbers' = Numbers /\ InHand' = InHand /\ Unkept' = Unkept /\ Newcomer' = Newcomer
  BY <1>1, HomeFacts
     DEF HomeIInv, HomeTypes, LastEvent, Numbers, ThreadInv, InHand, Unkept, Newcomer
<1>3. /\ walk'[k].todo = w.todo /\ walk'[k].pc = "walk" /\ walk'[k].at = i + 1
      /\ \A q \in Callbacks \ {k} : walk'[q] = walk[q]
  BY <1>1, <1>2
<1>4. /\ messages' \in Seq(Numbers) /\ forgotten' \subseteq Numbers
      /\ forgotten \subseteq forgotten'
      /\ \A j \in 1..Len(messages') : \E n \in 1..Len(messages) : messages'[j] = messages[n]
      /\ \A j, l \in 1..Len(messages') : j < l =>
           \E n, o \in 1..Len(messages) :
             n < o /\ messages'[j] = messages[n] /\ messages'[l] = messages[o]
      /\ \A n \in 1..Len(messages) :
           messages[n] \in forgotten' \/ \E j \in 1..Len(messages') : messages'[j] = messages[n]
  <2>1. CASE i <= Len(messages)
    <3>1. i \in 1..Len(messages)
      BY <1>2, <2>1
    <3>2. messages[i] \in Numbers
      BY <1>2, <3>1
    <3>3. /\ messages' \in Seq(Numbers) /\ Len(messages') = Len(messages) - 1
          /\ \A j \in 1..Len(messages') : messages'[j] = messages[IF j < i THEN j ELSE j + 1]
      BY <1>1, <1>2, <2>1, <3>1, WithoutOne
    <3>4. forgotten' = forgotten \cup {messages[i]} /\ forgotten \subseteq Numbers
      BY <1>1, <2>1 DEF HomeIInv, HomeTypes
    <3>5. \A j \in 1..Len(messages') : (IF j < i THEN j ELSE j + 1) \in 1..Len(messages)
      BY <1>2, <3>1, <3>3
    <3>6. \A j, l \in 1..Len(messages') :
            j < l => (IF j < i THEN j ELSE j + 1) < (IF l < i THEN l ELSE l + 1)
      BY <1>2, <3>1, <3>3
    <3>7. ASSUME NEW n \in 1..Len(messages)
          PROVE  messages[n] \in forgotten'
                 \/ \E j \in 1..Len(messages') : messages'[j] = messages[n]
      <4>1. CASE n < i
        <5>1. n \in 1..Len(messages')
          BY <1>2, <3>1, <3>3, <4>1
        <5>2. QED
          BY <3>3, <4>1, <5>1
      <4>2. CASE n = i
        BY <3>4, <4>2
      <4>3. CASE n > i
        <5>1. n - 1 \in 1..Len(messages') /\ ~(n - 1 < i) /\ (n - 1) + 1 = n
          BY <1>2, <3>1, <3>3, <4>3
        <5>2. messages'[n - 1] = messages[n]
          BY <3>3, <5>1
        <5>3. QED
          BY <5>1, <5>2
      <4>4. QED
        BY <1>2, <4>1, <4>2, <4>3
    <3>8. QED
      BY <3>2, <3>3, <3>4, <3>5, <3>6, <3>7
  <2>2. CASE ~(i <= Len(messages))
    BY <1>1, <1>2, <2>2 DEF HomeIInv, HomeTypes
  <2>3. QED
    BY <2>1, <2>2
<1> HIDE DEF i
<1>5. HomeTypes'
  <2>1. walk' \in [Callbacks -> [pc : {"none", "new", "walk", "pop", "ended"},
                                 todo : Seq(Numbers), at : Nat]]
    BY <1>1, <1>2, WalkTypes
  <2>2. QED
    BY <1>1, <1>2, <1>4, <2>1 DEF HomeIInv, HomeTypes
<1>6. HandInv'
  BY <1>1, <1>2 DEF HomeIInv, HandInv
<1>7. \A m : Has(messages', m) => Has(messages, m)
  BY <1>4 DEF Has
<1>8. MessagesInv'
  <2>1. /\ Rising(messages) /\ OfHome(messages)
        /\ \A m \in Unkept : ~Has(messages, m)
        /\ \A m \in 1..LastEvent :
             events[m].by = Home => m \in Unkept \cup forgotten \/ Has(messages, m)
    BY DEF HomeIInv, MessagesInv
  <2>2. Rising(messages)'
    <3>1. \A n \in 1..Len(messages) : messages[n] \in 1..LastEvent
      BY <2>1 DEF Rising
    <3>2. \A n, o \in 1..Len(messages) : n < o => messages[n] < messages[o]
      BY <2>1 DEF Rising
    <3>3. \A j \in 1..Len(messages') : messages'[j] \in 1..LastEvent
      BY <1>4, <3>1
    <3>4. ASSUME NEW j \in 1..Len(messages'), NEW l \in 1..Len(messages'), j < l
          PROVE  messages'[j] < messages'[l]
      <4>1. PICK n, o \in 1..Len(messages) :
              n < o /\ messages'[j] = messages[n] /\ messages'[l] = messages[o]
        BY <1>4, <3>4, Zenon
      <4>2. messages[n] < messages[o]
        BY <3>2, <4>1
      <4>3. QED
        BY <4>1, <4>2
    <3>5. QED
      BY <1>2, <3>3, <3>4 DEF Rising
  <2>3. OfHome(messages)'
    <3>1. \A n \in 1..Len(messages) : events[messages[n]].by = Home
      BY <2>1 DEF OfHome
    <3>2. \A j \in 1..Len(messages') : events[messages'[j]].by = Home
      BY <1>4, <3>1
    <3>3. QED
      BY <1>1, <3>2 DEF OfHome
  <2>4. \A m \in Unkept' : ~Has(messages', m)
    BY <1>2, <1>7, <2>1
  <2>5. \A m : Has(messages, m) => m \in forgotten' \/ Has(messages', m)
    BY <1>4 DEF Has
  <2>6. \A m \in 1..LastEvent' :
          events'[m].by = Home => m \in Unkept' \cup forgotten' \/ Has(messages', m)
    BY <1>1, <1>2, <1>4, <2>1, <2>5
  <2>7. QED
    BY <2>2, <2>3, <2>4, <2>6 DEF MessagesInv, Has
<1>9. ThreadsInv'
  <2>1. EventsKept
    BY <1>1, <1>2 DEF EventsKept
  <2>2. \A j \in 1..Len(messages') : Has(messages, messages'[j])
    BY <1>4 DEF Has
  <2>3. ThreadInv(k)'
    <3>1. i + 1 >= 1
      BY <1>2
    <3>2. QED
      BY <1>1, <1>2, <1>3, <1>4, <3>1 DEF ThreadInv, Rising, OfHome, Has
  <2>4. \A q \in Callbacks \ {k} : ThreadInv(q)'
    BY <1>1, <1>3, <1>4, <2>1, <2>2, ThreadKept
  <2>5. QED
    BY <2>3, <2>4 DEF ThreadsInv
<1>10. ASSUME NEW q \in Callbacks, NEW m \in Numbers
       PROVE  (NotifiedOf(q, m)' <=> NotifiedOf(q, m)) /\ (HandedTo(q, m)' <=> HandedTo(q, m))
  <2>1. NotifiedOf(q, m)' <=> NotifiedOf(q, m)
    BY <1>1, <1>2 DEF NotifiedOf
  <2>2. CASE q = k
    <3>1. ASSUME NEW n \in 1..Len(w.todo)
          PROVE  n < i + 1 \/ (n = i + 1 /\ "walk" \in {"pop", "ended"})
                   <=> n < i \/ (n = i /\ w.pc \in {"pop", "ended"})
      BY <1>1, <1>2
    <3>2. HandedTo(k, m)' <=> HandedTo(k, m)
      BY <1>1, <1>3, <3>1 DEF HandedTo, i
    <3>3. QED
      BY <2>1, <2>2, <3>2
  <2>3. CASE q # k
    BY <1>1, <1>3, <2>1, <2>3 DEF HandedTo
  <2>4. QED
    BY <2>2, <2>3
<1>11. HeardInv'
  BY <1>1, <1>10, HeardKept
<1>12. QED
  BY <1>5, <1>6, <1>8, <1>9, <1>11 DEF HomeIInv

\* The steps of the processes, with those of Home among them.
LEMMA PublisherHome ==
  ASSUME LogIInv, HomeIInv, NEW p \in Publishers,
         \/ StartPublisher(p) \/ EndPublisher(p) \/ OpenLog(p) \/ WriteLog(p)
         \/ SaveFails(p) \/ CutOff(p)
  PROVE  HomeIInv'
<1>1. /\ publisher \in [Publishers -> {"off", "up", "open", "write", "keep", "notify"}]
      /\ message_log \in [Publishers -> Seq(Numbers)] /\ Home \in Publishers
  BY HomeFacts DEF LogIInv, LogTypes
<1>2. events' = events /\ UNCHANGED homeVars
  BY DEF StartPublisher, EndPublisher, OpenLog, WriteLog, SaveFails, CutOff
<1>3. CASE p # Home
  <2>1. publisher'[Home] = publisher[Home] /\ message_log'[Home] = message_log[Home]
    BY <1>1, <1>3 DEF StartPublisher, EndPublisher, OpenLog, WriteLog, SaveFails, CutOff
  <2>2. HomeBusy' <=> HomeBusy
    BY <2>1 DEF HomeBusy
  <2>3. QED
    BY <1>2, <2>1, <2>2, HomeQuiet
<1>4. CASE p = Home /\ StartPublisher(p)
  <2>1. publisher[Home] = "off" /\ publisher'[Home] = "up"
    BY <1>1, <1>4 DEF StartPublisher
  <2>2. QED
    BY <1>2, <2>1, HomeQuiet DEF HomeBusy
<1>5. CASE p = Home /\ OpenLog(p)
  <2>1. /\ publisher[Home] = "open" /\ publisher'[Home] = "write"
        /\ message_log'[Home] = message_log[Home]
    BY <1>1, <1>5 DEF OpenLog
  <2>2. QED
    BY <1>2, <2>1, HomeQuiet DEF HomeBusy
<1>6. CASE p = Home /\ WriteLog(p)
  <2>1. /\ publisher[Home] = "write" /\ publisher'[Home] = "keep"
        /\ message_log'[Home] = message_log[Home]
    BY <1>1, <1>6 DEF WriteLog, AfterSaving
  <2>2. QED
    BY <1>2, <2>1, HomeQuiet DEF HomeBusy
<1>7. CASE p = Home /\ SaveFails(p)
  <2>1. /\ publisher[Home] \in {"open", "write"} /\ publisher'[Home] = "keep"
        /\ message_log'[Home] = message_log[Home]
    BY <1>1, <1>7 DEF SaveFails, AfterSaving
  <2>2. QED
    BY <1>2, <2>1, HomeQuiet DEF HomeBusy
<1>8. QED
  BY <1>3, <1>4, <1>5, <1>6, <1>7 DEF EndPublisher, CutOff

SovIInv == LogIInv /\ HomeIInv

LEMMA SovSteps == ASSUME SovIInv, SovNext PROVE SovIInv'
<1> USE DEF SovIInv
<1>1. ASSUME NEW p \in Publishers, StartPublisher(p) PROVE SovIInv'
  BY <1>1, StartPublisherStep, PublisherHome
<1>2. ASSUME NEW p \in Publishers, EndPublisher(p) PROVE SovIInv'
  BY <1>2, EndPublisherStep, PublisherHome
<1>3. ASSUME NEW p \in Publishers, OpenLog(p) PROVE SovIInv'
  BY <1>3, OpenLogStep, PublisherHome
<1>4. ASSUME NEW p \in Publishers, WriteLog(p) PROVE SovIInv'
  BY <1>4, WriteLogStep, PublisherHome
<1>5. ASSUME NEW p \in Publishers, SaveFails(p) \/ CutOff(p) PROVE SovIInv'
  BY <1>5, SaveFailsStep, CutOffStep, PublisherHome
<1>6. ASSUME NEW p \in Publishers, NEW topic \in Topics, PublishEvent(p, topic) PROVE SovIInv'
  BY <1>6, PublishEventStep, PublishHome
<1>7. CASE KeepMessage
  <2>1. /\ publisher[Home] = "keep" /\ publisher' = [publisher EXCEPT ![Home] = "notify"]
        /\ UNCHANGED <<events, message_log, bus_file, crowded, unsaved, failed, cutOff, viewVars>>
    BY <1>7 DEF KeepMessage, HomesOnly, LogsStay
  <2>2. LogIInv'
    BY <2>1, HomePointStep
  <2>3. QED
    BY <1>7, <2>2, KeepMessageHome
<1>8. CASE NotifyListeners
  <2>1. /\ publisher[Home] = "notify" /\ publisher' = [publisher EXCEPT ![Home] = "up"]
        /\ UNCHANGED <<events, message_log, bus_file, crowded, unsaved, failed, cutOff, viewVars>>
    BY <1>8 DEF NotifyListeners, HomesOnly, LogsStay
  <2>2. LogIInv'
    BY <2>1, HomePointStep
  <2>3. QED
    BY <1>8, <2>2, NotifyHome
<1>9. ASSUME NEW k \in Callbacks,
             LookAtKept(k) \/ PassOn(k) \/ HandOver(k) \/ TakeOut(k)
      PROVE  SovIInv'
  <2>1. UNCHANGED logVars /\ UNCHANGED viewVars
    BY <1>9 DEF LookAtKept, PassOn, HandOver, TakeOut, HomesOnly, LogsStay, logVars, viewVars
  <2>2. LogIInv'
    BY <2>1, NoLogStep
  <2>3. HomeIInv'
    BY <1>9, LookAtKeptHome, PassOnHome, HandOverHome, TakeOutHome
  <2>4. QED
    BY <2>2, <2>3
<1>10. ASSUME NEW k \in Callbacks, NEW topic \in Topics, Subscribe(k, topic) PROVE SovIInv'
  <2>1. UNCHANGED logVars /\ UNCHANGED viewVars
    BY <1>10 DEF Subscribe, HomesOnly, LogsStay, logVars, viewVars
  <2>2. LogIInv'
    BY <2>1, NoLogStep
  <2>3. QED
    BY <1>10, <2>2, SubscribeHome
<1>11. CASE StartViewer \/ Poll
  <2>1. UNCHANGED homeVars /\ UNCHANGED logVars
    BY <1>11 DEF StartViewer, Poll
  <2>2. HomeIInv'
    BY <2>1, HomeQuiet DEF logVars, HomeBusy
  <2>3. QED
    BY <1>11, <2>2, StartViewerStep, PollStep
<1>12. CASE PublishRaises
  <2>1. /\ publisher[Home] = "keep" /\ publisher' = [publisher EXCEPT ![Home] = "up"]
        /\ UNCHANGED <<events, message_log, bus_file, crowded, unsaved, failed, cutOff, viewVars>>
    BY <1>12 DEF PublishRaises, LogsStay
  <2>2. LogIInv'
    BY <2>1, HomePointStep
  <2>3. QED
    BY <1>12, <2>2, PublishRaisesHome
<1>13. QED
  BY <1>1, <1>2, <1>3, <1>4, <1>5, <1>6, <1>7, <1>8, <1>9, <1>10, <1>11, <1>12 DEF SovNext

LEMMA SovStill == ASSUME SovIInv, UNCHANGED sovVars PROVE SovIInv'
<1>1. UNCHANGED logVars /\ UNCHANGED viewVars /\ UNCHANGED homeVars
  BY DEF sovVars
<1>2. LogIInv'
  BY <1>1, NoLogStep DEF SovIInv
<1>3. HomeIInv'
  BY <1>1, HomeQuiet DEF SovIInv, logVars, HomeBusy
<1>4. QED
  BY <1>2, <1>3 DEF SovIInv

\* What the inductive invariant says of the calls.
LEMMA CallbacksAreSound ==
  ASSUME SovIInv
  PROVE  LiveMessagesAreHeard /\ EarlierMessagesAreHeard
<1> SUFFICES ASSUME NEW k \in Callbacks, NEW m \in 1..LastEvent, listens[k].to # NoTopic
             PROVE  /\ m > listens[k].from =>
                         IF events[m] # [by |-> Home, on |-> listens[k].to] THEN heard[k][m] = 0
                         ELSE /\ heard[k][m] <= 1 + Cardinality({m} \cap late[k])
                              /\ publisher[Home] = "up" /\ m \notin unheard => heard[k][m] >= 1
                    /\ m <= listens[k].from =>
                         /\ heard[k][m] <= 1
                         /\ walk[k].pc = "ended"
                              /\ events[m] = [by |-> Home, on |-> listens[k].to] =>
                              heard[k][m] = 1 \/ m \in forgotten \/ k \in raised_by
  BY DEF LiveMessagesAreHeard, EarlierMessagesAreHeard
<1> DEFINE w == walk[k] from == listens[k].from
<1>1. /\ LastEvent \in Nat /\ m \in Numbers /\ from \in Nat /\ w.at \in Nat
      /\ Len(w.todo) \in Nat /\ ThreadInv(k) /\ from <= LastEvent
  BY HomeFacts DEF SovIInv, ThreadInv
<1>2. heard[k][m] = (IF NotifiedOf(k, m) THEN 1 ELSE 0) + (IF HandedTo(k, m) THEN 1 ELSE 0)
  BY <1>1 DEF SovIInv, HomeIInv, HeardInv
<1>3. HandedTo(k, m) => /\ events[m] = [by |-> Home, on |-> listens[k].to]
                        /\ m > from => m \in late[k]
  <2> SUFFICES ASSUME HandedTo(k, m)
               PROVE  /\ events[m] = [by |-> Home, on |-> listens[k].to]
                      /\ m > from => m \in late[k]
    OBVIOUS
  <2>1. PICK i \in 1..Len(w.todo) : w.todo[i] = m /\ events[m].on = listens[k].to
    BY DEF HandedTo
  <2>2. events[m].by = Home /\ (m > from => m \in late[k])
    BY <1>1, <2>1 DEF ThreadInv, OfHome
  <2>3. events[m] \in [by : Publishers, on : Topics]
    <3> DEFINE Event == [by : Publishers, on : Topics]
    <3>1. events \in Seq(Event) /\ m \in 1..Len(events)
      BY DEF SovIInv, LogIInv, LogTypes, LastEvent
    <3> HIDE DEF Event
    <3>2. events[m] \in Event
      BY <3>1
    <3>3. QED
      BY <3>2 DEF Event
  <2>4. QED
    BY <2>1, <2>2, <2>3
<1>4. CASE m > from
  <2>1. CASE events[m] # [by |-> Home, on |-> listens[k].to]
    BY <1>1, <1>2, <1>3, <1>4, <2>1 DEF NotifiedOf
  <2>2. CASE events[m] = [by |-> Home, on |-> listens[k].to]
    <3>1. publisher[Home] = "up" /\ m \notin unheard => NotifiedOf(k, m)
      BY <1>4, <2>2 DEF NotifiedOf, InHand
    <3>2. CASE m \in late[k]
      <4>1. {m} \cap late[k] = {m}
        BY <3>2
      <4>2. Cardinality({m} \cap late[k]) = 1
        BY <4>1, FS_Singleton
      <4>3. QED
        BY <1>1, <1>2, <1>4, <2>2, <3>1, <4>2
    <3>3. CASE m \notin late[k]
      <4>1. {m} \cap late[k] = {}
        BY <3>3
      <4>2. Cardinality({m} \cap late[k]) = 0
        BY <4>1, FS_EmptySet
      <4>3. QED
        BY <1>1, <1>2, <1>3, <1>4, <2>2, <3>1, <3>3, <4>2
    <3>4. QED
      BY <3>2, <3>3
  <2>3. QED
    BY <2>1, <2>2
<1>5. CASE m <= from
  <2>1. ~NotifiedOf(k, m)
    BY <1>1, <1>5 DEF NotifiedOf
  <2>2. ASSUME w.pc = "ended", events[m] = [by |-> Home, on |-> listens[k].to],
               m \notin forgotten, k \notin raised_by
        PROVE  HandedTo(k, m)
    <3>1. m \in 1..from /\ events[m].by = Home /\ events[m].on = listens[k].to
      BY <1>1, <1>5, <2>2
    <3>2. Has(w.todo, m) /\ w.at > Len(w.todo)
      BY <1>1, <2>2, <3>1 DEF ThreadInv
    <3>3. \A i \in 1..Len(w.todo) : i < w.at
      BY <1>1, <3>2
    <3>4. QED
      BY <3>1, <3>2, <3>3 DEF HandedTo, Has
  <2>3. QED
    BY <1>1, <1>2, <1>5, <2>1, <2>2
<1>6. QED
  BY <1>1, <1>4, <1>5

\* What it says of the file and of the monitor.
LEMMA LogIsSound ==
  ASSUME SovIInv
  PROVE  LogsAreInOrder /\ LoneLogIsComplete /\ MonitorPrintsOnce
<1>1. LogsAreInOrder
  BY DEF SovIInv, LogIInv, LogsInv, LogsAreInOrder, Rising
<1>2. LoneLogIsComplete
  <2> DEFINE saved == IF \E p \in Publishers : publisher[p] = "open" THEN LastEvent - 1
                      ELSE LastEvent
             held  == IF saved < LogLimit THEN saved ELSE LogLimit
  <2> SUFFICES ASSUME ~crowded, ~unsaved, \A p \in Publishers : publisher[p] # "write"
               PROVE  bus_file = [i \in 1..held |-> saved - held + i]
    BY DEF LoneLogIsComplete
  <2>0. bus_file # BrokenLog
    BY DEF SovIInv, LogIInv, LoneInv
  <2>1. Newest(bus_file, saved)
    BY <2>0 DEF SovIInv, LogIInv, LoneInv
  <2>2. held = Held(saved)
    BY DEF Held
  <2> HIDE DEF saved
  <2>3. Len(bus_file) = held /\ \A i \in 1..held : bus_file[i] = saved - held + i
    BY <2>1, <2>2 DEF Newest
  <2> HIDE DEF held
  <2>4. bus_file \in Seq(Numbers)
    BY <2>0 DEF SovIInv, LogIInv, LogTypes
  <2>5. bus_file = [i \in 1..Len(bus_file) |-> bus_file[i]]
    BY <2>4
  <2>6. QED
    BY <2>3, <2>5, Zenon
<1>3. MonitorPrintsOnce
  <2>1. \A m \in Numbers : printed[m] <= 1
    <3>1. \A m \in Numbers : printed[m] \in {0, 1}
      BY DEF SovIInv, LogIInv, PrintedInv
    <3>2. QED
      BY <3>1
  <2>2. ASSUME ~crowded, LastEvent <= LogLimit, viewer.on
        PROVE  {m \in Numbers : printed[m] = 1} = viewer.first + 1 .. viewer.last_count
    <3>1. /\ viewer.last_count <= LastEvent
          /\ \A m \in Numbers : printed[m] = 1 <=> m \in viewer.first + 1 .. viewer.last_count
      BY <2>2 DEF SovIInv, LogIInv, ViewerInv
    <3>2. viewer.first + 1 .. viewer.last_count \subseteq Numbers
      BY <3>1, LogFacts DEF SovIInv, Numbers
    <3>3. QED
      BY <3>1, <3>2
  <2>3. QED
    BY <2>1, <2>2 DEF MonitorPrintsOnce
<1>4. QED
  BY <1>1, <1>2, <1>3

\* What is published is heard by the callbacks that are subscribed, unless its publication
\* raised, once or, if its thread had not looked before the message was kept, twice; what
\* came before at most once, and surely unless a thread took it out or it was not kept; the
\* file keeps messages in order and, with one process at a time and but for saves that
\* fail, the newest of them; and the monitor prints none of them twice
\* (SovereignBus.publish and subscribe, EventBus, monitor_bus.monitor).
THEOREM SovereignBusStaysSound == SovSpec => []SovereignBusIsSound
<1>1. SovInit => SovIInv
  BY LogInit, HomeInit DEF SovIInv
<1>2. SovIInv /\ [SovNext]_sovVars => SovIInv'
  BY SovSteps, SovStill
<1>3. SovIInv => SovereignBusIsSound
  <2>1. SovIInv => SovTypeOK
    BY DEF SovIInv, LogIInv, LogTypes, HomeIInv, HomeTypes, SovTypeOK
  <2>2. QED
    BY <2>1, CallbacksAreSound, LogIsSound DEF SovereignBusIsSound
<1>4. QED
  BY <1>1, <1>2, <1>3, PTL DEF SovSpec

================================================================================
