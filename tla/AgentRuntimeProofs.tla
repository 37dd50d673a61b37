-------------------------- MODULE AgentRuntimeProofs --------------------------
(***************************************************************************)
(* Invariants of the agent runtime, proved for any number of requests and  *)
(* restarts.                                                               *)
(***************************************************************************)
EXTENDS AgentRuntime, TLAPS

\* Which program points belong to which kind of thread.
LoopPoints == Points \ {"new", "admit", "reply", "done"}
RequestPoints == Points \ {"start", "perceive", "block", "stop", "save",
                           "write", "dead"}

PointsOK ==
  /\ pc[Loop] \in LoopPoints
  /\ \A r \in Requests : pc[r] \in RequestPoints

LEMMA PointSets ==
  /\ \A r \in Requests : r \in Threads /\ r # Loop /\ r # Nobody
  /\ Loop \in Threads /\ Loop # Nobody
  /\ \A t \in Threads : t # Nobody
BY RuntimeAssumption DEF Threads

LEMMA TargetType == \A p \in Points : Target(p) \in AgentState
BY DEF Target, Points, TransitionPoints, AgentState

LEMMA AfterType ==
  /\ \A p \in TransitionPoints : After(Loop, p) \in Points
  /\ \A t : \A p \in TransitionPoints : After(t, p) \in Points
BY DEF After, Points, TransitionPoints

-----------------------------------------------------------------------------
(* Type correctness.  The state file is well typed because save_to_file    *)
(* reads the state before it truncates the file.                           *)

SnapshotRead == pc[Loop] = "write" => pending[Loop] # "none"

LEMMA TypeInit == Init => TypeOK /\ SnapshotRead
<1> SUFFICES ASSUME Init PROVE TypeOK /\ SnapshotRead
  OBVIOUS
<1>1. pc \in [Threads -> Points]
  BY DEF Init, Points, TransitionPoints
<1>2. restarts \in 0..MaxRestarts
  BY RuntimeAssumption DEF Init
<1> QED
  BY <1>1, <1>2, PointSets DEF Init, TypeOK, AgentState, SnapshotRead

LEMMA SnapshotStep ==
  ASSUME TypeOK, SnapshotRead, [Next]_vars
  PROVE  SnapshotRead'
<1> USE PointSets DEF TypeOK, SnapshotRead, Goto
<1>1. ASSUME NEW r \in Requests, Submit(r) \/ RequestStep(r)
      PROVE  SnapshotRead'
  BY <1>1 DEF Submit, RequestStep, CycleStep, Admit, ForceReset, Reply,
       CheckTransition, AssignTransition, SkipTransition, RejectTransition,
       Raise, Consult, Execute, Record, StoreDecision, Release
<1>2. ASSUME NEW t \in Threads, Acquire(t) PROVE SnapshotRead'
  BY <1>2 DEF Acquire
<1>3. CASE CycleStep(Loop)
  <2>1. pc[Loop] # "write" /\ pc'[Loop] # "write"
    BY <1>3 DEF CycleStep, CheckTransition, AssignTransition, SkipTransition,
         SkipsTransition, RejectTransition, Raise, Consult, Execute, Record,
         StoreDecision, Release, TransitionPoints, After
  <2> QED BY <2>1
<1>4. CASE TestShutdown \/ Perceive
  BY <1>4 DEF TestShutdown, Perceive
<1>5. CASE OpenStateFile
  BY <1>5 DEF OpenStateFile, AgentState
<1>6. CASE WriteStateFile
  BY <1>6 DEF WriteStateFile
<1>7. CASE Signal \/ Finished \/ UNCHANGED vars
  BY <1>7 DEF Signal, Finished, vars
<1>8. CASE Restart
  BY <1>8 DEF Restart
<1> QED
  BY <1>1, <1>2, <1>3, <1>4, <1>5, <1>6, <1>7, <1>8 DEF Next, LoopStep

LEMMA TypeStep == TypeOK /\ SnapshotRead /\ [Next]_vars => TypeOK'
<1> SUFFICES ASSUME TypeOK, SnapshotRead, [Next]_vars PROVE TypeOK'
  OBVIOUS
<1> USE PointSets DEF TypeOK, Goto
<1>1. ASSUME NEW r \in Requests, Submit(r) PROVE TypeOK'
  BY <1>1 DEF Submit, Points
<1>2. ASSUME NEW r \in Requests, Admit(r) PROVE TypeOK'
  BY <1>2 DEF Admit, Points, TransitionPoints
<1>3. ASSUME NEW r \in Requests, ForceReset(r) PROVE TypeOK'
  BY <1>3 DEF ForceReset, Points, AgentState
<1>4. ASSUME NEW r \in Requests, Reply(r) PROVE TypeOK'
  <2>1. (CASE outcome[r] = "failed"  -> "failed"
           [] lastDecision = Nobody  -> "empty"
           [] OTHER                  -> lastDecision)
          \in Threads \cup {"none", "failed", "refused", "empty", "lost"}
    OBVIOUS
  <2> QED BY <1>4, <2>1 DEF Reply, Points
<1>5. ASSUME NEW t \in Threads, Acquire(t) PROVE TypeOK'
  BY <1>5 DEF Acquire, Points, TransitionPoints
<1>6. ASSUME NEW t \in Threads, CheckTransition(t) PROVE TypeOK'
  <2>1. Target(pc[t]) \in AgentState
    BY <1>6, TargetType
  <2> QED BY <1>6, <2>1 DEF CheckTransition
<1>7. ASSUME NEW t \in Threads, AssignTransition(t) PROVE TypeOK'
  <2>1. After(t, pc[t]) \in Points
    BY <1>7, AfterType DEF AssignTransition
  <2>2. pending[t] \in AgentState
    BY <1>7 DEF AssignTransition
  <2> QED BY <1>7, <2>1, <2>2 DEF AssignTransition
<1>8. ASSUME NEW t \in Threads, SkipTransition(t) PROVE TypeOK'
  <2>1. (IF pc[t] = "sense" THEN "validate" ELSE After(t, pc[t])) \in Points
    BY <1>8, AfterType
       DEF SkipTransition, SkipsTransition, Points, TransitionPoints
  <2> QED BY <1>8, <2>1 DEF SkipTransition
<1>9. ASSUME NEW t \in Threads, RejectTransition(t) PROVE TypeOK'
  <2>1. CASE pc[t] = "stop" /\ Goto(t, "save") /\ UNCHANGED <<lock, outcome>>
    BY <1>9, <2>1 DEF RejectTransition, Points
  <2>2. CASE Raise(t)
    BY <1>9, <2>2 DEF RejectTransition, Raise, Points, TransitionPoints, Threads
  <2> QED BY <1>9, <2>1, <2>2 DEF RejectTransition
<1>10. ASSUME NEW t \in Threads, Consult(t) PROVE TypeOK'
  BY <1>10 DEF Consult, Raise, Points, TransitionPoints, Threads
<1>11. ASSUME NEW t \in Threads, Execute(t) PROVE TypeOK'
  BY <1>11 DEF Execute, Points, TransitionPoints
<1>12. ASSUME NEW t \in Threads, Record(t) PROVE TypeOK'
  BY <1>12 DEF Record, Points, TransitionPoints
<1>13. ASSUME NEW t \in Threads, StoreDecision(t) PROVE TypeOK'
  BY <1>13 DEF StoreDecision, Points, TransitionPoints
<1>14. ASSUME NEW t \in Threads, Release(t) PROVE TypeOK'
  BY <1>14 DEF Release, Points, TransitionPoints
<1>15. CASE TestShutdown
  BY <1>15 DEF TestShutdown, Points, TransitionPoints
<1>16. CASE Perceive
  <2>1. \A found \in PerceptionOutcomes :
          (CASE found = "observation" -> "validate"
             [] found = "error"       -> "block"
             [] OTHER                 -> "reset") \in Points
    BY DEF Points, TransitionPoints
  <2> QED BY <1>16, <2>1 DEF Perceive
<1>17. CASE OpenStateFile
  BY <1>17 DEF OpenStateFile, Points
<1>18. CASE WriteStateFile
  <2>1. pending[Loop] \in AgentState
    BY <1>18 DEF WriteStateFile, SnapshotRead
  <2> QED BY <1>18, <2>1 DEF WriteStateFile, Points
<1>19. CASE Signal
  BY <1>19 DEF Signal
<1>20. CASE Restart
  <2>1. restarts' \in 0..MaxRestarts
    BY <1>20, RuntimeAssumption DEF Restart
  <2>2. pc' \in [Threads -> Points]
    BY <1>20 DEF Restart, Points
  <2>3. outcome' \in [Requests -> Threads \cup {"none", "failed", "refused",
                                                "empty", "lost"}]
    BY <1>20 DEF Restart
  <2>4. fsm' \in AgentState /\ file' \in AgentState \cup {"absent", "torn"}
    BY <1>20 DEF Restart, AgentState
  <2> QED BY <1>20, <2>1, <2>2, <2>3, <2>4 DEF Restart
<1>21. CASE Finished \/ UNCHANGED vars
  BY <1>21 DEF Finished, vars
<1> QED
  BY <1>1, <1>2, <1>3, <1>4, <1>5, <1>6, <1>7, <1>8, <1>9, <1>10, <1>11,
     <1>12, <1>13, <1>14, <1>15, <1>16, <1>17, <1>18, <1>19, <1>20, <1>21
     DEF Next, RequestStep, LoopStep, CycleStep

\* Every variable keeps its type, in every instance: in particular a saved
\* state is always one that load_from_file accepts.
THEOREM TypeCorrect == Spec => []TypeOK
<1>1. TypeOK /\ SnapshotRead /\ [Next]_vars => (TypeOK /\ SnapshotRead)'
  BY TypeStep, SnapshotStep
<1> QED BY TypeInit, <1>1, PTL DEF Spec

-----------------------------------------------------------------------------
(* The lock: one cycle at a time.                                          *)

LockInv == TypeOK /\ PointsOK /\ CycleHoldsLock

LEMMA LockInit == Init => PointsOK /\ CycleHoldsLock
BY PointSets DEF Init, PointsOK, CycleHoldsLock, LoopPoints, RequestPoints,
   Points, TransitionPoints, CyclePoints

LEMMA LockStep ==
  ASSUME LockInv, [Next]_vars
  PROVE  PointsOK' /\ CycleHoldsLock'
<1> USE PointSets DEF LockInv, TypeOK, PointsOK, CycleHoldsLock, Goto
<1> USE DEF LoopPoints, RequestPoints, Points, TransitionPoints, CyclePoints
<1>1. ASSUME NEW r \in Requests, Submit(r)
      PROVE  PointsOK' /\ CycleHoldsLock'
  BY <1>1 DEF Submit
<1>2. ASSUME NEW r \in Requests, Admit(r) \/ ForceReset(r) \/ Reply(r)
      PROVE  PointsOK' /\ CycleHoldsLock'
  BY <1>2 DEF Admit, ForceReset, Reply
<1>3. ASSUME NEW t \in Threads, Acquire(t)
      PROVE  PointsOK' /\ CycleHoldsLock'
  BY <1>3 DEF Acquire, Threads
<1>4. ASSUME NEW t \in Threads, CheckTransition(t)
      PROVE  PointsOK' /\ CycleHoldsLock'
  BY <1>4 DEF CheckTransition
<1>5. ASSUME NEW t \in Threads, AssignTransition(t)
      PROVE  PointsOK' /\ CycleHoldsLock'
  <2>1. CASE t = Loop
    BY <1>5, <2>1 DEF AssignTransition, After
  <2>2. CASE t # Loop
    BY <1>5, <2>2 DEF AssignTransition, After, Threads
  <2> QED BY <2>1, <2>2
<1>6. ASSUME NEW t \in Threads, SkipTransition(t)
      PROVE  PointsOK' /\ CycleHoldsLock'
  <2>1. CASE t = Loop
    BY <1>6, <2>1 DEF SkipTransition, SkipsTransition, After
  <2>2. CASE t # Loop
    BY <1>6, <2>2 DEF SkipTransition, SkipsTransition, After, Threads
  <2> QED BY <2>1, <2>2
<1>7. ASSUME NEW t \in Threads, RejectTransition(t)
      PROVE  PointsOK' /\ CycleHoldsLock'
  <2>1. CASE t = Loop
    BY <1>7, <2>1 DEF RejectTransition, Raise
  <2>2. CASE t # Loop
    BY <1>7, <2>2 DEF RejectTransition, Raise, Threads
  <2> QED BY <2>1, <2>2
<1>8. ASSUME NEW t \in Threads, Consult(t)
      PROVE  PointsOK' /\ CycleHoldsLock'
  <2>1. CASE t = Loop
    BY <1>8, <2>1 DEF Consult, Raise
  <2>2. CASE t # Loop
    BY <1>8, <2>2 DEF Consult, Raise, Threads
  <2> QED BY <2>1, <2>2
<1>9. ASSUME NEW t \in Threads, Execute(t) \/ Record(t) \/ StoreDecision(t)
      PROVE  PointsOK' /\ CycleHoldsLock'
  BY <1>9 DEF Execute, Record, StoreDecision, Threads
<1>10. ASSUME NEW t \in Threads, Release(t)
       PROVE  PointsOK' /\ CycleHoldsLock'
  BY <1>10 DEF Release, Threads
<1>11. CASE TestShutdown \/ Perceive \/ OpenStateFile \/ WriteStateFile
  BY <1>11 DEF TestShutdown, Perceive, OpenStateFile, WriteStateFile
<1>12. CASE Signal \/ Finished \/ UNCHANGED vars
  BY <1>12 DEF Signal, Finished, vars
<1>13. CASE Restart
  BY <1>13 DEF Restart
<1> QED
  BY <1>1, <1>2, <1>3, <1>4, <1>5, <1>6, <1>7, <1>8, <1>9, <1>10, <1>11,
     <1>12, <1>13 DEF Next, RequestStep, LoopStep, CycleStep

\* The cycles of the loop thread and of the requests exclude one another.
THEOREM MutualExclusion == Spec => []CycleHoldsLock
<1>1. PointsOK /\ CycleHoldsLock /\ TypeOK /\ [Next]_vars
        => (PointsOK /\ CycleHoldsLock)'
  BY LockStep DEF LockInv
<1> QED BY LockInit, <1>1, TypeCorrect, PTL DEF Spec

-----------------------------------------------------------------------------
(* Atomic cycles: who finds the lock free finds the agent IDLE.            *)

\* A thread remembers a state only between the halves of a transition, and
\* it is the state it asked for, or between the halves of the save.
PendingIsTarget ==
  \A t \in Threads :
    pending[t] # "none" =>
      \/ pc[t] \in TransitionPoints /\ pending[t] = Target(pc[t])
      \/ t = Loop /\ pc[t] = "write"

InService == pc[Loop] \notin StopPoints /\ ResumedNothing

\* IDLE is not only what the free lock protects: it holds from the
\* acquisition to the first transition, and from the last to the release.
IdleAtTheEdges ==
  InService =>
    /\ lock = Nobody => fsm = "idle"
    /\ \A t \in Threads :
         pc[t] \in {"admit", "sense", "reply", "release"} => fsm = "idle"

LEMMA PendingInit == Init => PendingIsTarget
BY DEF Init, PendingIsTarget

LEMMA PendingStep ==
  ASSUME LockInv, PendingIsTarget, [Next]_vars
  PROVE  PendingIsTarget'
<1> USE PointSets DEF LockInv, TypeOK, PendingIsTarget, Goto, TransitionPoints
<1>1. ASSUME NEW r \in Requests,
             Submit(r) \/ Admit(r) \/ ForceReset(r) \/ Reply(r)
      PROVE  PendingIsTarget'
  BY <1>1 DEF Submit, Admit, ForceReset, Reply
<1>2. ASSUME NEW t \in Threads, Acquire(t) \/ Release(t)
      PROVE  PendingIsTarget'
  BY <1>2 DEF Acquire, Release
<1>3. ASSUME NEW t \in Threads, CheckTransition(t)
      PROVE  PendingIsTarget'
  BY <1>3 DEF CheckTransition
<1>4. ASSUME NEW t \in Threads, AssignTransition(t) \/ SkipTransition(t)
      PROVE  PendingIsTarget'
  BY <1>4 DEF AssignTransition, SkipTransition
<1>5. ASSUME NEW t \in Threads, RejectTransition(t)
      PROVE  PendingIsTarget'
  BY <1>5 DEF RejectTransition, Raise
<1>6. ASSUME NEW t \in Threads,
             Consult(t) \/ Execute(t) \/ Record(t) \/ StoreDecision(t)
      PROVE  PendingIsTarget'
  BY <1>6 DEF Consult, Raise, Execute, Record, StoreDecision
<1>7. CASE LoopStep /\ ~CycleStep(Loop)
  BY <1>7 DEF LoopStep, TestShutdown, Perceive, OpenStateFile, WriteStateFile
<1>8. CASE Signal \/ Restart \/ Finished \/ UNCHANGED vars
  BY <1>8 DEF Signal, Restart, Finished, vars
<1> QED
  BY <1>1, <1>2, <1>3, <1>4, <1>5, <1>6, <1>7, <1>8
     DEF Next, RequestStep, LoopStep, CycleStep

LEMMA IdleInit == Init => IdleAtTheEdges
BY DEF Init, IdleAtTheEdges

LEMMA IdleStep ==
  ASSUME LockInv, LockInv', PendingIsTarget, IdleAtTheEdges, [Next]_vars
  PROVE  IdleAtTheEdges'
<1> SUFFICES ASSUME InService'
             PROVE  /\ lock' = Nobody => fsm' = "idle"
                    /\ \A t \in Threads :
                         pc'[t] \in {"admit", "sense", "reply", "release"}
                           => fsm' = "idle"
  BY DEF IdleAtTheEdges
<1>0. CASE Restart
  <2>1. restarts \in Nat /\ restarts' # 0
    BY <1>0, RuntimeAssumption DEF Restart, LockInv, TypeOK
  <2>2. ~ReusesAgentId
    BY <2>1 DEF InService, ResumedNothing
  <2> QED BY <1>0, <2>2 DEF Restart
<1>1. ASSUME ~Restart PROVE InService
  BY <1>1, PointSets
     DEF InService, ResumedNothing, StopPoints, LockInv, TypeOK, PointsOK,
         RequestPoints, Goto,
         Next, Submit, RequestStep, Admit, ForceReset, Reply, Acquire, LoopStep,
         TestShutdown, Perceive, OpenStateFile, WriteStateFile, CycleStep,
         CheckTransition, AssignTransition, SkipTransition, SkipsTransition,
         RejectTransition, Raise, Consult, Execute, Record, StoreDecision,
         Release, Signal, Finished, vars, After
<1>2. CASE ~Restart
  <2> USE <1>1, <1>2, PointSets
      DEF LockInv, TypeOK, IdleAtTheEdges, CycleHoldsLock, CyclePoints, Goto
  <2>1. ASSUME NEW r \in Requests,
               Submit(r) \/ Admit(r) \/ ForceReset(r) \/ Reply(r)
        PROVE  IdleAtTheEdges'
    BY <2>1 DEF Submit, Admit, ForceReset, Reply
  <2>2. ASSUME NEW t \in Threads, Acquire(t) \/ Release(t) \/ CheckTransition(t)
        PROVE  IdleAtTheEdges'
    BY <2>2 DEF Acquire, Release, CheckTransition
  <2>3. ASSUME NEW t \in Threads, AssignTransition(t)
        PROVE  IdleAtTheEdges'
    <3>1. lock = t
      BY <2>3 DEF AssignTransition, TransitionPoints, InService, ResumedNothing, StopPoints,
                  PointsOK, RequestPoints, Threads
    <3>2. pending[t] = Target(pc[t])
      BY <2>3 DEF AssignTransition, PendingIsTarget, TransitionPoints
    <3>3. /\ \A u \in Threads : u # t => pc'[u] \notin CyclePoints
          /\ lock' # Nobody
      BY <2>3, <3>1 DEF AssignTransition
    <3>4. CASE pc[t] = "reset"
      BY <2>3, <3>2, <3>4 DEF AssignTransition, Target
    <3>5. CASE pc[t] # "reset"
      <4>1. pc'[t] \notin {"admit", "sense", "reply", "release"}
        BY <2>3, <3>5 DEF AssignTransition, After, TransitionPoints
      <4> QED BY <3>3, <4>1
    <3> QED BY <3>4, <3>5
  <2>4. ASSUME NEW t \in Threads, SkipTransition(t)
        PROVE  IdleAtTheEdges'
    BY <2>4 DEF SkipTransition, SkipsTransition, After
  <2>5. ASSUME NEW t \in Threads, RejectTransition(t) \/ Consult(t)
        PROVE  IdleAtTheEdges'
    BY <2>5 DEF RejectTransition, Consult, Raise, InService, ResumedNothing,
                StopPoints
  <2>6. ASSUME NEW t \in Threads, Execute(t) \/ Record(t) \/ StoreDecision(t)
        PROVE  IdleAtTheEdges'
    BY <2>6 DEF Execute, Record, StoreDecision
  <2>7. CASE LoopStep /\ ~CycleStep(Loop)
    BY <2>7 DEF LoopStep, TestShutdown, Perceive, OpenStateFile, WriteStateFile
  <2>8. CASE Signal \/ Finished \/ UNCHANGED vars
    BY <2>8 DEF Signal, Finished, vars
  <2> QED
    BY <2>1, <2>2, <2>3, <2>4, <2>5, <2>6, <2>7, <2>8
       DEF Next, RequestStep, LoopStep, CycleStep
<1> QED BY <1>0, <1>2

\* While the loop thread is in service, a free lock means an idle agent,
\* whatever the cycles before it ran into.
THEOREM CyclesAreAtomic == Spec => []AtomicCycle
<1>1. Init => PendingIsTarget /\ IdleAtTheEdges /\ PointsOK /\ CycleHoldsLock
  BY PendingInit, IdleInit, LockInit
<1>2. TypeOK /\ TypeOK' /\ PointsOK /\ CycleHoldsLock /\ PendingIsTarget
        /\ IdleAtTheEdges /\ [Next]_vars
        => (PointsOK /\ CycleHoldsLock /\ PendingIsTarget /\ IdleAtTheEdges)'
  BY LockStep, PendingStep, IdleStep DEF LockInv
<1>3. IdleAtTheEdges => AtomicCycle
  BY DEF IdleAtTheEdges, AtomicCycle, InService
<1> QED BY <1>1, <1>2, <1>3, TypeCorrect, PTL DEF Spec

-----------------------------------------------------------------------------
(* Effects and answers: what has been executed and replied at each point.  *)

Waiting == {"new", "wait", "admit"}
Working == {"sense", "validate", "decide", "consult", "enforce", "act",
            "execute", "record", "observe", "explain", "store"}

RequestProgress ==
  \A r \in Requests :
    /\ outcome[r] \in {"none", "failed", "refused", "lost", r}
    /\ pc[r] \in Waiting => outcome[r] = "none" /\ r \notin executed
    /\ pc[r] \in Working => outcome[r] = "none"
    /\ pc[r] \in {"observe", "explain", "store"} => r \in executed
    /\ pc[r] \in {"reset", "reply"} =>
         \/ outcome[r] = "failed"
         \/ outcome[r] = "none" /\ lastDecision = r /\ r \in executed
    /\ pc[r] = "release" => outcome[r] # "none"

RecordFollowsExecution ==
  /\ \A t \in Threads : pc[t] = "record" => t \in executed
  /\ HistoryMatchesExecution

EffectsInv == RequestProgress /\ RecordFollowsExecution

LEMMA EffectsInit == Init => EffectsInv
BY PointSets
   DEF Init, EffectsInv, RequestProgress, RecordFollowsExecution, Waiting,
       Working, HistoryMatchesExecution

LEMMA RecordStep ==
  ASSUME TypeOK, RecordFollowsExecution, [Next]_vars
  PROVE  RecordFollowsExecution'
<1> USE PointSets DEF TypeOK, RecordFollowsExecution, HistoryMatchesExecution, Goto
<1>1. ASSUME NEW r \in Requests,
             Submit(r) \/ Admit(r) \/ ForceReset(r) \/ Reply(r)
      PROVE  RecordFollowsExecution'
  BY <1>1 DEF Submit, Admit, ForceReset, Reply
<1>2. ASSUME NEW t \in Threads, Acquire(t) \/ Release(t) \/ CheckTransition(t)
      PROVE  RecordFollowsExecution'
  BY <1>2 DEF Acquire, Release, CheckTransition
<1>3. ASSUME NEW t \in Threads, AssignTransition(t) \/ SkipTransition(t)
      PROVE  RecordFollowsExecution'
  BY <1>3 DEF AssignTransition, SkipTransition, SkipsTransition, After,
              TransitionPoints
<1>4. ASSUME NEW t \in Threads, RejectTransition(t) \/ Consult(t)
      PROVE  RecordFollowsExecution'
  BY <1>4 DEF RejectTransition, Consult, Raise
<1>5. ASSUME NEW t \in Threads, Execute(t) \/ Record(t) \/ StoreDecision(t)
      PROVE  RecordFollowsExecution'
  BY <1>5 DEF Execute, Record, StoreDecision
<1>6. CASE LoopStep /\ ~CycleStep(Loop)
  BY <1>6 DEF LoopStep, TestShutdown, Perceive, OpenStateFile, WriteStateFile
<1>7. CASE Signal \/ Restart \/ Finished \/ UNCHANGED vars
  BY <1>7 DEF Signal, Restart, Finished, vars
<1> QED
  BY <1>1, <1>2, <1>3, <1>4, <1>5, <1>6, <1>7
     DEF Next, RequestStep, LoopStep, CycleStep

LEMMA ProgressStep ==
  ASSUME LockInv, EffectsInv, [Next]_vars
  PROVE  RequestProgress'
<1> USE PointSets
    DEF LockInv, TypeOK, PointsOK, RequestPoints, CycleHoldsLock, CyclePoints,
        EffectsInv, RequestProgress, Waiting, Working, Goto
<1>1. ASSUME NEW r \in Requests, Submit(r) \/ Admit(r) \/ ForceReset(r)
      PROVE  RequestProgress'
  BY <1>1 DEF Submit, Admit, ForceReset
<1>2. ASSUME NEW r \in Requests, Reply(r)
      PROVE  RequestProgress'
  <2>1. CASE outcome[r] = "failed"
    BY <1>2, <2>1 DEF Reply
  <2>2. CASE outcome[r] # "failed"
    <3>1. lastDecision = r /\ r \in executed /\ outcome[r] = "none"
      BY <1>2, <2>2 DEF Reply
    <3>2. outcome' = [outcome EXCEPT ![r] = r]
      BY <1>2, <2>2, <3>1 DEF Reply
    <3>3. r # "none"
      BY RuntimeAssumption
    <3> QED BY <1>2, <3>1, <3>2, <3>3 DEF Reply
  <2> QED BY <2>1, <2>2
<1>3. ASSUME NEW t \in Threads, Acquire(t) \/ Release(t) \/ CheckTransition(t)
      PROVE  RequestProgress'
  BY <1>3 DEF Acquire, Release, CheckTransition, TransitionPoints
<1>4. ASSUME NEW t \in Threads, AssignTransition(t)
      PROVE  RequestProgress'
  <2>1. CASE t = Loop
    BY <1>4, <2>1 DEF AssignTransition
  <2>2. CASE t # Loop
    BY <1>4, <2>2 DEF AssignTransition, After, TransitionPoints, Threads
  <2> QED BY <2>1, <2>2
<1>5. ASSUME NEW t \in Threads, SkipTransition(t)
      PROVE  RequestProgress'
  <2>1. CASE t = Loop
    BY <1>5, <2>1 DEF SkipTransition
  <2>2. CASE t # Loop
    BY <1>5, <2>2 DEF SkipTransition, SkipsTransition, After, Threads
  <2> QED BY <2>1, <2>2
<1>6. ASSUME NEW t \in Threads, RejectTransition(t)
      PROVE  RequestProgress'
  <2>1. CASE t = Loop
    BY <1>6, <2>1 DEF RejectTransition, Raise
  <2>2. CASE t # Loop
    BY <1>6, <2>2 DEF RejectTransition, Raise, TransitionPoints, Threads
  <2> QED BY <2>1, <2>2
<1>7. ASSUME NEW t \in Threads, Consult(t)
      PROVE  RequestProgress'
  BY <1>7 DEF Consult, Raise, Threads
<1>8. ASSUME NEW t \in Threads, Execute(t)
      PROVE  RequestProgress'
  BY <1>8 DEF Execute, Threads
<1>9. ASSUME NEW t \in Threads, Record(t)
      PROVE  RequestProgress'
  BY <1>9 DEF Record, RecordFollowsExecution
<1>10. ASSUME NEW t \in Threads, StoreDecision(t)
       PROVE  RequestProgress'
  BY <1>10 DEF StoreDecision, Threads
<1>11. CASE LoopStep /\ ~CycleStep(Loop)
  BY <1>11 DEF LoopStep, TestShutdown, Perceive, OpenStateFile, WriteStateFile
<1>12. CASE Signal \/ Finished \/ UNCHANGED vars
  BY <1>12 DEF Signal, Finished, vars
<1>13. CASE Restart
  BY <1>13 DEF Restart
<1> QED
  BY <1>1, <1>2, <1>3, <1>4, <1>5, <1>6, <1>7, <1>8, <1>9, <1>10, <1>11,
     <1>12, <1>13 DEF Next, RequestStep, LoopStep, CycleStep

\* No row of the decision history is about an execution that did not happen.
THEOREM HistoryIsTruthful == Spec => []HistoryMatchesExecution
<1>1. TypeOK /\ RecordFollowsExecution /\ [Next]_vars => RecordFollowsExecution'
  BY RecordStep
<1>2. RecordFollowsExecution => HistoryMatchesExecution
  BY DEF RecordFollowsExecution
<1>3. Init => RecordFollowsExecution
  BY EffectsInit DEF EffectsInv
<1> QED BY <1>1, <1>2, <1>3, TypeCorrect, PTL DEF Spec

-----------------------------------------------------------------------------
(* Failures: in service, nobody but the owner of the lock moves the state  *)
(* machine, so that no transition after the execution is refused.          *)

BeforeExecution == {"sense", "validate", "decide", "consult", "enforce", "act",
                    "execute"}

\* What a request that has executed its action, or is about to, finds.
AfterActing ==
  \A r \in Requests :
    /\ pc[r] \in BeforeExecution => r \notin executed
    /\ pc[Loop] \notin StopPoints =>
         /\ pc[r] \in {"execute", "record", "observe"} => fsm = "acting"
         /\ pc[r] = "explain" => fsm = "observing_results"
         /\ pc[r] = "store" => fsm = "explaining"
         /\ pc[r] = "reset" => outcome[r] # "failed" \/ r \notin executed

LEMMA AfterTarget ==
  ASSUME NEW t, t # Loop, NEW p \in TransitionPoints
  PROVE  /\ After(t, p) \in BeforeExecution =>
              p \in {"sense", "validate", "decide", "enforce", "act"}
         /\ After(t, p) \in {"execute", "record", "observe"} => Target(p) = "acting"
         /\ After(t, p) = "explain" => Target(p) = "observing_results"
         /\ After(t, p) = "store" => Target(p) = "explaining"
         /\ After(t, p) = "reset" => p = "block"
BY DEF After, Target, TransitionPoints, BeforeExecution

LEMMA FailureStep ==
  ASSUME LockInv, PendingIsTarget, EffectsInv, AfterActing, [Next]_vars
  PROVE  AfterActing'
<1>b. \A r \in Requests : pc[r] # "block"
  BY DEF LockInv, PointsOK, RequestPoints
<1> USE PointSets
    DEF LockInv, TypeOK, PointsOK, RequestPoints, CycleHoldsLock, CyclePoints,
        AfterActing, BeforeExecution, Goto
<1>a. ASSUME NEW r \in Requests, pc[r] \in Waiting PROVE r \notin executed
  BY <1>a DEF EffectsInv, RequestProgress
<1>1. ASSUME NEW r \in Requests, Submit(r) \/ Admit(r) \/ Reply(r)
      PROVE  AfterActing'
  BY <1>1, <1>a DEF Submit, Admit, Reply, Waiting
<1>2. ASSUME NEW r \in Requests, ForceReset(r)
      PROVE  AfterActing'
  BY <1>2 DEF ForceReset
<1>3. ASSUME NEW t \in Threads, Acquire(t) \/ Release(t) \/ CheckTransition(t)
      PROVE  AfterActing'
  BY <1>3 DEF Acquire, Release, CheckTransition, TransitionPoints
<1>4. ASSUME NEW t \in Threads, AssignTransition(t)
      PROVE  AfterActing'
  <2>1. pending[t] = Target(pc[t]) /\ pc[t] \in TransitionPoints
    BY <1>4 DEF AssignTransition, PendingIsTarget, TransitionPoints
  <2>2. CASE t = Loop
    <3>1. pc[t] = "stop" => pc'[t] \in StopPoints
      BY <1>4, <2>2 DEF AssignTransition, After, StopPoints
    <3>2. pc[t] # "stop" => lock = t
      BY <2>1 DEF TransitionPoints
    <3>3. \A r \in Requests : pc'[r] = pc[r] /\ r # t /\ executed' = executed
      BY <1>4, <2>2 DEF AssignTransition
    <3>4. CASE pc[t] = "stop"
      BY <2>2, <3>1, <3>3, <3>4
    <3>5. CASE pc[t] # "stop"
      <4>1. \A r \in Requests : pc[r] \notin CyclePoints
        BY <3>2, <3>3, <3>5
      <4> QED BY <3>3, <4>1
    <3> QED BY <3>4, <3>5
  <2>3. CASE t # Loop
    <3>1. lock = t /\ t \in Requests
      BY <2>1, <2>3 DEF TransitionPoints, Threads
    <3>2. \A r \in Requests : r # t => pc'[r] = pc[r] /\ pc[r] \notin CyclePoints
      BY <1>4, <3>1 DEF AssignTransition
    <3>3. fsm' = Target(pc[t]) /\ pc'[t] = After(t, pc[t])
          /\ pc'[Loop] = pc[Loop] /\ UNCHANGED <<outcome, executed>>
      BY <1>4, <2>1, <2>3 DEF AssignTransition
    <3>4. /\ pc'[t] \in BeforeExecution =>
               pc[t] \in {"sense", "validate", "decide", "enforce", "act"}
          /\ pc'[t] \in {"execute", "record", "observe"} => fsm' = "acting"
          /\ pc'[t] = "explain" => fsm' = "observing_results"
          /\ pc'[t] = "store" => fsm' = "explaining"
          /\ pc'[t] = "reset" => pc[t] = "block"
      BY <2>1, <2>3, <3>3, AfterTarget
    <3>5. pc[t] # "block"
      BY <3>1, <1>b
    <3>6. ASSUME NEW r \in Requests, r # t
          PROVE  pc'[r] \notin BeforeExecution \cup {"record", "observe", "explain", "store", "reset"}
      BY <3>2, <3>6
    <3>7. pc'[t] \in BeforeExecution => t \notin executed'
      BY <3>1, <3>3, <3>4
    <3> QED BY <3>1, <3>3, <3>4, <3>5, <3>6, <3>7
  <2> QED BY <2>2, <2>3
<1>5. ASSUME NEW t \in Threads, SkipTransition(t)
      PROVE  AfterActing'
  <2>1. CASE t = Loop
    BY <1>5, <2>1 DEF SkipTransition, SkipsTransition, After, StopPoints
  <2>2. CASE t # Loop
    BY <1>5, <2>2 DEF SkipTransition, SkipsTransition, After, Threads
  <2> QED BY <2>1, <2>2
<1>6. ASSUME NEW t \in Threads, RejectTransition(t)
      PROVE  AfterActing'
  <2>1. CASE t = Loop
    BY <1>6, <2>1 DEF RejectTransition, Raise, StopPoints
  <2>2. CASE t # Loop
    <3>1. t \in Requests /\ pc'[t] = "reset" /\ fsm' = fsm /\ executed' = executed
          /\ pc'[Loop] = pc[Loop]
          /\ \A r \in Requests : r # t => pc'[r] = pc[r] /\ outcome'[r] = outcome[r]
      BY <1>6, <2>2 DEF RejectTransition, Raise, Threads
    <3>2. pc[Loop] \notin StopPoints => pc[t] \notin {"observe", "explain", "reset", "reply"}
      BY <1>6, <2>2, <3>1 DEF RejectTransition, Target, ValidTransitions, TransitionPoints
    <3>3. pc[t] \in BeforeExecution \cup {"observe", "explain", "reset", "reply"}
      BY <1>6, <3>1 DEF RejectTransition, TransitionPoints
    <3> QED BY <3>1, <3>2, <3>3
  <2> QED BY <2>1, <2>2
<1>7. ASSUME NEW t \in Threads, Consult(t)
      PROVE  AfterActing'
  <2>1. CASE t = Loop
    BY <1>7, <2>1 DEF Consult, Raise, StopPoints
  <2>2. CASE t # Loop
    BY <1>7, <2>2 DEF Consult, Raise, Threads
  <2> QED BY <2>1, <2>2
<1>8. ASSUME NEW t \in Threads, Execute(t) \/ Record(t)
      PROVE  AfterActing'
  BY <1>8 DEF Execute, Record, Threads, StopPoints
<1>9. ASSUME NEW t \in Threads, StoreDecision(t)
      PROVE  AfterActing'
  <2>1. t \in Requests => outcome[t] # "failed"
    BY <1>9 DEF StoreDecision, EffectsInv, RequestProgress, Working
  <2> QED BY <1>9, <2>1 DEF StoreDecision, Threads, StopPoints
<1>10. CASE LoopStep /\ ~CycleStep(Loop)
  BY <1>10 DEF LoopStep, TestShutdown, Perceive, OpenStateFile, WriteStateFile, StopPoints
<1>11. CASE Signal \/ Finished \/ UNCHANGED vars
  BY <1>11 DEF Signal, Finished, vars
<1>12. CASE Restart
  BY <1>12 DEF Restart
<1> QED
  BY <1>1, <1>2, <1>3, <1>4, <1>5, <1>6, <1>7, <1>8, <1>9, <1>10, <1>11,
     <1>12 DEF Next, RequestStep, LoopStep, CycleStep

\* A caller is told of a failure after its action was executed only when the
\* loop thread was stopping, the one writer that does not take the lock.
THEOREM FailuresExecuteNothing == Spec => []FailureExecutesNothing
<1>1. Init => PendingIsTarget /\ PointsOK /\ CycleHoldsLock /\ EffectsInv /\ AfterActing
  <2>1. Init => AfterActing
    BY PointSets DEF Init, AfterActing, BeforeExecution
  <2> QED BY <2>1, PendingInit, LockInit, EffectsInit
<1>2. TypeOK /\ PointsOK /\ CycleHoldsLock /\ PendingIsTarget /\ EffectsInv
        /\ AfterActing /\ [Next]_vars
        => (PointsOK /\ CycleHoldsLock /\ PendingIsTarget /\ EffectsInv /\ AfterActing)'
  <2>1. ASSUME LockInv, EffectsInv, [Next]_vars PROVE EffectsInv'
    BY <2>1, ProgressStep, RecordStep DEF EffectsInv, LockInv
  <2> QED BY <2>1, LockStep, PendingStep, FailureStep DEF LockInv
<1>3. AfterActing => FailureExecutesNothing
  BY DEF AfterActing, FailureExecutesNothing
<1> QED BY <1>1, <1>2, <1>3, TypeCorrect, PTL DEF Spec

-----------------------------------------------------------------------------
(* The runtime implements the serial service.                              *)

LEMMA ServiceInit == Init => Serial!SInit
BY DEF Init, Serial!SInit

LEMMA ServiceStep ==
  ASSUME LockInv, EffectsInv, [Next]_vars
  PROVE  [Serial!SNext]_(Serial!serialVars)
<1> USE PointSets
    DEF LockInv, TypeOK, PointsOK, RequestPoints, CycleHoldsLock, CyclePoints,
        EffectsInv, RequestProgress, Waiting, Working, Goto, Serial!serialVars
\* A step that changes neither the lock, the effects nor an answer stutters.
<1>0. UNCHANGED <<lock, executed, outcome>>
        => [Serial!SNext]_(Serial!serialVars)
  OBVIOUS
<1>1. ASSUME NEW r \in Requests, Submit(r) \/ ForceReset(r)
      PROVE  [Serial!SNext]_(Serial!serialVars)
  BY <1>0, <1>1 DEF Submit, ForceReset
<1>2. ASSUME NEW r \in Requests, Admit(r)
      PROVE  [Serial!SNext]_(Serial!serialVars)
  <2>1. CASE shutdown
    <3>1. Serial!SAnswer(r)
      BY <1>2, <2>1, RuntimeAssumption DEF Admit, Serial!SAnswer, Threads
    <3> QED BY <3>1 DEF Serial!SNext
  <2>2. CASE ~shutdown
    BY <1>0, <1>2, <2>2 DEF Admit
  <2> QED BY <2>1, <2>2
<1>3. ASSUME NEW r \in Requests, Reply(r)
      PROVE  [Serial!SNext]_(Serial!serialVars)
  <2>1. CASE outcome[r] = "failed"
    BY <1>0, <1>3, <2>1 DEF Reply
  <2>2. CASE outcome[r] # "failed"
    <3>1. lastDecision = r /\ r \in executed /\ outcome[r] = "none"
      BY <1>3, <2>2 DEF Reply
    <3>2. outcome' = [outcome EXCEPT ![r] = r]
      BY <1>3, <2>2, <3>1, RuntimeAssumption DEF Reply
    <3>3. Serial!SAnswer(r)
      BY <1>3, <3>1, <3>2 DEF Reply, Serial!SAnswer, Threads
    <3> QED BY <3>3 DEF Serial!SNext
  <2> QED BY <2>1, <2>2
<1>4. ASSUME NEW t \in Threads, Acquire(t)
      PROVE  [Serial!SNext]_(Serial!serialVars)
  <2>1. Serial!SBegin(t)
    BY <1>4, RuntimeAssumption DEF Acquire, Serial!SBegin, Threads
  <2> QED BY <2>1 DEF Serial!SNext, Threads
<1>5. ASSUME NEW t \in Threads,
             CheckTransition(t) \/ AssignTransition(t) \/ SkipTransition(t)
      PROVE  [Serial!SNext]_(Serial!serialVars)
  BY <1>0, <1>5 DEF CheckTransition, AssignTransition, SkipTransition
\* An exception ends the loop thread's cycle, and answers a request.
<1>6. ASSUME NEW t \in Threads, pc[t] \in CyclePoints, Raise(t),
             UNCHANGED executed,
             t # Loop => outcome[t] = "none"
      PROVE  [Serial!SNext]_(Serial!serialVars)
  <2>1. CASE t = Loop
    <3>1. Serial!SEnd
      BY <1>6, <2>1, RuntimeAssumption DEF Raise, Serial!SEnd, Threads
    <3> QED BY <3>1 DEF Serial!SNext
  <2>2. CASE t # Loop
    <3>1. Serial!SAnswer(t)
      BY <1>6, <2>2, RuntimeAssumption DEF Raise, Serial!SAnswer, Threads
    <3> QED BY <2>2, <3>1 DEF Serial!SNext, Threads
  <2> QED BY <2>1, <2>2
<1>7. ASSUME NEW t \in Threads, RejectTransition(t)
      PROVE  [Serial!SNext]_(Serial!serialVars)
  <2>1. CASE pc[t] = "stop"
    BY <1>0, <1>7, <2>1 DEF RejectTransition
  <2>2. CASE pc[t] # "stop"
    <3>1. pc[t] \in CyclePoints /\ Raise(t) /\ UNCHANGED executed
      BY <1>7, <2>2 DEF RejectTransition, TransitionPoints
    <3>2. t # Loop => outcome[t] = "none"
      BY <1>7, <2>2 DEF RejectTransition, TransitionPoints, Threads
    <3> QED BY <1>6, <3>1, <3>2
  <2> QED BY <2>1, <2>2
<1>8. ASSUME NEW t \in Threads, Consult(t)
      PROVE  [Serial!SNext]_(Serial!serialVars)
  <2>1. CASE Raise(t)
    <3>1. pc[t] \in CyclePoints /\ UNCHANGED executed
      BY <1>8 DEF Consult
    <3>2. t # Loop => outcome[t] = "none"
      BY <1>8 DEF Consult, Threads
    <3> QED BY <1>6, <2>1, <3>1, <3>2
  <2>2. CASE UNCHANGED <<lock, outcome>>
    BY <1>0, <1>8, <2>2 DEF Consult
  <2> QED BY <1>8, <2>1, <2>2 DEF Consult
<1>9. ASSUME NEW t \in Threads, Execute(t)
      PROVE  [Serial!SNext]_(Serial!serialVars)
  <2>1. CASE executed' = executed \cup {t}
    <3>1. Serial!SExecute
      BY <1>9, <2>1, RuntimeAssumption DEF Execute, Serial!SExecute, Threads
    <3> QED BY <3>1 DEF Serial!SNext
  <2>2. CASE UNCHANGED executed
    BY <1>0, <1>9, <2>2 DEF Execute
  <2> QED BY <1>9, <2>1, <2>2 DEF Execute
<1>10. ASSUME NEW t \in Threads, Record(t) \/ StoreDecision(t)
       PROVE  [Serial!SNext]_(Serial!serialVars)
  BY <1>0, <1>10 DEF Record, StoreDecision
<1>11. ASSUME NEW t \in Threads, Release(t)
       PROVE  [Serial!SNext]_(Serial!serialVars)
  <2>1. Serial!SEnd
    BY <1>11, RuntimeAssumption DEF Release, Serial!SEnd, Threads
  <2> QED BY <2>1 DEF Serial!SNext
<1>12. CASE LoopStep /\ ~CycleStep(Loop)
  BY <1>0, <1>12
     DEF LoopStep, TestShutdown, Perceive, OpenStateFile, WriteStateFile
<1>13. CASE Signal \/ Finished \/ UNCHANGED vars
  BY <1>0, <1>13 DEF Signal, Finished, vars
<1>14. CASE Restart
  <2>1. ASSUME NEW r \in Requests
        PROVE  /\ outcome'[r] \in Requests \cup {"none", "failed", "refused", "lost"}
               /\ \/ outcome'[r] = outcome[r]
                  \/ outcome'[r] = "lost" /\ (outcome[r] = "none" \/ lock = r)
    <3>1. CASE pc[r] \in {"new", "done"}
      BY <1>14, <2>1, <3>1 DEF Restart
    <3>2. CASE pc[r] \notin {"new", "done"}
      <4>1. outcome'[r] = "lost"
        BY <1>14, <2>1, <3>2 DEF Restart
      <4>2. pc[r] = "wait" \/ pc[r] \in CyclePoints
        BY <2>1, <3>2 DEF Threads, Points, TransitionPoints
      <4>3. outcome[r] = "none" \/ lock = r
        BY <2>1, <4>2 DEF Threads
      <4> QED BY <4>1, <4>3
    <3> QED BY <3>1, <3>2
  <2>2. Serial!SCrash
    BY <1>14, <2>1 DEF Restart, Serial!SCrash
  <2> QED BY <2>2 DEF Serial!SNext
<1> QED
  BY <1>1, <1>2, <1>3, <1>4, <1>5, <1>7, <1>8, <1>9, <1>10, <1>11, <1>12,
     <1>13, <1>14 DEF Next, RequestStep, LoopStep, CycleStep

\* Seen from outside, the runtime is the serial service: cycles one at a
\* time, a caller answered at most once, with its own executed decision.
THEOREM ImplementsSerialService == Spec => SerialService
<1>1. Init => Serial!SInit /\ PointsOK /\ CycleHoldsLock /\ EffectsInv
  BY ServiceInit, LockInit, EffectsInit
<1>2. TypeOK /\ TypeOK' /\ PointsOK /\ CycleHoldsLock /\ EffectsInv
        /\ [Next]_vars
        => (PointsOK /\ CycleHoldsLock /\ EffectsInv)'
  BY LockStep, ProgressStep, RecordStep DEF LockInv, EffectsInv
<1>3. TypeOK /\ PointsOK /\ CycleHoldsLock /\ EffectsInv /\ [Next]_vars
        => [Serial!SNext]_(Serial!serialVars)
  BY ServiceStep DEF LockInv
<1> QED
  BY <1>1, <1>2, <1>3, TypeCorrect, PTL DEF Spec, SerialService, Serial!SSpec

=============================================================================
