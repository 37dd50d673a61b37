--------------------------- MODULE DeployPoolProofs ---------------------------
(* Proofs about DeployPool, for any jobs, workers, destinations and number of   *)
(* starts, and about AutoScaler, for any number of loops and any cooldowns.     *)
EXTENDS DeployPool, AutoScaler, FiniteSetTheorems, TLAPS

Busy    == {"emit", "log", "record"}
Holders == {t \in Threads : thread[t].job # Nothing}
Worker  == [pc : {"none", "new", "get", "emit", "log", "record", "ended"},
            job : Jobs \cup {Nothing}, next : 1..(Len(Destinations) + 1)]

\* What a worker's record is like, at each of its points.
WorkerOK(w) ==
  /\ (w.pc \in Busy) <=> (w.job # Nothing)
  /\ w.pc = "emit" => w.next \in 1..Len(Destinations)
  /\ w.pc \in {"none", "new", "get", "ended"} => w.next = 1

\* A thread has a job exactly while it works; threads that were not started have not run;
\* and a start or a stop that is under way has something left to do.
PointsInv ==
  /\ \A t \in Threads :
       /\ WorkerOK(thread[t])
       /\ t > spawned => thread[t].pc = "none"
  /\ main.do \in {"start", "stop"} => main.left > 0
  /\ main.do = "start" => spawned + main.left <= Workers * MaxStarts

\* Each job is once in the queue, or with one worker, before its row or after it, or left
\* by an exception; a job that was not accepted is nowhere.
QueuedOnce ==
  \A i, k \in 1..Len(work_queue) :
    work_queue[i] # Pill /\ work_queue[i] = work_queue[k] => i = k
QueuedIsNew ==
  \A i \in 1..Len(work_queue) :
    work_queue[i] # Pill =>
      /\ work_queue[i] \in Accepted /\ rows[work_queue[i]] = 0
      /\ work_queue[i] \notin dropped
      /\ \A t \in Threads : thread[t].job # work_queue[i]
HeldOnce ==
  \A t \in Threads :
    thread[t].job # Nothing =>
      /\ thread[t].job \in Accepted /\ thread[t].job \notin dropped
      /\ rows[thread[t].job] = IF thread[t].pc = "record" THEN 1 ELSE 0
      /\ \A u \in Threads : thread[u].job = thread[t].job => u = t
NoneIsLost ==
  /\ \A j \in Jobs :
       /\ rows[j] \in {0, 1}
       /\ j \notin Accepted => rows[j] = 0 /\ j \notin dropped
  /\ \A j \in Accepted : Queued(j) \/ Held(j) \/ rows[j] = 1 \/ j \in dropped
PlacesInv == QueuedOnce /\ QueuedIsNew /\ HeldOnce /\ NoneIsLost

\* What has been tried of the destinations of a job, at each point of its worker.
Tried == [j \in Jobs |-> delivered[j] \cup missed[j]]
TriedInv ==
  /\ \A t \in Threads :
       /\ thread[t].pc = "emit" =>
            \A i \in 1..(thread[t].next - 1) : Destinations[i] \in Tried[thread[t].job]
       /\ thread[t].pc \in {"log", "record"} => AllDestinations \subseteq Tried[thread[t].job]
  /\ \A j \in Jobs : rows[j] > 0 => AllDestinations \subseteq Tried[j]

\* The queue counts as unfinished whatever is in it, with a worker, or left by an
\* exception, and the pills that were taken.
CountInv ==
  /\ IsFiniteSet(dropped)
  /\ unfinished >= Len(work_queue) + Cardinality(Holders) + Cardinality(dropped)

IInv == TypeOK /\ PointsInv /\ PlacesInv /\ TriedInv /\ CountInv

-----------------------------------------------------------------------------
(* Types.                                                                   *)

LEMMA Size == Workers * MaxStarts \in Nat /\ Len(Destinations) \in Nat /\ Len(Destinations) > 0
<1>1. Workers * MaxStarts \in Nat
  BY PoolAssumption, SMT
<1>2. Len(Destinations) \in Nat /\ Len(Destinations) > 0
  BY PoolAssumption, SMT
<1>3. QED
  BY <1>1, <1>2

LEMMA InitIInv == Init => IInv
<1> SUFFICES ASSUME Init PROVE IInv
  OBVIOUS
<1>a. 1 \in 1..(Len(Destinations) + 1) /\ 0 \in 0..(Workers * MaxStarts)
      /\ 0 \in 0..Workers /\ 0 \in 0..MaxFaults /\ 0 \in 0..MaxStops /\ Len(<<>>) = 0 /\ 1..0 = {}
  BY Size, PoolAssumption, SMT
<1>1. TypeOK
  <2>1. Quiet \in [do : {"idle", "start", "stop", "await", "join"}, left : 0..Workers]
    BY <1>a DEF Quiet
  <2>2. <<>> \in Seq(Jobs \cup {Pill})
    BY SMT
  <2>3. QED
    BY <1>a, <2>1, <2>2, PoolAssumption DEF Init, TypeOK
<1>2. PointsInv
  BY <1>a, Size DEF Init, PointsInv, WorkerOK, Quiet, Busy
<1>3. PlacesInv
  BY <1>a DEF Init, PlacesInv, QueuedOnce, QueuedIsNew, HeldOnce, NoneIsLost, Accepted
<1>4. TriedInv
  BY DEF Init, TriedInv
<1>5. CountInv
  <2>1. Holders = {}
    BY DEF Init, Holders
  <2>2. IsFiniteSet(dropped) /\ Cardinality(dropped) = 0 /\ Cardinality(Holders) = 0
    BY <2>1, FS_EmptySet DEF Init
  <2>3. QED
    BY <2>2, <1>a, SMT DEF Init, CountInv
<1>6. QED
  BY <1>1, <1>2, <1>3, <1>4, <1>5 DEF IInv

LEMMA HoldersFinite == IsFiniteSet(Holders) /\ Cardinality(Holders) \in Nat
<1>1. IsFiniteSet(Threads)
  BY Size, FS_Interval, SMT DEF Threads
<1>2. QED
  BY <1>1, FS_Subset, FS_CardinalityType DEF Holders

-----------------------------------------------------------------------------
(* The main thread.                                                         *)

\* A step that leaves the queue, the rows and the jobs of the threads as they are.
LEMMA FramePlaces ==
  ASSUME IInv,
         UNCHANGED <<work_queue, unfinished, submitted, refused, rows, dropped>>,
         \A t \in Threads :
           /\ thread'[t].job = thread[t].job
           /\ (thread'[t].pc = "record") = (thread[t].pc = "record")
  PROVE  PlacesInv' /\ CountInv'
<1>1. Accepted' = Accepted /\ Holders' = Holders /\ (\A j \in Jobs : Held(j)' = Held(j))
  BY DEF Accepted, Holders, Held
<1>2. \A j \in Jobs : Queued(j)' = Queued(j)
  BY DEF Queued
<1>3. QueuedOnce' /\ QueuedIsNew'
  BY <1>1 DEF IInv, PlacesInv, QueuedOnce, QueuedIsNew
<1>4. HeldOnce'
  BY <1>1 DEF IInv, PlacesInv, HeldOnce
<1>5. NoneIsLost'
  <2>1. Accepted \subseteq Jobs
    BY DEF IInv, TypeOK, Accepted
  <2>2. QED
    BY <1>1, <1>2, <2>1 DEF IInv, PlacesInv, NoneIsLost
<1>6. CountInv'
  BY <1>1 DEF IInv, CountInv
<1>7. QED
  BY <1>3, <1>4, <1>5, <1>6 DEF PlacesInv

\* One that leaves all about the jobs as it is.
LEMMA FrameTried ==
  ASSUME IInv, UNCHANGED <<delivered, missed, rows>>,
         \A t \in Threads :
           \/ thread'[t].job = thread[t].job /\ thread'[t].next = thread[t].next
              /\ thread'[t].pc = thread[t].pc
           \/ thread'[t].pc \notin Busy
  PROVE  TriedInv'
<1>1. Tried' = Tried
  BY DEF Tried
<1>2. QED
  BY <1>1 DEF IInv, TriedInv, Tried, Busy

\* An item is put behind what is in the queue.
LEMMA Appended ==
  ASSUME TypeOK, NEW item \in Jobs \cup {Pill}, work_queue' = Append(work_queue, item)
  PROVE  /\ work_queue' \in Seq(Jobs \cup {Pill})
         /\ Len(work_queue) \in Nat /\ Len(work_queue') = Len(work_queue) + 1
         /\ \A i \in 1..Len(work_queue) : work_queue'[i] = work_queue[i]
         /\ work_queue'[Len(work_queue) + 1] = item
BY SMT DEF TypeOK

\* What putting changes of the places of jobs, for a pill and for a job that is nowhere.
LEMMA PutPlaces ==
  ASSUME IInv, NEW item \in Jobs \cup {Pill}, Put(item), UNCHANGED <<thread, rows, dropped>>,
         Accepted \subseteq Accepted',
         item = Pill => Accepted' = Accepted,
         item # Pill => item \notin Accepted /\ Accepted' = Accepted \cup {item}
  PROVE  PlacesInv' /\ CountInv'
<1>1. /\ Len(work_queue) \in Nat /\ Len(work_queue') = Len(work_queue) + 1
      /\ \A i \in 1..Len(work_queue) : work_queue'[i] = work_queue[i]
      /\ work_queue'[Len(work_queue) + 1] = item
  BY Appended DEF IInv, Put
<1>i. \A i \in 1..Len(work_queue') : i \in 1..Len(work_queue) \/ i = Len(work_queue) + 1
  BY <1>1, SMT
<1>j. 1..Len(work_queue) \subseteq 1..Len(work_queue')
      /\ Len(work_queue) + 1 \in 1..Len(work_queue')
  BY <1>1, SMT
<1>2. item # Pill => /\ \A i \in 1..Len(work_queue) : work_queue[i] # item
                     /\ \A t \in Threads : thread[t].job # item
                     /\ rows[item] = 0 /\ item \notin dropped
  BY DEF IInv, PlacesInv, QueuedIsNew, HeldOnce, NoneIsLost, Pill
<1>3. QueuedOnce'
  BY <1>1, <1>i, <1>2 DEF IInv, PlacesInv, QueuedOnce
<1>4. QueuedIsNew'
  BY <1>1, <1>i, <1>2 DEF IInv, PlacesInv, QueuedIsNew
<1>5. HeldOnce'
  BY DEF IInv, PlacesInv, HeldOnce
<1>6. NoneIsLost'
  <2>1. \A j \in Jobs : Queued(j) => Queued(j)'
    BY <1>1, <1>j DEF Queued
  <2>2. item # Pill => Queued(item)'
    BY <1>1, <1>j DEF Queued
  <2>3. \A j \in Jobs : Held(j)' = Held(j)
    BY DEF Held
  <2>4. Accepted \subseteq Jobs
    BY DEF IInv, TypeOK, Accepted
  <2>5. \A j \in Accepted' : Queued(j)' \/ Held(j)' \/ rows'[j] = 1 \/ j \in dropped'
    BY <2>1, <2>2, <2>3, <2>4 DEF IInv, PlacesInv, NoneIsLost
  <2>6. QED
    BY <2>5 DEF IInv, PlacesInv, NoneIsLost
<1>7. CountInv'
  <2>1. Holders' = Holders
    BY DEF Holders
  <2>2. Cardinality(dropped) \in Nat
    BY FS_CardinalityType DEF IInv, CountInv
  <2>3. unfinished' >= Len(work_queue') + Cardinality(Holders) + Cardinality(dropped)
    BY <1>1, <2>2, HoldersFinite, SMT DEF IInv, CountInv, Put, TypeOK
  <2>4. QED
    BY <2>1, <2>3 DEF IInv, CountInv
<1>8. QED
  BY <1>3, <1>4, <1>5, <1>6, <1>7 DEF PlacesInv

LEMMA MainStepIInv ==
  ASSUME IInv, StartWorkers \/ StartThread \/ StopWorkers \/ PutPill \/ StopReturns
               \/ Join \/ JoinReturns \/ (\E j \in Jobs : Submit(j))
  PROVE  IInv'
<1> USE DEF IInv
<1>a. /\ 0 \in 0..Workers /\ Workers \in 0..Workers /\ Workers > 0
      /\ Workers * MaxStarts \in Nat
  BY Size, PoolAssumption, SMT
<1>b. ASSUME UNCHANGED <<spawned, thread, main>> PROVE PointsInv'
  BY <1>b DEF PointsInv
<1>c. ASSUME UNCHANGED <<thread, jobs>> PROVE TriedInv'
  BY <1>c, FrameTried DEF jobs
<1>d. ASSUME UNCHANGED <<work_queue, unfinished, thread, jobs>> PROVE PlacesInv' /\ CountInv'
  BY <1>d, FramePlaces DEF jobs
<1>1. CASE StartWorkers
  <2>1. TypeOK'
    BY <1>1, <1>a DEF StartWorkers, TypeOK, jobs
  <2>2. PointsInv'
    <3>1. spawned \in Nat /\ spawned + Workers <= Workers * MaxStarts
      BY <1>1, <1>a, SMT DEF StartWorkers, TypeOK
    <3>2. QED
      BY <1>1, <1>a, <3>1 DEF StartWorkers, PointsInv
  <2>3. QED
    BY <1>1, <2>1, <2>2, <1>c, <1>d DEF StartWorkers
<1>2. CASE StartThread
  <2>1. /\ spawned \in Nat /\ spawned + 1 \in Threads /\ spawned' \in 0..(Workers * MaxStarts)
        /\ main.left \in 0..Workers /\ main.left > 0
        /\ main.left # 1 => main.left - 1 \in 0..Workers /\ main.left - 1 > 0
                            /\ spawned' + (main.left - 1) <= Workers * MaxStarts
    BY <1>2, <1>a, SMT DEF StartThread, TypeOK, PointsInv, Threads
  <2>2. thread[spawned + 1].pc = "none"
    BY <2>1, SMT DEF PointsInv
  <2>3. /\ thread' \in [Threads -> Worker]
        /\ thread'[spawned + 1] = [thread[spawned + 1] EXCEPT !.pc = "new"]
        /\ \A u \in Threads : u # spawned + 1 => thread'[u] = thread[u]
    BY <1>2, <2>1 DEF StartThread, TypeOK, Worker
  <2>4. main' \in [do : {"idle", "start", "stop", "await", "join"}, left : 0..Workers]
    <3>1. CASE main.left = 1
      BY <3>1, <1>2, <1>a DEF StartThread, Quiet
    <3>2. CASE main.left # 1
      BY <3>2, <1>2, <2>1 DEF StartThread, TypeOK
    <3>3. QED
      BY <3>1, <3>2
  <2>5. TypeOK'
    BY <1>2, <2>1, <2>3, <2>4 DEF StartThread, TypeOK, Worker, jobs
  <2>6. PointsInv'
    <3>1. \A u \in Threads : WorkerOK(thread'[u])
      <4>1. WorkerOK(thread'[spawned + 1])
        BY <2>1, <2>2, <2>3 DEF PointsInv, WorkerOK, Busy, TypeOK, Worker
      <4>2. QED
        BY <4>1, <2>3 DEF PointsInv
    <3>2. \A u \in Threads : u > spawned' => thread'[u].pc = "none"
      <4>1. \A u \in Threads : u > spawned' => u > spawned /\ u # spawned + 1
        BY <1>2, <2>1, SMT DEF StartThread, Threads
      <4>2. QED
        BY <4>1, <2>3 DEF PointsInv
    <3>3. /\ main'.do \in {"start", "stop"} => main'.left > 0
          /\ main'.do = "start" => spawned' + main'.left <= Workers * MaxStarts
      BY <1>2, <2>1 DEF StartThread, Quiet, TypeOK
    <3>4. QED
      BY <3>1, <3>2, <3>3 DEF PointsInv
  <2>7. \A u \in Threads :
          /\ thread'[u].job = thread[u].job
          /\ (thread'[u].pc = "record") = (thread[u].pc = "record")
          /\ \/ thread'[u].next = thread[u].next /\ thread'[u].pc = thread[u].pc
             \/ thread'[u].pc \notin Busy
    BY <2>1, <2>2, <2>3 DEF TypeOK, Worker, Busy
  <2>8. PlacesInv' /\ CountInv'
    BY <1>2, <2>7, FramePlaces DEF StartThread, jobs
  <2>9. TriedInv'
    BY <1>2, <2>7, FrameTried DEF StartThread, jobs
  <2>10. QED
    BY <2>5, <2>6, <2>8, <2>9
<1>3. CASE StopWorkers
  <2>a. stops' \in 0..MaxStops
    BY <1>3, PoolAssumption, SMT DEF StopWorkers, TypeOK
  <2>1. TypeOK'
    BY <1>3, <1>a, <2>a DEF StopWorkers, TypeOK, jobs
  <2>2. PointsInv'
    BY <1>3, <1>a DEF StopWorkers, PointsInv
  <2>3. QED
    BY <1>3, <2>1, <2>2, <1>c, <1>d DEF StopWorkers
<1>4. CASE PutPill
  <2>1. main.left \in 0..Workers /\ main.left > 0
        /\ (main.left # 1 => main.left - 1 \in 0..Workers /\ main.left - 1 > 0)
    BY <1>4, <1>a, SMT DEF PutPill, TypeOK, PointsInv
  <2>2. main' \in [do : {"idle", "start", "stop", "await", "join"}, left : 0..Workers]
        /\ main'.do # "start" /\ (main'.do = "stop" => main'.left > 0)
    <3>1. CASE main.left = 1
      BY <3>1, <1>4, <1>a DEF PutPill
    <3>2. CASE main.left # 1
      BY <3>2, <1>4, <2>1 DEF PutPill, TypeOK
    <3>3. QED
      BY <3>1, <3>2
  <2>3. work_queue' \in Seq(Jobs \cup {Pill}) /\ unfinished' \in Nat
    <3>1. work_queue' \in Seq(Jobs \cup {Pill})
      BY <1>4, Appended DEF PutPill, Put
    <3>2. QED
      BY <1>4, <3>1, SMT DEF PutPill, Put, TypeOK
  <2>4. TypeOK'
    BY <1>4, <2>2, <2>3 DEF PutPill, TypeOK, jobs
  <2>5. PointsInv'
    BY <1>4, <2>2 DEF PutPill, PointsInv
  <2>6. PlacesInv' /\ CountInv'
    BY <1>4, PutPlaces DEF PutPill, jobs, Accepted
  <2>7. QED
    BY <1>4, <2>4, <2>5, <2>6, <1>c DEF PutPill
<1>5. CASE StopReturns \/ Join \/ JoinReturns
  <2>1. main' \in [do : {"idle", "start", "stop", "await", "join"}, left : 0..Workers]
        /\ main'.do \notin {"start", "stop"}
    BY <1>5, <1>a DEF StopReturns, Join, JoinReturns, Quiet
  <2>2. UNCHANGED <<env, running, work_queue, unfinished, spawned, thread, jobs, faults, stops>>
    BY <1>5 DEF StopReturns, Join, JoinReturns
  <2>3. TypeOK'
    BY <2>1, <2>2 DEF TypeOK, jobs
  <2>4. PointsInv'
    BY <2>1, <2>2 DEF PointsInv
  <2>5. QED
    BY <2>2, <2>3, <2>4, <1>c, <1>d
<1>6. CASE \E j \in Jobs : Submit(j)
  <2> PICK j \in Jobs : Submit(j)
    BY <1>6
  <2>1. j \notin submitted /\ submitted' = submitted \cup {j}
        /\ UNCHANGED <<env, running, spawned, thread, main,
                       delivered, missed, rows, dropped, faults, stops>>
    BY DEF Submit
  <2>2. PointsInv'
    BY <2>1, <1>b
  <2>3. TriedInv'
    BY <2>1, FrameTried
  <2>4. CASE Refuses(j)
    <3>1. refused' = refused \cup {j} /\ UNCHANGED <<work_queue, unfinished>>
      BY <2>4 DEF Submit
    <3>2. TypeOK'
      BY <2>1, <3>1 DEF TypeOK
    <3>3. Accepted' = Accepted
      BY <2>1, <3>1 DEF Accepted
    <3>4. Holders' = Holders /\ (\A x \in Jobs : Held(x)' = Held(x) /\ Queued(x)' = Queued(x))
          /\ Accepted \subseteq Jobs
      BY <2>1, <3>1 DEF Holders, Held, Queued, Accepted, TypeOK
    <3>5. QueuedOnce' /\ QueuedIsNew' /\ HeldOnce'
      BY <2>1, <3>1, <3>3 DEF PlacesInv, QueuedOnce, QueuedIsNew, HeldOnce
    <3>6. NoneIsLost'
      BY <2>1, <3>3, <3>4 DEF PlacesInv, NoneIsLost
    <3>7. CountInv'
      BY <2>1, <3>1, <3>4 DEF CountInv
    <3>8. QED
      BY <2>2, <2>3, <3>2, <3>5, <3>6, <3>7 DEF PlacesInv
  <2>5. CASE ~Refuses(j)
    <3>1. Put(j) /\ refused' = refused
      BY <2>5 DEF Submit
    <3>2. work_queue' \in Seq(Jobs \cup {Pill}) /\ unfinished' \in Nat
      <4>1. work_queue' \in Seq(Jobs \cup {Pill})
        BY <3>1, Appended DEF Put
      <4>2. QED
        BY <3>1, <4>1, SMT DEF Put, TypeOK
    <3>3. TypeOK'
      BY <2>1, <3>1, <3>2 DEF TypeOK
    <3>4. j # Pill /\ j \notin Accepted /\ Accepted' = Accepted \cup {j}
      BY <2>1, <3>1, PoolAssumption DEF Accepted, Pill, TypeOK
    <3>5. PlacesInv' /\ CountInv'
      BY <2>1, <3>1, <3>4, PutPlaces
    <3>6. QED
      BY <2>2, <2>3, <3>3, <3>5
  <2>6. QED
    BY <2>4, <2>5
<1>7. QED
  BY <1>1, <1>2, <1>3, <1>4, <1>5, <1>6

-----------------------------------------------------------------------------
(* The workers.                                                             *)

\* A worker that has started goes on to a record of the right kind.
LEMMA Moves ==
  ASSUME IInv, NEW t \in Threads, thread[t].pc # "none", NEW w \in Worker, WorkerOK(w),
         thread' = [thread EXCEPT ![t] = w], UNCHANGED <<spawned, main>>
  PROVE  /\ thread' \in [Threads -> Worker]
         /\ PointsInv'
         /\ thread'[t] = w /\ \A u \in Threads : u # t => thread'[u] = thread[u]
<1>1. /\ thread' \in [Threads -> Worker]
      /\ thread'[t] = w /\ \A u \in Threads : u # t => thread'[u] = thread[u]
  BY DEF IInv, TypeOK, Worker
<1>2. ~(t > spawned)
  BY DEF IInv, PointsInv
<1>3. PointsInv'
  BY <1>1, <1>2 DEF IInv, PointsInv
<1>4. QED
  BY <1>1, <1>3

Over == [pc |-> "ended", job |-> Nothing, next |-> 1]

LEMMA OverOK == Over \in Worker /\ WorkerOK(Over)
<1>1. 1 \in 1..(Len(Destinations) + 1)
  BY Size, SMT
<1>2. QED
  BY <1>1 DEF Over, Worker, WorkerOK, Busy

\* A worker without a job, which stays without one.
LEMMA IdleStep ==
  ASSUME IInv, NEW t \in Threads, CheckRunning(t) \/ GetTimesOut(t)
  PROVE  IInv'
<1>1. PICK w \in Worker : /\ WorkerOK(w) /\ w.pc \notin Busy
                          /\ thread' = [thread EXCEPT ![t] = w]
  <2>1. CASE End(t)
    BY <2>1, OverOK DEF End, Over, Busy
  <2>2. CASE thread[t].pc = "new" /\ GoTo(t, "get")
    <3>1. thread[t] \in Worker /\ WorkerOK(thread[t])
      BY DEF IInv, TypeOK, PointsInv, Worker
    <3>2. /\ [thread[t] EXCEPT !.pc = "get"] \in Worker
          /\ WorkerOK([thread[t] EXCEPT !.pc = "get"])
      BY <3>1, <2>2 DEF Worker, WorkerOK, Busy
    <3>3. [thread[t] EXCEPT !.pc = "get"].pc = "get"
      BY <3>1 DEF Worker
    <3>4. thread' = [thread EXCEPT ![t] = [thread[t] EXCEPT !.pc = "get"]]
      BY <2>2 DEF GoTo
    <3>5. QED
      BY <3>2, <3>3, <3>4 DEF Busy
  <2>3. QED
    BY <2>1, <2>2 DEF CheckRunning, GetTimesOut
<1>2. thread[t].pc \in {"new", "get"}
      /\ UNCHANGED <<env, running, work_queue, unfinished, spawned, main, jobs, faults, stops>>
  BY DEF CheckRunning, GetTimesOut
<1>3. /\ thread' \in [Threads -> Worker]
      /\ PointsInv'
      /\ thread'[t] = w /\ \A u \in Threads : u # t => thread'[u] = thread[u]
  BY <1>1, <1>2, Moves
<1>4. TypeOK'
  BY <1>2, <1>3 DEF IInv, TypeOK, Worker, jobs
<1>5. thread[t].job = Nothing /\ thread'[t].job = Nothing
  BY <1>1, <1>2, <1>3 DEF IInv, PointsInv, WorkerOK, Busy
<1>6. PlacesInv' /\ CountInv'
  <2>1. \A u \in Threads : /\ thread'[u].job = thread[u].job
                           /\ (thread'[u].pc = "record") = (thread[u].pc = "record")
    BY <1>1, <1>2, <1>3, <1>5 DEF Busy
  <2>2. QED
    BY <2>1, <1>2, FramePlaces DEF jobs
<1>7. TriedInv'
  <2>1. \A u \in Threads :
          \/ thread'[u].job = thread[u].job /\ thread'[u].next = thread[u].next
             /\ thread'[u].pc = thread[u].pc
          \/ thread'[u].pc \notin Busy
    BY <1>1, <1>3
  <2>2. QED
    BY <2>1, <1>2, FrameTried DEF jobs
<1>8. QED
  BY <1>3, <1>4, <1>6, <1>7 DEF IInv

LEMMA TakenOut ==
  ASSUME TypeOK, work_queue # <<>>, work_queue' = Tail(work_queue)
  PROVE  /\ work_queue' \in Seq(Jobs \cup {Pill})
         /\ Len(work_queue) \in Nat /\ Len(work_queue) > 0
         /\ Len(work_queue') = Len(work_queue) - 1
         /\ 1 \in 1..Len(work_queue)
         /\ Head(work_queue) = work_queue[1] /\ work_queue[1] \in Jobs \cup {Pill}
         /\ \A i \in 1..Len(work_queue') :
              work_queue'[i] = work_queue[i + 1] /\ i + 1 \in 1..Len(work_queue) /\ i + 1 # 1
         /\ \A i, k \in 1..Len(work_queue') : i + 1 = k + 1 => i = k
         /\ \A i \in 1..Len(work_queue) : i = 1 \/ (i - 1 \in 1..Len(work_queue')
                                                  /\ work_queue'[i - 1] = work_queue[i])
<1>1. work_queue \in Seq(Jobs \cup {Pill})
  BY DEF TypeOK
<1>2. Len(work_queue) \in Nat /\ Len(work_queue) > 0
  BY <1>1, SMT
<1>3. work_queue' \in Seq(Jobs \cup {Pill}) /\ Len(work_queue') = Len(work_queue) - 1
      /\ Head(work_queue) = work_queue[1] /\ work_queue[1] \in Jobs \cup {Pill}
  BY <1>1, <1>2, SMT
<1>4. \A i \in 1..Len(work_queue') : work_queue'[i] = work_queue[i + 1]
  BY <1>1, <1>2, <1>3, SMT
<1>5. QED
  BY <1>2, <1>3, <1>4, SMT

LEMMA GetPill ==
  ASSUME IInv, NEW t \in Threads, Get(t), Head(work_queue) = Pill
  PROVE  IInv'
<1>1. thread[t].pc = "get" /\ work_queue # <<>> /\ work_queue' = Tail(work_queue)
      /\ thread' = [thread EXCEPT ![t] = Over]
      /\ UNCHANGED <<env, running, unfinished, spawned, main, jobs, faults, stops>>
  BY DEF Get, End, Over
<1>2. /\ thread' \in [Threads -> Worker]
      /\ PointsInv'
      /\ thread'[t] = Over /\ \A u \in Threads : u # t => thread'[u] = thread[u]
  BY <1>1, OverOK, Moves
<1>3. /\ work_queue' \in Seq(Jobs \cup {Pill})
      /\ Len(work_queue) \in Nat /\ Len(work_queue) > 0
      /\ Len(work_queue') = Len(work_queue) - 1
      /\ work_queue[1] = Pill
      /\ \A i \in 1..Len(work_queue') :
           work_queue'[i] = work_queue[i + 1] /\ i + 1 \in 1..Len(work_queue)
      /\ \A i, k \in 1..Len(work_queue') : i + 1 = k + 1 => i = k
      /\ \A i \in 1..Len(work_queue) : i = 1 \/ (i - 1 \in 1..Len(work_queue')
                                               /\ work_queue'[i - 1] = work_queue[i])
  BY <1>1, TakenOut DEF IInv
<1>4. TypeOK'
  BY <1>1, <1>2, <1>3 DEF IInv, TypeOK, Worker, jobs
<1>5. \A u \in Threads : thread'[u].job = thread[u].job
                        /\ (thread'[u].pc = "record") = (thread[u].pc = "record")
  BY <1>1, <1>2 DEF Over, IInv, PointsInv, WorkerOK, Busy
<1>6. PlacesInv'
  <2>1. Accepted' = Accepted /\ Accepted \subseteq Jobs /\ Pill \notin Jobs
    BY <1>1, PoolAssumption DEF Accepted, jobs, IInv, TypeOK, Pill
  <2>2. QueuedOnce'
    <3>1. \A i, k \in 1..Len(work_queue) :
            work_queue[i] # Pill /\ work_queue[i] = work_queue[k] => i = k
      BY DEF IInv, PlacesInv, QueuedOnce
    <3>2. \A i, k \in 1..Len(work_queue') :
            work_queue'[i] # Pill /\ work_queue'[i] = work_queue'[k] => i = k
      BY <1>3, <3>1
    <3>3. QED
      BY <3>2 DEF QueuedOnce, Pill
  <2>3. QueuedIsNew'
    BY <1>1, <1>3, <1>5, <2>1 DEF IInv, PlacesInv, QueuedIsNew, jobs
  <2>4. HeldOnce'
    BY <1>1, <1>5, <2>1 DEF IInv, PlacesInv, HeldOnce, jobs
  <2>5. NoneIsLost'
    <3>1. \A j \in Jobs : Queued(j) => Queued(j)'
      BY <1>3, <2>1 DEF Queued
    <3>2. \A j \in Jobs : Held(j)' = Held(j)
      BY <1>5 DEF Held
    <3>3. QED
      BY <1>1, <2>1, <3>1, <3>2 DEF IInv, PlacesInv, NoneIsLost, jobs
  <2>6. QED
    BY <2>2, <2>3, <2>4, <2>5 DEF PlacesInv
<1>7. TriedInv'
  BY <1>1, <1>2, FrameTried DEF Over, Busy, jobs
<1>8. CountInv'
  <2>1. Holders' = Holders
    BY <1>5 DEF Holders
  <2>2. Cardinality(dropped) \in Nat /\ dropped' = dropped
    BY <1>1, FS_CardinalityType DEF IInv, CountInv, jobs
  <2>3. unfinished' >= Len(work_queue') + Cardinality(Holders) + Cardinality(dropped)
    BY <1>1, <1>3, <2>2, HoldersFinite, SMT DEF IInv, CountInv, TypeOK
  <2>4. QED
    BY <2>1, <2>2, <2>3 DEF IInv, CountInv
<1>9. QED
  BY <1>2, <1>4, <1>6, <1>7, <1>8 DEF IInv

LEMMA GetJob ==
  ASSUME IInv, NEW t \in Threads, Get(t), Head(work_queue) # Pill
  PROVE  IInv'
<1> DEFINE j == Head(work_queue)
           w == [thread[t] EXCEPT !.pc = "emit", !.job = j]
<1>1. thread[t].pc = "get" /\ work_queue # <<>> /\ work_queue' = Tail(work_queue)
      /\ thread' = [thread EXCEPT ![t] = w]
      /\ UNCHANGED <<env, running, unfinished, spawned, main, jobs, faults, stops>>
  BY DEF Get
<1>3. /\ work_queue' \in Seq(Jobs \cup {Pill})
      /\ Len(work_queue) \in Nat /\ Len(work_queue) > 0
      /\ Len(work_queue') = Len(work_queue) - 1
      /\ 1 \in 1..Len(work_queue)
      /\ j = work_queue[1] /\ j \in Jobs
      /\ \A i \in 1..Len(work_queue') :
           work_queue'[i] = work_queue[i + 1] /\ i + 1 \in 1..Len(work_queue) /\ i + 1 # 1
      /\ \A i, k \in 1..Len(work_queue') : i + 1 = k + 1 => i = k
      /\ \A i \in 1..Len(work_queue) : i = 1 \/ (i - 1 \in 1..Len(work_queue')
                                               /\ work_queue'[i - 1] = work_queue[i])
  BY <1>1, TakenOut DEF IInv
<1>4. thread[t] \in Worker /\ thread[t].next = 1 /\ thread[t].job = Nothing
  BY <1>1 DEF IInv, TypeOK, PointsInv, WorkerOK, Worker, Busy
<1>5. w \in Worker /\ WorkerOK(w) /\ w.pc = "emit" /\ w.job = j /\ w.next = 1
  <2>1. w \in Worker /\ w.pc = "emit" /\ w.job = j /\ w.next = 1
    BY <1>3, <1>4 DEF Worker
  <2>2. 1 \in 1..Len(Destinations)
    BY Size, SMT
  <2>3. j # Nothing
    BY <1>3, PoolAssumption
  <2>4. QED
    BY <2>1, <2>2, <2>3 DEF WorkerOK, Busy
<1> HIDE DEF j, w
<1>2. /\ thread' \in [Threads -> Worker]
      /\ PointsInv'
      /\ thread'[t] = w /\ \A u \in Threads : u # t => thread'[u] = thread[u]
  BY <1>1, <1>5, Moves
<1>6. TypeOK'
  BY <1>1, <1>2, <1>3 DEF IInv, TypeOK, Worker, jobs
<1>7. Accepted' = Accepted /\ Accepted \subseteq Jobs /\ Pill \notin Jobs /\ Nothing \notin Jobs
  BY <1>1, PoolAssumption DEF Accepted, jobs, IInv, TypeOK, Pill
<1>8. /\ j \in Accepted /\ rows[j] = 0 /\ j \notin dropped
      /\ \A u \in Threads : thread[u].job # j
      /\ \A i \in 1..Len(work_queue') : work_queue'[i] # j
  <2>1. j # Pill
    BY <1>3, <1>7
  <2>2. QED
    BY <2>1, <1>3 DEF IInv, PlacesInv, QueuedIsNew, QueuedOnce
<1>9. PlacesInv'
  <2>1. QueuedOnce'
    <3>1. SUFFICES ASSUME NEW i \in 1..Len(work_queue'), NEW k \in 1..Len(work_queue'),
                          work_queue'[i] # Pill, work_queue'[i] = work_queue'[k]
                   PROVE  i = k
      BY DEF QueuedOnce
    <3>2. i + 1 = k + 1
      BY <1>3, <3>1 DEF IInv, PlacesInv, QueuedOnce
    <3>3. QED
      BY <1>3, <3>2
  <2>2. QueuedIsNew'
    <3>1. SUFFICES ASSUME NEW i \in 1..Len(work_queue'), work_queue'[i] # Pill
                   PROVE  /\ work_queue'[i] \in Accepted' /\ rows'[work_queue'[i]] = 0
                          /\ work_queue'[i] \notin dropped'
                          /\ \A u \in Threads : thread'[u].job # work_queue'[i]
      BY DEF QueuedIsNew
    <3>2. /\ work_queue'[i] \in Accepted /\ rows[work_queue'[i]] = 0
          /\ work_queue'[i] \notin dropped
          /\ \A u \in Threads : thread[u].job # work_queue'[i]
      BY <1>3, <3>1 DEF IInv, PlacesInv, QueuedIsNew
    <3>3. \A u \in Threads : thread'[u].job # work_queue'[i]
      BY <1>2, <1>5, <1>8, <3>2
    <3>4. QED
      BY <1>1, <1>7, <3>2, <3>3 DEF jobs
  <2>3. HeldOnce'
    <3>1. SUFFICES ASSUME NEW u \in Threads, thread'[u].job # Nothing
                   PROVE  /\ thread'[u].job \in Accepted /\ thread'[u].job \notin dropped
                          /\ rows[thread'[u].job] = IF thread'[u].pc = "record" THEN 1 ELSE 0
                          /\ \A v \in Threads : thread'[v].job = thread'[u].job => v = u
      BY <1>1, <1>7 DEF HeldOnce, jobs
    <3>2. CASE u = t
      BY <3>2, <1>2, <1>5, <1>8
    <3>3. CASE u # t
      <4>1. thread'[u] = thread[u] /\ thread[u].job # j
        BY <3>3, <1>2, <1>8
      <4>2. /\ thread[u].job \in Accepted /\ thread[u].job \notin dropped
            /\ rows[thread[u].job] = IF thread[u].pc = "record" THEN 1 ELSE 0
            /\ \A v \in Threads : thread[v].job = thread[u].job => v = u
        BY <3>1, <4>1 DEF IInv, PlacesInv, HeldOnce
      <4>3. QED
        BY <4>1, <4>2, <1>2, <1>5
    <3>4. QED
      BY <3>2, <3>3
  <2>4. NoneIsLost'
    <3>1. \A x \in Jobs : Queued(x) => Queued(x)' \/ x = j
      BY <1>3, <1>7 DEF Queued
    <3>2. ASSUME NEW x \in Jobs, Held(x) \/ x = j PROVE Held(x)'
      <4>1. CASE x = j
        BY <4>1, <1>2, <1>5 DEF Held
      <4>2. CASE Held(x)
        BY <4>2, <1>2, <1>4, <1>7 DEF Held
      <4>3. QED
        BY <3>2, <4>1, <4>2
    <3>3. QED
      BY <1>1, <1>7, <3>1, <3>2 DEF IInv, PlacesInv, NoneIsLost, jobs
  <2>5. QED
    BY <2>1, <2>2, <2>3, <2>4 DEF PlacesInv
<1>10. TriedInv'
  <2>1. Tried' = Tried
    BY <1>1 DEF Tried, jobs
  <2>2. 1..(1 - 1) = {}
    BY SMT
  <2>3. QED
    BY <1>1, <1>2, <1>5, <2>1, <2>2 DEF IInv, TriedInv, Tried, jobs
<1>11. CountInv'
  <2>1. Holders' = Holders \cup {t} /\ t \notin Holders
    BY <1>2, <1>4, <1>5, <1>3, <1>7 DEF Holders
  <2>2. Cardinality(Holders') = Cardinality(Holders) + 1
    BY <2>1, HoldersFinite, FS_AddElement
  <2>3. Cardinality(dropped) \in Nat /\ dropped' = dropped
    BY <1>1, FS_CardinalityType DEF IInv, CountInv, jobs
  <2>4. unfinished' >= Len(work_queue') + Cardinality(Holders') + Cardinality(dropped)
    BY <1>1, <1>3, <2>2, <2>3, HoldersFinite, SMT DEF IInv, CountInv, TypeOK
  <2>5. QED
    BY <2>3, <2>4 DEF IInv, CountInv
<1>12. QED
  BY <1>2, <1>6, <1>9, <1>10, <1>11 DEF IInv

LEMMA EmitStep ==
  ASSUME IInv, NEW t \in Threads, Emit(t)
  PROVE  IInv'
<1> DEFINE j == thread[t].job
           n == thread[t].next
           d == Destinations[n]
           w == [thread[t] EXCEPT !.pc = EmitNext(t), !.next = @ + 1]
<1>1. /\ thread[t].pc = "emit"
      /\ \/ delivered' = [delivered EXCEPT ![j] = @ \cup {d}] /\ missed' = missed
         \/ missed' = [missed EXCEPT ![j] = @ \cup {d}] /\ delivered' = delivered
      /\ thread' = [thread EXCEPT ![t] = w]
      /\ UNCHANGED <<env, running, work_queue, unfinished, spawned, main,
                     submitted, refused, rows, dropped, stops>>
  <2>1. thread[t].pc = "emit" /\ thread' = [thread EXCEPT ![t] = w]
    BY DEF Emit
  <2>2. \/ delivered' = [delivered EXCEPT ![j] = @ \cup {d}] /\ missed' = missed
        \/ missed' = [missed EXCEPT ![j] = @ \cup {d}] /\ delivered' = delivered
    BY DEF Emit
  <2>3. UNCHANGED <<env, running, work_queue, unfinished, spawned, main,
                    submitted, refused, rows, dropped, stops>>
    BY DEF Emit
  <2>4. QED
    BY <2>1, <2>2, <2>3
<1>2. thread[t] \in Worker /\ n \in 1..Len(Destinations) /\ j \in Jobs
  BY <1>1 DEF IInv, TypeOK, PointsInv, WorkerOK, Worker, Busy
<1>3. /\ n + 1 \in 1..(Len(Destinations) + 1)
      /\ n # Len(Destinations) => n + 1 \in 1..Len(Destinations)
      /\ \A i \in 1..((n + 1) - 1) : i = n \/ i \in 1..(n - 1)
      /\ n = Len(Destinations) => \A i \in 1..Len(Destinations) : i = n \/ i \in 1..(n - 1)
      /\ Len(Destinations) \in Nat /\ DOMAIN Destinations = 1..Len(Destinations)
  BY <1>2, Size, PoolAssumption, SMT
<1>4. d \in AllDestinations
  BY <1>2, <1>3 DEF AllDestinations, ToSet
<1>5. /\ w \in Worker /\ w.job = j /\ w.next = n + 1
      /\ w.pc = IF n = Len(Destinations) THEN "log" ELSE "emit"
  BY <1>2, <1>3 DEF Worker, EmitNext
<1>6. WorkerOK(w)
  <2>1. j # Nothing
    BY <1>2, PoolAssumption
  <2>2. QED
    BY <2>1, <1>3, <1>5 DEF WorkerOK, Busy
<1>t. /\ delivered \in [Jobs -> SUBSET AllDestinations] /\ missed \in [Jobs -> SUBSET AllDestinations]
  BY DEF IInv, TypeOK
<1>7. /\ d \in Tried'[j] /\ \A x \in Jobs : Tried[x] \subseteq Tried'[x]
      /\ delivered' \in [Jobs -> SUBSET AllDestinations]
      /\ missed' \in [Jobs -> SUBSET AllDestinations]
  <2>1. CASE delivered' = [delivered EXCEPT ![j] = @ \cup {d}] /\ missed' = missed
    BY <2>1, <1>t, <1>2, <1>4 DEF Tried
  <2>2. CASE missed' = [missed EXCEPT ![j] = @ \cup {d}] /\ delivered' = delivered
    BY <2>2, <1>t, <1>2, <1>4 DEF Tried
  <2>3. QED
    BY <1>1, <2>1, <2>2
<1>8. faults' \in 0..MaxFaults
  BY PoolAssumption, SMT DEF Emit, Fault, IInv, TypeOK
<1> HIDE DEF w
<1>9. /\ thread' \in [Threads -> Worker]
      /\ PointsInv'
      /\ thread'[t] = w /\ \A u \in Threads : u # t => thread'[u] = thread[u]
  BY <1>1, <1>5, <1>6, Moves
<1>10. TypeOK'
  BY <1>1, <1>7, <1>8, <1>9 DEF IInv, TypeOK, Worker
<1>11. PlacesInv' /\ CountInv'
  <2>1. \A u \in Threads : /\ thread'[u].job = thread[u].job
                           /\ (thread'[u].pc = "record") = (thread[u].pc = "record")
    BY <1>1, <1>5, <1>9
  <2>2. QED
    BY <2>1, <1>1, FramePlaces
<1>12. TriedInv'
  <2>1. \A u \in Threads : thread[u].pc \in Busy => thread[u].job \in Jobs
    BY DEF IInv, TypeOK, PointsInv, WorkerOK
  <2>2. ASSUME NEW u \in Threads, u # t
        PROVE  /\ thread'[u].pc = "emit" =>
                    \A i \in 1..(thread'[u].next - 1) : Destinations[i] \in Tried'[thread'[u].job]
               /\ thread'[u].pc \in {"log", "record"} =>
                    AllDestinations \subseteq Tried'[thread'[u].job]
    <3>1. thread'[u] = thread[u]
      BY <2>2, <1>9
    <3>2. thread[u].pc \in Busy => Tried[thread[u].job] \subseteq Tried'[thread[u].job]
      BY <2>1, <1>7
    <3>3. QED
      BY <3>1, <3>2 DEF IInv, TriedInv, Busy
  <2>3. \A i \in 1..(n - 1) : Destinations[i] \in Tried'[j]
    BY <1>1, <1>2, <1>7 DEF IInv, TriedInv
  <2>4. /\ w.pc = "emit" => \A i \in 1..(w.next - 1) : Destinations[i] \in Tried'[j]
        /\ w.pc = "log" => \A i \in 1..Len(Destinations) : Destinations[i] \in Tried'[j]
    BY <2>3, <1>3, <1>5, <1>7
  <2>5. w.pc = "log" => AllDestinations \subseteq Tried'[j]
    BY <2>4, <1>3 DEF AllDestinations, ToSet
  <2>6. w.pc # "record" /\ thread'[t].job = j /\ thread'[t].pc = w.pc /\ thread'[t].next = w.next
    BY <1>5, <1>9
  <2>7. \A x \in Jobs : rows'[x] > 0 => AllDestinations \subseteq Tried'[x]
    BY <1>1, <1>7 DEF IInv, TriedInv
  <2> HIDE DEF j, n, d
  <2>8. \A u \in Threads :
           /\ thread'[u].pc = "emit" =>
                \A i \in 1..(thread'[u].next - 1) : Destinations[i] \in Tried'[thread'[u].job]
           /\ thread'[u].pc \in {"log", "record"} =>
                AllDestinations \subseteq Tried'[thread'[u].job]
    BY <2>2, <2>4, <2>5, <2>6
  <2>9. QED
    BY <2>7, <2>8 DEF TriedInv
<1>13. QED
  BY <1>9, <1>10, <1>11, <1>12 DEF IInv

LEMMA LogStep ==
  ASSUME IInv, NEW t \in Threads, Log(t)
  PROVE  IInv'
<1> DEFINE j == thread[t].job
           w == [thread[t] EXCEPT !.pc = "record"]
<1>1. /\ thread[t].pc = "log" /\ rows' = [rows EXCEPT ![j] = @ + 1]
      /\ thread' = [thread EXCEPT ![t] = w]
      /\ UNCHANGED <<env, running, work_queue, unfinished, spawned, main,
                     submitted, refused, delivered, missed, dropped, faults, stops>>
  BY DEF Log, GoTo
<1>2. thread[t] \in Worker /\ j \in Jobs /\ j # Nothing
  BY <1>1, PoolAssumption DEF IInv, TypeOK, PointsInv, WorkerOK, Worker, Busy
<1>3. w \in Worker /\ WorkerOK(w) /\ w.pc = "record" /\ w.job = j
  BY <1>2 DEF Worker, WorkerOK, Busy
<1> HIDE DEF w
<1>4. /\ thread' \in [Threads -> Worker]
      /\ PointsInv'
      /\ thread'[t] = w /\ \A u \in Threads : u # t => thread'[u] = thread[u]
  BY <1>1, <1>3, Moves
<1>5. /\ rows[j] = 0 /\ j \in Accepted /\ j \notin dropped
      /\ \A u \in Threads : thread[u].job = j => u = t
  BY <1>1, <1>2 DEF IInv, PlacesInv, HeldOnce
<1>6. rows' \in [Jobs -> Nat] /\ rows'[j] = 1 /\ \A x \in Jobs : x # j => rows'[x] = rows[x]
  <2>1. rows \in [Jobs -> Nat]
    BY DEF IInv, TypeOK
  <2>2. rows[j] + 1 = 1
    BY <1>5, SMT
  <2>3. QED
    BY <2>1, <2>2, <1>1, <1>2
<1>7. TypeOK'
  BY <1>1, <1>4, <1>6 DEF IInv, TypeOK, Worker
<1>8. \A u \in Threads : thread'[u].job = thread[u].job
  BY <1>3, <1>4
<1>9. PlacesInv'
  <2>1. Accepted' = Accepted /\ Accepted \subseteq Jobs
    BY <1>1 DEF Accepted, IInv, TypeOK
  <2>2. QueuedOnce'
    BY <1>1 DEF IInv, PlacesInv, QueuedOnce
  <2>3. QueuedIsNew'
    <3>1. \A i \in 1..Len(work_queue) : work_queue[i] # Pill => work_queue[i] # j
      BY DEF IInv, PlacesInv, QueuedIsNew
    <3>2. QED
      BY <1>1, <1>6, <1>8, <2>1, <3>1 DEF IInv, PlacesInv, QueuedIsNew
  <2>4. HeldOnce'
    <3>1. ASSUME NEW u \in Threads, u # t, thread[u].job # Nothing
          PROVE  /\ thread'[u].pc = thread[u].pc
                 /\ thread[u].job # j /\ rows'[thread[u].job] = rows[thread[u].job]
      <4>1. thread[u].job # j /\ thread[u].job \in Jobs
        BY <3>1, <1>5 DEF IInv, TypeOK
      <4>2. QED
        BY <3>1, <4>1, <1>4, <1>6
    <3>2. thread'[t].pc = "record"
      BY <1>3, <1>4
    <3>3. QED
      BY <1>1, <1>5, <1>6, <1>8, <2>1, <3>1, <3>2 DEF IInv, PlacesInv, HeldOnce
  <2>5. NoneIsLost'
    <3>1. \A x \in Jobs : Queued(x)' = Queued(x) /\ Held(x)' = Held(x)
      BY <1>1, <1>8 DEF Queued, Held
    <3>2. \A x \in Jobs : rows'[x] \in {0, 1} /\ (x \notin Accepted => rows'[x] = 0)
                        /\ (rows[x] = 1 => rows'[x] = 1)
      BY <1>5, <1>6 DEF IInv, PlacesInv, NoneIsLost
    <3>3. QED
      BY <1>1, <2>1, <3>1, <3>2 DEF IInv, PlacesInv, NoneIsLost
  <2>6. QED
    BY <2>2, <2>3, <2>4, <2>5 DEF PlacesInv
<1>10. TriedInv'
  <2>1. Tried' = Tried
    BY <1>1 DEF Tried
  <2>2. AllDestinations \subseteq Tried[j]
    BY <1>1 DEF IInv, TriedInv
  <2>3. \A x \in Jobs : rows'[x] > 0 => AllDestinations \subseteq Tried[x]
    BY <1>6, <2>2 DEF IInv, TriedInv
  <2>4. QED
    BY <1>3, <1>4, <2>1, <2>2, <2>3 DEF IInv, TriedInv, Tried
<1>11. CountInv'
  <2>1. Holders' = Holders
    BY <1>8 DEF Holders
  <2>2. QED
    BY <1>1, <2>1 DEF IInv, CountInv
<1>12. QED
  BY <1>4, <1>7, <1>9, <1>10, <1>11 DEF IInv

\* A worker that lets go of its job, with its row or into the handler of exceptions.
LEMMA LetsGo ==
  ASSUME IInv, NEW t \in Threads, thread[t].pc \in Busy,
         thread' = [thread EXCEPT ![t] = Over],
         UNCHANGED <<env, running, work_queue, spawned, main,
                     submitted, refused, delivered, missed, rows, stops>>,
         faults' \in 0..MaxFaults,
         \/ /\ unfinished' = unfinished - 1 /\ dropped' = dropped
            /\ rows[thread[t].job] = 1
         \/ unfinished' = unfinished /\ dropped' = dropped \cup {thread[t].job}
  PROVE  IInv'
<1> DEFINE j == thread[t].job
<1>1. j \in Jobs /\ j # Nothing
  BY PoolAssumption DEF IInv, TypeOK, PointsInv, WorkerOK, Busy
<1>2. j \in Accepted /\ j \notin dropped /\ \A u \in Threads : thread[u].job = j => u = t
  BY <1>1 DEF IInv, PlacesInv, HeldOnce
<1>3. /\ thread' \in [Threads -> Worker]
      /\ PointsInv'
      /\ thread'[t] = Over /\ \A u \in Threads : u # t => thread'[u] = thread[u]
  <2>1. thread[t].pc # "none"
    BY DEF Busy
  <2>2. QED
    BY <2>1, OverOK, Moves
<1>4. Over.job = Nothing /\ Over.pc = "ended"
  BY DEF Over
<1>5. Accepted' = Accepted /\ Accepted \subseteq Jobs /\ Accepted \subseteq submitted
  BY DEF Accepted, IInv, TypeOK
<1>6. /\ Holders' = Holders \ {t} /\ t \in Holders
  BY <1>1, <1>3, <1>4 DEF Holders
<1>7. Cardinality(Holders') = Cardinality(Holders) - 1 /\ Cardinality(Holders) \in Nat
  BY <1>6, HoldersFinite, FS_RemoveElement
<1>8. IsFiniteSet(dropped) /\ Cardinality(dropped) \in Nat
  BY FS_CardinalityType DEF IInv, CountInv
<1>9. /\ dropped \subseteq dropped' /\ \A x \in dropped' : x \in dropped \/ x = j
      /\ rows[j] = 1 \/ j \in dropped'
  OBVIOUS
<1>t. unfinished \in Nat /\ Len(work_queue) \in Nat
      /\ unfinished >= Len(work_queue) + Cardinality(Holders) + Cardinality(dropped)
  BY SMT DEF IInv, TypeOK, CountInv
<1>10. CountInv' /\ unfinished' \in Nat
  <2>1. CASE unfinished' = unfinished - 1 /\ dropped' = dropped
    <3>1. /\ unfinished' >= Len(work_queue') + Cardinality(Holders') + Cardinality(dropped')
          /\ unfinished' \in Nat
      <4>1. Cardinality(Holders') \in Nat
        BY <1>6, HoldersFinite, FS_Subset, FS_CardinalityType
      <4>2. QED
        BY <2>1, <4>1, <1>7, <1>8, <1>t, SMT
    <3>2. QED
      BY <2>1, <3>1, <1>8 DEF CountInv
  <2>2. CASE unfinished' = unfinished /\ dropped' = dropped \cup {j}
    <3>1. IsFiniteSet(dropped') /\ Cardinality(dropped') = Cardinality(dropped) + 1
      BY <2>2, <1>2, <1>8, FS_AddElement
    <3>2. unfinished' >= Len(work_queue') + Cardinality(Holders') + Cardinality(dropped')
      BY <2>2, <3>1, <1>7, <1>8, <1>t, SMT
    <3>3. QED
      BY <2>2, <3>1, <3>2, <1>t DEF CountInv
  <2>3. QED
    BY <2>1, <2>2
<1>11. TypeOK'
  <2>1. dropped' \subseteq submitted
    BY <1>2, <1>5, <1>9 DEF IInv, TypeOK
  <2>2. QED
    BY <2>1, <1>3, <1>10 DEF IInv, TypeOK, Worker
<1>12. PlacesInv'
  <2>1. QueuedOnce'
    BY DEF IInv, PlacesInv, QueuedOnce
  <2>2. QueuedIsNew'
    <3>1. ASSUME NEW i \in 1..Len(work_queue), work_queue[i] # Pill
          PROVE  /\ work_queue[i] \in Accepted /\ rows[work_queue[i]] = 0
                 /\ work_queue[i] \notin dropped'
                 /\ \A u \in Threads : thread'[u].job # work_queue[i]
      <4>1. /\ work_queue[i] \in Accepted /\ rows[work_queue[i]] = 0
            /\ work_queue[i] \notin dropped
            /\ \A u \in Threads : thread[u].job # work_queue[i]
        BY <3>1 DEF IInv, PlacesInv, QueuedIsNew
      <4>2. QED
        BY <3>1, <4>1, <1>3, <1>4, <1>9 DEF Pill
    <3>2. QED
      BY <3>1, <1>5 DEF QueuedIsNew
  <2>3. HeldOnce'
    <3>1. ASSUME NEW u \in Threads, thread'[u].job # Nothing
          PROVE  /\ thread'[u].job \in Accepted /\ thread'[u].job \notin dropped'
                 /\ rows[thread'[u].job] = IF thread'[u].pc = "record" THEN 1 ELSE 0
                 /\ \A v \in Threads : thread'[v].job = thread'[u].job => v = u
      <4>1. u # t /\ thread'[u] = thread[u]
        BY <3>1, <1>3, <1>4
      <4>2. /\ thread[u].job \in Accepted /\ thread[u].job \notin dropped
            /\ rows[thread[u].job] = IF thread[u].pc = "record" THEN 1 ELSE 0
            /\ \A v \in Threads : thread[v].job = thread[u].job => v = u
        BY <3>1, <4>1 DEF IInv, PlacesInv, HeldOnce
      <4>3. thread[u].job # j
        BY <4>1, <1>2
      <4>4. \A v \in Threads : thread'[v].job = thread[u].job => v = u
        BY <3>1, <4>1, <4>2, <1>3, <1>4
      <4>5. QED
        BY <4>1, <4>2, <4>3, <4>4, <1>9
    <3>2. QED
      BY <3>1, <1>5 DEF HeldOnce
  <2>4. NoneIsLost'
    <3>1. \A x \in Jobs : (Queued(x) => Queued(x)') /\ (Held(x) => x = j \/ Held(x)')
      <4>1. \A x \in Jobs : Queued(x) => Queued(x)'
        BY DEF Queued
      <4>2. ASSUME NEW x \in Jobs, Held(x), x # j PROVE Held(x)'
        BY <4>2, <1>3 DEF Held
      <4>3. QED
        BY <4>1, <4>2
    <3>2. \A x \in Jobs : /\ rows'[x] \in {0, 1}
                          /\ x \notin Accepted' => rows'[x] = 0 /\ x \notin dropped'
      <4>1. \A x \in Jobs : /\ rows[x] \in {0, 1}
                            /\ x \notin Accepted => rows[x] = 0 /\ x \notin dropped
        BY DEF IInv, PlacesInv, NoneIsLost
      <4>2. QED
        BY <4>1, <1>2, <1>5, <1>9
    <3>3. \A x \in Accepted' : Queued(x)' \/ Held(x)' \/ rows'[x] = 1 \/ x \in dropped'
      <4>1. \A x \in Accepted : Queued(x) \/ Held(x) \/ rows[x] = 1 \/ x \in dropped
        BY DEF IInv, PlacesInv, NoneIsLost
      <4>2. QED
        BY <4>1, <3>1, <1>5, <1>9
    <3>4. QED
      BY <3>2, <3>3 DEF NoneIsLost
  <2>5. QED
    BY <2>1, <2>2, <2>3, <2>4 DEF PlacesInv
<1>13. TriedInv'
  BY <1>3, <1>4, FrameTried DEF Busy
<1>14. QED
  BY <1>3, <1>10, <1>11, <1>12, <1>13 DEF IInv

LEMMA NextIInv == IInv /\ [Next]_vars => IInv'
<1> SUFFICES ASSUME IInv, [Next]_vars PROVE IInv'
  OBVIOUS
<1>1. CASE UNCHANGED vars
  <2>1. TypeOK'
    BY <1>1 DEF IInv, TypeOK, vars, jobs
  <2>2. PointsInv'
    BY <1>1 DEF IInv, PointsInv, vars
  <2>3. PlacesInv' /\ CountInv'
    BY <1>1, FramePlaces DEF vars, jobs
  <2>4. TriedInv'
    BY <1>1, FrameTried DEF vars, jobs
  <2>5. QED
    BY <2>1, <2>2, <2>3, <2>4 DEF IInv
<1>2. CASE StartWorkers \/ StopWorkers \/ Join \/ (\E j \in Jobs : Submit(j)) \/ MainStep
  BY <1>2, MainStepIInv DEF MainStep
<1>3. ASSUME NEW t \in Threads, WorkerStep(t) PROVE IInv'
  <2>1. CASE CheckRunning(t) \/ GetTimesOut(t)
    BY <2>1, IdleStep
  <2>2. CASE Get(t)
    BY <2>2, GetPill, GetJob
  <2>3. CASE Emit(t)
    BY <2>3, EmitStep
  <2>4. CASE Log(t)
    BY <2>4, LogStep
  <2>5. CASE TaskDone(t)
    <3>1. thread[t].job # Nothing
      BY <2>5 DEF TaskDone, IInv, PointsInv, WorkerOK, Busy
    <3>2. rows[thread[t].job] = 1 /\ faults \in 0..MaxFaults
      BY <2>5, <3>1 DEF TaskDone, IInv, PlacesInv, HeldOnce, TypeOK
    <3>3. QED
      BY <2>5, <3>2, LetsGo DEF TaskDone, End, Over, Busy, jobs
  <2>6. CASE Raise(t)
    <3>1. faults' \in 0..MaxFaults
      BY <2>6, PoolAssumption, SMT DEF Raise, Fault, IInv, TypeOK
    <3>2. thread[t].pc \in Busy
      BY <2>6 DEF Raise, Busy
    <3>3. QED
      BY <2>6, <3>1, <3>2, LetsGo DEF Raise, HandleError, End, Over
  <2>7. QED
    BY <1>3, <2>1, <2>2, <2>3, <2>4, <2>5, <2>6 DEF WorkerStep
<1>4. QED
  BY <1>1, <1>2, <1>3 DEF Next

LEMMA IInvHolds == Spec => []IInv
  BY InitIInv, NextIInv, PTL DEF Spec

\* No accepted job is lost or deployed twice, by any number of stops, starts, pills and
\* exceptions, and each logged job has been sent to every destination or is known to
\* have missed it.
THEOREM JobsStayAccountedFor == Spec => []DeploymentsAreAccountedFor
<1>1. IInv => JobsAreAccountedFor
  <2> SUFFICES ASSUME IInv PROVE JobsAreAccountedFor
    OBVIOUS
  <2>a. Accepted \subseteq Jobs /\ Nothing \notin Jobs
    BY PoolAssumption DEF Accepted, IInv, TypeOK
  <2>1. ASSUME NEW j \in Accepted
        PROVE  Cardinality({p \in {"queued", "held", "logged", "dropped"} :
                              \/ p = "queued"  /\ Queued(j)
                              \/ p = "held"    /\ Held(j)
                              \/ p = "logged"  /\ Logged(j)
                              \/ p = "dropped" /\ j \in dropped}) = 1
    <3> DEFINE At(p) == \/ p = "queued"  /\ Queued(j)
                        \/ p = "held"    /\ Held(j)
                        \/ p = "logged"  /\ Logged(j)
                        \/ p = "dropped" /\ j \in dropped
               S == {p \in {"queued", "held", "logged", "dropped"} : At(p)}
    <3>1. Queued(j) => ~Held(j) /\ rows[j] = 0 /\ j \notin dropped
      BY <2>a DEF IInv, PlacesInv, QueuedIsNew, Queued, Held, Pill
    <3>2. Held(j) => j \notin dropped
      BY <2>a DEF IInv, PlacesInv, HeldOnce, Held
    <3>3. Queued(j) \/ Held(j) \/ rows[j] = 1 \/ j \in dropped
      BY DEF IInv, PlacesInv, NoneIsLost
    <3>4. Logged(j) <=> rows[j] = 1 /\ ~Held(j) /\ j \notin dropped
      <4>1. rows[j] \in {0, 1} /\ ~(0 > 0) /\ 1 > 0 /\ 0 # 1
        BY <2>a, SMT DEF IInv, PlacesInv, NoneIsLost
      <4>2. QED
        BY <4>1 DEF Logged
    <3>5. \E q : S = {q}
      <4>1. ASSUME Queued(j) PROVE S = {"queued"}
        <5>1. ~Held(j) /\ ~Logged(j) /\ j \notin dropped
          BY <4>1, <3>1, <3>4
        <5>2. \A p : p \in S <=> p = "queued"
          BY <4>1, <5>1, Zenon
        <5>3. QED
          BY <5>2
      <4>2. ASSUME Held(j) PROVE S = {"held"}
        <5>1. ~Queued(j) /\ ~Logged(j) /\ j \notin dropped
          BY <4>2, <3>1, <3>2, <3>4
        <5>2. \A p : p \in S <=> p = "held"
          BY <4>2, <5>1, Zenon
        <5>3. QED
          BY <5>2
      <4>3. ASSUME ~Queued(j), ~Held(j), j \in dropped PROVE S = {"dropped"}
        <5>1. ~Logged(j)
          BY <4>3, <3>4
        <5>2. \A p : p \in S <=> p = "dropped"
          BY <4>3, <5>1, Zenon
        <5>3. QED
          BY <5>2
      <4>4. ASSUME ~Queued(j), ~Held(j), j \notin dropped PROVE S = {"logged"}
        <5>1. Logged(j)
          BY <4>4, <3>3, <3>4
        <5>2. \A p : p \in S <=> p = "logged"
          BY <4>4, <5>1, Zenon
        <5>3. QED
          BY <5>2
      <4> HIDE DEF S
      <4>5. QED
        BY <4>1, <4>2, <4>3, <4>4
    <3> HIDE DEF S
    <3>6. Cardinality(S) = 1
      BY <3>5, FS_Singleton
    <3>7. QED
      BY <3>6 DEF S
  <2>2. \A j \in Jobs :
          /\ rows[j] <= 1
          /\ \A i, k \in 1..Len(work_queue) : work_queue[i] = j /\ work_queue[k] = j => i = k
          /\ \A t, u \in Threads : thread[t].job = j /\ thread[u].job = j => t = u
    <3>1. \A j \in Jobs : rows[j] <= 1
      <4>1. \A j \in Jobs : rows[j] \in {0, 1}
        BY DEF IInv, PlacesInv, NoneIsLost
      <4>2. QED
        BY <4>1, SMT
    <3>2. QED
      BY <3>1, <2>a DEF IInv, PlacesInv, QueuedOnce, HeldOnce, Pill
  <2>3. \A j \in Jobs \ Accepted : ~Queued(j) /\ ~Held(j) /\ rows[j] = 0
    BY <2>a DEF IInv, PlacesInv, QueuedIsNew, HeldOnce, NoneIsLost, Queued, Held, Pill
  <2>4. QED
    BY <2>1, <2>2, <2>3 DEF JobsAreAccountedFor
<1>2. IInv => EveryDestinationIsTried
  BY DEF IInv, TypeOK, TriedInv, Tried, EveryDestinationIsTried
<1>3. IInv => DeploymentsAreAccountedFor
  BY <1>1, <1>2 DEF DeploymentsAreAccountedFor, IInv
<1>4. QED
  BY <1>3, IInvHolds, PTL

\* Whatever pills are left, an exception or a job that is not done leaves the count above 0.
LEMMA AllIsLogged ==
  ASSUME IInv, JoinReturns, NEW j \in Accepted
  PROVE  ~Queued(j) /\ Logged(j)
<1>1. Cardinality(dropped) \in Nat /\ IsFiniteSet(dropped)
  BY FS_CardinalityType DEF IInv, CountInv
<1>2. Len(work_queue) = 0 /\ Cardinality(Holders) = 0 /\ Cardinality(dropped) = 0
  BY <1>1, HoldersFinite, SMT DEF JoinReturns, IInv, TypeOK, CountInv
<1>3. Holders = {} /\ dropped = {}
  BY <1>1, <1>2, HoldersFinite, FS_EmptySet
<1>4. ~Queued(j)
  <2>1. 1..0 = {}
    BY SMT
  <2>2. QED
    BY <2>1, <1>2 DEF Queued
<1>5. ~Held(j)
  <2>1. j # Nothing
    BY PoolAssumption DEF Accepted, IInv, TypeOK
  <2>2. QED
    BY <2>1, <1>3 DEF Held, Holders
<1>6. rows[j] = 1
  BY <1>3, <1>4, <1>5 DEF IInv, PlacesInv, NoneIsLost
<1>7. rows[j] > 0
  BY <1>6, SMT
<1>8. QED
  BY <1>3, <1>4, <1>5, <1>7 DEF Logged

\* join only returns when each accepted job has its row: an exception or a pill may keep
\* it from returning, and never lets it return early.
THEOREM JoinWaits == Spec => JoinMeansLogged
<1>1. IInv => [JoinReturns => \A j \in Accepted : Logged(j)]_vars
  BY AllIsLogged
<1>2. QED
  BY <1>1, IInvHolds, PTL DEF JoinMeansLogged

-----------------------------------------------------------------------------
(* The pool implements the queue of jobs.                                  *)

\* What each state of a job says of it: the chain of JobState leaves nothing open.
LEMMA StateIs ==
  ASSUME IInv, NEW j \in Jobs
  PROVE  /\ JobState(j) = "new" <=> j \notin submitted
         /\ JobState(j) = "refused" <=> j \in refused
         /\ JobState(j) = "waiting" <=> Queued(j)
         /\ JobState(j) = "taken" <=> Held(j)
         /\ JobState(j) = "failed" <=> j \in dropped
         /\ JobState(j) \in {"new", "refused", "waiting", "taken", "failed", "done"}
<1>1. refused \subseteq submitted /\ j # Nothing
  BY PoolAssumption DEF IInv, TypeOK
<1>2. Queued(j) => j \in Accepted /\ ~Held(j) /\ j \notin dropped
  BY <1>1 DEF IInv, PlacesInv, QueuedIsNew, Queued, Held, Pill
<1>3. Held(j) => j \in Accepted /\ j \notin dropped
  BY <1>1 DEF IInv, PlacesInv, HeldOnce, Held
<1>4. /\ j \in dropped => j \in Accepted
      /\ j \in Accepted => Queued(j) \/ Held(j) \/ rows[j] = 1 \/ j \in dropped
  BY DEF IInv, PlacesInv, NoneIsLost
<1>5. rows[j] = 1 /\ ~Held(j) /\ j \notin dropped => Logged(j)
  BY DEF Logged
<1>6. QED
  BY <1>1, <1>2, <1>3, <1>4, <1>5 DEF JobState, Accepted

\* The place of a job in a step: only one that is neither waiting, held nor dropped is
\* judged by its row.
LEMMA SameState ==
  ASSUME NEW j \in Jobs, UNCHANGED <<submitted, refused, dropped>>,
         Queued(j)' = Queued(j), Held(j)' = Held(j), Held(j) \/ rows'[j] = rows[j]
  PROVE  JobState(j)' = JobState(j)
<1>1. ~Held(j) => Logged(j)' = Logged(j)
  BY DEF Logged
<1>2. QED
  BY <1>1 DEF JobState

\* A step that moves no job and changes no waiting is not to be seen.
LEMMA NotSeen ==
  ASSUME UNCHANGED <<submitted, refused, dropped>>, (main'.do = "join") = (main.do = "join"),
         \A j \in Jobs : /\ Queued(j)' = Queued(j) /\ Held(j)' = Held(j)
                         /\ Held(j) \/ rows'[j] = rows[j]
                         /\ InFront(j)' = InFront(j)
  PROVE  UNCHANGED Queue!queueVars
<1>1. \A j \in Jobs : JobState(j)' = JobState(j)
  BY SameState
<1>2. QED
  BY <1>1 DEF Queue!queueVars

\* Where the queue and the jobs of the threads stay as they are, so does the place of each job.
LEMMA SamePlaces ==
  ASSUME UNCHANGED work_queue, \A t \in Threads : thread'[t].job = thread[t].job
  PROVE  \A j \in Jobs : Queued(j)' = Queued(j) /\ Held(j)' = Held(j) /\ InFront(j)' = InFront(j)
  BY DEF Queued, Held, InFront

\* A step that changes the state of one job and the order of none.
LEMMA OneBecomes ==
  ASSUME NEW j \in Jobs, NEW old, NEW new, (main'.do = "join") = (main.do = "join"),
         JobState(j) = old, JobState(j)' = new,
         \A k \in Jobs : k # j => JobState(k)' = JobState(k)
  PROVE  Queue!Becomes(j, old, new)
  BY DEF Queue!Becomes

\* A pill in the queue, put there or taken out, is not to be seen.
LEMMA PillStep ==
  ASSUME IInv, PutPill \/ (\E t \in Threads : Get(t) /\ Head(work_queue) = Pill)
  PROVE  UNCHANGED Queue!queueVars
<1>0. Pill \notin Jobs
  BY PoolAssumption DEF Pill
<1>1. CASE PutPill
  <2>1. /\ Len(work_queue) \in Nat /\ Len(work_queue') = Len(work_queue) + 1
        /\ \A i \in 1..Len(work_queue) : work_queue'[i] = work_queue[i]
        /\ work_queue'[Len(work_queue) + 1] = Pill
    BY <1>1, Appended DEF PutPill, Put, IInv
  <2>2. \A i \in 1..Len(work_queue') : i \in 1..Len(work_queue) \/ i = Len(work_queue) + 1
    BY <2>1, SMT
  <2>3. 1..Len(work_queue) \subseteq 1..Len(work_queue')
    BY <2>1, SMT
  <2>4. \A j \in Jobs : Queued(j)' = Queued(j) /\ InFront(j)' = InFront(j)
    BY <1>0, <2>1, <2>2, <2>3 DEF Queued, InFront
  <2>5. \A j \in Jobs : Held(j)' = Held(j)
    BY <1>1 DEF PutPill, Held
  <2>6. (main'.do = "join") = (main.do = "join")
    BY <1>1 DEF PutPill, IInv, TypeOK
  <2>7. QED
    BY <1>1, <2>4, <2>5, <2>6, NotSeen DEF PutPill, jobs
<1>2. ASSUME NEW t \in Threads, Get(t), Head(work_queue) = Pill
      PROVE  UNCHANGED Queue!queueVars
  <2>1. /\ work_queue # <<>> /\ work_queue' = Tail(work_queue)
        /\ thread[t].pc = "get" /\ thread' = [thread EXCEPT ![t] = Over]
        /\ UNCHANGED <<main, jobs>>
    BY <1>2 DEF Get, End, Over
  <2>2. /\ Len(work_queue) \in Nat /\ work_queue[1] = Pill
        /\ Len(work_queue') = Len(work_queue) - 1
        /\ \A i \in 1..Len(work_queue') :
             work_queue'[i] = work_queue[i + 1] /\ i + 1 \in 1..Len(work_queue)
        /\ \A i \in 1..Len(work_queue) : i = 1 \/ (i - 1 \in 1..Len(work_queue')
                                                 /\ work_queue'[i - 1] = work_queue[i])
    BY <1>2, <2>1, TakenOut DEF IInv
  <2>3. \A j \in Jobs : Queued(j)' = Queued(j)
    BY <1>0, <2>2 DEF Queued
  <2>4. \A j \in Jobs : InFront(j)' = InFront(j)
    <3> SUFFICES ASSUME NEW j \in Jobs, NEW k \in Jobs
                 PROVE  k \in InFront(j)' <=> k \in InFront(j)
      BY DEF InFront
    <3>1. ASSUME NEW i \in 1..Len(work_queue'), NEW l \in 1..Len(work_queue'), i < l,
                 work_queue'[i] = k, work_queue'[l] = j
          PROVE  k \in InFront(j)
      <4>1. i + 1 < l + 1
        BY <3>1
      <4>2. QED
        BY <2>2, <3>1, <4>1 DEF InFront
    <3>2. ASSUME NEW i \in 1..Len(work_queue), NEW l \in 1..Len(work_queue), i < l,
                 work_queue[i] = k, work_queue[l] = j
          PROVE  k \in InFront(j)'
      <4>1. i # 1 /\ l # 1 /\ i - 1 < l - 1
        BY <1>0, <2>2, <3>2
      <4>2. QED
        BY <2>2, <3>2, <4>1 DEF InFront
    <3>3. QED
      BY <3>1, <3>2 DEF InFront
  <2>5. \A j \in Jobs : Held(j)' = Held(j)
    <3>1. thread[t].job = Nothing
      BY <2>1 DEF IInv, PointsInv, WorkerOK, Busy
    <3>2. \A u \in Threads : thread'[u].job = thread[u].job
      BY <2>1, <3>1 DEF IInv, TypeOK, Over
    <3>3. QED
      BY <3>2 DEF Held
  <2>6. QED
    BY <2>1, <2>3, <2>4, <2>5, NotSeen DEF jobs
<1>3. QED
  BY <1>1, <1>2

\* A job that is submitted is accepted behind those that wait, or refused.
LEMMA SubmitStep ==
  ASSUME IInv, IInv', NEW j \in Jobs, Submit(j)
  PROVE  Queue!QAccept(j) \/ Queue!QRefuse(j)
<1>0. /\ ~(main.do = "join") /\ main' = main /\ j \notin submitted
      /\ submitted' = submitted \cup {j} /\ UNCHANGED <<thread, rows, dropped>>
  BY DEF Submit, Quiet
<1>1. \A k \in Jobs : Held(k)' = Held(k) /\ (k # j => Logged(k)' = Logged(k))
  BY <1>0 DEF Held, Logged
<1>2. JobState(j) = "new"
  BY <1>0, StateIs
<1>3. CASE Refuses(j)
  <2>1. refused' = refused \cup {j} /\ work_queue' = work_queue
    BY <1>3 DEF Submit
  <2>2. \A k \in Jobs : Queued(k)' = Queued(k) /\ InFront(k)' = InFront(k)
    BY <2>1 DEF Queued, InFront
  <2>3. JobState(j)' = "refused"
    BY <1>0, <2>1 DEF JobState
  <2>4. \A k \in Jobs : k # j => JobState(k)' = JobState(k)
    BY <1>0, <1>1, <2>1, <2>2 DEF JobState
  <2>5. Queue!Becomes(j, "new", "refused")
    BY <1>0, <1>2, <2>3, <2>4, OneBecomes
  <2>6. QED
    BY <1>0, <2>2, <2>5 DEF Queue!QRefuse
<1>4. CASE ~Refuses(j)
  <2>1. refused' = refused /\ work_queue' = Append(work_queue, j)
    BY <1>4 DEF Submit, Put
  <2>2. /\ Len(work_queue) \in Nat /\ Len(work_queue') = Len(work_queue) + 1
        /\ \A i \in 1..Len(work_queue) : work_queue'[i] = work_queue[i]
        /\ work_queue'[Len(work_queue) + 1] = j
    BY <2>1, Appended DEF IInv
  <2>3. /\ \A i \in 1..Len(work_queue') : i \in 1..Len(work_queue) \/ i = Len(work_queue) + 1
        /\ 1..Len(work_queue) \subseteq 1..Len(work_queue')
        /\ Len(work_queue) + 1 \in 1..Len(work_queue')
        /\ \A i \in 1..Len(work_queue) : i < Len(work_queue) + 1 /\ ~(Len(work_queue) + 1 < i)
        /\ ~(Len(work_queue) + 1 < Len(work_queue) + 1)
    BY <2>2, SMT
  <2>4. ~Queued(j)
    BY <1>2, StateIs
  <2>5. \A k \in Jobs : Queued(k)' <=> Queued(k) \/ k = j
    BY <2>2, <2>3 DEF Queued
  <2>6. \A k \in Jobs : k # j => InFront(k)' = InFront(k)
    BY <2>2, <2>3 DEF InFront
  <2>7. InFront(j)' = {k \in Jobs : Queued(k)}
    <3>1. \A i \in 1..Len(work_queue) : work_queue[i] # j
      BY <2>4 DEF Queued
    <3>2. QED
      BY <2>2, <2>3, <3>1 DEF InFront, Queued
  <2>8. JobState(j)' = "waiting"
    BY <1>0, <2>1, <2>5 DEF JobState, IInv, TypeOK
  <2>9. \A k \in Jobs : k # j => JobState(k)' = JobState(k)
    BY <1>0, <1>1, <2>1, <2>5 DEF JobState
  <2>10. Queue!Becomes(j, "new", "waiting")
    BY <1>0, <1>2, <2>8, <2>9, OneBecomes
  <2>11. InFront(j)' = {k \in Jobs : JobState(k) = "waiting"}
    BY <2>7, StateIs
  <2>12. QED
    BY <1>0, <2>6, <2>10, <2>11 DEF Queue!QAccept
<1>5. QED
  BY <1>3, <1>4

\* A worker takes the job that is in front of all others.
LEMMA TakeStep ==
  ASSUME IInv, IInv', NEW t \in Threads, Get(t), NEW j, j = Head(work_queue), j # Pill
  PROVE  j \in Jobs /\ Queue!QTake(j)
<1>1. /\ work_queue # <<>> /\ work_queue' = Tail(work_queue)
      /\ thread[t].pc = "get"
      /\ thread' = [thread EXCEPT ![t] = [@ EXCEPT !.pc = "emit", !.job = j]]
      /\ UNCHANGED <<main, submitted, refused, rows, dropped>>
  BY DEF Get, jobs
<1>2. /\ Len(work_queue) \in Nat /\ 1 \in 1..Len(work_queue)
      /\ j = work_queue[1] /\ j \in Jobs
      /\ \A i \in 1..Len(work_queue') :
           work_queue'[i] = work_queue[i + 1] /\ i + 1 \in 1..Len(work_queue) /\ i + 1 # 1
      /\ \A i \in 1..Len(work_queue) : i = 1 \/ (i - 1 \in 1..Len(work_queue')
                                               /\ work_queue'[i - 1] = work_queue[i])
  BY <1>1, TakenOut DEF IInv
<1>3. \A i \in 1..Len(work_queue) : work_queue[i] = j => i = 1
  BY <1>2 DEF IInv, PlacesInv, QueuedOnce
<1>4. thread[t].job = Nothing /\ Nothing \notin Jobs
  BY <1>1, PoolAssumption DEF IInv, PointsInv, WorkerOK, Busy
<1>5. /\ thread'[t].job = j
      /\ \A u \in Threads : u # t => thread'[u] = thread[u]
  BY <1>1 DEF IInv, TypeOK
<1>6. \A k \in Jobs : Queued(k)' <=> Queued(k) /\ k # j
  BY <1>2, <1>3 DEF Queued
<1>7. \A k \in Jobs : Held(k)' <=> Held(k) \/ k = j
  BY <1>2, <1>4, <1>5 DEF Held
<1>8. InFront(j) = {}
  <2>1. \A i \in 1..Len(work_queue) : ~(i < 1)
    BY <1>2, SMT
  <2>2. QED
    BY <2>1, <1>3 DEF InFront
<1>9. \A k \in Jobs : InFront(k)' = InFront(k) \ {j}
  <2> SUFFICES ASSUME NEW k \in Jobs, NEW f \in Jobs
               PROVE  f \in InFront(k)' <=> f \in InFront(k) /\ f # j
    BY DEF InFront
  <2>1. ASSUME NEW i \in 1..Len(work_queue'), NEW l \in 1..Len(work_queue'), i < l,
               work_queue'[i] = f, work_queue'[l] = k
        PROVE  f \in InFront(k) /\ f # j
    <3>1. i + 1 < l + 1
      BY <2>1
    <3>2. f \in InFront(k)
      BY <1>2, <2>1, <3>1 DEF InFront
    <3>3. work_queue[i + 1] = f /\ i + 1 \in 1..Len(work_queue) /\ i + 1 # 1
      BY <1>2, <2>1
    <3>4. QED
      BY <1>3, <3>2, <3>3
  <2>2. ASSUME f # j, NEW i \in 1..Len(work_queue), NEW l \in 1..Len(work_queue), i < l,
               work_queue[i] = f, work_queue[l] = k
        PROVE  f \in InFront(k)'
    <3>1. i # 1 /\ l # 1 /\ i - 1 < l - 1
      BY <1>2, <2>2
    <3>2. QED
      BY <1>2, <2>2, <3>1 DEF InFront
  <2>3. QED
    BY <2>1, <2>2 DEF InFront
<1>10. JobState(j) = "waiting" /\ JobState(j)' = "taken"
  <2>1. Queued(j)
    BY <1>2 DEF Queued
  <2>2. Held(j)' /\ JobState(j) = "waiting"
    BY <2>1, <1>2, <1>7, StateIs
  <2>3. j \in submitted' /\ j \notin refused' /\ ~Queued(j)'
    BY <1>1, <1>2, <1>6, <2>2, StateIs DEF JobState
  <2>4. QED
    BY <2>2, <2>3 DEF JobState
<1>11. \A k \in Jobs : k # j => JobState(k)' = JobState(k)
  <2>1. \A k \in Jobs : k # j => Queued(k)' = Queued(k) /\ Held(k)' = Held(k)
    BY <1>6, <1>7 DEF Queued, Held
  <2>2. QED
    BY <2>1, <1>1, SameState
<1>12. Queue!Becomes(j, "waiting", "taken")
  BY <1>1, <1>2, <1>10, <1>11, OneBecomes
<1>13. QED
  BY <1>2, <1>8, <1>9, <1>12 DEF Queue!QTake

\* What a worker does on its own, and the main thread's starts and stops, are not to be seen.
LEMMA QuietStep ==
  ASSUME IInv,
         \/ StartWorkers \/ StartThread \/ StopWorkers \/ StopReturns
         \/ \E t \in Threads : CheckRunning(t) \/ GetTimesOut(t) \/ Emit(t) \/ Log(t)
  PROVE  UNCHANGED Queue!queueVars
<1>1. CASE StartWorkers \/ StartThread \/ StopWorkers \/ StopReturns
  <2>1. UNCHANGED <<work_queue, submitted, refused, rows, dropped>>
    BY <1>1 DEF StartWorkers, StartThread, StopWorkers, StopReturns, jobs
  <2>2. (main'.do = "join") = (main.do = "join")
    BY <1>1 DEF StartWorkers, StartThread, StopWorkers, StopReturns, Quiet, IInv, TypeOK
  <2>3. \A t \in Threads : thread'[t].job = thread[t].job
    <3>1. thread \in [Threads -> Worker]
      BY DEF IInv, TypeOK, Worker
    <3>2. CASE StartThread
      BY <3>1, <3>2 DEF StartThread, Worker
    <3>3. QED
      BY <1>1, <3>2 DEF StartWorkers, StopWorkers, StopReturns
  <2>4. QED
    BY <2>1, <2>2, <2>3, SamePlaces, NotSeen
<1>2. ASSUME NEW t \in Threads, CheckRunning(t) \/ GetTimesOut(t) \/ Emit(t) \/ Log(t)
      PROVE  UNCHANGED Queue!queueVars
  <2>1. UNCHANGED <<work_queue, main, submitted, refused, dropped>>
    BY <1>2 DEF CheckRunning, GetTimesOut, Emit, Log, jobs
  <2>2. \A u \in Threads : thread'[u].job = thread[u].job
    <3>1. CASE CheckRunning(t) \/ GetTimesOut(t)
      <4>1. thread[t].job = Nothing
        BY <3>1 DEF CheckRunning, GetTimesOut, IInv, PointsInv, WorkerOK, Busy
      <4>2. thread \in [Threads -> Worker]
        BY DEF IInv, TypeOK, Worker
      <4>3. \/ thread' = [thread EXCEPT ![t].pc = "get"]
            \/ thread' = [thread EXCEPT ![t] = [pc |-> "ended", job |-> Nothing, next |-> 1]]
        BY <3>1 DEF CheckRunning, GetTimesOut, End, GoTo
      <4>4. QED
        BY <4>1, <4>2, <4>3 DEF Worker
    <3>2. CASE Emit(t) \/ Log(t)
      <4>1. thread \in [Threads -> Worker]
        BY DEF IInv, TypeOK, Worker
      <4>2. CASE Emit(t)
        BY <4>1, <4>2 DEF Emit, Worker
      <4>3. CASE Log(t)
        BY <4>1, <4>3 DEF Log, GoTo, Worker
      <4>4. QED
        BY <3>2, <4>2, <4>3
    <3>3. QED
      BY <1>2, <3>1, <3>2
  <2>3. \A k \in Jobs : Held(k) \/ rows'[k] = rows[k]
    BY <1>2 DEF CheckRunning, GetTimesOut, Emit, Log, jobs, Held, IInv, TypeOK
  <2>4. QED
    BY <2>1, <2>2, <2>3, SamePlaces, NotSeen
<1>3. QED
  BY <1>1, <1>2

\* A worker that lets go of its job has done it or failed.
LEMMA LetsGoStep ==
  ASSUME IInv, IInv', NEW t \in Threads, TaskDone(t) \/ Raise(t), NEW j, j = thread[t].job
  PROVE  j \in Jobs /\ (Queue!QFinish(j) \/ Queue!QFail(j))
<1>1. /\ thread[t].pc \in Busy /\ thread' = [thread EXCEPT ![t] = Over]
      /\ UNCHANGED <<work_queue, main, submitted, refused, rows>>
      /\ \/ TaskDone(t) /\ dropped' = dropped
         \/ Raise(t) /\ dropped' = dropped \cup {j}
  BY DEF TaskDone, Raise, HandleError, End, Over, Busy, jobs
<1>2. j \in Jobs /\ j # Nothing /\ Nothing \notin Jobs
  BY <1>1, PoolAssumption DEF IInv, TypeOK, PointsInv, WorkerOK, Busy
<1>3. /\ j \in Accepted /\ j \notin dropped /\ \A u \in Threads : thread[u].job = j => u = t
      /\ TaskDone(t) => rows[j] = 1
  BY <1>2 DEF IInv, PlacesInv, HeldOnce, TaskDone
<1>4. thread'[t].job = Nothing /\ \A u \in Threads : u # t => thread'[u] = thread[u]
  BY <1>1 DEF Over, IInv, TypeOK
<1>5. \A k \in Jobs : Queued(k)' = Queued(k) /\ InFront(k)' = InFront(k)
  BY <1>1 DEF Queued, InFront
<1>6. JobState(j) = "taken" /\ ~Queued(j)
  <2>1. Held(j)
    BY DEF Held
  <2>2. JobState(j) = "taken"
    BY <2>1, <1>2, StateIs
  <2>3. QED
    BY <2>2, <1>2, StateIs
<1>7. ~Held(j)' /\ \A k \in Jobs : k # j => Held(k)' = Held(k)
  BY <1>2, <1>3, <1>4 DEF Held
<1>8. \A k \in Jobs : k # j => JobState(k)' = JobState(k)
  <2>1. \A k \in Jobs : k # j => Logged(k)' = Logged(k) /\ (k \in dropped') = (k \in dropped)
    BY <1>1, <1>7 DEF Logged
  <2>2. QED
    BY <2>1, <1>1, <1>5, <1>7 DEF JobState
<1>9. InFront(j)' = InFront(j) /\ UNCHANGED <<[k \in Jobs |-> InFront(k)]>>
  BY <1>2, <1>5
<1>10. CASE TaskDone(t) /\ dropped' = dropped
  <2>1. Logged(j)'
    BY <1>1, <1>3, <1>7, <1>10, SMT DEF Logged
  <2>2. JobState(j)' = "done"
    BY <2>1, <1>1, <1>2, <1>3, <1>5, <1>6, <1>7, <1>10 DEF JobState, Accepted
  <2>3. Queue!Becomes(j, "taken", "done")
    BY <1>1, <1>2, <1>6, <1>8, <2>2, OneBecomes
  <2>4. QED
    BY <1>2, <1>9, <2>3 DEF Queue!QFinish
<1>11. CASE Raise(t) /\ dropped' = dropped \cup {j}
  <2>1. JobState(j)' = "failed"
    BY <1>1, <1>2, <1>3, <1>5, <1>6, <1>7, <1>11 DEF JobState, Accepted
  <2>2. Queue!Becomes(j, "taken", "failed")
    BY <1>1, <1>2, <1>6, <1>8, <2>1, OneBecomes
  <2>3. QED
    BY <1>2, <1>9, <2>2 DEF Queue!QFail
<1>12. QED
  BY <1>1, <1>2, <1>10, <1>11

\* Waiting for the work begins, and ends when no job is waiting, taken or failed.
LEMMA JoinStep ==
  ASSUME IInv, Join \/ JoinReturns
  PROVE  Queue!QJoin \/ Queue!QJoinReturns
<1>1. UNCHANGED <<work_queue, thread, submitted, refused, rows, dropped>>
  BY DEF Join, JoinReturns, jobs
<1>2. \A j \in Jobs : Queued(j)' = Queued(j) /\ Held(j)' = Held(j) /\ InFront(j)' = InFront(j)
  BY <1>1, SamePlaces
<1>3. \A j \in Jobs : JobState(j)' = JobState(j)
  BY <1>1, <1>2, SameState
<1>4. CASE Join
  <2>1. ~(main.do = "join") /\ main'.do = "join"
    BY <1>4 DEF Join, Quiet
  <2>2. QED
    BY <2>1, <1>2, <1>3 DEF Queue!QJoin
<1>5. CASE JoinReturns
  <2>1. main.do = "join" /\ ~(main'.do = "join")
    BY <1>5 DEF JoinReturns, Quiet
  <2>2. \A j \in Jobs : JobState(j) \in {"new", "refused", "done"}
    <3> SUFFICES ASSUME NEW j \in Jobs PROVE JobState(j) \in {"new", "refused", "done"}
      OBVIOUS
    <3>1. j \in Accepted => ~Queued(j) /\ Logged(j)
      BY <1>5, AllIsLogged
    <3>2. j \in Accepted => ~Held(j) /\ j \notin dropped
      BY <3>1 DEF Logged
    <3>3. QED
      BY <3>1, <3>2 DEF JobState, Accepted
  <2>3. QED
    BY <2>1, <2>2, <1>2, <1>3 DEF Queue!QJoinReturns
<1>6. QED
  BY <1>4, <1>5

LEMMA QueueInit == Init => Queue!QInit
<1> SUFFICES ASSUME Init PROVE Queue!QInit
  OBVIOUS
<1>1. \A j \in Jobs : JobState(j) = "new"
  BY DEF Init, JobState
<1>2. \A j \in Jobs : InFront(j) = {}
  <2>1. 1..Len(work_queue) = {}
    BY SMT DEF Init
  <2>2. QED
    BY <2>1 DEF InFront
<1>3. ~(main.do = "join")
  BY DEF Init, Quiet
<1>4. QED
  BY <1>1, <1>2, <1>3 DEF Queue!QInit

LEMMA QueueStep == IInv /\ IInv' /\ [Next]_vars => [Queue!QNext]_(Queue!queueVars)
<1> SUFFICES ASSUME IInv, IInv', [Next]_vars PROVE Queue!QNext \/ UNCHANGED Queue!queueVars
  OBVIOUS
<1>1. CASE UNCHANGED vars
  <2>1. UNCHANGED <<work_queue, thread, main, submitted, refused, rows, dropped>>
    BY <1>1 DEF vars, jobs
  <2>2. QED
    BY <2>1, SamePlaces, NotSeen
<1>2. CASE StartWorkers \/ StopWorkers \/ StartThread \/ StopReturns
  BY <1>2, QuietStep
<1>3. CASE PutPill
  BY <1>3, PillStep
<1>4. CASE Join \/ JoinReturns
  BY <1>4, JoinStep DEF Queue!QNext
<1>5. ASSUME NEW j \in Jobs, Submit(j) PROVE Queue!QNext
  BY <1>5, SubmitStep DEF Queue!QNext
<1>6. ASSUME NEW t \in Threads, WorkerStep(t)
      PROVE  Queue!QNext \/ UNCHANGED Queue!queueVars
  <2>1. CASE CheckRunning(t) \/ GetTimesOut(t) \/ Emit(t) \/ Log(t)
    BY <2>1, QuietStep
  <2>2. CASE Get(t) /\ Head(work_queue) = Pill
    BY <2>2, PillStep
  <2>3. CASE Get(t) /\ Head(work_queue) # Pill
    BY <2>3, TakeStep DEF Queue!QNext
  <2>4. CASE TaskDone(t) \/ Raise(t)
    BY <2>4, LetsGoStep DEF Queue!QNext
  <2>5. QED
    BY <1>6, <2>1, <2>2, <2>3, <2>4 DEF WorkerStep
<1>7. QED
  BY <1>1, <1>2, <1>3, <1>4, <1>5, <1>6 DEF Next, MainStep

\* For any workers, starts, stops and exceptions the pool is a queue of jobs: each accepted
\* job is taken once, behind those that were accepted before it, and then done or failed,
\* and join returns when all are done (submit_deployment, _worker_loop, work_queue.join).
THEOREM ImplementsJobQueue == Spec => JobQueueService
<1>1. IInv /\ [Next]_vars => [Queue!QNext]_(Queue!queueVars)
  BY QueueStep, NextIInv
<1>2. QED
  BY <1>1, QueueInit, IInvHolds, PTL DEF Spec, JobQueueService, Queue!QSpec

-----------------------------------------------------------------------------
(* The scaler.                                                             *)

\* A start that is under way has set the flag, and has room for its loop.  Once a tick has
\* passed since a stop, each loop that is left is about to look at the flag: those that
\* slept were woken by the tick, and nobody else is left when time passes.
Underway ==
  /\ manager # "idle" => scaling /\ Cardinality(Begun) < MaxScalings
  /\ scaling => stopped_for = 0
Woken    == ~scaling /\ stopped_for >= 1 => \A l \in Alive : loop[l] = "test"

ScalerInv == ScalerIsSound /\ Underway /\ Woken

LEMMA BegunType == Cardinality(Begun) \in Nat
<1>1. IsFiniteSet(Loops)
  BY ScalerAssumption, FS_Interval, SMT DEF Loops
<1>2. QED
  BY <1>1, FS_Subset, FS_CardinalityType DEF Begun

LEMMA InitScalerInv == ScaleInit => ScalerInv
<1> SUFFICES ASSUME ScaleInit PROVE ScalerInv
  OBVIOUS
<1>1. ScaleTypeOK
  <2>1. 0 \in 0..MaxWorkers /\ 1 \in 1..MaxWorkers /\ DownCooldown \in 0..DownCooldown
        /\ 0 \in 0..2
    BY ScalerAssumption, SMT
  <2>2. QED
    BY <2>1 DEF ScaleInit, ScaleTypeOK
<1>2. Alive = {}
  BY DEF ScaleInit, Alive, Begun
<1>3. QED
  BY <1>1, <1>2 DEF ScaleInit, ScalerInv, ScalerIsSound, CountIsThePools, ScalerIsWatched,
                    StoppedScalerEnds, Underway, Woken

\* A loop that moves on, as long as the scaler is on or it ends, takes no loop away that
\* is needed.
LEMMA ScalerLoopStep ==
  ASSUME ScalerInv, NEW l \in Loops, loop[l] \in {"test", "decide", "act"},
         NEW p \in {"test", "decide", "act", "sleep", "ended"},
         p = "ended" => ~scaling,
         p # "ended" => scaling \/ loop[l] # "test",
         loop' = [loop EXCEPT ![l] = p],
         decision' \in [Loops -> {"scale_up", "scale_down", "no_action"}],
         UNCHANGED <<scaling, multi_agent, current_workers, since_action, manager, stopped_for>>
  PROVE  ScalerInv'
<1>0. loop \in [Loops -> {"none", "test", "decide", "act", "sleep", "ended"}]
  BY DEF ScalerInv, ScalerIsSound, ScaleTypeOK
<1>1. ScaleTypeOK'
  BY <1>0 DEF ScalerInv, ScalerIsSound, ScaleTypeOK
<1>2. /\ loop'[l] = p /\ \A k \in Loops \ {l} : loop'[k] = loop[k]
      /\ l \in Alive
  BY <1>0 DEF Alive, Begun
<1>3. Begun' = Begun /\ Alive' \subseteq Alive /\ (p # "ended" => Alive' = Alive)
  BY <1>2 DEF Alive, Begun
<1>4. CountIsThePools'
  BY DEF ScalerInv, ScalerIsSound, CountIsThePools
<1>5. ScalerIsWatched'
  BY <1>3 DEF ScalerInv, ScalerIsSound, ScalerIsWatched
<1>6. StoppedScalerEnds'
  BY <1>3 DEF ScalerInv, ScalerIsSound, StoppedScalerEnds
<1>7. Underway'
  BY <1>3 DEF ScalerInv, Underway
<1>8. Woken'
  <2> SUFFICES ASSUME ~scaling, stopped_for >= 1, NEW k \in Alive' PROVE loop'[k] = "test"
    BY DEF Woken
  <2>1. loop[k] = "test" /\ loop[l] = "test" /\ k \in Loops
    BY <1>2, <1>3 DEF ScalerInv, Woken, Alive, Begun
  <2>2. k # l
    BY <1>2, <2>1 DEF Alive
  <2>3. QED
    BY <1>2, <2>1, <2>2
<1>9. QED
  BY <1>1, <1>4, <1>5, <1>6, <1>7, <1>8 DEF ScalerInv, ScalerIsSound

LEMMA ScalerStep ==
  ASSUME ScalerInv, [ScaleNext]_scaleVars
  PROVE  ScalerInv'
<1>0. /\ loop \in [Loops -> {"none", "test", "decide", "act", "sleep", "ended"}]
      /\ decision \in [Loops -> {"scale_up", "scale_down", "no_action"}]
      /\ stopped_for \in 0..2 /\ since_action \in Nat /\ DownCooldown \in Nat
      /\ since_action <= DownCooldown
  BY ScalerAssumption, SMT DEF ScalerInv, ScalerIsSound, ScaleTypeOK
<1>1. CASE ScaleTick
  <2>1. /\ manager = "idle" /\ \A l \in Alive : loop[l] = "sleep"
        /\ loop' = [l \in Loops |-> IF loop[l] = "sleep" THEN "test" ELSE loop[l]]
        /\ since_action' = IF since_action = DownCooldown THEN DownCooldown ELSE since_action + 1
        /\ stopped_for' = IF scaling \/ stopped_for = 2 THEN stopped_for ELSE stopped_for + 1
        /\ UNCHANGED <<scaling, multi_agent, current_workers, manager, decision>>
    BY <1>1 DEF ScaleTick
  <2>2. since_action' \in 0..DownCooldown /\ stopped_for' \in 0..2
    BY <1>0, <2>1, SMT
  <2>3. loop' \in [Loops -> {"none", "test", "decide", "act", "sleep", "ended"}]
    BY <1>0, <2>1
  <2>4. ScaleTypeOK'
    BY <2>1, <2>2, <2>3 DEF ScalerInv, ScalerIsSound, ScaleTypeOK
  <2>5. Begun' = Begun /\ Alive' = Alive /\ \A l \in Alive' : loop'[l] = "test"
    BY <2>1 DEF Alive, Begun
  <2>6. StoppedScalerEnds'
    <3> SUFFICES ASSUME ~scaling, stopped_for' = 2 PROVE Alive' = {}
      BY <2>1 DEF StoppedScalerEnds
    <3>1. stopped_for >= 1
      BY <1>0, <2>1, SMT
    <3>2. \A l \in Alive : loop[l] = "test"
      BY <3>1 DEF ScalerInv, Woken
    <3>3. QED
      BY <2>1, <2>5, <3>2
  <2>7. QED
    BY <2>1, <2>4, <2>5, <2>6 DEF ScalerInv, ScalerIsSound, CountIsThePools, ScalerIsWatched,
                                  Underway, Woken
<1>2. CASE StartScaling
  <2>1. /\ manager = "idle" /\ Cardinality(Begun) < MaxScalings
        /\ scaling' = TRUE /\ manager' = "pool" /\ stopped_for' = 0
        /\ UNCHANGED <<multi_agent, current_workers, since_action, loop, decision>>
    BY <1>2 DEF StartScaling
  <2>2. Begun' = Begun
    BY <2>1 DEF Begun
  <2>3. QED
    BY <2>1, <2>2 DEF ScalerInv, ScalerIsSound, ScaleTypeOK, CountIsThePools, ScalerIsWatched,
                      StoppedScalerEnds, Underway, Woken
<1>3. CASE CreatePool
  <2>1. /\ manager = "pool" /\ multi_agent' = current_workers /\ manager' = "loop"
        /\ UNCHANGED <<scaling, current_workers, since_action, loop, decision, stopped_for>>
    BY <1>3 DEF CreatePool
  <2>2. multi_agent' \in 0..MaxWorkers
    BY <2>1, ScalerAssumption, SMT DEF ScalerInv, ScalerIsSound, ScaleTypeOK
  <2>3. Begun' = Begun /\ scaling
    BY <2>1 DEF Begun, ScalerInv, Underway
  <2>4. QED
    BY <2>1, <2>2, <2>3 DEF ScalerInv, ScalerIsSound, ScaleTypeOK, CountIsThePools,
                            ScalerIsWatched, StoppedScalerEnds, Underway, Woken
<1>4. CASE StartLoop
  <2> DEFINE k == Cardinality(Begun) + 1
  <2>1. /\ manager = "loop" /\ manager' = "idle" /\ loop' = [loop EXCEPT ![k] = "test"]
        /\ UNCHANGED <<scaling, multi_agent, current_workers, since_action, decision,
                       stopped_for>>
    BY <1>4 DEF StartLoop
  <2>2. scaling /\ k \in Loops
    <3>1. scaling /\ Cardinality(Begun) < MaxScalings
      BY <2>1 DEF ScalerInv, Underway
    <3>2. QED
      BY <3>1, BegunType, ScalerAssumption, SMT DEF Loops
  <2>3. k \in Alive'
    BY <1>0, <2>1, <2>2 DEF Alive, Begun
  <2>4. loop' \in [Loops -> {"none", "test", "decide", "act", "sleep", "ended"}]
    BY <1>0, <2>1
  <2>5. QED
    BY <2>1, <2>2, <2>3, <2>4 DEF ScalerInv, ScalerIsSound, ScaleTypeOK, CountIsThePools,
                                  ScalerIsWatched, StoppedScalerEnds, Underway, Woken
<1>5. CASE StopScaling
  <2>1. /\ manager = "idle" /\ scaling /\ scaling' = FALSE
        /\ UNCHANGED <<multi_agent, current_workers, since_action, manager, loop, decision,
                       stopped_for>>
    BY <1>5 DEF StopScaling
  <2>2. stopped_for = 0 /\ Begun' = Begun
    BY <2>1 DEF ScalerInv, Underway, Begun
  <2>3. ScaleTypeOK' /\ CountIsThePools'
    BY <2>1 DEF ScalerInv, ScalerIsSound, ScaleTypeOK, CountIsThePools
  <2>4. ScalerIsWatched' /\ Underway'
    BY <2>1 DEF ScalerIsWatched, Underway
  <2>5. ~(stopped_for' >= 1) /\ stopped_for' # 2
    BY <2>1, <2>2, SMT
  <2>6. StoppedScalerEnds' /\ Woken'
    BY <2>5 DEF StoppedScalerEnds, Woken
  <2>7. QED
    BY <2>3, <2>4, <2>6 DEF ScalerInv, ScalerIsSound
<1>6. ASSUME NEW l \in Loops, TestScaling(l) PROVE ScalerInv'
  <2>1. loop' = [loop EXCEPT ![l] = IF scaling THEN "decide" ELSE "ended"]
    BY <1>6 DEF TestScaling, GoesOn
  <2>2. CASE scaling
    BY <1>0, <1>6, <2>1, <2>2, ScalerLoopStep DEF TestScaling
  <2>3. CASE ~scaling
    BY <1>0, <1>6, <2>1, <2>3, ScalerLoopStep DEF TestScaling
  <2>4. QED
    BY <2>2, <2>3
<1>7. ASSUME NEW l \in Loops, Decide(l) PROVE ScalerInv'
  <2>1. PICK depth \in {"long", "some", "short"} :
          decision' = [decision EXCEPT ![l] = Decisions(depth)]
    BY <1>7 DEF Decide
  <2>2. Decisions(depth) \in {"scale_up", "scale_down", "no_action"}
    BY DEF Decisions
  <2>3. decision' \in [Loops -> {"scale_up", "scale_down", "no_action"}]
    BY <1>0, <2>1, <2>2
  <2>4. QED
    BY <1>7, <2>3, ScalerLoopStep DEF Decide
<1>8. ASSUME NEW l \in Loops, Act(l) PROVE ScalerInv'
  <2>1. UNCHANGED <<multi_agent, current_workers, since_action>>
    BY <1>8 DEF Act, Scaled, PoolMethods
  <2>2. QED
    BY <1>0, <1>8, <2>1, ScalerLoopStep DEF Act, AfterError
<1>9. CASE UNCHANGED scaleVars
  BY <1>9 DEF scaleVars, ScalerInv, ScalerIsSound, ScaleTypeOK, CountIsThePools, ScalerIsWatched,
              StoppedScalerEnds, Underway, Woken, Alive, Begun
<1>10. QED
  BY <1>1, <1>2, <1>3, <1>4, <1>5, <1>6, <1>7, <1>8, <1>9 DEF ScaleNext

\* The scaler's count is its pool's, a scaler that is on is watched by a loop, and one that
\* has been off for two intervals has none left: for any number of starts and stops, of
\* loops that they leave behind, and any cooldowns (auto_scaler.py).
THEOREM ScalerStaysSound == ScaleSpec => []ScalerIsSound
<1>1. ScalerInv => ScalerIsSound
  BY DEF ScalerInv
<1>2. QED
  BY InitScalerInv, ScalerStep, <1>1, PTL DEF ScaleSpec

=============================================================================
