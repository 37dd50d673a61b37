--------------------------- MODULE ControlLoopsProofs ---------------------------
(* Proofs about what stands between a recommendation and an action: about       *)
(* ReliabilityLoop, for any services, clients, request threads and times, and   *)
(* about DecisionPath, for any callers, answers and lengths of a cooldown.      *)
EXTENDS DecisionPath, ReliabilityLoop, FiniteSetTheorems, TLAPS

-----------------------------------------------------------------------------
(* ReliabilityLoop.                                                        *)

ThreadRec == [pc : {"idle", "set", "run", "docker", "reply"}, service : Services \cup {Nobody},
              action : ValidActions, client : Controllers \cup {Nobody},
              age : 0..(MaxStall + StopTime), raced : BOOLEAN]
ControllerRec == [pc : {"idle", "post", "wait"}, service : Services \cup {Nobody},
                  action : ValidActions, age : 0..(MaxStale + ClientTimeout)]

\* A thread is as old as the bound of where it is, and knows its service.
ThreadFits(r) ==
  /\ r \in ThreadRec
  /\ r.pc # "idle" => r.service \in Services
  /\ r.pc \in {"idle", "reply"} => r.age = 0
  /\ r.pc \in {"set", "run"} => r.age <= MaxStall
  /\ r.pc = "docker" => r.age <= StopTime
ControllerFits(r) ==
  /\ r \in ControllerRec
  /\ r.pc # "idle" => r.service \in Services
  /\ r.pc = "post" => r.age <= MaxStale
  /\ r.pc = "wait" => r.age <= ClientTimeout

\* The cooldown of a service ends no earlier than a cooldown after its last accepted
\* request; a thread that was not overtaken between its check and its store found it ended.
Covered(s) == cooldowns[s] + since[s] >= CooldownTime
FoundItEnded(t) ==
  thread[t].pc = "set" /\ ~thread[t].raced
    => since[thread[t].service] >= CooldownTime + thread[t].age

LoopIInv ==
  /\ health \in [Services -> {"up", "slow", "down"}]
  /\ starting \in [Services -> Nat]
  /\ cooldowns \in [Services -> 0..CooldownTime]
  /\ since \in [Services -> 0..LongAgo]
  /\ faults \in 0..MaxFaults
  /\ DOMAIN thread = Threads /\ thread = [t \in Threads |-> thread[t]]
  /\ \A t \in Threads : ThreadFits(thread[t])
  /\ DOMAIN controller = Controllers /\ controller = [c \in Controllers |-> controller[c]]
  /\ \A c \in Controllers : ControllerFits(controller[c])
  /\ \A s \in Services : Covered(s)
  /\ \A t \in Threads : FoundItEnded(t)

\* How long ago the request of a thread that runs its command was accepted, at most.
AtMost(r) == IF r.pc = "run" THEN r.age ELSE MaxStall + r.age
Commands(r) == r.pc \in {"run", "docker"}

\* While a command is underway the cooldown it stored, or a later one, ends no earlier than
\* a cooldown after its request, but for the stall of a thread that read its clock earlier
\* and has shortened it; so whoever is underway with it had passed the check before it was
\* stored, or after it had ended.
StillCooling(t) ==
  Commands(thread[t]) =>
    cooldowns[thread[t].service] + AtMost(thread[t]) + MaxStall >= CooldownTime

\* A command that its cooldown may have ended before.
Lasting(r) == Commands(r) /\ AtMost(r) + MaxStall >= CooldownTime
OneIsRaced(t, u) ==
  Commands(thread[t]) /\ (thread[u].pc = "set" \/ Commands(thread[u]))
    /\ thread[t].service = thread[u].service
  => \/ thread[t].raced \/ thread[u].raced
     \/ Lasting(thread[t]) \/ Lasting(thread[u])
OverlapIInv ==
  /\ \A t \in Threads : StillCooling(t)
  /\ \A t, u \in Threads : t # u => OneIsRaced(t, u)

LEMMA LoopTypes == LoopIInv => LoopTypeOK
<1> SUFFICES ASSUME LoopIInv PROVE LoopTypeOK
  OBVIOUS
<1>1. thread \in [Threads -> ThreadRec]
  BY DEF LoopIInv, ThreadFits
<1>2. controller \in [Controllers -> ControllerRec]
  BY DEF LoopIInv, ControllerFits
<1>3. QED
  BY <1>1, <1>2 DEF LoopTypeOK, LoopIInv, ThreadRec, ControllerRec

LEMMA LoopInitIInv == LoopInit => LoopIInv /\ OverlapIInv
<1> SUFFICES ASSUME LoopInit PROVE LoopIInv /\ OverlapIInv
  OBVIOUS
<1>1. ThreadFits(FreeThread) /\ ~Commands(FreeThread) /\ FreeThread.pc # "set"
  BY LoopAssumption DEF ThreadFits, FreeThread, ThreadRec, ValidActions, Commands
<1>2. ControllerFits(Free)
  BY LoopAssumption DEF ControllerFits, Free, ControllerRec, ValidActions
<1>3. LongAgo \in Nat /\ LongAgo >= CooldownTime
  BY LoopAssumption DEF LongAgo
<1>4. \A t \in Threads : thread[t] = FreeThread
  BY DEF LoopInit
<1>5. \A c \in Controllers : controller[c] = Free
  BY DEF LoopInit
<1>6. /\ health \in [Services -> {"up", "slow", "down"}]
      /\ starting \in [Services -> Nat]
      /\ cooldowns \in [Services -> 0..CooldownTime]
      /\ since \in [Services -> 0..LongAgo]
      /\ faults \in 0..MaxFaults
  BY <1>3, LoopAssumption DEF LoopInit
<1>7. \A s \in Services : Covered(s)
  BY <1>3, LoopAssumption DEF LoopInit, Covered
<1>8. \A t \in Threads : FoundItEnded(t) /\ StillCooling(t)
  BY <1>1, <1>4, Zenon DEF FoundItEnded, StillCooling
<1>9. \A t, u \in Threads : OneIsRaced(t, u)
  BY <1>1, <1>4, Zenon DEF OneIsRaced
<1>10. /\ DOMAIN thread = Threads /\ thread = [t \in Threads |-> thread[t]]
       /\ DOMAIN controller = Controllers /\ controller = [c \in Controllers |-> controller[c]]
  BY DEF LoopInit
<1>11. QED
  BY <1>1, <1>2, <1>4, <1>5, <1>6, <1>7, <1>8, <1>9, <1>10, Zenon DEF LoopIInv, OverlapIInv

\* What a step leaves, and what it has to show for it.
LEMMA LoopShapes ==
  ASSUME LoopIInv
  PROVE  /\ thread \in [Threads -> ThreadRec] /\ controller \in [Controllers -> ControllerRec]
         /\ LongAgo \in Nat /\ LongAgo = CooldownTime + MaxStall
<1>1. thread \in [Threads -> ThreadRec]
  BY DEF LoopIInv, ThreadFits
<1>2. controller \in [Controllers -> ControllerRec]
  BY DEF LoopIInv, ControllerFits
<1>3. QED
  BY <1>1, <1>2, LoopAssumption DEF LongAgo

\* What stops and does not come back leaves the rest as it was.
LEMMA FreeFits == /\ ThreadFits(FreeThread) /\ ~Commands(FreeThread) /\ FreeThread.pc = "idle"
                  /\ ControllerFits(Free)
<1>1. ThreadFits(FreeThread) /\ ~Commands(FreeThread) /\ FreeThread.pc = "idle"
  BY LoopAssumption DEF ThreadFits, FreeThread, ThreadRec, ValidActions, Commands
<1>2. ControllerFits(Free)
  BY LoopAssumption DEF ControllerFits, Free, ControllerRec, ValidActions
<1>3. QED
  BY <1>1, <1>2

\* A tick ages what is underway, up to its bound.
LEMMA TickAges ==
  ASSUME LoopIInv, LoopTick, NEW t \in Threads
  PROVE  /\ thread'[t] = Older(t) /\ ThreadFits(Older(t))
         /\ Older(t).pc = thread[t].pc /\ Older(t).service = thread[t].service
         /\ Older(t).raced = thread[t].raced
         /\ thread[t].pc \in {"set", "run", "docker"} => Older(t).age = thread[t].age + 1
<1>1. thread'[t] = Older(t) /\ ~Stalls(t)
  BY DEF LoopTick
<1>2. ThreadFits(thread[t]) /\ thread[t] \in ThreadRec
  BY DEF LoopIInv, ThreadFits
<1>3. CASE thread[t].pc \in {"set", "run", "docker"}
  <2>1. Older(t) = [thread[t] EXCEPT !.age = thread[t].age + 1]
    BY <1>3 DEF Older
  <2>2. thread[t].age + 1 \in 0..(MaxStall + StopTime)
    BY <1>1, <1>2, <1>3, LoopAssumption DEF ThreadFits, ThreadRec, Stalls
  <2>3. /\ Older(t) \in ThreadRec
        /\ Older(t).pc = thread[t].pc /\ Older(t).service = thread[t].service
        /\ Older(t).raced = thread[t].raced /\ Older(t).age = thread[t].age + 1
    BY <1>2, <2>1, <2>2 DEF ThreadRec
  <2>4. /\ thread[t].pc \in {"set", "run"} => thread[t].age + 1 <= MaxStall
        /\ thread[t].pc = "docker" => thread[t].age + 1 <= StopTime
    BY <1>1, <1>2, LoopAssumption DEF ThreadFits, ThreadRec, Stalls
  <2>5. QED
    BY <1>1, <1>2, <1>3, <2>3, <2>4 DEF ThreadFits
<1>4. CASE thread[t].pc \notin {"set", "run", "docker"}
  BY <1>1, <1>2, <1>4 DEF Older
<1>5. QED
  BY <1>3, <1>4

LEMMA TickAgesClients ==
  ASSUME LoopIInv, LoopTick, NEW c \in Controllers
  PROVE  controller'[c] = Longer(c) /\ ControllerFits(Longer(c))
<1>1. controller'[c] = Longer(c) /\ ~Waits(c)
  BY DEF LoopTick
<1>2. ControllerFits(controller[c]) /\ controller[c] \in ControllerRec
  BY DEF LoopIInv, ControllerFits
<1>3. CASE \/ controller[c].pc = "post"
           \/ controller[c].pc = "wait" /\ controller[c].age < ClientTimeout
  <2>1. Longer(c) = [controller[c] EXCEPT !.age = controller[c].age + 1]
    BY <1>3 DEF Longer
  <2>2. controller[c].age + 1 \in 0..(MaxStale + ClientTimeout)
    BY <1>1, <1>2, <1>3, LoopAssumption DEF ControllerFits, ControllerRec, Waits
  <2>3. /\ Longer(c) \in ControllerRec
        /\ Longer(c).pc = controller[c].pc /\ Longer(c).service = controller[c].service
        /\ Longer(c).age = controller[c].age + 1
    BY <1>2, <2>1, <2>2 DEF ControllerRec
  <2>4. /\ controller[c].pc = "post" => controller[c].age + 1 <= MaxStale
        /\ controller[c].pc = "wait" => controller[c].age + 1 <= ClientTimeout
    BY <1>1, <1>2, <1>3, LoopAssumption DEF ControllerFits, ControllerRec, Waits
  <2>5. QED
    BY <1>1, <1>2, <1>3, <2>3, <2>4 DEF ControllerFits
<1>4. CASE ~ (\/ controller[c].pc = "post"
              \/ controller[c].pc = "wait" /\ controller[c].age < ClientTimeout)
  BY <1>1, <1>2, <1>4 DEF Longer
<1>5. QED
  BY <1>3, <1>4

LEMMA TickStep == LoopIInv /\ LoopTick => LoopIInv'
<1> SUFFICES ASSUME LoopIInv, LoopTick PROVE LoopIInv'
  OBVIOUS
<1>1. LongAgo \in Nat /\ LongAgo = CooldownTime + MaxStall
  BY LoopShapes
<1>2. /\ health' \in [Services -> {"up", "slow", "down"}]
      /\ faults' \in 0..MaxFaults
  BY DEF LoopTick, LoopIInv
<1>3. starting' \in [Services -> Nat]
  <2>1. \A s \in Services : Less(starting[s]) \in Nat
    BY DEF LoopIInv, Less
  <2>2. QED
    BY <2>1 DEF LoopTick
<1>4. cooldowns' \in [Services -> 0..CooldownTime]
  <2>1. \A s \in Services : Less(cooldowns[s]) \in 0..CooldownTime
    BY LoopAssumption DEF LoopIInv, Less
  <2>2. QED
    BY <2>1 DEF LoopTick
<1>5. since' \in [Services -> 0..LongAgo]
  <2>1. \A s \in Services :
          (IF since[s] < LongAgo THEN since[s] + 1 ELSE LongAgo) \in 0..LongAgo
    BY <1>1 DEF LoopIInv
  <2>2. QED
    BY <2>1 DEF LoopTick
<1>6. /\ DOMAIN thread' = Threads /\ thread' = [t \in Threads |-> thread'[t]]
      /\ DOMAIN controller' = Controllers
      /\ controller' = [c \in Controllers |-> controller'[c]]
  BY DEF LoopTick
<1>7. /\ \A t \in Threads : ThreadFits(thread'[t])
      /\ \A c \in Controllers : ControllerFits(controller'[c])
  BY TickAges, TickAgesClients
<1>8. \A s \in Services : Covered(s)'
  <2> SUFFICES ASSUME NEW s \in Services PROVE Covered(s)'
    OBVIOUS
  <2>1. /\ cooldowns'[s] = Less(cooldowns[s])
        /\ since'[s] = IF since[s] < LongAgo THEN since[s] + 1 ELSE LongAgo
    BY DEF LoopTick
  <2>2. Covered(s) /\ cooldowns[s] \in 0..CooldownTime /\ since[s] \in 0..LongAgo
    BY DEF LoopIInv
  <2>3. QED
    BY <1>1, <2>1, <2>2, LoopAssumption DEF Covered, Less
<1>9. \A t \in Threads : FoundItEnded(t)'
  <2> SUFFICES ASSUME NEW t \in Threads, thread'[t].pc = "set", ~thread'[t].raced
               PROVE  since'[thread'[t].service] >= CooldownTime + thread'[t].age
    BY DEF FoundItEnded
  <2> DEFINE s == thread[t].service
  <2>1. thread'[t].age = thread[t].age + 1 /\ thread'[t].service = s /\ ThreadFits(thread'[t])
        /\ thread[t].pc = "set" /\ ~thread[t].raced
    BY TickAges
  <2>2. since[s] >= CooldownTime + thread[t].age
    BY <2>1 DEF LoopIInv, FoundItEnded
  <2>3. s \in Services /\ thread[t].age \in Nat /\ thread[t].age + 1 <= MaxStall
    BY <2>1 DEF ThreadFits, LoopIInv, ThreadRec
  <2>4. since'[s] = (IF since[s] < LongAgo THEN since[s] + 1 ELSE LongAgo) /\ since[s] \in 0..LongAgo
    BY <2>3 DEF LoopTick, LoopIInv
  <2> HIDE DEF s
  <2>5. since'[s] >= CooldownTime + thread[t].age + 1
    BY <1>1, <2>2, <2>3, <2>4, LoopAssumption
  <2>6. QED
    BY <2>1, <2>5, <2>3, LoopAssumption DEF s
<1>10. QED
  BY <1>2, <1>3, <1>4, <1>5, <1>6, <1>7, <1>8, <1>9, Zenon DEF LoopIInv

\* A step that sets no cooldown keeps what it says if each thread is where it was, as old
\* and as raced, or is no longer about to store one.
Kept(t) ==
  /\ ThreadFits(thread'[t])
  /\ \/ thread'[t].pc # "set"
     \/ /\ thread'[t].pc = thread[t].pc /\ thread'[t].service = thread[t].service
        /\ thread'[t].age = thread[t].age /\ thread'[t].raced = thread[t].raced

LEMMA KeptThreads ==
  ASSUME LoopIInv, UNCHANGED <<cooldowns, since>>,
         \A t \in Threads : Kept(t) \/ (ThreadFits(thread'[t]) /\ FoundItEnded(t)')
  PROVE  /\ cooldowns' \in [Services -> 0..CooldownTime] /\ since' \in [Services -> 0..LongAgo]
         /\ \A t \in Threads : ThreadFits(thread'[t]) /\ FoundItEnded(t)'
         /\ \A s \in Services : Covered(s)'
<1>1. cooldowns' \in [Services -> 0..CooldownTime] /\ since' \in [Services -> 0..LongAgo]
  BY DEF LoopIInv
<1>2. \A s \in Services : Covered(s)'
  BY DEF LoopIInv, Covered
<1>3. ASSUME NEW t \in Threads PROVE ThreadFits(thread'[t]) /\ FoundItEnded(t)'
  <2>1. CASE Kept(t)
    BY <2>1 DEF Kept, LoopIInv, FoundItEnded
  <2>2. CASE ~Kept(t)
    BY <2>2
  <2>3. QED
    BY <2>1, <2>2
<1>4. QED
  BY <1>1, <1>2, <1>3

LEMMA SameThreads ==
  ASSUME LoopIInv, UNCHANGED thread
  PROVE  /\ DOMAIN thread' = Threads /\ thread' = [t \in Threads |-> thread'[t]]
         /\ \A t \in Threads : Kept(t)
  BY DEF LoopIInv, Kept

LEMMA FaultCounts == LoopIInv /\ Fault => faults' \in 0..MaxFaults
  BY LoopAssumption DEF LoopIInv, Fault

LEMMA StartTyped ==
  ASSUME LoopIInv, NEW done \in SUBSET Services, NEW d \in StartTimes, Start(done, d)
  PROVE  health' \in [Services -> {"up", "slow", "down"}] /\ starting' \in [Services -> Nat]
<1>1. d \in Nat
  BY LoopAssumption
<1>2. QED
  BY <1>1 DEF LoopIInv, Start

LEMMA ServiceFailsStep ==
  ASSUME LoopIInv, NEW s \in Services, NEW how \in {"slow", "down"}, ServiceFails(s, how)
  PROVE  LoopIInv'
<1>1. UNCHANGED <<starting, cooldowns, thread, controller, since>>
  BY DEF ServiceFails
<1>2. faults' \in 0..MaxFaults
  BY FaultCounts DEF ServiceFails
<1>3. health' \in [Services -> {"up", "slow", "down"}] /\ starting' \in [Services -> Nat]
  BY DEF LoopIInv, ServiceFails
<1>4. \A c \in Controllers : ControllerFits(controller'[c])
  BY <1>1 DEF LoopIInv
<1>5. DOMAIN controller' = Controllers /\ controller' = [c \in Controllers |-> controller'[c]]
  BY <1>1 DEF LoopIInv
<1>6. QED
  BY <1>1, <1>2, <1>3, <1>4, <1>5, SameThreads, KeptThreads, Zenon DEF LoopIInv

LEMMA ExecuterRestartsStep == LoopIInv /\ ExecuterRestarts => LoopIInv'
<1> SUFFICES ASSUME LoopIInv, ExecuterRestarts PROVE LoopIInv'
  OBVIOUS
<1>1. LongAgo \in Nat /\ LongAgo = CooldownTime + MaxStall
  BY LoopShapes
<1>2. faults' \in 0..MaxFaults
  BY FaultCounts DEF ExecuterRestarts
<1>3. cooldowns' \in [Services -> 0..CooldownTime] /\ since' \in [Services -> 0..LongAgo]
  BY <1>1, LoopAssumption DEF ExecuterRestarts
<1>4. \A s \in Services : Covered(s)'
  BY <1>1, LoopAssumption DEF ExecuterRestarts, Covered
<1>5. /\ DOMAIN thread' = Threads /\ thread' = [t \in Threads |-> thread'[t]]
      /\ DOMAIN controller' = Controllers
      /\ controller' = [c \in Controllers |-> controller'[c]]
      /\ \A t \in Threads : thread'[t] = FreeThread
      /\ \A c \in Controllers : controller'[c] \in {Free, controller[c]}
  BY DEF ExecuterRestarts
<1>6. \A t \in Threads : ThreadFits(thread'[t]) /\ FoundItEnded(t)'
  BY <1>5, FreeFits DEF FoundItEnded
<1>7. \A c \in Controllers : ControllerFits(controller'[c])
  BY <1>5, FreeFits DEF LoopIInv
<1>8. health' \in [Services -> {"up", "slow", "down"}] /\ starting' \in [Services -> Nat]
  <2> DEFINE underway == {thread[t].service : t \in {u \in Threads : thread[u].pc = "docker"}}
  <2>1. underway \subseteq Services
    BY DEF LoopIInv, ThreadFits
  <2>2. PICK done \in SUBSET underway, d \in StartTimes : Start(done, d)
    BY DEF ExecuterRestarts
  <2>3. QED
    BY <2>1, <2>2, StartTyped
<1>9. QED
  BY <1>2, <1>3, <1>4, <1>5, <1>6, <1>7, <1>8, Zenon DEF LoopIInv

LEMMA ProbeStep ==
  ASSUME LoopIInv, NEW c \in Controllers, NEW s \in Services, Probe(c, s)
  PROVE  LoopIInv'
<1> DEFINE r == [pc |-> "post", service |-> s, action |-> Recommended(s), age |-> 0]
<1>1. UNCHANGED <<health, starting, faults, cooldowns, thread, since>>
  BY DEF Probe, services
<1>2. ControllerFits(r)
  <2>1. Recommended(s) \in ValidActions
    BY DEF Recommended, ValidActions
  <2>2. QED
    BY <2>1, LoopAssumption DEF ControllerFits, ControllerRec
<1>3. controller' = [controller EXCEPT ![c] = r]
  BY DEF Probe
<1> HIDE DEF r
<1>4. DOMAIN controller' = Controllers /\ controller' = [k \in Controllers |-> controller'[k]]
  BY <1>3 DEF LoopIInv
<1>5. \A k \in Controllers : controller'[k] \in {r, controller[k]}
  BY <1>3 DEF LoopIInv
<1>6. \A k \in Controllers : ControllerFits(controller'[k])
  BY <1>5, <1>2 DEF LoopIInv
<1>7. /\ health' \in [Services -> {"up", "slow", "down"}] /\ starting' \in [Services -> Nat]
      /\ faults' \in 0..MaxFaults
  BY <1>1 DEF LoopIInv
<1>8. QED
  BY <1>1, <1>4, <1>6, <1>7, SameThreads, KeptThreads, Zenon DEF LoopIInv

LEMMA GiveUpStep == ASSUME LoopIInv, NEW c \in Controllers, GiveUp(c) PROVE LoopIInv'
<1>1. UNCHANGED <<health, starting, faults, cooldowns, since>>
  BY DEF GiveUp, services
<1>2. /\ DOMAIN thread' = Threads /\ thread' = [t \in Threads |-> thread'[t]]
      /\ DOMAIN controller' = Controllers
      /\ controller' = [k \in Controllers |-> controller'[k]]
      /\ \A k \in Controllers : controller'[k] \in {Free, controller[k]}
  BY DEF GiveUp, LoopIInv
<1>3. \A k \in Controllers : ControllerFits(controller'[k])
  BY <1>2, FreeFits DEF LoopIInv
<1>4. ASSUME NEW t \in Threads PROVE Kept(t)
  <2>1. thread'[t] \in {thread[t], [thread[t] EXCEPT !.client = Nobody]}
    BY DEF GiveUp
  <2>2. ThreadFits(thread[t]) /\ thread[t] \in ThreadRec
    BY DEF LoopIInv, ThreadFits
  <2> DEFINE x == [thread[t] EXCEPT !.client = Nobody]
  <2>3. /\ x \in ThreadRec /\ x.pc = thread[t].pc /\ x.service = thread[t].service
        /\ x.age = thread[t].age /\ x.raced = thread[t].raced
    BY <2>2 DEF ThreadRec
  <2>4. ThreadFits(x)
    BY <2>2, <2>3 DEF ThreadFits
  <2> HIDE DEF x
  <2>5. thread'[t] \in {thread[t], x}
    BY <2>1 DEF x
  <2>6. QED
    BY <2>2, <2>3, <2>4, <2>5 DEF Kept
<1>5. /\ health' \in [Services -> {"up", "slow", "down"}] /\ starting' \in [Services -> Nat]
      /\ faults' \in 0..MaxFaults
  BY <1>1 DEF LoopIInv
<1>6. QED
  BY <1>1, <1>2, <1>3, <1>4, <1>5, KeptThreads, Zenon DEF LoopIInv

LEMMA ReceiveStep ==
  ASSUME LoopIInv, NEW t \in Threads, NEW c \in Controllers, Receive(t, c)
  PROVE  LoopIInv'
<1> DEFINE s == controller[c].service
           r == [pc |-> "set", service |-> s, action |-> controller[c].action,
                 client |-> c, age |-> 0, raced |-> FALSE]
           w == [controller[c] EXCEPT !.pc = "wait", !.age = 0]
<1>1. UNCHANGED <<health, starting, faults, cooldowns, since>>
  BY DEF Receive, services
<1>2. /\ controller[c].pc = "post" /\ ControllerFits(controller[c])
      /\ controller[c] \in ControllerRec /\ s \in Services
  BY DEF Receive, LoopIInv, ControllerFits
<1>3. ControllerFits(w)
  <2>1. 0 \in 0..(MaxStale + ClientTimeout)
    BY LoopAssumption
  <2>2. w \in ControllerRec /\ w.pc = "wait" /\ w.age = 0 /\ w.service = s
    BY <1>2, <2>1 DEF ControllerRec
  <2> HIDE DEF w, s
  <2>3. QED
    BY <2>2, <1>2, LoopAssumption DEF ControllerFits
<1>4. ThreadFits(r)
  BY <1>2, LoopAssumption DEF ThreadFits, ThreadRec, ControllerRec
<1>5. /\ DOMAIN controller' = Controllers
      /\ controller' = [k \in Controllers |-> controller'[k]]
      /\ \A k \in Controllers : controller'[k] \in {Free, w, controller[k]}
      /\ DOMAIN thread' = Threads /\ thread' = [u \in Threads |-> thread'[u]]
  BY DEF Receive, LoopIInv
<1>6. \A k \in Controllers : ControllerFits(controller'[k])
  BY <1>5, <1>3, FreeFits DEF LoopIInv
<1>7. ASSUME NEW u \in Threads PROVE Kept(u) \/ (ThreadFits(thread'[u]) /\ FoundItEnded(u)')
  <2>1. CASE thread'[u] = thread[u]
    BY <2>1 DEF Kept, LoopIInv
  <2>2. CASE thread'[u] # thread[u]
    <3>1. ~Refused(c) /\ u = t /\ thread'[u] = r
      BY <2>2 DEF Receive, LoopIInv
    <3>2. cooldowns[s] = 0 /\ Covered(s) /\ since[s] \in Nat
      BY <3>1, <1>2, LoopAssumption, LoopShapes DEF Refused, LoopIInv
    <3>3. since'[s] >= CooldownTime + 0
      BY <3>2, <1>1, LoopAssumption DEF Covered
    <3>4. thread'[u].service = s /\ thread'[u].age = 0
      BY <3>1
    <3> HIDE DEF s, r
    <3>5. FoundItEnded(u)'
      BY <3>3, <3>4 DEF FoundItEnded
    <3>6. QED
      BY <3>1, <1>4, <3>5
  <2>3. QED
    BY <2>1, <2>2
<1>8. /\ health' \in [Services -> {"up", "slow", "down"}] /\ starting' \in [Services -> Nat]
      /\ faults' \in 0..MaxFaults
  BY <1>1 DEF LoopIInv
<1>9. QED
  BY <1>1, <1>5, <1>6, <1>7, <1>8, KeptThreads, Zenon DEF LoopIInv

\* The store of the cooldown: the other threads keep what they know.
LEMMA SetCooldownThreads ==
  ASSUME LoopIInv, NEW t \in Threads, SetCooldown(t), NEW u \in Threads
  PROVE  /\ ThreadFits(thread'[u]) /\ thread'[u].service = thread[u].service
         /\ thread'[u].age = thread[u].age
         /\ u = t => thread'[u].pc = "run" /\ thread'[u].raced = thread[u].raced
         /\ u # t => /\ thread'[u].pc = thread[u].pc
                     /\ thread'[u].raced =
                          (thread[u].raced \/ (thread[u].pc = "set"
                                                /\ thread[u].service = thread[t].service))
<1>1. ThreadFits(thread[u]) /\ thread[u] \in ThreadRec /\ thread[t].pc = "set"
  BY DEF LoopIInv, ThreadFits, SetCooldown
<1> DEFINE x == [thread[u] EXCEPT !.pc = "run"]
           y == [thread[u] EXCEPT !.raced = TRUE]
<1>2. /\ x \in ThreadRec /\ x.pc = "run" /\ x.service = thread[u].service
      /\ x.age = thread[u].age /\ x.raced = thread[u].raced
  BY <1>1 DEF ThreadRec
<1>3. /\ y \in ThreadRec /\ y.pc = thread[u].pc /\ y.service = thread[u].service
      /\ y.age = thread[u].age /\ y.raced = TRUE
  BY <1>1 DEF ThreadRec
<1>4. ThreadFits(y) /\ (u = t => ThreadFits(x))
  BY <1>1, <1>2, <1>3 DEF ThreadFits
<1>5. thread[u].raced \in BOOLEAN
  BY <1>1 DEF ThreadRec
<1>6. thread'[u] = IF u = t THEN x
                   ELSE IF thread[u].pc = "set" /\ thread[u].service = thread[t].service
                        THEN y ELSE thread[u]
  BY DEF SetCooldown
<1> HIDE DEF x, y
<1>7. CASE u = t
  BY <1>7, <1>6, <1>2, <1>4
<1>8. CASE u # t /\ thread[u].pc = "set" /\ thread[u].service = thread[t].service
  BY <1>8, <1>6, <1>3, <1>4
<1>9. CASE u # t /\ ~(thread[u].pc = "set" /\ thread[u].service = thread[t].service)
  <2>1. thread'[u] = thread[u]
    BY <1>9, <1>6
  <2>2. QED
    BY <1>9, <2>1, <1>1, <1>5
<1>10. QED
  BY <1>7, <1>8, <1>9

LEMMA SetCooldownStep == ASSUME LoopIInv, NEW t \in Threads, SetCooldown(t) PROVE LoopIInv'
<1> DEFINE s == thread[t].service
           a == thread[t].age
<1>1. LongAgo \in Nat /\ LongAgo = CooldownTime + MaxStall
  BY LoopShapes
<1>2. s \in Services /\ a \in Nat /\ a <= MaxStall
  BY DEF SetCooldown, LoopIInv, ThreadFits, ThreadRec
<1>3. /\ UNCHANGED <<health, starting, faults, controller>>
      /\ cooldowns' = [cooldowns EXCEPT ![s] = CooldownTime - a]
      /\ since' = [since EXCEPT ![s] = a]
      /\ DOMAIN thread' = Threads /\ thread' = [u \in Threads |-> thread'[u]]
  BY DEF SetCooldown, services, Ending
<1> HIDE DEF s, a
<1>4. CooldownTime - a \in 0..CooldownTime /\ a \in 0..LongAgo
  BY <1>1, <1>2, LoopAssumption
<1>5. cooldowns' \in [Services -> 0..CooldownTime] /\ since' \in [Services -> 0..LongAgo]
  BY <1>2, <1>3, <1>4 DEF LoopIInv
<1>6. ASSUME NEW x \in Services PROVE Covered(x)'
  <2>1. CASE x = s
    <3>1. cooldowns'[x] = CooldownTime - a /\ since'[x] = a
      BY <2>1, <1>2, <1>3 DEF LoopIInv
    <3>2. QED
      BY <3>1, <1>2, LoopAssumption DEF Covered
  <2>2. CASE x # s
    BY <2>2, <1>3 DEF LoopIInv, Covered
  <2>3. QED
    BY <2>1, <2>2
<1>7. \A u \in Threads : ThreadFits(thread'[u])
  BY SetCooldownThreads
<1>8. ASSUME NEW u \in Threads PROVE FoundItEnded(u)'
  <2> SUFFICES ASSUME thread'[u].pc = "set", ~thread'[u].raced
               PROVE  since'[thread'[u].service] >= CooldownTime + thread'[u].age
    BY DEF FoundItEnded
  <2>1. /\ u # t /\ thread[u].pc = "set" /\ ~thread[u].raced /\ thread[u].service # s
        /\ thread'[u].service = thread[u].service /\ thread'[u].age = thread[u].age
    BY SetCooldownThreads DEF s
  <2>2. since[thread[u].service] >= CooldownTime + thread[u].age /\ thread[u].service \in Services
    BY <2>1 DEF LoopIInv, FoundItEnded, ThreadFits
  <2>3. QED
    BY <2>1, <2>2, <1>3 DEF LoopIInv
<1>9. /\ health' \in [Services -> {"up", "slow", "down"}] /\ starting' \in [Services -> Nat]
      /\ faults' \in 0..MaxFaults
      /\ DOMAIN controller' = Controllers
      /\ controller' = [c \in Controllers |-> controller'[c]]
      /\ \A c \in Controllers : ControllerFits(controller'[c])
  BY <1>3 DEF LoopIInv
<1>10. QED
  BY <1>3, <1>5, <1>6, <1>7, <1>8, <1>9, Zenon DEF LoopIInv

\* A step of one thread that ends in "docker" or in "reply".
LEMMA MovedThread ==
  ASSUME LoopIInv, NEW t \in Threads, NEW p \in {"docker", "reply"}, thread[t].pc # "idle",
         thread' = [thread EXCEPT ![t].pc = p, ![t].age = 0]
  PROVE  /\ DOMAIN thread' = Threads /\ thread' = [u \in Threads |-> thread'[u]]
         /\ \A u \in Threads : u # t => thread'[u] = thread[u]
         /\ thread'[t].pc = p /\ thread'[t].age = 0
         /\ thread'[t].service = thread[t].service /\ thread'[t].raced = thread[t].raced
         /\ \A u \in Threads : Kept(u)
<1> DEFINE x == [thread[t] EXCEPT !.pc = p, !.age = 0]
<1>1. ThreadFits(thread[t]) /\ thread[t] \in ThreadRec /\ 0 \in 0..(MaxStall + StopTime)
  BY LoopAssumption DEF LoopIInv, ThreadFits
<1>2. /\ x \in ThreadRec /\ x.pc = p /\ x.service = thread[t].service
      /\ x.age = 0 /\ x.raced = thread[t].raced
  BY <1>1, LoopAssumption DEF ThreadRec
<1>3. ThreadFits(x)
  BY <1>1, <1>2, LoopAssumption DEF ThreadFits
<1>4. /\ DOMAIN thread' = Threads /\ thread' = [u \in Threads |-> thread'[u]]
      /\ \A u \in Threads : u # t => thread'[u] = thread[u]
      /\ thread'[t] = x
  BY DEF LoopIInv
<1> HIDE DEF x
<1>5. ASSUME NEW u \in Threads PROVE Kept(u)
  BY <1>2, <1>3, <1>4 DEF Kept, LoopIInv
<1>6. QED
  BY <1>2, <1>4, <1>5

LEMMA RunStep == ASSUME LoopIInv, NEW t \in Threads, Run(t) PROVE LoopIInv'
<1>1. UNCHANGED <<starting, cooldowns, controller, since>>
  BY DEF Run, services
<1>2. faults' \in 0..MaxFaults
  <2>1. Fault \/ UNCHANGED faults
    BY DEF Run
  <2>2. QED
    BY <2>1, FaultCounts DEF LoopIInv
<1>3. health' \in [Services -> {"up", "slow", "down"}] /\ starting' \in [Services -> Nat]
  BY DEF Run, services, LoopIInv
<1>4. PICK p \in {"docker", "reply"} : thread' = [thread EXCEPT ![t].pc = p, ![t].age = 0]
  BY DEF Run
<1>5. thread[t].pc # "idle"
  BY DEF Run
<1>6. /\ DOMAIN thread' = Threads /\ thread' = [u \in Threads |-> thread'[u]]
      /\ \A u \in Threads : Kept(u)
  BY <1>4, <1>5, MovedThread
<1>7. /\ DOMAIN controller' = Controllers
      /\ controller' = [c \in Controllers |-> controller'[c]]
      /\ \A c \in Controllers : ControllerFits(controller'[c])
  BY <1>1 DEF LoopIInv
<1>8. QED
  BY <1>1, <1>2, <1>3, <1>6, <1>7, KeptThreads, Zenon DEF LoopIInv

LEMMA FinishStep == ASSUME LoopIInv, NEW t \in Threads, Finish(t) PROVE LoopIInv'
<1>1. UNCHANGED <<cooldowns, controller, faults, since>> /\ thread[t].pc = "docker"
  BY DEF Finish
<1>2. health' \in [Services -> {"up", "slow", "down"}] /\ starting' \in [Services -> Nat]
  <2>1. {thread[t].service} \in SUBSET Services
    BY <1>1 DEF LoopIInv, ThreadFits
  <2>2. QED
    BY <2>1, StartTyped DEF Finish
<1>3. /\ DOMAIN thread' = Threads /\ thread' = [u \in Threads |-> thread'[u]]
      /\ \A u \in Threads : Kept(u)
  BY <1>1, MovedThread DEF Finish
<1>4. /\ DOMAIN controller' = Controllers
      /\ controller' = [c \in Controllers |-> controller'[c]]
      /\ \A c \in Controllers : ControllerFits(controller'[c])
      /\ faults' \in 0..MaxFaults
  BY <1>1 DEF LoopIInv
<1>5. QED
  BY <1>1, <1>2, <1>3, <1>4, KeptThreads, Zenon DEF LoopIInv

LEMMA ReplyStep == ASSUME LoopIInv, NEW t \in Threads, Reply(t) PROVE LoopIInv'
<1>1. UNCHANGED <<health, starting, cooldowns, faults, since>>
  BY DEF Reply, services
<1>2. /\ DOMAIN thread' = Threads /\ thread' = [u \in Threads |-> thread'[u]]
      /\ \A u \in Threads : thread'[u] = IF u = t THEN FreeThread ELSE thread[u]
      /\ DOMAIN controller' = Controllers
      /\ controller' = [c \in Controllers |-> controller'[c]]
      /\ \A c \in Controllers : controller'[c] \in {Free, controller[c]}
  BY DEF Reply, LoopIInv
<1>3. \A u \in Threads : Kept(u)
  BY <1>2, FreeFits DEF Kept, LoopIInv
<1>4. \A c \in Controllers : ControllerFits(controller'[c])
  BY <1>2, FreeFits DEF LoopIInv
<1>5. /\ health' \in [Services -> {"up", "slow", "down"}] /\ starting' \in [Services -> Nat]
      /\ faults' \in 0..MaxFaults
  BY <1>1 DEF LoopIInv
<1>6. QED
  BY <1>1, <1>2, <1>3, <1>4, <1>5, KeptThreads, Zenon DEF LoopIInv

LEMMA StopsStep == ASSUME LoopIInv, NEW t \in Threads, Stops(t) PROVE LoopIInv'
<1>1. UNCHANGED <<starting, cooldowns, thread, controller, faults, since>>
  BY DEF Stops
<1>2. health' \in [Services -> {"up", "slow", "down"}]
  BY DEF Stops, LoopIInv
<1>3. (\A u \in Threads : FoundItEnded(u)') /\ \A s \in Services : Covered(s)'
  BY <1>1 DEF LoopIInv, FoundItEnded, Covered
<1>4. QED
  BY <1>1, <1>2, <1>3 DEF LoopIInv

LEMMA LoopStep == LoopIInv /\ [LoopNext]_loopVars => LoopIInv'
<1> SUFFICES ASSUME LoopIInv, [LoopNext]_loopVars PROVE LoopIInv'
  OBVIOUS
<1>1. CASE LoopTick
  BY <1>1, TickStep
<1>2. CASE \E s \in Services, how \in {"slow", "down"} : ServiceFails(s, how)
  BY <1>2, ServiceFailsStep
<1>3. CASE ExecuterRestarts
  BY <1>3, ExecuterRestartsStep
<1>4. CASE \E c \in Controllers, s \in Services : Probe(c, s)
  BY <1>4, ProbeStep
<1>5. CASE \E c \in Controllers : GiveUp(c)
  BY <1>5, GiveUpStep
<1>6. CASE \E c \in Controllers, t \in Threads : Receive(t, c)
  BY <1>6, ReceiveStep
<1>7. CASE \E t \in Threads : ThreadStep(t)
  BY <1>7, SetCooldownStep, RunStep, FinishStep, ReplyStep DEF ThreadStep
<1>8. CASE UNCHANGED loopVars
  <2>1. UNCHANGED <<health, starting, cooldowns, thread, controller, faults, since>>
    BY <1>8 DEF loopVars, services
  <2>2. (\A t \in Threads : FoundItEnded(t)') /\ \A s \in Services : Covered(s)'
    BY <2>1 DEF LoopIInv, FoundItEnded, Covered
  <2>3. QED
    BY <2>1, <2>2 DEF LoopIInv
<1>9. CASE \E t \in Threads : Stops(t)
  BY <1>9, StopsStep
<1>10. QED
  BY <1>1, <1>2, <1>3, <1>4, <1>5, <1>6, <1>7, <1>8, <1>9 DEF LoopNext

-----------------------------------------------------------------------------
(* No two commands on one service at a time, but by races and long ones.   *)

\* A step that sets no cooldown and lets no time pass keeps what it says if each thread is
\* where it was, or ran and is now with docker, or is now outside a command.
GoesOn(t) ==
  \/ thread'[t].pc \in {"idle", "reply"}
  \/ /\ thread'[t].service = thread[t].service /\ thread'[t].raced = thread[t].raced
     /\ \/ thread'[t].pc = thread[t].pc /\ thread'[t].age = thread[t].age
        \/ thread[t].pc = "run" /\ thread'[t].pc = "docker" /\ thread'[t].age = 0

\* What lasts goes on to last.
LEMMA GoesOnLasting ==
  ASSUME LoopIInv, NEW t \in Threads, GoesOn(t), Commands(thread'[t]), Lasting(thread[t])
  PROVE  Lasting(thread'[t])
<1>1. ThreadFits(thread[t]) /\ thread[t].age \in Nat
  BY DEF LoopIInv, ThreadFits, ThreadRec
<1>2. CASE thread'[t].pc = thread[t].pc /\ thread'[t].age = thread[t].age
  BY <1>2 DEF Lasting, AtMost
<1>3. CASE thread[t].pc = "run" /\ thread'[t].pc = "docker" /\ thread'[t].age = 0
  <2>1. AtMost(thread[t]) = thread[t].age /\ AtMost(thread'[t]) = MaxStall
    BY <1>3, LoopAssumption DEF AtMost
  <2>2. thread[t].age <= MaxStall
    BY <1>1, <1>3 DEF ThreadFits
  <2>3. QED
    BY <1>1, <2>1, <2>2, LoopAssumption DEF Lasting
<1>4. QED
  BY <1>2, <1>3 DEF GoesOn, Commands

LEMMA GoesOnStep ==
  ASSUME LoopIInv, OverlapIInv, UNCHANGED cooldowns, \A t \in Threads : GoesOn(t)
  PROVE  OverlapIInv'
<1>1. ASSUME NEW t \in Threads PROVE StillCooling(t)'
  <2> SUFFICES ASSUME Commands(thread'[t])
               PROVE  cooldowns'[thread'[t].service] + AtMost(thread'[t]) + MaxStall >= CooldownTime
    BY DEF StillCooling
  <2>1. /\ Commands(thread[t]) /\ thread'[t].service = thread[t].service
        /\ StillCooling(t) /\ ThreadFits(thread[t]) /\ thread[t].age \in Nat
        /\ thread[t].service \in Services /\ cooldowns[thread[t].service] \in Nat
    BY DEF GoesOn, Commands, OverlapIInv, LoopIInv, ThreadFits, ThreadRec
  <2>2. CASE thread'[t].pc = thread[t].pc /\ thread'[t].age = thread[t].age
    BY <2>1, <2>2 DEF StillCooling, AtMost
  <2>3. CASE thread[t].pc = "run" /\ thread'[t].pc = "docker" /\ thread'[t].age = 0
    <3>1. AtMost(thread[t]) = thread[t].age /\ AtMost(thread'[t]) = MaxStall + 0
      BY <2>3 DEF AtMost
    <3>2. thread[t].age <= MaxStall
      BY <2>1, <2>3 DEF ThreadFits
    <3>3. cooldowns[thread[t].service] + thread[t].age + MaxStall >= CooldownTime
      BY <2>1, <3>1 DEF StillCooling
    <3>4. QED
      BY <2>1, <3>1, <3>2, <3>3, LoopAssumption
  <2>4. QED
    BY <2>1, <2>2, <2>3 DEF GoesOn, Commands
<1>2. ASSUME NEW t \in Threads, NEW u \in Threads, t # u PROVE OneIsRaced(t, u)'
  <2> SUFFICES ASSUME Commands(thread'[t]), thread'[u].pc = "set" \/ Commands(thread'[u]),
                      thread'[t].service = thread'[u].service
               PROVE  \/ thread'[t].raced \/ thread'[u].raced
                      \/ Lasting(thread'[t]) \/ Lasting(thread'[u])
    BY DEF OneIsRaced
  <2>1. /\ Commands(thread[t]) /\ (thread[u].pc = "set" \/ Commands(thread[u]))
        /\ thread[t].service = thread[u].service
        /\ thread'[t].raced = thread[t].raced /\ thread'[u].raced = thread[u].raced
    BY DEF GoesOn, Commands
  <2>2. \/ thread[t].raced \/ thread[u].raced
        \/ Lasting(thread[t]) \/ Lasting(thread[u])
    BY <1>2, <2>1 DEF OverlapIInv, OneIsRaced
  <2>3. Lasting(thread[u]) => Commands(thread'[u])
    BY DEF GoesOn, Lasting, Commands
  <2>4. QED
    BY <2>1, <2>2, <2>3, GoesOnLasting
<1>3. QED
  BY <1>1, <1>2 DEF OverlapIInv

\* A command whose cooldown has ended lasts.
LEMMA NotEnded ==
  ASSUME LoopIInv, OverlapIInv, NEW t \in Threads, Commands(thread[t]),
         cooldowns[thread[t].service] = 0
  PROVE  Lasting(thread[t])
<1>1. StillCooling(t) /\ ThreadFits(thread[t]) /\ thread[t].age \in Nat
  BY DEF OverlapIInv, LoopIInv, ThreadFits, ThreadRec
<1>2. AtMost(thread[t]) \in Nat
  BY <1>1, LoopAssumption DEF AtMost
<1>3. 0 + AtMost(thread[t]) + MaxStall >= CooldownTime
  BY <1>1 DEF StillCooling
<1>4. QED
  BY <1>2, <1>3, LoopAssumption DEF Lasting

LEMMA TickOverlap == ASSUME LoopIInv, OverlapIInv, LoopTick PROVE OverlapIInv'
<1>1. ASSUME NEW t \in Threads PROVE StillCooling(t)'
  <2> SUFFICES ASSUME Commands(thread'[t])
               PROVE  cooldowns'[thread'[t].service] + AtMost(thread'[t]) + MaxStall >= CooldownTime
    BY DEF StillCooling
  <2> DEFINE s == thread[t].service
  <2>1. /\ thread'[t].pc = thread[t].pc /\ thread'[t].service = s
        /\ thread'[t].age = thread[t].age + 1 /\ Commands(thread[t])
    BY TickAges DEF Commands
  <2>2. StillCooling(t) /\ thread[t].age \in Nat /\ s \in Services
    BY <2>1 DEF OverlapIInv, LoopIInv, ThreadFits, ThreadRec, Commands
  <2>3. cooldowns'[s] = Less(cooldowns[s]) /\ cooldowns[s] \in Nat
    BY <2>2 DEF LoopTick, LoopIInv
  <2>4. AtMost(thread'[t]) = AtMost(thread[t]) + 1 /\ AtMost(thread[t]) \in Nat
    BY <2>1, <2>2, LoopAssumption DEF AtMost
  <2>5. cooldowns[s] + AtMost(thread[t]) + MaxStall >= CooldownTime
    BY <2>1, <2>2 DEF StillCooling
  <2> HIDE DEF s
  <2>6. QED
    BY <2>1, <2>3, <2>4, <2>5, LoopAssumption DEF Less
<1>2. ASSUME NEW t \in Threads, Lasting(thread[t]) PROVE Lasting(thread'[t])
  <2>1. thread[t].age \in Nat /\ Commands(thread[t])
    BY <1>2 DEF LoopIInv, ThreadFits, ThreadRec, Lasting
  <2>2. thread'[t].pc = thread[t].pc /\ thread'[t].age = thread[t].age + 1
    BY <2>1, TickAges DEF Commands
  <2>3. AtMost(thread'[t]) = AtMost(thread[t]) + 1 /\ AtMost(thread[t]) \in Nat
    BY <2>1, <2>2, LoopAssumption DEF AtMost
  <2>4. Commands(thread'[t])
    BY <2>1, <2>2 DEF Commands
  <2>5. QED
    BY <1>2, <2>3, <2>4, LoopAssumption DEF Lasting
<1>3. ASSUME NEW t \in Threads, NEW u \in Threads, t # u PROVE OneIsRaced(t, u)'
  BY <1>2, <1>3, TickAges DEF OverlapIInv, OneIsRaced, Commands
<1>4. QED
  BY <1>1, <1>3 DEF OverlapIInv

LEMMA ReceiveOverlap ==
  ASSUME LoopIInv, OverlapIInv, NEW t \in Threads, NEW c \in Controllers,
         Receive(t, c)
  PROVE  OverlapIInv'
<1>1. CASE UNCHANGED thread
  <2>1. \A u \in Threads : GoesOn(u)
    BY <1>1 DEF GoesOn
  <2>2. QED
    BY <2>1, GoesOnStep DEF Receive
<1>2. CASE ~Refused(c)
  <2> DEFINE s == controller[c].service
  <2>1. /\ UNCHANGED cooldowns
        /\ \A u \in Threads : u # t => thread'[u] = thread[u]
        /\ thread'[t].pc = "set" /\ thread'[t].service = s
    BY <1>2 DEF Receive, LoopIInv
  <2>2. cooldowns[s] = 0
    <3>1. s \in Services
      BY DEF Receive, LoopIInv, ControllerFits
    <3>2. QED
      BY <1>2, <3>1, LoopAssumption DEF Refused, LoopIInv
  <2>3. \A u \in Threads : Commands(thread[u]) /\ thread[u].service = s => Lasting(thread[u])
    BY <2>2, NotEnded
  <2>4. ~Commands(thread'[t])
    BY <2>1 DEF Commands
  <2> HIDE DEF s
  <2>5. \A u \in Threads : StillCooling(u)'
    BY <2>1, <2>4 DEF StillCooling, OverlapIInv
  <2>6. ASSUME NEW u \in Threads, NEW v \in Threads, u # v PROVE OneIsRaced(u, v)'
    <3>1. CASE u = t
      BY <3>1, <2>4 DEF OneIsRaced
    <3>2. CASE v = t
      BY <2>6, <3>2, <2>1, <2>3 DEF OneIsRaced
    <3>3. CASE u # t /\ v # t
      BY <2>6, <3>3, <2>1 DEF OneIsRaced, OverlapIInv
    <3>4. QED
      BY <3>1, <3>2, <3>3
  <2>7. QED
    BY <2>5, <2>6 DEF OverlapIInv
<1>3. QED
  BY <1>1, <1>2 DEF Receive

LEMMA SetCooldownOverlap ==
  ASSUME LoopIInv, OverlapIInv, NEW t \in Threads, SetCooldown(t)
  PROVE  OverlapIInv'
<1> DEFINE s == thread[t].service
           a == thread[t].age
<1>1. s \in Services /\ a \in Nat /\ a <= MaxStall /\ thread[t].pc = "set"
  BY DEF SetCooldown, LoopIInv, ThreadFits, ThreadRec
<1>2. cooldowns' = [cooldowns EXCEPT ![s] = CooldownTime - a]
  BY DEF SetCooldown, Ending
<1> HIDE DEF s, a
<1>3. cooldowns'[s] = CooldownTime - a /\ \A x \in Services : x # s => cooldowns'[x] = cooldowns[x]
  BY <1>1, <1>2 DEF LoopIInv
<1>4. ASSUME NEW u \in Threads PROVE StillCooling(u)'
  <2> SUFFICES ASSUME Commands(thread'[u])
               PROVE  cooldowns'[thread'[u].service] + AtMost(thread'[u]) + MaxStall >= CooldownTime
    BY DEF StillCooling
  <2>1. /\ thread'[u].service = thread[u].service /\ thread'[u].age = thread[u].age
        /\ thread'[u].age \in Nat /\ thread'[u].service \in Services
    <3>1. /\ thread'[u].service = thread[u].service /\ thread'[u].age = thread[u].age
          /\ ThreadFits(thread'[u])
      BY SetCooldownThreads
    <3>2. QED
      BY <3>1 DEF ThreadFits, ThreadRec, Commands
  <2>2. AtMost(thread'[u]) \in Nat
    BY <2>1, LoopAssumption DEF AtMost
  <2>3. CASE thread'[u].service = s
    <3>1. cooldowns'[thread'[u].service] = CooldownTime - a
      BY <2>3, <1>3
    <3>2. QED
      BY <3>1, <2>2, <1>1, LoopAssumption
  <2>4. CASE thread'[u].service # s
    <3>1. u # t /\ thread'[u].pc = thread[u].pc
      BY <2>4, <2>1, SetCooldownThreads DEF s
    <3>2. Commands(thread[u]) /\ AtMost(thread[u]) = AtMost(thread'[u]) /\ StillCooling(u)
      BY <2>1, <3>1 DEF Commands, AtMost, OverlapIInv
    <3>3. cooldowns'[thread'[u].service] = cooldowns[thread[u].service]
      BY <2>1, <2>4, <1>3
    <3>4. QED
      BY <3>2, <3>3 DEF StillCooling
  <2>5. QED
    BY <2>3, <2>4
<1>5. ASSUME NEW u \in Threads, NEW v \in Threads, u # v PROVE OneIsRaced(u, v)'
  <2> SUFFICES ASSUME Commands(thread'[u]), thread'[v].pc = "set" \/ Commands(thread'[v]),
                      thread'[u].service = thread'[v].service
               PROVE  \/ thread'[u].raced \/ thread'[v].raced
                      \/ Lasting(thread'[u]) \/ Lasting(thread'[v])
    BY DEF OneIsRaced
  <2>0. \A w \in Threads : Lasting(thread[w]) => Lasting(thread'[w])
    <3>1. \A w \in Threads : Commands(thread[w]) => w # t
      BY <1>1 DEF Commands
    <3>2. QED
      BY <3>1, SetCooldownThreads DEF Lasting, Commands, AtMost
  <2>1. thread[u].service = thread[v].service
    BY SetCooldownThreads
  <2>2. CASE u # t /\ v # t
    <3>1. /\ Commands(thread[u]) /\ (thread[v].pc = "set" \/ Commands(thread[v]))
          /\ (thread[u].raced => thread'[u].raced) /\ (thread[v].raced => thread'[v].raced)
          /\ (Lasting(thread[u]) => Lasting(thread'[u]))
          /\ (Lasting(thread[v]) => Lasting(thread'[v]))
      BY <2>0, <2>2, SetCooldownThreads DEF Commands
    <3>2. QED
      BY <3>1, <2>1, <1>5 DEF OverlapIInv, OneIsRaced
  <2>3. CASE u = t
    <3>1. v # t /\ thread'[v].pc = thread[v].pc
      BY <2>3, <1>5, SetCooldownThreads
    <3>2. CASE thread[v].pc = "set"
      BY <3>1, <3>2, <2>1, <2>3, SetCooldownThreads
    <3>3. CASE Commands(thread[v])
      <4>1. \/ thread[v].raced \/ thread[u].raced
            \/ Lasting(thread[v]) \/ Lasting(thread[u])
        BY <3>1, <3>3, <2>1, <2>3, <1>1 DEF OverlapIInv, OneIsRaced
      <4>2. (thread[u].raced => thread'[u].raced) /\ (thread[v].raced => thread'[v].raced)
        BY <2>3, <3>1, SetCooldownThreads
      <4>3. QED
        BY <2>0, <4>1, <4>2
    <3>4. QED
      BY <3>1, <3>2, <3>3 DEF Commands
  <2>4. CASE v = t
    <3>1. u # t /\ Commands(thread[u])
      BY <2>4, <1>5, SetCooldownThreads DEF Commands
    <3>2. \/ thread[u].raced \/ thread[v].raced
          \/ Lasting(thread[u]) \/ Lasting(thread[v])
      BY <3>1, <2>1, <2>4, <1>1, <1>5 DEF OverlapIInv, OneIsRaced
    <3>3. (thread[u].raced => thread'[u].raced) /\ (thread[v].raced => thread'[v].raced)
      BY <2>4, <3>1, SetCooldownThreads
    <3>4. QED
      BY <2>0, <3>2, <3>3
  <2>5. QED
    BY <2>2, <2>3, <2>4
<1>6. QED
  BY <1>4, <1>5 DEF OverlapIInv

LEMMA OverlapStep ==
  ASSUME LoopIInv, OverlapIInv, [LoopNext]_loopVars
  PROVE  OverlapIInv'
<1>1. CASE LoopTick
  BY <1>1, TickOverlap
<1>2. CASE \E c \in Controllers, t \in Threads : Receive(t, c)
  BY <1>2, ReceiveOverlap
<1>3. CASE \E t \in Threads : SetCooldown(t)
  BY <1>3, SetCooldownOverlap
<1>4. CASE ExecuterRestarts
  <2>1. \A t \in Threads : thread'[t] = FreeThread
    BY <1>4 DEF ExecuterRestarts
  <2>2. QED
    BY <2>1, FreeFits DEF OverlapIInv, StillCooling, OneIsRaced
<1>5. CASE \/ UNCHANGED loopVars
           \/ \E s \in Services, how \in {"slow", "down"} : ServiceFails(s, how)
           \/ \E c \in Controllers, s \in Services : Probe(c, s)
           \/ \E t \in Threads : Stops(t)
  <2>1. UNCHANGED <<cooldowns, thread>>
    BY <1>5 DEF loopVars, ServiceFails, Probe, Stops
  <2>2. QED
    BY <2>1, GoesOnStep DEF GoesOn
<1>6. CASE \E c \in Controllers : GiveUp(c)
  <2>1. PICK c \in Controllers : GiveUp(c)
    BY <1>6
  <2>2. ASSUME NEW t \in Threads PROVE GoesOn(t)
    <3>1. thread'[t] \in {thread[t], [thread[t] EXCEPT !.client = Nobody]}
      BY <2>1 DEF GiveUp
    <3>2. thread[t] \in ThreadRec
      BY DEF LoopIInv, ThreadFits
    <3>3. QED
      BY <3>1, <3>2 DEF GoesOn, ThreadRec
  <2>3. QED
    BY <2>1, <2>2, GoesOnStep DEF GiveUp
<1>7. CASE \E t \in Threads : Run(t) \/ Finish(t)
  <2>1. PICK t \in Threads : Run(t) \/ Finish(t)
    BY <1>7
  <2>2. UNCHANGED cooldowns /\ thread[t].pc \in {"run", "docker"}
    BY <2>1 DEF Run, Finish
  <2>3. PICK p \in {"docker", "reply"} :
          /\ thread' = [thread EXCEPT ![t].pc = p, ![t].age = 0]
          /\ p = "docker" => thread[t].pc = "run"
    BY <2>1 DEF Run, Finish
  <2>4. \A u \in Threads : GoesOn(u)
    BY <2>2, <2>3, MovedThread DEF GoesOn
  <2>5. QED
    BY <2>2, <2>4, GoesOnStep
<1>8. CASE \E t \in Threads : Reply(t)
  <2>1. PICK t \in Threads : Reply(t)
    BY <1>8
  <2>2. \A u \in Threads : thread'[u] = IF u = t THEN FreeThread ELSE thread[u]
    BY <2>1 DEF Reply, LoopIInv
  <2>3. \A u \in Threads : GoesOn(u)
    BY <2>2, FreeFits DEF GoesOn
  <2>4. QED
    BY <2>1, <2>3, GoesOnStep DEF Reply
<1>9. QED
  BY <1>1, <1>2, <1>3, <1>4, <1>5, <1>6, <1>7, <1>8 DEF LoopNext, ThreadStep

-----------------------------------------------------------------------------

\* The variables of the loop keep their types, and its ages their bounds.
THEOREM LoopIsTyped == LoopSpec => []LoopTypeOK
<1>1. QED
  BY LoopInitIInv, LoopStep, LoopTypes, PTL DEF LoopSpec

\* The check and the store of the cooldown (execute_action of the executer): the clock
\* readings of two accepted actions on one service are a cooldown apart, unless the later
\* one passed the check before the other had stored the cooldown.
THEOREM CooldownsKeepApart == LoopSpec => OnlyRacesShareACooldown
<1>1. LoopIInv /\ [LoopNext]_loopVars =>
        [\A t \in Threads :
           SetCooldown(t) /\ ~thread[t].raced
             => since[thread[t].service] >= CooldownTime + thread[t].age]_loopVars
  BY DEF LoopIInv, FoundItEnded, SetCooldown
<1>2. QED
  BY <1>1, LoopInitIInv, LoopStep, PTL DEF LoopSpec, OnlyRacesShareACooldown

\* All that the cooldown protects, however long docker's commands take: two of them are
\* underway on one service (execute_real_action) only if two requests raced, or one of the
\* commands has, but for two stalls, outlasted the cooldown.
THEOREM CooldownsProtect == LoopSpec => CooldownProtects
<1>1. LoopIInv /\ OverlapIInv /\ [LoopNext]_loopVars => LoopIInv' /\ OverlapIInv'
  BY LoopStep, OverlapStep
<1>2. LoopIInv /\ OverlapIInv => SecondCommandsAreLate
  <2> SUFFICES ASSUME LoopIInv, OverlapIInv, NEW t \in Threads, NEW u \in Threads, t # u,
                      thread[t].pc = "docker", thread[u].pc = "docker",
                      thread[t].service = thread[u].service
               PROVE  \/ thread[t].raced \/ thread[u].raced
                      \/ Nearly(thread[t].age) \/ Nearly(thread[u].age)
    BY DEF SecondCommandsAreLate
  <2>1. \/ thread[t].raced \/ thread[u].raced
        \/ Lasting(thread[t]) \/ Lasting(thread[u])
    BY DEF OverlapIInv, OneIsRaced, Commands
  <2>2. ASSUME NEW w \in Threads, thread[w].pc = "docker", Lasting(thread[w])
        PROVE  Nearly(thread[w].age)
    <3>1. thread[w].age \in Nat
      BY DEF LoopIInv, ThreadFits, ThreadRec
    <3>2. MaxStall + thread[w].age + MaxStall >= CooldownTime
      BY <2>2 DEF Lasting, AtMost
    <3>3. QED
      BY <3>1, <3>2, LoopAssumption DEF Nearly
  <2>3. QED
    BY <2>1, <2>2
<1>3. QED
  BY <1>1, <1>2, LoopInitIInv, LoopTypes, CooldownsKeepApart, PTL
  DEF LoopSpec, CooldownProtects

-----------------------------------------------------------------------------
(* DecisionPath: what a caller is told.                                    *)

Points == {"idle", "check", "reset", "calling", "count", "stamp", "answered", "success",
           "store", "done"}

\* What a caller has in hand at the end: a decision for lack of an answer, what the answer
\* came to, or an exception.
Told(c) ==
  \/ said[c] \in {Nothing, "garbled"} /\ result[c] = Nothing
  \/ said[c] \in {Nothing, "garbled"} /\ result[c] \in {Noop("sure"), Fallback}
  \/ said[c] \in {"list", "nested"} /\ result[c] = Nothing
  \/ LET action == IF said[c] = "missing" THEN "noop" ELSE said[c]
     IN /\ said[c] \in Answer \ {"garbled", "list"}
        /\ result[c] = [action |-> IF ask[c].entry = "pipe" THEN Executed(action) ELSE action,
                        confidence |-> "service"]

\* The call of one caller, whatever the others do.
CallInv(c) ==
  /\ pc[c] \in Points /\ stored[c] \in 0..MaxCount
  /\ pc[c] # "idle" => guard # "restraint"
  /\ ask[c] \in Asks(c) \cup {Nothing}
  /\ pc[c] # "done" => result[c] = Nothing
  /\ pc[c] \in {"idle", "check", "reset", "calling", "success", "store"} => said[c] = Nothing
  /\ pc[c] \in {"count", "stamp"} => said[c] \in {Nothing, "garbled"}
  /\ pc[c] = "answered" => said[c] \in Answer \ {"garbled"}
  /\ pc[c] = "done" => Told(c)
  /\ said[c] # Nothing => guard # "breaker" /\ (brain = "rules" => said[c] \in Scope)

SharedInv ==
  /\ guard \in {"client", "breaker", "restraint"} /\ env \in {"dev", "stage", "prod"}
  /\ enabled \in BOOLEAN /\ brain \in {"rules", "other"} /\ service \in {"up", "down"}
  /\ failures \in 0..MaxCount /\ age \in 0..Cooldown
  /\ state \in {"closed", "open", "half_open"} /\ success_count \in 0..1
  /\ tries \in Nat /\ halves \in Nat
  /\ config \in [confidence : Int, instability : Int, failures : Int]
  /\ signals \in Groups \cup {Nothing}
  /\ guard # "breaker" => state = "closed"
  /\ success_count = 1 => halves >= 1
RowsInv ==
  /\ pc = [c \in Callers |-> pc[c]] /\ ask = [c \in Callers |-> ask[c]]
  /\ stored = [c \in Callers |-> stored[c]]
  /\ said = [c \in Callers |-> said[c]] /\ result = [c \in Callers |-> result[c]]

PathIInv == SharedInv /\ RowsInv /\ \A c \in Callers : CallInv(c)

(* How often a service that does not answer is called.                     *)

\* Callers with a call that is not counted yet, with one that is counted and will be
\* stamped, and callers that are not on their way to wipe out what has been counted.
Calling  == {"calling", "count"}
Stamping == {"stamp"}
Harmless == Points \ {"reset", "success", "store"}
Number(P) == Cardinality({c \in Callers : pc[c] \in P})

\* What one wipe lets pass: failures up to the limit, the last of them in all callers.
Burst == MaxFailures + Cardinality(Callers) - 1
Room(n) == n * Burst

\* At the end of a cooldown each caller calls once before it is stamped; what it adds is
\* counted, or is going to be, unless another has just wiped it out.
AfterCooldown ==
  age = Cooldown =>
    /\ tries <= Number(Calling) + Number(Stamping)
    /\ tries >= 1 /\ state = "closed" =>
         \/ failures >= 1 \/ Number(Calling) >= 1
         \/ \E d \in Callers : pc[d] \in Harmless \ (Calling \cup Stamping)

\* Until the next one ends, wipers only become fewer, and what is called between two wipes
\* is counted, or is on its way.
BeforeCooldown ==
  age < Cooldown =>
    /\ tries <= Room(Number(Harmless))
    /\ Number(Harmless) >= 1 /\ state = "closed" /\ failures < MaxFailures =>
         tries <= Room(Number(Harmless) - 1) + failures + Number(Calling)
    /\ Number(Harmless) >= 1 /\ state = "closed" /\ failures >= MaxFailures
         /\ guard = "breaker" =>
         tries <= Room(Number(Harmless) - 1) + MaxFailures - 1
                    + Number(Calling) + Number(Stamping)
    /\ Number(Harmless) >= 1 /\ state = "half_open" =>
         tries <= Room(Number(Harmless) - 1) + Number(Calling) + Number(Stamping)

BurstIInv == AfterCooldown /\ BeforeCooldown

-----------------------------------------------------------------------------
(* The steps of one caller.                                                *)

SameRow(d) == /\ pc'[d] = pc[d] /\ ask'[d] = ask[d] /\ stored'[d] = stored[d]
              /\ said'[d] = said[d] /\ result'[d] = result[d]

\* A step of one caller leaves the setting and the rows of the others.
LEMMA OtherCalls ==
  ASSUME RowsInv, NEW c \in Callers, Step(c)
  PROVE  /\ RowsInv' /\ UNCHANGED <<guard, env, enabled, brain, config, signals>>
         /\ service' = service
         /\ \A d \in Callers : d # c => SameRow(d)
<1>1. CASE Ask(c)
  BY <1>1 DEF Ask, RowsInv, SameRow, setting, counters, GoTo, Return
<1>2. CASE Check(c)
  BY <1>2 DEF Check, RowsInv, SameRow, setting, counters, GoTo, Return
<1>3. CASE Reset(c)
  BY <1>3 DEF Reset, RowsInv, SameRow, setting, counters, GoTo, Return
<1>4. CASE Answered(c)
  <2>1. /\ \E p : pc' = [pc EXCEPT ![c] = p]
        /\ said' = said \/ \E a : said' = [said EXCEPT ![c] = a]
        /\ UNCHANGED <<setting, service, ask, stored, result, config, signals>>
    BY <1>4 DEF Answered, GoTo
  <2>2. QED
    BY <2>1 DEF RowsInv, SameRow, setting
<1>5. CASE Failed(c)
  BY <1>5 DEF Failed, RowsInv, SameRow, setting, counters, GoTo, Return
<1>6. CASE Count(c)
  BY <1>6 DEF Count, RowsInv, SameRow, setting, counters, GoTo, Return
<1>7. CASE Stamp(c)
  BY <1>7 DEF Stamp, RowsInv, SameRow, setting, counters, GoTo, Return
<1>8. CASE Succeed(c)
  BY <1>8 DEF Succeed, RowsInv, SameRow, setting, counters, GoTo, Return
<1>9. CASE Store(c)
  BY <1>9 DEF Store, RowsInv, SameRow, setting, counters, GoTo, Return
<1>10. CASE Conclude(c)
  BY <1>10 DEF Conclude, RowsInv, SameRow, setting, counters, GoTo, Return
<1>11. CASE Leave(c)
  BY <1>11 DEF Leave, RowsInv, SameRow, setting, counters, GoTo, Return
<1>12. QED
  BY <1>1, <1>2, <1>3, <1>4, <1>5, <1>6, <1>7, <1>8, <1>9, <1>10, <1>11 DEF Step

\* What is said of a caller is about its row and the setting.
LEMMA SameSetting ==
  ASSUME UNCHANGED <<guard, env, enabled, brain>>
  PROVE  /\ Scope' = Scope /\ SafetyRules' = SafetyRules
         /\ \A d \in Callers : Asks(d)' = Asks(d)
<1>1. Scope' = Scope /\ SafetyRules' = SafetyRules
  BY DEF Scope, SafetyRules
<1>2. \A d \in Callers : Asks(d)' = Asks(d)
  BY DEF Asks
<1>3. QED
  BY <1>1, <1>2

LEMMA SameCall ==
  ASSUME UNCHANGED <<guard, env, enabled, brain>>, NEW d \in Callers, CallInv(d), SameRow(d)
  PROVE  CallInv(d)'
<1>1. Scope' = Scope /\ SafetyRules' = SafetyRules /\ Asks(d)' = Asks(d)
  BY SameSetting
<1>2. Told(d) => Told(d)'
  BY <1>1 DEF Told, SameRow, Executed
<1>3. QED
  BY <1>1, <1>2 DEF CallInv, SameRow

\* A row after a step of its caller that ends where nothing is told yet.
LEMMA AskCall ==
  ASSUME RowsInv, NEW c \in Callers, CallInv(c), Ask(c), UNCHANGED <<guard, env, enabled, brain>>
  PROVE  CallInv(c)'
<1>1. /\ pc[c] = "idle" /\ result[c] = Nothing /\ said[c] = Nothing
      /\ stored[c] \in 0..MaxCount /\ ask[c] \in Asks(c) \cup {Nothing}
      /\ guard # "restraint"
  BY DEF Ask, CallInv
<1>2. said' = said /\ stored' = stored
  BY DEF Ask, counters
<1>3. Asks(c)' = Asks(c)
  BY SameSetting
<1>4. ask'[c] \in Asks(c) \cup {Nothing}
  BY <1>1 DEF Ask, RowsInv
<1>5. \/ pc'[c] = "check" /\ result'[c] = Nothing
      \/ pc'[c] = "done" /\ result'[c] \in {Nothing, Noop("sure")}
  <2>1. CASE guard = "breaker"
    BY <1>1, <2>1 DEF Ask, RowsInv, GoTo
  <2>2. CASE guard # "breaker"
    <3>1. PICK a \in Asks(c) :
            CASE ~a.event.valid -> Return(c, Noop("sure"))
              [] a.event.valid /\ a.entry = "query" /\ ~enabled -> Return(c, Noop("sure"))
              [] a.event.valid /\ (a.entry = "pipe" \/ enabled) /\ ~a.event.numeric ->
                   Return(c, Nothing)
              [] OTHER -> GoTo(c, "check") /\ UNCHANGED result
      BY <2>2 DEF Ask
    <3>2. \/ Return(c, Noop("sure")) \/ Return(c, Nothing)
          \/ GoTo(c, "check") /\ UNCHANGED result
      BY <3>1
    <3>3. QED
      BY <1>1, <3>2 DEF Return, GoTo, RowsInv
  <2>3. QED
    BY <2>1, <2>2
<1>6. Told(c)' \/ pc'[c] = "check"
  BY <1>1, <1>2, <1>5 DEF Told
<1>7. QED
  BY <1>1, <1>2, <1>3, <1>4, <1>5, <1>6 DEF CallInv, Points

LEMMA FallbackCall ==
  ASSUME NEW c \in Callers, CallInv(c), UNCHANGED <<guard, env, enabled, brain>>,
         pc[c] # "idle", said[c] \in {Nothing, "garbled"}, UNCHANGED <<ask, said, stored>>,
         pc'[c] = "done", result'[c] = Fallback
  PROVE  CallInv(c)'
<1>1. Scope' = Scope /\ Asks(c)' = Asks(c)
  BY SameSetting
<1>2. Told(c)'
  BY DEF Told, Fallback
<1>3. QED
  BY <1>1, <1>2 DEF CallInv, Points

\* A row that only moves on, to where the same is known.
LEMMA MovedCall ==
  ASSUME NEW c \in Callers, CallInv(c), UNCHANGED <<guard, env, enabled, brain>>,
         pc[c] # "done", stored'[c] \in 0..MaxCount, UNCHANGED <<ask, said, result>>,
         \/ /\ pc[c] \in {"check", "reset", "calling", "success", "store"}
            /\ pc'[c] \in {"reset", "calling", "success", "store", "count", "done"}
         \/ pc[c] = "count" /\ pc'[c] = "stamp"
  PROVE  CallInv(c)'
<1>1. Scope' = Scope /\ Asks(c)' = Asks(c)
  BY SameSetting
<1>2. result[c] = Nothing
  BY DEF CallInv
<1>3. pc'[c] = "done" => Told(c)'
  BY <1>2 DEF Told, CallInv
<1>4. QED
  BY <1>1, <1>2, <1>3 DEF CallInv, Points

LEMMA AdviceInScope ==
  ASSUME NEW e PROVE Advice(e) \in Scope /\ Advice(e) \in Actions
<1>1. "noop" \in Scope
  BY DEF Scope
<1>2. Proposed(e) \in Actions
  BY DEF Proposed, Actions
<1>3. QED
  BY <1>1, <1>2 DEF Advice, Actions

LEMMA AnsweredCall ==
  ASSUME RowsInv, SharedInv, NEW c \in Callers, CallInv(c), Answered(c),
         UNCHANGED <<guard, env, enabled, brain>>
  PROVE  CallInv(c)'
<1>1. /\ pc[c] = "calling" /\ result[c] = Nothing /\ said[c] = Nothing
      /\ stored[c] \in 0..MaxCount /\ ask[c] \in Asks(c) \cup {Nothing}
  BY DEF Answered, CallInv
<1>2. UNCHANGED <<ask, stored, result>>
  BY DEF Answered
<1>3. Scope' = Scope /\ Asks(c)' = Asks(c)
  BY SameSetting
<1>4. CASE guard = "breaker"
  <2>1. pc'[c] = "success" /\ UNCHANGED said
    BY <1>4 DEF Answered, GoTo, RowsInv
  <2>2. QED
    BY <1>1, <1>2, <2>1, MovedCall
<1>5. CASE guard # "breaker"
  <2>1. PICK a \in (IF brain = "rules" THEN {Advice(ask[c].event)} ELSE Answers) :
          /\ said' = [said EXCEPT ![c] = a]
          /\ GoTo(c, IF a = "garbled" THEN "count" ELSE "answered")
    BY <1>5 DEF Answered
  <2>2. a \in Answer /\ (brain = "rules" => a \in Scope)
    <3>1. CASE brain = "rules"
      BY <3>1, <2>1, AdviceInScope DEF Answer
    <3>2. CASE brain # "rules"
      BY <3>2, <2>1, AnswerAssumption
    <3>3. QED
      BY <3>1, <3>2
  <2>3. said'[c] = a /\ pc'[c] = IF a = "garbled" THEN "count" ELSE "answered"
    BY <2>1 DEF GoTo, RowsInv
  <2>4. QED
    BY <1>1, <1>2, <1>3, <1>5, <2>2, <2>3 DEF CallInv, Points
<1>6. QED
  BY <1>4, <1>5

LEMMA ConcludeCall ==
  ASSUME RowsInv, NEW c \in Callers, CallInv(c), Conclude(c),
         UNCHANGED <<guard, env, enabled, brain>>
  PROVE  CallInv(c)'
<1> DEFINE action == IF said[c] = "missing" THEN "noop" ELSE said[c]
           raises == said[c] = "list" \/ (said[c] = "nested" /\ ask[c].entry = "pipe")
<1>1. /\ pc[c] = "answered" /\ result[c] = Nothing /\ said[c] \in Answer \ {"garbled"}
      /\ stored[c] \in 0..MaxCount /\ ask[c] \in Asks(c) \cup {Nothing}
  BY DEF Conclude, CallInv
<1>2. UNCHANGED <<ask, stored, said>>
  BY DEF Conclude, counters
<1>3. Scope' = Scope /\ SafetyRules' = SafetyRules /\ Asks(c)' = Asks(c)
  BY SameSetting
<1>4. /\ pc'[c] = "done"
      /\ result'[c] = IF raises THEN Nothing
                      ELSE [action |-> IF ask[c].entry = "pipe" THEN Executed(action) ELSE action,
                            confidence |-> "service"]
  BY DEF Conclude, Return, GoTo, RowsInv
<1>5. Executed(action)' = Executed(action)
  BY <1>2, <1>3 DEF Executed
<1>6. Told(c)'
  <2>1. CASE raises
    BY <2>1, <1>2, <1>4 DEF Told
  <2>2. CASE ~raises
    <3>1. result'[c] = [action |-> IF ask'[c].entry = "pipe" THEN Executed(action)' ELSE action',
                        confidence |-> "service"]
      BY <2>2, <1>2, <1>4, <1>5
    <3>2. said'[c] \in Answer \ {"garbled", "list"}
      BY <1>1, <1>2, <2>2
    <3>3. QED
      BY <3>1, <3>2 DEF Told
  <2>3. QED
    BY <2>1, <2>2
<1>7. QED
  BY <1>1, <1>2, <1>3, <1>4, <1>6 DEF CallInv, Points

LEMMA LeaveCall ==
  ASSUME RowsInv, NEW c \in Callers, CallInv(c), Leave(c), UNCHANGED <<guard, env, enabled, brain>>
  PROVE  CallInv(c)'
<1>1. /\ pc'[c] = "idle" /\ ask'[c] = Nothing /\ said'[c] = Nothing /\ result'[c] = Nothing
      /\ stored'[c] = stored[c]
  BY DEF Leave, RowsInv, GoTo, counters
<1>2. QED
  BY <1>1 DEF CallInv, Points

LEMMA StepCall ==
  ASSUME SharedInv, RowsInv, NEW c \in Callers, CallInv(c), Step(c)
  PROVE  CallInv(c)'
<1> USE OtherCalls
<1>1. UNCHANGED <<guard, env, enabled, brain>>
  OBVIOUS
<1>2. CASE Ask(c)
  BY <1>1, <1>2, AskCall
<1>3. CASE Check(c)
  <2>1. /\ pc[c] = "check" /\ said[c] = Nothing /\ stored[c] \in 0..MaxCount
        /\ UNCHANGED <<ask, said, stored>>
    BY <1>3 DEF Check, CallInv
  <2>2. \/ pc'[c] = "done" /\ result'[c] = Fallback
        \/ pc'[c] \in {"reset", "calling"} /\ UNCHANGED result
    BY <1>3 DEF Check, Return, GoTo, RowsInv
  <2>3. CASE pc'[c] = "done" /\ result'[c] = Fallback
    BY <1>1, <2>1, <2>3, FallbackCall
  <2>4. CASE pc'[c] \in {"reset", "calling"} /\ UNCHANGED result
    BY <1>1, <2>1, <2>4, MovedCall
  <2>5. QED
    BY <2>2, <2>3, <2>4
<1>4. CASE Reset(c)
  <2>1. /\ pc[c] = "reset" /\ pc'[c] = "calling" /\ UNCHANGED <<ask, said, stored, result>>
        /\ stored[c] \in 0..MaxCount
    BY <1>4 DEF Reset, GoTo, RowsInv, CallInv
  <2>2. QED
    BY <1>1, <2>1, MovedCall
<1>5. CASE Answered(c)
  BY <1>1, <1>5, AnsweredCall
<1>6. CASE Failed(c)
  <2>1. /\ pc[c] = "calling" /\ pc'[c] = "count" /\ UNCHANGED <<ask, said, stored, result>>
        /\ stored[c] \in 0..MaxCount
    BY <1>6 DEF Failed, GoTo, RowsInv, CallInv, counters
  <2>2. QED
    BY <1>1, <2>1, MovedCall
<1>7. CASE Count(c)
  <2>1. /\ pc[c] = "count" /\ pc'[c] = "stamp" /\ UNCHANGED <<ask, said, stored, result>>
        /\ stored[c] \in 0..MaxCount
    BY <1>7 DEF Count, GoTo, RowsInv, CallInv
  <2>2. QED
    BY <1>1, <2>1, MovedCall
<1>8. CASE Stamp(c)
  <2>1. /\ pc[c] = "stamp" /\ said[c] \in {Nothing, "garbled"} /\ UNCHANGED <<ask, said, stored>>
        /\ pc'[c] = "done" /\ result'[c] = Fallback
    BY <1>8 DEF Stamp, Return, GoTo, RowsInv, CallInv
  <2>2. QED
    BY <1>1, <2>1, FallbackCall
<1>9. CASE Succeed(c)
  <2>1. /\ pc[c] = "success" /\ pc'[c] \in {"done", "store"} /\ UNCHANGED <<ask, said, result>>
    BY <1>9 DEF Succeed, GoTo, RowsInv
  <2>2. stored'[c] \in 0..MaxCount
    <3>1. stored[c] \in 0..MaxCount /\ failures \in 0..MaxCount
      BY DEF CallInv, SharedInv
    <3>2. stored' = stored \/ stored'[c] = IF failures = 0 THEN 0 ELSE failures - 1
      BY <1>9 DEF Succeed, RowsInv
    <3>3. QED
      BY <3>1, <3>2, DecisionAssumption
  <2>3. QED
    BY <1>1, <2>1, <2>2, MovedCall
<1>10. CASE Store(c)
  <2>1. /\ pc[c] = "store" /\ pc'[c] = "done" /\ UNCHANGED <<ask, said, result>>
        /\ stored'[c] \in 0..MaxCount
    BY <1>10, DecisionAssumption DEF Store, GoTo, RowsInv
  <2>2. QED
    BY <1>1, <2>1, MovedCall
<1>11. CASE Conclude(c)
  BY <1>1, <1>11, ConcludeCall
<1>12. CASE Leave(c)
  BY <1>1, <1>12, LeaveCall
<1>13. QED
  BY <1>2, <1>3, <1>4, <1>5, <1>6, <1>7, <1>8, <1>9, <1>10, <1>11, <1>12 DEF Step

-----------------------------------------------------------------------------
(* The counters, and the invariant of the path.                            *)

LEMMA StepShared ==
  ASSUME SharedInv, RowsInv, NEW c \in Callers, CallInv(c), Step(c)
  PROVE  SharedInv'
<1> DEFINE Rest == /\ failures' \in 0..MaxCount /\ age' \in 0..Cooldown
                   /\ state' \in {"closed", "open", "half_open"} /\ success_count' \in 0..1
                   /\ tries' \in Nat /\ halves' \in Nat
                   /\ guard # "breaker" => state' = "closed"
                   /\ success_count' = 1 => halves' >= 1
<1>1. SUFFICES Rest
  BY OtherCalls DEF SharedInv
<1>2. /\ failures \in 0..MaxCount /\ age \in 0..Cooldown /\ failures \in Nat
      /\ state \in {"closed", "open", "half_open"} /\ success_count \in 0..1
      /\ tries \in Nat /\ halves \in Nat /\ 0 \in 0..MaxCount /\ 0 \in 0..Cooldown
      /\ guard # "breaker" => state = "closed"
      /\ success_count = 1 => halves >= 1
  BY DecisionAssumption DEF SharedInv
<1>3. CASE Ask(c) \/ Failed(c) \/ Conclude(c) \/ Leave(c)
  BY <1>2, <1>3 DEF Ask, Failed, Conclude, Leave, counters
<1>4. CASE Check(c)
  <2>1. tries' \in {tries, tries + 1}
    BY <1>4 DEF Check
  <2>2. QED
    BY <1>2, <1>4, <2>1 DEF Check
<1>5. CASE Reset(c)
  <2>1. tries' = tries + 1 /\ UNCHANGED <<age, success_count, halves>>
    BY <1>5 DEF Reset
  <2>2. CASE guard = "client"
    BY <1>2, <1>5, <2>1, <2>2 DEF Reset
  <2>3. CASE guard = "breaker"
    BY <1>2, <1>5, <2>1, <2>3 DEF Reset
  <2>4. CASE guard = "restraint"
    <3>1. pc[c] = "reset"
      BY <1>5 DEF Reset
    <3>2. FALSE
      BY <3>1, <2>4 DEF CallInv
    <3>3. QED
      BY <3>2
  <2>5. QED
    BY <2>2, <2>3, <2>4 DEF SharedInv
<1>6. CASE Answered(c)
  <2>1. /\ tries' = 0 /\ failures' \in {0, failures}
        /\ UNCHANGED <<age, state, success_count, halves>>
    BY <1>6 DEF Answered
  <2>2. QED
    BY <1>2, <2>1
<1>7. CASE Count(c)
  <2>1. Counted \in 0..MaxCount
    BY <1>2, DecisionAssumption DEF Counted
  <2>2. QED
    BY <1>2, <1>7, <2>1 DEF Count
<1>8. CASE Stamp(c)
  BY <1>2, <1>8 DEF Stamp
<1>9. CASE Succeed(c)
  <2>1. UNCHANGED <<age, tries>>
    BY <1>9 DEF Succeed
  <2>2. CASE state = "half_open" /\ success_count + 1 >= Needed
    <3>1. success_count' = 0 /\ state' = "closed" /\ failures' = 0 /\ halves' = 0
      BY <1>9, <2>2 DEF Succeed
    <3>2. QED
      BY <1>2, <2>1, <3>1
  <2>3. CASE state = "half_open" /\ ~(success_count + 1 >= Needed)
    <3>1. /\ success_count' = success_count + 1 /\ state' = state /\ failures' = failures
          /\ halves' = halves + 1
      BY <1>9, <2>3 DEF Succeed
    <3>2. success_count = 0
      BY <1>2, <2>3 DEF Needed
    <3>3. QED
      BY <1>2, <2>1, <3>1, <3>2
  <2>4. CASE state # "half_open"
    BY <1>2, <1>9, <2>1, <2>4 DEF Succeed
  <2>5. QED
    BY <2>2, <2>3, <2>4
<1>10. CASE Store(c)
  <2>1. /\ pc[c] = "store" /\ failures' = stored[c]
        /\ UNCHANGED <<age, state, success_count, tries, halves>>
    BY <1>10 DEF Store
  <2>2. stored[c] \in 0..MaxCount
    BY DEF CallInv
  <2>3. QED
    BY <1>2, <2>1, <2>2
<1>11. QED
  BY <1>3, <1>4, <1>5, <1>6, <1>7, <1>8, <1>9, <1>10 DEF Step

LEMMA PathInit == Init => PathIInv
<1> SUFFICES ASSUME Init PROVE PathIInv
  OBVIOUS
<1>1. PICK x \in Settings : env = x.env /\ enabled = x.enabled /\ brain = x.brain
  BY DEF Init
<1>2. env \in {"dev", "stage", "prod"} /\ enabled \in BOOLEAN /\ brain \in {"rules", "other"}
  BY <1>1, DecisionAssumption
<1>3. /\ guard \in {"client", "breaker", "restraint"} /\ service = "up"
      /\ failures = 0 /\ age = Cooldown /\ state = "closed" /\ success_count = 0
      /\ tries = 0 /\ halves = 0 /\ signals = Nothing /\ config = Defaults
  BY DEF Init
<1>4. config \in [confidence : Int, instability : Int, failures : Int]
  BY <1>3 DEF Defaults
<1>5. SharedInv
  BY <1>2, <1>3, <1>4, DecisionAssumption DEF SharedInv
<1>6. RowsInv
  BY DEF Init, RowsInv
<1>7. \A c \in Callers : pc[c] = "idle" /\ ask[c] = Nothing /\ stored[c] = 0
                           /\ said[c] = Nothing /\ result[c] = Nothing
  BY DEF Init
<1>8. \A c \in Callers : CallInv(c)
  BY <1>7, DecisionAssumption DEF CallInv, Points
<1>9. QED
  BY <1>5, <1>6, <1>8 DEF PathIInv

LEMMA PathStep == PathIInv /\ [Next]_vars => PathIInv'
<1> SUFFICES ASSUME PathIInv, [Next]_vars PROVE PathIInv'
  OBVIOUS
<1>1. CASE \E c \in Callers : Step(c)
  <2>1. PICK c \in Callers : Step(c)
    BY <1>1
  <2>2. SharedInv' /\ RowsInv' /\ CallInv(c)'
    BY <2>1, StepShared, StepCall, OtherCalls DEF PathIInv
  <2>3. ASSUME NEW d \in Callers, d # c PROVE CallInv(d)'
    BY <2>1, <2>3, OtherCalls, SameCall DEF PathIInv
  <2>4. QED
    BY <2>2, <2>3 DEF PathIInv
<1>2. CASE Tick \/ Turn \/ Evaluate \/ UpdateConfig \/ UNCHANGED vars
  <2>1. UNCHANGED <<setting, pc, ask, stored, said, result, failures, state, success_count, halves>>
    BY <1>2 DEF Tick, Turn, Evaluate, UpdateConfig, counters, vars
  <2>2. \A d \in Callers : CallInv(d)'
    BY <2>1, SameCall DEF PathIInv, SameRow, setting
  <2>3. RowsInv'
    BY <2>1 DEF PathIInv, RowsInv
  <2>4. SharedInv'
    <3>1. /\ age' \in 0..Cooldown /\ tries' \in Nat
      BY <1>2, DecisionAssumption DEF PathIInv, SharedInv, Tick, Turn, Evaluate, UpdateConfig,
                                      counters, vars
    <3>2. service' \in {"up", "down"}
      BY <1>2 DEF PathIInv, SharedInv, Tick, Turn, Evaluate, UpdateConfig, vars
    <3>3. signals' \in Groups \cup {Nothing}
      BY <1>2 DEF PathIInv, SharedInv, Tick, Turn, Evaluate, UpdateConfig, vars
    <3>4. config' \in [confidence : Int, instability : Int, failures : Int]
      BY <1>2, DecisionAssumption
         DEF PathIInv, SharedInv, Tick, Turn, Evaluate, UpdateConfig, vars
    <3>5. QED
      BY <2>1, <3>1, <3>2, <3>3, <3>4 DEF PathIInv, SharedInv, setting
  <2>5. QED
    BY <2>2, <2>3, <2>4 DEF PathIInv
<1>3. QED
  BY <1>1, <1>2 DEF Next

\* The invariant of the path holds in every reachable state.
THEOREM PathIsInductive == Spec => []PathIInv
<1>1. QED
  BY PathInit, PathStep, PTL DEF Spec

LEMMA PathTypes == PathIInv => TypeOK
<1> SUFFICES ASSUME PathIInv PROVE TypeOK
  OBVIOUS
<1>1. pc \in [Callers -> {"idle", "check", "reset", "calling", "count", "stamp", "answered",
                          "success", "store", "done"}]
  BY DEF PathIInv, RowsInv, CallInv, Points
<1>2. stored \in [Callers -> Nat]
  <2>1. \A c \in Callers : stored[c] \in Nat
    BY DecisionAssumption DEF PathIInv, CallInv
  <2>2. QED
    BY <2>1 DEF PathIInv, RowsInv
<1>3. said \in [Callers -> Answer \cup {Nothing}]
  <2>1. \A c \in Callers : said[c] \in Answer \cup {Nothing}
    BY DEF PathIInv, CallInv, Told, Points, Answer
  <2>2. QED
    BY <2>1 DEF PathIInv, RowsInv
<1>4. result \in [Callers -> Decision \cup {Nothing}]
  <2>1. ASSUME NEW c \in Callers PROVE result[c] \in Decision \cup {Nothing}
    <3>1. CASE pc[c] # "done"
      BY <3>1 DEF PathIInv, CallInv
    <3>2. CASE pc[c] = "done"
      <4>1. Told(c)
        BY <3>2 DEF PathIInv, CallInv
      <4>2. {Noop("sure"), Fallback} \subseteq Decision
        BY DEF Noop, Fallback, Decision, Answer, Actions
      <4>3. "noop" \in Answer /\ \A a \in Answer : Executed(a) \in Answer
        BY DEF Executed, Answer, Actions
      <4>4. QED
        BY <4>1, <4>2, <4>3 DEF Told, Decision
    <3>3. QED
      BY <3>1, <3>2
  <2>2. QED
    BY <2>1 DEF PathIInv, RowsInv
<1>5. config \in [confidence : Int, instability : Int, failures : Int]
  BY DEF PathIInv, SharedInv
<1>6. \A c \in Callers : ask[c] \in Asks(c) \cup {Nothing}
  BY DEF PathIInv, CallInv
<1>7. QED
  BY <1>1, <1>2, <1>3, <1>4, <1>5, <1>6 DEF PathIInv, SharedInv, TypeOK

\* What get_decision and pipe_runtime_event tell a caller and have executed: an answer that
\* the service gave to this call, within the scope of decision.py and the rules of the safe
\* executor, or noop.
THEOREM DecisionsStaySound == Spec => []DecisionsAreSound
<1>1. PathIInv => DecisionsAreTheServices
  <2> SUFFICES ASSUME PathIInv, NEW c \in Callers, pc[c] = "done", result[c] # Nothing
               PROVE  IF result[c].confidence = "service"
                      THEN /\ said[c] \notin {Nothing, "garbled"}
                           /\ result[c].action \in {said[c], "noop"}
                      ELSE result[c].action = "noop"
    BY DEF DecisionsAreTheServices
  <2>1. Told(c)
    BY DEF PathIInv, CallInv
  <2>2. CASE result[c] \in {Noop("sure"), Fallback}
    BY <2>2 DEF Noop, Fallback
  <2>3. CASE said[c] \in Answer \ {"garbled", "list"}
    <3>1. said[c] # Nothing
      BY <2>3, AnswerAssumption
    <3>2. CASE result[c] \in {Noop("sure"), Fallback}
      BY <2>2, <3>2
    <3>3. CASE result[c] \notin {Noop("sure"), Fallback}
      BY <2>1, <2>3, <3>1, <3>3 DEF Told, Executed
    <3>4. QED
      BY <3>2, <3>3
  <2>4. QED
    BY <2>1, <2>2, <2>3 DEF Told
<1>2. PathIInv => ExecutedIsAllowedTwice
  <2> SUFFICES ASSUME PathIInv, NEW c \in Callers, pc[c] = "done", said[c] # Nothing
               PROVE  /\ brain = "rules" => said[c] \in Scope
                      /\ result[c] # Nothing /\ ask[c].entry = "pipe" =>
                           /\ result[c].action \in SafetyRules
                           /\ brain = "rules" /\ env = "stage" => result[c].action = "noop"
                           /\ Validated(said[c]) = "noop" \/ result[c].action = "noop"
    BY DEF ExecutedIsAllowedTwice
  <2>1. Told(c) /\ (brain = "rules" => said[c] \in Scope) /\ env \in {"dev", "stage", "prod"}
    BY DEF PathIInv, CallInv, SharedInv
  <2> SUFFICES ASSUME result[c] # Nothing, ask[c].entry = "pipe"
               PROVE  /\ result[c].action \in SafetyRules
                      /\ brain = "rules" /\ env = "stage" => result[c].action = "noop"
                      /\ Validated(said[c]) = "noop" \/ result[c].action = "noop"
    BY <2>1
  <2>2. "noop" \in SafetyRules
    BY DEF SafetyRules
  <2>3. CASE said[c] = "garbled"
    <3>1. result[c].action = "noop"
      BY <2>1, <2>3 DEF Told, Noop, Fallback
    <3>2. Validated(said[c]) = "noop"
      BY <2>3 DEF Validated, Passes, Codes, Names
    <3>3. QED
      BY <2>2, <3>1, <3>2
  <2>4. CASE said[c] # "garbled"
    <3> DEFINE action == IF said[c] = "missing" THEN "noop" ELSE said[c]
    <3>1. result[c].action = Executed(action)
      BY <2>1, <2>4 DEF Told
    <3>2. Executed(action) \in SafetyRules
      BY <2>2 DEF Executed
    <3>3. brain = "rules" /\ env = "stage" => Executed(action) = "noop"
      BY <2>1 DEF Executed, Scope, SafetyRules, Actions
    <3>4. Validated(said[c]) = "noop" \/ Executed(action) = "noop"
      <4>1. CASE said[c] \in Codes
        BY <4>1 DEF Executed, Actions, Codes, Names
      <4>2. CASE said[c] \notin Codes
        BY <4>2 DEF Validated, Passes
      <4>3. QED
        BY <4>1, <4>2
    <3>5. QED
      BY <3>1, <3>2, <3>3, <3>4
  <2>5. QED
    BY <2>3, <2>4
<1>3. PathIInv => DecisionsAreSound
  BY <1>1, <1>2, PathTypes DEF DecisionsAreSound
<1>4. QED
  BY <1>3, PathIsInductive, PTL

\* SelfRestraint: its three questions agree, and nothing that gets worse, nor a stricter
\* threshold, lifts a block (evaluate_block, update_config).
THEOREM RestraintStaysSound == Spec => RestraintIsSound
<1>1. PathIInv => CautionAgrees
  <2> SUFFICES ASSUME PathIInv, signals # Nothing PROVE CautionAgrees
    BY DEF CautionAgrees
  <2>1. signals \in Groups /\ config.confidence \in Int /\ config.instability \in Int
    BY DEF PathIInv, SharedInv
  <2>2. Uncertain(signals) /\ config.confidence >= 50 => LowConfidence(signals)
    BY <2>1, DecisionAssumption DEF Uncertain, LowConfidence, Groups
  <2>3. signals.memory # Nothing => signals.memory.instability \in Int
    BY <2>1, DecisionAssumption DEF Groups
  <2>4. QED
    BY <2>1, <2>2, <2>3 DEF CautionAgrees, ShouldBlock, ShouldObserve, AtRisk
<1>2. PathIInv /\ PathIInv' /\ [Next]_vars =>
        [signals # Nothing /\ ShouldBlock(signals)
           /\ Grave(signals', signals) /\ Strict(config', config) => ShouldBlock(signals)']_vars
  <2> SUFFICES ASSUME PathIInv, PathIInv', Next, signals # Nothing, ShouldBlock(signals),
                      Grave(signals', signals), Strict(config', config)
               PROVE  ShouldBlock(signals)'
    BY DEF vars
  <2>1. signals \in Groups /\ signals' \in Groups
    <3>1. UNCHANGED signals \/ signals' \in Groups
      BY OtherCalls DEF Next, Tick, Turn, Evaluate, UpdateConfig, PathIInv
    <3>2. QED
      BY <3>1 DEF PathIInv, SharedInv
  <2>2. /\ config.confidence \in Int /\ config.instability \in Int /\ config.failures \in Int
        /\ config'.confidence \in Int /\ config'.instability \in Int /\ config'.failures \in Int
        /\ config'.confidence >= config.confidence
        /\ config'.instability <= config.instability /\ config'.failures <= config.failures
    BY DEF PathIInv, SharedInv, Strict
  <2>3. CASE Conflicting(signals)
    <3>1. signals'.conflict = TRUE
      BY <2>3 DEF Conflicting, Grave
    <3>2. QED
      BY <3>1 DEF ShouldBlock, Conflicting
  <2>4. CASE AtRisk(signals)
    <3>1. /\ signals.memory # Nothing /\ signals'.memory # Nothing
          /\ signals'.memory.instability >= signals.memory.instability
          /\ signals'.memory.failures >= signals.memory.failures
          /\ \/ signals.memory.instability > config.instability
             \/ signals.memory.failures > config.failures
      BY <2>4 DEF AtRisk, Grave
    <3>2. /\ signals.memory.instability \in Int /\ signals.memory.failures \in Int
          /\ signals'.memory.instability \in Int /\ signals'.memory.failures \in Int
      BY <2>1, <3>1, DecisionAssumption DEF Groups
    <3>3. AtRisk(signals)'
      BY <2>2, <3>1, <3>2 DEF AtRisk
    <3>4. QED
      BY <3>3 DEF ShouldBlock
  <2>5. CASE LowConfidence(signals)
    <3>1. /\ signals.decision # Nothing /\ signals'.decision # Nothing
          /\ signals'.decision <= signals.decision /\ signals.decision < config.confidence
      BY <2>5 DEF LowConfidence, Grave
    <3>2. signals.decision \in Int /\ signals'.decision \in Int
      BY <2>1, <3>1, DecisionAssumption DEF Groups
    <3>3. LowConfidence(signals)'
      BY <2>2, <3>1, <3>2 DEF LowConfidence
    <3>4. QED
      BY <3>3 DEF ShouldBlock
  <2>6. CASE InsufficientData(signals)
    <3>1. /\ signals'.memory = Nothing /\ signals'.decision = Nothing
          /\ signals'.conflict = Nothing \/ signals'.conflict = TRUE
      BY <2>6 DEF InsufficientData, Grave
    <3>2. QED
      BY <3>1 DEF ShouldBlock, InsufficientData, Conflicting
  <2>7. QED
    BY <2>3, <2>4, <2>5, <2>6 DEF ShouldBlock
<1>3. QED
  BY <1>1, <1>2, PathIsInductive, PTL DEF Spec, RestraintIsSound, WorseNeverUnblocks

\* The second breaker closes only after an answer in half-open before the one that closes
\* it (_on_success of core/resilience.py).
THEOREM ClosingIsEarned == Spec => ClosingNeedsTwoAnswers
<1>1. PathIInv /\ [Next]_vars => [state = "half_open" /\ state' = "closed" => halves >= 1]_vars
  <2> SUFFICES ASSUME PathIInv, Next, state = "half_open", state' = "closed" PROVE halves >= 1
    OBVIOUS
  <2>1. PICK c \in Callers : Step(c)
    BY DEF Next, Tick, Turn, Evaluate, UpdateConfig, counters
  <2>2. Succeed(c) /\ success_count + 1 >= Needed
    BY <2>1 DEF Step, Ask, Check, Reset, Answered, Failed, Count, Stamp, Succeed, Store, Conclude,
                Leave, counters
  <2>3. success_count = 1
    BY <2>2 DEF PathIInv, SharedInv, Needed
  <2>4. QED
    BY <2>3 DEF PathIInv, SharedInv
<1>2. QED
  BY <1>1, PathIsInductive, PTL DEF Spec, ClosingNeedsTwoAnswers

-----------------------------------------------------------------------------
(* Counting callers.                                                       *)

LEMMA Numbers ==
  ASSUME NEW P
  PROVE  IsFiniteSet({c \in Callers : pc[c] \in P}) /\ Number(P) \in Nat
<1>1. IsFiniteSet({c \in Callers : pc[c] \in P})
  BY DecisionAssumption, FS_Subset
<1>2. QED
  BY <1>1, FS_CardinalityType DEF Number

\* What a step of one caller makes of a number.
LEMMA NumberMoves ==
  ASSUME RowsInv, NEW c \in Callers, NEW p, GoTo(c, p), NEW CONSTANT P
  PROVE  /\ Number(P)' \in Nat
         /\ (p \in P <=> pc[c] \in P) => Number(P)' = Number(P)
         /\ p \in P /\ pc[c] \notin P => Number(P)' = Number(P) + 1
         /\ p \notin P /\ pc[c] \in P => Number(P) = Number(P)' + 1
<1> DEFINE S == {d \in Callers : pc[d] \in P}
           T == {d \in Callers : pc'[d] \in P}
<1>1. IsFiniteSet(S) /\ Number(P) = Cardinality(S)
  BY Numbers DEF Number
<1>2. Number(P)' = Cardinality(T)
  BY DEF Number
<1>3. pc'[c] = p /\ \A d \in Callers : d # c => pc'[d] = pc[d]
  BY DEF GoTo, RowsInv
<1>4. IsFiniteSet(T)
  BY DecisionAssumption, FS_Subset
<1>5. CASE p \in P <=> pc[c] \in P
  <2>1. T = S
    BY <1>3, <1>5
  <2>2. QED
    BY <1>1, <1>2, <1>4, <1>5, <2>1, FS_CardinalityType
<1>6. CASE p \in P /\ pc[c] \notin P
  <2>1. T = S \cup {c} /\ c \notin S
    BY <1>3, <1>6
  <2>2. Cardinality(T) = Cardinality(S) + 1
    BY <2>1, <1>1, FS_AddElement
  <2>3. QED
    BY <1>1, <1>2, <1>4, <1>6, <2>2, FS_CardinalityType
<1>7. CASE p \notin P /\ pc[c] \in P
  <2>1. S = T \cup {c} /\ c \notin T
    BY <1>3, <1>7
  <2>2. Cardinality(S) = Cardinality(T) + 1
    BY <2>1, <1>4, FS_AddElement
  <2>3. QED
    BY <1>1, <1>2, <1>4, <1>7, <2>2, FS_CardinalityType
<1>8. QED
  BY <1>5, <1>6, <1>7

\* Whoever has a call on its way is no wiper; and if somebody else is none, there is one more.
LEMMA NumbersAdd ==
  /\ Number(Calling) + Number(Stamping) <= Number(Harmless)
  /\ Number(Harmless) <= Cardinality(Callers) /\ Cardinality(Callers) \in Nat
  /\ (\E d \in Callers : pc[d] \in Harmless \ (Calling \cup Stamping)) =>
       Number(Calling) + Number(Stamping) + 1 <= Number(Harmless)
<1> DEFINE K == {c \in Callers : pc[c] \in Calling}
           Z == {c \in Callers : pc[c] \in Stamping}
           U == {c \in Callers : pc[c] \in Harmless}
<1>1. /\ IsFiniteSet(K) /\ IsFiniteSet(Z) /\ IsFiniteSet(U)
      /\ Number(Calling) = Cardinality(K) /\ Number(Stamping) = Cardinality(Z)
      /\ Number(Harmless) = Cardinality(U)
      /\ Cardinality(K) \in Nat /\ Cardinality(Z) \in Nat
  BY Numbers DEF Number
<1>2. K \cap Z = {} /\ K \cup Z \subseteq U /\ U \subseteq Callers
  BY DEF Calling, Stamping, Harmless, Points
<1>3. IsFiniteSet(K \cup Z)
  BY <1>1, FS_Union
<1>4. Cardinality(K \cup Z) = Cardinality(K) + Cardinality(Z)
  <2>1. Cardinality(K \cup Z) = Cardinality(K) + Cardinality(Z) - Cardinality(K \cap Z)
    BY <1>1, FS_Union
  <2>2. Cardinality(K \cap Z) = 0
    BY <1>2, FS_EmptySet
  <2>3. QED
    BY <2>1, <2>2, <1>1
<1>5. Cardinality(K \cup Z) <= Cardinality(U) /\ Cardinality(U) <= Cardinality(Callers)
  BY <1>1, <1>2, DecisionAssumption, FS_Subset
<1>6. Cardinality(Callers) \in Nat
  BY DecisionAssumption, FS_CardinalityType
<1>7. ASSUME NEW d \in Callers, pc[d] \in Harmless \ (Calling \cup Stamping)
      PROVE  Cardinality(K) + Cardinality(Z) + 1 <= Cardinality(U)
  <2>1. d \notin K \cup Z /\ (K \cup Z) \cup {d} \subseteq U
    BY <1>2, <1>7
  <2>2. Cardinality((K \cup Z) \cup {d}) = Cardinality(K \cup Z) + 1
    BY <2>1, <1>3, FS_AddElement
  <2>3. Cardinality((K \cup Z) \cup {d}) <= Cardinality(U)
    BY <2>1, <1>1, FS_Subset
  <2>4. QED
    BY <2>2, <2>3, <1>4
<1>8. QED
  BY <1>1, <1>4, <1>5, <1>6, <1>7

LEMMA BurstPositive ==
  ASSUME NEW c \in Callers
  PROVE  Burst \in Nat /\ Cardinality(Callers) \in Nat /\ Cardinality(Callers) >= 1
         /\ Burst >= Cardinality(Callers) /\ Burst = MaxFailures + Cardinality(Callers) - 1
<1>1. Cardinality(Callers) \in Nat /\ Cardinality(Callers) # 0
  BY DecisionAssumption, FS_CardinalityType, FS_EmptySet
<1>2. QED
  BY <1>1, DecisionAssumption DEF Burst

\* One burst more for one wiper less.
LEMMA OneBurst ==
  ASSUME NEW n \in Nat, NEW b \in Nat
  PROVE  /\ n * b \in Nat /\ (n + 1) * b = n * b + b
         /\ n >= 1 => n * b = (n - 1) * b + b /\ (n - 1) * b \in Nat
         /\ b >= 1 => n <= n * b
         /\ b >= 2 /\ n >= 2 => n <= (n - 1) * b
  OBVIOUS

LEMMA MoreBursts ==
  ASSUME NEW n \in Nat, NEW m \in Nat, n <= m, NEW b \in Nat PROVE n * b <= m * b
  OBVIOUS

-----------------------------------------------------------------------------
(* The bound on a burst.                                                   *)

\* A step that counts nothing and calls nothing keeps what is said of a burst.
LEMMA SameBurst ==
  ASSUME BurstIInv, UNCHANGED <<guard, tries, failures, age, state>>,
         Number(Calling)' = Number(Calling), Number(Stamping)' = Number(Stamping),
         Number(Harmless)' = Number(Harmless),
         (\E d \in Callers : pc[d] \in Harmless \ (Calling \cup Stamping)) =>
           \E d \in Callers : pc'[d] \in Harmless \ (Calling \cup Stamping)
  PROVE  BurstIInv'
<1>1. Burst' = Burst
  BY DEF Burst
<1>2. AfterCooldown'
  BY DEF BurstIInv, AfterCooldown
<1>3. BeforeCooldown'
  BY <1>1 DEF BurstIInv, BeforeCooldown
<1>4. QED
  BY <1>2, <1>3 DEF BurstIInv

LEMMA IdleBurst ==
  ASSUME PathIInv, BurstIInv, NEW c \in Callers, NEW p,
         Ask(c) \/ Failed(c) \/ Conclude(c) \/ Leave(c) \/ (Check(c) /\ pc'[c] = "done"),
         GoTo(c, p)
  PROVE  BurstIInv'
<1>1. pc'[c] = p /\ \A d \in Callers : d # c => pc'[d] = pc[d]
  BY DEF GoTo, PathIInv, RowsInv
<1>2. UNCHANGED <<guard, tries, failures, age, state>>
  <2>1. CASE Check(c) /\ pc'[c] = "done"
    <3>1. pc[c] = "check" /\ UNCHANGED <<guard, failures, age, state>>
      BY <2>1 DEF Check, setting
    <3>2. UNCHANGED tries
      BY <2>1 DEF Check, Return, GoTo, PathIInv, RowsInv
    <3>3. QED
      BY <3>1, <3>2
  <2>2. CASE Ask(c) \/ Failed(c) \/ Conclude(c) \/ Leave(c)
    BY <2>2 DEF Ask, Failed, Conclude, Leave, setting, counters
  <2>3. QED
    BY <2>1, <2>2
<1>3. \/ /\ pc[c] \in Harmless \ (Calling \cup Stamping)
         /\ p \in Harmless \ (Calling \cup Stamping)
      \/ pc[c] \in Calling /\ p \in Calling
  <2>1. CASE Ask(c)
    <3>1. pc[c] = "idle" /\ pc'[c] \in {"check", "done"}
      BY <2>1 DEF Ask, Return, GoTo, PathIInv, RowsInv
    <3>2. QED
      BY <1>1, <3>1 DEF Harmless, Points, Calling, Stamping
  <2>2. CASE Failed(c)
    <3>1. pc[c] = "calling" /\ pc'[c] = "count"
      BY <2>2 DEF Failed, GoTo, PathIInv, RowsInv
    <3>2. QED
      BY <1>1, <3>1 DEF Calling
  <2>3. CASE Conclude(c)
    <3>1. pc[c] = "answered" /\ pc'[c] = "done"
      BY <2>3 DEF Conclude, Return, GoTo, PathIInv, RowsInv
    <3>2. QED
      BY <1>1, <3>1 DEF Harmless, Points, Calling, Stamping
  <2>4. CASE Leave(c)
    <3>1. pc[c] = "done" /\ pc'[c] = "idle"
      BY <2>4 DEF Leave, GoTo, PathIInv, RowsInv
    <3>2. QED
      BY <1>1, <3>1 DEF Harmless, Points, Calling, Stamping
  <2>5. CASE Check(c) /\ pc'[c] = "done"
    <3>1. pc[c] = "check" /\ pc'[c] = "done"
      BY <2>5 DEF Check
    <3>2. QED
      BY <1>1, <3>1 DEF Harmless, Points, Calling, Stamping
  <2>6. QED
    BY <2>1, <2>2, <2>3, <2>4, <2>5
<1>4. Calling \subseteq Harmless /\ Stamping \subseteq Harmless /\ Calling \cap Stamping = {}
  BY DEF Harmless, Points, Calling, Stamping
<1>5. /\ Number(Calling)' = Number(Calling) /\ Number(Stamping)' = Number(Stamping)
      /\ Number(Harmless)' = Number(Harmless)
  BY <1>3, <1>4, NumberMoves DEF PathIInv
<1>6. (\E d \in Callers : pc[d] \in Harmless \ (Calling \cup Stamping)) =>
        \E d \in Callers : pc'[d] \in Harmless \ (Calling \cup Stamping)
  BY <1>1, <1>3
<1>7. QED
  BY <1>2, <1>5, <1>6, SameBurst

\* What the numbers are worth in a state of the path.
LEMMA BurstFacts ==
  ASSUME PathIInv, NEW c \in Callers
  PROVE  /\ Number(Calling) \in Nat /\ Number(Stamping) \in Nat /\ Number(Harmless) \in Nat
         /\ Number(Calling) + Number(Stamping) <= Number(Harmless)
         /\ Number(Harmless) <= Cardinality(Callers)
         /\ Burst \in Nat /\ Cardinality(Callers) \in Nat /\ Cardinality(Callers) >= 1
         /\ Burst >= Cardinality(Callers) /\ Burst = MaxFailures + Cardinality(Callers) - 1
         /\ tries \in Nat /\ failures \in Nat /\ age \in 0..Cooldown
         /\ Room(Number(Harmless)) \in Nat
         /\ Number(Harmless) >= 1 =>
              /\ Room(Number(Harmless)) = Room(Number(Harmless) - 1) + Burst
              /\ Room(Number(Harmless) - 1) \in Nat
         /\ Room(Number(Harmless) + 1) = Room(Number(Harmless)) + Burst
         /\ pc[c] \in Harmless => Number(Harmless) >= 1
<1>1. /\ Number(Calling) \in Nat /\ Number(Stamping) \in Nat /\ Number(Harmless) \in Nat
  BY Numbers
<1>2. /\ tries \in Nat /\ failures \in Nat /\ age \in 0..Cooldown
  BY DecisionAssumption DEF PathIInv, SharedInv
<1>3. pc[c] \in Harmless => Number(Harmless) >= 1
  <2> DEFINE U == {d \in Callers : pc[d] \in Harmless}
  <2>1. IsFiniteSet(U) /\ Number(Harmless) = Cardinality(U)
    BY Numbers DEF Number
  <2>2. pc[c] \in Harmless => U # {}
    OBVIOUS
  <2>3. pc[c] \in Harmless => Cardinality(U) # 0
    BY <2>1, <2>2, FS_EmptySet
  <2> HIDE DEF U
  <2>4. QED
    BY <2>1, <2>3, <1>1
<1>4. Burst \in Nat
  BY BurstPositive
<1>5. /\ Room(Number(Harmless)) \in Nat
      /\ Number(Harmless) >= 1 =>
           /\ Room(Number(Harmless)) = Room(Number(Harmless) - 1) + Burst
           /\ Room(Number(Harmless) - 1) \in Nat
      /\ Room(Number(Harmless) + 1) = Room(Number(Harmless)) + Burst
  BY <1>1, <1>4, OneBurst DEF Room
<1>6. QED
  BY <1>1, <1>2, <1>3, <1>5, NumbersAdd, BurstPositive

\* The test of an open breaker after its cooldown: its caller will wipe out what is counted.
LEMMA ToResetBurst ==
  ASSUME PathIInv, PathIInv', BurstIInv, NEW c \in Callers, Check(c), GoTo(c, "reset")
  PROVE  BurstIInv'
<1>1. /\ pc[c] = "check" /\ pc'[c] = "reset" /\ Tripped /\ age = Cooldown /\ UNCHANGED tries
      /\ UNCHANGED <<guard, failures, age, state>>
  BY DEF Check, GoTo, Return, PathIInv, RowsInv, setting
<1>2. Number(Calling)' = Number(Calling) /\ Number(Stamping)' = Number(Stamping)
  BY <1>1, NumberMoves DEF PathIInv, Calling, Stamping
<1>3. state = "closed" => failures >= 1
  BY <1>1, DecisionAssumption DEF Tripped, PathIInv, SharedInv
<1>4. AfterCooldown'
  BY <1>1, <1>2, <1>3 DEF BurstIInv, AfterCooldown
<1>5. BeforeCooldown'
  BY <1>1, DecisionAssumption DEF BeforeCooldown
<1>6. QED
  BY <1>4, <1>5 DEF BurstIInv

\* The test of a breaker that is not open: one more call.
LEMMA ToCallBurst ==
  ASSUME PathIInv, PathIInv', BurstIInv, NEW c \in Callers, Check(c), GoTo(c, "calling")
  PROVE  BurstIInv'
<1>1. /\ pc[c] = "check" /\ pc'[c] = "calling" /\ ~Tripped /\ tries' = tries + 1
      /\ UNCHANGED <<guard, failures, age, state>>
  <2>1. pc[c] = "check" /\ pc'[c] = "calling" /\ UNCHANGED <<guard, failures, age, state>>
    BY DEF Check, GoTo, PathIInv, RowsInv, setting
  <2>2. age < Cooldown \/ age = Cooldown
    BY DecisionAssumption DEF PathIInv, SharedInv
  <2>3. ~Tripped /\ tries' = tries + 1
    BY <2>1, <2>2 DEF Check, GoTo, Return, PathIInv, RowsInv
  <2>4. QED
    BY <2>1, <2>3
<1>2. /\ Number(Calling)' = Number(Calling) + 1 /\ Number(Stamping)' = Number(Stamping)
      /\ Number(Harmless)' = Number(Harmless)
  BY <1>1, NumberMoves DEF PathIInv, Calling, Stamping, Harmless, Points
<1>3. /\ Number(Harmless) >= 1
      /\ Room(Number(Harmless))' = Room(Number(Harmless))
      /\ Room(Number(Harmless) - 1)' = Room(Number(Harmless) - 1)
  <2>1. Number(Harmless) >= 1
    BY <1>1, BurstFacts DEF Harmless, Points
  <2>2. QED
    BY <1>2, <2>1 DEF Room, Burst
<1>4. AfterCooldown'
  BY <1>1, <1>2, BurstFacts DEF BurstIInv, AfterCooldown
<1>5. BeforeCooldown'
  <2> SUFFICES ASSUME age < Cooldown PROVE BeforeCooldown'
    BY <1>1 DEF BeforeCooldown
  <2>1. Number(Calling) + 1 + Number(Stamping) <= Cardinality(Callers)
    <3>1. pc[c] \in Harmless \ (Calling \cup Stamping)
      BY <1>1 DEF Harmless, Points, Calling, Stamping
    <3>2. Number(Calling) + Number(Stamping) + 1 <= Number(Harmless)
      BY <3>1, NumbersAdd
    <3>3. QED
      BY <3>2, BurstFacts
  <2>2. \/ state = "closed" /\ failures < MaxFailures
        \/ state = "closed" /\ failures >= MaxFailures /\ guard = "breaker"
        \/ state = "half_open"
    <3>1. guard \in {"client", "breaker"} /\ (guard = "client" => state = "closed")
      BY <1>1 DEF PathIInv, SharedInv, CallInv
    <3>2. failures \in Nat /\ MaxFailures \in Nat /\ state \in {"closed", "open", "half_open"}
      BY BurstFacts, DecisionAssumption DEF PathIInv, SharedInv
    <3>3. CASE guard = "client"
      BY <1>1, <3>1, <3>2, <3>3 DEF Tripped
    <3>4. CASE guard = "breaker"
      BY <1>1, <3>2, <3>4 DEF Tripped
    <3>5. QED
      BY <3>1, <3>3, <3>4
  <2>3. tries + 1 <= Room(Number(Harmless))
    BY <1>3, <2>1, <2>2, BurstFacts, DecisionAssumption DEF BurstIInv, BeforeCooldown
  <2>4. state = "closed" /\ failures < MaxFailures =>
          tries + 1 <= Room(Number(Harmless) - 1) + failures + (Number(Calling) + 1)
    BY <1>3, BurstFacts DEF BurstIInv, BeforeCooldown
  <2>5. state = "closed" /\ failures >= MaxFailures /\ guard = "breaker" =>
          tries + 1 <= Room(Number(Harmless) - 1) + MaxFailures - 1
                         + (Number(Calling) + 1) + Number(Stamping)
    BY <1>3, BurstFacts, DecisionAssumption DEF BurstIInv, BeforeCooldown
  <2>6. state = "half_open" =>
          tries + 1 <= Room(Number(Harmless) - 1) + (Number(Calling) + 1) + Number(Stamping)
    BY <1>3, BurstFacts DEF BurstIInv, BeforeCooldown
  <2>7. QED
    BY <1>1, <1>2, <1>3, <2>3, <2>4, <2>5, <2>6 DEF BeforeCooldown
<1>6. QED
  BY <1>4, <1>5 DEF BurstIInv

\* A wipe leaves room for another burst, whatever it makes of the counters.
LEMMA WipeBefore ==
  ASSUME PathIInv, BurstIInv, NEW c \in Callers, age < Cooldown, UNCHANGED <<age, guard>>,
         Number(Harmless)' = Number(Harmless) + 1,
         Number(Calling)' \in Nat, Number(Stamping)' \in Nat, failures' \in Nat, tries' \in Nat,
         tries' <= tries + 1, tries' <= tries + Number(Calling)'
  PROVE  BeforeCooldown'
<1>1. tries <= Room(Number(Harmless))
  BY DEF BurstIInv, BeforeCooldown
<1>2. /\ Room(Number(Harmless))' = Room(Number(Harmless) + 1)
      /\ Room(Number(Harmless) - 1)' = Room(Number(Harmless))
  <2>1. (Number(Harmless) - 1)' = Number(Harmless)
    BY BurstFacts
  <2>2. QED
    BY <2>1 DEF Room, Burst
<1>3. tries' <= Room(Number(Harmless))'
  BY <1>1, <1>2, BurstFacts
<1>4. tries' <= Room(Number(Harmless) - 1)' + failures' + Number(Calling)'
  BY <1>1, <1>2, BurstFacts
<1>5. tries' <= Room(Number(Harmless) - 1)' + MaxFailures - 1 + Number(Calling)' + Number(Stamping)'
  BY <1>1, <1>2, BurstFacts, DecisionAssumption
<1>6. tries' <= Room(Number(Harmless) - 1)' + Number(Calling)' + Number(Stamping)'
  BY <1>1, <1>2, BurstFacts
<1>7. QED
  BY <1>3, <1>4, <1>5, <1>6 DEF BeforeCooldown

LEMMA ResetBurst ==
  ASSUME PathIInv, PathIInv', BurstIInv, NEW c \in Callers, Reset(c)
  PROVE  BurstIInv'
<1>1. /\ pc[c] = "reset" /\ GoTo(c, "calling") /\ pc'[c] = "calling" /\ tries' = tries + 1
      /\ UNCHANGED <<guard, age>>
  BY DEF Reset, GoTo, PathIInv, RowsInv, setting
<1>2. /\ Number(Calling)' = Number(Calling) + 1 /\ Number(Stamping)' = Number(Stamping)
      /\ Number(Harmless)' = Number(Harmless) + 1
  BY <1>1, NumberMoves DEF PathIInv, Calling, Stamping, Harmless, Points
<1>3. failures' \in Nat /\ tries' \in Nat
  BY DecisionAssumption DEF PathIInv, SharedInv
<1>4. AfterCooldown'
  BY <1>1, <1>2, BurstFacts DEF BurstIInv, AfterCooldown
<1>5. BeforeCooldown'
  <2> SUFFICES ASSUME age < Cooldown PROVE BeforeCooldown'
    BY <1>1 DEF BeforeCooldown
  <2>1. /\ Number(Calling)' \in Nat /\ Number(Stamping)' \in Nat
        /\ tries' <= tries + 1 /\ tries' <= tries + Number(Calling)'
    BY <1>1, <1>2, BurstFacts
  <2>2. QED
    BY <1>1, <1>2, <1>3, <2>1, WipeBefore
<1>6. QED
  BY <1>4, <1>5 DEF BurstIInv

\* The other wipes: the second answer in half-open, and a decrement that is stored late.
LEMMA WipeBurst ==
  ASSUME PathIInv, PathIInv', BurstIInv, NEW c \in Callers, pc[c] \in {"success", "store"},
         GoTo(c, "done"), UNCHANGED <<guard, age, tries>>
  PROVE  BurstIInv'
<1>1. pc'[c] = "done"
  BY DEF GoTo, PathIInv, RowsInv
<1>2. /\ Number(Calling)' = Number(Calling) /\ Number(Stamping)' = Number(Stamping)
      /\ Number(Harmless)' = Number(Harmless) + 1
  BY NumberMoves DEF PathIInv, Calling, Stamping, Harmless, Points
<1>3. failures' \in Nat /\ tries' \in Nat
  BY DecisionAssumption DEF PathIInv, SharedInv
<1>4. AfterCooldown'
  <2>1. pc'[c] \in Harmless \ (Calling \cup Stamping)
    BY <1>1 DEF Calling, Stamping, Harmless, Points
  <2>2. QED
    BY <1>2, <2>1 DEF BurstIInv, AfterCooldown
<1>5. BeforeCooldown'
  <2> SUFFICES ASSUME age < Cooldown PROVE BeforeCooldown'
    BY DEF BeforeCooldown
  <2>1. /\ Number(Calling)' \in Nat /\ Number(Stamping)' \in Nat
        /\ tries' <= tries + 1 /\ tries' <= tries + Number(Calling)'
    BY <1>2, BurstFacts
  <2>2. QED
    BY <1>2, <1>3, <2>1, WipeBefore
<1>6. QED
  BY <1>4, <1>5 DEF BurstIInv

\* An answer: nothing has been called in vain since.
LEMMA AnsweredBurst ==
  ASSUME PathIInv, PathIInv', NEW c \in Callers, Answered(c)
  PROVE  BurstIInv'
<1>1. tries' = 0
  BY DEF Answered
<1>2. /\ Number(Calling)' \in Nat /\ Number(Stamping)' \in Nat /\ failures' \in Nat
      /\ Room(Number(Harmless))' \in Nat
      /\ (Number(Harmless) >= 1)' => Room(Number(Harmless) - 1)' \in Nat
  <2>1. \E p : GoTo(c, p)
    BY DEF Answered
  <2>2. Number(Calling)' \in Nat /\ Number(Stamping)' \in Nat /\ Number(Harmless)' \in Nat
    BY <2>1, NumberMoves DEF PathIInv
  <2>3. failures' \in Nat
    BY DecisionAssumption DEF PathIInv, SharedInv
  <2> DEFINE n == Number(Harmless)'
  <2>4. n * Burst \in Nat /\ (n >= 1 => (n - 1) * Burst \in Nat)
    <3> HIDE DEF n
    <3>1. n \in Nat
      BY <2>2 DEF n
    <3>2. QED
      BY <3>1, BurstPositive, OneBurst
  <2>5. /\ Room(Number(Harmless))' = n * Burst
        /\ Room(Number(Harmless) - 1)' = (n - 1) * Burst
    BY DEF Room, Burst
  <2>6. QED
    BY <2>2, <2>3, <2>4, <2>5
<1>3. AfterCooldown'
  BY <1>1, <1>2 DEF AfterCooldown
<1>4. BeforeCooldown'
  BY <1>1, <1>2, DecisionAssumption DEF BeforeCooldown
<1>5. QED
  BY <1>3, <1>4 DEF BurstIInv

LEMMA CountBurst ==
  ASSUME PathIInv, PathIInv', BurstIInv, NEW c \in Callers, Count(c)
  PROVE  BurstIInv'
<1>1. /\ pc[c] = "count" /\ GoTo(c, "stamp") /\ pc'[c] = "stamp" /\ failures' = Counted
      /\ UNCHANGED <<guard, age, state, tries>>
  BY DEF Count, GoTo, PathIInv, RowsInv, setting
<1>2. /\ Number(Calling) = Number(Calling)' + 1 /\ Number(Stamping)' = Number(Stamping) + 1
      /\ Number(Harmless)' = Number(Harmless) /\ Number(Calling)' \in Nat
  BY <1>1, NumberMoves DEF PathIInv, Calling, Stamping, Harmless, Points
<1>3. \/ failures' = failures + 1
      \/ failures' = failures /\ failures > MaxFailures
  BY <1>1, DecisionAssumption DEF Counted
<1>4. /\ Room(Number(Harmless))' = Room(Number(Harmless))
      /\ Room(Number(Harmless) - 1)' = Room(Number(Harmless) - 1)
  BY <1>2 DEF Room, Burst
<1>5. AfterCooldown'
  <2>1. failures' >= 1
    BY <1>3, BurstFacts, DecisionAssumption
  <2>2. QED
    BY <1>1, <1>2, <2>1, BurstFacts DEF BurstIInv, AfterCooldown
<1>6. BeforeCooldown'
  <2> SUFFICES ASSUME age < Cooldown PROVE BeforeCooldown'
    BY <1>1 DEF BeforeCooldown
  <2> SUFFICES ASSUME Number(Harmless) >= 1
               PROVE  /\ tries <= Room(Number(Harmless))
                      /\ state = "closed" /\ failures' < MaxFailures =>
                           tries <= Room(Number(Harmless) - 1) + failures' + Number(Calling)'
                      /\ state = "closed" /\ failures' >= MaxFailures /\ guard = "breaker" =>
                           tries <= Room(Number(Harmless) - 1) + MaxFailures - 1
                                      + Number(Calling)' + Number(Stamping)'
                      /\ state = "half_open" =>
                           tries <= Room(Number(Harmless) - 1) + Number(Calling)' + Number(Stamping)'
    <3>1. Number(Harmless) >= 1
      BY <1>1, BurstFacts DEF Harmless, Points
    <3>2. QED
      BY <3>1, <1>1, <1>2, <1>4 DEF BeforeCooldown
  <2>1. tries <= Room(Number(Harmless))
    BY DEF BurstIInv, BeforeCooldown
  <2>2. state = "closed" /\ failures < MaxFailures =>
          tries <= Room(Number(Harmless) - 1) + failures + Number(Calling)
    BY DEF BurstIInv, BeforeCooldown
  <2>3. state = "closed" /\ failures >= MaxFailures /\ guard = "breaker" =>
          tries <= Room(Number(Harmless) - 1) + MaxFailures - 1
                     + Number(Calling) + Number(Stamping)
    BY DEF BurstIInv, BeforeCooldown
  <2>4. state = "half_open" =>
          tries <= Room(Number(Harmless) - 1) + Number(Calling) + Number(Stamping)
    BY DEF BurstIInv, BeforeCooldown
  <2>5. state = "closed" /\ failures' < MaxFailures =>
          tries <= Room(Number(Harmless) - 1) + failures' + Number(Calling)'
    BY <1>2, <1>3, <2>2, BurstFacts, DecisionAssumption
  <2>6. state = "closed" /\ failures' >= MaxFailures /\ guard = "breaker" =>
          tries <= Room(Number(Harmless) - 1) + MaxFailures - 1
                     + Number(Calling)' + Number(Stamping)'
    BY <1>2, <1>3, <2>2, <2>3, BurstFacts, DecisionAssumption
  <2>7. state = "half_open" =>
          tries <= Room(Number(Harmless) - 1) + Number(Calling)' + Number(Stamping)'
    BY <1>2, <2>4, BurstFacts
  <2>8. QED
    BY <2>1, <2>5, <2>6, <2>7
<1>7. QED
  BY <1>5, <1>6 DEF BurstIInv

\* The end of a failed call: the second breaker opens if it must, and the first that comes
\* after a cooldown begins the next.
LEMMA StampBurst ==
  ASSUME PathIInv, PathIInv', BurstIInv, NEW c \in Callers, Stamp(c)
  PROVE  BurstIInv'
<1>1. /\ pc[c] = "stamp" /\ GoTo(c, "done") /\ age' = 0
      /\ UNCHANGED <<guard, failures, tries>>
      /\ state' = IF guard = "breaker" /\ (state = "half_open" \/ failures >= MaxFailures)
                  THEN "open" ELSE state
  BY DEF Stamp, Return, setting
<1>2. /\ Number(Calling)' = Number(Calling) /\ Number(Stamping) = Number(Stamping)' + 1
      /\ Number(Harmless)' = Number(Harmless) /\ Number(Stamping)' \in Nat
  BY <1>1, NumberMoves DEF PathIInv, Calling, Stamping, Harmless, Points
<1>3. Number(Harmless) >= 1
  BY <1>1, BurstFacts DEF Harmless, Points
<1>4. /\ Room(Number(Harmless))' = Room(Number(Harmless))
      /\ Room(Number(Harmless) - 1)' = Room(Number(Harmless) - 1)
  BY <1>2 DEF Room, Burst
<1>5. /\ state' # "half_open"
      /\ state' = "closed" => state = "closed" /\ (guard = "breaker" => failures < MaxFailures)
  <2>1. guard # "breaker" => state = "closed"
    BY DEF PathIInv, SharedInv
  <2>2. failures \in Nat /\ MaxFailures \in Nat
    BY BurstFacts, DecisionAssumption
  <2>3. QED
    BY <1>1, <2>1, <2>2
<1>6. /\ tries <= Room(Number(Harmless))
      /\ state = "closed" /\ failures < MaxFailures =>
           tries <= Room(Number(Harmless) - 1) + failures + Number(Calling)
  <2>1. CASE age < Cooldown
    BY <2>1, <1>3 DEF BurstIInv, BeforeCooldown
  <2>2. CASE age = Cooldown
    <3>1. /\ tries <= Number(Calling) + Number(Stamping)
          /\ tries >= 1 /\ state = "closed" =>
               \/ failures >= 1 \/ Number(Calling) >= 1
               \/ Number(Calling) + Number(Stamping) + 1 <= Number(Harmless)
      BY <2>2, NumbersAdd DEF BurstIInv, AfterCooldown
    <3>2. Number(Harmless) <= Room(Number(Harmless))
      <4>1. Burst >= 1 /\ Burst \in Nat /\ Number(Harmless) \in Nat
        BY BurstFacts
      <4>2. QED
        BY <4>1, OneBurst DEF Room
    <3>3. tries <= Room(Number(Harmless))
      BY <3>1, <3>2, BurstFacts
    <3>4. CASE Number(Harmless) >= 2
      <4>1. Burst >= 2 /\ Burst \in Nat /\ Number(Harmless) \in Nat
        BY <3>4, BurstFacts
      <4>2. Number(Harmless) <= Room(Number(Harmless) - 1)
        BY <3>4, <4>1, OneBurst DEF Room
      <4>3. /\ Number(Calling) \in Nat /\ Number(Stamping) \in Nat /\ tries \in Nat
            /\ Number(Calling) + Number(Stamping) <= Number(Harmless)
            /\ failures \in Nat /\ Room(Number(Harmless) - 1) \in Nat
        BY <1>3, BurstFacts
      <4>4. tries <= Room(Number(Harmless) - 1)
        BY <3>1, <4>1, <4>2, <4>3
      <4>5. QED
        BY <3>3, <4>3, <4>4
    <3>5. CASE Number(Harmless) = 1
      <4>1. Room(Number(Harmless) - 1) \in Nat
        BY <1>3, BurstFacts
      <4>2. tries <= 1
        BY <3>1, <3>5, BurstFacts
      <4>3. Number(Stamping) >= 1 /\ Number(Stamping) \in Nat
        BY <1>2, BurstFacts
      <4>4. ~(Number(Calling) + Number(Stamping) + 1 <= Number(Harmless))
        BY <3>5, <4>3, BurstFacts
      <4>5. tries >= 1 /\ state = "closed" => failures + Number(Calling) >= 1
        BY <3>1, <4>4, BurstFacts
      <4>6. QED
        BY <3>3, <4>1, <4>2, <4>5, BurstFacts
    <3>6. QED
      BY <3>4, <3>5, <1>3, BurstFacts
  <2>3. QED
    BY <2>1, <2>2, BurstFacts, DecisionAssumption
<1>7. AfterCooldown'
  BY <1>1, DecisionAssumption DEF AfterCooldown
<1>8. BeforeCooldown'
  <2>1. state' = "closed" /\ failures' < MaxFailures =>
          tries' <= Room(Number(Harmless) - 1)' + failures' + Number(Calling)'
    BY <1>1, <1>2, <1>4, <1>5, <1>6
  <2>2. ~(state' = "closed" /\ failures' >= MaxFailures /\ guard' = "breaker")
    <3>1. failures \in Nat /\ MaxFailures \in Nat
      BY BurstFacts, DecisionAssumption
    <3>2. QED
      BY <1>1, <1>5, <3>1
  <2>3. tries' <= Room(Number(Harmless))'
    BY <1>1, <1>4, <1>6
  <2>4. QED
    BY <1>5, <2>1, <2>2, <2>3 DEF BeforeCooldown
<1>9. QED
  BY <1>7, <1>8 DEF BurstIInv

LEMMA SucceedBurst ==
  ASSUME PathIInv, PathIInv', BurstIInv, NEW c \in Callers, Succeed(c)
  PROVE  BurstIInv'
<1>1. pc[c] = "success" /\ UNCHANGED <<guard, age, tries>>
  BY DEF Succeed, setting
<1>2. CASE state = "half_open"
  <2>1. GoTo(c, "done")
    BY <1>2 DEF Succeed
  <2>2. QED
    BY <1>1, <2>1, WipeBurst
<1>3. CASE state # "half_open"
  <2>1. GoTo(c, "store") /\ UNCHANGED <<state, failures>>
    BY <1>3 DEF Succeed
  <2>2. /\ Number(Calling)' = Number(Calling) /\ Number(Stamping)' = Number(Stamping)
        /\ Number(Harmless)' = Number(Harmless)
    BY <1>1, <2>1, NumberMoves DEF PathIInv, Calling, Stamping, Harmless, Points
  <2>3. (\E d \in Callers : pc[d] \in Harmless \ (Calling \cup Stamping)) =>
          \E d \in Callers : pc'[d] \in Harmless \ (Calling \cup Stamping)
    <3>1. pc[c] \notin Harmless
      BY <1>1 DEF Harmless
    <3>2. \A d \in Callers : d # c => pc'[d] = pc[d]
      BY <2>1 DEF GoTo, PathIInv, RowsInv
    <3>3. QED
      BY <3>1, <3>2
  <2>4. QED
    BY <1>1, <2>1, <2>2, <2>3, SameBurst
<1>4. QED
  BY <1>2, <1>3

LEMMA StepBurst ==
  ASSUME PathIInv, PathIInv', BurstIInv, NEW c \in Callers, Step(c)
  PROVE  BurstIInv'
<1>1. CASE Ask(c) \/ Failed(c) \/ Conclude(c) \/ Leave(c)
  <2>1. PICK p : GoTo(c, p)
    BY <1>1 DEF Ask, Failed, Conclude, Leave, Return
  <2>2. QED
    BY <1>1, <2>1, IdleBurst
<1>2. CASE Check(c)
  <2>1. \/ GoTo(c, "done") /\ pc'[c] = "done"
        \/ GoTo(c, "reset") \/ GoTo(c, "calling")
    BY <1>2 DEF Check, Return, GoTo, PathIInv, RowsInv
  <2>2. QED
    BY <1>2, <2>1, IdleBurst, ToResetBurst, ToCallBurst
<1>3. CASE Reset(c)
  BY <1>3, ResetBurst
<1>4. CASE Answered(c)
  BY <1>4, AnsweredBurst
<1>5. CASE Count(c)
  BY <1>5, CountBurst
<1>6. CASE Stamp(c)
  BY <1>6, StampBurst
<1>7. CASE Succeed(c)
  BY <1>7, SucceedBurst
<1>8. CASE Store(c)
  <2>1. pc[c] = "store" /\ GoTo(c, "done") /\ UNCHANGED <<guard, age, tries>>
    BY <1>8 DEF Store, setting
  <2>2. QED
    BY <2>1, WipeBurst
<1>9. QED
  BY <1>1, <1>2, <1>3, <1>4, <1>5, <1>6, <1>7, <1>8 DEF Step

LEMMA BurstStep == PathIInv /\ PathIInv' /\ BurstIInv /\ [Next]_vars => BurstIInv'
<1> SUFFICES ASSUME PathIInv, PathIInv', BurstIInv, [Next]_vars PROVE BurstIInv'
  OBVIOUS
<1>1. CASE \E c \in Callers : Step(c)
  BY <1>1, StepBurst
<1>2. CASE Turn \/ Evaluate \/ UpdateConfig \/ UNCHANGED vars
  <2>1. UNCHANGED <<guard, tries, failures, age, state, pc>>
    BY <1>2 DEF Turn, Evaluate, UpdateConfig, vars, setting, counters
  <2>2. QED
    BY <2>1, SameBurst DEF Number
<1>3. CASE Tick
  <2>1. /\ age < Cooldown /\ age' = age + 1 /\ tries' = (IF age' = Cooldown THEN 0 ELSE tries)
        /\ UNCHANGED <<guard, failures, state, pc>>
    BY <1>3 DEF Tick, setting
  <2>2. /\ Number(Calling)' = Number(Calling) /\ Number(Stamping)' = Number(Stamping)
        /\ Number(Harmless)' = Number(Harmless) /\ Burst' = Burst
    BY <2>1 DEF Number, Burst
  <2>3. CASE age' = Cooldown
    <3> DEFINE n == Number(Calling)'
               m == Number(Stamping)'
    <3>1. tries' = 0 /\ n >= 0 /\ m >= 0 /\ n \in Nat /\ m \in Nat
      <4>1. Number(Calling) \in Nat /\ Number(Stamping) \in Nat
        BY Numbers
      <4> HIDE DEF n, m
      <4>2. n = Number(Calling) /\ m = Number(Stamping)
        BY <2>2 DEF n, m
      <4>3. QED
        BY <2>1, <2>3, <4>1, <4>2
    <3>2. AfterCooldown'
      BY <3>1 DEF AfterCooldown
    <3>3. BeforeCooldown'
      BY <2>3, DecisionAssumption DEF BeforeCooldown
    <3>4. QED
      BY <3>2, <3>3 DEF BurstIInv
  <2>4. CASE age' # Cooldown
    <3>1. AfterCooldown'
      BY <2>4 DEF AfterCooldown
    <3>2. tries' = tries /\ BeforeCooldown
      BY <2>1, <2>4 DEF BurstIInv
    <3>3. /\ Room(Number(Harmless))' = Room(Number(Harmless))
          /\ Room(Number(Harmless) - 1)' = Room(Number(Harmless) - 1)
      BY <2>2 DEF Room
    <3>4. BeforeCooldown'
      BY <2>1, <2>2, <3>2, <3>3 DEF BeforeCooldown
    <3>5. QED
      BY <3>1, <3>4 DEF BurstIInv
  <2>5. QED
    BY <2>3, <2>4
<1>4. QED
  BY <1>1, <1>2, <1>3 DEF Next

LEMMA BurstInit == Init => BurstIInv
<1> SUFFICES ASSUME Init PROVE BurstIInv
  OBVIOUS
<1>1. tries = 0 /\ age = Cooldown
  BY DEF Init
<1>2. Number(Calling) \in Nat /\ Number(Stamping) \in Nat
  BY Numbers
<1>3. QED
  BY <1>1, <1>2, DecisionAssumption DEF BurstIInv, AfterCooldown, BeforeCooldown

LEMMA BurstBound == PathIInv /\ BurstIInv => BurstsAreBounded
<1> SUFFICES ASSUME PathIInv, BurstIInv PROVE BurstsAreBounded
  OBVIOUS
<1>1. /\ Number(Calling) \in Nat /\ Number(Stamping) \in Nat /\ Number(Harmless) \in Nat
      /\ Cardinality(Callers) \in Nat /\ Number(Harmless) <= Cardinality(Callers)
      /\ Number(Calling) + Number(Stamping) <= Number(Harmless)
  BY Numbers, NumbersAdd
<1>2. tries \in Nat /\ age \in 0..Cooldown /\ Cooldown \in Nat \ {0} /\ MaxFailures \in Nat \ {0}
  BY DecisionAssumption DEF PathIInv, SharedInv
<1>3. Burst \in Nat /\ Burst = MaxFailures + Cardinality(Callers) - 1
  BY <1>1, <1>2 DEF Burst
<1>4. Number(Harmless) * Burst <= Cardinality(Callers) * Burst
  BY <1>1, <1>3, MoreBursts
<1>5. Number(Harmless) <= Number(Harmless) * Burst
  <2>1. CASE Number(Harmless) = 0
    BY <2>1, <1>3
  <2>2. CASE Number(Harmless) >= 1
    <3>1. Burst >= 1
      BY <2>2, <1>1, <1>2, <1>3
    <3>2. QED
      BY <3>1, <1>1, <1>3, OneBurst
  <2>3. QED
    BY <2>1, <2>2, <1>1
<1>6. tries <= Number(Harmless) * Burst
  <2>1. CASE age = Cooldown
    <3>1. tries <= Number(Calling) + Number(Stamping)
      BY <2>1 DEF BurstIInv, AfterCooldown
    <3>2. Number(Harmless) * Burst \in Nat
      BY <1>1, <1>3, OneBurst
    <3>3. QED
      BY <3>1, <3>2, <1>1, <1>2, <1>5
  <2>2. CASE age < Cooldown
    BY <2>2 DEF BurstIInv, BeforeCooldown, Room
  <2>3. QED
    BY <2>1, <2>2, <1>2
<1>7. Number(Harmless) * Burst \in Nat /\ Cardinality(Callers) * Burst \in Nat
  BY <1>1, <1>3, OneBurst
<1>8. tries <= Cardinality(Callers) * Burst
  BY <1>2, <1>4, <1>6, <1>7
<1>9. QED
  BY <1>8 DEF BurstsAreBounded, Burst

\* Both breakers: however callers interleave, a service that does not answer is called a
\* bounded number of times until a full cooldown has passed (_track_failure, _on_failure),
\* and the second breaker is closed by an answer that was not the first in half-open.
THEOREM BreakersDoHold == Spec => BreakersHold
<1>1. Spec => []BurstsAreBounded
  BY PathInit, PathStep, BurstInit, BurstStep, BurstBound, PTL DEF Spec
<1>2. QED
  BY <1>1, ClosingIsEarned, PTL DEF BreakersHold

===============================================================================
