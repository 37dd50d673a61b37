---------------------------- MODULE ReliabilityLoop ----------------------------
(***************************************************************************)
(* The recovery loop of reliability-controller2-main: the monitor probes   *)
(* the services, a controller posts the action it recommends to the        *)
(* executer, and the executer, one thread per request, lets one action per *)
(* service pass in a cooldown period and runs it with docker.              *)
(*                                                                         *)
(* Time passes in ticks and is kept as what is left of, or what has passed *)
(* since, each event, so that nothing has to end.  Controllers are not in  *)
(* this program; the one client in it (backend/app/main.py, execute_action)*)
(* gives up after a timeout and learns only what the answer says.          *)
(***************************************************************************)
EXTENDS Naturals, FiniteSets

CONSTANTS
  Services,
  Controllers, Threads,   \* clients; request threads of the executer
  Nobody,
  CooldownTime,           \* COOLDOWN_TIME
  ClientTimeout,          \* timeout of the client's POST
  StartTimes,             \* how long a restarted service may take to answer
  MaxStale,               \* bound: ticks between a probe and the arrival of its action
  MaxStall,               \* bound: ticks between a thread's clock reading and its command
  StopTime,               \* docker's stop grace: the longest that a command takes
  MaxFaults               \* bound: crashes, failed commands, executer restarts

ASSUME LoopAssumption ==
  /\ Nobody \notin Controllers /\ Nobody \notin Services
  /\ CooldownTime \in Nat \ {0} /\ ClientTimeout \in Nat
  /\ StartTimes \subseteq Nat \ {0} /\ StartTimes # {}
  /\ MaxStale \in Nat /\ MaxStall \in Nat /\ MaxStall < CooldownTime
  /\ StopTime \in Nat /\ MaxFaults \in Nat

VARIABLES
  health,      \* per service: does it answer, slowly, or not at all
  starting,    \* per service: ticks until it answers after a restart
  cooldowns,   \* per service: ticks until its cooldown ends
  thread,      \* per request thread of the executer
  controller,  \* per controller: what it asks, and for how long it has waited
  faults,
  since        \* ghost. Per service: ticks since the clock reading of its last
               \* accepted action, as far as the executer's process remembers

services == <<health, starting>>
loopVars == <<services, cooldowns, thread, controller, faults, since>>

ValidActions == {"restart", "scale_up", "scale_down", "noop"}

\* An acceptance as old as this cannot block anything.
LongAgo == CooldownTime + MaxStall

FreeThread == [pc |-> "idle", service |-> Nobody, action |-> "noop",
               client |-> Nobody, age |-> 0, raced |-> FALSE]
Free == [pc |-> "idle", service |-> Nobody, action |-> "noop", age |-> 0]

LoopInit ==
  /\ health = [s \in Services |-> "up"]
  /\ starting = [s \in Services |-> 0]
  /\ cooldowns = [s \in Services |-> 0]
  /\ thread = [t \in Threads |-> FreeThread]
  /\ controller = [c \in Controllers |-> Free]
  /\ faults = 0
  /\ since = [s \in Services |-> LongAgo]

Responds(s) == health[s] # "down" /\ starting[s] = 0

-----------------------------------------------------------------------------
(* The environment: time, and a bounded number of faults.                  *)

Less(n) == IF n = 0 THEN 0 ELSE n - 1

Stalls(t) == \/ thread[t].pc \in {"set", "run"} /\ thread[t].age = MaxStall
             \/ thread[t].pc = "docker" /\ thread[t].age = StopTime
Older(t)  == IF thread[t].pc \in {"set", "run", "docker"}
             THEN [thread[t] EXCEPT !.age = @ + 1] ELSE thread[t]

Waits(c)  == controller[c].pc = "post" /\ controller[c].age = MaxStale
Longer(c) == IF controller[c].pc = "post"
                \/ (controller[c].pc = "wait" /\ controller[c].age < ClientTimeout)
             THEN [controller[c] EXCEPT !.age = @ + 1] ELSE controller[c]

LoopTick ==
  /\ \A t \in Threads : ~Stalls(t)
  /\ \A c \in Controllers : ~Waits(c)
  /\ starting' = [s \in Services |-> Less(starting[s])]
  /\ cooldowns' = [s \in Services |-> Less(cooldowns[s])]
  /\ since' = [s \in Services |-> IF since[s] < LongAgo THEN since[s] + 1 ELSE LongAgo]
  /\ thread' = [t \in Threads |-> Older(t)]
  /\ controller' = [c \in Controllers |-> Longer(c)]
  /\ UNCHANGED <<health, faults>>

Start(done, d) ==
  /\ health' = [s \in Services |-> IF s \in done THEN "up" ELSE health[s]]
  /\ starting' = [s \in Services |-> IF s \in done THEN d ELSE starting[s]]

Fault == faults < MaxFaults /\ faults' = faults + 1

ServiceFails(s, how) ==
  /\ Fault
  /\ health[s] \notin {"down", how} /\ starting[s] = 0
  /\ health' = [health EXCEPT ![s] = how]
  /\ UNCHANGED <<starting, cooldowns, thread, controller, since>>

\* The executer's process dies and is started again, with empty cooldowns; its
\* clients see a broken connection, and a docker command may be carried out or not.
ExecuterRestarts ==
  LET underway == {thread[t].service : t \in {u \in Threads : thread[u].pc = "docker"}}
  IN /\ Fault
     /\ cooldowns' = [s \in Services |-> 0]
     /\ thread' = [t \in Threads |-> FreeThread]
     /\ controller' = [c \in Controllers |->
                         IF controller[c].pc = "wait" THEN Free ELSE controller[c]]
     /\ since' = [s \in Services |-> LongAgo]
     /\ \E done \in SUBSET underway, d \in StartTimes :
          Start(done, d)

-----------------------------------------------------------------------------
(* The monitor and the controllers.                                        *)

\* metrics: no answer within its timeout, or an error, is a crash; a slow answer
\* asks for scaling.
Recommended(s) ==
  CASE ~Responds(s) -> "restart"
    [] Responds(s) /\ health[s] = "slow" -> "scale_up"
    [] OTHER -> "noop"

Probe(c, s) ==
  /\ controller[c].pc = "idle"
  /\ controller' = [controller EXCEPT ![c] =
       [pc |-> "post", service |-> s, action |-> Recommended(s), age |-> 0]]
  /\ UNCHANGED <<services, cooldowns, thread, faults, since>>

\* The client's timeout; its request goes on without it.
GiveUp(c) ==
  /\ controller[c].pc = "wait" /\ controller[c].age = ClientTimeout
  /\ controller' = [controller EXCEPT ![c] = Free]
  /\ thread' = [t \in Threads |-> IF thread[t].client = c
                                  THEN [thread[t] EXCEPT !.client = Nobody] ELSE thread[t]]
  /\ UNCHANGED <<services, cooldowns, faults, since>>

-----------------------------------------------------------------------------
(* execute_action of the executer.                                         *)

\* Faulty variant: restarts are urgent and pass.
RefusedUnlessRestart(c) ==
  \/ controller[c].action \notin ValidActions
  \/ controller[c].action # "restart" /\ cooldowns[controller[c].service] > 0

Refused(c) ==
  \/ controller[c].action \notin ValidActions
  \/ cooldowns[controller[c].service] > 0

\* Faulty variant of Receive: a blocked request renews the cooldown.
ReceiveRenewing(t, c) ==
  LET s == controller[c].service
  IN /\ thread[t].pc = "idle"
     /\ controller[c].pc = "post"
     /\ IF Refused(c)
        THEN /\ controller' = [controller EXCEPT ![c] = Free]
             /\ cooldowns' = [cooldowns EXCEPT ![s] = CooldownTime]
             /\ UNCHANGED thread
        ELSE /\ controller' = [controller EXCEPT ![c].pc = "wait", ![c].age = 0]
             /\ thread' = [thread EXCEPT ![t] =
                  [pc |-> "set", service |-> s, action |-> controller[c].action,
                   client |-> c, age |-> 0, raced |-> FALSE]]
             /\ UNCHANGED cooldowns
     /\ UNCHANGED <<services, faults, since>>

\* The request arrives: validation, the reading of the clock and the check of the
\* cooldown.
Receive(t, c) ==
  LET s == controller[c].service
  IN /\ thread[t].pc = "idle"
     /\ controller[c].pc = "post"
     /\ IF Refused(c)
        THEN /\ controller' = [controller EXCEPT ![c] = Free]
             /\ UNCHANGED thread
        ELSE /\ controller' = [controller EXCEPT ![c].pc = "wait", ![c].age = 0]
             /\ thread' = [thread EXCEPT ![t] =
                  [pc |-> "set", service |-> s, action |-> controller[c].action,
                   client |-> c, age |-> 0, raced |-> FALSE]]
     /\ UNCHANGED <<services, cooldowns, faults, since>>

EndingSoon(age) == (CooldownTime \div 2) - age

\* The end of the cooldown is counted from the now that was read before the check, so
\* a thread that stores late shortens the cooldown another has just stored.
Ending(age) == CooldownTime - age

\* cooldowns[service_id] = now + timedelta(seconds=COOLDOWN_TIME), with the now that
\* was read when the request arrived.
SetCooldown(t) ==
  LET s == thread[t].service
  IN /\ thread[t].pc = "set"
     /\ cooldowns' = [cooldowns EXCEPT ![s] = Ending(thread[t].age)]
     /\ since' = [since EXCEPT ![s] = thread[t].age]
     /\ thread' = [u \in Threads |->
          IF u = t THEN [thread[t] EXCEPT !.pc = "run"]
          ELSE IF thread[u].pc = "set" /\ thread[u].service = s
               THEN [thread[u] EXCEPT !.raced = TRUE] ELSE thread[u]]
     /\ UNCHANGED <<services, controller, faults>>

\* execute_real_action: a restart is docker's to carry out, which may refuse; scaling is
\* simulated.
Run(t) ==
  LET s == thread[t].service
      restarts == thread[t].action = "restart"
  IN /\ thread[t].pc = "run"
     /\ \/ /\ restarts
           /\ thread' = [thread EXCEPT ![t].pc = "docker", ![t].age = 0]
           /\ UNCHANGED faults
        \/ /\ restarts => Fault
           /\ ~restarts => UNCHANGED faults
           /\ thread' = [thread EXCEPT ![t].pc = "reply", ![t].age = 0]
     /\ UNCHANGED <<services, cooldowns, controller, since>>

\* The container ends: at once, or when docker's grace is over, and the service answers
\* until then.
Stops(t) ==
  /\ thread[t].pc = "docker" /\ health[thread[t].service] # "down"
  /\ health' = [health EXCEPT ![thread[t].service] = "down"]
  /\ UNCHANGED <<starting, cooldowns, thread, controller, faults, since>>

\* docker restart returns; what it started does not answer yet.
Finish(t) ==
  /\ thread[t].pc = "docker"
  /\ \E d \in StartTimes : Start({thread[t].service}, d)
  /\ thread' = [thread EXCEPT ![t].pc = "reply", ![t].age = 0]
  /\ UNCHANGED <<cooldowns, controller, faults, since>>

\* The verification and the answer, to a client that still waits.
Reply(t) ==
  /\ thread[t].pc = "reply"
  /\ thread' = [thread EXCEPT ![t] = FreeThread]
  /\ controller' = [c \in Controllers |-> IF c = thread[t].client THEN Free ELSE controller[c]]
  /\ UNCHANGED <<services, cooldowns, faults, since>>

-----------------------------------------------------------------------------

ThreadStep(t) == SetCooldown(t) \/ Run(t) \/ Finish(t) \/ Reply(t)

LoopNext ==
  \/ LoopTick
  \/ \E s \in Services, how \in {"slow", "down"} : ServiceFails(s, how)
  \/ ExecuterRestarts
  \/ \E c \in Controllers, s \in Services : Probe(c, s)
  \/ \E c \in Controllers : GiveUp(c)
  \/ \E c \in Controllers, t \in Threads : Receive(t, c)
  \/ \E t \in Threads : ThreadStep(t) \/ Stops(t)

\* Time passes, the executer's threads are scheduled, a request in the network
\* arrives, and whatever closes the loop keeps asking for the metrics of every
\* service (Architrecture.txt: "Monitor continuously checks services").
LoopFairness ==
  /\ WF_loopVars(LoopTick)
  /\ \A c \in Controllers :
       /\ WF_loopVars(GiveUp(c)) /\ WF_loopVars(\E t \in Threads : Receive(t, c))
       /\ \A s \in Services : SF_loopVars(Probe(c, s))
  /\ \A t \in Threads : WF_loopVars(ThreadStep(t))

LoopSpec == LoopInit /\ [][LoopNext]_loopVars /\ LoopFairness

-----------------------------------------------------------------------------

LoopTypeOK ==
  /\ health \in [Services -> {"up", "slow", "down"}]
  /\ starting \in [Services -> Nat]
  /\ cooldowns \in [Services -> 0..CooldownTime]
  /\ thread \in [Threads ->
       [pc : {"idle", "set", "run", "docker", "reply"}, service : Services \cup {Nobody},
        action : ValidActions, client : Controllers \cup {Nobody},
        age : 0..(MaxStall + StopTime), raced : BOOLEAN]]
  /\ controller \in [Controllers ->
       [pc : {"idle", "post", "wait"}, service : Services \cup {Nobody},
        action : ValidActions, age : 0..(MaxStale + ClientTimeout)]]
  /\ faults \in 0..MaxFaults
  /\ since \in [Services -> 0..LongAgo]

\* Cooldown protection (readme.md): the clock readings of two accepted actions of one
\* service are a cooldown apart, whatever was blocked, timed out or failed between
\* them.  The exception is a request that passed the check before another thread had
\* stored the cooldown: the check and the store of app.py are not one step.
OnlyRacesShareACooldown ==
  [][\A t \in Threads :
       SetCooldown(t) /\ ~thread[t].raced
         => since[thread[t].service] >= CooldownTime + thread[t].age]_loopVars

\* A client that times out and asks again does not get the container restarted while
\* docker still restarts it, but for two causes: the two requests raced, or the first
\* command takes about as long as the cooldown, which docker's grace, as long as the
\* cooldown itself, lets it.  The cooldown is counted from the clock reading, up to a stall
\* before the command, and a racing thread can shorten it by another.
Nearly(age) == age + 2 * MaxStall >= CooldownTime
SecondCommandsAreLate ==
  \A t, u \in Threads :
    /\ t # u
    /\ thread[t].pc = "docker" /\ thread[u].pc = "docker"
    /\ thread[t].service = thread[u].service
    => \/ thread[t].raced \/ thread[u].raced
       \/ Nearly(thread[t].age) \/ Nearly(thread[u].age)

\* A restart that outlasts the cooldown it began with: the next probe is too late for it
\* to be blocked.
Outlasts(s) ==
  /\ cooldowns[s] <= MaxStale
  /\ \/ starting[s] > 0
     \/ \E t \in Threads : thread[t].pc = "docker" /\ thread[t].service = s

\* "Executer restarts the service, system becomes healthy again" (Architrecture.txt):
\* a service that is down answers later, although blocked requests, stale noops that
\* use up a cooldown, commands that fail and restarts of the executer are in between.
\* Only restarts that outlast their cooldown over and over can keep it from that.
CrashedServicesRecover ==
  \A s \in Services : (health[s] = "down" ~> Responds(s)) \/ []<>Outlasts(s)

\* No restart storm: after the last fault every service ends up answering for good, unless
\* its restarts outlast their cooldown over and over.  What was recommended while a service
\* was stopping or starting is blocked by the cooldown of the restart it was about.
RestartsDieOut == \A s \in Services : <>[]Responds(s) \/ []<>Outlasts(s)

\* The cooldown: what it keeps apart, and what can overlap in spite of it.
CooldownProtects == [](LoopTypeOK /\ SecondCommandsAreLate) /\ OnlyRacesShareACooldown

=============================================================================
