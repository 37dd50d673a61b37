------------------------------- MODULE RedisBus -------------------------------
(***************************************************************************)
(* The external event bus (core/redis_event_bus.py), how a process gets it *)
(* (core/redis_stability.py), and its subscriber, the queue monitor        *)
(* (monitoring/queue_monitor.py).                                          *)
(*                                                                         *)
(* One process: its main thread, which subscribes, publishes and stops the *)
(* bus, and its listeners, of which the code means to have one.  They read *)
(* from one connection to Redis, where other processes publish too.  The   *)
(* dictionary of subscribers and the flag running are shared without a     *)
(* lock.                                                                   *)
(***************************************************************************)
EXTENDS Naturals, Sequences, SequencesExt, FiniteSets

CONSTANTS
  Patterns,      \* what is subscribed to
  Events,        \* events, each published once
  Matching,      \* per pattern: the events whose type matches it
  Ours,          \* events this process publishes; others publish the rest
  HistoryLimit,  \* messages that are kept
  MaxListeners, MaxSubscriptions, MaxTroubles   \* bounds

ASSUME BusAssumption ==
  /\ IsFiniteSet(Patterns) /\ Patterns # {} /\ Events # {}
  /\ Matching \in [Patterns -> SUBSET Events] /\ Ours \subseteq Events
  /\ HistoryLimit \in Nat \ {0} /\ MaxListeners \in Nat
  /\ MaxSubscriptions \in Nat /\ MaxTroubles \in Nat

VARIABLES
  bus,         \* redis_bus: "none", "redis", or "mock"
  user,        \* the main thread: what it does, and the pattern it subscribes to
  subs,        \* the keys of subscribers in their order
  callbacks,   \* per pattern: how many callbacks it has
  history,     \* message_history
  running,     \* the flag
  linked,      \* is the connection of pubsub up
  channels,    \* the patterns pubsub is subscribed to
  socket,      \* what Redis has sent and no listener has read
  listener,    \* per listener: where it is, its message, and its walk over subs
  unpublished, \* events still to come
  troubles,    \* failures of Redis or the connection so far
  delivered,   \* ghost. Per pattern and event: calls of its callbacks
  heard,       \* ghost. Per event: the channels it came through
  disturbed    \* ghost. Stopped, in trouble, or subscribed to during a dispatch?

registered == <<subs, callbacks>>
link       == <<linked, channels, socket, troubles>>
told       == <<delivered, heard>>
busVars    == <<bus, user, registered, history, running, link, listener, unpublished, told,
                disturbed>>

Listeners == 1..MaxListeners
NoListener == [pc |-> "none", event |-> CHOOSE e \in Events : TRUE, at |-> 1, size |-> 0]
Waiting == [do |-> "idle", pattern |-> CHOOSE p \in Patterns : TRUE]
Alive(l) == listener[l].pc \notin {"none", "ended"}

BusInit ==
  /\ bus = "none"
  /\ user = Waiting
  /\ subs = <<>> /\ callbacks = [p \in Patterns |-> 0]
  /\ history = <<>> /\ running = FALSE
  /\ linked = FALSE /\ channels = {} /\ socket = <<>> /\ troubles = 0
  /\ listener = [l \in Listeners |-> NoListener]
  /\ unpublished = Events
  /\ delivered = [p \in Patterns |-> [e \in Events |-> 0]]
  /\ heard = [e \in Events |-> {}]
  /\ disturbed = FALSE

Trouble == troubles < MaxTroubles /\ troubles' = troubles + 1

-----------------------------------------------------------------------------
(* The main thread.                                                        *)

UserDoes(from, to) ==
  user.do = from /\ user' = IF to = "idle" THEN Waiting ELSE [user EXCEPT !.do = to]

\* get_redis_bus: without Redis the bus is a mock one, for good; if the attempt ends in
\* another exception there is none, and the next caller tries again.
Connect ==
  /\ user.do = "idle" /\ bus = "none"
  /\ \/ bus' = "redis" /\ UNCHANGED troubles
     \/ bus' \in {"mock", "none"} /\ Trouble
  /\ UNCHANGED <<user, registered, history, running, linked, channels, socket, listener,
                 unpublished, told, disturbed>>

\* subscribe: the callback is registered in any case,
Register(p) ==
  /\ user.do = "idle" /\ bus # "none"
  /\ FoldFunction(LAMBDA n, sum : n + sum, 0, callbacks) < MaxSubscriptions
  /\ subs' = IF p \in ToSet(subs) THEN subs ELSE Append(subs, p)
  /\ callbacks' = [callbacks EXCEPT ![p] = @ + 1]
  /\ user' = IF bus = "redis" THEN [do |-> "psubscribe", pattern |-> p] ELSE user
  /\ disturbed' = (disturbed \/ (subs' # subs /\ \E l \in Listeners : listener[l].pc = "walk"))
  /\ UNCHANGED <<bus, history, running, link, listener, unpublished, told>>

\* with Redis the channel too, which connects again what is not connected,
Psubscribe ==
  /\ UserDoes("psubscribe", "listen")
  /\ linked' = TRUE
  /\ channels' = channels \cup {user.pattern}
  /\ UNCHANGED <<bus, registered, history, running, socket, troubles, listener, unpublished,
                 told, disturbed>>

\* (a RedisError is printed, and there is no listener then)
PsubscribeFails ==
  /\ UserDoes("psubscribe", "idle") /\ Trouble
  /\ disturbed' = TRUE
  /\ UNCHANGED <<bus, registered, history, running, linked, channels, socket, listener,
                 unpublished, told>>

\* and a listener, unless one is running.
StartListener ==
  /\ UserDoes("listen", "idle")
  /\ IF ~running
     THEN \E l \in Listeners :
            /\ listener[l].pc = "none" /\ \A k \in Listeners : k < l => listener[k].pc # "none"
            /\ listener' = [listener EXCEPT ![l].pc = "read"]
            /\ running' = TRUE
     ELSE UNCHANGED <<listener, running>>
  /\ UNCHANGED <<bus, registered, history, link, unpublished, told, disturbed>>

\* Redis sends an event once for every channel that matches it.
Arrives(e) ==
  LET hits == SetToSeq({p \in channels : e \in Matching[p]})
  IN /\ socket' = IF linked THEN socket \o [i \in DOMAIN hits |-> e] ELSE socket
     /\ heard' = [heard EXCEPT ![e] = IF linked THEN ToSet(hits) ELSE {}]

Kept(messages) ==
  IF Len(messages) > HistoryLimit THEN Tail(messages) ELSE messages

\* publish: into the history, and to Redis, whose failure is printed and forgotten.
PublishOurs(e) ==
  /\ e \in unpublished \cap Ours /\ user.do = "idle" /\ bus # "none"
  /\ unpublished' = unpublished \ {e}
  /\ history' = Kept(Append(history, e))
  /\ \/ bus = "redis" /\ Arrives(e) /\ UNCHANGED troubles
     \/ bus = "redis" /\ Trouble /\ UNCHANGED <<socket, heard>>
     \/ bus = "mock" /\ UNCHANGED <<troubles, socket, heard>>
  /\ UNCHANGED <<bus, user, registered, running, linked, channels, listener, delivered,
                 disturbed>>

\* get_redis_connection with allow_stub: without a bus an event goes into the store of a
\* stub that is forgotten with its caller.
PublishToStub(e) ==
  /\ e \in unpublished \cap Ours /\ user.do = "idle" /\ bus = "none" /\ Trouble
  /\ unpublished' = unpublished \ {e}
  /\ UNCHANGED <<bus, user, registered, history, running, linked, channels, socket, listener,
                 told, disturbed>>

PublishTheirs(e) ==
  /\ e \in unpublished \ Ours
  /\ unpublished' = unpublished \ {e}
  /\ Arrives(e)
  /\ UNCHANGED <<bus, user, registered, history, running, linked, channels, troubles,
                 listener, delivered, disturbed>>

\* stop, which the monitor calls at its end: first the flag,
StopFlag ==
  /\ bus # "none" /\ UserDoes("idle", IF bus = "redis" THEN "close" ELSE "idle")
  /\ running' = FALSE /\ disturbed' = TRUE
  /\ UNCHANGED <<bus, registered, history, link, listener, unpublished, told>>

\* then the connection with its channels, which ends who waits at it; a listener that has
\* not ended after a second is left behind.
Close ==
  /\ UserDoes("close", "idle")
  /\ linked' = FALSE /\ channels' = {} /\ socket' = <<>>
  /\ \E cut \in SUBSET {l \in Listeners : listener[l].pc = "read"} :
       listener' = [l \in Listeners |->
                     IF l \in cut THEN [listener[l] EXCEPT !.pc = "finally"] ELSE listener[l]]
  /\ UNCHANGED <<bus, registered, history, running, troubles, unpublished, told, disturbed>>

-----------------------------------------------------------------------------
(* _listen_for_messages.                                                   *)

ListenerAt(l, pc) ==
  /\ listener[l].pc = pc
  /\ UNCHANGED <<bus, user, registered, history, unpublished, heard>>
ListenerTo(l, pc) == listener' = [listener EXCEPT ![l] = [NoListener EXCEPT !.pc = pc]]

Read(l) ==
  /\ ListenerAt(l, "read") /\ linked /\ socket # <<>>
  /\ listener' = [listener EXCEPT ![l].pc = "test", ![l].event = Head(socket)]
  /\ socket' = Tail(socket)
  /\ UNCHANGED <<running, linked, channels, troubles, delivered, disturbed>>

\* The connection is closed, by stop or by another listener that met trouble on it.
ReadFails(l) ==
  /\ ListenerAt(l, "read") /\ ~linked
  /\ ListenerTo(l, "finally")
  /\ UNCHANGED <<running, link, delivered, disturbed>>

\* The connection breaks, or is silent for the five seconds of its timeout: it is made
\* again once, with its channels, or the exception ends the listener.
Breaks(l) ==
  /\ ListenerAt(l, "read") /\ linked /\ Trouble
  /\ socket' = <<>> /\ disturbed' = TRUE
  /\ \/ UNCHANGED <<linked, listener>>
     \/ linked' = FALSE /\ ListenerTo(l, "finally")
  /\ UNCHANGED <<running, channels, delivered>>

\* A listener that finds the flag cleared drops the message it has read.
Test(l) ==
  /\ ListenerAt(l, "test")
  /\ listener' = [listener EXCEPT ![l].pc = IF running THEN "walk" ELSE "finally",
                                  ![l].at = 1, ![l].size = Len(subs)]
  /\ UNCHANGED <<running, link, delivered, disturbed>>

Calls(l) ==
  LET p == subs[listener[l].at]
      e == listener[l].event
  IN IF e \in Matching[p]
     THEN [delivered EXCEPT ![p][e] = @ + callbacks[p]]
     ELSE delivered

\* Faulty variant: the walk begins again when a subscription has come in between.
DispatchAgain(l) ==
  LET h == listener[l]
  IN /\ ListenerAt(l, "walk")
     /\ IF Len(subs) # h.size
        THEN listener' = [listener EXCEPT ![l].at = 1, ![l].size = Len(subs)]
             /\ UNCHANGED delivered
        ELSE IF h.at > h.size THEN ListenerTo(l, "read") /\ UNCHANGED delivered
        ELSE listener' = [listener EXCEPT ![l].at = @ + 1] /\ delivered' = Calls(l)
     /\ UNCHANGED <<running, link, disturbed>>

\* Faulty variant: the first pattern that matches has the event.
DispatchFirst(l) ==
  LET h == listener[l]
  IN /\ ListenerAt(l, "walk")
     /\ IF Len(subs) # h.size THEN ListenerTo(l, "finally") /\ UNCHANGED delivered
        ELSE IF h.at > h.size \/ Calls(l) # delivered
        THEN ListenerTo(l, "read") /\ delivered' = IF h.at > h.size THEN delivered ELSE Calls(l)
        ELSE listener' = [listener EXCEPT ![l].at = @ + 1] /\ delivered' = Calls(l)
     /\ UNCHANGED <<running, link, disturbed>>

\* One pattern of the dictionary, whose size is compared first: a subscription to a new
\* pattern since the walk began is a RuntimeError, and the end of the listener.
Dispatch(l) ==
  LET h == listener[l]
  IN /\ ListenerAt(l, "walk")
     /\ IF Len(subs) # h.size THEN ListenerTo(l, "finally") /\ UNCHANGED delivered
        ELSE IF h.at > h.size THEN ListenerTo(l, "read") /\ UNCHANGED delivered
        ELSE listener' = [listener EXCEPT ![l].at = @ + 1] /\ delivered' = Calls(l)
     /\ UNCHANGED <<running, link, disturbed>>

\* Faulty variant: the flag is left alone.
FinallyNothing(l) ==
  /\ ListenerAt(l, "finally")
  /\ ListenerTo(l, "ended")
  /\ UNCHANGED <<running, link, delivered, disturbed>>

\* finally: the flag is cleared, also that of a listener started in the meantime.
Finally(l) ==
  /\ ListenerAt(l, "finally")
  /\ ListenerTo(l, "ended")
  /\ running' = FALSE
  /\ UNCHANGED <<link, delivered, disturbed>>

Listen(l) == Read(l) \/ ReadFails(l) \/ Test(l) \/ Dispatch(l) \/ Finally(l)

-----------------------------------------------------------------------------

BusNext ==
  \/ Connect \/ Psubscribe \/ PsubscribeFails \/ StartListener \/ StopFlag \/ Close
  \/ \E p \in Patterns : Register(p)
  \/ \E e \in Events : PublishOurs(e) \/ PublishToStub(e) \/ PublishTheirs(e)
  \/ \E l \in Listeners : Listen(l) \/ Breaks(l)

\* A listener is a thread, and the subscription it is started by goes on.
BusFairness ==
  /\ WF_busVars(Psubscribe \/ StartListener)
  /\ \A l \in Listeners : WF_busVars(Listen(l))

BusSpec == BusInit /\ [][BusNext]_busVars /\ BusFairness

-----------------------------------------------------------------------------

BusTypeOK ==
  /\ bus \in {"none", "redis", "mock"}
  /\ user \in [do : {"idle", "psubscribe", "listen", "close"}, pattern : Patterns]
  /\ subs \in Seq(Patterns) /\ IsInjective(subs)
  /\ callbacks \in [Patterns -> Nat]
  /\ history \in Seq(Ours) /\ Len(history) <= HistoryLimit
  /\ running \in BOOLEAN /\ linked \in BOOLEAN /\ disturbed \in BOOLEAN
  /\ channels \subseteq ToSet(subs) /\ socket \in Seq(Events)
  /\ listener \in [Listeners ->
       [pc : {"none", "read", "test", "walk", "finally", "ended"}, event : Events,
        at : Nat, size : Nat]]
  /\ unpublished \subseteq Events /\ troubles \in 0..MaxTroubles
  /\ delivered \in [Patterns -> [Events -> Nat]] /\ heard \in [Events -> SUBSET Patterns]

\* The flag by which subscribe decides whether to start a listener never promises one that
\* is gone: an error, a stop or a subscription during a dispatch ends a listener, and the
\* next subscription starts another.
RunningHasListener == running => \E l \in Listeners : Alive(l)

\* A callback is called for an event once for each channel the event came through, never
\* more, whichever listeners read, died and were replaced; one pattern, one call.
OneCallPerChannel ==
  \A p \in Patterns, e \in Events :
    delivered[p][e] <= callbacks[p] * Cardinality(heard[e])

\* The listeners and the flag, whatever becomes of the connection.
DispatchIsSound == BusTypeOK /\ RunningHasListener /\ OneCallPerChannel

\* An event that has come through a channel reaches the callbacks of every pattern that
\* matches it, unless the bus was stopped, Redis or the connection failed, or a pattern
\* was added during a dispatch.
EventsReachCallbacks ==
  \A p \in Patterns : \A e \in Matching[p] :
    (e \in ToSet(socket) /\ p \in ToSet(subs))
      ~> (delivered[p][e] > 0 \/ disturbed)
=============================================================================
