----------------------------- MODULE SovereignBus -----------------------------
(***************************************************************************)
(* The sovereign bus (core/sovereign_bus.py) without Redis: the log of its *)
(* messages, which every process that imports it keeps in the same file,   *)
(* the event bus under it (core/event_bus.py), which keeps messages for    *)
(* those who subscribe later, and the monitor that watches the file        *)
(* (monitoring/monitor_bus.py).                                            *)
(*                                                                         *)
(* Each process publishes from its main thread.  One of them, Home, is     *)
(* followed inside: each subscription starts a thread that hands its       *)
(* callback the messages that are kept, and takes them out of the list as  *)
(* it goes.  Other processes only publish, end, and are killed.            *)
(***************************************************************************)
EXTENDS Naturals, Sequences, FiniteSets

CONSTANTS
  Publishers, Home,    \* processes with a bus of their own, one of them
  Topics,              \* event types
  Callbacks,           \* of Home, each subscribed once
  NoTopic, BrokenLog,  \* not subscribed; a file that does not parse
  LogLimit,            \* the messages that are saved, 100 in the code
  MaxMessages,         \* bound
  MaxCutOff,           \* bound: processes that are killed
  MaxFailed,           \* bound: saves that fail
  MaxRaised            \* bound: callbacks, and publications, that raise

ASSUME SovereignAssumption ==
  /\ Home \in Publishers /\ NoTopic \notin Topics
  /\ LogLimit \in Nat \ {0} /\ MaxMessages \in Nat
  /\ MaxCutOff \in Nat /\ MaxFailed \in Nat /\ MaxRaised \in Nat
  /\ BrokenLog \notin Seq(Nat)

VARIABLES
  events,       \* what was published, in order: by whom, and its type
  message_log,  \* per process: its messages, as numbers in events
  bus_file,     \* bus_events.json
  publisher,    \* per process: where it is
  messages,     \* _messages of Home's event bus
  listens,      \* per callback: its topic, and how much there was when it subscribed
  walk,         \* per callback: where its thread is, in which list
  heard,        \* ghost. Per callback and message: how often it was called with it
  late,         \* ghost. Per callback: messages kept before its thread looked
  forgotten,    \* ghost. Messages that were taken out of the list, or not put into it
  unheard,      \* ghost. Messages whose publication raised before the listeners were called
  viewer,       \* the monitor: is it on, last_count, and (ghost) the first of these
  printed,      \* ghost. Per message: how often the monitor has printed it
  unsaved,      \* ghost. Did the last save fail?
  crowded,      \* ghost. Did two processes share the file, was one killed, or did one end
                \* after its last save had failed?
  cutOff, failed, raised_by

homeVars == <<messages, listens, walk, heard, late, forgotten, unheard, raised_by>>
viewVars == <<viewer, printed>>
logVars  == <<events, message_log, bus_file, publisher, unsaved, crowded, cutOff, failed>>
sovVars  == <<homeVars, viewVars, logVars>>

Numbers == 1..MaxMessages
LastEvent == Len(events)
LogContent == IF bus_file = BrokenLog THEN <<>> ELSE bus_file
Running == {p \in Publishers : publisher[p] # "off"}

\* Faulty variant: the first messages are kept.
SavedFirst(log) == SubSeq(log, 1, IF Len(log) > LogLimit THEN LogLimit ELSE Len(log))
\* message_log[-100:].
Saved(log) == SubSeq(log, IF Len(log) > LogLimit THEN Len(log) - LogLimit + 1 ELSE 1, Len(log))

SovInit ==
  /\ events = <<>> /\ bus_file = <<>>
  /\ message_log = [p \in Publishers |-> <<>>]
  /\ publisher = [p \in Publishers |-> "off"]
  /\ messages = <<>>
  /\ listens = [k \in Callbacks |-> [to |-> NoTopic, from |-> 0]]
  /\ walk = [k \in Callbacks |-> [pc |-> "none", todo |-> <<>>, at |-> 1]]
  /\ heard = [k \in Callbacks |-> [m \in Numbers |-> 0]]
  /\ late = [k \in Callbacks |-> {}] /\ forgotten = {} /\ unheard = {}
  /\ viewer = [on |-> FALSE, last_count |-> 0, first |-> 0]
  /\ printed = [m \in Numbers |-> 0]
  /\ unsaved = FALSE /\ crowded = FALSE /\ cutOff = 0 /\ failed = 0 /\ raised_by = {}

-----------------------------------------------------------------------------
(* Processes, and the publication of a message.                            *)

\* Importing the module loads the log.
StartPublisher(p) ==
  /\ publisher[p] = "off"
  /\ publisher' = [publisher EXCEPT ![p] = "up"]
  /\ message_log' = [message_log EXCEPT ![p] = LogContent]
  /\ crowded' = (crowded \/ Running # {})
  /\ UNCHANGED <<events, bus_file, unsaved, failed, cutOff, homeVars, viewVars>>

EndPublisher(p) ==
  /\ p # Home /\ publisher[p] = "up"
  /\ publisher' = [publisher EXCEPT ![p] = "off"]
  /\ crowded' = (crowded \/ unsaved)
  /\ UNCHANGED <<events, message_log, bus_file, unsaved, failed, cutOff, homeVars, viewVars>>

\* publish: the message is appended to the log and then the log is saved.
PublishEvent(p, topic) ==
  /\ publisher[p] = "up" /\ LastEvent < MaxMessages
  /\ events' = Append(events, [by |-> p, on |-> topic])
  /\ message_log' = [message_log EXCEPT ![p] = Append(@, LastEvent + 1)]
  /\ publisher' = [publisher EXCEPT ![p] = "open"]
  /\ UNCHANGED <<bus_file, crowded, unsaved, failed, cutOff, homeVars, viewVars>>

OpenLog(p) ==
  /\ publisher[p] = "open"
  /\ bus_file' = BrokenLog
  /\ publisher' = [publisher EXCEPT ![p] = "write"]
  /\ UNCHANGED <<events, message_log, crowded, unsaved, failed, cutOff, homeVars, viewVars>>

AfterSaving(p) == IF p = Home THEN "keep" ELSE "up"

\* The tail of a longer text that another writer leaves makes the file unreadable.
WriteLog(p) ==
  LET rivals == {q \in Publishers \ {p} : publisher[q] = "write"}
  IN /\ publisher[p] = "write"
     /\ \/ bus_file' = Saved(message_log[p])
        \/ rivals # {} /\ bus_file' = BrokenLog
     /\ publisher' = [publisher EXCEPT ![p] = AfterSaving(p)]
     /\ unsaved' = FALSE
     /\ UNCHANGED <<events, message_log, crowded, failed, cutOff, homeVars, viewVars>>

\* The file cannot be opened, or not be written to its end: caught, and publish goes on.
\* (A message that cannot be serialized is a save that fails for as long as it is among
\* the last ones, and a publication that raises.)
SaveFails(p) ==
  /\ failed < MaxFailed /\ failed' = failed + 1
  /\ \/ publisher[p] = "open" /\ UNCHANGED bus_file
     \/ publisher[p] = "write" /\ bus_file' \in {bus_file, BrokenLog}
  /\ publisher' = [publisher EXCEPT ![p] = AfterSaving(p)]
  /\ unsaved' = TRUE
  /\ UNCHANGED <<events, message_log, crowded, cutOff, homeVars, viewVars>>

\* A process is killed, its file as it has left it.
CutOff(p) ==
  /\ p # Home /\ publisher[p] # "off" /\ cutOff < MaxCutOff
  /\ cutOff' = cutOff + 1 /\ crowded' = TRUE
  /\ publisher' = [publisher EXCEPT ![p] = "off"]
  /\ UNCHANGED <<events, message_log, bus_file, unsaved, failed, homeVars, viewVars>>

-----------------------------------------------------------------------------
(* The rest of publish and subscribe in Home.                              *)

LogsStay  == UNCHANGED <<events, message_log, bus_file, crowded, unsaved, failed, cutOff>>
HomesOnly == LogsStay /\ UNCHANGED <<viewVars, unheard, raised_by>>

\* What Home is publishing.
Newcomer == message_log[Home][Len(message_log[Home])]

Keeps(m) ==
  /\ messages' = Append(messages, m)
  /\ late' = [k \in Callbacks |-> IF walk[k].pc = "new" THEN late[k] \cup {m} ELSE late[k]]

\* EventBus.publish keeps the message; nobody is called.
KeepMessage ==
  /\ publisher[Home] = "keep"
  /\ publisher' = [publisher EXCEPT ![Home] = "notify"]
  /\ Keeps(Newcomer)
  /\ UNCHANGED <<listens, walk, heard, forgotten>> /\ HomesOnly

\* It raises: the message is not serialized, or is kept but its latency cannot be logged.
\* What called publish is told, and the listeners are not called.
PublishRaises ==
  /\ publisher[Home] = "keep" /\ Cardinality(unheard) < MaxRaised
  /\ publisher' = [publisher EXCEPT ![Home] = "up"]
  /\ unheard' = unheard \cup {Newcomer}
  /\ \/ Keeps(Newcomer) /\ UNCHANGED forgotten
     \/ forgotten' = forgotten \cup {Newcomer} /\ UNCHANGED <<messages, late>>
  /\ UNCHANGED <<listens, walk, heard, viewVars, raised_by>> /\ LogsStay

\* Faulty variant: everybody is called.
ListenersAll(m) == {k \in Callbacks : listens[k].to # NoTopic}

Listeners(m) == {k \in Callbacks : listens[k].to = events[m].on}

\* The listeners of the sovereign bus are called; what they raise is caught.
NotifyListeners ==
  /\ publisher[Home] = "notify"
  /\ publisher' = [publisher EXCEPT ![Home] = "up"]
  /\ heard' = [k \in Callbacks |->
                 IF k \in Listeners(Newcomer) THEN [heard[k] EXCEPT ![Newcomer] = @ + 1]
                 ELSE heard[k]]
  /\ UNCHANGED <<messages, listens, walk, late, forgotten>> /\ HomesOnly

\* subscribe: the callback becomes a listener, and a thread is started.
Subscribe(k, topic) ==
  /\ publisher[Home] = "up" /\ listens[k].to = NoTopic
  /\ listens' = [listens EXCEPT ![k] = [to |-> topic, from |-> LastEvent]]
  /\ walk' = [walk EXCEPT ![k].pc = "new"]
  /\ UNCHANGED <<publisher, messages, heard, late, forgotten>> /\ HomesOnly

\* process_messages: list(self._messages), whose indexes it then uses.
LookAtKept(k) ==
  /\ walk[k].pc = "new"
  /\ walk' = [walk EXCEPT ![k] = [pc |-> "walk", todo |-> messages, at |-> 1]]
  /\ UNCHANGED <<publisher, messages, listens, heard, late, forgotten>> /\ HomesOnly

\* A message of another type is passed over; at the end the thread is.
PassOn(k) ==
  LET w == walk[k]
  IN /\ w.pc = "walk"
     /\ \/ w.at > Len(w.todo) /\ walk' = [walk EXCEPT ![k].pc = "ended"]
        \/ /\ w.at <= Len(w.todo) /\ events[w.todo[w.at]].on # listens[k].to
           /\ walk' = [walk EXCEPT ![k].at = @ + 1]
     /\ UNCHANGED <<publisher, messages, listens, heard, late, forgotten>> /\ HomesOnly

\* Faulty variant: a message is handed over again when it could not be taken out.
AfterHandingAgain(k) == IF walk[k].at <= Len(messages) THEN "pop" ELSE "walk"

AfterHanding(k) == "pop"

\* The callback is called; what it raises, or the log of latencies, ends the thread.
HandOver(k) ==
  LET w == walk[k]
  IN /\ w.pc = "walk" /\ w.at <= Len(w.todo)
     /\ events[w.todo[w.at]].on = listens[k].to
     /\ heard' = [heard EXCEPT ![k][w.todo[w.at]] = @ + 1]
     /\ \/ walk' = [walk EXCEPT ![k].pc = AfterHanding(k)] /\ UNCHANGED raised_by
        \/ /\ Cardinality(raised_by) < MaxRaised
           /\ raised_by' = raised_by \cup {k}
           /\ walk' = [walk EXCEPT ![k].pc = "ended"]
     /\ UNCHANGED <<publisher, messages, listens, late, forgotten, unheard, viewVars>>
     /\ LogsStay

\* pop(i), if the list is still that long: what is at i now need not be the message that
\* was handed over.
TakeOut(k) ==
  LET i == walk[k].at
  IN /\ walk[k].pc = "pop"
     /\ walk' = [walk EXCEPT ![k].pc = "walk", ![k].at = @ + 1]
     /\ IF i <= Len(messages)
        THEN /\ messages' = SubSeq(messages, 1, i - 1) \o SubSeq(messages, i + 1, Len(messages))
             /\ forgotten' = forgotten \cup {messages[i]}
        ELSE UNCHANGED <<messages, forgotten>>
     /\ UNCHANGED <<publisher, listens, heard, late>> /\ HomesOnly

-----------------------------------------------------------------------------
(* The monitor: it begins with what there is, and prints what comes after  *)
(* as many messages as it has counted.                                     *)

StartViewer ==
  /\ ~viewer.on
  /\ viewer' = [on |-> TRUE, last_count |-> Len(LogContent), first |-> Len(LogContent)]
  /\ UNCHANGED <<printed, homeVars, logVars>>

\* Faulty variant: the count follows the file down.
CountedLast == Len(LogContent)

Counted == IF Len(LogContent) > viewer.last_count THEN Len(LogContent) ELSE viewer.last_count

Poll ==
  LET fresh == {LogContent[i] : i \in viewer.last_count + 1 .. Len(LogContent)}
  IN /\ viewer.on
     /\ printed' = [m \in Numbers |-> IF m \in fresh THEN printed[m] + 1 ELSE printed[m]]
     /\ viewer' = [viewer EXCEPT !.last_count = Counted]
     /\ UNCHANGED <<homeVars, logVars>>

SovNext ==
  \/ \E p \in Publishers :
       \/ StartPublisher(p) \/ EndPublisher(p) \/ OpenLog(p) \/ WriteLog(p)
       \/ SaveFails(p) \/ CutOff(p)
       \/ \E topic \in Topics : PublishEvent(p, topic)
  \/ KeepMessage \/ PublishRaises \/ NotifyListeners
  \/ \E k \in Callbacks :
       \/ LookAtKept(k) \/ PassOn(k) \/ HandOver(k) \/ TakeOut(k)
       \/ \E topic \in Topics : Subscribe(k, topic)
  \/ StartViewer \/ Poll

SovSpec == SovInit /\ [][SovNext]_sovVars

-----------------------------------------------------------------------------

SovTypeOK ==
  /\ events \in Seq([by : Publishers, on : Topics]) /\ LastEvent <= MaxMessages
  /\ message_log \in [Publishers -> Seq(Numbers)]
  /\ bus_file \in Seq(Numbers) \cup {BrokenLog}
  /\ publisher \in [Publishers -> {"off", "up", "open", "write", "keep", "notify"}]
  /\ messages \in Seq(Numbers)
  /\ listens \in [Callbacks -> [to : Topics \cup {NoTopic}, from : Nat]]
  /\ walk \in [Callbacks -> [pc : {"none", "new", "walk", "pop", "ended"},
                             todo : Seq(Numbers), at : Nat]]
  /\ heard \in [Callbacks -> [Numbers -> Nat]] /\ late \in [Callbacks -> SUBSET Numbers]
  /\ forgotten \subseteq Numbers /\ unheard \subseteq Numbers /\ raised_by \subseteq Callbacks
  /\ viewer \in [on : BOOLEAN, last_count : Nat, first : Nat]
  /\ printed \in [Numbers -> Nat]
  /\ crowded \in BOOLEAN /\ unsaved \in BOOLEAN
  /\ cutOff \in 0..MaxCutOff /\ failed \in 0..MaxFailed

\* A subscribed callback hears each message of its type that its process publishes from
\* then on once, unless the publication raised, and a second time only if its thread had
\* not looked before the message was kept; it hears nothing else of what comes later.
LiveMessagesAreHeard ==
  \A k \in Callbacks, m \in 1..LastEvent :
    listens[k].to # NoTopic /\ m > listens[k].from =>
      IF events[m] # [by |-> Home, on |-> listens[k].to] THEN heard[k][m] = 0
      ELSE /\ heard[k][m] <= 1 + Cardinality({m} \cap late[k])
           /\ publisher[Home] = "up" /\ m \notin unheard => heard[k][m] >= 1

\* A message from before the subscription is heard at most once, and it is heard unless
\* the thread of some callback has taken it out of the list, which it may do without
\* having handed it to anybody, or has ended in an exception, or it was never in the list.
EarlierMessagesAreHeard ==
  \A k \in Callbacks, m \in 1..LastEvent :
    listens[k].to # NoTopic /\ m <= listens[k].from =>
      /\ heard[k][m] <= 1
      /\ walk[k].pc = "ended" /\ events[m] = [by |-> Home, on |-> listens[k].to] =>
           heard[k][m] = 1 \/ m \in forgotten \/ k \in raised_by

\* Each log is in the order of publication, whoever wrote the file last and from however
\* old a copy: a message may be missing, none is doubled or out of place.
LogsAreInOrder ==
  \A log \in {message_log[p] : p \in Publishers} \cup {LogContent} :
    \A i, j \in 1..Len(log) : i < j => log[i] < log[j]

\* As long as processes come one after another and none is killed, the file has the newest
\* messages of all of them, as many as it may hold, but while it is written, and between a
\* save that failed and the next one: that one repairs it, if its process still runs.
LoneLogIsComplete ==
  ~crowded /\ ~unsaved /\ (\A p \in Publishers : publisher[p] # "write") =>
    LET saved == IF \E p \in Publishers : publisher[p] = "open" THEN LastEvent - 1 ELSE LastEvent
        held  == IF saved < LogLimit THEN saved ELSE LogLimit
    IN bus_file = [i \in 1..held |-> saved - held + i]

\* The monitor prints no message twice, though it knows messages only by their number in
\* a file that several processes replace; and of a file that is not full and has one
\* writer at a time it prints all there is from the first it has not ignored.
MonitorPrintsOnce ==
  /\ \A m \in Numbers : printed[m] <= 1
  /\ ~crowded /\ LastEvent <= LogLimit /\ viewer.on =>
       {m \in Numbers : printed[m] = 1} = viewer.first + 1 .. viewer.last_count

\* What callbacks hear, what the file holds, and what the monitor shows of it.
SovereignBusIsSound ==
  /\ SovTypeOK /\ LiveMessagesAreHeard /\ EarlierMessagesAreHeard
  /\ LogsAreInOrder /\ LoneLogIsComplete /\ MonitorPrintsOnce

=============================================================================
