----------------------------- MODULE LinkRegistry -----------------------------
(***************************************************************************)
(* The monitored links of the dashboard backend (backend/app/main.py, the  *)
(* application that render.yaml starts): POST /ingest-link, POST           *)
(* /remove-link and the average that the dashboard computes from them.     *)
(* FastAPI runs these handlers in a pool of threads; the list, the         *)
(* dictionary of metadata and the deque of events are module globals       *)
(* without a lock.                                                         *)
(*                                                                         *)
(* A handler loads the global list and then works on the object it got;    *)
(* a removal binds the global to a new object.  An object that was current *)
(* before may still be scanned, or appended to, by a handler that has      *)
(* loaded it, so every load is a step of its own.                          *)
(***************************************************************************)
EXTENDS Naturals, Sequences, SequencesExt

CONSTANTS
  Links,
  DemoLinks,      \* what _initialize_demo_links ingests at startup, in order
  Coverage,       \* per link: the test coverage that its metadata says
  Handlers,       \* threads of the pool
  EventLimit,     \* maxlen of _LINK_EVENTS
  MaxRequests     \* bound: requests served

ASSUME RegistryAssumption ==
  /\ Links # {} /\ DemoLinks \in Seq(Links) /\ IsInjective(DemoLinks)
  /\ Coverage \in [Links -> Nat]
  /\ EventLimit \in Nat \ {0}
  /\ MaxRequests \in Nat

VARIABLES
  objects,    \* the list objects, in the order of their creation
  links,      \* _INGESTED_LINKS: the index of the current object
  metadata,   \* _LINK_METADATA: its keys
  events,     \* _LINK_EVENTS, newest first
  handler,    \* per thread: the request it serves
  requests,   \* requests begun
  disturbed   \* ghost: links that overlapping requests have interfered with

registry == <<objects, links, metadata, events>>
vars == <<registry, handler, requests, disturbed>>

-----------------------------------------------------------------------------

Ops == {"ingest", "remove", "dashboard"}

\* ref is the object loaded last, number a count or a sum, walked the items summed,
\* kept the list that a removal has built. The rest are ghosts: was the link there when
\* the request began, and the links that others have changed since then (changed) and
\* since the last load (stale).
Idle == [pc |-> "idle", op |-> "dashboard", link |-> CHOOSE l \in Links : TRUE, ref |-> 1,
         number |-> 0, walked |-> 0, kept |-> <<>>, there |-> FALSE, changed |-> {},
         stale |-> {}]

Monitored == objects[links]
Event(type, l) == [type |-> type, link |-> l]
Bounded(log) == SubSeq(log, 1, IF Len(log) < EventLimit THEN Len(log) ELSE EventLimit)

\* appendleft.
Log(event) == events' = Bounded(<<event>> \o events)

\* Without the handlers: startup comes before the first request.
Init ==
  /\ objects = <<DemoLinks>>
  /\ links = 1
  /\ metadata = ToSet(DemoLinks)
  /\ events = Bounded([i \in 1..Len(DemoLinks) |->
                        Event("link_ingested", DemoLinks[Len(DemoLinks) + 1 - i])])
  /\ handler = [t \in Handlers |-> Idle]
  /\ requests = 0
  /\ disturbed = {}

\* t changes the entries of ls: what that means to the other requests. An overlap with
\* a request for the same link interferes with it, and so do changes of other links, and
\* a new list that an ingest in progress may miss.
Touch(t, ls, rebinds, next) ==
  LET others == {u \in Handlers \ {t} : handler[u].pc # "idle"}
      hit(u) == \/ handler[u].op # "dashboard" /\ handler[u].link \in ls
                \/ handler[u].op = "ingest" /\ rebinds
  IN /\ handler' = [u \in Handlers |->
            IF u = t THEN [handler[t] EXCEPT !.pc = next]
            ELSE IF u \in others
            THEN [handler[u] EXCEPT !.changed = @ \cup ls, !.stale = @ \cup ls]
            ELSE handler[u]]
     /\ disturbed' = disturbed \cup (ls \ {handler[t].link})
                               \cup {handler[u].link : u \in {v \in others : hit(v)}}

At(t, op, pc) == handler[t].op = op /\ handler[t].pc = pc
Set(t, request) == handler' = [handler EXCEPT ![t] = request] /\ UNCHANGED disturbed
Goto(t, pc) == Set(t, [handler[t] EXCEPT !.pc = pc])
Return(t) == Set(t, Idle)

Begin(t, op, l) ==
  /\ handler[t].pc = "idle"
  /\ requests < MaxRequests
  /\ requests' = requests + 1
  /\ Set(t, [Idle EXCEPT !.op = op, !.link = l, !.there = Contains(Monitored, l),
                         !.pc = CASE op = "ingest" -> "find"
                                  [] op = "remove" -> "count"
                                  [] OTHER         -> "test"])
  /\ UNCHANGED registry

AfterFetch == [ingest |-> "append", remove |-> "filter", dashboard |-> "sum"]

\* Faulty variant: the list as it was bound at startup.
LoadStartup(t) ==
  /\ handler[t].pc \in {"find", "fetch"}
  /\ Set(t, [handler[t] EXCEPT !.stale = {},
                !.pc = IF @ = "find" THEN "scan" ELSE AfterFetch[handler[t].op]])
  /\ UNCHANGED <<registry, requests>>

\* LOAD_GLOBAL _INGESTED_LINKS.
Load(t) ==
  /\ handler[t].pc \in {"find", "fetch"}
  /\ Set(t, [handler[t] EXCEPT !.ref = links, !.stale = {},
                !.pc = IF @ = "find" THEN "scan" ELSE AfterFetch[handler[t].op]])
  /\ UNCHANGED <<registry, requests>>

-----------------------------------------------------------------------------
(* ingest_link.                                                            *)

\* Faulty variant: without the check.
ScanSkipped(t) ==
  /\ At(t, "ingest", "scan")
  /\ Goto(t, "describe")
  /\ UNCHANGED <<registry, requests>>

\* "Check if link already exists". An object only grows at its end, so a walk over it
\* sees what it holds at the walk's end.
Scan(t) ==
  /\ At(t, "ingest", "scan")
  /\ IF Contains(objects[handler[t].ref], handler[t].link)
       THEN Return(t)
       ELSE Goto(t, "describe")
  /\ UNCHANGED <<registry, requests>>

Describe(t) ==
  /\ At(t, "ingest", "describe")
  /\ metadata' = metadata \cup {handler[t].link}
  /\ Touch(t, {handler[t].link}, FALSE, "fetch")
  /\ UNCHANGED <<objects, links, events, requests>>

\* To the object that was loaded, current or not.
AppendItem(t) ==
  /\ At(t, "ingest", "append")
  /\ objects' = [objects EXCEPT ![handler[t].ref] = Append(@, handler[t].link)]
  /\ Touch(t, {handler[t].link}, FALSE, "announce")
  /\ UNCHANGED <<links, metadata, events, requests>>

\* Faulty variant: no event.
AnnounceNothing(t) ==
  /\ At(t, "ingest", "announce")
  /\ Return(t)
  /\ UNCHANGED <<registry, requests>>

AnnounceAdded(t) ==
  /\ At(t, "ingest", "announce")
  /\ Log(Event("link_added", handler[t].link))
  /\ Return(t)
  /\ UNCHANGED <<objects, links, metadata, requests>>

-----------------------------------------------------------------------------
(* remove_link.                                                            *)

Count(t) ==
  /\ At(t, "remove", "count")
  /\ Set(t, [handler[t] EXCEPT !.number = Len(Monitored), !.pc = "fetch"])
  /\ UNCHANGED <<registry, requests>>

\* [item for item in list if item["link"] != l]. The Remove of SequencesExt is SelectSeq, whose
\* operator argument keeps the provers out; a recursive function can be proved about.
Without(list, l) ==
  LET kept[i \in 0..Len(list)] ==
        IF i = 0 THEN <<>>
        ELSE IF list[i] = l THEN kept[i - 1] ELSE Append(kept[i - 1], list[i])
  IN kept[Len(list)]

Filter(t) ==
  /\ At(t, "remove", "filter")
  /\ Set(t, [handler[t] EXCEPT !.kept = Without(objects[handler[t].ref], handler[t].link),
                               !.pc = "assign"])
  /\ UNCHANGED <<registry, requests>>

\* Binds the global to the new list, whatever it names by now.
Assign(t) ==
  /\ At(t, "remove", "assign")
  /\ objects' = Append(objects, handler[t].kept)
  /\ links' = Len(objects')
  /\ Touch(t, SymDiff(ToSet(handler[t].kept), ToSet(Monitored)) \cup {handler[t].link},
           TRUE, "known")
  /\ UNCHANGED <<metadata, events, requests>>

\* `if link in _LINK_METADATA`, a step before the del that it protects.
CheckMetadata(t) ==
  /\ At(t, "remove", "known")
  /\ Goto(t, IF handler[t].link \in metadata THEN "forget" ELSE "compare")
  /\ UNCHANGED <<registry, requests>>

Forget(t) ==
  /\ At(t, "remove", "forget")
  /\ handler[t].link \in metadata
  /\ metadata' = metadata \ {handler[t].link}
  /\ Touch(t, {handler[t].link}, FALSE, "compare")
  /\ UNCHANGED <<objects, links, events, requests>>

\* KeyError: the request ends with an internal server error.
ForgetRaises(t) ==
  /\ At(t, "remove", "forget")
  /\ handler[t].link \notin metadata
  /\ Return(t)
  /\ UNCHANGED <<registry, requests>>

\* Faulty variant: not shorter counts as removed.
CompareLoosely(t) ==
  /\ At(t, "remove", "compare")
  /\ IF Len(Monitored) <= handler[t].number THEN Goto(t, "announce") ELSE Return(t)
  /\ UNCHANGED <<registry, requests>>

\* "Link removed", or "Link not found".
Compare(t) ==
  /\ At(t, "remove", "compare")
  /\ IF Len(Monitored) < handler[t].number THEN Goto(t, "announce") ELSE Return(t)
  /\ UNCHANGED <<registry, requests>>

AnnounceRemoved(t) ==
  /\ At(t, "remove", "announce")
  /\ Log(Event("link_removed", handler[t].link))
  /\ Return(t)
  /\ UNCHANGED <<objects, links, metadata, requests>>

-----------------------------------------------------------------------------
(* _calculate_aggregate_metrics. Its three averages are computed alike, each *)
(* with its own loads of the list; one of them stands for all.               *)

\* Faulty variant: without the test for an empty list.
TestNothing(t) ==
  /\ At(t, "dashboard", "test")
  /\ Goto(t, "fetch")
  /\ UNCHANGED <<registry, requests>>

Test(t) ==
  /\ At(t, "dashboard", "test")
  /\ IF Monitored = <<>> THEN Return(t) ELSE Goto(t, "fetch")
  /\ UNCHANGED <<registry, requests>>

\* `_LINK_METADATA.get(item["link"], {}).get("test_coverage", 0)`.
Covered(l) == IF l \in metadata THEN Coverage[l] ELSE 0

\* One item of the sum: the metadata may change between two items.
SumItem(t) ==
  LET list == objects[handler[t].ref]
      next == handler[t].walked + 1
  IN /\ At(t, "dashboard", "sum")
     /\ next <= Len(list)
     /\ Set(t, [handler[t] EXCEPT !.number = @ + Covered(list[next]), !.walked = next])
     /\ UNCHANGED <<registry, requests>>

SumEnds(t) ==
  /\ At(t, "dashboard", "sum")
  /\ handler[t].walked = Len(objects[handler[t].ref])
  /\ Goto(t, "divide")
  /\ UNCHANGED <<registry, requests>>

Average(t) == handler[t].number \div Len(Monitored)

Divide(t) ==
  /\ At(t, "dashboard", "divide")
  /\ Monitored # <<>>
  /\ Return(t)
  /\ UNCHANGED <<registry, requests>>

\* ZeroDivisionError.
DivideRaises(t) ==
  /\ At(t, "dashboard", "divide")
  /\ Monitored = <<>>
  /\ Return(t)
  /\ UNCHANGED <<registry, requests>>

-----------------------------------------------------------------------------

Ingest(t) == Scan(t) \/ Describe(t) \/ AppendItem(t) \/ AnnounceAdded(t)
RemoveLink(t) ==
  \/ Count(t) \/ Filter(t) \/ Assign(t) \/ CheckMetadata(t) \/ Forget(t)
  \/ ForgetRaises(t) \/ Compare(t) \/ AnnounceRemoved(t)
Dashboard(t) == Test(t) \/ SumItem(t) \/ SumEnds(t) \/ Divide(t) \/ DivideRaises(t)

Next ==
  \E t \in Handlers :
    \/ \E l \in Links : Begin(t, "ingest", l) \/ Begin(t, "remove", l)
    \/ Begin(t, "dashboard", handler[t].link)
    \/ Load(t) \/ Ingest(t) \/ RemoveLink(t) \/ Dashboard(t)

Spec == Init /\ [][Next]_vars

-----------------------------------------------------------------------------

PCs == {"idle", "find", "scan", "describe", "fetch", "append", "announce", "count", "filter",
        "assign", "known", "forget", "compare", "test", "sum", "divide"}

\* The types, the limit of the event log among them (the deque's maxlen).
TypeOK ==
  /\ objects \in Seq(Seq(Links))
  /\ links \in 1..Len(objects)
  /\ metadata \subseteq Links
  /\ events \in Seq([type : {"link_ingested", "link_added", "link_removed"}, link : Links])
  /\ Len(events) <= EventLimit
  /\ handler \in [Handlers -> [pc : PCs, op : Ops, link : Links, ref : 1..Len(objects),
                               number : Nat, walked : Nat, kept : Seq(Links),
                               there : BOOLEAN, changed : SUBSET Links,
                               stale : SUBSET Links]]
  /\ requests \in 0..MaxRequests
  /\ disturbed \subseteq Links

\* A removal binds the global to a list it built from an earlier one. Besides its own
\* link it loses, or brings back, no link but those that other requests have changed
\* between its load of the list and its assignment (remove_link).
ChangesOfOthersSurvive ==
  [][\A t \in Handlers :
       Assign(t) => SymDiff(ToSet(Monitored), ToSet(Monitored)') \ {handler[t].link}
                      \subseteq handler[t].stale]_vars

InService(l) == \E t \in Handlers : /\ handler[t].pc # "idle" /\ handler[t].link = l
                                    /\ handler[t].op # "dashboard"
Settled(l) == ~InService(l) /\ l \notin disturbed

\* A link whose requests have never overlapped with one for the same link, nor met a
\* removal that interfered, is listed at most once, and has metadata exactly when it is
\* listed, however the requests for the other links interleave (ingest_link, remove_link).
SettledLinksAgree ==
  \A l \in Links : Settled(l) =>
    /\ \A i, j \in DOMAIN Monitored : Monitored[i] = l /\ Monitored[j] = l => i = j
    /\ Contains(Monitored, l) <=> l \in metadata

\* For such a link a newest event that says "link_removed" is true: it is not monitored
\* (_LINK_EVENTS, the "link ingestion history"). The converse does not hold: a removal
\* compares two lengths of the whole list, and when an ingest of some other link comes in
\* between it reports "Link not found" and logs nothing, although it has removed.
RemovedLinksAreGone ==
  \A l \in Links, i \in DOMAIN events :
    /\ Settled(l)
    /\ events[i] = Event("link_removed", l) /\ \A j \in 1..(i - 1) : events[j].link # l
    => ~Contains(Monitored, l)

\* A request that nobody has interfered with answers as if it had run alone: an ingest is
\* refused exactly for a link that was there, and a removal finds exactly such a link. A
\* KeyError, an answer without a body, needs another request for the same link.
UndisturbedAnswersAreTrue ==
  [][\A t \in Handlers :
       LET h == handler[t]
           next == handler[t].pc'
       IN /\ Scan(t) /\ h.link \notin h.changed => (next = "idle" <=> h.there)
          /\ Compare(t) /\ h.changed = {} => (next = "announce" <=> h.there)
          /\ ForgetRaises(t) => h.link \in h.changed]_vars

Total(list) ==
  LET sum[i \in 0..Len(list)] == IF i = 0 THEN 0 ELSE sum[i - 1] + Covered(list[i])
  IN sum[Len(list)]

\* The dashboard divides by zero only if the list changed under it. If no removal
\* replaced the list while it was summed, the average is no larger than the best
\* coverage, and if nothing changed at all it is the true average.
DashboardIsPlausible ==
  [][\A t \in Handlers :
       LET h == handler[t]
       IN /\ DivideRaises(t) => h.changed # {}
          /\ Divide(t) /\ h.ref = links =>
               \E l \in Links : Average(t) <= Coverage[l]
          /\ Divide(t) /\ h.changed = {} =>
               h.number = Total(Monitored)]_vars

\* The list, its metadata and its event log.
RegistryIsConsistent == TypeOK /\ SettledLinksAgree /\ RemovedLinksAreGone

\* What undisturbed requests are told.
AnswersAreTrue == UndisturbedAnswersAreTrue /\ DashboardIsPlausible

=============================================================================
