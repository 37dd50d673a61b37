---------------------------- MODULE DashboardProofs ----------------------------
(* Proofs about the dashboard backend: of its links (LinkRegistry), for any links *)
(* and threads, and of its decisions (DecisionBrain), for any threads, requests,  *)
(* services and limits of the deques.                                             *)
EXTENDS LinkRegistry, DecisionBrain, FiniteSetTheorems, TLAPS

\* Induction, for a set of naturals: were n the end of a gap, then k - 1 would map the part
\* of the gap up to n into what is left of it without n.
LEMMA SetInduction ==
  ASSUME NEW T, 0 \in T, \A n \in Nat : n \in T => n + 1 \in T
  PROVE  \A n \in Nat : n \in T
<1> SUFFICES ASSUME NEW n \in Nat, n \notin T PROVE FALSE
  OBVIOUS
<1> DEFINE Gap == {k \in 0..n : k \notin T}
           f == [k \in Gap |-> k - 1]
<1>1. IsFiniteSet(Gap) /\ n \in Gap
  <2>1. IsFiniteSet(0..n)
    BY FS_Interval
  <2>2. Gap \subseteq 0..n /\ n \in Gap
    OBVIOUS
  <2>3. QED
    BY <2>1, <2>2, FS_Subset
<1>2. /\ IsFiniteSet(Gap \ {n}) /\ Cardinality(Gap) \in Nat
      /\ Cardinality(Gap \ {n}) = Cardinality(Gap) - 1
  BY <1>1, FS_RemoveElement, FS_CardinalityType
<1>3. \A k \in Gap : k - 1 \in Gap \ {n}
  <2> SUFFICES ASSUME NEW k \in Gap PROVE k - 1 \in Gap \ {n}
    OBVIOUS
  <2>1. k \in 1..n /\ k - 1 \in Nat
    OBVIOUS
  <2>2. k - 1 \notin T
    <3>1. k - 1 \in T => (k - 1) + 1 \in T
      BY <2>1
    <3>2. QED
      BY <2>1, <3>1
  <2>3. QED
    BY <2>1, <2>2
<1>4. f \in [Gap -> Gap \ {n}]
  BY <1>3
<1>5. \E x, y \in Gap : x # y /\ f[x] = f[y]
  <2> HIDE DEF f
  <2>1. Cardinality(Gap \ {n}) < Cardinality(Gap)
    BY <1>2
  <2>2. QED
    BY <1>1, <1>2, <1>4, <2>1, FS_PigeonHole
<1>6. QED
  BY <1>5

\* A list has a link at most once.
Once(s, l) == \A i, j \in 1..Len(s) : s[i] = l /\ s[j] = l => i = j

LEMMA WithoutIs ==
  ASSUME NEW list \in Seq(Links), NEW l
  PROVE  \E kept : /\ DOMAIN kept = 0..Len(list) /\ kept[0] = <<>>
                   /\ \A i \in 1..Len(list) :
                        kept[i] = IF list[i] = l THEN kept[i - 1]
                                  ELSE Append(kept[i - 1], list[i])
                   /\ Without(list, l) = kept[Len(list)]
<1> DEFINE n == Len(list)
           Step(f, i) == IF list[i] = l THEN f[i - 1] ELSE Append(f[i - 1], list[i])
           Kept(f, m) == DOMAIN f = 0..m /\ f[0] = <<>> /\ \A i \in 1..m : f[i] = Step(f, i)
           T == {m \in Nat : \E f : Kept(f, m)}
<1>1. n \in Nat
  OBVIOUS
<1>2. 0 \in T
  <2>1. Kept([i \in 0..0 |-> <<>>], 0)
    OBVIOUS
  <2>2. QED
    BY <2>1
<1>3. ASSUME NEW m \in Nat, m \in T PROVE m + 1 \in T
  <2>1. PICK f : Kept(f, m)
    BY <1>3
  <2> DEFINE g == [i \in 0..(m + 1) |-> IF i <= m THEN f[i] ELSE Step(f, m + 1)]
  <2>2. DOMAIN g = 0..(m + 1) /\ g[0] = <<>>
    BY <2>1
  <2>3. ASSUME NEW i \in 1..(m + 1) PROVE g[i] = Step(g, i)
    <3>1. g[i - 1] = f[i - 1]
      OBVIOUS
    <3>2. g[i] = Step(f, i)
      <4> HIDE DEF Step
      <4>1. CASE i <= m
        <5>1. g[i] = f[i] /\ i \in 1..m
          BY <4>1
        <5>2. QED
          BY <2>1, <5>1
      <4>2. CASE i = m + 1
        <5>1. ~ (i <= m)
          BY <4>2
        <5>2. QED
          BY <4>2, <5>1
      <4>3. QED
        BY <4>1, <4>2
    <3>3. QED
      BY <3>1, <3>2
  <2> HIDE DEF g, Step
  <2>4. Kept(g, m + 1)
    BY <2>2, <2>3
  <2>5. QED
    BY <2>4
<1>4. \E f : Kept(f, n)
  <2> HIDE DEF T
  <2>1. n \in T
    BY <1>1, <1>2, <1>3, SetInduction
  <2>2. QED
    BY <2>1 DEF T
<1>5. \E f : f = [i \in 0..Len(list) |->
                   IF i = 0 THEN <<>>
                   ELSE IF list[i] = l THEN f[i - 1] ELSE Append(f[i - 1], list[i])]
  <2>1. PICK f : Kept(f, n)
    BY <1>4
  <2> DEFINE g == [i \in 0..n |-> f[i]]
             h == [i \in 0..n |->
                    IF i = 0 THEN <<>>
                    ELSE IF list[i] = l THEN g[i - 1] ELSE Append(g[i - 1], list[i])]
  <2>2. ASSUME NEW i \in 0..n PROVE g[i] = h[i]
    <3>1. CASE i = 0
      BY <1>1, <2>1, <3>1
    <3>2. CASE i # 0
      <4>1. i \in 1..n /\ i - 1 \in 0..n
        BY <1>1, <3>2
      <4>2. g[i] = f[i] /\ g[i - 1] = f[i - 1] /\ h[i] = Step(g, i)
        BY <3>2, <4>1
      <4>3. f[i] = Step(f, i)
        BY <2>1, <4>1
      <4>4. QED
        BY <4>2, <4>3
    <3>3. QED
      BY <3>1, <3>2
  <2>3. g = h
    BY <2>2
  <2>4. QED
    BY <2>3
<1> DEFINE kept == CHOOSE f : f = [i \in 0..Len(list) |->
                     IF i = 0 THEN <<>>
                     ELSE IF list[i] = l THEN f[i - 1] ELSE Append(f[i - 1], list[i])]
<1>6. kept = [i \in 0..Len(list) |->
                IF i = 0 THEN <<>>
                ELSE IF list[i] = l THEN kept[i - 1] ELSE Append(kept[i - 1], list[i])]
  BY <1>5
<1>7. Without(list, l) = kept[Len(list)]
  BY DEF Without
<1> DEFINE Body(i) == IF i = 0 THEN <<>>
                       ELSE IF list[i] = l THEN kept[i - 1] ELSE Append(kept[i - 1], list[i])
<1> HIDE DEF kept
<1>8. kept = [i \in 0..n |-> Body(i)]
  BY <1>6
<1> HIDE DEF Body
<1>9. DOMAIN kept = 0..n /\ \A i \in 0..n : kept[i] = Body(i)
  BY <1>8
<1>10. kept[0] = <<>>
  BY <1>1, <1>9 DEF Body
<1>11. \A i \in 1..n : kept[i] = IF list[i] = l THEN kept[i - 1] ELSE Append(kept[i - 1], list[i])
  <2> SUFFICES ASSUME NEW i \in 1..n
               PROVE  kept[i] = IF list[i] = l THEN kept[i - 1] ELSE Append(kept[i - 1], list[i])
    OBVIOUS
  <2>1. i \in 0..n /\ i # 0
    BY <1>1
  <2>2. kept[i] = Body(i)
    BY <1>9, <2>1
  <2>3. QED
    BY <2>1, <2>2 DEF Body
<1>12. QED
  BY <1>7, <1>9, <1>10, <1>11

LEMMA Appended ==
  ASSUME NEW s \in Seq(Links), NEW y \in Links
  PROVE  /\ Append(s, y) \in Seq(Links) /\ Len(s) \in Nat /\ Len(Append(s, y)) = Len(s) + 1
         /\ \A x : Contains(Append(s, y), x) <=> Contains(s, x) \/ x = y
         /\ \A x : Once(s, x) /\ (x = y => ~Contains(s, x)) => Once(Append(s, y), x)
<1> DEFINE t == Append(s, y) n == Len(s)
<1>1. /\ t \in Seq(Links) /\ n \in Nat /\ Len(t) = n + 1 /\ t[n + 1] = y
      /\ \A i \in 1..n : t[i] = s[i]
  OBVIOUS
<1> HIDE DEF t
<1>2. \A x : Contains(t, x) <=> Contains(s, x) \/ x = y
  <2>1. \A i \in 1..Len(t) : i \in 1..n \/ i = n + 1
    BY <1>1
  <2>2. n + 1 \in 1..Len(t) /\ 1..n \subseteq 1..Len(t)
    BY <1>1
  <2>3. QED
    BY <1>1, <2>1, <2>2 DEF Contains
<1>3. ASSUME NEW x, Once(s, x), x = y => ~Contains(s, x) PROVE Once(t, x)
  <2> SUFFICES ASSUME NEW i \in 1..Len(t), NEW j \in 1..Len(t), t[i] = x, t[j] = x PROVE i = j
    BY DEF Once
  <2>1. CASE i \in 1..n /\ j \in 1..n
    BY <1>1, <1>3, <2>1 DEF Once
  <2>2. CASE i = n + 1 \/ j = n + 1
    <3>1. x = y
      BY <1>1, <2>2
    <3>2. i \notin 1..n /\ j \notin 1..n
      BY <1>1, <1>3, <3>1 DEF Contains
    <3>3. QED
      BY <1>1, <3>2
  <2>3. QED
    BY <1>1, <2>1, <2>2
<1>4. QED
  BY <1>1, <1>2, <1>3 DEF t

LEMMA WithoutHas ==
  ASSUME NEW list \in Seq(Links), NEW l
  PROVE  /\ Without(list, l) \in Seq(Links)
         /\ \A x : Contains(Without(list, l), x) <=> Contains(list, x) /\ x # l
         /\ \A x : Once(list, x) => Once(Without(list, l), x)
         /\ Len(Without(list, l)) <= Len(list)
         /\ Len(Without(list, l)) < Len(list) <=> Contains(list, l)
<1> DEFINE n == Len(list)
           In(i, x) == \E j \in 1..i : list[j] = x
<1>1. n \in Nat /\ \A i \in 1..n : list[i] \in Links
  OBVIOUS
<1>2. PICK kept : /\ kept[0] = <<>>
                  /\ \A i \in 1..n : kept[i] = IF list[i] = l THEN kept[i - 1]
                                              ELSE Append(kept[i - 1], list[i])
                  /\ Without(list, l) = kept[n]
  BY WithoutIs
<1> DEFINE Typed(i)   == kept[i] \in Seq(Links)
           Members(i) == \A x : Contains(kept[i], x) <=> In(i, x) /\ x # l
           Single(i)  == \A x : Once(list, x) => Once(kept[i], x)
           Shorter(i) == Len(kept[i]) <= i /\ (Len(kept[i]) < i <=> In(i, l))
           Good(i)    == i <= n => Typed(i) /\ Members(i) /\ Single(i) /\ Shorter(i)
           T == {i \in Nat : Good(i)}
<1>3. 0 \in T
  <2>1. Typed(0) /\ Len(kept[0]) = 0
    BY <1>2
  <2>2. Members(0) /\ Single(0) /\ Shorter(0)
    BY <2>1 DEF Contains, Once
  <2>3. QED
    BY <2>1, <2>2
<1>4. ASSUME NEW m \in Nat, m \in T PROVE m + 1 \in T
  <2> SUFFICES ASSUME m + 1 <= n
               PROVE  Typed(m + 1) /\ Members(m + 1) /\ Single(m + 1) /\ Shorter(m + 1)
    OBVIOUS
  <2>1. /\ Typed(m) /\ Members(m) /\ Single(m) /\ Shorter(m)
        /\ m + 1 \in 1..n /\ (m + 1) - 1 = m
    BY <1>1, <1>4
  <2> DEFINE y == list[m + 1]
  <2>2. y \in Links /\ kept[m + 1] = (IF y = l THEN kept[m] ELSE Append(kept[m], y))
    BY <1>1, <1>2, <2>1
  <2>3. \A x : In(m + 1, x) <=> In(m, x) \/ x = y
    <3>1. \A j \in 1..(m + 1) : j \in 1..m \/ j = m + 1
      OBVIOUS
    <3>2. 1..m \subseteq 1..(m + 1) /\ m + 1 \in 1..(m + 1)
      OBVIOUS
    <3>3. QED
      BY <3>1, <3>2
  <2>4. \A x : Once(list, x) /\ x = y => ~In(m, x)
    <3>1. \A j \in 1..m : j \in 1..n /\ j # m + 1
      BY <1>1, <2>1
    <3>2. QED
      BY <2>1, <3>1 DEF Once
  <2> HIDE DEF y, In
  <2>5. CASE y = l
    <3>1. Typed(m + 1) /\ Members(m + 1) /\ Single(m + 1)
      BY <2>1, <2>2, <2>3, <2>5
    <3>2. Len(kept[m]) \in Nat
      BY <2>1
    <3>3. Shorter(m + 1)
      BY <2>1, <2>2, <2>3, <2>5, <3>2
    <3>4. QED
      BY <3>1, <3>3
  <2>6. CASE y # l
    <3> DEFINE s == kept[m] t == kept[m + 1]
    <3>1. /\ t \in Seq(Links) /\ Len(s) \in Nat /\ Len(t) = Len(s) + 1
          /\ \A x : Contains(t, x) <=> Contains(s, x) \/ x = y
          /\ \A x : Once(s, x) /\ (x = y => ~Contains(s, x)) => Once(t, x)
      BY <2>1, <2>2, <2>6, Appended
    <3>2. Members(m + 1)
      BY <2>1, <2>3, <2>6, <3>1
    <3>3. Single(m + 1)
      BY <2>1, <2>4, <3>1
    <3>4. Shorter(m + 1)
      BY <2>1, <2>3, <2>6, <3>1
    <3>5. QED
      BY <3>1, <3>2, <3>3, <3>4
  <2>7. QED
    BY <2>5, <2>6
<1>5. Good(n)
  <2> HIDE DEF Good
  <2>1. n \in T
    BY <1>1, <1>3, <1>4, SetInduction
  <2>2. QED
    BY <2>1
<1>6. \A x : In(n, x) <=> Contains(list, x)
  BY DEF Contains
<1> HIDE DEF In
<1>7. QED
  BY <1>1, <1>2, <1>5, <1>6

\* The differences between two lists.
LEMMA Differences ==
  ASSUME NEW s \in Seq(Links), NEW r \in Seq(Links), NEW x
  PROVE  /\ x \in ToSet(s) <=> Contains(s, x)
         /\ x \in SymDiff(ToSet(s), ToSet(r)) <=> ~(Contains(s, x) <=> Contains(r, x))
         /\ Contains(s, x) => x \in Links
<1>1. DOMAIN s = 1..Len(s) /\ DOMAIN r = 1..Len(r) /\ \A i \in 1..Len(s) : s[i] \in Links
  OBVIOUS
<1>2. x \in ToSet(s) <=> Contains(s, x)
  BY <1>1 DEF ToSet, Contains
<1>3. x \in ToSet(r) <=> Contains(r, x)
  BY <1>1 DEF ToSet, Contains
<1>4. Contains(s, x) => x \in Links
  BY <1>1 DEF Contains
<1>5. QED
  BY <1>2, <1>3, <1>4 DEF SymDiff

\* What appendleft makes of the log of events.
EventSet == [type : {"link_ingested", "link_added", "link_removed"}, link : Links]

LEMMA Logged ==
  ASSUME NEW log \in Seq(EventSet), NEW e \in EventSet, Len(log) <= EventLimit
  PROVE  LET new == Bounded(<<e>> \o log)
         IN /\ new \in Seq(EventSet) /\ Len(new) <= EventLimit /\ Len(new) \in Nat
            /\ new[1] = e
            /\ \A i \in 2..Len(new) : i - 1 \in 1..Len(log) /\ new[i] = log[i - 1]
<1> DEFINE new == Bounded(<<e>> \o log)
<1> DEFINE all == <<e>> \o log
           m == IF Len(all) < EventLimit THEN Len(all) ELSE EventLimit
<1>1. /\ all \in Seq(EventSet) /\ Len(log) \in Nat /\ Len(all) = Len(log) + 1 /\ all[1] = e
      /\ \A i \in 2..Len(all) : all[i] = log[i - 1]
      /\ EventLimit \in Nat /\ EventLimit > 0
  BY RegistryAssumption
<1> HIDE DEF all
<1>2. m \in 1..Len(all) /\ m <= EventLimit /\ m <= Len(log) + 1 /\ m \in Nat
  BY <1>1
<1> HIDE DEF m
<1>3. /\ SubSeq(all, 1, m) \in Seq(EventSet) /\ Len(SubSeq(all, 1, m)) = m
      /\ \A i \in 1..m : SubSeq(all, 1, m)[i] = all[i]
  <2>1. all \in Seq(EventSet) /\ 1 <= m /\ m \in Nat /\ m <= Len(all)
    BY <1>1, <1>2
  <2>2. QED
    BY <2>1
<1>4. new = SubSeq(all, 1, m)
  BY DEF Bounded, all, m
<1>5. new \in Seq(EventSet) /\ Len(new) = m /\ \A i \in 1..m : new[i] = all[i]
  BY <1>3, <1>4
<1>6. ASSUME NEW i \in 2..m PROVE i - 1 \in 1..Len(log) /\ new[i] = log[i - 1]
  <2>1. i \in 1..m /\ i \in 2..Len(all) /\ i - 1 \in 1..Len(log)
    BY <1>1, <1>2
  <2>2. QED
    BY <1>1, <1>5, <2>1
<1>7. /\ Len(new) <= EventLimit /\ Len(new) \in Nat /\ new[1] = e
      /\ \A i \in 2..Len(new) : i - 1 \in 1..Len(log) /\ new[i] = log[i - 1]
  <2> HIDE DEF new
  <2>1. 1 \in 1..m
    BY <1>2
  <2>2. new[1] = e
    BY <1>1, <1>5, <2>1
  <2>3. QED
    BY <1>2, <1>5, <1>6, <2>2
<1>8. QED
  BY <1>5, <1>7

-----------------------------------------------------------------------------

Requested(n) == [pc : PCs, op : Ops, link : Links, ref : 1..n, number : Nat, walked : Nat,
                 kept : Seq(Links), there : BOOLEAN, changed : SUBSET Links,
                 stale : SUBSET Links]

\* The points of each request; and the list that a removal has built is without the link.
RequestOK(t) ==
  /\ handler[t].op = "ingest" =>
       handler[t].pc \in {"find", "scan", "describe", "fetch", "append", "announce"}
  /\ handler[t].op = "remove" =>
       handler[t].pc \in {"count", "fetch", "filter", "assign", "known", "forget", "compare",
                          "announce"}
  /\ handler[t].op = "dashboard" => handler[t].pc \in {"idle", "test", "fetch", "sum", "divide"}
  /\ At(t, "remove", "assign") => ~Contains(handler[t].kept, handler[t].link)

\* Where the list that a removal works on differs from the current one, others have changed
\* it since it was loaded.
StaleInv(t) ==
  /\ At(t, "remove", "filter") =>
       \A x : ~(Contains(objects[handler[t].ref], x) <=> Contains(Monitored, x)) =>
                x \in handler[t].stale
  /\ At(t, "remove", "assign") =>
       \A x : x # handler[t].link /\ ~(Contains(handler[t].kept, x) <=> Contains(Monitored, x)) =>
                x \in handler[t].stale

\* A request for a link that nobody has interfered with is right in what it has found.
KnowsInv(t) ==
  /\ handler[t].op = "ingest" /\ handler[t].pc # "find" => handler[t].ref = links
  /\ handler[t].op = "ingest" /\ handler[t].pc \in {"describe", "fetch", "append"} =>
       ~Contains(Monitored, handler[t].link)
  /\ handler[t].op = "ingest" /\ handler[t].pc \in {"fetch", "append"} =>
       handler[t].link \in metadata
  /\ handler[t].op = "remove" /\ handler[t].pc \in {"known", "forget", "compare", "announce"} =>
       ~Contains(Monitored, handler[t].link)

\* Such a link is at most once in every list, the current one or not,
OnceInv(l) ==
  /\ \A o \in 1..Len(objects) : Once(objects[o], l)
  /\ \A t \in Handlers : At(t, "remove", "assign") => Once(handler[t].kept, l)

\* its metadata agree but for a request that has changed one of the two,
Halfway(t) ==
  \/ handler[t].op = "ingest" /\ handler[t].pc \in {"fetch", "append"}
  \/ handler[t].op = "remove" /\ handler[t].pc \in {"known", "forget"}
AgreeInv(l) ==
  (\A t \in Handlers : handler[t].link = l => ~Halfway(t)) =>
    (Contains(Monitored, l) <=> l \in metadata)

\* and the newest event that says it is gone is true but for a request that has added it.
LastRemoved(l) ==
  \E i \in 1..Len(events) :
    events[i] = Event("link_removed", l) /\ \A j \in 1..(i - 1) : events[j].link # l
GoneInv(l) ==
  /\ \A t \in Handlers : handler[t].link = l => ~At(t, "ingest", "announce")
  /\ LastRemoved(l)
  => ~Contains(Monitored, l)

LinkIInv ==
  /\ TypeOK
  /\ \A t \in Handlers : RequestOK(t) /\ StaleInv(t)
  /\ \A t \in Handlers : handler[t].link \notin disturbed => KnowsInv(t)
  /\ \A l \in Links \ disturbed : OnceInv(l) /\ AgreeInv(l) /\ GoneInv(l)

LEMMA IdleOK == \A n \in Nat \ {0} : Idle \in Requested(n)
<1>1. (CHOOSE l \in Links : TRUE) \in Links
  BY RegistryAssumption
<1>2. QED
  BY <1>1 DEF Idle, Requested, PCs, Ops

LEMMA InitLinkIInv == Init => LinkIInv
<1> SUFFICES ASSUME Init PROVE LinkIInv
  OBVIOUS
<1> DEFINE n == Len(DemoLinks)
           log == [i \in 1..n |-> Event("link_ingested", DemoLinks[n + 1 - i])]
<1>1. DemoLinks \in Seq(Links) /\ IsInjective(DemoLinks) /\ n \in Nat /\ DOMAIN DemoLinks = 1..n
  BY RegistryAssumption
<1>2. log \in Seq(EventSet) /\ Len(log) = n
  <2>1. \A i \in 1..n : n + 1 - i \in 1..n
    BY <1>1
  <2>2. \A i \in 1..n : Event("link_ingested", DemoLinks[n + 1 - i]) \in EventSet
    BY <1>1, <2>1 DEF Event, EventSet
  <2>3. QED
    BY <1>1, <2>2
<1>3. \A i \in 1..n : log[i].type = "link_ingested"
  BY DEF Event
<1>4. events = Bounded(log)
  BY DEF Init
<1> HIDE DEF log
<1> DEFINE m == IF Len(log) < EventLimit THEN Len(log) ELSE EventLimit
<1>5. m \in Nat /\ m <= Len(log) /\ m <= EventLimit
  BY <1>1, <1>2, RegistryAssumption
<1>6. events = SubSeq(log, 1, m)
  BY <1>4 DEF Bounded
<1> HIDE DEF m
<1>7. events \in Seq(EventSet) /\ Len(events) = m /\ \A i \in 1..m : events[i] = log[i]
  BY <1>2, <1>5, <1>6
<1>8. /\ Len(objects) = 1 /\ objects \in Seq(Seq(Links))
      /\ Monitored = DemoLinks /\ objects[1] = DemoLinks
  BY <1>1 DEF Init, Monitored
<1>9. metadata = ToSet(DemoLinks) /\ ToSet(DemoLinks) \subseteq Links
  BY <1>1 DEF Init, ToSet
<1>10. TypeOK
  <2>1. Idle \in Requested(1)
    BY IdleOK
  <2>2. handler \in [Handlers -> Requested(Len(objects))]
    BY <1>8, <2>1 DEF Init
  <2>3. requests \in 0..MaxRequests
    BY RegistryAssumption DEF Init
  <2>4. QED
    BY <1>5, <1>7, <1>8, <1>9, <2>2, <2>3 DEF TypeOK, Init, EventSet, Requested
<1>11. \A t \in Handlers : handler[t].op = "dashboard" /\ handler[t].pc = "idle"
  BY DEF Init, Idle
<1>12. \A t \in Handlers : RequestOK(t) /\ StaleInv(t) /\ KnowsInv(t)
  BY <1>11 DEF RequestOK, StaleInv, KnowsInv, At
<1>13. \A l : Once(DemoLinks, l)
  BY <1>1 DEF Once, IsInjective
<1>14. \A l : Contains(DemoLinks, l) <=> l \in ToSet(DemoLinks)
  BY <1>1 DEF Contains, ToSet
<1>15. \A l : ~LastRemoved(l)
  <2>1. \A i \in 1..m : events[i].type # "link_removed"
    BY <1>2, <1>3, <1>5, <1>7
  <2>2. QED
    BY <1>7, <2>1 DEF LastRemoved, Event
<1>16. \A l : OnceInv(l) /\ AgreeInv(l) /\ GoneInv(l)
  BY <1>8, <1>9, <1>11, <1>13, <1>14, <1>15 DEF OnceInv, AgreeInv, GoneInv, At
<1>17. QED
  BY <1>10, <1>12, <1>16 DEF LinkIInv

LEMMA LinkIInvImplies == LinkIInv => RegistryIsConsistent
<1> SUFFICES ASSUME LinkIInv PROVE RegistryIsConsistent
  OBVIOUS
<1>1. TypeOK /\ Monitored \in Seq(Links) /\ DOMAIN Monitored = 1..Len(Monitored)
      /\ DOMAIN events = 1..Len(events) /\ links \in 1..Len(objects)
  BY DEF LinkIInv, TypeOK, Monitored
<1>2. ASSUME NEW l \in Links, Settled(l)
      PROVE  /\ Once(Monitored, l) /\ (Contains(Monitored, l) <=> l \in metadata)
             /\ LastRemoved(l) => ~Contains(Monitored, l)
  <2>1. l \notin disturbed /\ OnceInv(l) /\ AgreeInv(l) /\ GoneInv(l)
    BY <1>2 DEF Settled, LinkIInv
  <2>2. \A t \in Handlers :
          handler[t].link = l => handler[t].op = "dashboard" \/ handler[t].pc = "idle"
    BY <1>2 DEF Settled, InService
  <2>3. \A t \in Handlers : handler[t].link = l => ~Halfway(t) /\ ~At(t, "ingest", "announce")
    BY <2>2 DEF Halfway, At
  <2>4. QED
    BY <1>1, <2>1, <2>3 DEF OnceInv, AgreeInv, GoneInv, Monitored
<1>3. SettledLinksAgree
  BY <1>1, <1>2 DEF SettledLinksAgree, Once
<1>4. RemovedLinksAreGone
  BY <1>1, <1>2 DEF RemovedLinksAreGone, LastRemoved
<1>5. QED
  BY <1>1, <1>3, <1>4 DEF RegistryIsConsistent

-----------------------------------------------------------------------------

LEMMA Facts ==
  ASSUME LinkIInv
  PROVE  /\ Len(objects) \in Nat /\ links \in 1..Len(objects) /\ objects \in Seq(Seq(Links))
         /\ \A o \in 1..Len(objects) : objects[o] \in Seq(Links)
         /\ Monitored = objects[links] /\ Monitored \in Seq(Links)
         /\ handler \in [Handlers -> Requested(Len(objects))]
         /\ \A u \in Handlers : handler[u] \in Requested(Len(objects))
         /\ metadata \subseteq Links /\ disturbed \subseteq Links
         /\ events \in Seq(EventSet) /\ Len(events) <= EventLimit
         /\ requests \in 0..MaxRequests
<1>1. TypeOK
  BY DEF LinkIInv
<1>2. handler \in [Handlers -> Requested(Len(objects))]
  BY <1>1 DEF TypeOK, Requested
<1>3. events \in Seq(EventSet)
  BY <1>1 DEF TypeOK, EventSet
<1>4. QED
  BY <1>1, <1>2, <1>3 DEF TypeOK, Monitored

LEMMA IdleIs ==
  LinkIInv => Idle \in Requested(Len(objects)) /\ Idle.op = "dashboard" /\ Idle.pc = "idle"
<1>1. LinkIInv => Len(objects) \in Nat \ {0}
  BY Facts
<1>2. Idle.op = "dashboard" /\ Idle.pc = "idle"
  BY DEF Idle
<1>3. QED
  BY <1>1, <1>2, IdleOK

\* A step of t that changes neither the list nor the metadata.
LEMMA QuietStep ==
  ASSUME LinkIInv, NEW t \in Handlers, NEW w \in Requested(Len(objects)),
         handler' = [handler EXCEPT ![t] = w],
         UNCHANGED <<objects, links, metadata, disturbed>>, requests' \in 0..MaxRequests,
         events' \in Seq(EventSet), Len(events') <= EventLimit,
         RequestOK(t)', StaleInv(t)', w.link \notin disturbed => KnowsInv(t)',
         At(t, "remove", "assign")' => \A l \in Links \ disturbed : Once(w.kept, l),
         \/ ~Halfway(t)
         \/ Halfway(t)' /\ w.link = handler[t].link
         \/ handler[t].link \in disturbed
         \/ Contains(Monitored, handler[t].link) <=> handler[t].link \in metadata,
         \A l \in Links \ disturbed : GoneInv(l)'
  PROVE  LinkIInv'
<1>1. handler'[t] = w /\ \A u \in Handlers \ {t} : handler'[u] = handler[u]
  BY Facts
<1>2. Monitored' = Monitored
  BY DEF Monitored
<1>3. TypeOK'
  <2>1. handler' \in [Handlers -> Requested(Len(objects))]
    BY Facts
  <2>2. QED
    BY <2>1, Facts DEF TypeOK, Requested, EventSet
<1>4. ASSUME NEW u \in Handlers \ {t} PROVE RequestOK(u)' /\ StaleInv(u)'
  <2>1. RequestOK(u) /\ StaleInv(u)
    BY DEF LinkIInv
  <2>2. QED
    BY <1>1, <1>2, <1>4, <2>1 DEF RequestOK, StaleInv, At
<1>5. ASSUME NEW u \in Handlers \ {t}, handler'[u].link \notin disturbed' PROVE KnowsInv(u)'
  <2>1. KnowsInv(u)
    BY <1>1, <1>5 DEF LinkIInv
  <2>2. QED
    BY <1>1, <1>2, <1>5, <2>1 DEF KnowsInv
<1>6. ASSUME NEW l \in Links \ disturbed PROVE OnceInv(l)' /\ AgreeInv(l)'
  <2>1. OnceInv(l) /\ AgreeInv(l)
    BY DEF LinkIInv
  <2>2. OnceInv(l)'
    <3>1. \A o \in 1..Len(objects') : Once(objects'[o], l)
      BY <2>1 DEF OnceInv
    <3>2. ASSUME NEW u \in Handlers, At(u, "remove", "assign")' PROVE Once(handler'[u].kept, l)
      <4>1. CASE u = t
        BY <1>1, <3>2, <4>1
      <4>2. CASE u # t
        BY <1>1, <2>1, <3>2, <4>2 DEF OnceInv, At
      <4>3. QED
        BY <4>1, <4>2
    <3>3. QED
      BY <3>1, <3>2 DEF OnceInv, Once
  <2>3. AgreeInv(l)'
    <3> SUFFICES ASSUME \A u \in Handlers : handler'[u].link = l => ~Halfway(u)'
                 PROVE  Contains(Monitored, l) <=> l \in metadata
      BY <1>2 DEF AgreeInv
    <3>1. CASE handler[t].link = l /\ Halfway(t)
      BY <1>1, <3>1
    <3>2. CASE ~(handler[t].link = l /\ Halfway(t))
      <4>1. \A u \in Handlers : handler[u].link = l => ~Halfway(u)
        BY <1>1, <3>2 DEF Halfway
      <4>2. QED
        BY <2>1, <4>1 DEF AgreeInv
    <3>3. QED
      BY <3>1, <3>2
  <2>4. QED
    BY <2>2, <2>3
<1>7. \A u \in Handlers : RequestOK(u)' /\ StaleInv(u)'
  BY <1>4
<1>8. \A u \in Handlers : handler'[u].link \notin disturbed' => KnowsInv(u)'
  BY <1>1, <1>5
<1>9. \A l \in Links \ disturbed' : OnceInv(l)' /\ AgreeInv(l)' /\ GoneInv(l)'
  BY <1>6
<1>10. QED
  BY <1>3, <1>7, <1>8, <1>9 DEF LinkIInv

\* A step of t that logs nothing, outside of an ingest's end.
LEMMA GoneStays ==
  ASSUME LinkIInv, NEW t \in Handlers, NEW w, handler' = [handler EXCEPT ![t] = w],
         UNCHANGED <<objects, links, disturbed, events>>, ~At(t, "ingest", "announce")
  PROVE  \A l \in Links \ disturbed : GoneInv(l)'
<1> SUFFICES ASSUME NEW l \in Links \ disturbed PROVE GoneInv(l)'
  OBVIOUS
<1>1. handler'[t] = w /\ \A u \in Handlers \ {t} : handler'[u] = handler[u]
  BY Facts
<1>2. GoneInv(l) /\ Monitored' = Monitored /\ LastRemoved(l)' = LastRemoved(l)
  BY DEF LinkIInv, Monitored, LastRemoved
<1>3. \A u \in Handlers \ {t} : At(u, "ingest", "announce")' = At(u, "ingest", "announce")
  BY <1>1 DEF At
<1>4. QED
  BY <1>1, <1>2, <1>3 DEF GoneInv

\* A new event hides the older ones of its link, and no other.
LEMMA LastLogged ==
  ASSUME events \in Seq(EventSet), Len(events) <= EventLimit, NEW e \in EventSet, Log(e)
  PROVE  /\ events' \in Seq(EventSet) /\ Len(events') <= EventLimit
         /\ \A l \in Links : e.link # l /\ LastRemoved(l)' => LastRemoved(l)
         /\ e.type # "link_removed" => ~LastRemoved(e.link)'
<1> DEFINE new == events'
<1>1. /\ new \in Seq(EventSet) /\ Len(new) <= EventLimit /\ Len(new) \in Nat /\ new[1] = e
      /\ \A i \in 2..Len(new) : i - 1 \in 1..Len(events) /\ new[i] = events[i - 1]
  BY Logged DEF Log
<1>2. ASSUME NEW l \in Links, e.link # l, LastRemoved(l)' PROVE LastRemoved(l)
  <2>1. PICK i \in 1..Len(new) :
          new[i] = Event("link_removed", l) /\ \A j \in 1..(i - 1) : new[j].link # l
    BY <1>2 DEF LastRemoved, Event
  <2>2. i # 1
    BY <1>1, <1>2, <2>1 DEF Event
  <2>3. i \in 2..Len(new)
    BY <1>1, <2>2
  <2>4. i - 1 \in 1..Len(events) /\ events[i - 1] = Event("link_removed", l)
    BY <1>1, <2>1, <2>3
  <2>5. ASSUME NEW j \in 1..((i - 1) - 1) PROVE events[j].link # l
    <3>1. j + 1 \in 1..(i - 1) /\ j + 1 \in 2..Len(new) /\ (j + 1) - 1 = j
      BY <1>1, <2>3
    <3>2. QED
      BY <1>1, <2>1, <3>1
  <2>6. QED
    BY <2>4, <2>5 DEF LastRemoved
<1>3. ASSUME e.type # "link_removed", LastRemoved(e.link)' PROVE FALSE
  <2>1. PICK i \in 1..Len(new) :
          /\ new[i] = Event("link_removed", e.link)
          /\ \A j \in 1..(i - 1) : new[j].link # e.link
    BY <1>3 DEF LastRemoved, Event
  <2>2. CASE i = 1
    BY <1>1, <1>3, <2>1, <2>2 DEF Event
  <2>3. CASE i # 1
    <3>1. 1 \in 1..(i - 1)
      BY <1>1, <2>3
    <3>2. QED
      BY <1>1, <2>1, <3>1
  <2>4. QED
    BY <2>2, <2>3
<1>4. QED
  BY <1>1, <1>2, <1>3

\* The last step of a request that announces its change.
LEMMA GoneLogged ==
  ASSUME LinkIInv, NEW t \in Handlers, NEW e \in EventSet, Log(e), e.link = handler[t].link,
         handler' = [handler EXCEPT ![t] = Idle], UNCHANGED <<objects, links, disturbed>>,
         e.type = "link_removed" =>
           ~At(t, "ingest", "announce") /\
           (e.link \notin disturbed => ~Contains(Monitored, e.link))
  PROVE  /\ events' \in Seq(EventSet) /\ Len(events') <= EventLimit
         /\ \A l \in Links \ disturbed : GoneInv(l)'
<1>1. /\ events' \in Seq(EventSet) /\ Len(events') <= EventLimit
      /\ \A l \in Links : e.link # l /\ LastRemoved(l)' => LastRemoved(l)
      /\ e.type # "link_removed" => ~LastRemoved(e.link)'
  BY Facts, LastLogged
<1>2. handler'[t] = Idle /\ \A u \in Handlers \ {t} : handler'[u] = handler[u]
  BY Facts
<1>3. ASSUME NEW l \in Links \ disturbed PROVE GoneInv(l)'
  <2>1. GoneInv(l) /\ Monitored' = Monitored
    BY DEF LinkIInv, Monitored
  <2>2. CASE e.link = l
    BY <1>1, <2>1, <2>2 DEF GoneInv
  <2>3. CASE e.link # l
    <3>1. \A u \in Handlers \ {t} : At(u, "ingest", "announce")' = At(u, "ingest", "announce")
      BY <1>2 DEF At
    <3>2. QED
      BY <1>1, <1>2, <2>1, <2>3, <3>1 DEF GoneInv
  <2>4. QED
    BY <2>2, <2>3
<1>4. QED
  BY <1>1, <1>3

-----------------------------------------------------------------------------

LEMMA LinkBegins ==
  ASSUME LinkIInv, NEW t \in Handlers, NEW op \in Ops, NEW l \in Links, Begin(t, op, l)
  PROVE  LinkIInv'
<1> DEFINE w == [Idle EXCEPT !.op = op, !.link = l, !.there = Contains(Monitored, l),
                             !.pc = CASE op = "ingest" -> "find"
                                      [] op = "remove" -> "count"
                                      [] OTHER         -> "test"]
<1>1. handler' = [handler EXCEPT ![t] = w] /\ UNCHANGED <<registry, disturbed>>
  BY DEF Begin, Set
<1>2. w \in Requested(Len(objects)) /\ w.op = op
      /\ w.pc = (CASE op = "ingest" -> "find" [] op = "remove" -> "count" [] OTHER -> "test")
  <2>1. Idle \in Requested(Len(objects))
    BY IdleIs
  <2>2. Contains(Monitored, l) \in BOOLEAN
    BY DEF Contains
  <2>3. QED
    BY <2>1, <2>2 DEF Requested, PCs, Ops
<1>3. ~Halfway(t) /\ ~At(t, "ingest", "announce")
  <2>1. RequestOK(t) /\ handler[t].pc = "idle"
    BY DEF LinkIInv, Begin
  <2>2. QED
    BY <2>1 DEF RequestOK, Halfway, At
<1> HIDE DEF w
<1>4. handler'[t] = w
  BY <1>1, Facts
<1>5. RequestOK(t)' /\ StaleInv(t)' /\ KnowsInv(t)' /\ ~At(t, "remove", "assign")'
  BY <1>2, <1>4 DEF RequestOK, StaleInv, KnowsInv, At, Ops
<1>6. requests' \in 0..MaxRequests
  BY Facts, RegistryAssumption DEF Begin
<1>7. QED
  BY <1>1, <1>2, <1>3, <1>5, <1>6, Facts, QuietStep, GoneStays DEF registry

\* The end of a request with no event.
LEMMA LinkReturns ==
  ASSUME LinkIInv, NEW t \in Handlers, Return(t), UNCHANGED <<registry, requests>>,
         ~At(t, "ingest", "announce"),
         \/ ~Halfway(t)
         \/ handler[t].link \in disturbed
         \/ Contains(Monitored, handler[t].link) <=> handler[t].link \in metadata
  PROVE  LinkIInv'
<1>1. handler' = [handler EXCEPT ![t] = Idle] /\ UNCHANGED <<registry, disturbed>>
  BY DEF Return, Set
<1>2. Idle \in Requested(Len(objects)) /\ Idle.op = "dashboard" /\ Idle.pc = "idle"
  BY IdleIs
<1>3. handler'[t] = Idle
  BY <1>1, Facts
<1>4. RequestOK(t)' /\ StaleInv(t)' /\ KnowsInv(t)' /\ ~At(t, "remove", "assign")'
  BY <1>2, <1>3 DEF RequestOK, StaleInv, KnowsInv, At
<1>5. QED
  BY <1>1, <1>2, <1>4, Facts, QuietStep, GoneStays DEF registry

\* The end of a request that announces its change.
LEMMA LinkAnnounces ==
  ASSUME LinkIInv, NEW t \in Handlers, AnnounceAdded(t) \/ AnnounceRemoved(t)
  PROVE  LinkIInv'
<1>1. handler' = [handler EXCEPT ![t] = Idle]
      /\ UNCHANGED <<objects, links, metadata, requests, disturbed>>
  BY DEF AnnounceAdded, AnnounceRemoved, Return, Set
<1>2. Idle \in Requested(Len(objects)) /\ Idle.op = "dashboard" /\ Idle.pc = "idle"
  BY IdleIs
<1>3. handler'[t] = Idle
  BY <1>1, Facts
<1>4. RequestOK(t)' /\ StaleInv(t)' /\ KnowsInv(t)' /\ ~At(t, "remove", "assign")'
  BY <1>2, <1>3 DEF RequestOK, StaleInv, KnowsInv, At
<1>5. ~Halfway(t)
  BY DEF AnnounceAdded, AnnounceRemoved, At, Halfway
<1>6. /\ events' \in Seq(EventSet) /\ Len(events') <= EventLimit
      /\ \A l \in Links \ disturbed : GoneInv(l)'
  <2>1. handler[t].link \in Links /\ handler[t].op \in Ops
    BY Facts DEF Requested
  <2>2. CASE AnnounceAdded(t)
    <3> DEFINE e == Event("link_added", handler[t].link)
    <3>1. /\ e \in EventSet /\ e.link = handler[t].link /\ e.type # "link_removed" /\ Log(e)
      BY <2>1, <2>2 DEF Event, EventSet, AnnounceAdded
    <3> HIDE DEF e
    <3>2. QED
      BY <1>1, <3>1, GoneLogged
  <2>3. CASE AnnounceRemoved(t)
    <3> DEFINE e == Event("link_removed", handler[t].link)
    <3>1. /\ e \in EventSet /\ e.link = handler[t].link /\ Log(e)
          /\ ~At(t, "ingest", "announce")
      BY <2>1, <2>3 DEF Event, EventSet, AnnounceRemoved, At
    <3>2. e.link \notin disturbed => ~Contains(Monitored, e.link)
      BY <2>3, <3>1 DEF LinkIInv, KnowsInv, AnnounceRemoved, At
    <3> HIDE DEF e
    <3>3. QED
      BY <1>1, <3>1, <3>2, GoneLogged
  <2>4. QED
    BY <2>2, <2>3
<1>7. QED
  BY <1>1, <1>2, <1>4, <1>5, <1>6, Facts, QuietStep

LEMMA LinkLoads ==
  ASSUME LinkIInv, NEW t \in Handlers, Load(t)
  PROVE  LinkIInv'
<1> DEFINE h == handler[t]
           w == [h EXCEPT !.ref = links, !.stale = {},
                          !.pc = IF @ = "find" THEN "scan" ELSE AfterFetch[h.op]]
<1>1. /\ handler' = [handler EXCEPT ![t] = w] /\ UNCHANGED <<registry, requests, disturbed>>
      /\ h.pc \in {"find", "fetch"}
  BY DEF Load, Set
<1>2. RequestOK(t) /\ h \in Requested(Len(objects)) /\ (h.link \notin disturbed => KnowsInv(t))
  BY Facts DEF LinkIInv
<1>3. /\ w.op = h.op /\ w.link = h.link /\ w.ref = links
      /\ w.pc = (IF h.pc = "find" THEN "scan" ELSE AfterFetch[h.op])
      /\ w \in Requested(Len(objects))
  <2> DEFINE pc == IF h.pc = "find" THEN "scan" ELSE AfterFetch[h.op]
  <2>1. links \in 1..Len(objects) /\ {} \in SUBSET Links
    BY Facts
  <2>2. pc \in PCs
    BY <1>2 DEF Requested, AfterFetch, PCs, Ops
  <2>3. w = [h EXCEPT !.ref = links, !.stale = {}, !.pc = pc]
    BY <1>2 DEF Requested
  <2> HIDE DEF pc, w
  <2>4. QED
    BY <1>2, <2>1, <2>2, <2>3 DEF Requested, pc
<1>4. \/ h.op = "ingest" /\ h.pc = "find" /\ w.pc = "scan"
      \/ h.op = "ingest" /\ h.pc = "fetch" /\ w.pc = "append"
      \/ h.op = "remove" /\ h.pc = "fetch" /\ w.pc = "filter"
      \/ h.op = "dashboard" /\ h.pc = "fetch" /\ w.pc = "sum"
  BY <1>1, <1>2, <1>3 DEF RequestOK, AfterFetch, Requested, Ops
<1> HIDE DEF w
<1>5. handler'[t] = w /\ Monitored' = Monitored /\ UNCHANGED <<objects, links, metadata>>
  BY <1>1, Facts DEF Monitored, registry
<1>6. RequestOK(t)' /\ ~At(t, "remove", "assign")' /\ ~At(t, "ingest", "announce")
  BY <1>3, <1>4, <1>5 DEF RequestOK, At
<1>7. StaleInv(t)'
  BY <1>3, <1>4, <1>5, Facts DEF StaleInv, At
<1>8. w.link \notin disturbed => KnowsInv(t)'
  BY <1>2, <1>3, <1>4, <1>5 DEF KnowsInv
<1>9. ~Halfway(t) \/ (Halfway(t)' /\ w.link = h.link)
  BY <1>3, <1>4, <1>5 DEF Halfway
<1>10. QED
  BY <1>1, <1>3, <1>6, <1>7, <1>8, <1>9, Facts, QuietStep, GoneStays DEF registry

\* A step of t to another point of its request, with at most a new sum or count.
LEMMA LinkGoes ==
  ASSUME LinkIInv, NEW t \in Handlers, NEW w \in Requested(Len(objects)),
         Set(t, w), UNCHANGED <<registry, requests>>,
         w.op = handler[t].op, w.link = handler[t].link, w.ref = handler[t].ref,
         \/ handler[t].op = "ingest" /\ handler[t].pc = "scan" /\ w.pc = "describe"
              /\ ~Contains(objects[handler[t].ref], handler[t].link)
         \/ handler[t].op = "remove" /\ handler[t].pc = "count" /\ w.pc = "fetch"
         \/ handler[t].op = "remove" /\ handler[t].pc = "known" /\ w.pc = "forget"
         \/ handler[t].op = "remove" /\ handler[t].pc = "known" /\ w.pc = "compare"
              /\ handler[t].link \notin metadata
         \/ handler[t].op = "remove" /\ handler[t].pc = "compare" /\ w.pc = "announce"
         \/ handler[t].op = "dashboard" /\ w.pc \in {"fetch", "sum", "divide"}
  PROVE  LinkIInv'
<1> DEFINE h == handler[t]
<1>1. handler' = [handler EXCEPT ![t] = w] /\ UNCHANGED <<registry, requests, disturbed>>
  BY DEF Set
<1>2. handler'[t] = w /\ Monitored' = Monitored /\ UNCHANGED <<objects, links, metadata>>
  BY <1>1, Facts DEF Monitored, registry
<1>3. h.link \notin disturbed => KnowsInv(t)
  BY DEF LinkIInv
<1>4. RequestOK(t)' /\ StaleInv(t)' /\ ~At(t, "remove", "assign")' /\ ~At(t, "ingest", "announce")
  BY <1>2 DEF RequestOK, StaleInv, At
<1>5. w.link \notin disturbed => KnowsInv(t)'
  BY <1>2, <1>3, Facts DEF KnowsInv
<1>6. \/ ~Halfway(t)
      \/ Halfway(t)' /\ w.link = h.link
      \/ h.link \in disturbed
      \/ Contains(Monitored, h.link) <=> h.link \in metadata
  BY <1>2, <1>3 DEF Halfway, KnowsInv
<1>7. QED
  BY <1>1, <1>4, <1>5, <1>6, Facts, QuietStep, GoneStays DEF registry

LEMMA LinkFilters ==
  ASSUME LinkIInv, NEW t \in Handlers, Filter(t)
  PROVE  LinkIInv'
<1> DEFINE h == handler[t]
           list == objects[h.ref]
           w == [h EXCEPT !.kept = Without(list, h.link), !.pc = "assign"]
<1>1. /\ handler' = [handler EXCEPT ![t] = w] /\ UNCHANGED <<registry, requests, disturbed>>
      /\ h.op = "remove" /\ h.pc = "filter"
  BY DEF Filter, Set, At
<1>2. h \in Requested(Len(objects)) /\ h.ref \in 1..Len(objects) /\ list \in Seq(Links)
  BY Facts DEF Requested
<1>3. /\ Without(list, h.link) \in Seq(Links)
      /\ \A x : Contains(Without(list, h.link), x) <=> Contains(list, x) /\ x # h.link
      /\ \A x : Once(list, x) => Once(Without(list, h.link), x)
  BY <1>2, WithoutHas
<1>4. /\ w \in Requested(Len(objects)) /\ w.op = h.op /\ w.link = h.link /\ w.pc = "assign"
      /\ w.kept = Without(list, h.link) /\ w.stale = h.stale
  BY <1>2, <1>3 DEF Requested, PCs
<1>5. StaleInv(t) /\ \A l \in Links \ disturbed : Once(list, l)
  BY <1>2 DEF LinkIInv, OnceInv
<1> HIDE DEF w
<1>6. handler'[t] = w /\ Monitored' = Monitored /\ UNCHANGED <<objects, links, metadata>>
  BY <1>1, Facts DEF Monitored, registry
<1>7. RequestOK(t)' /\ KnowsInv(t)' /\ ~Halfway(t) /\ ~At(t, "ingest", "announce")
  BY <1>1, <1>3, <1>4, <1>6 DEF RequestOK, KnowsInv, Halfway, At
<1>8. StaleInv(t)'
  <2>1. \A x : ~(Contains(list, x) <=> Contains(Monitored, x)) => x \in h.stale
    BY <1>1, <1>5 DEF StaleInv, At
  <2>2. QED
    BY <1>1, <1>3, <1>4, <1>6, <2>1 DEF StaleInv, At
<1>9. \A l \in Links \ disturbed : Once(w.kept, l)
  BY <1>3, <1>4, <1>5
<1>10. QED
  BY <1>1, <1>4, <1>7, <1>8, <1>9, Facts, QuietStep, GoneStays DEF registry

-----------------------------------------------------------------------------

\* The request at another point.
LEMMA Moved ==
  ASSUME LinkIInv, NEW t \in Handlers, NEW pc \in PCs
  PROVE  LET w == [handler[t] EXCEPT !.pc = pc]
         IN /\ w \in Requested(Len(objects)) /\ w.pc = pc /\ w.op = handler[t].op
            /\ w.link = handler[t].link /\ w.ref = handler[t].ref
BY Facts DEF Requested

LEMMA LinkScans ==
  ASSUME LinkIInv, NEW t \in Handlers, Scan(t)
  PROVE  LinkIInv'
<1>1. At(t, "ingest", "scan") /\ UNCHANGED <<registry, requests>>
  BY DEF Scan
<1>2. CASE Contains(objects[handler[t].ref], handler[t].link)
  BY <1>1, <1>2, LinkReturns DEF Scan, At, Halfway
<1>3. CASE ~Contains(objects[handler[t].ref], handler[t].link)
  <2> DEFINE w == [handler[t] EXCEPT !.pc = "describe"]
  <2>1. Set(t, w)
    BY <1>3 DEF Scan, Goto
  <2>2. /\ w \in Requested(Len(objects)) /\ w.pc = "describe" /\ w.op = handler[t].op
        /\ w.link = handler[t].link /\ w.ref = handler[t].ref
    BY Moved DEF PCs
  <2> HIDE DEF w
  <2>3. QED
    BY <1>1, <1>3, <2>1, <2>2, LinkGoes DEF At
<1>4. QED
  BY <1>2, <1>3

LEMMA LinkCounts ==
  ASSUME LinkIInv, NEW t \in Handlers, Count(t)
  PROVE  LinkIInv'
<1> DEFINE w == [handler[t] EXCEPT !.number = Len(Monitored), !.pc = "fetch"]
<1>1. /\ At(t, "remove", "count") /\ Set(t, w) /\ UNCHANGED <<registry, requests>>
  BY DEF Count
<1>2. /\ w \in Requested(Len(objects)) /\ w.pc = "fetch" /\ w.op = handler[t].op
      /\ w.link = handler[t].link /\ w.ref = handler[t].ref
  <2>1. Len(Monitored) \in Nat /\ handler[t] \in Requested(Len(objects)) /\ "fetch" \in PCs
    BY Facts DEF PCs
  <2>2. QED
    BY <2>1 DEF Requested
<1> HIDE DEF w
<1>3. QED
  BY <1>1, <1>2, LinkGoes DEF At

LEMMA LinkChecks ==
  ASSUME LinkIInv, NEW t \in Handlers, CheckMetadata(t)
  PROVE  LinkIInv'
<1> DEFINE pc == IF handler[t].link \in metadata THEN "forget" ELSE "compare"
           w == [handler[t] EXCEPT !.pc = pc]
<1>1. /\ At(t, "remove", "known") /\ Set(t, w) /\ UNCHANGED <<registry, requests>>
  BY DEF CheckMetadata, Goto
<1>2. /\ w \in Requested(Len(objects)) /\ w.pc = pc /\ w.op = handler[t].op
      /\ w.link = handler[t].link /\ w.ref = handler[t].ref
  <2>1. pc \in PCs
    BY DEF PCs
  <2> HIDE DEF pc
  <2>2. QED
    BY <2>1, Moved
<1> HIDE DEF w
<1>3. QED
  BY <1>1, <1>2, LinkGoes DEF At

LEMMA LinkRaises ==
  ASSUME LinkIInv, NEW t \in Handlers, ForgetRaises(t)
  PROVE  LinkIInv'
<1>1. /\ At(t, "remove", "forget") /\ Return(t) /\ UNCHANGED <<registry, requests>>
      /\ handler[t].link \notin metadata
  BY DEF ForgetRaises
<1>2. handler[t].link \notin disturbed => ~Contains(Monitored, handler[t].link)
  BY <1>1 DEF LinkIInv, KnowsInv, At
<1>3. ~At(t, "ingest", "announce")
  BY <1>1 DEF At
<1>4. QED
  BY <1>1, <1>2, <1>3, LinkReturns

LEMMA LinkCompares ==
  ASSUME LinkIInv, NEW t \in Handlers, Compare(t)
  PROVE  LinkIInv'
<1>1. At(t, "remove", "compare") /\ UNCHANGED <<registry, requests>>
  BY DEF Compare
<1>2. CASE Return(t)
  BY <1>1, <1>2, LinkReturns DEF At, Halfway
<1>3. CASE Goto(t, "announce")
  <2> DEFINE w == [handler[t] EXCEPT !.pc = "announce"]
  <2>1. Set(t, w)
    BY <1>3 DEF Goto
  <2>2. /\ w \in Requested(Len(objects)) /\ w.pc = "announce" /\ w.op = handler[t].op
        /\ w.link = handler[t].link /\ w.ref = handler[t].ref
    BY Moved DEF PCs
  <2> HIDE DEF w
  <2>3. QED
    BY <1>1, <2>1, <2>2, LinkGoes DEF At
<1>4. QED
  BY <1>2, <1>3 DEF Compare

LEMMA LinkSums ==
  ASSUME LinkIInv, NEW t \in Handlers, Dashboard(t)
  PROVE  LinkIInv'
<1>1. handler[t].op = "dashboard" /\ UNCHANGED <<registry, requests>>
  BY DEF Dashboard, Test, SumItem, SumEnds, Divide, DivideRaises, At
<1>2. CASE Return(t)
  BY <1>1, <1>2, LinkReturns DEF At, Halfway
<1>3. ASSUME NEW pc \in {"fetch", "divide"}, Goto(t, pc) PROVE LinkIInv'
  <2> DEFINE w == [handler[t] EXCEPT !.pc = pc]
  <2>1. Set(t, w)
    BY <1>3 DEF Goto
  <2>2. /\ w \in Requested(Len(objects)) /\ w.pc = pc /\ w.op = handler[t].op
        /\ w.link = handler[t].link /\ w.ref = handler[t].ref
    <3>1. pc \in PCs
      BY DEF PCs
    <3>2. QED
      BY <3>1, Moved
  <2> HIDE DEF w
  <2>3. QED
    BY <1>1, <2>1, <2>2, LinkGoes
<1>4. CASE SumItem(t)
  <2> DEFINE h == handler[t]
             next == h.walked + 1
             sum == h.number + Covered(objects[h.ref][next])
             w == [h EXCEPT !.number = sum, !.walked = next]
  <2>1. Set(t, w) /\ h.pc = "sum" /\ next <= Len(objects[h.ref])
    BY <1>4 DEF SumItem, At
  <2>2. sum \in Nat /\ next \in Nat
    <3>1. /\ h \in Requested(Len(objects)) /\ h.number \in Nat /\ h.walked \in Nat
          /\ h.ref \in 1..Len(objects)
      BY Facts DEF Requested
    <3>2. objects[h.ref] \in Seq(Links) /\ next \in 1..Len(objects[h.ref])
      <4>1. objects[h.ref] \in Seq(Links)
        BY <3>1, Facts
      <4>2. QED
        BY <2>1, <3>1, <4>1
    <3>3. objects[h.ref][next] \in Links
      BY <3>2
    <3>4. Covered(objects[h.ref][next]) \in Nat
      BY <3>3, RegistryAssumption DEF Covered
    <3>5. QED
      BY <3>1, <3>4
  <2> HIDE DEF sum, next
  <2>3. /\ w \in Requested(Len(objects)) /\ w.pc = "sum" /\ w.op = h.op
        /\ w.link = h.link /\ w.ref = h.ref
    BY <2>1, <2>2, Facts DEF Requested
  <2> HIDE DEF w
  <2>4. QED
    BY <1>1, <2>1, <2>3, LinkGoes
<1>5. QED
  BY <1>2, <1>3, <1>4 DEF Dashboard, Test, SumEnds, Divide, DivideRaises

-----------------------------------------------------------------------------

\* What the other requests are told of a change of ls.
Rebinds(t, ls, next) == Touch(t, ls, TRUE, next)
Touches(t, ls, next) == Touch(t, ls, FALSE, next) \/ Rebinds(t, ls, next)
Told(u, ls) ==
  /\ handler'[u].pc = handler[u].pc /\ handler'[u].op = handler[u].op
  /\ handler'[u].link = handler[u].link /\ handler'[u].ref = handler[u].ref
  /\ handler'[u].kept = handler[u].kept /\ handler'[u].number = handler[u].number
  /\ handler'[u].walked = handler[u].walked /\ handler'[u].there = handler[u].there
  /\ handler[u].pc # "idle" => /\ handler'[u].stale = handler[u].stale \cup ls
                               /\ handler'[u].changed = handler[u].changed \cup ls
  /\ handler[u].op # "dashboard" /\ handler[u].link \notin disturbed' => handler[u].link \notin ls

LEMMA TouchFacts ==
  ASSUME LinkIInv, NEW t \in Handlers, NEW ls \in SUBSET Links, NEW next \in PCs,
         Touches(t, ls, next)
  PROVE  /\ handler' \in [Handlers -> Requested(Len(objects))]
         /\ handler'[t] = [handler[t] EXCEPT !.pc = next]
         /\ disturbed \subseteq disturbed' /\ disturbed' \subseteq Links
         /\ ls \ {handler[t].link} \subseteq disturbed'
         /\ \A u \in Handlers \ {t} : Told(u, ls)
         /\ Rebinds(t, ls, next) =>
              \A u \in Handlers \ {t} : handler[u].op = "ingest" =>
                                         handler[u].link \in disturbed'
<1> DEFINE New(u) == [handler[u] EXCEPT !.changed = @ \cup ls, !.stale = @ \cup ls]
           others == {u \in Handlers \ {t} : handler[u].pc # "idle"}
           hits == {u \in others : handler[u].op # "dashboard" /\ handler[u].link \in ls}
<1>1. /\ handler' = [u \in Handlers |-> IF u = t THEN [handler[t] EXCEPT !.pc = next]
                                       ELSE IF u \in others THEN New(u) ELSE handler[u]]
      /\ disturbed \cup (ls \ {handler[t].link}) \cup {handler[u].link : u \in hits}
           \subseteq disturbed'
      /\ disturbed' \subseteq disturbed \cup ls \cup {handler[u].link : u \in others}
      /\ Rebinds(t, ls, next) =>
           {handler[u].link : u \in {v \in others : handler[v].op = "ingest"}} \subseteq disturbed'
  BY DEF Touches, Rebinds, Touch
<1>2. \A u \in Handlers : handler[u] \in Requested(Len(objects)) /\ RequestOK(u)
  BY Facts DEF LinkIInv
<1>3. \A u \in Handlers :
        /\ New(u) \in Requested(Len(objects))
        /\ New(u).pc = handler[u].pc /\ New(u).op = handler[u].op
        /\ New(u).link = handler[u].link /\ New(u).ref = handler[u].ref
        /\ New(u).kept = handler[u].kept /\ New(u).number = handler[u].number
        /\ New(u).walked = handler[u].walked /\ New(u).there = handler[u].there
        /\ New(u).stale = handler[u].stale \cup ls
        /\ New(u).changed = handler[u].changed \cup ls
  BY <1>2 DEF Requested
<1>4. [handler[t] EXCEPT !.pc = next] \in Requested(Len(objects))
  BY <1>2 DEF Requested
<1>5. \A u \in Handlers : handler[u].link \in Links
  BY <1>2 DEF Requested
<1>6. disturbed \subseteq disturbed' /\ disturbed' \subseteq Links
      /\ ls \ {handler[t].link} \subseteq disturbed'
  BY <1>1, <1>5, Facts
<1>7. ASSUME NEW u \in Handlers \ {t}, handler[u].op # "dashboard",
             handler[u].link \notin disturbed'
      PROVE  handler[u].link \notin ls /\ (Rebinds(t, ls, next) => handler[u].op # "ingest")
  <2>1. u \in others
    BY <1>2, <1>7 DEF RequestOK, Requested, Ops
  <2>2. QED
    BY <1>1, <1>7, <2>1
<1> HIDE DEF Told
<1>8. handler' \in [Handlers -> Requested(Len(objects))]
  BY <1>1, <1>2, <1>3, <1>4
<1>9. \A u \in Handlers \ {t} :
        handler'[u] = IF handler[u].pc # "idle" THEN New(u) ELSE handler[u]
  BY <1>1
<1>10. handler'[t] = [handler[t] EXCEPT !.pc = next]
  BY <1>1
<1>11. ASSUME NEW u \in Handlers \ {t} PROVE Told(u, ls)
  <2>1. handler[u].op # "dashboard" /\ handler[u].link \notin disturbed' =>
          handler[u].link \notin ls
    BY <1>7
  <2>2. CASE handler[u].pc # "idle"
    <3>1. handler'[u] = New(u)
      BY <1>9, <2>2
    <3>2. /\ New(u).pc = handler[u].pc /\ New(u).op = handler[u].op
          /\ New(u).link = handler[u].link /\ New(u).ref = handler[u].ref
          /\ New(u).kept = handler[u].kept /\ New(u).number = handler[u].number
          /\ New(u).walked = handler[u].walked /\ New(u).there = handler[u].there
          /\ New(u).stale = handler[u].stale \cup ls
          /\ New(u).changed = handler[u].changed \cup ls
      BY <1>3
    <3>3. QED
      BY <2>1, <3>1, <3>2 DEF Told
  <2>3. CASE handler[u].pc = "idle"
    BY <1>9, <2>1, <2>3 DEF Told
  <2>4. QED
    BY <2>2, <2>3
<1>12. QED
  BY <1>6, <1>7, <1>8, <1>10, <1>11

LEMMA TouchStep ==
  ASSUME LinkIInv, handler' \in [Handlers -> Requested(Len(objects))],
         disturbed' \subseteq Links, UNCHANGED <<events, requests>>,
         Len(objects') \in Nat, Len(objects) <= Len(objects'),
         objects' \in Seq(Seq(Links)), links' \in 1..Len(objects'), metadata' \subseteq Links,
         \A u \in Handlers : RequestOK(u)' /\ StaleInv(u)',
         \A u \in Handlers : handler'[u].link \notin disturbed' => KnowsInv(u)',
         \A l \in Links \ disturbed' : OnceInv(l)' /\ AgreeInv(l)' /\ GoneInv(l)'
  PROVE  LinkIInv'
<1>1. ASSUME NEW w \in Requested(Len(objects)) PROVE w \in Requested(Len(objects'))
  <2>1. 1..Len(objects) \subseteq 1..Len(objects')
    BY Facts
  <2>2. w.ref \in 1..Len(objects')
    BY <2>1 DEF Requested
  <2>3. QED
    BY <2>2 DEF Requested
<1>2. handler' \in [Handlers -> Requested(Len(objects'))]
  BY <1>1
<1>3. TypeOK'
  BY <1>2, Facts DEF TypeOK, Requested, EventSet
<1>4. QED
  BY <1>3 DEF LinkIInv

\* A link that is once in every list stays so in the lists that removals have built.
LEMMA OnceStays ==
  ASSUME LinkIInv, NEW t \in Handlers, ~At(t, "remove", "assign")', NEW l \in Links \ disturbed,
         \A u \in Handlers \ {t} :
           /\ handler'[u].pc = handler[u].pc /\ handler'[u].op = handler[u].op
           /\ handler'[u].kept = handler[u].kept,
         \A o \in 1..Len(objects') : Once(objects'[o], l)
  PROVE  OnceInv(l)'
<1>1. OnceInv(l)
  BY DEF LinkIInv
<1>2. \A u \in Handlers : At(u, "remove", "assign")' => Once(handler'[u].kept, l)
  BY <1>1 DEF OnceInv, At
<1>3. QED
  BY <1>2 DEF OnceInv, Once

\* A change of the metadata of the link that t serves.
LEMMA MetadataStep ==
  ASSUME LinkIInv, NEW t \in Handlers, NEW next \in PCs,
         Touch(t, {handler[t].link}, FALSE, next),
         \/ At(t, "ingest", "describe") /\ next = "fetch"
         \/ At(t, "remove", "forget") /\ next = "compare",
         metadata' \subseteq Links, UNCHANGED <<objects, links, events, requests>>,
         \A l \in Links \ {handler[t].link} : l \in metadata' <=> l \in metadata,
         handler[t].link \notin disturbed => KnowsInv(t)',
         \A l \in {handler[t].link} \ disturbed : AgreeInv(l)'
  PROVE  LinkIInv'
<1> DEFINE h == handler[t]
<1>0. PICK ls \in SUBSET Links : ls = {h.link}
  BY Facts DEF Requested
<1>1. h \in Requested(Len(objects)) /\ Touches(t, ls, next)
  BY <1>0, Facts DEF Touches
<1>2. \A l : l \in ls <=> l = h.link
  BY <1>0
<1>3. /\ handler' \in [Handlers -> Requested(Len(objects))]
      /\ handler'[t] = [h EXCEPT !.pc = next]
      /\ disturbed \subseteq disturbed' /\ disturbed' \subseteq Links
      /\ \A u \in Handlers \ {t} : Told(u, ls)
  BY <1>1, TouchFacts
<1>4. /\ handler'[t].pc = next /\ handler'[t].op = h.op /\ handler'[t].link = h.link
      /\ handler'[t].ref = h.ref
  BY <1>1, <1>3 DEF Requested
<1>5. Monitored' = Monitored
  BY DEF Monitored
<1>6. ASSUME NEW u \in Handlers PROVE RequestOK(u)' /\ StaleInv(u)'
  <2>1. RequestOK(u) /\ StaleInv(u)
    BY DEF LinkIInv
  <2>2. CASE u = t
    BY <1>4, <2>2 DEF RequestOK, StaleInv, At
  <2>3. CASE u # t
    BY <1>3, <1>5, <2>1, <2>3 DEF RequestOK, StaleInv, At, Told
  <2>4. QED
    BY <2>2, <2>3
<1>7. ASSUME NEW u \in Handlers, handler'[u].link \notin disturbed' PROVE KnowsInv(u)'
  <2>1. CASE u = t
    BY <1>3, <1>4, <1>7, <2>1
  <2>2. CASE u # t
    <3>1. KnowsInv(u) /\ (handler[u].op # "dashboard" => handler[u].link # h.link)
      BY <1>2, <1>3, <1>7, <2>2 DEF LinkIInv, Told
    <3>2. handler[u].link \in Links
      BY Facts DEF Requested
    <3>3. QED
      BY <1>3, <1>5, <2>2, <3>1, <3>2 DEF KnowsInv, Told
  <2>3. QED
    BY <2>1, <2>2
<1>8. ASSUME NEW l \in Links \ disturbed' PROVE OnceInv(l)' /\ AgreeInv(l)' /\ GoneInv(l)'
  <2>1. l \in Links \ disturbed /\ OnceInv(l) /\ AgreeInv(l) /\ GoneInv(l)
    BY <1>3 DEF LinkIInv
  <2>2. OnceInv(l)'
    <3>1. ~At(t, "remove", "assign")'
      BY <1>4 DEF At
    <3>2. \A o \in 1..Len(objects') : Once(objects'[o], l)
      BY <2>1 DEF OnceInv
    <3>3. QED
      BY <1>3, <2>1, <3>1, <3>2, OnceStays DEF Told
  <2>3. AgreeInv(l)'
    <3>1. CASE l = h.link
      BY <2>1, <3>1
    <3>2. CASE l # h.link
      <4>1. \A u \in Handlers : handler[u].link = l =>
              handler'[u].link = l /\ (Halfway(u)' <=> Halfway(u))
        BY <1>3, <3>2 DEF Halfway, Told
      <4>2. QED
        BY <1>5, <2>1, <3>2, <4>1 DEF AgreeInv
    <3>3. QED
      BY <3>1, <3>2
  <2>4. GoneInv(l)'
    <3>1. \A u \in Handlers : handler[u].link = l =>
            handler'[u].link = l /\ (At(u, "ingest", "announce")' <=> At(u, "ingest", "announce"))
      BY <1>3, <1>4 DEF At, Told
    <3>2. LastRemoved(l)' <=> LastRemoved(l)
      BY DEF LastRemoved
    <3>3. QED
      BY <1>5, <2>1, <3>1, <3>2 DEF GoneInv
  <2>5. QED
    BY <2>2, <2>3, <2>4
<1>9. QED
  BY <1>3, <1>6, <1>7, <1>8, Facts, TouchStep

LEMMA LinkDescribes ==
  ASSUME LinkIInv, NEW t \in Handlers, Describe(t)
  PROVE  LinkIInv'
<1> DEFINE h == handler[t]
<1>1. /\ At(t, "ingest", "describe") /\ metadata' = metadata \cup {h.link}
      /\ Touch(t, {h.link}, FALSE, "fetch") /\ UNCHANGED <<objects, links, events, requests>>
  BY DEF Describe
<1>2. h \in Requested(Len(objects)) /\ h.link \in Links /\ "fetch" \in PCs
  BY Facts DEF Requested, PCs
<1>3. handler'[t] = [h EXCEPT !.pc = "fetch"] /\ Monitored' = Monitored
  BY <1>1, <1>2 DEF Touch, Monitored
<1>4. handler'[t].op = "ingest" /\ handler'[t].pc = "fetch" /\ handler'[t].link = h.link
      /\ handler'[t].ref = h.ref
  BY <1>1, <1>2, <1>3 DEF Requested, At
<1>5. h.link \notin disturbed => KnowsInv(t)'
  BY <1>1, <1>3, <1>4 DEF LinkIInv, KnowsInv, At
<1>6. \A l \in {h.link} \ disturbed : AgreeInv(l)'
  BY <1>4 DEF Halfway, AgreeInv
<1>7. QED
  BY <1>1, <1>2, <1>5, <1>6, Facts, MetadataStep

LEMMA LinkForgets ==
  ASSUME LinkIInv, NEW t \in Handlers, Forget(t)
  PROVE  LinkIInv'
<1> DEFINE h == handler[t]
<1>1. /\ At(t, "remove", "forget") /\ metadata' = metadata \ {h.link}
      /\ Touch(t, {h.link}, FALSE, "compare") /\ UNCHANGED <<objects, links, events, requests>>
  BY DEF Forget
<1>2. h \in Requested(Len(objects)) /\ h.link \in Links /\ "compare" \in PCs
  BY Facts DEF Requested, PCs
<1>3. handler'[t] = [h EXCEPT !.pc = "compare"] /\ Monitored' = Monitored
  BY <1>1, <1>2 DEF Touch, Monitored
<1>4. handler'[t].op = "remove" /\ handler'[t].pc = "compare" /\ handler'[t].link = h.link
      /\ handler'[t].ref = h.ref
  BY <1>1, <1>2, <1>3 DEF Requested, At
<1>5. h.link \notin disturbed => ~Contains(Monitored, h.link)
  BY <1>1 DEF LinkIInv, KnowsInv, At
<1>6. h.link \notin disturbed => KnowsInv(t)'
  BY <1>3, <1>4, <1>5 DEF KnowsInv
<1>7. \A l \in {h.link} \ disturbed : AgreeInv(l)'
  <2>1. h.link \notin metadata'
    BY <1>1
  <2>2. QED
    BY <1>3, <1>5, <2>1 DEF AgreeInv
<1>8. QED
  BY <1>1, <1>2, <1>6, <1>7, Facts, MetadataStep

LEMMA LinkAppends ==
  ASSUME LinkIInv, NEW t \in Handlers, AppendItem(t)
  PROVE  LinkIInv'
<1> DEFINE h == handler[t]
           list == objects[h.ref]
<1>1. /\ h.op = "ingest" /\ h.pc = "append"
      /\ objects' = [objects EXCEPT ![h.ref] = Append(list, h.link)]
      /\ Touch(t, {h.link}, FALSE, "announce") /\ UNCHANGED <<links, metadata, events, requests>>
  BY DEF AppendItem, At
<1>2. PICK ls \in SUBSET Links : ls = {h.link}
  BY Facts DEF Requested
<1>3. /\ h \in Requested(Len(objects)) /\ h.link \in Links /\ h.ref \in 1..Len(objects)
      /\ list \in Seq(Links) /\ "announce" \in PCs
  BY Facts DEF Requested, PCs
<1>4. Touches(t, ls, "announce") /\ \A l : l \in ls <=> l = h.link
  BY <1>1, <1>2 DEF Touches
<1>5. /\ handler' \in [Handlers -> Requested(Len(objects))]
      /\ handler'[t] = [h EXCEPT !.pc = "announce"]
      /\ disturbed \subseteq disturbed' /\ disturbed' \subseteq Links
      /\ \A u \in Handlers \ {t} : Told(u, ls)
  BY <1>3, <1>4, TouchFacts
<1>6. /\ handler'[t].pc = "announce" /\ handler'[t].op = "ingest" /\ handler'[t].link = h.link
      /\ handler'[t].ref = h.ref
  BY <1>1, <1>3, <1>5 DEF Requested
<1>7. /\ Append(list, h.link) \in Seq(Links)
      /\ \A x : Contains(Append(list, h.link), x) <=> Contains(list, x) \/ x = h.link
      /\ \A x : Once(list, x) /\ (x = h.link => ~Contains(list, x)) =>
                  Once(Append(list, h.link), x)
  BY <1>3, Appended
<1>8. /\ Len(objects') = Len(objects) /\ objects' \in Seq(Seq(Links))
      /\ \A o \in 1..Len(objects) :
           objects'[o] = IF o = h.ref THEN Append(list, h.link) ELSE objects[o]
  BY <1>1, <1>3, <1>7, Facts
<1>9. /\ \A x : \A o \in 1..Len(objects) : Contains(objects'[o], x) <=>
                                       Contains(objects[o], x) \/ (o = h.ref /\ x = h.link)
      /\ \A x : Contains(Monitored', x) <=>
                Contains(Monitored, x) \/ (links = h.ref /\ x = h.link)
  BY <1>1, <1>7, <1>8, Facts DEF Monitored
<1>10. \A u \in Handlers : handler[u].ref \in 1..Len(objects) /\ handler[u].link \in Links
  BY Facts DEF Requested
<1>11. ASSUME NEW u \in Handlers PROVE RequestOK(u)' /\ StaleInv(u)'
  <2>1. CASE u = t
    BY <1>6, <2>1 DEF RequestOK, StaleInv, At
  <2>2. CASE u # t
    <3>1. /\ handler'[u].pc = handler[u].pc /\ handler'[u].op = handler[u].op
          /\ handler'[u].link = handler[u].link /\ handler'[u].ref = handler[u].ref
          /\ handler'[u].kept = handler[u].kept
          /\ handler[u].pc # "idle" => handler'[u].stale = handler[u].stale \cup ls
      BY <1>5, <2>2 DEF Told
    <3>2. RequestOK(u)'
      BY <3>1 DEF LinkIInv, RequestOK, At
    <3>3. ASSUME At(u, "remove", "filter"), NEW x,
                 ~(Contains(objects'[handler[u].ref], x) <=> Contains(Monitored', x))
          PROVE  x \in handler'[u].stale
      <4>1. x = h.link \/ ~(Contains(objects[handler[u].ref], x) <=> Contains(Monitored, x))
        BY <1>9, <1>10, <3>3
      <4>2. QED
        BY <1>4, <3>1, <3>3, <4>1 DEF LinkIInv, StaleInv, At
    <3>4. ASSUME At(u, "remove", "assign"), NEW x, x # handler[u].link,
                 ~(Contains(handler[u].kept, x) <=> Contains(Monitored', x))
          PROVE  x \in handler'[u].stale
      <4>1. x = h.link \/ ~(Contains(handler[u].kept, x) <=> Contains(Monitored, x))
        BY <1>9, <3>4
      <4>2. QED
        BY <1>4, <3>1, <3>4, <4>1 DEF LinkIInv, StaleInv, At
    <3>5. StaleInv(u)'
      BY <3>1, <3>3, <3>4 DEF StaleInv, At
    <3>6. QED
      BY <3>2, <3>5
  <2>3. QED
    BY <2>1, <2>2
<1>12. ASSUME NEW u \in Handlers, handler'[u].link \notin disturbed' PROVE KnowsInv(u)'
  <2>1. CASE u = t
    <3>1. h.ref = links
      BY <1>1, <1>5, <1>6, <1>12, <2>1 DEF LinkIInv, KnowsInv
    <3>2. QED
      BY <1>1, <1>6, <2>1, <3>1 DEF KnowsInv
  <2>2. CASE u # t
    <3>1. KnowsInv(u) /\ (handler[u].op # "dashboard" => handler[u].link # h.link)
      BY <1>4, <1>5, <1>12, <2>2 DEF LinkIInv, Told
    <3>2. handler[u].op # "dashboard" =>
            (Contains(Monitored', handler[u].link) <=> Contains(Monitored, handler[u].link))
      BY <1>9, <3>1
    <3>3. QED
      BY <1>1, <1>5, <2>2, <3>1, <3>2 DEF KnowsInv, Told
  <2>3. QED
    BY <2>1, <2>2
<1>13. ASSUME NEW l \in Links \ disturbed' PROVE OnceInv(l)' /\ AgreeInv(l)' /\ GoneInv(l)'
  <2>1. l \in Links \ disturbed /\ OnceInv(l) /\ AgreeInv(l) /\ GoneInv(l)
    BY <1>5 DEF LinkIInv
  <2>2. l = h.link => h.ref = links /\ ~Contains(list, l) /\ l \in metadata
    BY <1>1, <2>1, Facts DEF LinkIInv, KnowsInv
  <2>3. OnceInv(l)'
    <3>1. ~At(t, "remove", "assign")'
      BY <1>6 DEF At
    <3>2. \A o \in 1..Len(objects') : Once(objects'[o], l)
      BY <1>3, <1>7, <1>8, <2>1, <2>2 DEF OnceInv
    <3>3. QED
      BY <1>5, <2>1, <3>1, <3>2, OnceStays DEF Told
  <2>4. AgreeInv(l)'
    <3>1. CASE l = h.link
      BY <1>1, <1>9, <2>2, <3>1 DEF AgreeInv
    <3>2. CASE l # h.link
      <4>1. \A u \in Handlers : handler[u].link = l =>
              handler'[u].link = l /\ (Halfway(u)' <=> Halfway(u))
        BY <1>5, <3>2 DEF Halfway, Told
      <4>2. QED
        BY <1>1, <1>9, <2>1, <3>2, <4>1 DEF AgreeInv
    <3>3. QED
      BY <3>1, <3>2
  <2>5. GoneInv(l)'
    <3>1. CASE l = h.link
      BY <1>6, <3>1 DEF GoneInv, At
    <3>2. CASE l # h.link
      <4>1. \A u \in Handlers : handler[u].link = l =>
              handler'[u].link = l
              /\ (At(u, "ingest", "announce")' <=> At(u, "ingest", "announce"))
        BY <1>5, <3>2 DEF At, Told
      <4>2. LastRemoved(l)' <=> LastRemoved(l)
        BY <1>1 DEF LastRemoved
      <4>3. QED
        BY <1>9, <2>1, <3>2, <4>1, <4>2 DEF GoneInv
    <3>3. QED
      BY <3>1, <3>2
  <2>6. QED
    BY <2>3, <2>4, <2>5
<1>14. QED
  BY <1>1, <1>5, <1>8, <1>11, <1>12, <1>13, Facts, TouchStep

LEMMA LinkAssigns ==
  ASSUME LinkIInv, NEW t \in Handlers, Assign(t)
  PROVE  LinkIInv'
<1> DEFINE h == handler[t]
           n == Len(objects)
<1>1. /\ h.op = "remove" /\ h.pc = "assign" /\ objects' = Append(objects, h.kept)
      /\ links' = Len(objects') /\ UNCHANGED <<metadata, events, requests>>
      /\ Touch(t, SymDiff(ToSet(h.kept), ToSet(Monitored)) \cup {h.link}, TRUE, "known")
  BY DEF Assign, At
<1>2. /\ h \in Requested(n) /\ h.link \in Links /\ h.kept \in Seq(Links) /\ "known" \in PCs
      /\ n \in Nat /\ links \in 1..n
  BY Facts DEF Requested, PCs
<1>3. PICK ls : ls = SymDiff(ToSet(h.kept), ToSet(Monitored)) \cup {h.link}
  OBVIOUS
<1>4. \A x : x \in ls <=> x = h.link \/ ~(Contains(h.kept, x) <=> Contains(Monitored, x))
  BY <1>2, <1>3, Facts, Differences
<1>5. ls \in SUBSET Links
  BY <1>2, <1>4, Facts, Differences
<1>6. Touches(t, ls, "known") /\ Rebinds(t, ls, "known")
  BY <1>1, <1>3 DEF Touches, Rebinds
<1>7. /\ handler' \in [Handlers -> Requested(n)]
      /\ handler'[t] = [h EXCEPT !.pc = "known"]
      /\ disturbed \subseteq disturbed' /\ disturbed' \subseteq Links
      /\ ls \ {h.link} \subseteq disturbed'
      /\ \A u \in Handlers \ {t} : Told(u, ls)
      /\ \A u \in Handlers \ {t} : handler[u].op = "ingest" => handler[u].link \in disturbed'
  BY <1>2, <1>5, <1>6, TouchFacts
<1>8. /\ handler'[t].pc = "known" /\ handler'[t].op = "remove" /\ handler'[t].link = h.link
      /\ ~Contains(h.kept, h.link)
  BY <1>1, <1>2, <1>7 DEF Requested, LinkIInv, RequestOK, At
<1>9. /\ Len(objects') = n + 1 /\ objects' \in Seq(Seq(Links)) /\ links' = n + 1
      /\ objects'[n + 1] = h.kept /\ Monitored' = h.kept
      /\ \A o \in 1..n : objects'[o] = objects[o]
  BY <1>1, <1>2, Facts DEF Monitored
<1>10. \A x : x \notin ls => (Contains(Monitored', x) <=> Contains(Monitored, x))
  BY <1>4, <1>9
<1>11. \A u \in Handlers : handler[u].ref \in 1..n /\ handler[u].link \in Links
  BY Facts DEF Requested
<1>12. ASSUME NEW u \in Handlers PROVE RequestOK(u)' /\ StaleInv(u)'
  <2>1. CASE u = t
    BY <1>8, <2>1 DEF RequestOK, StaleInv, At
  <2>2. CASE u # t
    <3>1. /\ handler'[u].pc = handler[u].pc /\ handler'[u].op = handler[u].op
          /\ handler'[u].link = handler[u].link /\ handler'[u].ref = handler[u].ref
          /\ handler'[u].kept = handler[u].kept
          /\ handler[u].pc # "idle" => handler'[u].stale = handler[u].stale \cup ls
      BY <1>7, <2>2 DEF Told
    <3>2. RequestOK(u)'
      BY <3>1 DEF LinkIInv, RequestOK, At
    <3>3. ASSUME At(u, "remove", "filter"), NEW x,
                 ~(Contains(objects'[handler[u].ref], x) <=> Contains(Monitored', x))
          PROVE  x \in handler'[u].stale
      <4>1. x \in ls \/ ~(Contains(objects[handler[u].ref], x) <=> Contains(Monitored, x))
        BY <1>9, <1>10, <1>11, <3>3
      <4>2. QED
        BY <3>1, <3>3, <4>1 DEF LinkIInv, StaleInv, At
    <3>4. ASSUME At(u, "remove", "assign"), NEW x, x # handler[u].link,
                 ~(Contains(handler[u].kept, x) <=> Contains(Monitored', x))
          PROVE  x \in handler'[u].stale
      <4>1. x \in ls \/ ~(Contains(handler[u].kept, x) <=> Contains(Monitored, x))
        BY <1>10, <3>4
      <4>2. QED
        BY <3>1, <3>4, <4>1 DEF LinkIInv, StaleInv, At
    <3>5. StaleInv(u)'
      BY <3>1, <3>3, <3>4 DEF StaleInv, At
    <3>6. QED
      BY <3>2, <3>5
  <2>3. QED
    BY <2>1, <2>2
<1>13. ASSUME NEW u \in Handlers, handler'[u].link \notin disturbed' PROVE KnowsInv(u)'
  <2>1. CASE u = t
    BY <1>8, <1>9, <2>1 DEF KnowsInv
  <2>2. CASE u # t
    <3>1. /\ KnowsInv(u) /\ handler[u].op # "ingest"
          /\ handler[u].op # "dashboard" => handler[u].link \notin ls
      BY <1>7, <1>13, <2>2 DEF LinkIInv, Told
    <3>2. handler[u].op # "dashboard" =>
            (Contains(Monitored', handler[u].link) <=> Contains(Monitored, handler[u].link))
      BY <1>10, <3>1
    <3>3. QED
      BY <1>7, <2>2, <3>1, <3>2 DEF KnowsInv, Told
  <2>3. QED
    BY <2>1, <2>2
<1>14. ASSUME NEW l \in Links \ disturbed' PROVE OnceInv(l)' /\ AgreeInv(l)' /\ GoneInv(l)'
  <2>1. l \in Links \ disturbed /\ OnceInv(l) /\ AgreeInv(l) /\ GoneInv(l)
        /\ (l # h.link => l \notin ls)
    BY <1>7 DEF LinkIInv
  <2>2. OnceInv(l)'
    <3>1. ~At(t, "remove", "assign")' /\ Once(h.kept, l)
      BY <1>1, <1>8, <2>1 DEF At, OnceInv
    <3>2. ASSUME NEW o \in 1..Len(objects') PROVE Once(objects'[o], l)
      <4>1. o \in 1..n \/ o = n + 1
        <5>1. o \in 1..(n + 1) /\ n \in Nat
          BY <1>2, <1>9
        <5> HIDE DEF n
        <5>2. QED
          BY <5>1
      <4>2. QED
        BY <1>9, <2>1, <3>1, <4>1 DEF OnceInv
    <3>3. QED
      BY <1>7, <2>1, <3>1, <3>2, OnceStays DEF Told
  <2>3. AgreeInv(l)'
    <3>1. CASE l = h.link
      BY <1>8, <3>1 DEF AgreeInv, Halfway
    <3>2. CASE l # h.link
      <4>1. \A u \in Handlers : handler[u].link = l =>
              handler'[u].link = l /\ (Halfway(u)' <=> Halfway(u))
        BY <1>7, <3>2 DEF Halfway, Told
      <4>2. QED
        BY <1>1, <1>10, <2>1, <3>2, <4>1 DEF AgreeInv
    <3>3. QED
      BY <3>1, <3>2
  <2>4. GoneInv(l)'
    <3>1. CASE l = h.link
      BY <1>8, <1>9, <3>1 DEF GoneInv
    <3>2. CASE l # h.link
      <4>1. \A u \in Handlers : handler[u].link = l =>
              handler'[u].link = l
              /\ (At(u, "ingest", "announce")' <=> At(u, "ingest", "announce"))
        BY <1>7, <3>2 DEF At, Told
      <4>2. LastRemoved(l)' <=> LastRemoved(l)
        BY <1>1 DEF LastRemoved
      <4>3. QED
        BY <1>10, <2>1, <3>2, <4>1, <4>2 DEF GoneInv
    <3>3. QED
      BY <3>1, <3>2
  <2>5. QED
    BY <2>2, <2>3, <2>4
<1>15. QED
  BY <1>1, <1>2, <1>7, <1>9, <1>12, <1>13, <1>14, Facts, TouchStep

LEMMA NextLinkIInv == LinkIInv /\ [Next]_vars => LinkIInv'
<1> SUFFICES ASSUME LinkIInv, [Next]_vars PROVE LinkIInv'
  OBVIOUS
<1>1. CASE UNCHANGED vars
  <2>1. UNCHANGED <<objects, links, metadata, events, handler, requests, disturbed>>
    BY <1>1 DEF vars, registry
  <2>2. TypeOK'
    BY <2>1 DEF LinkIInv, TypeOK
  <2>3. \A t \in Handlers : RequestOK(t)' /\ StaleInv(t)'
    BY <2>1 DEF LinkIInv, RequestOK, StaleInv, At, Monitored
  <2>4. \A t \in Handlers : handler'[t].link \notin disturbed' => KnowsInv(t)'
    BY <2>1 DEF LinkIInv, KnowsInv, Monitored
  <2>5. \A l \in Links \ disturbed' : OnceInv(l)'
    BY <2>1 DEF LinkIInv, OnceInv, Once, At
  <2>6. \A l \in Links \ disturbed' : AgreeInv(l)' /\ GoneInv(l)'
    BY <2>1 DEF LinkIInv, AgreeInv, Halfway, Monitored, GoneInv, LastRemoved, At
  <2>7. QED
    BY <2>2, <2>3, <2>4, <2>5, <2>6 DEF LinkIInv
<1>2. ASSUME NEW t \in Handlers, NEW op \in Ops, NEW l \in Links, Begin(t, op, l) PROVE LinkIInv'
  BY <1>2, LinkBegins
<1>3. \A t \in Handlers : handler[t].link \in Links
  BY Facts DEF Requested
<1>4. ASSUME NEW t \in Handlers, Ingest(t) PROVE LinkIInv'
  BY <1>4, LinkScans, LinkDescribes, LinkAppends, LinkAnnounces DEF Ingest
<1>5. ASSUME NEW t \in Handlers, RemoveLink(t) PROVE LinkIInv'
  BY <1>5, LinkCounts, LinkFilters, LinkAssigns, LinkChecks, LinkForgets, LinkRaises,
     LinkCompares, LinkAnnounces DEF RemoveLink
<1>6. QED
  BY <1>1, <1>2, <1>3, <1>4, <1>5, LinkLoads, LinkSums DEF Next, Ops

-----------------------------------------------------------------------------

\* The list of links, its metadata and its event log stay consistent, whatever requests the
\* handlers serve at once (ingest_link, remove_link).
THEOREM RegistryStaysConsistent == Spec => []RegistryIsConsistent
BY InitLinkIInv, NextLinkIInv, LinkIInvImplies, PTL DEF Spec

\* A removal loses, or brings back, no link of others but those that they have changed
\* between its load of the list and its assignment (remove_link).
THEOREM OthersSurvive == Spec => ChangesOfOthersSurvive
<1>1. ASSUME LinkIInv, NEW t \in Handlers, Assign(t)
      PROVE  SymDiff(ToSet(Monitored), ToSet(Monitored)') \ {handler[t].link}
               \subseteq handler[t].stale
  <2> DEFINE h == handler[t]
  <2>1. /\ At(t, "remove", "assign") /\ objects' = Append(objects, h.kept)
        /\ links' = Len(objects')
    BY <1>1 DEF Assign
  <2>2. h.kept \in Seq(Links)
    BY <1>1, Facts DEF Requested
  <2>3. Monitored' = h.kept
    BY <1>1, <2>1, <2>2, Facts DEF Monitored
  <2>4. \A x : x # h.link /\ ~(Contains(h.kept, x) <=> Contains(Monitored, x)) => x \in h.stale
    BY <1>1, <2>1 DEF LinkIInv, StaleInv
  <2>5. \A x : x \in SymDiff(ToSet(Monitored), ToSet(h.kept)) =>
               ~(Contains(h.kept, x) <=> Contains(Monitored, x))
    BY <1>1, <2>2, Facts, Differences
  <2>6. ToSet(Monitored)' = ToSet(h.kept)
    BY <2>3 DEF ToSet
  <2>7. QED
    BY <2>4, <2>5, <2>6
<1>2. LinkIInv /\ [Next]_vars =>
        [\A t \in Handlers :
           Assign(t) => SymDiff(ToSet(Monitored), ToSet(Monitored)') \ {handler[t].link}
                          \subseteq handler[t].stale]_vars
  BY <1>1
<1>3. QED
  BY InitLinkIInv, NextLinkIInv, <1>2, PTL DEF Spec, ChangesOfOthersSurvive

-----------------------------------------------------------------------------

\* The sums of the first items, for metadata met.
Sums(list, met) ==
  CHOOSE sum : sum = [i \in 0..Len(list) |->
    IF i = 0 THEN 0
    ELSE sum[i - 1] + (IF list[i] \in met THEN Coverage[list[i]] ELSE 0)]

LEMMA SumsAre ==
  ASSUME NEW list \in Seq(Links), NEW met
  PROVE  /\ Sums(list, met)[0] = 0
         /\ \A i \in 1..Len(list) :
              Sums(list, met)[i] = Sums(list, met)[i - 1]
                                     + (IF list[i] \in met THEN Coverage[list[i]] ELSE 0)
<1> DEFINE n == Len(list)
           Item(i) == IF list[i] \in met THEN Coverage[list[i]] ELSE 0
           Good(f, m) == DOMAIN f = 0..m /\ f[0] = 0 /\ \A i \in 1..m : f[i] = f[i - 1] + Item(i)
           T == {m \in Nat : \E f : Good(f, m)}
<1>1. n \in Nat
  OBVIOUS
<1>2. 0 \in T
  <2>1. Good([i \in 0..0 |-> 0], 0)
    OBVIOUS
  <2>2. QED
    BY <2>1
<1>3. ASSUME NEW m \in Nat, m \in T PROVE m + 1 \in T
  <2>1. PICK f : Good(f, m)
    BY <1>3
  <2> DEFINE g == [i \in 0..(m + 1) |-> IF i <= m THEN f[i] ELSE f[m] + Item(m + 1)]
  <2> HIDE DEF Item
  <2>2. DOMAIN g = 0..(m + 1) /\ g[0] = 0
    BY <2>1
  <2>3. ASSUME NEW i \in 1..(m + 1) PROVE g[i] = g[i - 1] + Item(i)
    <3>1. g[i - 1] = f[i - 1]
      OBVIOUS
    <3>2. CASE i <= m
      <4>1. g[i] = f[i] /\ i \in 1..m
        BY <3>2
      <4>2. QED
        BY <2>1, <3>1, <4>1
    <3>3. CASE i = m + 1
      <4>1. ~ (i <= m) /\ i - 1 = m
        BY <3>3
      <4>2. QED
        BY <3>1, <3>3, <4>1
    <3>4. QED
      BY <3>2, <3>3
  <2> HIDE DEF g
  <2>4. Good(g, m + 1)
    BY <2>2, <2>3
  <2>5. QED
    BY <2>4
<1>4. \E f : Good(f, n)
  <2> HIDE DEF T
  <2>1. n \in T
    BY <1>1, <1>2, <1>3, SetInduction
  <2>2. QED
    BY <2>1 DEF T
<1>5. \E f : f = [i \in 0..Len(list) |->
                   IF i = 0 THEN 0
                   ELSE f[i - 1] + (IF list[i] \in met THEN Coverage[list[i]] ELSE 0)]
  <2>1. PICK f : Good(f, n)
    BY <1>4
  <2> DEFINE g == [i \in 0..n |-> f[i]]
             h == [i \in 0..n |-> IF i = 0 THEN 0 ELSE g[i - 1] + Item(i)]
  <2> HIDE DEF Item
  <2>2. ASSUME NEW i \in 0..n PROVE g[i] = h[i]
    <3>1. CASE i = 0
      BY <1>1, <2>1, <3>1
    <3>2. CASE i # 0
      <4>1. i \in 1..n /\ i - 1 \in 0..n
        BY <1>1, <3>2
      <4>2. QED
        BY <2>1, <3>2, <4>1
    <3>3. QED
      BY <3>1, <3>2
  <2>3. g = h
    BY <2>2
  <2>4. QED
    BY <2>3 DEF Item
<1> DEFINE s == Sums(list, met)
<1>6. s = [i \in 0..Len(list) |->
             IF i = 0 THEN 0
             ELSE s[i - 1] + (IF list[i] \in met THEN Coverage[list[i]] ELSE 0)]
  BY <1>5 DEF Sums
<1> DEFINE Body(i) == IF i = 0 THEN 0 ELSE s[i - 1] + Item(i)
<1> HIDE DEF s
<1>7. s = [i \in 0..n |-> Body(i)]
  BY <1>6
<1> HIDE DEF Body, Item
<1>8. \A i \in 0..n : s[i] = Body(i)
  BY <1>7
<1>9. s[0] = 0
  BY <1>1, <1>8 DEF Body
<1>10. \A i \in 1..n : s[i] = s[i - 1] + Item(i)
  BY <1>1, <1>8 DEF Body
<1>11. QED
  BY <1>9, <1>10 DEF s, Item

LEMMA TotalIs == \A list : Total(list) = Sums(list, metadata)[Len(list)]
BY DEF Total, Sums, Covered

LEMMA Products == \A a, b, c \in Nat : b <= c => a * b <= a * c
<1> SUFFICES ASSUME NEW a \in Nat, NEW b \in Nat, NEW c \in Nat, b <= c PROVE a * b <= a * c
  OBVIOUS
<1> DEFINE d == c - b
<1>1. d \in Nat /\ c = b + d
  OBVIOUS
<1>2. a * c = a * b + a * d /\ a * d \in Nat /\ a * b \in Nat
  BY <1>1
<1>3. QED
  BY <1>2

LEMMA Quotients == \A a, b, c \in Nat : b > 0 /\ a <= b * c => a \div b <= c
<1> SUFFICES ASSUME NEW a \in Nat, NEW b \in Nat, NEW c \in Nat, b > 0, a <= b * c
             PROVE  a \div b <= c
  OBVIOUS
<1> DEFINE q == a \div b
<1>1. q \in Nat /\ b * q <= a
  OBVIOUS
<1> HIDE DEF q
<1>2. ASSUME q > c PROVE FALSE
  <2>1. b * (c + 1) <= b * q
    BY <1>1, <1>2, Products
  <2>2. b * (c + 1) = b * c + b
    OBVIOUS
  <2>3. b * c \in Nat /\ b * q \in Nat
    BY <1>1
  <2>4. QED
    BY <1>1, <2>1, <2>2, <2>3
<1>3. QED
  BY <1>1, <1>2 DEF q

-----------------------------------------------------------------------------

\* What an ingest, or a removal, has found is right while nobody has changed its link,
FoundInv(t) ==
  handler[t].link \notin handler[t].changed =>
    /\ At(t, "ingest", "find") => (handler[t].there <=> Contains(Monitored, handler[t].link))
    /\ At(t, "ingest", "scan") =>
         (handler[t].there <=> Contains(objects[handler[t].ref], handler[t].link))
    /\ At(t, "remove", "forget") => handler[t].link \in metadata

\* what a removal has counted while nobody has changed anything,
CountInv(t) ==
  handler[t].op = "remove" /\ handler[t].changed = {} =>
    /\ handler[t].pc \in {"count", "fetch"} =>
         (handler[t].there <=> Contains(Monitored, handler[t].link))
    /\ handler[t].pc = "fetch" => handler[t].number = Len(Monitored)
    /\ handler[t].pc = "filter" =>
         /\ handler[t].number = Len(objects[handler[t].ref])
         /\ handler[t].there <=> Contains(objects[handler[t].ref], handler[t].link)
    /\ handler[t].pc = "assign" => (handler[t].there <=> Len(handler[t].kept) < handler[t].number)
    /\ handler[t].pc \in {"known", "forget", "compare"} =>
         (handler[t].there <=> Len(Monitored) < handler[t].number)

\* and a sum, which in any case is no larger than that of as many items of one link.
SumInv(t) ==
  handler[t].op = "dashboard" =>
    /\ handler[t].pc \in {"test", "fetch"} => handler[t].number = 0 /\ handler[t].walked = 0
    /\ handler[t].pc \in {"sum", "divide"} =>
         /\ handler[t].walked <= Len(objects[handler[t].ref])
         /\ \E l \in Links : handler[t].number <= handler[t].walked * Coverage[l]
    /\ handler[t].changed = {} =>
         /\ handler[t].pc \in {"fetch", "sum", "divide"} => Monitored # <<>>
         /\ handler[t].pc \in {"sum", "divide"} =>
              /\ handler[t].ref = links
              /\ handler[t].number = Sums(Monitored, metadata)[handler[t].walked]
         /\ handler[t].pc = "divide" => handler[t].walked = Len(Monitored)

RightInv(t) == FoundInv(t) /\ CountInv(t) /\ SumInv(t)
AnswerIInv == LinkIInv /\ \A t \in Handlers : RightInv(t)

LEMMA InitAnswerIInv == Init => AnswerIInv
<1> SUFFICES ASSUME Init PROVE AnswerIInv
  OBVIOUS
<1>1. \A t \in Handlers : handler[t].op = "dashboard" /\ handler[t].pc = "idle"
  BY DEF Init, Idle
<1>2. \A t \in Handlers : RightInv(t)
  BY <1>1 DEF RightInv, FoundInv, CountInv, SumInv, At
<1>3. QED
  BY <1>2, InitLinkIInv DEF AnswerIInv

\* The other requests, when t has changed nothing,
LEMMA RightQuiet ==
  ASSUME AnswerIInv, NEW u \in Handlers, handler'[u] = handler[u],
         UNCHANGED <<objects, links, metadata>>
  PROVE  RightInv(u)'
<1>1. FoundInv(u) /\ CountInv(u) /\ SumInv(u) /\ Monitored' = Monitored
  BY DEF AnswerIInv, RightInv, Monitored
<1>2. FoundInv(u)'
  BY <1>1 DEF FoundInv, At
<1>3. CountInv(u)'
  BY <1>1 DEF CountInv
<1>4. SumInv(u)'
  BY <1>1 DEF SumInv
<1>5. QED
  BY <1>2, <1>3, <1>4 DEF RightInv

\* and when it has changed ls.
LEMMA RightTold ==
  ASSUME AnswerIInv, NEW u \in Handlers, NEW ls, Told(u, ls), ls # {},
         \A o \in 1..Len(objects) : Len(objects[o]) <= Len(objects'[o]),
         \A x : \A o \in 1..Len(objects) : x \notin ls =>
           (Contains(objects'[o], x) <=> Contains(objects[o], x)),
         \A x : x \notin ls =>
           /\ Contains(Monitored', x) <=> Contains(Monitored, x)
           /\ x \in metadata' <=> x \in metadata
  PROVE  RightInv(u)'
<1>1. /\ FoundInv(u) /\ SumInv(u) /\ RequestOK(u) /\ handler[u].ref \in 1..Len(objects)
      /\ handler[u] \in Requested(Len(objects))
  BY Facts DEF AnswerIInv, RightInv, LinkIInv, Requested
<1>2. /\ handler'[u].pc = handler[u].pc /\ handler'[u].op = handler[u].op
      /\ handler'[u].link = handler[u].link /\ handler'[u].ref = handler[u].ref
      /\ handler'[u].number = handler[u].number /\ handler'[u].walked = handler[u].walked
      /\ handler'[u].there = handler[u].there
      /\ handler[u].pc # "idle" => handler'[u].changed = handler[u].changed \cup ls
  BY DEF Told
<1>3. CASE handler[u].pc = "idle"
  <2>1. handler[u].op = "dashboard"
    BY <1>1, <1>3 DEF RequestOK, Requested, Ops
  <2>2. QED
    BY <1>2, <1>3, <2>1 DEF RightInv, FoundInv, CountInv, SumInv, At
<1>4. CASE handler[u].pc # "idle"
  <2>1. handler'[u].changed # {}
    BY <1>2, <1>4
  <2>2. FoundInv(u)'
    <3> SUFFICES ASSUME handler[u].link \notin handler[u].changed, handler[u].link \notin ls
                 PROVE  FoundInv(u)'
      BY <1>2, <1>4 DEF FoundInv
    <3>1. QED
      BY <1>1, <1>2 DEF FoundInv, At
  <2>3. CountInv(u)'
    BY <2>1 DEF CountInv
  <2>4. SumInv(u)'
    <3>1. handler[u].op = "dashboard" /\ handler[u].pc \in {"sum", "divide"} =>
            handler[u].walked <= Len(objects'[handler[u].ref])
      <4>1. /\ handler[u].walked \in Nat /\ objects[handler[u].ref] \in Seq(Links)
            /\ Len(objects[handler[u].ref]) \in Nat
        BY <1>1, Facts DEF Requested, AnswerIInv
      <4>2. QED
        BY <1>1, <4>1 DEF SumInv
    <3>2. QED
      BY <1>1, <1>2, <2>1, <3>1 DEF SumInv
  <2>5. QED
    BY <2>2, <2>3, <2>4 DEF RightInv
<1>5. QED
  BY <1>3, <1>4

-----------------------------------------------------------------------------

\* The request of t after its own step.
LEMMA RightReturns ==
  ASSUME AnswerIInv, NEW t \in Handlers, handler' = [handler EXCEPT ![t] = Idle],
         UNCHANGED <<objects, links, metadata>>
  PROVE  \A u \in Handlers : RightInv(u)'
<1>1. LinkIInv
  BY DEF AnswerIInv
<1>2. handler'[t] = Idle /\ \A u \in Handlers \ {t} : handler'[u] = handler[u]
  BY <1>1, Facts
<1>3. Idle.op = "dashboard" /\ Idle.pc = "idle"
  BY <1>1, IdleIs
<1>4. RightInv(t)'
  BY <1>2, <1>3 DEF RightInv, FoundInv, CountInv, SumInv, At
<1>5. QED
  BY <1>2, <1>4, RightQuiet

LEMMA RightMoves ==
  ASSUME AnswerIInv, NEW t \in Handlers, NEW w, handler' = [handler EXCEPT ![t] = w],
         UNCHANGED <<objects, links, metadata>>, RightInv(t)'
  PROVE  \A u \in Handlers : RightInv(u)'
<1>1. LinkIInv
  BY DEF AnswerIInv
<1>2. \A u \in Handlers \ {t} : handler'[u] = handler[u]
  BY <1>1, Facts
<1>3. QED
  BY <1>2, RightQuiet

LEMMA RightBegins ==
  ASSUME AnswerIInv, NEW t \in Handlers, NEW op \in Ops, NEW l \in Links, Begin(t, op, l)
  PROVE  \A u \in Handlers : RightInv(u)'
<1> DEFINE w == [Idle EXCEPT !.op = op, !.link = l, !.there = Contains(Monitored, l),
                             !.pc = CASE op = "ingest" -> "find"
                                      [] op = "remove" -> "count"
                                      [] OTHER         -> "test"]
<1>1. handler' = [handler EXCEPT ![t] = w] /\ UNCHANGED <<objects, links, metadata>>
  BY DEF Begin, Set, registry
<1>2. /\ w.op = op /\ w.link = l /\ (w.there <=> Contains(Monitored, l))
      /\ w.number = 0 /\ w.walked = 0 /\ w.changed = {}
      /\ w.pc = (CASE op = "ingest" -> "find" [] op = "remove" -> "count" [] OTHER -> "test")
  BY DEF Idle
<1> HIDE DEF w
<1>3. handler'[t] = w /\ Monitored' = Monitored
  BY <1>1, Facts DEF AnswerIInv, Monitored
<1>4. RightInv(t)'
  BY <1>2, <1>3 DEF RightInv, FoundInv, CountInv, SumInv, At, Ops
<1>5. QED
  BY <1>1, <1>4, RightMoves

LEMMA RightLoads ==
  ASSUME AnswerIInv, NEW t \in Handlers, Load(t)
  PROVE  \A u \in Handlers : RightInv(u)'
<1> DEFINE h == handler[t]
           pc == IF h.pc = "find" THEN "scan" ELSE AfterFetch[h.op]
           w == [h EXCEPT !.ref = links, !.stale = {}, !.pc = pc]
<1>1. /\ h \in Requested(Len(objects)) /\ RequestOK(t) /\ h.pc \in {"find", "fetch"}
      /\ FoundInv(t) /\ CountInv(t) /\ SumInv(t) /\ Monitored = objects[links]
      /\ Monitored \in Seq(Links) /\ Len(Monitored) \in Nat
  BY Facts DEF AnswerIInv, RightInv, LinkIInv, Load
<1>2. handler' = [handler EXCEPT ![t] = w] /\ UNCHANGED <<objects, links, metadata>>
  BY <1>1 DEF Load, Set, registry, Requested
<1>3. \/ h.op = "ingest" /\ h.pc = "find" /\ pc = "scan"
      \/ h.op = "ingest" /\ h.pc = "fetch" /\ pc = "append"
      \/ h.op = "remove" /\ h.pc = "fetch" /\ pc = "filter"
      \/ h.op = "dashboard" /\ h.pc = "fetch" /\ pc = "sum"
  BY <1>1 DEF RequestOK, AfterFetch, Requested, Ops
<1> HIDE DEF pc
<1>4. /\ w.op = h.op /\ w.link = h.link /\ w.ref = links /\ w.pc = pc /\ w.there = h.there
      /\ w.number = h.number /\ w.walked = h.walked /\ w.changed = h.changed
  BY <1>1 DEF Requested
<1> HIDE DEF w
<1>5. handler'[t] = w /\ Monitored' = Monitored
  BY <1>2, Facts DEF AnswerIInv, Monitored
<1>6. FoundInv(t)'
  BY <1>1, <1>2, <1>3, <1>4, <1>5 DEF FoundInv, At
<1>7. CountInv(t)'
  BY <1>1, <1>2, <1>3, <1>4, <1>5 DEF CountInv
<1>8. SumInv(t)'
  <2> SUFFICES ASSUME h.op = "dashboard" PROVE SumInv(t)'
    BY <1>4, <1>5 DEF SumInv
  <2>1. h.number = 0 /\ h.walked = 0 /\ pc = "sum"
    BY <1>1, <1>3 DEF SumInv
  <2>2. Sums(Monitored, metadata)[0] = 0
    BY <1>1, SumsAre
  <2>3. \E l \in Links : 0 <= 0 * Coverage[l]
    BY RegistryAssumption
  <2>4. h.changed = {} => Monitored # <<>>
    BY <1>1, <1>3 DEF SumInv
  <2>5. QED
    BY <1>1, <1>2, <1>4, <1>5, <2>1, <2>2, <2>3, <2>4 DEF SumInv
<1>9. QED
  BY <1>2, <1>6, <1>7, <1>8, RightMoves DEF RightInv

\* To another point of the request, and nothing else.
LEMMA RightGoes ==
  ASSUME AnswerIInv, NEW t \in Handlers, NEW pc, Goto(t, pc), UNCHANGED <<registry, requests>>,
         handler[t].op \in {"ingest", "remove"} =>
           \/ handler[t].pc = "scan" /\ pc = "describe"
           \/ handler[t].pc = "known" /\ pc = "forget" /\ handler[t].link \in metadata
           \/ handler[t].pc = "known" /\ pc = "compare"
           \/ handler[t].pc = "compare" /\ pc = "announce",
         handler[t].op = "dashboard" =>
           \/ handler[t].pc = "test" /\ pc = "fetch" /\ Monitored # <<>>
           \/ handler[t].pc = "sum" /\ pc = "divide"
                /\ handler[t].walked = Len(objects[handler[t].ref])
  PROVE  \A u \in Handlers : RightInv(u)'
<1> DEFINE h == handler[t]
           w == [h EXCEPT !.pc = pc]
<1>1. /\ h \in Requested(Len(objects)) /\ FoundInv(t) /\ CountInv(t) /\ SumInv(t)
      /\ Monitored = objects[links] /\ RequestOK(t)
  BY Facts DEF AnswerIInv, RightInv, LinkIInv
<1>2. handler' = [handler EXCEPT ![t] = w] /\ UNCHANGED <<objects, links, metadata>>
  BY DEF Goto, Set, registry
<1>3. /\ w.op = h.op /\ w.link = h.link /\ w.ref = h.ref /\ w.pc = pc /\ w.there = h.there
      /\ w.number = h.number /\ w.walked = h.walked /\ w.changed = h.changed
  BY <1>1 DEF Requested
<1>4. h.op = "ingest" \/ h.op = "remove" \/ h.op = "dashboard"
  BY <1>1 DEF Requested, Ops
<1> HIDE DEF w
<1>5. handler'[t] = w /\ Monitored' = Monitored
  BY <1>2, Facts DEF AnswerIInv, Monitored
<1>6. FoundInv(t)'
  BY <1>1, <1>2, <1>3, <1>4, <1>5 DEF FoundInv, At
<1>7. CountInv(t)'
  BY <1>1, <1>2, <1>3, <1>4, <1>5 DEF CountInv, RequestOK
<1>8. SumInv(t)'
  BY <1>1, <1>2, <1>3, <1>4, <1>5 DEF SumInv
<1>9. QED
  BY <1>2, <1>6, <1>7, <1>8, RightMoves DEF RightInv

LEMMA RightCounts ==
  ASSUME AnswerIInv, NEW t \in Handlers, Count(t)
  PROVE  \A u \in Handlers : RightInv(u)'
<1> DEFINE h == handler[t]
           w == [h EXCEPT !.number = Len(Monitored), !.pc = "fetch"]
<1>1. /\ h \in Requested(Len(objects)) /\ CountInv(t) /\ h.op = "remove" /\ h.pc = "count"
  BY Facts DEF AnswerIInv, RightInv, Count, At
<1>2. handler' = [handler EXCEPT ![t] = w] /\ UNCHANGED <<objects, links, metadata>>
  BY DEF Count, Set, registry
<1>3. /\ w.op = h.op /\ w.link = h.link /\ w.pc = "fetch" /\ w.there = h.there
      /\ w.number = Len(Monitored) /\ w.changed = h.changed
  BY <1>1 DEF Requested
<1> HIDE DEF w
<1>4. handler'[t] = w /\ Monitored' = Monitored
  BY <1>2, Facts DEF AnswerIInv, Monitored
<1>5. RightInv(t)'
  BY <1>1, <1>3, <1>4 DEF RightInv, FoundInv, CountInv, SumInv, At
<1>6. QED
  BY <1>2, <1>5, RightMoves

LEMMA RightFilters ==
  ASSUME AnswerIInv, NEW t \in Handlers, Filter(t)
  PROVE  \A u \in Handlers : RightInv(u)'
<1> DEFINE h == handler[t]
           list == objects[h.ref]
           w == [h EXCEPT !.kept = Without(list, h.link), !.pc = "assign"]
<1>1. /\ h \in Requested(Len(objects)) /\ CountInv(t) /\ h.op = "remove" /\ h.pc = "filter"
      /\ list \in Seq(Links)
  BY Facts DEF AnswerIInv, RightInv, Filter, At, Requested
<1>2. handler' = [handler EXCEPT ![t] = w] /\ UNCHANGED <<objects, links, metadata>>
  BY DEF Filter, Set, registry
<1>3. /\ w.op = h.op /\ w.link = h.link /\ w.pc = "assign" /\ w.there = h.there
      /\ w.number = h.number /\ w.changed = h.changed /\ w.kept = Without(list, h.link)
  BY <1>1 DEF Requested
<1>4. Len(w.kept) < Len(list) <=> Contains(list, h.link)
  BY <1>1, <1>3, WithoutHas
<1> HIDE DEF w
<1>5. handler'[t] = w /\ Monitored' = Monitored
  BY <1>2, Facts DEF AnswerIInv, Monitored
<1>6. RightInv(t)'
  BY <1>1, <1>3, <1>4, <1>5 DEF RightInv, FoundInv, CountInv, SumInv, At
<1>7. QED
  BY <1>2, <1>6, RightMoves

LEMMA RightAdds ==
  ASSUME AnswerIInv, NEW t \in Handlers, SumItem(t)
  PROVE  \A u \in Handlers : RightInv(u)'
<1> DEFINE h == handler[t]
           list == objects[h.ref]
           next == h.walked + 1
           item == list[next]
           w == [h EXCEPT !.number = @ + Covered(item), !.walked = next]
<1>1. /\ h \in Requested(Len(objects)) /\ SumInv(t) /\ h.op = "dashboard" /\ h.pc = "sum"
      /\ list \in Seq(Links) /\ Monitored = objects[links] /\ next <= Len(list)
  BY Facts DEF AnswerIInv, RightInv, SumItem, At, Requested
<1>2. handler' = [handler EXCEPT ![t] = w] /\ UNCHANGED <<objects, links, metadata>>
  BY DEF SumItem, Set, registry
<1>3. h.number \in Nat /\ h.walked \in Nat
  BY <1>1 DEF Requested
<1>4. /\ next \in 1..Len(list) /\ item \in Links /\ next - 1 = h.walked
      /\ Coverage[item] \in Nat /\ Covered(item) \in Nat /\ Covered(item) <= Coverage[item]
  <2>1. next \in 1..Len(list) /\ next - 1 = h.walked
    BY <1>1, <1>3
  <2>2. item \in Links
    BY <1>1, <2>1
  <2> HIDE DEF item, next
  <2>3. Coverage[item] \in Nat
    BY <2>2, RegistryAssumption
  <2>4. QED
    BY <2>1, <2>2, <2>3 DEF Covered
<1>5. /\ w.op = "dashboard" /\ w.link = h.link /\ w.ref = h.ref /\ w.pc = "sum"
      /\ w.number = h.number + Covered(item) /\ w.walked = next /\ w.changed = h.changed
  BY <1>1 DEF Requested
<1> HIDE DEF w
<1>6. handler'[t] = w /\ Monitored' = Monitored
  BY <1>2, Facts DEF AnswerIInv, Monitored
<1>7. \E l \in Links : w.number <= w.walked * Coverage[l]
  <2>1. PICK k \in Links : h.number <= h.walked * Coverage[k]
    BY <1>1 DEF SumInv
  <2>2. PICK l \in Links : Coverage[k] <= Coverage[l] /\ Coverage[item] <= Coverage[l]
    <3>1. Coverage[k] \in Nat
      BY RegistryAssumption
    <3> HIDE DEF item
    <3>2. CASE Coverage[k] <= Coverage[item]
      BY <1>4, <3>2
    <3>3. CASE Coverage[item] <= Coverage[k]
      BY <3>1, <3>3
    <3>4. QED
      BY <1>4, <3>1, <3>2, <3>3
  <2> DEFINE a == h.walked
             b == Coverage[k]
             c == Coverage[l]
  <2>3. a \in Nat /\ b \in Nat /\ c \in Nat /\ b <= c
    BY <1>3, <2>2, RegistryAssumption
  <2>4. Covered(item) <= c
    BY <1>4, <2>2, <2>3
  <2> HIDE DEF a, b, c
  <2>5. /\ a * b <= a * c /\ a * b \in Nat /\ a * c \in Nat /\ (a + 1) * c = a * c + c
    BY <2>3, Products
  <2>6. h.number + Covered(item) <= (a + 1) * c
    <3> DEFINE m == h.number
               d == Covered(item)
               p == a * b
               q == a * c
    <3>1. m \in Nat /\ d \in Nat /\ p \in Nat /\ q \in Nat
      BY <1>3, <1>4, <2>5
    <3>2. m <= p /\ p <= q /\ d <= c /\ (a + 1) * c = q + c
      BY <2>1, <2>4, <2>5 DEF a, b
    <3> HIDE DEF m, d, p, q
    <3>3. m + d <= q + c
      BY <2>3, <3>1, <3>2
    <3>4. QED
      BY <3>2, <3>3 DEF m, d
  <2>7. QED
    BY <1>5, <2>6 DEF a, c
<1>8. h.changed = {} => w.number = Sums(Monitored, metadata)[w.walked]
  <2> SUFFICES ASSUME h.changed = {} PROVE w.number = Sums(list, metadata)[next]
    BY <1>1, <1>5 DEF SumInv
  <2>1. h.number = Sums(list, metadata)[next - 1]
    BY <1>1, <1>4 DEF SumInv
  <2>2. Sums(list, metadata)[next] =
          Sums(list, metadata)[next - 1] + (IF item \in metadata THEN Coverage[item] ELSE 0)
    <3> HIDE DEF list, next
    <3>1. list \in Seq(Links) /\ next \in 1..Len(list)
      BY <1>1, <1>4
    <3>2. QED
      BY <3>1, SumsAre DEF item
  <2>3. QED
    BY <1>5, <2>1, <2>2 DEF Covered
<1>9. RightInv(t)'
  <2>1. FoundInv(t)' /\ CountInv(t)'
    BY <1>5, <1>6 DEF FoundInv, CountInv, At
  <2>2. w.walked <= Len(list)
    BY <1>1, <1>5
  <2>3. h.changed = {} => Monitored # <<>> /\ h.ref = links
    BY <1>1 DEF SumInv
  <2> HIDE DEF next, item
  <2>4. SumInv(t)'
    BY <1>1, <1>2, <1>5, <1>6, <1>7, <1>8, <2>2, <2>3 DEF SumInv
  <2>5. QED
    BY <2>1, <2>4 DEF RightInv
<1>10. QED
  BY <1>2, <1>9, RightMoves

\* The steps that change the list or the metadata.
LEMMA RightDescribes ==
  ASSUME AnswerIInv, NEW t \in Handlers, Describe(t) \/ Forget(t)
  PROVE  \A u \in Handlers : RightInv(u)'
<1> DEFINE h == handler[t]
<1>1. PICK ls \in SUBSET Links : ls = {h.link}
  BY Facts DEF AnswerIInv, Requested
<1>2. /\ LinkIInv /\ h \in Requested(Len(objects)) /\ CountInv(t)
      /\ UNCHANGED <<objects, links>> /\ Monitored' = Monitored
      /\ \A x : x \notin ls => (x \in metadata' <=> x \in metadata)
  BY <1>1, Facts DEF AnswerIInv, RightInv, Describe, Forget, Monitored
<1>3. PICK next \in PCs : /\ Touches(t, ls, next)
                          /\ \/ h.op = "ingest" /\ next = "fetch"
                             \/ h.op = "remove" /\ h.pc = "forget" /\ next = "compare"
  BY <1>1 DEF Describe, Forget, At, Touches, PCs
<1>4. handler'[t] = [h EXCEPT !.pc = next] /\ \A u \in Handlers \ {t} : Told(u, ls)
  BY <1>2, <1>3, TouchFacts
<1>5. \A u \in Handlers \ {t} : RightInv(u)'
  <2>1. \A o \in 1..Len(objects) : Len(objects[o]) <= Len(objects'[o])
    <3>1. \A o \in 1..Len(objects) : Len(objects[o]) \in Nat
      BY <1>2, Facts
    <3>2. QED
      BY <1>2, <3>1
  <2>2. ls # {}
    BY <1>1
  <2>3. \A x : \A o \in 1..Len(objects) : x \notin ls =>
          (Contains(objects'[o], x) <=> Contains(objects[o], x))
    BY <1>2
  <2>4. \A x : x \notin ls => (Contains(Monitored', x) <=> Contains(Monitored, x))
    BY <1>2
  <2>5. QED
    BY <1>2, <1>4, <2>1, <2>2, <2>3, <2>4, RightTold
<1>6. /\ handler'[t].op = h.op /\ handler'[t].pc = next /\ handler'[t].there = h.there
      /\ handler'[t].number = h.number /\ handler'[t].changed = h.changed
  BY <1>2, <1>4 DEF Requested
<1>7. RightInv(t)'
  BY <1>2, <1>3, <1>6 DEF RightInv, FoundInv, CountInv, SumInv, At
<1>8. QED
  BY <1>5, <1>7

LEMMA RightAppends ==
  ASSUME AnswerIInv, NEW t \in Handlers, AppendItem(t)
  PROVE  \A u \in Handlers : RightInv(u)'
<1> DEFINE h == handler[t]
           list == objects[h.ref]
<1>1. PICK ls \in SUBSET Links : ls = {h.link}
  BY Facts DEF AnswerIInv, Requested
<1>2. /\ LinkIInv /\ h \in Requested(Len(objects)) /\ h.op = "ingest" /\ h.link \in Links
      /\ objects' = [objects EXCEPT ![h.ref] = Append(list, h.link)]
      /\ UNCHANGED <<links, metadata>> /\ list \in Seq(Links) /\ h.ref \in 1..Len(objects)
  BY Facts DEF AnswerIInv, AppendItem, At, Requested
<1>3. Touches(t, ls, "announce") /\ "announce" \in PCs
  BY <1>1 DEF AppendItem, Touches, PCs
<1>4. handler'[t] = [h EXCEPT !.pc = "announce"] /\ \A u \in Handlers \ {t} : Told(u, ls)
  BY <1>2, <1>3, TouchFacts
<1>5. /\ Len(list) \in Nat /\ Len(Append(list, h.link)) = Len(list) + 1
      /\ \A x : Contains(Append(list, h.link), x) <=> Contains(list, x) \/ x = h.link
  BY <1>2, Appended
<1>6. \A o \in 1..Len(objects) :
        objects'[o] = IF o = h.ref THEN Append(list, h.link) ELSE objects[o]
  <2>1. objects \in Seq(Seq(Links))
    BY <1>2, Facts
  <2>2. QED
    BY <1>2, <2>1
<1>7. \A x : \A o \in 1..Len(objects) : x \notin ls =>
        (Contains(objects'[o], x) <=> Contains(objects[o], x))
  BY <1>1, <1>5, <1>6
<1>8. \A x : x \notin ls => (Contains(Monitored', x) <=> Contains(Monitored, x))
  BY <1>2, <1>7, Facts DEF Monitored
<1>9. \A o \in 1..Len(objects) : Len(objects[o]) <= Len(objects'[o])
  <2>1. \A o \in 1..Len(objects) : Len(objects[o]) \in Nat
    BY <1>2, Facts
  <2>2. ASSUME NEW o \in 1..Len(objects) PROVE Len(objects[o]) <= Len(objects'[o])
    <3>1. CASE o = h.ref
      <4> DEFINE longer == Append(list, h.link)
      <4>1. objects[o] = list /\ objects'[o] = longer /\ Len(longer) = Len(list) + 1
        BY <1>5, <1>6, <3>1
      <4> HIDE DEF longer, list
      <4>2. QED
        BY <1>5, <4>1
    <3>2. CASE o # h.ref
      BY <1>6, <2>1, <3>2
    <3>3. QED
      BY <3>1, <3>2
  <2>3. QED
    BY <2>2
<1>10. \A u \in Handlers \ {t} : RightInv(u)'
  <2>1. ls # {}
    BY <1>1
  <2>2. QED
    BY <1>2, <1>4, <1>7, <1>8, <1>9, <2>1, RightTold
<1>11. handler'[t].op = "ingest" /\ handler'[t].pc = "announce"
  BY <1>2, <1>4 DEF Requested
<1>12. RightInv(t)'
  BY <1>11 DEF RightInv, FoundInv, CountInv, SumInv, At
<1>13. QED
  BY <1>10, <1>12

LEMMA RightAssigns ==
  ASSUME AnswerIInv, NEW t \in Handlers, Assign(t)
  PROVE  \A u \in Handlers : RightInv(u)'
<1> DEFINE h == handler[t]
           n == Len(objects)
<1>1. /\ LinkIInv /\ h \in Requested(n) /\ h.op = "remove" /\ h.pc = "assign"
      /\ h.link \in Links /\ h.kept \in Seq(Links) /\ CountInv(t)
      /\ objects' = Append(objects, h.kept) /\ links' = Len(objects') /\ UNCHANGED metadata
      /\ n \in Nat
  BY Facts DEF AnswerIInv, RightInv, Assign, At, Requested
<1>2. PICK ls : ls = SymDiff(ToSet(h.kept), ToSet(Monitored)) \cup {h.link}
  OBVIOUS
<1>3. \A x : x \in ls <=> x = h.link \/ ~(Contains(h.kept, x) <=> Contains(Monitored, x))
  BY <1>1, <1>2, Facts, Differences
<1>4. ls \in SUBSET Links
  BY <1>1, <1>3, Facts, Differences
<1>5. Touches(t, ls, "known") /\ "known" \in PCs
  BY <1>2 DEF Assign, Touches, Rebinds, PCs
<1>6. handler'[t] = [h EXCEPT !.pc = "known"] /\ \A u \in Handlers \ {t} : Told(u, ls)
  <2>1. LinkIInv
    BY <1>1
  <2> HIDE DEF h, n
  <2>2. handler'[t] = [handler[t] EXCEPT !.pc = "known"] /\ \A u \in Handlers \ {t} : Told(u, ls)
    BY <1>4, <1>5, <2>1, TouchFacts
  <2>3. QED
    BY <2>2 DEF h
<1>7. Monitored' = h.kept /\ \A o \in 1..n : objects'[o] = objects[o]
  <2>1. objects \in Seq(Seq(Links))
    BY <1>1, Facts
  <2>2. /\ Len(objects') = n + 1 /\ objects'[n + 1] = h.kept
        /\ \A o \in 1..n : objects'[o] = objects[o]
    BY <1>1, <2>1
  <2>3. QED
    BY <1>1, <2>2 DEF Monitored
<1>8. \A u \in Handlers \ {t} : RightInv(u)'
  <2>1. \A o \in 1..n : Len(objects[o]) <= Len(objects'[o])
    <3>1. \A o \in 1..n : Len(objects[o]) \in Nat
      BY <1>1, Facts
    <3>2. QED
      BY <1>7, <3>1
  <2>2. ls # {}
    BY <1>3
  <2>3. \A x : \A o \in 1..n : x \notin ls =>
          (Contains(objects'[o], x) <=> Contains(objects[o], x))
    BY <1>7
  <2>4. \A x : x \notin ls => (Contains(Monitored', x) <=> Contains(Monitored, x))
    BY <1>3, <1>7
  <2>5. \A x : x \in metadata' <=> x \in metadata
    BY <1>1
  <2>6. QED
    BY <1>6, <2>1, <2>2, <2>3, <2>4, <2>5, RightTold
<1>9. /\ handler'[t].op = "remove" /\ handler'[t].pc = "known" /\ handler'[t].there = h.there
      /\ handler'[t].number = h.number /\ handler'[t].changed = h.changed
  BY <1>1, <1>6 DEF Requested
<1>10. RightInv(t)'
  BY <1>1, <1>7, <1>9 DEF RightInv, FoundInv, CountInv, SumInv, At
<1>11. QED
  BY <1>8, <1>10

LEMMA NextAnswerIInv == AnswerIInv /\ [Next]_vars => AnswerIInv'
<1> SUFFICES ASSUME AnswerIInv, [Next]_vars PROVE AnswerIInv'
  OBVIOUS
<1>1. LinkIInv /\ LinkIInv'
  BY NextLinkIInv DEF AnswerIInv
<1>2. CASE UNCHANGED vars
  BY <1>1, <1>2, RightQuiet DEF AnswerIInv, vars, registry
<1>3. ASSUME NEW t \in Handlers, NEW op \in Ops, NEW l \in Links, Begin(t, op, l)
      PROVE  \A u \in Handlers : RightInv(u)'
  BY <1>3, RightBegins
<1>4. ASSUME NEW t \in Handlers, Return(t), UNCHANGED <<objects, links, metadata>>
      PROVE  \A u \in Handlers : RightInv(u)'
  BY <1>4, RightReturns DEF Return, Set
<1>5. ASSUME NEW t \in Handlers, Ingest(t) PROVE \A u \in Handlers : RightInv(u)'
  <2>1. CASE Scan(t)
    BY <1>4, <2>1, RightGoes DEF Scan, At, registry
  <2>2. CASE Describe(t)
    BY <2>2, RightDescribes
  <2>3. CASE AppendItem(t)
    BY <2>3, RightAppends
  <2>4. CASE AnnounceAdded(t)
    BY <1>4, <2>4 DEF AnnounceAdded
  <2>5. QED
    BY <1>5, <2>1, <2>2, <2>3, <2>4 DEF Ingest
<1>6. ASSUME NEW t \in Handlers, RemoveLink(t) PROVE \A u \in Handlers : RightInv(u)'
  <2>1. CASE Count(t)
    BY <2>1, RightCounts
  <2>2. CASE Filter(t)
    BY <2>2, RightFilters
  <2>3. CASE Assign(t)
    BY <2>3, RightAssigns
  <2>4. CASE CheckMetadata(t)
    <3> DEFINE pc == IF handler[t].link \in metadata THEN "forget" ELSE "compare"
    <3>1. Goto(t, pc) /\ UNCHANGED <<registry, requests>> /\ At(t, "remove", "known")
      BY <2>4 DEF CheckMetadata
    <3>2. (pc = "forget" /\ handler[t].link \in metadata) \/ pc = "compare"
      OBVIOUS
    <3> HIDE DEF pc
    <3>3. QED
      BY <3>1, <3>2, RightGoes DEF At
  <2>5. CASE Forget(t)
    BY <2>5, RightDescribes
  <2>6. CASE ForgetRaises(t)
    BY <1>4, <2>6 DEF ForgetRaises, registry
  <2>7. CASE Compare(t)
    BY <1>4, <2>7, RightGoes DEF Compare, At, registry
  <2>8. CASE AnnounceRemoved(t)
    BY <1>4, <2>8 DEF AnnounceRemoved
  <2>9. QED
    BY <1>6, <2>1, <2>2, <2>3, <2>4, <2>5, <2>6, <2>7, <2>8 DEF RemoveLink
<1>7. ASSUME NEW t \in Handlers, Dashboard(t) PROVE \A u \in Handlers : RightInv(u)'
  <2>1. CASE Test(t)
    BY <1>4, <2>1, RightGoes DEF Test, At, registry
  <2>2. CASE SumItem(t)
    BY <2>2, RightAdds
  <2>3. CASE SumEnds(t)
    BY <2>3, RightGoes DEF SumEnds, At
  <2>4. CASE Divide(t) \/ DivideRaises(t)
    BY <1>4, <2>4 DEF Divide, DivideRaises, registry
  <2>5. QED
    BY <1>7, <2>1, <2>2, <2>3, <2>4 DEF Dashboard
<1>8. \A t \in Handlers : handler[t].link \in Links
  BY <1>1, Facts DEF Requested
<1>9. CASE Next
  <2>1. \A u \in Handlers : RightInv(u)'
    BY <1>3, <1>5, <1>6, <1>7, <1>8, <1>9, RightLoads DEF Next, Ops
  <2>2. QED
    BY <1>1, <2>1 DEF AnswerIInv
<1>10. QED
  BY <1>2, <1>9

\* A request that nobody has interfered with answers as if it had run alone, and an average
\* is plausible (ingest_link, remove_link, _calculate_aggregate_metrics).
THEOREM AnswersStayTrue == Spec => AnswersAreTrue
<1> DEFINE Alone ==
             \A t \in Handlers :
               LET h == handler[t]
                   next == handler[t].pc'
               IN /\ Scan(t) /\ h.link \notin h.changed => (next = "idle" <=> h.there)
                  /\ Compare(t) /\ h.changed = {} => (next = "announce" <=> h.there)
                  /\ ForgetRaises(t) => h.link \in h.changed
           Plausible ==
             \A t \in Handlers :
               LET h == handler[t]
               IN /\ DivideRaises(t) => h.changed # {}
                  /\ Divide(t) /\ h.ref = links => \E l \in Links : Average(t) <= Coverage[l]
                  /\ Divide(t) /\ h.changed = {} => h.number = Total(Monitored)
<1>1. ASSUME AnswerIInv, NEW t \in Handlers
      PROVE  /\ handler \in [Handlers -> Requested(Len(objects))]
             /\ handler[t] \in Requested(Len(objects))
             /\ FoundInv(t) /\ CountInv(t) /\ SumInv(t) /\ Monitored = objects[links]
             /\ Monitored \in Seq(Links) /\ Idle.pc = "idle"
  BY <1>1, Facts, IdleIs DEF AnswerIInv, RightInv
<1>2. AnswerIInv => Alone
  <2> SUFFICES ASSUME AnswerIInv, NEW t \in Handlers
               PROVE  /\ Scan(t) /\ handler[t].link \notin handler[t].changed =>
                           (handler'[t].pc = "idle" <=> handler[t].there)
                      /\ Compare(t) /\ handler[t].changed = {} =>
                           (handler'[t].pc = "announce" <=> handler[t].there)
                      /\ ForgetRaises(t) => handler[t].link \in handler[t].changed
    OBVIOUS
  <2>1. Return(t) => handler'[t].pc = "idle"
    BY <1>1 DEF Return, Set
  <2>2. \A pc : Goto(t, pc) => handler'[t].pc = pc
    BY <1>1 DEF Goto, Set, Requested
  <2>3. ASSUME Scan(t), handler[t].link \notin handler[t].changed
        PROVE  handler'[t].pc = "idle" <=> handler[t].there
    BY <1>1, <2>1, <2>2, <2>3 DEF Scan, FoundInv, At, Requested
  <2>4. ASSUME Compare(t), handler[t].changed = {}
        PROVE  handler'[t].pc = "announce" <=> handler[t].there
    BY <1>1, <2>1, <2>2, <2>4 DEF Compare, CountInv, At, Requested
  <2>5. ASSUME ForgetRaises(t) PROVE handler[t].link \in handler[t].changed
    BY <1>1, <2>5 DEF ForgetRaises, FoundInv, At
  <2>6. QED
    BY <2>3, <2>4, <2>5
<1>3. AnswerIInv => Plausible
  <2> SUFFICES ASSUME AnswerIInv, NEW t \in Handlers
               PROVE  /\ DivideRaises(t) => handler[t].changed # {}
                      /\ Divide(t) /\ handler[t].ref = links =>
                           \E l \in Links : Average(t) <= Coverage[l]
                      /\ Divide(t) /\ handler[t].changed = {} =>
                           handler[t].number = Total(Monitored)
    OBVIOUS
  <2>1. ASSUME DivideRaises(t) PROVE handler[t].changed # {}
    BY <1>1, <2>1 DEF DivideRaises, SumInv, At
  <2>2. ASSUME Divide(t), handler[t].ref = links
        PROVE  \E l \in Links : Average(t) <= Coverage[l]
    <3> DEFINE a == handler[t].number
               w == handler[t].walked
               n == Len(Monitored)
    <3>1. PICK l \in Links : a <= w * Coverage[l]
      BY <1>1, <2>2 DEF Divide, SumInv, At
    <3> DEFINE c == Coverage[l]
    <3>2. /\ a \in Nat /\ w \in Nat /\ n \in Nat /\ c \in Nat /\ w <= n
      <4>1. a \in Nat /\ w \in Nat /\ n \in Nat
        BY <1>1 DEF Requested
      <4>2. c \in Nat
        BY RegistryAssumption
      <4>3. w <= n
        BY <1>1, <2>2 DEF Divide, SumInv, At
      <4>4. QED
        BY <4>1, <4>2, <4>3
    <3>3. n > 0
      BY <1>1, <2>2 DEF Divide
    <3>4. Average(t) = a \div n
      BY DEF Average
    <3>5. a <= w * c
      BY <3>1
    <3> HIDE DEF a, w, n, c
    <3>6. c * w <= c * n /\ c * w = w * c /\ c * n = n * c /\ w * c \in Nat /\ n * c \in Nat
      BY <3>2, Products
    <3>7. a <= n * c
      BY <3>2, <3>5, <3>6
    <3>8. a \div n <= c
      BY <3>2, <3>3, <3>7, Quotients
    <3>9. QED
      BY <3>4, <3>8 DEF c
  <2>3. ASSUME Divide(t), handler[t].changed = {} PROVE handler[t].number = Total(Monitored)
    BY <1>1, <2>3, TotalIs DEF Divide, SumInv, At
  <2>4. QED
    BY <2>1, <2>2, <2>3
<1>4. AnswerIInv => [Alone]_vars /\ [Plausible]_vars
  BY <1>2, <1>3
<1>5. Spec => [][Alone]_vars /\ [][Plausible]_vars
  <2> HIDE DEF Alone, Plausible
  <2>1. QED
    BY InitAnswerIInv, NextAnswerIInv, <1>4, PTL DEF Spec
<1>6. QED
  BY <1>5 DEF AnswersAreTrue, UndisturbedAnswersAreTrue, DashboardIsPlausible

-----------------------------------------------------------------------------
(* The decisions.                                                          *)

\* What the variables hold.
Row      == [state : {"none", "running", "degraded", "crashed"}, errors : 0..1,
             cycle : 0..MaxCycles]
Reported == [runtime : Row, action : Actions]
Decision == [action : Actions, by : Callers, number : Nat]
Call     == [pc : {"idle", "decide", "append", "record", "count", "name", "summarised",
                   "synced", "brain", "counted", "runtime", "action", "autos", "reported"},
             op : {"none", "decision", "sync", "summary", "metrics", "status"},
             request : Requests \cup {Quiet.request}, action : Actions, total : Nat,
             synced : Nat, name : Actions \cup {"-"}, runtime : Nat, executed : Nat]

Types ==
  /\ cast \in {"brain", "status", "service", "other"}
  /\ service \in Services \cup {Unasked} /\ disk \in BOOLEAN
  /\ loop \in [pc : {"poll", "decide", "execute", "runtime", "action", "decision", "sleep"},
               cycle : 0..MaxCycles, service : Services \cup {Unasked}, action : Actions]
  /\ replicas \in 1..3
  /\ last \in [runtime : Row, action : Actions \cup {"none"}, executed : 0..MaxCycles]
  /\ autos \in Seq(Reported) /\ Len(autos) <= AutoLimit
  /\ recent \in Seq(Decision) /\ Len(recent) <= RecentLimit
  /\ bridge \in Seq(Actions) /\ Len(bridge) <= BridgeLimit
  /\ caller \in [Callers -> Call]
  /\ begun \in 0..MaxCalls
  /\ made \in [Callers -> Nat]

\* The loop writes its three globals in turn, each of them once in a cycle.
Shown == IF autos = <<>> THEN 0 ELSE autos[1].runtime.cycle
InTurn ==
  /\ Shown <= last.executed /\ last.executed <= last.runtime.cycle
  /\ last.runtime.cycle <= loop.cycle /\ loop.cycle <= Shown + 1
  /\ loop.pc \notin {"action", "decision"} => last.runtime.cycle = Shown
  /\ loop.pc \in {"poll", "decide", "sleep", "action", "decision"} =>
       last.runtime.cycle = loop.cycle
  /\ loop.pc = "action" => last.executed = Shown
  /\ loop.pc \in {"poll", "decide", "sleep"} => Shown = loop.cycle
  /\ loop.pc = "decision" => last.executed = loop.cycle

\* Until decisions are dropped, each that the bridge has, or is about to get, is there.
Recording    == {c \in Callers : caller[c].pc = "record"}
BridgeBehind ==
  /\ IsFiniteSet(Recording)
  /\ Len(recent) < RecentLimit => Len(bridge) + Cardinality(Recording) <= Len(recent)

\* What a thread has read still holds of what it has not read yet.
ReadsOK(c) ==
  /\ caller[c].pc = "name" /\ caller[c].total > 0 => Len(recent) > 0
  /\ caller[c].pc = "summarised" /\ caller[c].total > 0 => caller[c].name # "-"
  /\ caller[c].pc = "brain" => caller[c].synced <= Len(recent) \/ Len(recent) = RecentLimit
  /\ caller[c].pc = "counted" =>
       caller[c].synced <= caller[c].total \/ caller[c].total = RecentLimit
  /\ caller[c].pc \in {"action", "autos"} => caller[c].runtime <= Shown + 1
  /\ caller[c].pc = "action" => caller[c].runtime <= last.executed + 1
  /\ caller[c].pc \in {"autos", "reported"} => caller[c].runtime <= caller[c].executed + 1
  /\ caller[c].pc = "autos" => caller[c].executed <= Shown + 1
  /\ caller[c].pc = "reported" => /\ caller[c].runtime <= caller[c].total + 1
                                  /\ caller[c].executed <= caller[c].total + 1

\* No decision is recorded before it is made.
OwnOK(c) ==
  /\ made[c] + (IF caller[c].pc = "decide" THEN 1 ELSE 0) <= begun
  /\ \A i \in 1..Len(recent) : recent[i].by = c =>
       /\ recent[i].number <= made[c]
       /\ caller[c].pc = "append" => recent[i].number < made[c]
  /\ made[c] > 0 /\ caller[c].pc # "append" /\ Len(recent) < RecentLimit =>
       \E i \in 1..Len(recent) : recent[i].by = c /\ recent[i].number = made[c]

NewestFirst ==
  \A i, j \in 1..Len(recent) :
    i < j /\ recent[i].by = recent[j].by => recent[i].number > recent[j].number

BrainIInv == /\ Types /\ InTurn /\ BridgeBehind /\ NewestFirst
        /\ \A c \in Callers : ReadsOK(c) /\ OwnOK(c)

-----------------------------------------------------------------------------

\* What appendleft makes of a deque that keeps to its limit.
LEMMA PushedLeft ==
  ASSUME NEW S, NEW deque \in Seq(S), NEW x \in S, NEW limit \in Nat \ {0},
         Len(deque) <= limit, NEW new, new = Pushed(deque, x, limit)
  PROVE  /\ new \in Seq(S)
         /\ Len(deque) < limit => Len(new) = Len(deque) + 1
         /\ Len(deque) = limit => Len(new) = limit
         /\ new[1] = x /\ new # <<>>
         /\ \A i \in 2..Len(new) : new[i] = deque[i - 1]
<1> DEFINE all == <<x>> \o deque
           m == IF Len(all) < limit THEN Len(all) ELSE limit
<1>1. /\ all \in Seq(S) /\ Len(deque) \in Nat /\ Len(all) = Len(deque) + 1 /\ all[1] = x
      /\ \A i \in 2..Len(all) : all[i] = deque[i - 1]
  OBVIOUS
<1> HIDE DEF all
<1>2. m \in 1..Len(all) /\ m = IF Len(deque) < limit THEN Len(deque) + 1 ELSE limit
  BY <1>1
<1> HIDE DEF m
<1>3. /\ SubSeq(all, 1, m) \in Seq(S) /\ Len(SubSeq(all, 1, m)) = m
      /\ \A i \in 1..m : SubSeq(all, 1, m)[i] = all[i]
  BY <1>1, <1>2
<1>4. new = SubSeq(all, 1, m)
  BY DEF Pushed, Limited, all, m
<1>5. QED
  BY <1>1, <1>2, <1>3, <1>4

LEMMA InitBrainIInv == BrainInit => BrainIInv
<1> SUFFICES ASSUME BrainInit PROVE BrainIInv
  OBVIOUS
<1>1. Quiet \in Call
  BY DEF Quiet, Call, Actions
<1>2. Types
  BY <1>1, BrainAssumption DEF BrainInit, Types, Row, Actions
<1>3. \A c \in Callers : caller[c] = Quiet /\ made[c] = 0
  BY DEF BrainInit
<1>4. Recording = {}
  BY <1>3 DEF Recording, Quiet
<1>5. InTurn
  BY DEF BrainInit, InTurn, Shown
<1>6. BridgeBehind
  BY <1>4, FS_EmptySet DEF BrainInit, BridgeBehind
<1>7. \A c \in Callers : ReadsOK(c) /\ OwnOK(c)
  BY <1>3 DEF BrainInit, ReadsOK, OwnOK, Quiet
<1>8. NewestFirst
  BY DEF NewestFirst, BrainInit
<1>9. QED
  BY <1>2, <1>5, <1>6, <1>7, <1>8 DEF BrainIInv

LEMMA IInvImplies == BrainIInv => ReportsAreConsistent
<1> SUFFICES ASSUME BrainIInv PROVE ReportsAreConsistent
  OBVIOUS
<1>1. DOMAIN recent = 1..Len(recent) /\ DOMAIN bridge = 1..Len(bridge)
  BY DEF BrainIInv, Types
<1>2. DecisionsTypeOK
  <2>1. \A e \in Entries(recent) : e.action \in Actions /\ e.by \in Callers /\ e.number \in Nat
    <3>1. \A i \in 1..Len(recent) : recent[i] \in Decision
      BY DEF BrainIInv, Types
    <3>2. QED
      BY <1>1, <3>1 DEF Entries, Decision
  <2>2. {loop.action} \cup Entries(bridge) \subseteq Actions
    BY <1>1 DEF BrainIInv, Types, Entries
  <2>3. \A c \in Callers : /\ caller[c].total \in Nat /\ caller[c].synced \in Nat
                           /\ made[c] \in 0..begun
    <3> SUFFICES ASSUME NEW c \in Callers
                 PROVE  /\ caller[c].total \in Nat /\ caller[c].synced \in Nat
                        /\ made[c] \in 0..begun
      OBVIOUS
    <3>1. caller[c] \in Call /\ made[c] \in Nat /\ begun \in Nat
      BY BrainAssumption DEF BrainIInv, Types
    <3>2. made[c] <= begun
      BY <3>1 DEF BrainIInv, OwnOK
    <3>3. QED
      BY <3>1, <3>2 DEF Call
  <2>4. QED
    BY <2>1, <2>2, <2>3 DEF BrainIInv, Types, DecisionsTypeOK, Row
<1>3. SummaryNamesWhatItCounts /\ CountsAgree
  BY DEF BrainIInv, ReadsOK, SummaryNamesWhatItCounts, CountsAgree
<1>4. OwnDecisionsNewestFirst
  <2>1. \A c \in Callers :
          made[c] > 0 /\ caller[c].pc # "append" /\ Len(recent) < RecentLimit =>
            \E e \in Entries(recent) : e.by = c /\ e.number = made[c]
    BY <1>1 DEF BrainIInv, OwnOK, Entries
  <2>2. QED
    BY <1>1, <2>1 DEF BrainIInv, NewestFirst, OwnDecisionsNewestFirst
<1>5. StatusLagsAtMostOneCycle
  BY DEF BrainIInv, ReadsOK, StatusLagsAtMostOneCycle
<1>6. QED
  BY <1>2, <1>3, <1>4, <1>5 DEF ReportsAreConsistent

-----------------------------------------------------------------------------
(* The loop.                                                               *)

LEMMA ShownType ==
  ASSUME NEW log \in Seq(Reported)
  PROVE  (IF log = <<>> THEN 0 ELSE log[1].runtime.cycle) \in 0..MaxCycles
<1>1. log # <<>> => log[1] \in Reported
  OBVIOUS
<1>2. QED
  BY <1>1, BrainAssumption DEF Reported, Row

LEMMA PayloadType ==
  ASSUME NEW s, NEW n \in 0..MaxCycles
  PROVE  Payload(s, n) \in Row /\ Payload(s, n).cycle = n
<1>1. Payload(s, n).state \in {"running", "degraded", "crashed"} /\ Payload(s, n).errors \in 0..1
  BY DEF Payload
<1>2. QED
  BY <1>1 DEF Payload, Row

LEMMA DecideType == \A r : Decide(r) \in Actions
BY DEF Decide, Proposed, Actions

\* What the loop writes only grows, which keeps what the handlers have read.
LEMMA LoopKeeps ==
  ASSUME BrainIInv, UNCHANGED <<cast, history, caller, begun, made>>, Types', InTurn',
         Shown <= Shown', last.executed <= last'.executed
  PROVE  BrainIInv'
<1>1. Recording' = Recording
  BY DEF Recording
<1>2. BridgeBehind' /\ NewestFirst'
  BY <1>1 DEF BrainIInv, BridgeBehind, NewestFirst, history
<1>3. ASSUME NEW c \in Callers PROVE ReadsOK(c)' /\ OwnOK(c)'
  <2>1. /\ Shown \in Nat /\ Shown' \in Nat /\ last.executed \in Nat /\ last'.executed \in Nat
        /\ caller[c].runtime \in Nat /\ caller[c].executed \in Nat
    <3>1. Shown \in 0..MaxCycles /\ Shown' \in 0..MaxCycles
      BY ShownType DEF BrainIInv, Types, Shown
    <3>2. caller[c] \in Call
      BY DEF BrainIInv, Types
    <3>3. last.executed \in 0..MaxCycles /\ last'.executed \in 0..MaxCycles
      BY DEF BrainIInv, Types
    <3>4. QED
      BY <3>1, <3>2, <3>3, BrainAssumption DEF Call
  <2>2. ReadsOK(c)'
    <3>1. ReadsOK(c) /\ caller' = caller /\ recent' = recent
      BY DEF BrainIInv, history
    <3>2. QED
      BY <2>1, <3>1 DEF ReadsOK
  <2>3. OwnOK(c)'
    BY DEF BrainIInv, OwnOK, history
  <2>4. QED
    BY <2>2, <2>3
<1>4. QED
  BY <1>2, <1>3 DEF BrainIInv

LEMMA WeatherIInv ==
  ASSUME BrainIInv, Weather
  PROVE  BrainIInv'
<1>1. /\ Shown' = Shown /\ UNCHANGED <<cast, history, caller, begun, made>>
      /\ UNCHANGED <<loop, outcome>>
  BY DEF Weather, Shown, outcome
<1>2. Types'
  <2>1. service' \in Services \cup {Unasked} /\ disk' \in BOOLEAN
    BY DEF Weather, BrainIInv, Types
  <2>2. QED
    BY <1>1, <2>1 DEF BrainIInv, Types, outcome, history
<1>3. InTurn'
  BY <1>1 DEF BrainIInv, InTurn, outcome
<1>4. Shown <= Shown' /\ last.executed <= last'.executed
  <2>1. Shown \in Nat /\ last.executed \in Nat
    BY ShownType, BrainAssumption DEF BrainIInv, Types, Shown
  <2>2. QED
    BY <1>1, <2>1 DEF outcome
<1>5. QED
  BY <1>1, <1>2, <1>3, <1>4, LoopKeeps

LEMMA LoopIInv ==
  ASSUME BrainIInv, Loop
  PROVE  BrainIInv'
<1> DEFINE L == [pc : {"poll", "decide", "execute", "runtime", "action", "decision", "sleep"},
                 cycle : 0..MaxCycles, service : Services \cup {Unasked}, action : Actions]
<1>1. UNCHANGED <<cast, service, disk, history, caller, begun, made>>
  BY DEF Loop, Poll, Fails, DecideForService, Execute, StoreRuntime, StoreAction,
         StoreDecision, Sleep, LoopStep, world
<1>2. /\ loop \in L /\ loop.cycle \in 0..MaxCycles /\ loop.action \in Actions
      /\ last \in [runtime : Row, action : Actions \cup {"none"}, executed : 0..MaxCycles]
      /\ last.runtime.cycle \in 0..MaxCycles /\ last.executed \in 0..MaxCycles
      /\ Shown \in 0..MaxCycles /\ MaxCycles \in Nat /\ service \in Services \cup {Unasked}
  BY BrainAssumption, ShownType DEF BrainIInv, Types, Row, Shown
<1>3. ASSUME loop' \in L, replicas' \in 1..3,
             last' \in [runtime : Row, action : Actions \cup {"none"}, executed : 0..MaxCycles],
             autos' \in Seq(Reported), Len(autos') <= AutoLimit
      PROVE  Types'
  BY <1>1, <1>3 DEF BrainIInv, Types, history
<1>4. CASE Poll \/ Fails("poll") \/ Fails("decide") \/ Sleep
  <2>1. /\ UNCHANGED <<replicas, last, autos>> /\ Shown' = Shown
        /\ loop' \in L /\ loop'.cycle = loop.cycle
        /\ loop.pc \in {"poll", "decide", "sleep"} /\ loop'.pc \in {"poll", "decide", "sleep"}
    BY <1>2, <1>4 DEF Poll, Fails, Sleep, LoopStep, LoopTo, outcome, Shown
  <2>2. Types'
    BY <1>3, <2>1 DEF BrainIInv, Types
  <2>3. InTurn'
    BY <1>2, <2>1 DEF BrainIInv, InTurn
  <2>4. QED
    BY <1>1, <1>2, <2>1, <2>2, <2>3, LoopKeeps
<1>5. CASE DecideForService
  <2> DEFINE a == Decide(Asked(Payload(loop.service, loop.cycle)))
             n == IF loop.cycle < MaxCycles THEN loop.cycle + 1 ELSE loop.cycle
  <2>1. a \in Actions /\ n \in 0..MaxCycles
    BY <1>2, DecideType
  <2>2. /\ UNCHANGED <<replicas, last, autos>> /\ Shown' = Shown /\ loop.pc = "decide"
        /\ loop' = [loop EXCEPT !.pc = "execute", !.action = a, !.cycle = n]
    BY <1>5 DEF DecideForService, LoopStep, outcome, Shown
  <2> HIDE DEF a
  <2>3. loop' \in L /\ loop'.cycle = n /\ loop'.pc = "execute"
    BY <1>2, <2>1, <2>2
  <2>4. Types'
    BY <1>3, <2>2, <2>3 DEF BrainIInv, Types
  <2>5. InTurn'
    BY <1>2, <2>2, <2>3 DEF BrainIInv, InTurn
  <2>6. QED
    BY <1>1, <1>2, <2>2, <2>4, <2>5, LoopKeeps
<1>6. CASE Execute
  <2>1. /\ UNCHANGED <<last, autos>> /\ Shown' = Shown /\ replicas' \in 1..3
        /\ loop' \in L /\ loop'.cycle = loop.cycle /\ loop.pc = "execute" /\ loop'.pc = "runtime"
    <3>1. /\ UNCHANGED <<last, autos>> /\ Shown' = Shown /\ loop.pc = "execute"
          /\ loop' = [loop EXCEPT !.pc = "runtime"] /\ replicas' = Scaled(loop.action)
      BY <1>6 DEF Execute, LoopStep, LoopTo, Shown
    <3>2. Scaled(loop.action) \in 1..3
      BY DEF Scaled, BrainIInv, Types
    <3>3. loop' \in L /\ loop'.cycle = loop.cycle /\ loop'.pc = "runtime"
      BY <1>2, <3>1
    <3>4. QED
      BY <3>1, <3>2, <3>3
  <2>2. Types'
    BY <1>3, <2>1 DEF BrainIInv, Types
  <2>3. InTurn'
    BY <1>2, <2>1 DEF BrainIInv, InTurn
  <2>4. QED
    BY <1>1, <1>2, <2>1, <2>2, <2>3, LoopKeeps
<1>7. CASE StoreRuntime
  <2> DEFINE row == Payload(loop.service, loop.cycle)
  <2>1. row \in Row /\ row.cycle = loop.cycle
    BY <1>2, PayloadType
  <2>2. /\ UNCHANGED <<replicas, autos>> /\ Shown' = Shown /\ loop.pc = "runtime"
        /\ last' = [last EXCEPT !.runtime = row]
        /\ loop' \in L /\ loop'.cycle = loop.cycle /\ loop'.pc = "action"
    BY <1>2, <1>7 DEF StoreRuntime, LoopStep, LoopTo, Shown
  <2> HIDE DEF row
  <2>3. /\ last' \in [runtime : Row, action : Actions \cup {"none"}, executed : 0..MaxCycles]
        /\ last'.runtime.cycle = loop.cycle /\ last'.executed = last.executed
    BY <1>2, <2>1, <2>2
  <2>4. Types'
    BY <1>3, <2>2, <2>3 DEF BrainIInv, Types
  <2>5. InTurn'
    BY <1>2, <2>2, <2>3 DEF BrainIInv, InTurn
  <2>6. QED
    BY <1>1, <1>2, <2>2, <2>3, <2>4, <2>5, LoopKeeps
<1>8. CASE StoreAction
  <2>1. /\ UNCHANGED <<replicas, autos>> /\ Shown' = Shown /\ loop.pc = "action"
        /\ last' = [last EXCEPT !.action = loop.action, !.executed = loop.cycle]
        /\ loop' \in L /\ loop'.cycle = loop.cycle /\ loop'.pc = "decision"
    BY <1>2, <1>8 DEF StoreAction, LoopStep, LoopTo, Shown
  <2>2. /\ last' \in [runtime : Row, action : Actions \cup {"none"}, executed : 0..MaxCycles]
        /\ last'.executed = loop.cycle /\ last'.runtime = last.runtime
    BY <1>2, <2>1
  <2>3. Types'
    BY <1>3, <2>1, <2>2 DEF BrainIInv, Types
  <2>4. InTurn' /\ last.executed <= last'.executed
    BY <1>2, <2>1, <2>2 DEF BrainIInv, InTurn
  <2>5. QED
    BY <1>1, <1>2, <2>1, <2>3, <2>4, LoopKeeps
<1>9. CASE StoreDecision
  <2> DEFINE entry == [runtime |-> Payload(loop.service, loop.cycle), action |-> loop.action]
  <2>1. entry \in Reported /\ entry.runtime.cycle = loop.cycle
    BY <1>2, PayloadType DEF Reported
  <2>2. /\ UNCHANGED <<replicas, last>> /\ loop.pc = "decision"
        /\ autos' = Pushed(autos, entry, AutoLimit)
        /\ loop' \in L /\ loop'.cycle = loop.cycle /\ loop'.pc = "sleep"
    BY <1>2, <1>9 DEF StoreDecision, LoopStep, LoopTo
  <2> HIDE DEF entry
  <2>3. /\ autos' \in Seq(Reported) /\ Len(autos') <= AutoLimit
        /\ autos' # <<>> /\ autos'[1] = entry
    <3>1. /\ autos \in Seq(Reported) /\ Len(autos) <= AutoLimit /\ Len(autos) \in Nat
          /\ AutoLimit \in Nat /\ (Len(autos) < AutoLimit \/ Len(autos) = AutoLimit)
      BY BrainAssumption DEF BrainIInv, Types
    <3>2. QED
      BY <2>1, <2>2, <3>1, PushedLeft, BrainAssumption
  <2>4. Shown' = loop.cycle
    BY <2>1, <2>3 DEF Shown
  <2>5. Types'
    BY <1>3, <2>2, <2>3 DEF BrainIInv, Types
  <2>6. InTurn' /\ Shown <= Shown'
    BY <1>2, <2>2, <2>4 DEF BrainIInv, InTurn
  <2>7. QED
    BY <1>1, <1>2, <2>2, <2>5, <2>6, LoopKeeps
<1>10. QED
  BY <1>4, <1>5, <1>6, <1>7, <1>8, <1>9 DEF Loop

-----------------------------------------------------------------------------
(* The handlers.                                                           *)

\* The deque with a new entry has no other new entry, and all the old ones unless it is
\* full.
LEMMA Appends ==
  ASSUME Types, NEW e \in Decision, recent' = Pushed(recent, e, RecentLimit)
  PROVE  /\ recent' \in Seq(Decision) /\ Len(recent') <= RecentLimit
         /\ Len(recent') \in Nat /\ Len(recent) \in Nat /\ Len(recent) <= Len(recent')
         /\ Len(recent') < RecentLimit => Len(recent') = Len(recent) + 1
         /\ Len(recent') > 0 /\ recent'[1] = e
         /\ \A i \in 2..Len(recent') : i - 1 \in 1..Len(recent) /\ recent'[i] = recent[i - 1]
         /\ \A i \in 1..Len(recent') :
              recent'[i] = e \/ \E j \in 1..Len(recent) : recent'[i] = recent[j]
         /\ Len(recent') < RecentLimit =>
              \A j \in 1..Len(recent) : \E i \in 1..Len(recent') : recent'[i] = recent[j]
<1> DEFINE n == Len(recent) m == Len(recent')
<1>1. /\ recent \in Seq(Decision) /\ Len(recent) \in Nat /\ Len(recent) <= RecentLimit
      /\ RecentLimit \in Nat \ {0}
  BY BrainAssumption DEF Types
<1>2. /\ recent' \in Seq(Decision) /\ (n < RecentLimit => m = n + 1)
      /\ (n = RecentLimit => m = RecentLimit) /\ recent'[1] = e
  BY <1>1, PushedLeft
<1>3. \A i \in 2..m : recent'[i] = recent[i - 1]
  BY <1>1, PushedLeft
<1> HIDE DEF n, m
<1>4. n \in Nat /\ m \in Nat /\ n <= RecentLimit /\ m <= n + 1 /\ n <= m
  BY <1>1, <1>2 DEF n
<1>5. ASSUME NEW i \in 2..m PROVE i - 1 \in 1..n /\ recent'[i] = recent[i - 1]
  BY <1>3, <1>4, <1>5
<1>6. ASSUME NEW i \in 1..m PROVE recent'[i] = e \/ \E j \in 1..n : recent'[i] = recent[j]
  <2>1. i = 1 \/ i \in 2..m
    BY <1>4
  <2>2. QED
    BY <1>2, <1>5, <2>1
<1>7. ASSUME m < RecentLimit, NEW j \in 1..n PROVE \E i \in 1..m : recent'[i] = recent[j]
  <2>1. j + 1 \in 2..m /\ (j + 1) - 1 = j
    BY <1>1, <1>2, <1>4, <1>7
  <2>2. recent'[j + 1] = recent[j]
    BY <1>3, <2>1
  <2>3. QED
    BY <1>4, <2>1, <2>2
<1>8. m <= RecentLimit /\ (m < RecentLimit => m = n + 1) /\ m > 0
  BY <1>1, <1>2, <1>4
<1>9. QED
  BY <1>2, <1>4, <1>5, <1>6, <1>7, <1>8 DEF n, m

\* A step of a thread changes nothing of what the others rely on, be it that it appends a
\* decision of its own.
LEMMA OthersStay ==
  ASSUME BrainIInv, NEW c \in Callers, NEW d \in Callers \ {c},
         caller'[d] = caller[d], made'[d] = made[d], UNCHANGED <<last, autos>>,
         begun' \in Nat, begun' >= begun,
         \/ recent' = recent
         \/ \E e \in Decision : e.by = c /\ recent' = Pushed(recent, e, RecentLimit)
  PROVE  ReadsOK(d)' /\ OwnOK(d)'
<1> DEFINE n == Len(recent)
<1>1. /\ recent \in Seq(Decision) /\ n \in Nat /\ n <= RecentLimit /\ RecentLimit \in Nat \ {0}
      /\ caller[d] \in Call /\ begun \in Nat /\ made[d] \in Nat
      /\ \A i \in 1..n : recent[i] \in Decision
  BY BrainAssumption DEF BrainIInv, Types
<1>2. /\ recent' \in Seq(Decision) /\ Len(recent') \in Nat /\ n <= Len(recent')
      /\ Len(recent') <= RecentLimit
      /\ \A i \in 1..Len(recent') : recent'[i].by = d =>
           \E j \in 1..n : recent'[i] = recent[j]
      /\ Len(recent') < RecentLimit =>
           \A j \in 1..n : \E i \in 1..Len(recent') : recent'[i] = recent[j]
  <2>1. CASE recent' = recent
    BY <1>1, <2>1
  <2>2. CASE \E e \in Decision : e.by = c /\ recent' = Pushed(recent, e, RecentLimit)
    <3>1. PICK e \in Decision : e.by = c /\ recent' = Pushed(recent, e, RecentLimit)
      BY <2>2
    <3>2. Types
      BY DEF BrainIInv
    <3>3. /\ recent' \in Seq(Decision) /\ Len(recent') <= RecentLimit /\ n <= Len(recent')
          /\ \A i \in 1..Len(recent') : recent'[i] = e \/ \E j \in 1..n : recent'[i] = recent[j]
          /\ Len(recent') < RecentLimit =>
               \A j \in 1..n : \E i \in 1..Len(recent') : recent'[i] = recent[j]
      BY <3>1, <3>2, Appends
    <3>4. QED
      BY <1>1, <3>1, <3>3
  <2>3. QED
    BY <2>1, <2>2
<1>3. ReadsOK(d)'
  <2>1. Shown' = Shown
    BY DEF Shown
  <2>2. caller[d].synced \in Nat /\ ReadsOK(d)
    BY <1>1 DEF Call, BrainIInv
  <2>3. QED
    BY <1>1, <1>2, <2>1, <2>2 DEF ReadsOK
<1>4. OwnOK(d)'
  <2>1. OwnOK(d)
    BY DEF BrainIInv
  <2>2. made'[d] + (IF caller'[d].pc = "decide" THEN 1 ELSE 0) <= begun'
    BY <1>1, <2>1 DEF OwnOK
  <2>3. ASSUME NEW i \in 1..Len(recent'), recent'[i].by = d
        PROVE  /\ recent'[i].number <= made'[d]
               /\ caller'[d].pc = "append" => recent'[i].number < made'[d]
    BY <1>2, <2>1, <2>3 DEF OwnOK
  <2>4. ASSUME made'[d] > 0, caller'[d].pc # "append", Len(recent') < RecentLimit
        PROVE  \E i \in 1..Len(recent') : recent'[i].by = d /\ recent'[i].number = made'[d]
    <3>1. PICK j \in 1..n : recent[j].by = d /\ recent[j].number = made[d]
      BY <1>1, <1>2, <2>1, <2>4 DEF OwnOK
    <3>2. PICK i \in 1..Len(recent') : recent'[i] = recent[j]
      BY <1>2, <2>4
    <3>3. QED
      BY <3>1, <3>2
  <2>5. QED
    BY <2>2, <2>3, <2>4 DEF OwnOK
<1>5. QED
  BY <1>3, <1>4

\* A step of a thread that decides and appends nothing.
LEMMA ReaderStep ==
  ASSUME BrainIInv, NEW c \in Callers, NEW w \in Call, caller' = [caller EXCEPT ![c] = w],
         UNCHANGED <<cast, service, disk, loop, replicas, last, autos, history, made>>,
         begun' \in 0..MaxCalls, begun' >= begun,
         caller[c].pc \notin {"append", "record"}, w.pc \notin {"append", "record"},
         w.pc = "decide" => begun' > begun,
         caller[c].pc = "decide" => w.pc = "decide",
         ReadsOK(c)'
  PROVE  BrainIInv'
<1>1. /\ caller \in [Callers -> Call] /\ made[c] \in Nat /\ begun \in Nat /\ begun' \in Nat
      /\ MaxCalls \in Nat
  BY BrainAssumption DEF BrainIInv, Types
<1>2. caller'[c] = w /\ \A d \in Callers \ {c} : caller'[d] = caller[d]
  BY <1>1
<1>3. Types'
  BY <1>1 DEF BrainIInv, Types, history
<1>4. Shown' = Shown /\ Recording' = Recording
  BY <1>2 DEF Shown, Recording
<1>5. InTurn' /\ BridgeBehind' /\ NewestFirst'
  BY <1>4 DEF BrainIInv, InTurn, BridgeBehind, NewestFirst, history
<1>6. OwnOK(c)'
  <2>1. OwnOK(c)
    BY DEF BrainIInv
  <2>2. made[c] + (IF w.pc = "decide" THEN 1 ELSE 0) <= begun'
    BY <1>1, <2>1 DEF OwnOK
  <2>3. QED
    BY <1>2, <2>1, <2>2 DEF OwnOK, history
<1>7. \A d \in Callers \ {c} : ReadsOK(d)' /\ OwnOK(d)'
  BY <1>1, <1>2, OthersStay DEF history
<1>8. QED
  BY <1>3, <1>5, <1>6, <1>7 DEF BrainIInv

LEMMA BeginIInv ==
  ASSUME BrainIInv, NEW c \in Callers,
         NEW op \in {"decision", "sync", "summary", "metrics", "status"},
         NEW request \in Requests \cup {Quiet.request}, BeginCall(c, op, request)
  PROVE  BrainIInv'
<1> DEFINE w == [Quiet EXCEPT !.pc = First[op], !.op = op, !.request = request]
<1>1. /\ caller' = [caller EXCEPT ![c] = w] /\ caller[c].pc = "idle"
      /\ UNCHANGED <<cast, service, disk, loop, replicas, last, autos, history, made>>
      /\ begun < MaxCalls /\ begun' = begun + 1
  BY DEF BeginCall, world, outcome
<1>2. w \in Call /\ w.pc \in {"decide", "count", "synced", "runtime"}
  <2>1. First[op] \in {"decide", "count", "synced", "runtime"}
    BY DEF First
  <2>2. Quiet \in Call
    BY DEF Quiet, Call, Actions
  <2>3. QED
    BY <2>1, <2>2 DEF Call
<1> HIDE DEF w
<1>3. begun' \in 0..MaxCalls /\ begun' > begun /\ begun' >= begun
  BY <1>1, BrainAssumption DEF BrainIInv, Types
<1>4. caller'[c] = w
  BY <1>1 DEF BrainIInv, Types
<1>5. ReadsOK(c)'
  BY <1>2, <1>4 DEF ReadsOK
<1>6. QED
  BY <1>1, <1>2, <1>3, <1>5, ReaderStep

\* The reads and the answers.
LEMMA ReadIInv ==
  ASSUME BrainIInv, NEW c \in Callers,
         \/ CountDecisions(c) \/ NameNewest(c) \/ ReadSynced(c) \/ ReadDecided(c)
         \/ ReadRuntime(c) \/ ReadAction(c) \/ ReadAutos(c) \/ Reply(c)
  PROVE  BrainIInv'
<1>1. /\ UNCHANGED <<cast, service, disk, loop, replicas, last, autos, history, made, begun>>
      /\ caller[c].pc \notin {"append", "record", "decide"}
  BY DEF CountDecisions, NameNewest, ReadSynced, ReadDecided, ReadRuntime, ReadAction,
         ReadAutos, Reply, HandlerStep, world, outcome
<1>2. /\ caller \in [Callers -> Call] /\ caller[c] \in Call /\ ReadsOK(c)
      /\ recent \in Seq(Decision) /\ Len(recent) \in Nat /\ Len(recent) <= RecentLimit
      /\ bridge \in Seq(Actions) /\ Len(bridge) \in Nat
      /\ begun \in 0..MaxCalls /\ begun >= begun /\ RecentLimit \in Nat
  BY BrainAssumption DEF BrainIInv, Types
<1>3. /\ Shown \in 0..MaxCycles /\ last.executed \in 0..MaxCycles /\ MaxCycles \in Nat
      /\ last.runtime.cycle \in 0..MaxCycles
      /\ Shown \in Nat /\ last.executed \in Nat /\ last.runtime.cycle \in Nat
      /\ Shown' = Shown /\ last.runtime.cycle <= last.executed + 1
      /\ last.runtime.cycle <= Shown + 1 /\ last.executed <= Shown + 1
  <2>1. /\ Shown \in 0..MaxCycles /\ last.executed \in 0..MaxCycles /\ MaxCycles \in Nat
        /\ last.runtime \in Row /\ loop.cycle \in 0..MaxCycles
    BY ShownType, BrainAssumption DEF BrainIInv, Types, Shown
  <2>2. last.runtime.cycle \in 0..MaxCycles
    BY <2>1 DEF Row
  <2>3. QED
    BY <1>1, <2>1, <2>2 DEF BrainIInv, InTurn, Shown
<1>4. ASSUME NEW w \in Call, caller' = [caller EXCEPT ![c] = w],
             w.pc \notin {"append", "record", "decide"},
             caller'[c] = w => ReadsOK(c)'
      PROVE  BrainIInv'
  <2>1. begun' \in 0..MaxCalls /\ begun' >= begun
    BY <1>1, <1>2
  <2>2. ReadsOK(c)'
    BY <1>2, <1>4
  <2>3. QED
    BY <1>1, <1>4, <2>1, <2>2, ReaderStep
<1>5. CASE CountDecisions(c)
  <2> DEFINE w == [caller[c] EXCEPT !.total = Len(recent), !.pc = "name"]
  <2>1. caller' = [caller EXCEPT ![c] = w]
    BY <1>2, <1>5 DEF CountDecisions
  <2>2. w \in Call /\ w.pc = "name" /\ w.total = Len(recent)
    BY <1>2 DEF Call
  <2> HIDE DEF w
  <2>3. caller'[c] = w => ReadsOK(c)'
    BY <1>1, <1>2, <2>2 DEF ReadsOK, history
  <2>4. QED
    BY <1>4, <2>1, <2>2, <2>3
<1>6. CASE NameNewest(c)
  <2> DEFINE w == [caller[c] EXCEPT !.name = Newest, !.pc = "summarised"]
  <2>1. caller' = [caller EXCEPT ![c] = w] /\ caller[c].pc = "name"
    BY <1>2, <1>6 DEF NameNewest, HandlerStep
  <2>2. /\ Newest \in Actions \cup {"-"}
        /\ Len(recent) > 0 => Newest # "-"
    <3>1. recent # <<>> => recent[1] \in Decision
      BY <1>2
    <3>2. QED
      BY <1>2, <3>1 DEF Newest, Decision, Actions
  <2>3. w \in Call /\ w.pc = "summarised" /\ w.total = caller[c].total /\ w.name = Newest
    BY <1>2, <2>2 DEF Call
  <2> HIDE DEF w
  <2>4. caller'[c] = w => ReadsOK(c)'
    BY <1>2, <2>1, <2>2, <2>3 DEF ReadsOK
  <2>5. QED
    BY <1>4, <2>1, <2>3, <2>4
<1>7. CASE ReadSynced(c)
  <2> DEFINE w == [caller[c] EXCEPT !.synced = Len(bridge), !.pc = "brain"]
  <2>1. caller' = [caller EXCEPT ![c] = w]
    BY <1>2, <1>7 DEF ReadSynced
  <2>2. w \in Call /\ w.pc = "brain" /\ w.synced = Len(bridge)
    BY <1>2 DEF Call
  <2> HIDE DEF w
  <2>3. Len(bridge) <= Len(recent) \/ Len(recent) = RecentLimit
    <3>1. Cardinality(Recording) \in Nat
      BY FS_CardinalityType DEF BrainIInv, BridgeBehind
    <3>2. QED
      BY <1>2, <3>1 DEF BrainIInv, BridgeBehind
  <2>4. caller'[c] = w => ReadsOK(c)'
    BY <1>1, <1>2, <2>2, <2>3 DEF ReadsOK, history
  <2>5. QED
    BY <1>4, <2>1, <2>2, <2>4
<1>8. CASE ReadDecided(c)
  <2> DEFINE w == [caller[c] EXCEPT !.total = Len(recent), !.pc = "counted"]
  <2>1. caller' = [caller EXCEPT ![c] = w] /\ caller[c].pc = "brain"
    BY <1>2, <1>8 DEF ReadDecided, HandlerStep
  <2>2. w \in Call /\ w.pc = "counted" /\ w.total = Len(recent) /\ w.synced = caller[c].synced
    BY <1>2 DEF Call
  <2> HIDE DEF w
  <2>3. caller'[c] = w => ReadsOK(c)'
    BY <1>2, <2>1, <2>2 DEF ReadsOK
  <2>4. QED
    BY <1>4, <2>1, <2>2, <2>3
<1>9. CASE ReadRuntime(c)
  <2> DEFINE w == [caller[c] EXCEPT !.runtime = last.runtime.cycle, !.pc = "action"]
  <2>1. caller' = [caller EXCEPT ![c] = w]
    BY <1>2, <1>9 DEF ReadRuntime
  <2>2. w \in Call /\ w.pc = "action" /\ w.runtime = last.runtime.cycle
    BY <1>2, <1>3 DEF Call
  <2> HIDE DEF w
  <2>3. caller'[c] = w => ReadsOK(c)'
    BY <1>1, <1>3, <2>2 DEF ReadsOK
  <2>4. QED
    BY <1>4, <2>1, <2>2, <2>3
<1>10. CASE ReadAction(c)
  <2> DEFINE w == [caller[c] EXCEPT !.executed = last.executed, !.pc = "autos"]
  <2>1. caller' = [caller EXCEPT ![c] = w] /\ caller[c].pc = "action"
    BY <1>2, <1>10 DEF ReadAction, HandlerStep
  <2>2. w \in Call /\ w.pc = "autos" /\ w.runtime = caller[c].runtime /\ w.executed = last.executed
    BY <1>2, <1>3 DEF Call
  <2> HIDE DEF w
  <2>3. caller'[c] = w => ReadsOK(c)'
    BY <1>1, <1>2, <1>3, <2>1, <2>2 DEF ReadsOK
  <2>4. QED
    BY <1>4, <2>1, <2>2, <2>3
<1>11. CASE ReadAutos(c)
  <2> DEFINE w == [caller[c] EXCEPT !.total = Shown, !.pc = "reported"]
  <2>1. caller' = [caller EXCEPT ![c] = w] /\ caller[c].pc = "autos"
    BY <1>2, <1>11 DEF ReadAutos, HandlerStep, Shown
  <2>2. w \in Call /\ w.pc = "reported" /\ w.total = Shown /\ w.runtime = caller[c].runtime
        /\ w.executed = caller[c].executed
    BY <1>2, <1>3 DEF Call
  <2> HIDE DEF w
  <2>3. caller'[c] = w => ReadsOK(c)'
    BY <1>1, <1>2, <1>3, <2>1, <2>2 DEF ReadsOK
  <2>4. QED
    BY <1>4, <2>1, <2>2, <2>3
<1>12. CASE Reply(c)
  <2>1. caller' = [caller EXCEPT ![c] = Quiet]
    BY <1>12 DEF Reply, Answer
  <2>2. Quiet \in Call /\ Quiet.pc = "idle"
    BY DEF Quiet, Call, Actions
  <2>3. caller'[c] = Quiet => ReadsOK(c)'
    BY <2>2 DEF ReadsOK
  <2>4. QED
    BY <1>4, <2>1, <2>2, <2>3
<1>13. QED
  BY <1>5, <1>6, <1>7, <1>8, <1>9, <1>10, <1>11, <1>12

LEMMA DecideIInv ==
  ASSUME BrainIInv, NEW c \in Callers, MakeDecision(c)
  PROVE  BrainIInv'
<1> DEFINE a == Decide(caller[c].request)
           w == [caller[c] EXCEPT !.pc = "append", !.action = a]
<1>1. /\ caller \in [Callers -> Call] /\ caller[c] \in Call /\ made \in [Callers -> Nat]
      /\ made[c] \in Nat /\ begun \in Nat /\ a \in Actions
      /\ recent \in Seq(Decision) /\ \A i \in 1..Len(recent) : recent[i] \in Decision
  BY BrainAssumption, DecideType DEF BrainIInv, Types
<1> HIDE DEF a
<1>2. /\ caller[c].pc = "decide" /\ caller' = [caller EXCEPT ![c] = w]
      /\ made' = [made EXCEPT ![c] = made[c] + 1]
      /\ UNCHANGED <<cast, service, disk, loop, replicas, last, autos, recent, bridge, begun>>
  BY <1>1 DEF MakeDecision, HandlerStep, world, outcome, history, a
<1>3. w \in Call /\ w.pc = "append"
  BY <1>1 DEF Call
<1> HIDE DEF w
<1>4. /\ caller'[c] = w /\ made'[c] = made[c] + 1
      /\ \A d \in Callers \ {c} : caller'[d] = caller[d] /\ made'[d] = made[d]
  BY <1>1, <1>2
<1>5. caller' \in [Callers -> Call] /\ made' \in [Callers -> Nat]
  BY <1>1, <1>2, <1>3
<1>6. Types'
  BY <1>2, <1>5 DEF BrainIInv, Types
<1>7. Shown' = Shown /\ Recording' = Recording
  BY <1>2, <1>3, <1>4 DEF Shown, Recording
<1>8. InTurn' /\ BridgeBehind' /\ NewestFirst'
  BY <1>2, <1>7 DEF BrainIInv, InTurn, BridgeBehind, NewestFirst
<1>9. ReadsOK(c)'
  BY <1>3, <1>4 DEF ReadsOK
<1>10. OwnOK(c)'
  <2>1. OwnOK(c)
    BY DEF BrainIInv
  <2>2. made'[c] + (IF caller'[c].pc = "decide" THEN 1 ELSE 0) <= begun'
    BY <1>1, <1>2, <1>3, <1>4, <2>1 DEF OwnOK
  <2>3. ASSUME NEW i \in 1..Len(recent), recent[i].by = c PROVE recent[i].number < made'[c]
    <3>1. recent[i].number <= made[c] /\ recent[i].number \in Nat
      BY <1>1, <2>1, <2>3 DEF OwnOK, Decision
    <3>2. QED
      BY <1>1, <1>4, <3>1
  <2>4. \A i \in 1..Len(recent) : recent[i].by = c =>
          recent[i].number \in Nat /\ recent[i].number <= made'[c]
    <3>1. \A i \in 1..Len(recent) : recent[i].number \in Nat
      BY <1>1 DEF Decision
    <3>2. QED
      BY <1>1, <1>4, <2>3, <3>1
  <2>5. QED
    BY <1>2, <1>3, <1>4, <2>2, <2>3, <2>4 DEF OwnOK
<1>11. \A d \in Callers \ {c} : ReadsOK(d)' /\ OwnOK(d)'
  <2>1. begun' \in Nat /\ begun' >= begun
    BY <1>1, <1>2
  <2>2. QED
    BY <1>2, <1>4, <2>1, OthersStay
<1>12. QED
  BY <1>6, <1>8, <1>9, <1>10, <1>11 DEF BrainIInv

\* A decision of the thread is behind all that the thread has recorded before.
LEMMA AppendIInv ==
  ASSUME BrainIInv, NEW c \in Callers, AppendDecision(c)
  PROVE  BrainIInv'
<1> DEFINE e == [action |-> caller[c].action, by |-> c, number |-> made[c]]
           w == IF caller[c].op = "sync" THEN [caller[c] EXCEPT !.pc = "record"] ELSE Quiet
<1>1. /\ Types /\ caller \in [Callers -> Call] /\ caller[c] \in Call /\ caller[c].action \in Actions
      /\ made[c] \in Nat /\ begun \in Nat /\ begun' \in Nat /\ begun' >= begun
      /\ caller[c].pc = "append"
      /\ UNCHANGED <<cast, service, disk, loop, replicas, last, autos, bridge, begun, made>>
      /\ RecentLimit \in Nat
  <2>1. /\ Types /\ caller \in [Callers -> Call] /\ made[c] \in Nat /\ begun \in Nat
        /\ RecentLimit \in Nat
    BY BrainAssumption DEF BrainIInv, Types
  <2>2. /\ caller[c].pc = "append"
        /\ UNCHANGED <<cast, service, disk, loop, replicas, last, autos, bridge, begun, made>>
    BY DEF AppendDecision, HandlerStep, world, outcome
  <2>3. caller[c] \in Call /\ caller[c].action \in Actions
    BY <2>1 DEF Call
  <2>4. QED
    BY <2>1, <2>2, <2>3
<1>2. e \in Decision /\ e.by = c /\ e.number = made[c]
  BY <1>1 DEF Decision
<1>3. recent' = Pushed(recent, e, RecentLimit)
  BY DEF AppendDecision
<1> HIDE DEF e
<1>4. caller' = [caller EXCEPT ![c] = w]
  BY <1>1 DEF AppendDecision, Answer
<1>5. w \in Call /\ w.pc \in {"record", "idle"}
  <2>1. Quiet \in Call /\ Quiet.pc = "idle"
    BY DEF Call, Quiet, Actions
  <2>2. [caller[c] EXCEPT !.pc = "record"] \in Call
    BY <1>1 DEF Call
  <2>3. [caller[c] EXCEPT !.pc = "record"].pc = "record"
    BY <1>1 DEF Call
  <2>4. QED
    BY <2>1, <2>2, <2>3
<1> HIDE DEF w
<1>6. /\ caller'[c] = w /\ caller' \in [Callers -> Call]
      /\ \A d \in Callers \ {c} : caller'[d] = caller[d]
  BY <1>1, <1>4, <1>5
<1>7. /\ recent' \in Seq(Decision) /\ Len(recent') <= RecentLimit
      /\ Len(recent') \in Nat /\ Len(recent) \in Nat /\ Len(recent) <= Len(recent')
      /\ Len(recent') < RecentLimit => Len(recent') = Len(recent) + 1
      /\ Len(recent') > 0 /\ recent'[1] = e
      /\ \A i \in 2..Len(recent') : i - 1 \in 1..Len(recent) /\ recent'[i] = recent[i - 1]
      /\ \A i \in 1..Len(recent') :
           recent'[i] = e \/ \E j \in 1..Len(recent) : recent'[i] = recent[j]
  BY <1>1, <1>2, <1>3, Appends
<1>8. Types'
  BY <1>1, <1>6, <1>7 DEF Types
<1>9. InTurn'
  BY <1>1 DEF BrainIInv, InTurn, Shown
<1>10. BridgeBehind'
  <2>1. IsFiniteSet(Recording) /\ Cardinality(Recording) \in Nat /\ c \notin Recording
    BY <1>1, FS_CardinalityType DEF BrainIInv, BridgeBehind, Recording
  <2>2. Recording' = IF w.pc = "record" THEN Recording \cup {c} ELSE Recording
    BY <1>1, <1>5, <1>6 DEF Recording
  <2>3. /\ IsFiniteSet(Recording') /\ Cardinality(Recording') \in Nat
        /\ Cardinality(Recording') <= Cardinality(Recording) + 1
    <3>1. /\ IsFiniteSet(Recording \cup {c})
          /\ Cardinality(Recording \cup {c}) = Cardinality(Recording) + 1
      BY <2>1, FS_AddElement
    <3>2. QED
      BY <2>1, <2>2, <3>1
  <2>4. Len(bridge) \in Nat
    BY <1>1 DEF Types
  <2>5. ASSUME Len(recent') < RecentLimit
        PROVE  Len(bridge') + Cardinality(Recording') <= Len(recent')
    <3>1. Len(recent) < RecentLimit /\ Len(recent') = Len(recent) + 1
      BY <1>1, <1>7, <2>5
    <3>2. Len(bridge) + Cardinality(Recording) <= Len(recent)
      BY <3>1 DEF BrainIInv, BridgeBehind
    <3>3. QED
      BY <1>1, <1>7, <2>1, <2>3, <2>4, <3>1, <3>2
  <2>6. QED
    BY <2>3, <2>5 DEF BridgeBehind
<1>11. \A i \in 1..Len(recent) : recent[i] \in Decision /\
         (recent[i].by = c => recent[i].number < made[c])
  BY <1>1 DEF BrainIInv, OwnOK, Types
<1>12. NewestFirst'
  <2> SUFFICES ASSUME NEW i \in 1..Len(recent'), NEW j \in 1..Len(recent'),
                      i < j, recent'[i].by = recent'[j].by
               PROVE  recent'[i].number > recent'[j].number
    BY DEF NewestFirst
  <2>1. j \in 2..Len(recent') /\ j - 1 \in 1..Len(recent) /\ recent'[j] = recent[j - 1]
    BY <1>7
  <2>2. CASE i = 1
    <3>1. recent'[i] = e /\ recent[j - 1].by = c
      BY <1>2, <1>7, <2>1, <2>2
    <3>2. recent[j - 1].number < made[c] /\ recent[j - 1] \in Decision
      BY <1>11, <2>1, <3>1
    <3>3. recent[j - 1].number \in Nat
      BY <3>2 DEF Decision
    <3>4. QED
      BY <1>1, <1>2, <2>1, <3>1, <3>2, <3>3
  <2>3. CASE i # 1
    <3>1. i - 1 \in 1..Len(recent) /\ recent'[i] = recent[i - 1] /\ i - 1 < j - 1
      BY <1>7, <2>3
    <3>2. QED
      BY <2>1, <3>1 DEF BrainIInv, NewestFirst
  <2>4. QED
    BY <2>2, <2>3
<1>13. ReadsOK(c)'
  BY <1>5, <1>6 DEF ReadsOK
<1>14. OwnOK(c)'
  <2>1. made[c] <= begun
    BY <1>1 DEF BrainIInv, OwnOK
  <2>2. \A i \in 1..Len(recent') : recent'[i].by = c => recent'[i].number <= made[c]
    <3> SUFFICES ASSUME NEW i \in 1..Len(recent'), recent'[i].by = c
                 PROVE  recent'[i].number <= made[c]
      OBVIOUS
    <3>1. CASE recent'[i] = e
      BY <1>1, <1>2, <3>1
    <3>2. CASE \E j \in 1..Len(recent) : recent'[i] = recent[j]
      <4>1. PICK j \in 1..Len(recent) : recent'[i] = recent[j]
        BY <3>2
      <4>2. recent[j].number < made[c] /\ recent[j].number \in Nat
        BY <1>11, <4>1 DEF Decision
      <4>3. QED
        BY <1>1, <4>1, <4>2
    <3>3. QED
      BY <1>7, <3>1, <3>2
  <2>3. 1 \in 1..Len(recent') /\ recent'[1].by = c /\ recent'[1].number = made[c]
    BY <1>2, <1>7
  <2>4. QED
    BY <1>1, <1>5, <1>6, <2>1, <2>2, <2>3 DEF OwnOK
<1>15. \A d \in Callers \ {c} : ReadsOK(d)' /\ OwnOK(d)'
  <2> SUFFICES ASSUME NEW d \in Callers \ {c} PROVE ReadsOK(d)' /\ OwnOK(d)'
    OBVIOUS
  <2>1. caller'[d] = caller[d] /\ made'[d] = made[d]
    BY <1>1, <1>6
  <2>2. QED
    BY <1>1, <1>2, <1>3, <2>1, OthersStay
<1>16. QED
  BY <1>8, <1>9, <1>10, <1>12, <1>13, <1>14, <1>15 DEF BrainIInv

LEMMA RecordIInv ==
  ASSUME BrainIInv, NEW c \in Callers, RecordDecision(c)
  PROVE  BrainIInv'
<1>1. /\ Types /\ caller \in [Callers -> Call] /\ caller[c] \in Call
      /\ caller[c].action \in Actions /\ caller[c].pc = "record"
      /\ begun \in Nat /\ begun' \in Nat /\ begun' >= begun
      /\ UNCHANGED <<cast, service, disk, loop, replicas, last, autos, recent, begun, made>>
      /\ caller' = [caller EXCEPT ![c] = Quiet]
      /\ bridge' = Pushed(bridge, caller[c].action, BridgeLimit)
  BY BrainAssumption
     DEF BrainIInv, Types, Call, RecordDecision, HandlerStep, Answer, world, outcome
<1>2. Quiet \in Call /\ Quiet.pc = "idle"
  BY DEF Quiet, Call, Actions
<1>3. /\ caller'[c] = Quiet /\ caller' \in [Callers -> Call]
      /\ \A d \in Callers \ {c} : caller'[d] = caller[d]
  BY <1>1, <1>2
<1>4. /\ bridge' \in Seq(Actions) /\ Len(bridge') <= BridgeLimit /\ Len(bridge') \in Nat
      /\ Len(bridge) \in Nat /\ Len(bridge') <= Len(bridge) + 1
  <2>1. bridge \in Seq(Actions) /\ Len(bridge) <= BridgeLimit /\ Len(bridge) \in Nat
        /\ BridgeLimit \in Nat \ {0}
    BY <1>1, BrainAssumption DEF Types
  <2>2. /\ bridge' \in Seq(Actions)
        /\ Len(bridge) < BridgeLimit => Len(bridge') = Len(bridge) + 1
        /\ Len(bridge) = BridgeLimit => Len(bridge') = BridgeLimit
    BY <1>1, <2>1, PushedLeft, SMTT(60)
  <2>3. QED
    BY <2>1, <2>2
<1>5. Types'
  BY <1>1, <1>3, <1>4 DEF Types
<1>6. InTurn' /\ NewestFirst'
  BY <1>1 DEF BrainIInv, InTurn, NewestFirst, Shown
<1>7. BridgeBehind'
  <2>1. IsFiniteSet(Recording) /\ c \in Recording
    BY <1>1 DEF BrainIInv, BridgeBehind, Recording
  <2>2. Recording' = Recording \ {c}
    BY <1>1, <1>2, <1>3 DEF Recording
  <2>3. /\ IsFiniteSet(Recording') /\ Cardinality(Recording) \in Nat
        /\ Cardinality(Recording') = Cardinality(Recording) - 1
    BY <2>1, <2>2, FS_RemoveElement, FS_CardinalityType
  <2>4. Len(recent) \in Nat
    BY <1>1 DEF Types
  <2>5. Len(recent') < RecentLimit => Len(bridge') + Cardinality(Recording') <= Len(recent')
    BY <1>1, <1>4, <2>3, <2>4 DEF BrainIInv, BridgeBehind
  <2>6. QED
    BY <2>3, <2>5 DEF BridgeBehind
<1>8. ReadsOK(c)'
  BY <1>2, <1>3 DEF ReadsOK
<1>9. OwnOK(c)'
  <2>1. OwnOK(c)
    BY DEF BrainIInv
  <2>2. QED
    BY <1>1, <1>2, <1>3, <2>1 DEF OwnOK
<1>10. \A d \in Callers \ {c} : ReadsOK(d)' /\ OwnOK(d)'
  BY <1>1, <1>3, OthersStay
<1>11. QED
  BY <1>5, <1>6, <1>7, <1>8, <1>9, <1>10 DEF BrainIInv

LEMMA NextBrainIInv == BrainIInv /\ [BrainNext]_brainVars => BrainIInv'
<1> SUFFICES ASSUME BrainIInv, [BrainNext]_brainVars PROVE BrainIInv'
  OBVIOUS
<1>1. CASE Weather
  BY <1>1, WeatherIInv
<1>2. CASE Loop
  BY <1>2, LoopIInv
<1>3. ASSUME NEW c \in Callers,
             \/ \E op \in {"decision", "sync"}, r \in Requests : BeginCall(c, op, r)
             \/ \E op \in {"summary", "metrics", "status"} : BeginCall(c, op, Quiet.request)
      PROVE  BrainIInv'
  BY <1>3, BeginIInv
<1>4. ASSUME NEW c \in Callers, Serve(c) PROVE BrainIInv'
  BY <1>4, DecideIInv, AppendIInv, RecordIInv, ReadIInv DEF Serve
<1>5. CASE UNCHANGED brainVars
  <2>1. UNCHANGED <<cast, service, disk, loop, replicas, last, autos, recent, bridge, caller,
                    begun, made>>
    BY <1>5 DEF brainVars, world, outcome, history
  <2>2. Types'
    BY <2>1 DEF BrainIInv, Types
  <2>3. InTurn' /\ NewestFirst'
    BY <2>1 DEF BrainIInv, InTurn, NewestFirst, Shown
  <2>4. BridgeBehind'
    <3>1. Recording' = Recording
      BY <2>1 DEF Recording
    <3>2. QED
      BY <2>1, <3>1 DEF BrainIInv, BridgeBehind
  <2>5. ASSUME NEW c \in Callers PROVE ReadsOK(c)' /\ OwnOK(c)'
    <3>1. ReadsOK(c) /\ OwnOK(c)
      BY DEF BrainIInv
    <3>2. ReadsOK(c)'
      BY <2>1, <3>1 DEF ReadsOK, Shown
    <3>3. OwnOK(c)'
      BY <2>1, <3>1 DEF OwnOK
    <3>4. QED
      BY <3>2, <3>3
  <2>6. QED
    BY <2>2, <2>3, <2>4, <2>5 DEF BrainIInv
<1>6. QED
  BY <1>1, <1>2, <1>3, <1>4, <1>5 DEF BrainNext

\* Whatever is reported on decisions is consistent: a summary that counts decisions names
\* one, the bridge never shows more than the brain, each thread's decisions come newest
\* first and none is missing before the deque is full, and the status of the autonomous
\* loop lags one cycle at most (decision_summary, orchestration/metrics, recent_activity,
\* autonomous_status).
THEOREM ReportsStayConsistent == BrainSpec => []ReportsAreConsistent
<1>1. BrainSpec => []BrainIInv
  BY InitBrainIInv, NextBrainIInv, PTL DEF BrainSpec
<1>2. QED
  BY <1>1, IInvImplies, PTL

=============================================================================
