--------------------------- MODULE MessageBusesProofs ---------------------------
(* Proofs about the two buses. Of RedisBus, for any finite set of patterns, any   *)
(* events, and any number of listeners, subscriptions and troubles; of McpRelay,  *)
(* for any runs, messages, subscribers and kills.                                 *)
EXTENDS RedisBus, McpRelay, FiniteSetTheorems, TLAPS

\* The copies of an event that have not come to a pattern yet: in the socket, and with
\* listeners that have it before them.
InSocket(e) == {i \in 1..Len(socket) : socket[i] = e}
Holds(l, p, e) ==
  /\ listener[l].event = e
  /\ \/ listener[l].pc = "test"
     \/ listener[l].pc = "walk" /\ \E i \in listener[l].at .. listener[l].size : subs[i] = p
WithListeners(p, e) == {l \in Listeners : Holds(l, p, e)}

\* Each call of the callbacks of a pattern has used up one of the copies.
CopiesInv ==
  \A p \in Patterns, e \in Events : \E used \in Nat :
    /\ delivered[p][e] <= callbacks[p] * used
    /\ used + Cardinality(InSocket(e)) + Cardinality(WithListeners(p, e))
         <= Cardinality(heard[e])

WalkInv ==
  /\ \A l \in Listeners :
       /\ listener[l].at >= 1
       /\ listener[l].pc = "walk" => listener[l].size <= Len(subs)
  /\ user.do = "psubscribe" => user.pattern \in ToSet(subs)
  /\ \A e \in unpublished : heard[e] = {} /\ e \notin ToSet(socket)

BusIInv == BusTypeOK /\ WalkInv /\ RunningHasListener /\ CopiesInv

-----------------------------------------------------------------------------

LEMMA Appended ==
  ASSUME NEW S, NEW s \in Seq(S), NEW x \in S
  PROVE  /\ Append(s, x) \in Seq(S) /\ Len(Append(s, x)) = Len(s) + 1
         /\ Append(s, x)[Len(s) + 1] = x
         /\ \A i \in 1..Len(s) : Append(s, x)[i] = s[i]
  OBVIOUS

LEMMA Joined ==
  ASSUME NEW S, NEW a \in Seq(S), NEW b \in Seq(S)
  PROVE  /\ a \o b \in Seq(S) /\ Len(a \o b) = Len(a) + Len(b)
         /\ \A j \in 1..(Len(a) + Len(b)) :
              (a \o b)[j] = IF j <= Len(a) THEN a[j] ELSE b[j - Len(a)]
  OBVIOUS

LEMMA Behead ==
  ASSUME NEW S, NEW s \in Seq(S), s # <<>>
  PROVE  /\ Head(s) \in S /\ Head(s) = s[1] /\ Len(s) \in Nat /\ Len(s) >= 1
         /\ Tail(s) \in Seq(S) /\ Len(Tail(s)) = Len(s) - 1
         /\ \A i \in 1..(Len(s) - 1) : Tail(s)[i] = s[i + 1]
  OBVIOUS

\* A sequence of one element, which is there n times.
LEMMA Repeated ==
  ASSUME NEW S, NEW x \in S, NEW n \in Nat, NEW r, r = [i \in 1..n |-> x]
  PROVE  r \in Seq(S) /\ Len(r) = n /\ \A i \in 1..n : r[i] = x
  OBVIOUS

\* SetToSeq gives each element of a finite set once.
LEMMA SetInSequence ==
  ASSUME NEW S, IsFiniteSet(S)
  PROVE  /\ Cardinality(S) \in Nat /\ DOMAIN SetToSeq(S) = 1..Cardinality(S)
         /\ ToSet(SetToSeq(S)) = S
<1> DEFINE n == Cardinality(S) f == SetToSeq(S)
<1>1. n \in Nat /\ \E g : g \in Bijection(1..n, S)
  BY FS_CardinalityType DEF ExistsBijection
<1>2. \E g \in [1..n -> S] : IsInjective(g)
  BY <1>1 DEF Bijection, Injection
<1>3. f \in [1..n -> S] /\ IsInjective(f)
  BY <1>2 DEF SetToSeq
<1> HIDE DEF f
<1>4. IsFiniteSet(1..n) /\ Cardinality(1..n) = n
  BY <1>1, FS_Interval
<1>5. f \in Injection(1..n, S)
  BY <1>3 DEF Injection
<1>6. f \in Surjection(1..n, S)
  BY <1>4, <1>5, FS_Injection
<1>7. ToSet(f) = S
  BY <1>3, <1>6 DEF Surjection, ToSet
<1>8. QED
  BY <1>1, <1>3, <1>7 DEF f

LEMMA Products ==
  ASSUME NEW a \in Nat, NEW b \in Nat, NEW n \in Nat
  PROVE  /\ a * n \in Nat
         /\ a <= b => a * n <= b * n
         /\ n <= b => a * n <= a * b
         /\ a * (n + 1) = a * n + a
<1>1. a * n \in Nat
  OBVIOUS
<1>2. ASSUME a <= b PROVE a * n <= b * n
  BY <1>2
<1>3. ASSUME n <= b PROVE a * n <= a * b
  BY <1>3
<1>4. a * (n + 1) = a * n + a
  OBVIOUS
<1>5. QED
  BY <1>1, <1>2, <1>3, <1>4

Points == {"none", "read", "test", "walk", "finally", "ended"}

LEMMA BusFacts ==
  ASSUME BusIInv
  PROVE  /\ IsFiniteSet(Patterns) /\ IsFiniteSet(Listeners) /\ Listeners \subseteq Nat
         /\ NoListener.event \in Events /\ Waiting.pattern \in Patterns
         /\ subs \in Seq(Patterns) /\ Len(subs) \in Nat /\ ToSet(subs) \subseteq Patterns
         /\ \A i \in 1..Len(subs) : subs[i] \in ToSet(subs)
         /\ socket \in Seq(Events) /\ Len(socket) \in Nat
         /\ \A i \in 1..Len(socket) : socket[i] \in ToSet(socket) /\ socket[i] \in Events
         /\ \A l \in Listeners :
              /\ listener[l].pc \in Points /\ listener[l].event \in Events
              /\ listener[l].at \in Nat /\ listener[l].size \in Nat /\ listener[l].at >= 1
         /\ \A e \in Events : IsFiniteSet(InSocket(e)) /\ IsFiniteSet(heard[e])
         /\ \A p \in Patterns, e \in Events :
              /\ IsFiniteSet(WithListeners(p, e))
              /\ callbacks[p] \in Nat /\ delivered[p][e] \in Nat
<1>1. IsFiniteSet(Patterns) /\ IsFiniteSet(Listeners) /\ Listeners \subseteq Nat
  BY BusAssumption, FS_Interval DEF Listeners
<1>2. NoListener.event \in Events /\ Waiting.pattern \in Patterns
  BY BusAssumption DEF NoListener, Waiting
<1>3. /\ subs \in Seq(Patterns) /\ Len(subs) \in Nat /\ ToSet(subs) \subseteq Patterns
      /\ \A i \in 1..Len(subs) : subs[i] \in ToSet(subs)
  <2>1. subs \in Seq(Patterns)
    BY DEF BusIInv, BusTypeOK
  <2>2. QED
    BY <2>1 DEF ToSet
<1>4. /\ socket \in Seq(Events) /\ Len(socket) \in Nat
      /\ \A i \in 1..Len(socket) : socket[i] \in ToSet(socket) /\ socket[i] \in Events
  <2>1. socket \in Seq(Events)
    BY DEF BusIInv, BusTypeOK
  <2>2. QED
    BY <2>1 DEF ToSet
<1>5. ASSUME NEW l \in Listeners
      PROVE  /\ listener[l].pc \in Points /\ listener[l].event \in Events
             /\ listener[l].at \in Nat /\ listener[l].size \in Nat /\ listener[l].at >= 1
  <2>1. listener[l] \in [pc : Points, event : Events, at : Nat, size : Nat]
    BY DEF BusIInv, BusTypeOK, Points
  <2>2. QED
    BY <2>1 DEF BusIInv, WalkInv
<1>6. ASSUME NEW e \in Events PROVE IsFiniteSet(InSocket(e)) /\ IsFiniteSet(heard[e])
  <2>1. IsFiniteSet(1..Len(socket)) /\ InSocket(e) \subseteq 1..Len(socket)
    BY <1>4, FS_Interval DEF InSocket
  <2>2. heard[e] \subseteq Patterns
    BY DEF BusIInv, BusTypeOK
  <2>3. QED
    BY <1>1, <2>1, <2>2, FS_Subset
<1>7. ASSUME NEW p \in Patterns, NEW e \in Events
      PROVE  /\ IsFiniteSet(WithListeners(p, e))
             /\ callbacks[p] \in Nat /\ delivered[p][e] \in Nat
  <2>1. WithListeners(p, e) \subseteq Listeners
    BY DEF WithListeners
  <2>2. IsFiniteSet(WithListeners(p, e))
    BY <1>1, <2>1, FS_Subset
  <2>3. QED
    BY <2>2 DEF BusIInv, BusTypeOK
<1>8. QED
  BY <1>1, <1>2, <1>3, <1>4, <1>5, <1>6, <1>7

\* No copy is on its way that was not, and none is used up.
LEMMA CopiesKept ==
  ASSUME BusIInv, delivered' = delivered, heard' = heard,
         \A p \in Patterns : callbacks'[p] \in Nat /\ callbacks[p] <= callbacks'[p],
         \A e \in Events : InSocket(e)' \subseteq InSocket(e),
         \A p \in Patterns, e \in Events : WithListeners(p, e)' \subseteq WithListeners(p, e)
  PROVE  CopiesInv'
<1> SUFFICES ASSUME NEW p \in Patterns, NEW e \in Events
             PROVE  \E used \in Nat :
                      /\ delivered[p][e] <= callbacks'[p] * used
                      /\ used + Cardinality(InSocket(e)') + Cardinality(WithListeners(p, e)')
                           <= Cardinality(heard[e])
  BY DEF CopiesInv
<1>1. PICK used \in Nat :
        /\ delivered[p][e] <= callbacks[p] * used
        /\ used + Cardinality(InSocket(e)) + Cardinality(WithListeners(p, e))
             <= Cardinality(heard[e])
  BY DEF BusIInv, CopiesInv
<1>2. /\ IsFiniteSet(InSocket(e)) /\ IsFiniteSet(heard[e]) /\ IsFiniteSet(WithListeners(p, e))
      /\ callbacks[p] \in Nat /\ delivered[p][e] \in Nat
  BY BusFacts
<1>3. /\ Cardinality(InSocket(e)') <= Cardinality(InSocket(e))
      /\ IsFiniteSet(InSocket(e)')
  BY <1>2, FS_Subset
<1>4. /\ Cardinality(WithListeners(p, e)') <= Cardinality(WithListeners(p, e))
      /\ IsFiniteSet(WithListeners(p, e)')
  BY <1>2, FS_Subset
<1>5. /\ Cardinality(InSocket(e)) \in Nat /\ Cardinality(InSocket(e)') \in Nat
      /\ Cardinality(WithListeners(p, e)) \in Nat /\ Cardinality(WithListeners(p, e)') \in Nat
      /\ Cardinality(heard[e]) \in Nat
  BY <1>2, <1>3, <1>4, FS_CardinalityType
<1>6. callbacks[p] * used \in Nat /\ callbacks'[p] * used \in Nat
      /\ callbacks[p] * used <= callbacks'[p] * used
  BY <1>2, Products
<1>7. delivered[p][e] <= callbacks'[p] * used
  BY <1>1, <1>2, <1>6
<1>8. used + Cardinality(InSocket(e)') + Cardinality(WithListeners(p, e)')
        <= Cardinality(heard[e])
  BY <1>1, <1>3, <1>4, <1>5
<1>9. QED
  BY <1>7, <1>8

LEMMA BusStarts == BusInit => BusIInv
<1> SUFFICES ASSUME BusInit PROVE BusIInv
  OBVIOUS
<1>1. /\ bus = "none" /\ user = Waiting /\ subs = <<>> /\ callbacks = [p \in Patterns |-> 0]
      /\ history = <<>> /\ running = FALSE /\ linked = FALSE /\ channels = {} /\ socket = <<>>
      /\ troubles = 0 /\ listener = [l \in Listeners |-> NoListener] /\ unpublished = Events
      /\ delivered = [p \in Patterns |-> [e \in Events |-> 0]]
      /\ heard = [e \in Events |-> {}] /\ disturbed = FALSE
  BY DEF BusInit
<1>2. NoListener \in [pc : Points, event : Events, at : Nat, size : Nat]
      /\ Waiting \in [do : {"idle", "psubscribe", "listen", "close"}, pattern : Patterns]
      /\ NoListener.pc = "none" /\ NoListener.at = 1 /\ Waiting.do = "idle"
  BY BusAssumption DEF NoListener, Waiting, Points
<1>3. BusTypeOK
  <2>1. <<>> \in Seq(Patterns) /\ <<>> \in Seq(Ours) /\ <<>> \in Seq(Events)
        /\ Len(<<>>) <= HistoryLimit
    BY BusAssumption
  <2>2. IsInjective(<<>>)
    BY DEF IsInjective
  <2>3. troubles \in 0..MaxTroubles
    BY <1>1, BusAssumption
  <2>4. listener \in [Listeners -> [pc : Points, event : Events, at : Nat, size : Nat]]
    BY <1>1, <1>2
  <2>5. QED
    BY <1>1, <1>2, <2>1, <2>2, <2>3, <2>4 DEF BusTypeOK, Points
<1>4. WalkInv
  BY <1>1, <1>2 DEF WalkInv, ToSet
<1>5. RunningHasListener
  BY <1>1 DEF RunningHasListener
<1>6. CopiesInv
  <2> SUFFICES ASSUME NEW p \in Patterns, NEW e \in Events
               PROVE  \E used \in Nat :
                        /\ delivered[p][e] <= callbacks[p] * used
                        /\ used + Cardinality(InSocket(e)) + Cardinality(WithListeners(p, e))
                             <= Cardinality(heard[e])
    BY DEF CopiesInv
  <2>1. InSocket(e) = {} /\ heard[e] = {} /\ delivered[p][e] = 0 /\ callbacks[p] = 0
    BY <1>1 DEF InSocket
  <2>2. WithListeners(p, e) = {}
    BY <1>1, <1>2 DEF WithListeners, Holds
  <2>3. Cardinality({}) = 0
    BY FS_EmptySet
  <2>4. 0 <= 0 * 0 /\ 0 + 0 + 0 <= 0
    OBVIOUS
  <2>5. QED
    BY <2>1, <2>2, <2>3, <2>4
<1>7. QED
  BY <1>3, <1>4, <1>5, <1>6 DEF BusIInv

\* Neither the subscribers nor what is on its way to them changes.
LEMMA CopiesStill ==
  ASSUME BusIInv, UNCHANGED <<subs, callbacks, listener, socket, delivered, heard>>
  PROVE  CopiesInv'
<1>1. \A e \in Events : InSocket(e)' = InSocket(e)
  BY DEF InSocket
<1>2. \A p \in Patterns, e \in Events : WithListeners(p, e)' = WithListeners(p, e)
  BY DEF WithListeners, Holds
<1>3. \A p \in Patterns : callbacks[p] \in Nat /\ callbacks[p] <= callbacks[p]
  BY DEF BusIInv, BusTypeOK
<1>4. QED
  BY <1>1, <1>2, <1>3, CopiesKept

LEMMA TroublesCounted == ASSUME BusIInv, Trouble PROVE troubles' \in 0..MaxTroubles
  BY BusAssumption DEF BusIInv, BusTypeOK, Trouble

LEMMA ConnectStep == ASSUME BusIInv, Connect PROVE BusIInv'
<1>1. /\ bus' \in {"none", "redis", "mock"} /\ (troubles' = troubles \/ Trouble)
      /\ UNCHANGED <<user, subs, callbacks, history, running, linked, channels, socket,
                     listener, unpublished, delivered, heard, disturbed>>
  BY DEF Connect, registered, told
<1>2. troubles' \in 0..MaxTroubles
  BY <1>1, TroublesCounted DEF BusIInv, BusTypeOK
<1>3. BusTypeOK'
  BY <1>1, <1>2 DEF BusIInv, BusTypeOK, Listeners
<1>4. WalkInv' /\ RunningHasListener'
  BY <1>1 DEF BusIInv, WalkInv, RunningHasListener, Alive, Listeners
<1>5. QED
  BY <1>1, <1>3, <1>4, CopiesStill DEF BusIInv

LEMMA RegisterStep == ASSUME BusIInv, NEW p \in Patterns, Register(p) PROVE BusIInv'
<1>1. /\ subs' = IF p \in ToSet(subs) THEN subs ELSE Append(subs, p)
      /\ callbacks' = [callbacks EXCEPT ![p] = @ + 1]
      /\ user' = user \/ user' = [do |-> "psubscribe", pattern |-> p]
      /\ user.do = "idle" /\ disturbed' = (disturbed \/ (subs' # subs
                                  /\ \E l \in Listeners : listener[l].pc = "walk"))
      /\ UNCHANGED <<bus, history, running, linked, channels, socket, troubles, listener,
                     unpublished, delivered, heard>>
  BY DEF Register, link, told
<1>2. /\ subs' \in Seq(Patterns) /\ Len(subs') >= Len(subs) /\ Len(subs') \in Nat
      /\ \A i \in 1..Len(subs) : subs'[i] = subs[i]
      /\ IsInjective(subs') /\ ToSet(subs) \subseteq ToSet(subs') /\ p \in ToSet(subs')
  <2>1. CASE p \in ToSet(subs)
    BY <1>1, <2>1, BusFacts DEF BusIInv, BusTypeOK
  <2>2. CASE p \notin ToSet(subs)
    <3>1. subs' = Append(subs, p)
      BY <1>1, <2>2
    <3>2. /\ subs' \in Seq(Patterns) /\ Len(subs') = Len(subs) + 1 /\ subs'[Len(subs) + 1] = p
          /\ \A i \in 1..Len(subs) : subs'[i] = subs[i]
      BY <3>1, BusFacts, Appended
    <3>3. IsInjective(subs) /\ \A i \in 1..Len(subs) : subs[i] # p
      BY <2>2, BusFacts DEF BusIInv, BusTypeOK
    <3>4. DOMAIN subs = 1..Len(subs) /\ DOMAIN subs' = 1..Len(subs')
      BY <3>2, BusFacts
    <3>5. \A i \in 1..Len(subs') : i \in 1..Len(subs) \/ i = Len(subs) + 1
      BY <3>2, BusFacts
    <3>6. IsInjective(subs')
      BY <3>2, <3>3, <3>4, <3>5 DEF IsInjective
    <3>7. ToSet(subs) \subseteq ToSet(subs')
      <4>1. ASSUME NEW i \in 1..Len(subs) PROVE i \in 1..Len(subs')
        BY <3>2, BusFacts
      <4>2. QED
        BY <3>2, <3>4, <4>1 DEF ToSet
    <3>8. p \in ToSet(subs')
      <4>1. Len(subs) + 1 \in 1..Len(subs')
        BY <3>2, BusFacts
      <4>2. QED
        BY <3>2, <3>4, <4>1 DEF ToSet
    <3>9. QED
      BY <3>2, <3>6, <3>7, <3>8, BusFacts
  <2>3. QED
    BY <2>1, <2>2
<1>3. callbacks' \in [Patterns -> Nat]
      /\ \A q \in Patterns : callbacks'[q] \in Nat /\ callbacks[q] <= callbacks'[q]
  BY <1>1 DEF BusIInv, BusTypeOK
<1>4. user' \in [do : {"idle", "psubscribe", "listen", "close"}, pattern : Patterns]
      /\ (user'.do = "psubscribe" => user'.pattern \in ToSet(subs'))
  <2>1. CASE user' = user
    BY <1>1, <2>1 DEF BusIInv, BusTypeOK
  <2>2. CASE user' = [do |-> "psubscribe", pattern |-> p]
    BY <1>2, <2>2
  <2>3. QED
    BY <1>1, <2>1, <2>2
<1>5. BusTypeOK'
  <2>1. disturbed' \in BOOLEAN
    BY <1>1 DEF BusIInv, BusTypeOK
  <2>2. channels' \subseteq ToSet(subs')
    BY <1>1, <1>2 DEF BusIInv, BusTypeOK
  <2>3. QED
    BY <1>1, <1>2, <1>3, <1>4, <2>1, <2>2 DEF BusIInv, BusTypeOK, Listeners
<1>6. WalkInv'
  <2>1. \A l \in Listeners : /\ listener[l].at >= 1
                             /\ listener[l].pc = "walk" => listener[l].size <= Len(subs')
    <3>1. \A l \in Listeners : listener[l].size \in Nat
                               /\ (listener[l].pc = "walk" => listener[l].size <= Len(subs))
      BY BusFacts DEF BusIInv, WalkInv
    <3>2. QED
      BY <1>2, <3>1, BusFacts
  <2>2. QED
    BY <1>1, <1>4, <2>1 DEF BusIInv, WalkInv, Listeners
<1>7. RunningHasListener'
  BY <1>1 DEF BusIInv, RunningHasListener, Alive, Listeners
<1>8. CopiesInv'
  <2>1. ASSUME NEW q \in Patterns, NEW e \in Events, NEW l \in Listeners, Holds(l, q, e)'
        PROVE  Holds(l, q, e)
    <3>1. CASE listener[l].pc = "walk"
      <4>1. PICK i \in listener[l].at .. listener[l].size : subs'[i] = q
        BY <1>1, <2>1, <3>1 DEF Holds
      <4>2. i \in 1..Len(subs)
        BY <3>1, <4>1, BusFacts DEF BusIInv, WalkInv
      <4>3. subs[i] = q
        BY <1>2, <4>1, <4>2
      <4>4. QED
        BY <1>1, <2>1, <3>1, <4>1, <4>3 DEF Holds
    <3>2. CASE listener[l].pc # "walk"
      BY <1>1, <2>1, <3>2 DEF Holds
    <3>3. QED
      BY <3>1, <3>2
  <2>2. \A q \in Patterns, e \in Events : WithListeners(q, e)' \subseteq WithListeners(q, e)
    BY <2>1 DEF WithListeners, Listeners
  <2>3. \A e \in Events : InSocket(e)' = InSocket(e)
    BY <1>1 DEF InSocket
  <2>4. QED
    BY <1>1, <1>3, <2>2, <2>3, CopiesKept
<1>9. QED
  BY <1>5, <1>6, <1>7, <1>8 DEF BusIInv

LEMMA UserGoesOn ==
  ASSUME BusIInv, NEW from, NEW to \in {"idle", "listen", "close"}, UserDoes(from, to)
  PROVE  /\ user'.do = to
         /\ user' \in [do : {"idle", "psubscribe", "listen", "close"}, pattern : Patterns]
<1>1. user \in [do : {"idle", "psubscribe", "listen", "close"}, pattern : Patterns]
  BY DEF BusIInv, BusTypeOK
<1>2. Waiting \in [do : {"idle", "psubscribe", "listen", "close"}, pattern : Patterns]
      /\ Waiting.do = "idle"
  BY BusAssumption DEF Waiting
<1>3. CASE to = "idle"
  BY <1>2, <1>3 DEF UserDoes
<1>4. CASE to # "idle"
  <2>1. user' = [user EXCEPT !.do = to]
    BY <1>4 DEF UserDoes
  <2>2. QED
    BY <1>1, <2>1
<1>5. QED
  BY <1>3, <1>4

LEMMA PsubscribeStep == ASSUME BusIInv, Psubscribe PROVE BusIInv'
<1>1. /\ user.do = "psubscribe" /\ linked' = TRUE /\ channels' = channels \cup {user.pattern}
      /\ UNCHANGED <<bus, subs, callbacks, history, running, socket, troubles, listener,
                     unpublished, delivered, heard, disturbed>>
  BY DEF Psubscribe, registered, told, UserDoes
<1>2. user'.do = "listen"
      /\ user' \in [do : {"idle", "psubscribe", "listen", "close"}, pattern : Patterns]
  BY UserGoesOn DEF Psubscribe
<1>3. BusTypeOK'
  BY <1>1, <1>2 DEF BusIInv, BusTypeOK, WalkInv, Listeners
<1>4. WalkInv' /\ RunningHasListener'
  BY <1>1, <1>2 DEF BusIInv, WalkInv, RunningHasListener, Alive, Listeners
<1>5. QED
  BY <1>1, <1>3, <1>4, CopiesStill DEF BusIInv

LEMMA PsubscribeFailsStep == ASSUME BusIInv, PsubscribeFails PROVE BusIInv'
<1>1. /\ disturbed' = TRUE
      /\ UNCHANGED <<bus, subs, callbacks, history, running, linked, channels, socket, listener,
                     unpublished, delivered, heard>>
  BY DEF PsubscribeFails, registered, told
<1>2. user'.do = "idle" /\ troubles' \in 0..MaxTroubles
      /\ user' \in [do : {"idle", "psubscribe", "listen", "close"}, pattern : Patterns]
  BY UserGoesOn, TroublesCounted DEF PsubscribeFails
<1>3. BusTypeOK'
  BY <1>1, <1>2 DEF BusIInv, BusTypeOK, Listeners
<1>4. WalkInv' /\ RunningHasListener'
  BY <1>1, <1>2 DEF BusIInv, WalkInv, RunningHasListener, Alive, Listeners
<1>5. QED
  BY <1>1, <1>3, <1>4, CopiesStill DEF BusIInv

\* A listener whose next point is one where it has nothing in hand, or the walk.
LEMMA ListenerMoves ==
  ASSUME BusIInv, NEW l \in Listeners,
         NEW hand \in [pc : Points, event : Events, at : Nat, size : Nat],
         hand.at >= 1, listener' = [listener EXCEPT ![l] = hand], subs' = subs,
         \/ hand.pc \in {"none", "read", "finally", "ended"}
         \/ /\ hand.pc = "walk" /\ hand.event = listener[l].event /\ hand.size <= Len(subs)
            /\ \/ listener[l].pc = "test"
               \/ listener[l].pc = "walk" /\ hand.size = listener[l].size
                                           /\ hand.at >= listener[l].at
  PROVE  /\ listener' \in [Listeners -> [pc : Points, event : Events, at : Nat, size : Nat]]
         /\ \A k \in Listeners :
              /\ listener'[k].at >= 1
              /\ listener'[k].pc = "walk" => listener'[k].size <= Len(subs)
         /\ \A p \in Patterns, e \in Events : WithListeners(p, e)' \subseteq WithListeners(p, e)
<1>1. listener \in [Listeners -> [pc : Points, event : Events, at : Nat, size : Nat]]
  BY DEF BusIInv, BusTypeOK, Points
<1>2. listener'[l] = hand /\ \A k \in Listeners \ {l} : listener'[k] = listener[k]
  BY <1>1
<1>3. listener' \in [Listeners -> [pc : Points, event : Events, at : Nat, size : Nat]]
  BY <1>1
<1>4. \A k \in Listeners : /\ listener'[k].at >= 1
                           /\ listener'[k].pc = "walk" => listener'[k].size <= Len(subs)
  BY <1>2 DEF BusIInv, WalkInv
<1>5. ASSUME NEW p \in Patterns, NEW e \in Events, NEW k \in Listeners, Holds(k, p, e)'
      PROVE  Holds(k, p, e)
  <2>1. CASE k = l
    <3>1. hand.pc = "walk" /\ hand.event = e
      BY <1>2, <1>5, <2>1 DEF Holds
    <3>2. CASE listener[l].pc = "test"
      BY <2>1, <3>1, <3>2 DEF Holds
    <3>3. CASE listener[l].pc = "walk" /\ hand.size = listener[l].size
               /\ hand.at >= listener[l].at
      <4>1. PICK i \in hand.at .. hand.size : subs[i] = p
        BY <1>2, <1>5, <2>1, <3>1 DEF Holds
      <4>2. i \in listener[l].at .. listener[l].size
        BY <3>3, <4>1, BusFacts
      <4>3. QED
        BY <2>1, <3>1, <3>3, <4>1, <4>2 DEF Holds
    <3>4. QED
      BY <3>1, <3>2, <3>3
  <2>2. CASE k # l
    BY <1>2, <1>5, <2>2 DEF Holds
  <2>3. QED
    BY <2>1, <2>2
<1>6. QED
  BY <1>3, <1>4, <1>5 DEF WithListeners, Listeners

LEMMA StartListenerStep == ASSUME BusIInv, StartListener PROVE BusIInv'
<1>1. UNCHANGED <<bus, subs, callbacks, history, linked, channels, socket, troubles,
                  unpublished, delivered, heard, disturbed>>
  BY DEF StartListener, registered, link, told
<1>2. user'.do = "idle"
      /\ user' \in [do : {"idle", "psubscribe", "listen", "close"}, pattern : Patterns]
  BY UserGoesOn DEF StartListener
<1>3. CASE running
  <2>1. UNCHANGED <<listener, running>>
    BY <1>3 DEF StartListener
  <2>2. BusTypeOK'
    BY <1>1, <1>2, <2>1 DEF BusIInv, BusTypeOK, Listeners
  <2>3. WalkInv' /\ RunningHasListener'
    BY <1>1, <1>2, <2>1 DEF BusIInv, WalkInv, RunningHasListener, Alive, Listeners
  <2>4. QED
    BY <1>1, <2>1, <2>2, <2>3, CopiesStill DEF BusIInv
<1>4. CASE ~running
  <2>1. PICK l \in Listeners :
          listener' = [listener EXCEPT ![l].pc = "read"] /\ running' = TRUE
    BY <1>4 DEF StartListener
  <2> DEFINE hand == [listener[l] EXCEPT !.pc = "read"]
  <2>2. listener[l] \in [pc : Points, event : Events, at : Nat, size : Nat]
        /\ listener[l].at >= 1
    BY DEF BusIInv, BusTypeOK, Points, WalkInv
  <2>3. hand \in [pc : Points, event : Events, at : Nat, size : Nat] /\ hand.at >= 1
        /\ hand.pc = "read"
    BY <2>2 DEF Points
  <2>4. listener' = [listener EXCEPT ![l] = hand]
    BY <2>1
  <2> HIDE DEF hand
  <2>5. /\ listener' \in [Listeners -> [pc : Points, event : Events, at : Nat, size : Nat]]
        /\ \A k \in Listeners :
             /\ listener'[k].at >= 1
             /\ listener'[k].pc = "walk" => listener'[k].size <= Len(subs)
        /\ \A p \in Patterns, e \in Events : WithListeners(p, e)' \subseteq WithListeners(p, e)
    BY <1>1, <2>3, <2>4, ListenerMoves
  <2>6. BusTypeOK'
    BY <1>1, <1>2, <2>1, <2>5 DEF BusIInv, BusTypeOK, Listeners, Points
  <2>7. WalkInv'
    BY <1>1, <1>2, <2>5 DEF BusIInv, WalkInv, Listeners
  <2>8. RunningHasListener'
    <3>1. listener'[l].pc = "read"
      BY <2>3, <2>4 DEF BusIInv, BusTypeOK
    <3>2. QED
      BY <3>1 DEF RunningHasListener, Alive, Listeners
  <2>9. CopiesInv'
    <3>1. \A e \in Events : InSocket(e)' = InSocket(e)
      BY <1>1 DEF InSocket
    <3>2. \A p \in Patterns : callbacks[p] \in Nat /\ callbacks[p] <= callbacks[p]
      BY DEF BusIInv, BusTypeOK
    <3>3. QED
      BY <1>1, <2>5, <3>1, <3>2, CopiesKept
  <2>10. QED
    BY <2>6, <2>7, <2>8, <2>9 DEF BusIInv
<1>5. QED
  BY <1>3, <1>4

LEMMA StopFlagStep == ASSUME BusIInv, StopFlag PROVE BusIInv'
<1>1. /\ running' = FALSE /\ disturbed' = TRUE
      /\ UNCHANGED <<bus, subs, callbacks, history, linked, channels, socket, troubles, listener,
                     unpublished, delivered, heard>>
  BY DEF StopFlag, registered, link, told
<1>2. user'.do # "psubscribe"
      /\ user' \in [do : {"idle", "psubscribe", "listen", "close"}, pattern : Patterns]
  <2> DEFINE to == IF bus = "redis" THEN "close" ELSE "idle"
  <2>1. to \in {"idle", "close"} /\ UserDoes("idle", to)
    BY DEF StopFlag
  <2> HIDE DEF to
  <2>2. QED
    BY <2>1, UserGoesOn
<1>3. BusTypeOK'
  BY <1>1, <1>2 DEF BusIInv, BusTypeOK, Listeners
<1>4. WalkInv' /\ RunningHasListener'
  BY <1>1, <1>2 DEF BusIInv, WalkInv, RunningHasListener, Listeners
<1>5. QED
  BY <1>1, <1>3, <1>4, CopiesStill DEF BusIInv

LEMMA CloseStep == ASSUME BusIInv, Close PROVE BusIInv'
<1>1. /\ linked' = FALSE /\ channels' = {} /\ socket' = <<>>
      /\ UNCHANGED <<bus, subs, callbacks, history, running, troubles, unpublished, delivered,
                     heard, disturbed>>
  BY DEF Close, registered, told
<1>2. user'.do = "idle"
      /\ user' \in [do : {"idle", "psubscribe", "listen", "close"}, pattern : Patterns]
  BY UserGoesOn DEF Close
<1>3. PICK cut \in SUBSET {l \in Listeners : listener[l].pc = "read"} :
        listener' = [l \in Listeners |->
                      IF l \in cut THEN [listener[l] EXCEPT !.pc = "finally"] ELSE listener[l]]
  BY DEF Close
<1>4. ASSUME NEW l \in Listeners
      PROVE  /\ listener'[l] \in [pc : Points, event : Events, at : Nat, size : Nat]
             /\ \/ listener'[l] = listener[l]
                \/ /\ listener'[l].pc = "finally" /\ listener'[l].at = listener[l].at
                   /\ listener[l].pc = "read"
  <2>1. listener[l] \in [pc : Points, event : Events, at : Nat, size : Nat]
    BY DEF BusIInv, BusTypeOK, Points
  <2>2. CASE l \in cut
    BY <1>3, <2>1, <2>2 DEF Points
  <2>3. CASE l \notin cut
    BY <1>3, <2>1, <2>3
  <2>4. QED
    BY <2>2, <2>3
<1>5. listener' \in [Listeners -> [pc : Points, event : Events, at : Nat, size : Nat]]
  <2>1. DOMAIN listener' = Listeners /\ listener' = [l \in Listeners |-> listener'[l]]
    BY <1>3
  <2>2. QED
    BY <1>4, <2>1
<1>6. BusTypeOK'
  <2>1. socket' \in Seq(Events)
    BY <1>1
  <2>2. QED
    BY <1>1, <1>2, <1>5, <2>1 DEF BusIInv, BusTypeOK, Listeners, Points
<1>7. WalkInv'
  <2>1. \A l \in Listeners : /\ listener'[l].at >= 1
                             /\ listener'[l].pc = "walk" => listener'[l].size <= Len(subs)
    BY <1>4 DEF BusIInv, WalkInv
  <2>2. \A e \in unpublished : e \notin ToSet(<<>>)
    BY DEF ToSet
  <2>3. QED
    BY <1>1, <1>2, <2>1, <2>2 DEF BusIInv, WalkInv, Listeners
<1>8. RunningHasListener'
  <2>1. \A l \in Listeners : Alive(l) => Alive(l)'
    BY <1>4 DEF Alive
  <2>2. QED
    BY <1>1, <2>1 DEF BusIInv, RunningHasListener, Listeners
<1>9. CopiesInv'
  <2>1. \A e \in Events : InSocket(e)' \subseteq InSocket(e)
    <3>1. \A i \in 1..Len(<<>>) : FALSE
      OBVIOUS
    <3>2. QED
      BY <1>1, <3>1 DEF InSocket
  <2>2. \A p \in Patterns, e \in Events : WithListeners(p, e)' \subseteq WithListeners(p, e)
    BY <1>1, <1>4 DEF WithListeners, Holds, Listeners
  <2>3. \A p \in Patterns : callbacks[p] \in Nat /\ callbacks[p] <= callbacks[p]
    BY DEF BusIInv, BusTypeOK
  <2>4. QED
    BY <1>1, <2>1, <2>2, <2>3, CopiesKept
<1>10. QED
  BY <1>6, <1>7, <1>8, <1>9 DEF BusIInv

\* What Redis sends: as many copies as there are channels.
LEMMA ArrivesFacts ==
  ASSUME BusIInv, NEW e \in unpublished, Arrives(e), unpublished' = unpublished \ {e},
         UNCHANGED <<subs, callbacks, listener, delivered>>
  PROVE  /\ socket' \in Seq(Events) /\ heard' \in [Events -> SUBSET Patterns]
         /\ \A f \in unpublished' : heard'[f] = {} /\ f \notin ToSet(socket')
         /\ CopiesInv'
<1> DEFINE H == {p \in channels : e \in Matching[p]}
           hits == SetToSeq(H)
           r == [i \in DOMAIN hits |-> e]
           n == Cardinality(H)
           len == Len(socket)
<1>1. e \in Events /\ unpublished \subseteq Events /\ heard[e] = {} /\ e \notin ToSet(socket)
      /\ heard \in [Events -> SUBSET Patterns]
  BY DEF BusIInv, BusTypeOK, WalkInv
<1>2. IsFiniteSet(H) /\ H \subseteq Patterns
  <2>1. H \subseteq Patterns
    BY BusFacts DEF BusIInv, BusTypeOK
  <2>2. QED
    BY <2>1, BusFacts, FS_Subset
<1>3. n \in Nat /\ DOMAIN hits = 1..n /\ ToSet(hits) = H
  BY <1>2, SetInSequence
<1>4. /\ socket' = IF linked THEN socket \o r ELSE socket
      /\ heard' = [heard EXCEPT ![e] = IF linked THEN H ELSE {}]
  BY <1>3 DEF Arrives
<1> HIDE DEF H, hits, n
<1>5. r \in Seq(Events) /\ Len(r) = n /\ \A i \in 1..n : r[i] = e
  BY <1>1, <1>3, Repeated
<1> HIDE DEF r
<1>6. socket \in Seq(Events) /\ len \in Nat /\ \A i \in 1..len : socket[i] \in ToSet(socket)
  BY BusFacts
<1>7. heard' \in [Events -> SUBSET Patterns]
      /\ heard'[e] = (IF linked THEN H ELSE {})
      /\ \A f \in Events \ {e} : heard'[f] = heard[f]
  BY <1>1, <1>2, <1>4
<1>8. /\ socket' \in Seq(Events)
      /\ \A i \in 1..Len(socket') : \/ i \in 1..len /\ socket'[i] = socket[i]
                                    \/ linked /\ i \in len + 1 .. len + n /\ socket'[i] = e
  <2>1. CASE linked
    <3>1. /\ socket' \in Seq(Events) /\ Len(socket') = len + n
          /\ \A i \in 1..(len + n) : socket'[i] = IF i <= len THEN socket[i] ELSE r[i - len]
      <4>1. socket' = socket \o r
        BY <1>4, <2>1
      <4>2. QED
        BY <1>5, <1>6, <4>1, Joined
    <3>2. ASSUME NEW i \in 1..Len(socket')
          PROVE  \/ i \in 1..len /\ socket'[i] = socket[i]
                 \/ linked /\ i \in len + 1 .. len + n /\ socket'[i] = e
      <4>1. CASE i <= len
        BY <1>3, <1>6, <3>1, <4>1
      <4>2. CASE ~(i <= len)
        <5>1. i - len \in 1..n /\ i \in len + 1 .. len + n
          BY <1>3, <1>6, <3>1, <4>2
        <5>2. QED
          BY <1>5, <2>1, <3>1, <4>2, <5>1
      <4>3. QED
        BY <4>1, <4>2
    <3>3. QED
      BY <3>1, <3>2
  <2>2. CASE ~linked
    BY <1>4, <1>6, <2>2
  <2>3. QED
    BY <2>1, <2>2
<1>9. ASSUME NEW f \in unpublished' PROVE heard'[f] = {} /\ f \notin ToSet(socket')
  <2>1. f \in unpublished /\ f # e /\ f \in Events
    BY <1>1, <1>9
  <2>2. heard'[f] = {} /\ f \notin ToSet(socket)
    BY <1>7, <2>1 DEF BusIInv, WalkInv
  <2>3. \A i \in 1..Len(socket') : socket'[i] # f
    BY <1>6, <1>8, <2>1, <2>2
  <2>4. DOMAIN socket' = 1..Len(socket')
    BY <1>8
  <2>5. QED
    BY <2>2, <2>3, <2>4 DEF ToSet
<1>10. CopiesInv'
  <2> SUFFICES ASSUME NEW p \in Patterns, NEW f \in Events
               PROVE  \E used \in Nat :
                        /\ delivered[p][f] <= callbacks[p] * used
                        /\ used + Cardinality(InSocket(f)') + Cardinality(WithListeners(p, f)')
                             <= Cardinality(heard'[f])
    BY DEF CopiesInv
  <2>1. PICK used \in Nat :
          /\ delivered[p][f] <= callbacks[p] * used
          /\ used + Cardinality(InSocket(f)) + Cardinality(WithListeners(p, f))
               <= Cardinality(heard[f])
    BY DEF BusIInv, CopiesInv
  <2>2. WithListeners(p, f)' = WithListeners(p, f)
    BY DEF WithListeners, Holds
  <2>3. CASE f # e
    <3>1. InSocket(f)' = InSocket(f)
      <4>1. \A i : i \in 1..Len(socket') /\ socket'[i] = f => i \in 1..len /\ socket[i] = f
        BY <1>8, <2>3
      <4>2. \A i \in 1..len : i \in 1..Len(socket') /\ socket'[i] = socket[i]
        <5>1. CASE linked
          <6>1. socket' = socket \o r
            BY <1>4, <5>1
          <6>2. Len(socket') = len + n
                /\ \A i \in 1..(len + n) : socket'[i] = IF i <= len THEN socket[i] ELSE r[i - len]
            BY <1>5, <1>6, <6>1, Joined
          <6>3. QED
            BY <1>3, <1>6, <6>2
        <5>2. CASE ~linked
          BY <1>4, <5>2
        <5>3. QED
          BY <5>1, <5>2
      <4>3. QED
        BY <4>1, <4>2 DEF InSocket
    <3>2. QED
      BY <1>7, <2>1, <2>2, <2>3, <3>1
  <2>4. CASE f = e
    <3>1. Cardinality({}) = 0
      BY FS_EmptySet
    <3>2. /\ Cardinality(heard[f]) = 0 /\ Cardinality(InSocket(f)) \in Nat
          /\ Cardinality(WithListeners(p, f)) \in Nat
      BY <1>1, <2>4, <3>1, BusFacts, FS_CardinalityType
    <3>3. used = 0 /\ Cardinality(WithListeners(p, f)) = 0
      BY <2>1, <3>2
    <3>4. CASE linked
      <4>1. InSocket(f)' \subseteq len + 1 .. len + n
        <5>1. \A i \in 1..len : socket[i] # e
          BY <1>1, <1>6
        <5>2. QED
          BY <1>8, <2>4, <5>1 DEF InSocket
      <4>2. IsFiniteSet(len + 1 .. len + n) /\ Cardinality(len + 1 .. len + n) = n
        <5> DEFINE low == len + 1 high == len + n
        <5>1. /\ low \in Int /\ high \in Int
              /\ (low > high => n = 0) /\ (~(low > high) => high - low + 1 = n)
          BY <1>3, <1>6
        <5> HIDE DEF low, high
        <5>2. IsFiniteSet(low .. high)
              /\ Cardinality(low .. high) = IF low > high THEN 0 ELSE high - low + 1
          BY <5>1, FS_Interval
        <5> DEFINE c == Cardinality(low .. high)
        <5>3. c = IF low > high THEN 0 ELSE high - low + 1
          BY <5>2
        <5> HIDE DEF c
        <5>4. c = n
          BY <5>1, <5>3
        <5>5. QED
          BY <5>2, <5>4 DEF c, low, high
      <4>3. Cardinality(InSocket(f)') <= n /\ IsFiniteSet(InSocket(f)')
        BY <4>1, <4>2, FS_Subset
      <4>4. Cardinality(InSocket(f)') \in Nat
        BY <4>3, FS_CardinalityType
      <4>5. Cardinality(heard'[f]) = n
        BY <1>7, <2>4, <3>4 DEF n
      <4>6. used + Cardinality(InSocket(f)') + Cardinality(WithListeners(p, f)')
              <= Cardinality(heard'[f])
        BY <1>3, <2>2, <3>3, <4>3, <4>4, <4>5
      <4>7. QED
        BY <2>1, <4>6
    <3>5. CASE ~linked
      <4>1. heard'[f] = heard[f] /\ socket' = socket
        BY <1>1, <1>4, <1>7, <2>4, <3>5
      <4>2. InSocket(f)' = InSocket(f)
        BY <4>1 DEF InSocket
      <4>3. QED
        BY <2>1, <2>2, <4>1, <4>2
    <3>6. QED
      BY <3>4, <3>5
  <2>5. QED
    BY <2>3, <2>4
<1>11. QED
  BY <1>7, <1>8, <1>9, <1>10

LEMMA PublishOursStep == ASSUME BusIInv, NEW e \in Events, PublishOurs(e) PROVE BusIInv'
<1>1. /\ e \in unpublished /\ e \in Ours /\ unpublished' = unpublished \ {e}
      /\ history' = Kept(Append(history, e)) /\ (troubles' = troubles \/ Trouble)
      /\ Arrives(e) \/ UNCHANGED <<socket, heard>>
      /\ UNCHANGED <<bus, user, subs, callbacks, running, linked, channels, listener, delivered,
                     disturbed>>
  BY DEF PublishOurs, registered
<1>2. troubles' \in 0..MaxTroubles
  BY <1>1, TroublesCounted DEF BusIInv, BusTypeOK
<1>3. history' \in Seq(Ours) /\ Len(history') <= HistoryLimit
  <2> DEFINE longer == Append(history, e)
  <2>1. history \in Seq(Ours) /\ Len(history) <= HistoryLimit /\ HistoryLimit \in Nat
    BY BusAssumption DEF BusIInv, BusTypeOK
  <2>2. longer \in Seq(Ours) /\ Len(longer) = Len(history) + 1
    BY <1>1, <2>1, Appended
  <2> HIDE DEF longer
  <2>3. longer # <<>> /\ Len(history) \in Nat
    BY <2>1, <2>2
  <2>4. Tail(longer) \in Seq(Ours) /\ Len(Tail(longer)) = Len(longer) - 1
    BY <2>2, <2>3, Behead
  <2>5. history' = IF Len(longer) > HistoryLimit THEN Tail(longer) ELSE longer
    BY <1>1 DEF Kept, longer
  <2>6. QED
    BY <2>1, <2>2, <2>3, <2>4, <2>5
<1>4. /\ socket' \in Seq(Events) /\ heard' \in [Events -> SUBSET Patterns]
      /\ \A f \in unpublished' : heard'[f] = {} /\ f \notin ToSet(socket')
      /\ CopiesInv'
  <2>1. CASE Arrives(e)
    BY <1>1, <2>1, ArrivesFacts
  <2>2. CASE UNCHANGED <<socket, heard>>
    <3>1. CopiesInv'
      BY <1>1, <2>2, CopiesStill
    <3>2. QED
      BY <1>1, <2>2, <3>1 DEF BusIInv, BusTypeOK, WalkInv
  <2>3. QED
    BY <1>1, <2>1, <2>2
<1>5. BusTypeOK'
  BY <1>1, <1>2, <1>3, <1>4 DEF BusIInv, BusTypeOK, Listeners
<1>6. WalkInv' /\ RunningHasListener'
  BY <1>1, <1>4 DEF BusIInv, WalkInv, RunningHasListener, Alive, Listeners
<1>7. QED
  BY <1>4, <1>5, <1>6 DEF BusIInv

LEMMA PublishToStubStep == ASSUME BusIInv, NEW e \in Events, PublishToStub(e) PROVE BusIInv'
<1>1. /\ unpublished' = unpublished \ {e} /\ Trouble
      /\ UNCHANGED <<bus, user, subs, callbacks, history, running, linked, channels, socket,
                     listener, delivered, heard, disturbed>>
  BY DEF PublishToStub, registered, told
<1>2. troubles' \in 0..MaxTroubles
  BY <1>1, TroublesCounted
<1>3. BusTypeOK'
  BY <1>1, <1>2 DEF BusIInv, BusTypeOK, Listeners
<1>4. WalkInv' /\ RunningHasListener'
  BY <1>1 DEF BusIInv, WalkInv, RunningHasListener, Alive, Listeners
<1>5. QED
  BY <1>1, <1>3, <1>4, CopiesStill DEF BusIInv

LEMMA PublishTheirsStep == ASSUME BusIInv, NEW e \in Events, PublishTheirs(e) PROVE BusIInv'
<1>1. /\ e \in unpublished /\ unpublished' = unpublished \ {e} /\ Arrives(e)
      /\ UNCHANGED <<bus, user, subs, callbacks, history, running, linked, channels, troubles,
                     listener, delivered, disturbed>>
  BY DEF PublishTheirs, registered
<1>2. /\ socket' \in Seq(Events) /\ heard' \in [Events -> SUBSET Patterns]
      /\ \A f \in unpublished' : heard'[f] = {} /\ f \notin ToSet(socket')
      /\ CopiesInv'
  BY <1>1, ArrivesFacts
<1>3. BusTypeOK'
  BY <1>1, <1>2 DEF BusIInv, BusTypeOK, Listeners
<1>4. WalkInv' /\ RunningHasListener'
  BY <1>1, <1>2 DEF BusIInv, WalkInv, RunningHasListener, Alive, Listeners
<1>5. QED
  BY <1>2, <1>3, <1>4 DEF BusIInv

\* A listener's step that calls nobody and reads nothing, but may lose what is in the socket.
LEMMA ListenerStep ==
  ASSUME BusIInv, NEW l \in Listeners,
         NEW hand \in [pc : Points, event : Events, at : Nat, size : Nat], hand.at >= 1,
         listener' = [listener EXCEPT ![l] = hand],
         \/ hand.pc \in {"none", "read", "finally", "ended"}
         \/ /\ hand.pc = "walk" /\ hand.event = listener[l].event /\ hand.size <= Len(subs)
            /\ \/ listener[l].pc = "test"
               \/ listener[l].pc = "walk" /\ hand.size = listener[l].size
                                           /\ hand.at >= listener[l].at,
         (hand.pc \notin {"none", "ended"} /\ running' = running) \/ ~running',
         UNCHANGED <<bus, user, subs, callbacks, history, channels, unpublished, delivered,
                     heard>>,
         socket' = socket \/ socket' = <<>>, troubles' \in 0..MaxTroubles,
         linked' \in BOOLEAN, running' \in BOOLEAN, disturbed' \in BOOLEAN
  PROVE  BusIInv'
<1>1. /\ listener' \in [Listeners -> [pc : Points, event : Events, at : Nat, size : Nat]]
      /\ \A k \in Listeners :
           /\ listener'[k].at >= 1
           /\ listener'[k].pc = "walk" => listener'[k].size <= Len(subs)
      /\ \A p \in Patterns, e \in Events : WithListeners(p, e)' \subseteq WithListeners(p, e)
  BY ListenerMoves
<1>2. socket' \in Seq(Events) /\ ToSet(socket') \subseteq ToSet(socket)
      /\ \A e \in Events : InSocket(e)' \subseteq InSocket(e)
  <2>1. CASE socket' = socket
    BY <2>1 DEF BusIInv, BusTypeOK, InSocket
  <2>2. CASE socket' = <<>>
    <3>1. <<>> \in Seq(Events) /\ ToSet(<<>>) = {} /\ \A i \in 1..Len(<<>>) : FALSE
      BY DEF ToSet
    <3>2. QED
      BY <2>2, <3>1 DEF InSocket
  <2>3. QED
    BY <2>1, <2>2
<1>3. BusTypeOK'
  BY <1>1, <1>2 DEF BusIInv, BusTypeOK, Listeners, Points
<1>4. WalkInv'
  BY <1>1, <1>2 DEF BusIInv, WalkInv, Listeners
<1>5. RunningHasListener'
  <2>1. /\ listener'[l] = hand
        /\ \A k \in Listeners \ {l} : listener'[k] = listener[k]
    BY DEF BusIInv, BusTypeOK
  <2>2. QED
    BY <2>1 DEF BusIInv, RunningHasListener, Alive, Listeners
<1>6. CopiesInv'
  <2>1. \A p \in Patterns : callbacks'[p] \in Nat /\ callbacks[p] <= callbacks'[p]
    BY DEF BusIInv, BusTypeOK
  <2>2. QED
    BY <1>1, <1>2, <2>1, CopiesKept
<1>7. QED
  BY <1>3, <1>4, <1>5, <1>6 DEF BusIInv

\* A listener that has nothing in hand any more.
LEMMA EmptyHand ==
  ASSUME BusIInv, NEW to \in Points
  PROVE  /\ [NoListener EXCEPT !.pc = to]
              \in [pc : Points, event : Events, at : Nat, size : Nat]
         /\ [NoListener EXCEPT !.pc = to].at = 1 /\ [NoListener EXCEPT !.pc = to].pc = to
<1>1. NoListener \in [pc : Points, event : Events, at : Nat, size : Nat] /\ NoListener.at = 1
  BY BusAssumption DEF NoListener, Points
<1>2. QED
  BY <1>1

LEMMA ListenerLeaves ==
  ASSUME BusIInv, NEW l \in Listeners, NEW to \in {"read", "finally", "ended"},
         ListenerTo(l, to), (to # "ended" /\ running' = running) \/ ~running',
         UNCHANGED <<bus, user, subs, callbacks, history, channels, unpublished, delivered,
                     heard>>,
         socket' = socket \/ socket' = <<>>, troubles' \in 0..MaxTroubles,
         linked' \in BOOLEAN, running' \in BOOLEAN, disturbed' \in BOOLEAN
  PROVE  BusIInv'
<1> DEFINE hand == [NoListener EXCEPT !.pc = to]
<1>1. hand \in [pc : Points, event : Events, at : Nat, size : Nat] /\ hand.at = 1 /\ hand.pc = to
  BY EmptyHand DEF Points
<1>2. listener' = [listener EXCEPT ![l] = hand]
  BY DEF ListenerTo
<1> HIDE DEF hand
<1>3. hand.at >= 1 /\ hand.pc \in {"none", "read", "finally", "ended"}
      /\ ((hand.pc \notin {"none", "ended"} /\ running' = running) \/ ~running')
  BY <1>1
<1>4. QED
  BY <1>1, <1>2, <1>3, ListenerStep

LEMMA Settled ==
  ASSUME BusIInv
  PROVE  /\ troubles \in 0..MaxTroubles /\ linked \in BOOLEAN /\ running \in BOOLEAN
         /\ disturbed \in BOOLEAN
  BY DEF BusIInv, BusTypeOK

LEMMA ReadFailsStep ==
  ASSUME BusIInv, NEW l \in Listeners, ReadFails(l) PROVE BusIInv'
<1>1. /\ ListenerTo(l, "finally")
      /\ UNCHANGED <<bus, user, subs, callbacks, history, running, linked, channels, socket,
                     troubles, unpublished, delivered, heard, disturbed>>
  BY DEF ReadFails, ListenerAt, registered, link
<1>2. QED
  BY <1>1, Settled, ListenerLeaves

LEMMA FinallyStep ==
  ASSUME BusIInv, NEW l \in Listeners, Finally(l) PROVE BusIInv'
<1>1. /\ ListenerTo(l, "ended") /\ running' = FALSE
      /\ UNCHANGED <<bus, user, subs, callbacks, history, linked, channels, socket,
                     troubles, unpublished, delivered, heard, disturbed>>
  BY DEF Finally, ListenerAt, registered, link
<1>2. QED
  BY <1>1, Settled, ListenerLeaves

LEMMA BreaksStep ==
  ASSUME BusIInv, NEW l \in Listeners, Breaks(l) PROVE BusIInv'
<1>1. /\ listener[l].pc = "read" /\ Trouble /\ socket' = <<>> /\ disturbed' = TRUE
      /\ \/ UNCHANGED <<linked, listener>>
         \/ linked' = FALSE /\ ListenerTo(l, "finally")
      /\ UNCHANGED <<bus, user, subs, callbacks, history, running, channels, unpublished,
                     delivered, heard>>
  BY DEF Breaks, ListenerAt, registered
<1>2. troubles' \in 0..MaxTroubles
  BY <1>1, TroublesCounted
<1>3. CASE ListenerTo(l, "finally") /\ linked' = FALSE
  BY <1>1, <1>2, <1>3, Settled, ListenerLeaves
<1>4. CASE UNCHANGED <<linked, listener>>
  <2> DEFINE hand == listener[l]
  <2>1. hand \in [pc : Points, event : Events, at : Nat, size : Nat] /\ hand.at >= 1
        /\ listener' = [listener EXCEPT ![l] = hand] /\ hand.pc = "read"
    BY <1>1, <1>4 DEF BusIInv, BusTypeOK, Points, WalkInv
  <2> HIDE DEF hand
  <2>2. QED
    BY <1>1, <1>2, <1>4, <2>1, Settled, ListenerStep
<1>5. QED
  BY <1>1, <1>3, <1>4

LEMMA TestStep ==
  ASSUME BusIInv, NEW l \in Listeners, Test(l) PROVE BusIInv'
<1> DEFINE to == IF running THEN "walk" ELSE "finally"
           hand == [listener[l] EXCEPT !.pc = to, !.at = 1, !.size = Len(subs)]
<1>1. /\ listener[l].pc = "test"
      /\ listener' = [listener EXCEPT ![l].pc = to, ![l].at = 1, ![l].size = Len(subs)]
      /\ UNCHANGED <<bus, user, subs, callbacks, history, running, linked, channels, socket,
                     troubles, unpublished, delivered, heard, disturbed>>
  BY DEF Test, ListenerAt, registered, link
<1>2. /\ listener \in [Listeners -> [pc : Points, event : Events, at : Nat, size : Nat]]
      /\ to \in {"walk", "finally"} /\ Len(subs) \in Nat
  BY BusFacts DEF BusIInv, BusTypeOK, Points
<1> HIDE DEF to
<1>3. listener[l] \in [pc : Points, event : Events, at : Nat, size : Nat]
  BY <1>2
<1>4. /\ hand \in [pc : Points, event : Events, at : Nat, size : Nat] /\ hand.at = 1
      /\ hand.pc = to /\ hand.event = listener[l].event /\ hand.size = Len(subs)
  BY <1>2, <1>3 DEF Points
<1>5. listener' = [listener EXCEPT ![l] = hand]
  BY <1>1, <1>2
<1> HIDE DEF hand
<1>6. hand.at >= 1 /\ hand.size <= Len(subs)
  BY <1>2, <1>4
<1>7. \/ hand.pc \in {"none", "read", "finally", "ended"}
      \/ /\ hand.pc = "walk" /\ hand.event = listener[l].event /\ hand.size <= Len(subs)
         /\ \/ listener[l].pc = "test"
            \/ listener[l].pc = "walk" /\ hand.size = listener[l].size
                                        /\ hand.at >= listener[l].at
  BY <1>1, <1>2, <1>4, <1>6
<1>8. (hand.pc \notin {"none", "ended"} /\ running' = running) \/ ~running'
  BY <1>1, <1>2, <1>4
<1>9. troubles' \in 0..MaxTroubles /\ linked' \in BOOLEAN /\ running' \in BOOLEAN
      /\ disturbed' \in BOOLEAN
  BY <1>1, Settled
<1>10. QED
  BY <1>1, <1>4, <1>5, <1>6, <1>7, <1>8, <1>9, ListenerStep

\* A message comes out of the socket into the hand of a listener.
LEMMA ReadStep ==
  ASSUME BusIInv, NEW l \in Listeners, Read(l) PROVE BusIInv'
<1> DEFINE x == Head(socket)
           hand == [listener[l] EXCEPT !.pc = "test", !.event = x]
<1>1. /\ listener[l].pc = "read" /\ socket # <<>> /\ socket' = Tail(socket)
      /\ listener' = [listener EXCEPT ![l].pc = "test", ![l].event = x]
      /\ UNCHANGED <<bus, user, subs, callbacks, history, running, linked, channels,
                     troubles, unpublished, delivered, heard, disturbed>>
  BY DEF Read, ListenerAt, registered
<1>2. /\ x \in Events /\ x = socket[1] /\ Len(socket) \in Nat /\ Len(socket) >= 1
      /\ socket' \in Seq(Events) /\ Len(socket') = Len(socket) - 1
      /\ \A i \in 1..(Len(socket) - 1) : socket'[i] = socket[i + 1]
  <2>1. socket \in Seq(Events)
    BY BusFacts
  <2>2. QED
    BY <1>1, <2>1, Behead
<1> HIDE DEF x
<1>3. listener \in [Listeners -> [pc : Points, event : Events, at : Nat, size : Nat]]
      /\ listener[l].at >= 1
  BY DEF BusIInv, BusTypeOK, Points, WalkInv
<1>4. /\ hand \in [pc : Points, event : Events, at : Nat, size : Nat]
      /\ hand.pc = "test" /\ hand.event = x /\ hand.at = listener[l].at
  <2>1. listener[l] \in [pc : Points, event : Events, at : Nat, size : Nat]
    BY <1>3
  <2>2. QED
    BY <1>2, <2>1 DEF Points
<1>5. listener' = [listener EXCEPT ![l] = hand]
  BY <1>1, <1>3
<1> HIDE DEF hand
<1>6. /\ listener' \in [Listeners -> [pc : Points, event : Events, at : Nat, size : Nat]]
      /\ listener'[l] = hand /\ \A k \in Listeners \ {l} : listener'[k] = listener[k]
  BY <1>3, <1>4, <1>5
<1>7. BusTypeOK'
  BY <1>1, <1>2, <1>6 DEF BusIInv, BusTypeOK, Listeners, Points
<1>8. ToSet(socket') \subseteq ToSet(socket)
  <2>1. /\ socket \in Seq(Events) /\ DOMAIN socket' = 1..Len(socket')
    BY <1>2, BusFacts
  <2>2. ASSUME NEW i \in 1..Len(socket') PROVE socket'[i] \in ToSet(socket)
    <3>1. i + 1 \in 1..Len(socket) /\ socket'[i] = socket[i + 1]
      BY <1>2
    <3>2. QED
      BY <3>1, BusFacts
  <2>3. QED
    BY <2>1, <2>2 DEF ToSet
<1>9. WalkInv'
  <2>1. \A k \in Listeners : /\ listener'[k].at >= 1
                             /\ listener'[k].pc = "walk" => listener'[k].size <= Len(subs)
    BY <1>3, <1>4, <1>6 DEF BusIInv, WalkInv
  <2>2. QED
    BY <1>1, <1>8, <2>1 DEF BusIInv, WalkInv, Listeners
<1>10. RunningHasListener'
  BY <1>1, <1>4, <1>6 DEF BusIInv, RunningHasListener, Alive, Listeners
<1>11. CopiesInv'
  <2> SUFFICES ASSUME NEW p \in Patterns, NEW e \in Events
               PROVE  \E used \in Nat :
                        /\ delivered[p][e] <= callbacks[p] * used
                        /\ used + Cardinality(InSocket(e)') + Cardinality(WithListeners(p, e)')
                             <= Cardinality(heard[e])
    BY <1>1 DEF CopiesInv
  <2>1. PICK used \in Nat :
          /\ delivered[p][e] <= callbacks[p] * used
          /\ used + Cardinality(InSocket(e)) + Cardinality(WithListeners(p, e))
               <= Cardinality(heard[e])
    BY DEF BusIInv, CopiesInv
  <2>2. IsFiniteSet(InSocket(e)) /\ IsFiniteSet(WithListeners(p, e)) /\ IsFiniteSet(heard[e])
    BY BusFacts
  <2>3. \A k \in Listeners \ {l} : Holds(k, p, e)' <=> Holds(k, p, e)
    BY <1>1, <1>6 DEF Holds
  <2>4. l \notin WithListeners(p, e)
    BY <1>1 DEF WithListeners, Holds
  <2> DEFINE later == InSocket(e) \ {1}
             f == [i \in later |-> i - 1]
  <2>5. IsFiniteSet(later)
        /\ IsFiniteSet(InSocket(e)') /\ Cardinality(InSocket(e)') <= Cardinality(later)
    <3>1. IsFiniteSet(later)
      BY <2>2, FS_Subset
    <3>2. \A i \in later : i - 1 \in InSocket(e)'
      <4>1. ASSUME NEW i \in later PROVE i - 1 \in 1..Len(socket') /\ socket'[i - 1] = e
        <5>1. i \in 1..Len(socket) /\ socket[i] = e /\ i # 1
          BY DEF InSocket
        <5>2. i - 1 \in 1..(Len(socket) - 1) /\ (i - 1) + 1 = i
          BY <1>2, <5>1
        <5>3. socket'[i - 1] = socket[i]
          BY <1>2, <5>2
        <5>4. QED
          BY <1>2, <5>1, <5>2, <5>3
      <4>2. QED
        BY <4>1 DEF InSocket
    <3>3. ASSUME NEW j \in InSocket(e)' PROVE j + 1 \in later /\ f[j + 1] = j
      <4>1. j \in 1..(Len(socket) - 1) /\ socket'[j] = e
        BY <1>2 DEF InSocket
      <4>2. socket[j + 1] = e /\ j + 1 \in 1..Len(socket) /\ j + 1 # 1 /\ (j + 1) - 1 = j
        BY <1>2, <4>1
      <4>3. j + 1 \in later
        BY <4>2 DEF InSocket
      <4>4. QED
        BY <4>2, <4>3
    <3>4. f \in Surjection(later, InSocket(e)')
      BY <3>2, <3>3 DEF Surjection
    <3> HIDE DEF f, later
    <3>5. QED
      BY <3>1, <3>4, FS_Surjection
  <2>6. /\ Cardinality(InSocket(e)) \in Nat /\ Cardinality(InSocket(e)') \in Nat
        /\ Cardinality(WithListeners(p, e)) \in Nat /\ Cardinality(later) \in Nat
    BY <2>2, <2>5, FS_CardinalityType
  <2>7. CASE e = x
    <3>1. 1 \in InSocket(e)
      BY <1>2, <2>7 DEF InSocket
    <3>2. Cardinality(later) = Cardinality(InSocket(e)) - 1
      BY <2>2, <3>1, FS_RemoveElement
    <3>3. WithListeners(p, e)' \subseteq WithListeners(p, e) \cup {l}
      BY <2>3 DEF WithListeners, Listeners
    <3>4. /\ IsFiniteSet(WithListeners(p, e) \cup {l})
          /\ Cardinality(WithListeners(p, e) \cup {l}) = Cardinality(WithListeners(p, e)) + 1
      BY <2>2, <2>4, FS_AddElement
    <3>5. /\ IsFiniteSet(WithListeners(p, e)')
          /\ Cardinality(WithListeners(p, e)') <= Cardinality(WithListeners(p, e)) + 1
      BY <3>3, <3>4, FS_Subset
    <3>6. Cardinality(WithListeners(p, e)') \in Nat /\ Cardinality(heard[e]) \in Nat
      BY <2>2, <3>5, FS_CardinalityType
    <3> HIDE DEF later
    <3>7. used + Cardinality(InSocket(e)') + Cardinality(WithListeners(p, e)')
            <= Cardinality(heard[e])
      BY <2>1, <2>5, <2>6, <3>2, <3>5, <3>6
    <3>8. QED
      BY <2>1, <3>7
  <2>8. CASE e # x
    <3>1. WithListeners(p, e)' \subseteq WithListeners(p, e)
      <4>1. ~Holds(l, p, e)'
        BY <1>4, <1>6, <2>8 DEF Holds
      <4>2. QED
        BY <2>3, <4>1 DEF WithListeners, Listeners
    <3>2. /\ IsFiniteSet(WithListeners(p, e)')
          /\ Cardinality(WithListeners(p, e)') <= Cardinality(WithListeners(p, e))
      BY <2>2, <3>1, FS_Subset
    <3>3. Cardinality(later) <= Cardinality(InSocket(e))
      BY <2>2, FS_Subset
    <3>4. Cardinality(WithListeners(p, e)') \in Nat /\ Cardinality(heard[e]) \in Nat
      BY <2>2, <3>2, FS_CardinalityType
    <3> HIDE DEF later
    <3>5. used + Cardinality(InSocket(e)') + Cardinality(WithListeners(p, e)')
            <= Cardinality(heard[e])
      BY <2>1, <2>5, <2>6, <3>2, <3>3, <3>4
    <3>6. QED
      BY <2>1, <3>5
  <2>9. QED
    BY <2>7, <2>8
<1>12. QED
  BY <1>7, <1>9, <1>10, <1>11 DEF BusIInv

\* The call: one more copy is used, and this listener holds none for this pattern now.
LEMMA CallStep ==
  ASSUME BusIInv, NEW l \in Listeners, listener[l].pc = "walk",
         Len(subs) = listener[l].size, listener[l].at <= listener[l].size,
         listener' = [listener EXCEPT ![l].at = @ + 1], delivered' = Calls(l),
         UNCHANGED <<bus, user, subs, callbacks, history, running, linked, channels, socket,
                     troubles, unpublished, heard, disturbed>>
  PROVE  BusIInv'
<1> DEFINE at == listener[l].at
           p0 == subs[at]
           e0 == listener[l].event
           hand == [listener[l] EXCEPT !.at = at + 1]
<1>1. /\ listener \in [Listeners -> [pc : Points, event : Events, at : Nat, size : Nat]]
      /\ listener[l] \in [pc : Points, event : Events, at : Nat, size : Nat] /\ at >= 1
  BY DEF BusIInv, BusTypeOK, Points, WalkInv
<1>2. at \in 1..Len(subs) /\ at \in at .. listener[l].size /\ e0 \in Events
  BY <1>1, BusFacts
<1>3. p0 \in Patterns
  BY <1>2, BusFacts
<1>4. /\ hand \in [pc : Points, event : Events, at : Nat, size : Nat]
      /\ hand.pc = "walk" /\ hand.event = e0 /\ hand.at = at + 1 /\ hand.at >= 1
      /\ hand.size = listener[l].size /\ hand.size <= Len(subs) /\ hand.at >= at
  BY <1>1, BusFacts
<1>5. listener' = [listener EXCEPT ![l] = hand]
  BY <1>1
<1>6. /\ delivered' = IF e0 \in Matching[p0]
                      THEN [delivered EXCEPT ![p0][e0] = @ + callbacks[p0]] ELSE delivered
      /\ delivered \in [Patterns -> [Events -> Nat]]
  BY DEF Calls, BusIInv, BusTypeOK
<1> HIDE DEF hand, at, p0, e0
<1>7. /\ listener' \in [Listeners -> [pc : Points, event : Events, at : Nat, size : Nat]]
      /\ \A k \in Listeners :
           /\ listener'[k].at >= 1
           /\ listener'[k].pc = "walk" => listener'[k].size <= Len(subs)
      /\ \A p \in Patterns, e \in Events : WithListeners(p, e)' \subseteq WithListeners(p, e)
  BY <1>4, <1>5, ListenerMoves DEF at, e0
<1>8. listener'[l] = hand
  BY <1>1, <1>5
<1>9. delivered' \in [Patterns -> [Events -> Nat]]
      /\ \A p \in Patterns, e \in Events :
           \/ delivered'[p][e] = delivered[p][e]
           \/ p = p0 /\ e = e0 /\ delivered'[p][e] = delivered[p][e] + callbacks[p]
  <2>1. callbacks[p0] \in Nat
    BY <1>3, BusFacts
  <2>2. CASE e0 \in Matching[p0]
    <3> DEFINE n == delivered[p0][e0] + callbacks[p0]
               row == [delivered[p0] EXCEPT ![e0] = n]
    <3>1. n \in Nat /\ delivered[p0] \in [Events -> Nat]
      BY <1>2, <1>3, <1>6, <2>1
    <3>2. delivered' = [delivered EXCEPT ![p0] = row]
      BY <1>6, <2>2
    <3>3. row[e0] = n
      BY <1>2, <3>1
    <3> HIDE DEF n
    <3>4. row \in [Events -> Nat] /\ row[e0] = n
          /\ \A e \in Events \ {e0} : row[e] = delivered[p0][e]
      BY <1>2, <3>1
    <3> HIDE DEF row
    <3>5. /\ delivered' \in [Patterns -> [Events -> Nat]] /\ delivered'[p0] = row
          /\ \A p \in Patterns \ {p0} : delivered'[p] = delivered[p]
      BY <1>3, <1>6, <3>2, <3>4
    <3>6. QED
      BY <3>4, <3>5 DEF n
  <2>3. CASE e0 \notin Matching[p0]
    BY <1>6, <2>3
  <2>4. QED
    BY <2>2, <2>3
<1>10. BusTypeOK'
  BY <1>7, <1>9 DEF BusIInv, BusTypeOK, Listeners, Points
<1>11. WalkInv'
  BY <1>7 DEF BusIInv, WalkInv, Listeners
<1>12. RunningHasListener'
  <2>1. \A k \in Listeners \ {l} : listener'[k] = listener[k]
    BY <1>1, <1>5
  <2>2. Alive(l)'
    BY <1>4, <1>8 DEF Alive
  <2>3. QED
    BY <2>1, <2>2 DEF BusIInv, RunningHasListener, Alive, Listeners
<1>13. CopiesInv'
  <2> SUFFICES ASSUME NEW p \in Patterns, NEW e \in Events
               PROVE  \E used \in Nat :
                        /\ delivered'[p][e] <= callbacks[p] * used
                        /\ used + Cardinality(InSocket(e)) + Cardinality(WithListeners(p, e)')
                             <= Cardinality(heard[e])
    BY DEF CopiesInv, InSocket
  <2>1. PICK used \in Nat :
          /\ delivered[p][e] <= callbacks[p] * used
          /\ used + Cardinality(InSocket(e)) + Cardinality(WithListeners(p, e))
               <= Cardinality(heard[e])
    BY DEF BusIInv, CopiesInv
  <2>2. /\ IsFiniteSet(InSocket(e)) /\ IsFiniteSet(WithListeners(p, e))
        /\ IsFiniteSet(heard[e]) /\ callbacks[p] \in Nat /\ delivered[p][e] \in Nat
    BY BusFacts
  <2>3. WithListeners(p, e)' \subseteq WithListeners(p, e)
    BY <1>7
  <2>4. /\ IsFiniteSet(WithListeners(p, e)')
        /\ Cardinality(WithListeners(p, e)') <= Cardinality(WithListeners(p, e))
    BY <2>2, <2>3, FS_Subset
  <2>5. /\ Cardinality(InSocket(e)) \in Nat /\ Cardinality(WithListeners(p, e)) \in Nat
        /\ Cardinality(WithListeners(p, e)') \in Nat /\ Cardinality(heard[e]) \in Nat
    BY <2>2, <2>4, FS_CardinalityType
  <2>6. CASE delivered'[p][e] = delivered[p][e]
    BY <2>1, <2>4, <2>5, <2>6
  <2>7. CASE p = p0 /\ e = e0 /\ delivered'[p][e] = delivered[p][e] + callbacks[p]
    <3>1. l \in WithListeners(p, e)
      <4>1. subs[at] = p /\ at \in listener[l].at .. listener[l].size /\ listener[l].event = e
        BY <1>2, <2>7 DEF at, p0, e0
      <4>2. QED
        BY <4>1 DEF WithListeners, Holds
    <3>2. l \notin WithListeners(p, e)'
      <4>1. ASSUME NEW i \in at + 1 .. listener[l].size, subs[i] = p PROVE FALSE
        <5>1. i \in 1..Len(subs) /\ i # at
          BY <1>1, <1>2, BusFacts
        <5>2. DOMAIN subs = 1..Len(subs) /\ IsInjective(subs) /\ subs[at] = p
          BY <2>7, BusFacts DEF BusIInv, BusTypeOK, p0
        <5>3. QED
          BY <1>2, <4>1, <5>1, <5>2 DEF IsInjective
      <4>2. ~Holds(l, p, e)'
        BY <1>4, <1>8, <4>1 DEF Holds
      <4>3. QED
        BY <4>2 DEF WithListeners
    <3>3. WithListeners(p, e)' \subseteq WithListeners(p, e) \ {l}
      BY <2>3, <3>2
    <3>4. /\ IsFiniteSet(WithListeners(p, e) \ {l})
          /\ Cardinality(WithListeners(p, e) \ {l}) = Cardinality(WithListeners(p, e)) - 1
      BY <2>2, <3>1, FS_RemoveElement
    <3>5. Cardinality(WithListeners(p, e)') <= Cardinality(WithListeners(p, e)) - 1
      BY <3>3, <3>4, FS_Subset
    <3>6. (used + 1) + Cardinality(InSocket(e)) + Cardinality(WithListeners(p, e)')
            <= Cardinality(heard[e])
      BY <2>1, <2>5, <3>5
    <3>7. callbacks[p] * (used + 1) = callbacks[p] * used + callbacks[p]
          /\ callbacks[p] * used \in Nat
      BY <2>2, Products
    <3>8. delivered'[p][e] <= callbacks[p] * (used + 1)
      BY <2>1, <2>2, <2>7, <3>7
    <3>9. used + 1 \in Nat
      OBVIOUS
    <3>10. QED
      BY <3>6, <3>8, <3>9
  <2>8. QED
    BY <1>9, <2>6, <2>7
<1>14. QED
  BY <1>10, <1>11, <1>12, <1>13 DEF BusIInv

LEMMA DispatchStep ==
  ASSUME BusIInv, NEW l \in Listeners, Dispatch(l) PROVE BusIInv'
<1>1. /\ listener[l].pc = "walk"
      /\ UNCHANGED <<bus, user, subs, callbacks, history, running, linked, channels, socket,
                     troubles, unpublished, heard, disturbed>>
  BY DEF Dispatch, ListenerAt, registered, link
<1>2. CASE Len(subs) # listener[l].size
  <2>1. ListenerTo(l, "finally") /\ UNCHANGED delivered
    BY <1>2 DEF Dispatch
  <2>2. QED
    BY <1>1, <2>1, Settled, ListenerLeaves
<1>3. CASE Len(subs) = listener[l].size /\ listener[l].at > listener[l].size
  <2>1. ListenerTo(l, "read") /\ UNCHANGED delivered
    BY <1>3 DEF Dispatch
  <2>2. QED
    BY <1>1, <2>1, Settled, ListenerLeaves
<1>4. CASE Len(subs) = listener[l].size /\ ~(listener[l].at > listener[l].size)
  <2>1. listener' = [listener EXCEPT ![l].at = @ + 1] /\ delivered' = Calls(l)
    BY <1>4 DEF Dispatch
  <2>2. listener[l].at <= listener[l].size
    BY <1>4, BusFacts
  <2>3. QED
    BY <1>1, <1>4, <2>1, <2>2, CallStep
<1>5. QED
  BY <1>2, <1>3, <1>4

LEMMA BusSteps == ASSUME BusIInv, BusNext PROVE BusIInv'
<1>1. ASSUME NEW l \in Listeners, Listen(l) \/ Breaks(l) PROVE BusIInv'
  BY <1>1, ReadStep, ReadFailsStep, TestStep, DispatchStep, FinallyStep, BreaksStep
     DEF Listen
<1>2. ASSUME NEW e \in Events, PublishOurs(e) \/ PublishToStub(e) \/ PublishTheirs(e)
      PROVE  BusIInv'
  BY <1>2, PublishOursStep, PublishToStubStep, PublishTheirsStep
<1>3. ASSUME NEW p \in Patterns, Register(p) PROVE BusIInv'
  BY <1>3, RegisterStep
<1>4. CASE Connect \/ Psubscribe \/ PsubscribeFails \/ StartListener \/ StopFlag \/ Close
  BY <1>4, ConnectStep, PsubscribeStep, PsubscribeFailsStep, StartListenerStep, StopFlagStep,
     CloseStep
<1>5. QED
  BY <1>1, <1>2, <1>3, <1>4 DEF BusNext

LEMMA BusStill == ASSUME BusIInv, UNCHANGED busVars PROVE BusIInv'
<1>1. UNCHANGED <<bus, user, subs, callbacks, history, running, linked, channels, socket,
                  troubles, listener, unpublished, delivered, heard, disturbed>>
  BY DEF busVars, registered, link, told
<1>2. BusTypeOK'
  BY <1>1 DEF BusIInv, BusTypeOK, Listeners
<1>3. WalkInv' /\ RunningHasListener'
  BY <1>1 DEF BusIInv, WalkInv, RunningHasListener, Alive, Listeners
<1>4. QED
  BY <1>1, <1>2, <1>3, CopiesStill DEF BusIInv

LEMMA CopiesAreEnough == ASSUME BusIInv PROVE OneCallPerChannel
<1> SUFFICES ASSUME NEW p \in Patterns, NEW e \in Events
             PROVE  delivered[p][e] <= callbacks[p] * Cardinality(heard[e])
  BY DEF OneCallPerChannel
<1>1. PICK used \in Nat :
        /\ delivered[p][e] <= callbacks[p] * used
        /\ used + Cardinality(InSocket(e)) + Cardinality(WithListeners(p, e))
             <= Cardinality(heard[e])
  BY DEF BusIInv, CopiesInv
<1>2. /\ Cardinality(InSocket(e)) \in Nat /\ Cardinality(WithListeners(p, e)) \in Nat
      /\ Cardinality(heard[e]) \in Nat /\ callbacks[p] \in Nat /\ delivered[p][e] \in Nat
  BY BusFacts, FS_CardinalityType
<1>3. used <= Cardinality(heard[e])
  BY <1>1, <1>2
<1>4. /\ callbacks[p] * used \in Nat /\ callbacks[p] * Cardinality(heard[e]) \in Nat
      /\ callbacks[p] * used <= callbacks[p] * Cardinality(heard[e])
  BY <1>2, <1>3, Products
<1>5. QED
  BY <1>1, <1>2, <1>4

\* The event bus (redis_event_bus.py): whatever the connection does, and however many
\* listeners subscribe, die and are replaced, the flag running never promises a listener
\* that is gone, and no callback gets an event more often than Redis sent it: once for
\* each channel it came through.
THEOREM DispatchStaysSound == BusSpec => []DispatchIsSound
<1>1. BusInit => BusIInv
  BY BusStarts
<1>2. BusIInv /\ [BusNext]_busVars => BusIInv'
  BY BusSteps, BusStill
<1>3. BusIInv => DispatchIsSound
  BY CopiesAreEnough DEF DispatchIsSound, BusIInv
<1>4. QED
  BY <1>1, <1>2, <1>3, PTL DEF BusSpec

-----------------------------------------------------------------------------
(* McpRelay.                                                               *)

RowSet == [item : Items, processed : BOOLEAN]
Ops    == [file : Files, item : Items \cup {Reset}]

Writing(x, f) == phase[x] = "write" /\ Target(x) = f
SameItems(rows, items) ==
  Len(rows) = Len(items) /\ \A k \in 1..Len(rows) : rows[k].item = items[k]
OfInbox(rows) == \A k \in 1..Len(rows) : rows[k].item \in InboxItems

\* Rows that say nothing that has not happened.
Honest(rows) ==
  \A k \in 1..Len(rows) :
    /\ rows[k].item \in Mail => rows[k].item \in stamped
    /\ rows[k].processed => published[rows[k].item] > 0

\* What each kind of actor has to append.
WorkInv ==
  /\ \A x \in Actors : phase[x] = "write" => todo[x] # <<>>
  /\ \A x \in InboxItems :
       todo[x] = <<>> \/ (x \in sent /\ todo[x] = <<[file |-> "inbox", item |-> x]>>)
  /\ \A x \in Mail :
       /\ todo[x] = <<>> \/ (x \in sent /\ todo[x] = <<[file |-> "messages", item |-> x]>>)
       /\ phase[x] = "write" => x \in stamped
  /\ \A x \in Runs \cup Threads : \A k \in 1..Len(todo[x]) :
       /\ todo[x][k].file # "inbox"
       /\ todo[x][k].item \in Mail => todo[x][k].item \in stamped
       /\ todo[x][k].item = Reset => todo[x][k].file = "messages" /\ "messages" \in crossed

RowsInv ==
  /\ \A f \in Files : file[f] # Broken => Honest(file[f])
  /\ \A x \in Actors : Honest(copy[x])
  /\ \A r \in Runs : Honest(flags[r]) /\ OfInbox(flags[r])
  /\ file["inbox"] # Broken => OfInbox(file["inbox"])
  /\ \A x \in InboxItems : OfInbox(copy[x])

\* A file on which no two changes met has at most one writer, who knows its content.
AloneInv ==
  \A f \in Files \ crossed :
    /\ file[f] # Broken /\ SameItems(file[f], appended[f])
    /\ \A x \in Actors : Writing(x, f) => copy[x] = file[f]
    /\ \A x, y \in Actors : Writing(x, f) /\ Writing(y, f) => x = y

\* The same of the flags in the inbox; and who has not appended is not in it.
InboxInv ==
  "inbox" \notin crossed =>
    /\ \A r \in Runs : pc[r] = "inbox" =>
         /\ SameItems(flags[r], appended["inbox"])
         /\ \A x \in Actors : ~Writing(x, "inbox")
         /\ \A q \in Runs : pc[q] = "inbox" => q = r
    /\ IsInjective(appended["inbox"])
    /\ \A x \in InboxItems :
         /\ x \notin sent \/ todo[x] # <<>> => x \notin ToSet(appended["inbox"])
         /\ published[x] > 0 => x \in ToSet(appended["inbox"])

BatchInv ==
  /\ \A r \in Runs : batch[r] \subseteq stamped
  /\ \A i \in Mail : published[i] > 0 => i \in stamped
  /\ \A r \in Runs :
       /\ pc[r] = "mail" => \A i \in in_time[r] : published[i] > 0 \/ i \in batch[r]
       /\ pc[r] = "done" => \A i \in in_time[r] : published[i] > 0

\* An event of learning is published once.
LearnInv ==
  \A r \in Runs : published[r] <= 1 /\ (pc[r] \in {"off", "repair", "up"} => published[r] = 0)

\* So is mail, unless a run is killed or two are up at once: what an earlier run has
\* published is not new to a later one.
MailOnceInv ==
  ~repeated =>
    /\ \A r, q \in Runs : Up(r) /\ Up(q) => r = q
    /\ \A i \in Mail : published[i] <= 1
    /\ \A r \in Runs, i \in Mail : published[i] > 0 =>
         /\ pc[r] \in {"up", "learned", "inbox", "flagged"} => i \in last_check[r]
         /\ pc[r] = "mail" => i \notin batch[r]

\* And so is the inbox, unless changes of it met.
InboxOnceInv ==
  ~repeated /\ "inbox" \notin crossed =>
    /\ \A i \in InboxItems : published[i] <= 1
    /\ \A r \in Runs : pc[r] = "inbox" =>
         \A k \in 1..Len(flags[r]) : ~flags[r][k].processed => published[flags[r][k].item] = 0
    /\ (\A r \in Runs : pc[r] # "inbox") =>
         \A k \in 1..Len(file["inbox"]) :
           ~file["inbox"][k].processed => published[file["inbox"][k].item] = 0

RelayIInv ==
  /\ TypeOK /\ WorkInv /\ RowsInv /\ AloneInv /\ InboxInv
  /\ BatchInv /\ LearnInv /\ MailOnceInv /\ InboxOnceInv

-----------------------------------------------------------------------------

LEMMA Kinds ==
  /\ Runs \subseteq Actors /\ Threads \subseteq Actors /\ InboxItems \subseteq Actors
  /\ Mail \subseteq Actors
  /\ Runs \subseteq Items /\ InboxItems \subseteq Items /\ Mail \subseteq Items
  /\ \A x \in Actors : x \in Runs \/ x \in Threads \/ x \in InboxItems \/ x \in Mail
  /\ \A i \in Items : i \in Runs \/ i \in InboxItems \/ i \in Mail
  /\ \A x \in Runs : x \notin InboxItems /\ x \notin Mail /\ x \notin Threads
  /\ \A x \in Threads : x \notin InboxItems /\ x \notin Mail /\ x \notin Runs
  /\ \A x \in Mail : x \notin InboxItems /\ x \notin Runs /\ x \notin Threads
  /\ \A x \in InboxItems : x \notin Mail /\ x \notin Runs /\ x \notin Threads
  /\ Reset \notin Items
  BY RelayAssumption DEF Actors, Items

LEMMA RelayTypes ==
  ASSUME TypeOK
  PROVE  /\ file \in [Files -> Seq(RowSet) \cup {Broken}] /\ Broken \notin Seq(RowSet)
         /\ todo \in [Actors -> Seq(Ops)] /\ phase \in [Actors -> {"idle", "write"}]
         /\ copy \in [Actors -> Seq(RowSet)] /\ flags \in [Runs -> Seq(RowSet)]
         /\ batch \in [Runs -> SUBSET Mail] /\ last_check \in [Runs -> SUBSET Mail]
         /\ sent \subseteq Items /\ stamped \subseteq Mail /\ published \in [Items -> Nat]
         /\ appended \in [Files -> Seq(Items)] /\ crossed \subseteq Files
         /\ in_time \in [Runs -> SUBSET Mail]
         /\ \A r \in Runs : pc[r] \in {"off", "repair", "up", "learned", "inbox", "flagged",
                                       "mail", "done", "killed"}
  BY RelayAssumption DEF TypeOK, Rows, RowSet, Ops

LEMMA RowFields ==
  /\ \A m \in RowSet : m.item \in Items /\ m.processed \in BOOLEAN
  /\ \A i \in Items : Row(i) \in RowSet /\ Row(i).item = i /\ Row(i).processed = FALSE
  /\ \A op \in Ops : op.file \in Files /\ (op.item \in Items \/ op.item = Reset)
  BY DEF RowSet, Row, Ops

LEMMA RowsAt ==
  ASSUME NEW rows \in Seq(RowSet)
  PROVE  /\ Len(rows) \in Nat /\ DOMAIN rows = 1..Len(rows)
         /\ \A k \in 1..Len(rows) : /\ rows[k] \in RowSet /\ rows[k].item \in Items
                                    /\ rows[k].processed \in BOOLEAN
<1>1. Len(rows) \in Nat /\ DOMAIN rows = 1..Len(rows) /\ \A k \in 1..Len(rows) : rows[k] \in RowSet
  OBVIOUS
<1>2. QED
  BY <1>1, RowFields

LEMMA NoRows ==
  /\ <<>> \in Seq(RowSet) /\ Honest(<<>>) /\ OfInbox(<<>>)
  BY DEF Honest, OfInbox

LEMMA RelayStarts == Init => RelayIInv
<1> SUFFICES ASSUME Init PROVE RelayIInv
  OBVIOUS
<1>1. /\ redis \in BOOLEAN /\ file = [f \in Files |-> <<>>]
      /\ todo = [x \in Actors |-> <<>>] /\ phase = [x \in Actors |-> "idle"]
      /\ copy = [x \in Actors |-> <<>>] /\ pc = [r \in Runs |-> "off"]
      /\ batch = [r \in Runs |-> {}] /\ flags = [r \in Runs |-> <<>>]
      /\ last_check = [r \in Runs |-> {}] /\ sent = {} /\ stamped = {} /\ kills = 0
      /\ published = [i \in Items |-> 0] /\ appended = [f \in Files |-> <<>>]
      /\ crossed = {} /\ repeated = FALSE /\ in_time = [r \in Runs |-> {}]
  BY DEF Init
<1>2. \A S : <<>> \in Seq(S) /\ Len(<<>>) = 0 /\ \A k \in 1..Len(<<>>) : FALSE
  OBVIOUS
<1>3. TypeOK
  <2>1. kills \in 0..MaxKills
    BY <1>1, RelayAssumption
  <2>2. /\ file \in [Files -> Rows \cup {Broken}] /\ copy \in [Actors -> Rows]
        /\ flags \in [Runs -> Rows]
    <3>1. <<>> \in Rows
      BY <1>2 DEF Rows
    <3>2. QED
      BY <1>1, <3>1
  <2>3. /\ todo \in [Actors -> Seq([file : Files, item : Items \cup {Reset}])]
        /\ appended \in [Files -> Seq(Items)]
    BY <1>1, <1>2
  <2>4. QED
    BY <1>1, <2>1, <2>2, <2>3 DEF TypeOK
<1>4. "inbox" \in Files /\ <<>> # Broken
  BY <1>2, RelayAssumption DEF Files
<1>5. WorkInv
  BY <1>1, <1>2, Kinds DEF WorkInv
<1>6. RowsInv
  BY <1>1, <1>4, NoRows, Kinds DEF RowsInv
<1>7. AloneInv
  BY <1>1, <1>2, <1>4 DEF AloneInv, Writing, SameItems
<1>8. InboxInv
  <2>1. IsInjective(<<>>) /\ ToSet(<<>>) = {}
    BY DEF IsInjective, ToSet
  <2>2. \A r \in Runs : pc[r] # "inbox"
    BY <1>1
  <2>3. \A x \in InboxItems : published[x] = 0
    BY <1>1, Kinds
  <2>4. appended["inbox"] = <<>>
    BY <1>1, <1>4
  <2>5. QED
    BY <2>1, <2>2, <2>3, <2>4 DEF InboxInv
<1>9. \A i \in Items : published[i] = 0
  BY <1>1
<1>10. \A r \in Runs : pc[r] = "off"
  BY <1>1
<1>11. BatchInv
  BY <1>1, <1>9, <1>10, Kinds DEF BatchInv
<1>12. LearnInv
  BY <1>9, <1>10, Kinds DEF LearnInv
<1>13. MailOnceInv
  BY <1>9, <1>10, Kinds DEF MailOnceInv, Up
<1>14. InboxOnceInv
  <2>1. file["inbox"] = <<>>
    BY <1>1, <1>4
  <2>2. QED
    BY <1>2, <1>9, <1>10, <2>1, Kinds DEF InboxOnceInv
<1>15. QED
  BY <1>3, <1>5, <1>6, <1>7, <1>8, <1>11, <1>12, <1>13, <1>14 DEF RelayIInv

-----------------------------------------------------------------------------
(* What a step leaves as it was.                                           *)

\* What has happened has happened.
Later ==
  /\ stamped \subseteq stamped'
  /\ \A i \in Items : published[i] > 0 => published'[i] > 0

LEMMA HonestLater ==
  ASSUME Later, NEW rows \in Seq(RowSet), Honest(rows)
  PROVE  \A k \in 1..Len(rows) :
           /\ rows[k].item \in Mail => rows[k].item \in stamped'
           /\ rows[k].processed => published'[rows[k].item] > 0
<1>1. \A k \in 1..Len(rows) : rows[k].item \in Items
  BY RowsAt
<1>2. QED
  BY <1>1 DEF Honest, Later

LEMMA RowsFrame ==
  ASSUME TypeOK, RowsInv, Later,
         \A f \in Files : file'[f] = file[f] \/ file'[f] = Broken \/ file'[f] = <<>>,
         \A x \in Actors : copy'[x] = copy[x] \/ copy'[x] = <<>>,
         \A r \in Runs : flags'[r] = flags[r] \/ flags'[r] = <<>>
  PROVE  RowsInv'
<1>1. ASSUME NEW f \in Files, file'[f] # Broken PROVE Honest(file[f])'
  <2>1. CASE file'[f] = file[f]
    <3>1. file[f] \in Seq(RowSet) /\ Honest(file[f])
      BY <1>1, <2>1, RelayTypes DEF RowsInv
    <3>2. QED
      BY <2>1, <3>1, HonestLater DEF Honest
  <2>2. CASE file'[f] = <<>>
    BY <2>2, NoRows DEF Honest
  <2>3. QED
    BY <1>1, <2>1, <2>2
<1>2. ASSUME NEW x \in Actors PROVE Honest(copy[x])'
  <2>1. CASE copy'[x] = copy[x]
    <3>1. copy[x] \in Seq(RowSet) /\ Honest(copy[x])
      BY RelayTypes DEF RowsInv
    <3>2. QED
      BY <2>1, <3>1, HonestLater DEF Honest
  <2>2. CASE copy'[x] = <<>>
    BY <2>2, NoRows DEF Honest
  <2>3. QED
    BY <2>1, <2>2
<1>3. ASSUME NEW r \in Runs PROVE Honest(flags[r])' /\ OfInbox(flags'[r])
  <2>1. CASE flags'[r] = flags[r]
    <3>1. flags[r] \in Seq(RowSet) /\ Honest(flags[r]) /\ OfInbox(flags[r])
      BY RelayTypes DEF RowsInv
    <3>2. QED
      BY <2>1, <3>1, HonestLater DEF Honest
  <2>2. CASE flags'[r] = <<>>
    BY <2>2, NoRows DEF Honest
  <2>3. QED
    BY <2>1, <2>2
<1>4. file'["inbox"] # Broken => OfInbox(file'["inbox"])
  BY NoRows DEF RowsInv, Files
<1>5. \A x \in InboxItems : OfInbox(copy'[x])
  BY NoRows, Kinds DEF RowsInv
<1>6. QED
  BY <1>1, <1>2, <1>3, <1>4, <1>5 DEF RowsInv, Actors, Threads, OfInbox, Files

\* A file where nobody has begun to write, or which somebody crossed.
LEMMA AloneFrame ==
  ASSUME AloneInv, crossed \subseteq crossed',
         \A f \in Files \ crossed' :
           /\ file'[f] = file[f] /\ appended'[f] = appended[f]
           /\ \A y \in Actors : Writing(y, f)' => Writing(y, f) /\ copy'[y] = copy[y]
  PROVE  AloneInv'
<1> SUFFICES ASSUME NEW f \in Files, f \notin crossed'
             PROVE  /\ file'[f] # Broken /\ SameItems(file'[f], appended'[f])
                    /\ \A x \in Actors : Writing(x, f)' => copy'[x] = file'[f]
                    /\ \A x, y \in Actors : Writing(x, f)' /\ Writing(y, f)' => x = y
  BY DEF AloneInv, SameItems, Actors, Threads, Files
<1>1. f \in Files \ crossed
  OBVIOUS
<1>2. /\ file[f] # Broken /\ SameItems(file[f], appended[f])
      /\ \A x \in Actors : Writing(x, f) => copy[x] = file[f]
      /\ \A x, y \in Actors : Writing(x, f) /\ Writing(y, f) => x = y
  BY <1>1 DEF AloneInv
<1>3. QED
  BY <1>2

LEMMA InboxFrame ==
  ASSUME InboxInv, crossed \subseteq crossed',
         "inbox" \notin crossed' =>
           /\ appended'["inbox"] = appended["inbox"]
           /\ \A y \in Actors : Writing(y, "inbox")' => Writing(y, "inbox")
           /\ \A r \in Runs : pc'[r] = "inbox" =>
                pc[r] = "inbox" /\ SameItems(flags'[r], appended["inbox"])
           /\ \A x \in InboxItems :
                /\ x \notin sent' \/ todo'[x] # <<>> => x \notin sent \/ todo[x] # <<>>
                /\ published'[x] > 0 => published[x] > 0 \/ x \in ToSet(appended["inbox"])
  PROVE  InboxInv'
<1> SUFFICES ASSUME "inbox" \notin crossed'
             PROVE  /\ \A r \in Runs : pc'[r] = "inbox" =>
                         /\ SameItems(flags'[r], appended'["inbox"])
                         /\ \A x \in Actors : ~Writing(x, "inbox")'
                         /\ \A q \in Runs : pc'[q] = "inbox" => q = r
                    /\ IsInjective(appended'["inbox"])
                    /\ \A x \in InboxItems :
                         /\ x \notin sent' \/ todo'[x] # <<>> => x \notin ToSet(appended'["inbox"])
                         /\ published'[x] > 0 => x \in ToSet(appended'["inbox"])
  BY DEF InboxInv, SameItems, Actors, Threads, ToSet, IsInjective
<1>1. "inbox" \notin crossed
  OBVIOUS
<1>2. QED
  BY <1>1 DEF InboxInv

LEMMA BatchFrame ==
  ASSUME TypeOK, BatchInv, Later, UNCHANGED in_time,
         \A i \in Mail : published'[i] = published[i],
         \A r \in Runs : \/ batch'[r] = batch[r] /\ (pc'[r] \in {"mail", "done"} => pc'[r] = pc[r])
                         \/ batch'[r] = {} /\ pc'[r] = "killed"
  PROVE  BatchInv'
<1>1. \A r \in Runs : batch'[r] \subseteq stamped'
  BY DEF BatchInv, Later
<1>2. \A i \in Mail : published'[i] > 0 => i \in stamped'
  BY DEF BatchInv, Later
<1>3. \A r \in Runs : in_time[r] \subseteq Mail
  BY RelayTypes
<1>4. ASSUME NEW r \in Runs, NEW i \in in_time[r]
      PROVE  /\ pc'[r] = "mail" => published'[i] > 0 \/ i \in batch'[r]
             /\ pc'[r] = "done" => published'[i] > 0
  <2>1. published'[i] = published[i]
    BY <1>3, <1>4
  <2>2. QED
    BY <1>4, <2>1 DEF BatchInv
<1>5. QED
  BY <1>1, <1>2, <1>4 DEF BatchInv

LEMMA LearnFrame ==
  ASSUME LearnInv, \A r \in Runs : published'[r] = published[r],
         \A r \in Runs : pc'[r] \in {"off", "repair", "up"} => pc[r] \in {"off", "repair", "up"}
  PROVE  LearnInv'
  BY DEF LearnInv

LEMMA MailOnceFrame ==
  ASSUME MailOnceInv, repeated => repeated',
         \A i \in Mail : published'[i] = published[i],
         \A r \in Runs :
           /\ Up(r)' => Up(r)
           /\ pc'[r] \in {"up", "learned", "inbox", "flagged"} =>
                pc[r] \in {"up", "learned", "inbox", "flagged"} /\ last_check'[r] = last_check[r]
           /\ pc'[r] = "mail" => pc[r] = "mail" /\ batch'[r] = batch[r]
  PROVE  MailOnceInv'
<1> SUFFICES ASSUME ~repeated'
             PROVE  /\ \A r, q \in Runs : Up(r)' /\ Up(q)' => r = q
                    /\ \A i \in Mail : published'[i] <= 1
                    /\ \A r \in Runs, i \in Mail : published'[i] > 0 =>
                         /\ pc'[r] \in {"up", "learned", "inbox", "flagged"} => i \in last_check'[r]
                         /\ pc'[r] = "mail" => i \notin batch'[r]
  BY DEF MailOnceInv, Up
<1>1. ~repeated
  OBVIOUS
<1>2. QED
  BY <1>1 DEF MailOnceInv

LEMMA InboxOnceFrame ==
  ASSUME TypeOK, RowsInv, AloneInv, InboxOnceInv, repeated => repeated', crossed \subseteq crossed',
         \A i \in InboxItems : published'[i] = published[i],
         \A r \in Runs : /\ pc'[r] = "inbox" <=> pc[r] = "inbox"
                         /\ pc'[r] = "inbox" => flags'[r] = flags[r],
         "inbox" \notin crossed' => file'["inbox"] = file["inbox"]
  PROVE  InboxOnceInv'
<1> SUFFICES ASSUME ~repeated', "inbox" \notin crossed'
             PROVE  /\ \A i \in InboxItems : published'[i] <= 1
                    /\ \A r \in Runs : pc'[r] = "inbox" =>
                         \A k \in 1..Len(flags'[r]) :
                           ~flags'[r][k].processed => published'[flags'[r][k].item] = 0
                    /\ (\A r \in Runs : pc'[r] # "inbox") =>
                         \A k \in 1..Len(file'["inbox"]) :
                           ~file'["inbox"][k].processed => published'[file'["inbox"][k].item] = 0
  BY DEF InboxOnceInv
<1>1. ~repeated /\ "inbox" \notin crossed
  OBVIOUS
<1>2. \A i \in InboxItems : published'[i] <= 1
  BY <1>1 DEF InboxOnceInv
<1>3. ASSUME NEW r \in Runs, pc'[r] = "inbox", NEW k \in 1..Len(flags'[r]),
             ~flags'[r][k].processed
      PROVE  published'[flags'[r][k].item] = 0
  <2>1. flags'[r] = flags[r] /\ pc[r] = "inbox"
    BY <1>3
  <2>2. flags[r][k].item \in InboxItems
    BY <1>3, <2>1 DEF RowsInv, OfInbox
  <2>3. QED
    BY <1>1, <1>3, <2>1, <2>2 DEF InboxOnceInv
<1>4. ASSUME \A r \in Runs : pc'[r] # "inbox", NEW k \in 1..Len(file'["inbox"]),
             ~file'["inbox"][k].processed
      PROVE  published'[file'["inbox"][k].item] = 0
  <2>1. file'["inbox"] = file["inbox"] /\ "inbox" \in Files \ crossed
    BY <1>1 DEF Files
  <2>2. OfInbox(file["inbox"])
    BY <2>1 DEF RowsInv, AloneInv
  <2>3. file["inbox"][k].item \in InboxItems
    BY <1>4, <2>1, <2>2 DEF OfInbox
  <2>4. QED
    BY <1>1, <1>4, <2>1, <2>3 DEF InboxOnceInv
<1>5. QED
  BY <1>2, <1>3, <1>4

LEMMA CrossFacts ==
  ASSUME TypeOK, NEW S \in SUBSET Files, Cross(S)
  PROVE  /\ crossed' = crossed \cup S /\ crossed \subseteq crossed' /\ crossed' \subseteq Files
         /\ appended' \in [Files -> Seq(Items)]
         /\ \A f \in Files : f \notin crossed' => f \notin crossed /\ f \notin S
                                                  /\ appended'[f] = appended[f]
<1>1. appended \in [Files -> Seq(Items)] /\ crossed \subseteq Files /\ <<>> \in Seq(Items)
  BY RelayTypes
<1>2. crossed' = crossed \cup S
      /\ appended' = [f \in Files |-> IF f \in S THEN <<>> ELSE appended[f]]
  BY DEF Cross
<1>3. QED
  BY <1>1, <1>2

LEMMA Crossless == Cross({}) /\ TypeOK => crossed' = crossed /\ appended' = appended
<1> SUFFICES ASSUME Cross({}), TypeOK PROVE crossed' = crossed /\ appended' = appended
  OBVIOUS
<1>1. appended \in [Files -> Seq(Items)]
  BY RelayTypes
<1>2. crossed' = crossed
      /\ appended' = [f \in Files |-> IF f \in {} THEN <<>> ELSE appended[f]]
  BY DEF Cross
<1>3. QED
  BY <1>1, <1>2

\* The first operation of an actor that writes.
LEMMA FirstOp ==
  ASSUME TypeOK, NEW x \in Actors, todo[x] # <<>>
  PROVE  /\ Head(todo[x]) \in Ops /\ Head(todo[x]) = todo[x][1] /\ 1 \in 1..Len(todo[x])
         /\ Target(x) \in Files /\ Target(x) = todo[x][1].file
         /\ Tail(todo[x]) \in Seq(Ops) /\ Len(Tail(todo[x])) = Len(todo[x]) - 1
         /\ Len(todo[x]) \in Nat
         /\ \A i \in 1..(Len(todo[x]) - 1) : Tail(todo[x])[i] = todo[x][i + 1]
<1>1. todo[x] \in Seq(Ops)
  BY RelayTypes
<1>2. /\ Head(todo[x]) \in Ops /\ Head(todo[x]) = todo[x][1] /\ Len(todo[x]) \in Nat
      /\ Len(todo[x]) >= 1 /\ Tail(todo[x]) \in Seq(Ops)
      /\ Len(Tail(todo[x])) = Len(todo[x]) - 1
      /\ \A i \in 1..(Len(todo[x]) - 1) : Tail(todo[x])[i] = todo[x][i + 1]
  BY <1>1, Behead
<1>3. Target(x) \in Files /\ Target(x) = todo[x][1].file
  BY <1>2, RowFields DEF Target
<1>4. 1 \in 1..Len(todo[x])
  BY <1>2
<1>5. QED
  BY <1>2, <1>3, <1>4

\* Only agents write the inbox, and only into it.
LEMMA InboxWriters ==
  ASSUME TypeOK, WorkInv, NEW x \in Actors, todo[x] # <<>>
  PROVE  /\ Target(x) = "inbox" <=> x \in InboxItems
         /\ x \in InboxItems => x \in sent /\ todo[x] = <<[file |-> "inbox", item |-> x]>>
         /\ x \in Mail => x \in sent /\ todo[x] = <<[file |-> "messages", item |-> x]>>
<1>1. Target(x) = todo[x][1].file /\ 1 \in 1..Len(todo[x])
  BY FirstOp
<1>2. CASE x \in Runs \cup Threads
  BY <1>1, <1>2, Kinds DEF WorkInv
<1>3. CASE x \in InboxItems
  <2>1. x \in sent /\ todo[x] = <<[file |-> "inbox", item |-> x]>>
    BY <1>3 DEF WorkInv
  <2>2. todo[x][1].file = "inbox"
    BY <2>1
  <2>3. QED
    BY <1>1, <1>3, <2>1, <2>2, Kinds
<1>4. CASE x \in Mail
  <2>1. x \in sent /\ todo[x] = <<[file |-> "messages", item |-> x]>>
    BY <1>4 DEF WorkInv
  <2>2. todo[x][1].file = "messages"
    BY <2>1
  <2>3. QED
    BY <1>1, <1>4, <2>1, <2>2, Kinds
<1>5. QED
  BY <1>2, <1>3, <1>4, Kinds

LEMMA WorkFrame ==
  ASSUME WorkInv, sent \subseteq sent', stamped \subseteq stamped', crossed \subseteq crossed',
         \A x \in Actors : \/ todo'[x] = todo[x] /\ phase'[x] = phase[x]
                           \/ todo'[x] = <<>> /\ phase'[x] = "idle"
  PROVE  WorkInv'
<1>1. \A x \in Actors : phase'[x] = "write" => todo'[x] # <<>>
  BY DEF WorkInv
<1>2. \A x \in InboxItems :
        todo'[x] = <<>> \/ (x \in sent' /\ todo'[x] = <<[file |-> "inbox", item |-> x]>>)
  BY Kinds DEF WorkInv
<1>3. \A x \in Mail :
        /\ todo'[x] = <<>> \/ (x \in sent' /\ todo'[x] = <<[file |-> "messages", item |-> x]>>)
        /\ phase'[x] = "write" => x \in stamped'
  BY Kinds DEF WorkInv
<1>4. ASSUME NEW x \in Runs \cup Threads, NEW k \in 1..Len(todo'[x])
      PROVE  /\ todo'[x][k].file # "inbox"
             /\ todo'[x][k].item \in Mail => todo'[x][k].item \in stamped'
             /\ todo'[x][k].item = Reset => todo'[x][k].file = "messages" /\ "messages" \in crossed'
  <2>1. x \in Actors /\ ~(1..Len(<<>>) # {})
    BY Kinds
  <2>2. todo'[x] = todo[x]
    BY <1>4, <2>1
  <2>3. QED
    BY <1>4, <2>2 DEF WorkInv
<1>5. QED
  BY <1>1, <1>2, <1>3, <1>4 DEF WorkInv, Actors, Threads

LEMMA ForwardFacts ==
  ASSUME NEW x \in Runs \cup Threads, NEW i \in Items
  PROVE  /\ Forwards(x, i) \in Seq(Ops)
         /\ \A k \in 1..Len(Forwards(x, i)) :
              Forwards(x, i)[k].file # "inbox" /\ Forwards(x, i)[k].item = i
<1> DEFINE out == [file |-> "outbox", item |-> i]  mes == [file |-> "messages", item |-> i]
<1>1. out \in Ops /\ mes \in Ops /\ out.file # "inbox" /\ mes.file # "inbox"
      /\ out.item = i /\ mes.item = i
  BY DEF Ops, Files
<1> HIDE DEF out, mes
<1>2. CASE x \in Runs
  <2>1. Forwards(x, i) = <<out, mes>>
    BY <1>2, Kinds DEF Forwards, out, mes
  <2>2. QED
    BY <1>1, <2>1
<1>3. CASE x \in Threads
  <2>1. Forwards(x, i) = <<out>> \/ Forwards(x, i) = <<mes>>
    <3>1. x \notin Runs
      BY <1>3, Kinds
    <3>2. Forwards(x, i) = <<[file |-> IF x[1] = "bridge" THEN "outbox" ELSE "messages",
                              item |-> i]>>
      BY <1>3, <3>1 DEF Forwards
    <3>3. CASE x[1] = "bridge"
      BY <3>2, <3>3 DEF out
    <3>4. CASE x[1] # "bridge"
      BY <3>2, <3>4 DEF mes
    <3>5. QED
      BY <3>3, <3>4
  <2>2. CASE Forwards(x, i) = <<out>>
    BY <1>1, <2>2
  <2>3. CASE Forwards(x, i) = <<mes>>
    BY <1>1, <2>3
  <2>4. QED
    BY <2>1, <2>2, <2>3
<1>4. QED
  BY <1>2, <1>3

LEMMA PublishFacts ==
  ASSUME TypeOK, WorkInv, NEW r \in Runs, NEW i \in Items, Publish(r, i),
         i \in Mail => i \in stamped,
         UNCHANGED <<phase, stamped, crossed>>, sent \subseteq sent'
  PROVE  /\ published' \in [Items -> Nat] /\ published'[i] = published[i] + 1
         /\ \A j \in Items \ {i} : published'[j] = published[j]
         /\ Later /\ WorkInv' /\ todo' \in [Actors -> Seq(Ops)]
         /\ \A x \in Actors, f \in Files : Writing(x, f)' => Writing(x, f)
         /\ \A x \in InboxItems : todo'[x] = todo[x]
<1>1. published \in [Items -> Nat] /\ todo \in [Actors -> Seq(Ops)]
  BY RelayTypes
<1>2. /\ published' = [published EXCEPT ![i] = @ + 1]
      /\ todo' = [x \in Actors |->
           IF i \in Relayed \cup Runs /\ (x = r \/ (redis /\ x \in Threads /\ Up(x[2])))
           THEN todo[x] \o Forwards(x, i) ELSE todo[x]]
  BY DEF Publish
<1>3. /\ published' \in [Items -> Nat] /\ published'[i] = published[i] + 1
      /\ \A j \in Items \ {i} : published'[j] = published[j]
  BY <1>1, <1>2
<1>4. Later
  <2>1. ASSUME NEW j \in Items, published[j] > 0 PROVE published'[j] > 0
    BY <1>1, <1>3, <2>1
  <2>2. QED
    BY <2>1 DEF Later
<1>5. \A x \in Actors : \/ todo'[x] = todo[x]
                        \/ x \in Runs \cup Threads /\ todo'[x] = todo[x] \o Forwards(x, i)
  BY <1>2, Kinds
<1>6. ASSUME NEW x \in Actors, x \in Runs \cup Threads, todo'[x] = todo[x] \o Forwards(x, i)
      PROVE  /\ todo'[x] \in Seq(Ops) /\ Len(todo[x]) \in Nat /\ Len(todo'[x]) \in Nat
             /\ Len(todo'[x]) >= Len(todo[x])
             /\ \A k \in 1..Len(todo'[x]) :
                  \/ k \in 1..Len(todo[x]) /\ todo'[x][k] = todo[x][k]
                  \/ ~(k <= Len(todo[x])) /\ todo'[x][k].file # "inbox" /\ todo'[x][k].item = i
  <2> DEFINE more == Forwards(x, i)
  <2>1. /\ more \in Seq(Ops)
        /\ \A k \in 1..Len(more) : more[k].file # "inbox" /\ more[k].item = i
    BY <1>6, ForwardFacts
  <2>2. todo[x] \in Seq(Ops) /\ todo'[x] = todo[x] \o more
    BY <1>1, <1>6
  <2> HIDE DEF more
  <2>3. /\ todo'[x] \in Seq(Ops) /\ Len(todo'[x]) = Len(todo[x]) + Len(more)
        /\ \A k \in 1..(Len(todo[x]) + Len(more)) :
             todo'[x][k] = IF k <= Len(todo[x]) THEN todo[x][k] ELSE more[k - Len(todo[x])]
    BY <2>1, <2>2, Joined
  <2>4. Len(todo[x]) \in Nat /\ Len(more) \in Nat
    BY <2>1, <2>2
  <2>5. ASSUME NEW k \in 1..Len(todo'[x])
        PROVE  \/ k \in 1..Len(todo[x]) /\ todo'[x][k] = todo[x][k]
               \/ ~(k <= Len(todo[x])) /\ todo'[x][k].file # "inbox" /\ todo'[x][k].item = i
    <3>1. CASE k <= Len(todo[x])
      BY <2>3, <2>4, <3>1
    <3>2. CASE ~(k <= Len(todo[x]))
      <4>1. k - Len(todo[x]) \in 1..Len(more) /\ todo'[x][k] = more[k - Len(todo[x])]
        BY <2>3, <2>4, <3>2
      <4>2. QED
        BY <2>1, <3>2, <4>1
    <3>3. QED
      BY <3>1, <3>2
  <2>6. QED
    BY <2>3, <2>4, <2>5
<1>7. todo' \in [Actors -> Seq(Ops)]
  <2>1. \A x \in Actors : todo'[x] \in Seq(Ops)
    BY <1>1, <1>5, <1>6
  <2>2. todo' = [x \in Actors |-> todo'[x]]
    BY <1>2
  <2>3. QED
    BY <2>1, <2>2
<1>8. ASSUME NEW x \in Actors, todo[x] # <<>>
      PROVE  todo'[x] # <<>> /\ Target(x)' = Target(x)
  <2>1. CASE todo'[x] = todo[x]
    BY <1>8, <2>1 DEF Target
  <2>2. CASE x \in Runs \cup Threads /\ todo'[x] = todo[x] \o Forwards(x, i)
    <3>1. 1 \in 1..Len(todo[x])
      BY <1>8, FirstOp
    <3>2. 1 \in 1..Len(todo'[x])
      BY <1>6, <2>2, <3>1
    <3>3. todo'[x][1] = todo[x][1]
      BY <1>6, <2>2, <3>1, <3>2
    <3>4. todo'[x] # <<>> /\ Head(todo'[x]) = todo'[x][1]
      BY <1>7, <3>2
    <3>5. Head(todo[x]) = todo[x][1]
      BY <1>8, FirstOp
    <3>6. QED
      BY <3>3, <3>4, <3>5 DEF Target
  <2>3. QED
    BY <1>5, <2>1, <2>2
<1>9. \A x \in Actors, f \in Files : Writing(x, f)' => Writing(x, f)
  BY <1>8 DEF Writing, WorkInv
<1>10. \A x \in InboxItems \cup Mail : todo'[x] = todo[x]
  BY <1>5, Kinds
<1>11. WorkInv'
  <2>1. \A x \in Actors : phase'[x] = "write" => todo'[x] # <<>>
    BY <1>8 DEF WorkInv
  <2>2. \A x \in InboxItems :
          todo'[x] = <<>> \/ (x \in sent' /\ todo'[x] = <<[file |-> "inbox", item |-> x]>>)
    BY <1>10 DEF WorkInv
  <2>3. \A x \in Mail :
          /\ todo'[x] = <<>> \/ (x \in sent' /\ todo'[x] = <<[file |-> "messages", item |-> x]>>)
          /\ phase'[x] = "write" => x \in stamped'
    BY <1>10 DEF WorkInv
  <2>4. ASSUME NEW x \in Runs \cup Threads, NEW k \in 1..Len(todo'[x])
        PROVE  /\ todo'[x][k].file # "inbox"
               /\ todo'[x][k].item \in Mail => todo'[x][k].item \in stamped'
               /\ todo'[x][k].item = Reset =>
                    todo'[x][k].file = "messages" /\ "messages" \in crossed'
    <3>1. CASE todo'[x] = todo[x]
      BY <2>4, <3>1 DEF WorkInv
    <3>2. CASE todo'[x] = todo[x] \o Forwards(x, i)
      <4>1. x \in Actors
        BY Kinds
      <4>2. CASE k \in 1..Len(todo[x]) /\ todo'[x][k] = todo[x][k]
        BY <2>4, <4>2 DEF WorkInv
      <4>3. CASE todo'[x][k].file # "inbox" /\ todo'[x][k].item = i
        BY <4>3, Kinds
      <4>4. QED
        BY <1>6, <2>4, <3>2, <4>1, <4>2, <4>3
    <3>3. QED
      BY <1>5, <3>1, <3>2, Kinds
  <2>5. QED
    BY <2>1, <2>2, <2>3, <2>4 DEF WorkInv, Actors, Threads
<1>12. QED
  BY <1>3, <1>4, <1>7, <1>9, <1>10, <1>11

\* A process ends: its threads have nothing to do any more, and a file that they leave
\* broken is a crossed one.
LEMMA EndFacts ==
  ASSUME TypeOK, WorkInv, NEW gone, NEW open \in SUBSET Files, End(gone, open),
         sent' = sent, stamped' = stamped
  PROVE  /\ todo' \in [Actors -> Seq(Ops)] /\ phase' \in [Actors -> {"idle", "write"}]
         /\ copy' \in [Actors -> Seq(RowSet)] /\ file' \in [Files -> Seq(RowSet) \cup {Broken}]
         /\ appended' \in [Files -> Seq(Items)] /\ crossed \subseteq crossed'
         /\ crossed' \subseteq Files /\ WorkInv'
         /\ \A f \in Files : file'[f] = file[f] \/ file'[f] = Broken
         /\ \A x \in Actors : copy'[x] = copy[x] \/ copy'[x] = <<>>
         /\ \A x \in Actors : todo'[x] = todo[x] \/ todo'[x] = <<>>
         /\ \A f \in Files \ crossed' :
              /\ file'[f] = file[f] /\ appended'[f] = appended[f]
              /\ \A y \in Actors : Writing(y, f)' => Writing(y, f) /\ copy'[y] = copy[y]
<1>1. /\ todo' = [x \in Actors |-> IF x \in gone THEN <<>> ELSE todo[x]]
      /\ phase' = [x \in Actors |-> IF x \in gone THEN "idle" ELSE phase[x]]
      /\ copy' = [x \in Actors |-> IF x \in gone THEN <<>> ELSE copy[x]]
  BY DEF End
<1>2. PICK broken \in SUBSET open :
        /\ file' = [f \in Files |-> IF f \in broken THEN Broken ELSE file[f]]
        /\ Cross(broken)
  BY DEF End
<1>3. /\ todo \in [Actors -> Seq(Ops)] /\ phase \in [Actors -> {"idle", "write"}]
      /\ copy \in [Actors -> Seq(RowSet)] /\ file \in [Files -> Seq(RowSet) \cup {Broken}]
      /\ \A S : <<>> \in Seq(S)
  BY RelayTypes
<1>4. /\ todo' \in [Actors -> Seq(Ops)] /\ phase' \in [Actors -> {"idle", "write"}]
      /\ copy' \in [Actors -> Seq(RowSet)]
  BY <1>1, <1>3
<1>5. file' \in [Files -> Seq(RowSet) \cup {Broken}]
  BY <1>2, <1>3
<1>6. broken \in SUBSET Files
  BY <1>2
<1>7. /\ appended' \in [Files -> Seq(Items)] /\ crossed \subseteq crossed' /\ crossed' \subseteq Files
      /\ \A f \in Files : f \notin crossed' => f \notin crossed /\ f \notin broken
                                               /\ appended'[f] = appended[f]
  BY <1>2, <1>6, CrossFacts
<1>8. \A x \in Actors : \/ todo'[x] = todo[x] /\ phase'[x] = phase[x] /\ copy'[x] = copy[x]
                        \/ todo'[x] = <<>> /\ phase'[x] = "idle" /\ copy'[x] = <<>>
  BY <1>1
<1>9. WorkInv'
  BY <1>7, <1>8, WorkFrame
<1>10. \A y \in Actors, f \in Files : Writing(y, f)' => Writing(y, f) /\ copy'[y] = copy[y]
  BY <1>8 DEF Writing, Target
<1>11. \A f \in Files \ crossed' : file'[f] = file[f] /\ appended'[f] = appended[f]
  BY <1>2, <1>7
<1>12. \A f \in Files : file'[f] = file[f] \/ file'[f] = Broken
  BY <1>2
<1>13. QED
  BY <1>4, <1>5, <1>7, <1>8, <1>9, <1>10, <1>11, <1>12

-----------------------------------------------------------------------------
(* The steps of an actor that changes a file.                              *)

\* Who else is in the middle of a change.
LEMMA NotBusy ==
  ASSUME NEW f \in Files, NEW x, ~Busy(f, x)
  PROVE  /\ \A y \in Actors : Writing(y, f) => y = x
         /\ f = "inbox" => \A r \in Runs : pc[r] = "inbox" => r = x
<1>1. ASSUME NEW y \in Actors, Writing(y, f), y # x PROVE FALSE
  <2>1. phase[y] # "idle" /\ Target(y) = f
    BY <1>1 DEF Writing
  <2>2. QED
    BY <1>1, <2>1 DEF Busy
<1>2. QED
  BY <1>1 DEF Busy

LEMMA ReadFileStep ==
  ASSUME RelayIInv, NEW x \in Actors, ReadFile(x) PROVE RelayIInv'
<1> DEFINE f0 == Target(x)
           S == IF Busy(f0, x) THEN {f0} ELSE {}
<1>1. /\ todo[x] # <<>> /\ phase[x] = "idle" /\ phase' = [phase EXCEPT ![x] = "write"]
      /\ stamped' = (IF x \in Mail THEN stamped \cup {x} ELSE stamped) /\ Cross(S)
      /\ UNCHANGED <<redis, file, todo, pc, batch, flags, last_check, sent, kills, published,
                     repeated, in_time>>
  BY DEF ReadFile
<1>2. PICK rows \in Found(f0, x) : copy' = [copy EXCEPT ![x] = rows]
  BY DEF ReadFile
<1>3. TypeOK /\ WorkInv /\ RowsInv /\ AloneInv /\ InboxInv
  BY DEF RelayIInv
<1>4. f0 \in Files /\ S \in SUBSET Files
  BY <1>1, <1>3, FirstOp
<1>5. (f0 = "inbox" <=> x \in InboxItems) /\ (x \in InboxItems => x \in sent)
  BY <1>1, <1>3, InboxWriters
<1> HIDE DEF f0
<1>6. /\ crossed' = crossed \cup S /\ crossed \subseteq crossed' /\ crossed' \subseteq Files
      /\ appended' \in [Files -> Seq(Items)]
      /\ \A f \in Files : f \notin crossed' => f \notin crossed /\ f \notin S
                                               /\ appended'[f] = appended[f]
  BY <1>1, <1>3, <1>4, CrossFacts
<1>7. rows = <<>> \/ (file[f0] # Broken /\ rows = file[f0])
  BY <1>2 DEF Found, Content
<1>8. rows \in Seq(RowSet) /\ (~Busy(f0, x) /\ file[f0] # Broken => rows = file[f0])
  <2>1. rows \in Seq(RowSet)
    <3>1. file[f0] \in Seq(RowSet) \cup {Broken} /\ <<>> \in Seq(RowSet)
      BY <1>3, <1>4, RelayTypes
    <3>2. QED
      BY <1>7, <3>1
  <2>2. ~Busy(f0, x) /\ file[f0] # Broken => rows = file[f0]
    BY <1>2 DEF Found, Content
  <2>3. QED
    BY <2>1, <2>2
<1>9. Honest(rows) /\ (x \in InboxItems => OfInbox(rows))
  BY <1>3, <1>4, <1>5, <1>7, NoRows DEF RowsInv
<1>10. copy' \in [Actors -> Seq(RowSet)] /\ copy'[x] = rows
       /\ \A y \in Actors \ {x} : copy'[y] = copy[y]
  <2>1. copy \in [Actors -> Seq(RowSet)]
    BY <1>3, RelayTypes
  <2>2. QED
    BY <1>2, <1>8, <2>1
<1>11. phase' \in [Actors -> {"idle", "write"}] /\ phase'[x] = "write"
       /\ \A y \in Actors \ {x} : phase'[y] = phase[y]
  <2>1. phase \in [Actors -> {"idle", "write"}]
    BY <1>3, RelayTypes
  <2>2. QED
    BY <1>1, <2>1
<1>12. Later /\ stamped' \subseteq Mail
  BY <1>1, <1>3, RelayTypes DEF Later
<1>13. TypeOK'
  <2>1. copy' \in [Actors -> Rows]
    BY <1>10 DEF Rows, RowSet
  <2>2. QED
    BY <1>1, <1>3, <1>6, <1>11, <1>12, <2>1 DEF TypeOK, Actors, Threads
<1>14. WorkInv'
  <2>1. \A y \in Actors : phase'[y] = "write" => todo[y] # <<>>
    BY <1>1, <1>3, <1>11 DEF WorkInv
  <2>2. ASSUME NEW y \in Mail, phase'[y] = "write" PROVE y \in stamped'
    <3>1. CASE y = x
      BY <1>1, <3>1
    <3>2. CASE y # x
      <4>1. y \in Actors /\ phase[y] = "write"
        BY <1>11, <2>2, <3>2, Kinds
      <4>2. QED
        BY <1>12, <1>3, <4>1 DEF WorkInv, Later
    <3>3. QED
      BY <3>1, <3>2
  <2>3. stamped \subseteq stamped'
    BY <1>12 DEF Later
  <2>4. QED
    BY <1>1, <1>3, <1>6, <2>1, <2>2, <2>3 DEF WorkInv, Actors, Threads
<1>15. RowsInv'
  <2>1. ASSUME NEW f \in Files, file[f] # Broken PROVE Honest(file[f])'
    <3>1. file[f] \in Seq(RowSet) /\ Honest(file[f])
      BY <1>3, <2>1, RelayTypes DEF RowsInv
    <3>2. QED
      BY <1>1, <1>12, <3>1, HonestLater DEF Honest
  <2>2. ASSUME NEW y \in Actors PROVE Honest(copy[y])'
    <3>1. copy'[y] \in Seq(RowSet) /\ Honest(copy'[y])
      BY <1>3, <1>9, <1>10 DEF RowsInv
    <3>2. QED
      BY <1>12, <3>1, HonestLater DEF Honest
  <2>3. ASSUME NEW r \in Runs PROVE Honest(flags[r])'
    <3>1. flags[r] \in Seq(RowSet) /\ Honest(flags[r])
      BY <1>3, <2>3, RelayTypes DEF RowsInv
    <3>2. QED
      BY <1>1, <1>12, <3>1, HonestLater DEF Honest
  <2>4. \A y \in InboxItems : OfInbox(copy'[y])
    BY <1>3, <1>9, <1>10, Kinds DEF RowsInv
  <2>5. \A r \in Runs : OfInbox(flags'[r])
    BY <1>1, <1>3 DEF RowsInv
  <2>6. file'["inbox"] # Broken => OfInbox(file'["inbox"])
    BY <1>1, <1>3 DEF RowsInv
  <2>7. QED
    BY <1>1, <2>1, <2>2, <2>3, <2>4, <2>5, <2>6 DEF RowsInv, Actors, Threads, OfInbox, Files
<1>16. \A y \in Actors, f \in Files : Writing(y, f)' => Writing(y, f) \/ (y = x /\ f = f0)
  BY <1>1, <1>11 DEF Writing, Target, f0
<1>17. ~Writing(x, f0)
  BY <1>1 DEF Writing
<1>18. AloneInv'
  <2> SUFFICES ASSUME NEW f \in Files, f \notin crossed'
               PROVE  /\ file'[f] # Broken /\ SameItems(file'[f], appended'[f])
                      /\ \A y \in Actors : Writing(y, f)' => copy'[y] = file'[f]
                      /\ \A y, z \in Actors : Writing(y, f)' /\ Writing(z, f)' => y = z
    BY DEF AloneInv, SameItems, Actors, Threads, Files
  <2>1. f \in Files \ crossed /\ f \notin S /\ appended'[f] = appended[f] /\ file'[f] = file[f]
    BY <1>1, <1>6
  <2>2. /\ file[f] # Broken /\ SameItems(file[f], appended[f])
        /\ \A y \in Actors : Writing(y, f) => copy[y] = file[f]
        /\ \A y, z \in Actors : Writing(y, f) /\ Writing(z, f) => y = z
    BY <1>3, <2>1 DEF AloneInv
  <2>3. CASE f # f0
    <3>1. \A y \in Actors : Writing(y, f)' => Writing(y, f)
      BY <1>16, <2>3
    <3>2. \A y \in Actors : Writing(y, f) => y # x
      BY <1>1 DEF Writing
    <3>3. QED
      BY <1>10, <2>1, <2>2, <3>1, <3>2
  <2>4. CASE f = f0
    <3>1. ~Busy(f0, x)
      BY <2>1, <2>4
    <3>2. \A y \in Actors : Writing(y, f0) => y = x
      BY <1>4, <3>1, NotBusy
    <3>3. \A y \in Actors : Writing(y, f)' => y = x
      BY <1>16, <2>4, <3>2
    <3>4. copy'[x] = file[f]
      BY <1>8, <1>10, <2>2, <2>4, <3>1
    <3>5. QED
      BY <2>1, <2>2, <3>3, <3>4
  <2>5. QED
    BY <2>3, <2>4
<1>19. InboxInv'
  <2> SUFFICES ASSUME "inbox" \notin crossed'
               PROVE  /\ \A r \in Runs : pc[r] = "inbox" =>
                           /\ SameItems(flags[r], appended'["inbox"])
                           /\ \A y \in Actors : ~Writing(y, "inbox")'
                           /\ \A q \in Runs : pc[q] = "inbox" => q = r
                      /\ IsInjective(appended'["inbox"])
                      /\ \A y \in InboxItems :
                           /\ y \notin sent \/ todo[y] # <<>> => y \notin ToSet(appended'["inbox"])
                           /\ published[y] > 0 => y \in ToSet(appended'["inbox"])
    BY <1>1 DEF InboxInv, SameItems, Actors, Threads, ToSet, IsInjective
  <2>1. "inbox" \in Files /\ "inbox" \notin crossed /\ "inbox" \notin S
        /\ appended'["inbox"] = appended["inbox"]
    BY <1>6 DEF Files
  <2>2. ASSUME NEW r \in Runs, pc[r] = "inbox", NEW y \in Actors, Writing(y, "inbox")'
        PROVE  FALSE
    <3>1. CASE Writing(y, "inbox")
      BY <1>3, <2>1, <2>2, <3>1 DEF InboxInv
    <3>2. CASE y = x /\ f0 = "inbox"
      <4>1. r = x
        BY <2>1, <2>2, <3>2, NotBusy
      <4>2. QED
        BY <1>5, <3>2, <4>1, Kinds
    <3>3. QED
      BY <1>16, <2>1, <2>2, <3>1, <3>2
  <2>3. QED
    BY <1>3, <2>1, <2>2 DEF InboxInv
<1>20. BatchInv' /\ LearnInv' /\ MailOnceInv' /\ InboxOnceInv'
  <2>1. BatchInv'
    BY <1>1, <1>12, BatchFrame DEF RelayIInv
  <2>2. LearnInv'
    BY <1>1, LearnFrame DEF RelayIInv
  <2>3. MailOnceInv'
    <3>1. \A r \in Runs : Up(r)' => Up(r)
      BY <1>1 DEF Up
    <3>2. QED
      BY <1>1, <3>1, MailOnceFrame DEF RelayIInv
  <2>4. InboxOnceInv'
    BY <1>1, <1>6, InboxOnceFrame DEF RelayIInv
  <2>5. QED
    BY <2>1, <2>2, <2>3, <2>4
<1>21. QED
  BY <1>13, <1>14, <1>15, <1>18, <1>19, <1>20 DEF RelayIInv

LEMMA InSet ==
  ASSUME NEW S, NEW s \in Seq(S)
  PROVE  \A y : y \in ToSet(s) <=> \E k \in 1..Len(s) : s[k] = y
  BY DEF ToSet

\* One more element, which was not there.
LEMMA OneMore ==
  ASSUME NEW S, NEW s \in Seq(S), NEW x \in S, NEW t, t = Append(s, x)
  PROVE  /\ ToSet(t) = ToSet(s) \cup {x}
         /\ IsInjective(s) /\ x \notin ToSet(s) => IsInjective(t)
<1>1. /\ t \in Seq(S) /\ Len(t) = Len(s) + 1 /\ t[Len(s) + 1] = x /\ Len(s) \in Nat
      /\ \A i \in 1..Len(s) : t[i] = s[i]
  BY Appended
<1>2. \A k \in 1..Len(t) : k \in 1..Len(s) \/ k = Len(s) + 1
  BY <1>1
<1>3. \A k \in 1..Len(s) : k \in 1..Len(t)
  BY <1>1
<1>4. Len(s) + 1 \in 1..Len(t)
  BY <1>1
<1>5. ToSet(t) = ToSet(s) \cup {x}
  <2>1. \A y : y \in ToSet(t) <=> \E k \in 1..Len(t) : t[k] = y
    BY <1>1, InSet
  <2>2. \A y : y \in ToSet(s) <=> \E k \in 1..Len(s) : s[k] = y
    BY InSet
  <2>3. ASSUME NEW y, y \in ToSet(t) PROVE y \in ToSet(s) \/ y = x
    <3>1. PICK k \in 1..Len(t) : t[k] = y
      BY <2>1, <2>3
    <3>2. CASE k \in 1..Len(s)
      BY <1>1, <2>2, <3>1, <3>2
    <3>3. CASE k = Len(s) + 1
      BY <1>1, <3>1, <3>3
    <3>4. QED
      BY <1>2, <3>2, <3>3
  <2>4. ASSUME NEW y, y \in ToSet(s) PROVE y \in ToSet(t)
    <3>1. PICK k \in 1..Len(s) : s[k] = y
      BY <2>2, <2>4
    <3>2. t[k] = y /\ k \in 1..Len(t)
      BY <1>1, <1>3, <3>1
    <3>3. QED
      BY <2>1, <3>2
  <2>5. x \in ToSet(t)
    BY <1>1, <1>4, <2>1
  <2>6. QED
    BY <2>3, <2>4, <2>5
<1>6. ASSUME IsInjective(s), x \notin ToSet(s) PROVE IsInjective(t)
  <2>1. DOMAIN s = 1..Len(s) /\ DOMAIN t = 1..Len(t)
    BY <1>1
  <2>2. \A k \in 1..Len(s) : s[k] # x
    BY <1>6, InSet
  <2>3. ASSUME NEW j \in 1..Len(t), NEW k \in 1..Len(t), t[j] = t[k] PROVE j = k
    <3>1. CASE j \in 1..Len(s) /\ k \in 1..Len(s)
      BY <1>1, <1>6, <2>1, <2>3, <3>1 DEF IsInjective
    <3>2. CASE j = Len(s) + 1 /\ k = Len(s) + 1
      BY <3>2
    <3>3. CASE j \in 1..Len(s) /\ k = Len(s) + 1
      BY <1>1, <2>2, <2>3, <3>3
    <3>4. CASE j = Len(s) + 1 /\ k \in 1..Len(s)
      BY <1>1, <2>2, <2>3, <3>4
    <3>5. QED
      BY <1>2, <3>1, <3>2, <3>3, <3>4
  <2>4. QED
    BY <2>1, <2>3 DEF IsInjective
<1>7. QED
  BY <1>5, <1>6

LEMMA WriteFileStep ==
  ASSUME RelayIInv, NEW x \in Actors, WriteFile(x) PROVE RelayIInv'
<1> DEFINE op == Head(todo[x])
           f0 == op.file
           i0 == op.item
           new == WithAppended(copy[x], i0)
<1>1. /\ phase[x] = "write" /\ phase' = [phase EXCEPT ![x] = "idle"]
      /\ todo' = [todo EXCEPT ![x] = Tail(@)] /\ copy' = [copy EXCEPT ![x] = <<>>]
      /\ appended' = [appended EXCEPT ![f0] = IF f0 \in crossed THEN @ ELSE Append(@, i0)]
      /\ UNCHANGED <<redis, pc, batch, flags, last_check, sent, stamped, kills, published,
                     crossed, repeated, in_time>>
  BY DEF WriteFile
<1>2. PICK content \in Written(f0, x, new) : file' = [file EXCEPT ![f0] = content]
  BY DEF WriteFile
<1>3. TypeOK /\ WorkInv /\ RowsInv /\ AloneInv /\ InboxInv
  BY DEF RelayIInv
<1>4. todo[x] # <<>>
  BY <1>1, <1>3 DEF WorkInv
<1>5. /\ op \in Ops /\ op = todo[x][1] /\ 1 \in 1..Len(todo[x]) /\ f0 \in Files /\ f0 = Target(x)
      /\ Tail(todo[x]) \in Seq(Ops) /\ Len(Tail(todo[x])) = Len(todo[x]) - 1
      /\ Len(todo[x]) \in Nat
      /\ \A i \in 1..(Len(todo[x]) - 1) : Tail(todo[x])[i] = todo[x][i + 1]
  BY <1>3, <1>4, FirstOp, RowFields DEF Target
<1>6. /\ f0 = "inbox" <=> x \in InboxItems
      /\ x \in InboxItems => x \in sent /\ i0 = x /\ todo[x] = <<[file |-> "inbox", item |-> x]>>
      /\ x \in Mail => i0 = x /\ todo[x] = <<[file |-> "messages", item |-> x]>>
  <2>1. /\ Target(x) = "inbox" <=> x \in InboxItems
        /\ x \in InboxItems => x \in sent /\ todo[x] = <<[file |-> "inbox", item |-> x]>>
        /\ x \in Mail => todo[x] = <<[file |-> "messages", item |-> x]>>
    BY <1>3, <1>4, InboxWriters
  <2>2. \A e : todo[x] = <<e>> => op = e
    BY <1>5
  <2>3. (x \in InboxItems => i0 = x) /\ (x \in Mail => i0 = x)
    BY <2>1, <2>2
  <2>4. QED
    BY <1>5, <2>1, <2>3
<1>7. i0 \in Items \/ i0 = Reset
  BY <1>5, RowFields
<1>8. i0 = Reset => f0 = "messages" /\ "messages" \in crossed
  BY <1>3, <1>5, <1>6, Kinds DEF WorkInv
<1>9. i0 \in Mail => i0 \in stamped
  <2>1. CASE x \in Mail
    BY <1>1, <1>3, <1>6, <2>1 DEF WorkInv
  <2>2. CASE x \in InboxItems
    BY <1>6, <2>2, Kinds
  <2>3. CASE x \in Runs \cup Threads
    BY <1>3, <1>5, <2>3 DEF WorkInv
  <2>4. QED
    BY <2>1, <2>2, <2>3, Kinds
<1> HIDE DEF op
<1>10. copy[x] \in Seq(RowSet) /\ Honest(copy[x]) /\ (x \in InboxItems => OfInbox(copy[x]))
  BY <1>3, RelayTypes DEF RowsInv
<1>11. /\ new \in Seq(RowSet) /\ Honest(new) /\ (x \in InboxItems => OfInbox(new))
       /\ i0 # Reset => /\ Len(new) = Len(copy[x]) + 1
                        /\ new[Len(copy[x]) + 1].item = i0 /\ new[Len(copy[x]) + 1].processed = FALSE
                        /\ \A k \in 1..Len(copy[x]) : new[k] = copy[x][k]
  <2>1. CASE i0 = Reset
    <3>1. new = <<>>
      BY <2>1 DEF WithAppended
    <3>2. QED
      BY <2>1, <3>1, NoRows
  <2>2. CASE i0 # Reset
    <3> DEFINE row == Row(i0)
    <3>1. row \in RowSet /\ row.item = i0 /\ row.processed = FALSE
      BY <1>7, <2>2, RowFields
    <3>2. new = Append(copy[x], row)
      BY <2>2 DEF WithAppended
    <3> HIDE DEF row, new, i0
    <3>3. /\ new \in Seq(RowSet) /\ Len(new) = Len(copy[x]) + 1 /\ new[Len(copy[x]) + 1] = row
          /\ \A k \in 1..Len(copy[x]) : new[k] = copy[x][k]
      BY <1>10, <3>1, <3>2, Appended
    <3>4. Len(copy[x]) \in Nat
      BY <1>10
    <3>5. \A k \in 1..Len(new) : k \in 1..Len(copy[x]) \/ k = Len(copy[x]) + 1
      BY <3>3, <3>4
    <3>6. ASSUME NEW k \in 1..Len(new)
          PROVE  /\ new[k].item \in Mail => new[k].item \in stamped
                 /\ new[k].processed => published[new[k].item] > 0
                 /\ x \in InboxItems => new[k].item \in InboxItems
      <4>1. CASE k \in 1..Len(copy[x])
        BY <1>10, <3>3, <4>1 DEF Honest, OfInbox
      <4>2. CASE k = Len(copy[x]) + 1
        BY <1>6, <1>9, <3>1, <3>3, <4>2
      <4>3. QED
        BY <3>5, <4>1, <4>2
    <3>7. Honest(new) /\ (x \in InboxItems => OfInbox(new))
      BY <3>6 DEF Honest, OfInbox
    <3>8. QED
      BY <3>1, <3>3, <3>7
  <2>3. QED
    BY <2>1, <2>2
<1>12. (content = new \/ content = Broken) /\ (~Busy(f0, x) => content = new)
  BY <1>2 DEF Written
<1> HIDE DEF new, f0, i0
<1>13. /\ file \in [Files -> Seq(RowSet) \cup {Broken}] /\ todo \in [Actors -> Seq(Ops)]
       /\ phase \in [Actors -> {"idle", "write"}] /\ copy \in [Actors -> Seq(RowSet)]
       /\ appended \in [Files -> Seq(Items)]
  BY <1>3, RelayTypes
<1>14. /\ file' \in [Files -> Seq(RowSet) \cup {Broken}] /\ file'[f0] = content
       /\ \A f \in Files \ {f0} : file'[f] = file[f]
  BY <1>2, <1>5, <1>11, <1>12, <1>13
<1>15. /\ phase' \in [Actors -> {"idle", "write"}] /\ phase'[x] = "idle"
       /\ \A y \in Actors \ {x} : phase'[y] = phase[y]
  BY <1>1, <1>13
<1>16. /\ copy' \in [Actors -> Seq(RowSet)] /\ copy'[x] = <<>>
       /\ \A y \in Actors \ {x} : copy'[y] = copy[y]
  BY <1>1, <1>13, NoRows
<1>17. /\ todo' \in [Actors -> Seq(Ops)] /\ todo'[x] = Tail(todo[x])
       /\ \A y \in Actors \ {x} : todo'[y] = todo[y]
  BY <1>1, <1>5, <1>13
<1>18. /\ \A f \in Files \ {f0} : appended'[f] = appended[f]
       /\ f0 \in crossed => appended'[f0] = appended[f0]
       /\ f0 \notin crossed => appended'[f0] = Append(appended[f0], i0)
  BY <1>1, <1>5, <1>13
<1>19. appended' \in [Files -> Seq(Items)]
  <2> DEFINE longer == IF f0 \in crossed THEN appended[f0] ELSE Append(appended[f0], i0)
  <2>1. appended[f0] \in Seq(Items)
    BY <1>5, <1>13
  <2>2. f0 \notin crossed => i0 \in Items
    BY <1>7, <1>8
  <2>3. longer \in Seq(Items)
    <3>1. CASE f0 \in crossed
      BY <2>1, <3>1
    <3>2. CASE f0 \notin crossed
      <4>1. Append(appended[f0], i0) \in Seq(Items)
        BY <2>1, <2>2, <3>2, Appended
      <4>2. QED
        BY <3>2, <4>1
    <3>3. QED
      BY <3>1, <3>2
  <2>4. appended' = [appended EXCEPT ![f0] = longer]
    BY <1>1
  <2> HIDE DEF longer
  <2>5. QED
    BY <1>13, <2>3, <2>4
<1>20. TypeOK'
  BY <1>1, <1>3, <1>14, <1>15, <1>16, <1>17, <1>19
     DEF TypeOK, Actors, Threads, Rows, RowSet, Ops
<1>21. Later
  BY <1>1 DEF Later
<1>22. WorkInv'
  <2>1. \A y \in Actors : phase'[y] = "write" => todo'[y] # <<>>
    BY <1>3, <1>15, <1>17 DEF WorkInv
  <2>2. x \in InboxItems \cup Mail => todo'[x] = <<>>
    <3>1. \A e : Tail(<<e>>) = <<>>
      OBVIOUS
    <3>2. QED
      BY <1>6, <1>17, <3>1
  <2>3. \A y \in InboxItems :
          todo'[y] = <<>> \/ (y \in sent /\ todo'[y] = <<[file |-> "inbox", item |-> y]>>)
    BY <1>3, <1>17, <2>2, Kinds DEF WorkInv
  <2>4. \A y \in Mail :
          /\ todo'[y] = <<>> \/ (y \in sent /\ todo'[y] = <<[file |-> "messages", item |-> y]>>)
          /\ phase'[y] = "write" => y \in stamped
    BY <1>3, <1>15, <1>17, <2>2, Kinds DEF WorkInv
  <2>5. ASSUME NEW y \in Runs \cup Threads, NEW k \in 1..Len(todo'[y])
        PROVE  /\ todo'[y][k].file # "inbox"
               /\ todo'[y][k].item \in Mail => todo'[y][k].item \in stamped
               /\ todo'[y][k].item = Reset => todo'[y][k].file = "messages" /\ "messages" \in crossed
    <3>1. CASE y = x
      <4>1. k + 1 \in 1..Len(todo[x]) /\ todo'[x][k] = todo[x][k + 1]
        BY <1>5, <1>17, <2>5, <3>1
      <4>2. QED
        BY <1>3, <2>5, <3>1, <4>1 DEF WorkInv
    <3>2. CASE y # x
      <4>1. todo'[y] = todo[y]
        BY <1>17, <3>2, Kinds
      <4>2. QED
        BY <1>3, <2>5, <4>1 DEF WorkInv
    <3>3. QED
      BY <3>1, <3>2
  <2>6. QED
    BY <1>1, <2>1, <2>3, <2>4, <2>5 DEF WorkInv, Actors, Threads
<1>23. RowsInv'
  <2>1. ASSUME NEW f \in Files, file'[f] # Broken
        PROVE  Honest(file'[f]) /\ (f = "inbox" => OfInbox(file'[f]))
    <3>1. CASE f = f0
      BY <1>6, <1>11, <1>12, <1>14, <2>1, <3>1
    <3>2. CASE f # f0
      BY <1>3, <1>14, <2>1, <3>2 DEF RowsInv
    <3>3. QED
      BY <3>1, <3>2
  <2>2. \A y \in Actors : Honest(copy'[y]) /\ (y \in InboxItems => OfInbox(copy'[y]))
    BY <1>3, <1>16, NoRows, Kinds DEF RowsInv
  <2>3. "inbox" \in Files
    BY DEF Files
  <2>4. QED
    BY <1>1, <1>3, <2>1, <2>2, <2>3, Kinds DEF RowsInv, Actors, Threads, OfInbox, Honest, Files
<1>24. \A y \in Actors, f \in Files : Writing(y, f)' => Writing(y, f) /\ y # x /\ copy'[y] = copy[y]
  <2>1. ASSUME NEW y \in Actors, NEW f \in Files, Writing(y, f)'
        PROVE  Writing(y, f) /\ y # x /\ copy'[y] = copy[y]
    <3>1. y # x
      BY <1>15, <2>1 DEF Writing
    <3>2. QED
      BY <1>15, <1>16, <1>17, <2>1, <3>1 DEF Writing, Target
  <2>2. QED
    BY <2>1
<1>25. Writing(x, f0)
  BY <1>1, <1>5 DEF Writing
<1>26. ASSUME f0 \notin crossed
       PROVE  /\ copy[x] = file[f0] /\ file[f0] # Broken /\ i0 # Reset
              /\ \A y \in Actors : Writing(y, f0) => y = x
              /\ SameItems(file[f0], appended[f0]) /\ content = new
  <2>1. /\ file[f0] # Broken /\ SameItems(file[f0], appended[f0]) /\ copy[x] = file[f0]
        /\ \A y \in Actors : Writing(y, f0) => y = x
    BY <1>3, <1>5, <1>25, <1>26 DEF AloneInv
  <2>2. ~Busy(f0, x)
    <3>1. ASSUME NEW y \in Actors \ {x}, phase[y] # "idle", Target(y) = f0 PROVE FALSE
      <4>1. phase[y] = "write"
        BY <1>13, <3>1
      <4>2. QED
        BY <2>1, <3>1, <4>1 DEF Writing
    <3>2. ASSUME NEW r \in Runs, f0 = "inbox", pc[r] = "inbox" PROVE FALSE
      BY <1>3, <1>25, <1>26, <3>2 DEF InboxInv
    <3>3. QED
      BY <3>1, <3>2 DEF Busy
  <2>3. QED
    BY <1>8, <1>12, <1>26, <2>1, <2>2
<1>27. ASSUME f0 \notin crossed PROVE SameItems(file'[f0], appended'[f0])
  <2>1. /\ file'[f0] = new /\ appended'[f0] = Append(appended[f0], i0)
        /\ appended[f0] \in Seq(Items) /\ i0 \in Items
        /\ SameItems(copy[x], appended[f0])
    BY <1>5, <1>7, <1>13, <1>14, <1>18, <1>26, <1>27
  <2>2. /\ Len(appended'[f0]) = Len(appended[f0]) + 1 /\ appended'[f0][Len(appended[f0]) + 1] = i0
        /\ \A k \in 1..Len(appended[f0]) : appended'[f0][k] = appended[f0][k]
    BY <2>1, Appended
  <2>3. /\ Len(new) = Len(copy[x]) + 1 /\ new[Len(copy[x]) + 1].item = i0
        /\ \A k \in 1..Len(copy[x]) : new[k] = copy[x][k]
    BY <1>11, <1>26, <1>27
  <2>4. Len(copy[x]) = Len(appended[f0]) /\ Len(copy[x]) \in Nat
        /\ \A k \in 1..Len(copy[x]) : copy[x][k].item = appended[f0][k]
    BY <1>10, <2>1 DEF SameItems
  <2>5. ASSUME NEW k \in 1..Len(new) PROVE new[k].item = appended'[f0][k]
    <3>1. CASE k \in 1..Len(copy[x])
      BY <2>2, <2>3, <2>4, <3>1
    <3>2. CASE k = Len(copy[x]) + 1
      BY <2>2, <2>3, <2>4, <3>2
    <3>3. QED
      BY <2>3, <2>4, <3>1, <3>2
  <2>6. Len(new) = Len(appended'[f0])
    BY <2>2, <2>3, <2>4
  <2>7. QED
    BY <2>1, <2>5, <2>6 DEF SameItems
<1>28. AloneInv'
  <2> SUFFICES ASSUME NEW f \in Files, f \notin crossed
               PROVE  /\ file'[f] # Broken /\ SameItems(file'[f], appended'[f])
                      /\ \A y \in Actors : Writing(y, f)' => copy'[y] = file'[f]
                      /\ \A y, z \in Actors : Writing(y, f)' /\ Writing(z, f)' => y = z
    BY <1>1 DEF AloneInv, SameItems, Actors, Threads, Files
  <2>1. CASE f = f0
    <3>1. file'[f] # Broken
      <4>1. file'[f] = new
        BY <1>14, <1>26, <2>1
      <4>2. QED
        BY <1>3, <1>11, <4>1, RelayTypes
    <3>2. \A y \in Actors : ~Writing(y, f)'
      BY <1>24, <1>26, <2>1
    <3>3. QED
      BY <1>27, <2>1, <3>1, <3>2
  <2>2. CASE f # f0
    <3>1. /\ file[f] # Broken /\ SameItems(file[f], appended[f])
          /\ \A y \in Actors : Writing(y, f) => copy[y] = file[f]
          /\ \A y, z \in Actors : Writing(y, f) /\ Writing(z, f) => y = z
      BY <1>3 DEF AloneInv
    <3>2. file'[f] = file[f] /\ appended'[f] = appended[f]
      BY <1>14, <1>18, <2>2
    <3>3. QED
      BY <1>24, <3>1, <3>2
  <2>3. QED
    BY <2>1, <2>2
<1>29. "inbox" \in Files
  BY DEF Files
<1>30. ASSUME "inbox" \notin crossed, f0 = "inbox"
       PROVE  /\ \A r \in Runs : pc[r] # "inbox"
              /\ x \in InboxItems /\ i0 = x /\ x \notin ToSet(appended["inbox"])
              /\ published[x] = 0 /\ todo'[x] = <<>>
              /\ appended'["inbox"] = Append(appended["inbox"], x)
  <2>1. \A r \in Runs : pc[r] # "inbox"
    BY <1>3, <1>25, <1>30 DEF InboxInv
  <2>2. x \in InboxItems /\ i0 = x /\ x \in sent
    BY <1>6, <1>30
  <2>3. x \notin ToSet(appended["inbox"]) /\ ~(published[x] > 0)
    BY <1>3, <1>4, <1>30, <2>2 DEF InboxInv
  <2>4. published[x] \in Nat
    BY <1>3, <2>2, RelayTypes, Kinds
  <2>5. todo'[x] = <<>>
    <3>1. \A e : Tail(<<e>>) = <<>>
      OBVIOUS
    <3>2. QED
      BY <1>6, <1>17, <2>2, <3>1
  <2>6. QED
    BY <1>18, <1>30, <2>1, <2>2, <2>3, <2>4, <2>5
<1>31. InboxInv'
  <2>1. CASE f0 = "inbox" /\ "inbox" \notin crossed
    <3>1. appended["inbox"] \in Seq(Items) /\ x \in Items
      BY <1>13, <1>29, <1>30, <2>1, Kinds
    <3>2. /\ ToSet(appended'["inbox"]) = ToSet(appended["inbox"]) \cup {x}
          /\ IsInjective(appended["inbox"]) => IsInjective(appended'["inbox"])
      BY <1>30, <2>1, <3>1, OneMore
    <3>3. /\ IsInjective(appended["inbox"])
          /\ \A y \in InboxItems :
               /\ y \notin sent \/ todo[y] # <<>> => y \notin ToSet(appended["inbox"])
               /\ published[y] > 0 => y \in ToSet(appended["inbox"])
      BY <1>3, <2>1 DEF InboxInv
    <3>4. ASSUME NEW y \in InboxItems
          PROVE  /\ y \notin sent \/ todo'[y] # <<>> => y \notin ToSet(appended'["inbox"])
                 /\ published[y] > 0 => y \in ToSet(appended'["inbox"])
      <4>1. CASE y = x
        BY <1>6, <1>30, <2>1, <3>2, <4>1
      <4>2. CASE y # x
        BY <1>17, <3>2, <3>3, <4>2, Kinds
      <4>3. QED
        BY <4>1, <4>2
    <3>5. \A r \in Runs : pc'[r] # "inbox"
      BY <1>1, <1>30, <2>1
    <3>6. QED
      BY <1>1, <3>2, <3>3, <3>4, <3>5 DEF InboxInv, SameItems, IsInjective
  <2>2. CASE ~(f0 = "inbox" /\ "inbox" \notin crossed)
    <3>1. "inbox" \notin crossed => appended'["inbox"] = appended["inbox"]
      BY <1>18, <1>29, <2>2
    <3>2. \A y \in InboxItems : todo'[y] # <<>> => todo[y] # <<>>
      <4>1. x \in InboxItems => todo[x] # <<>>
        BY <1>4
      <4>2. QED
        BY <1>17, <4>1, Kinds
    <3>3. "inbox" \notin crossed =>
            \A r \in Runs : pc[r] = "inbox" => SameItems(flags[r], appended["inbox"])
      BY <1>3 DEF InboxInv
    <3>4. QED
      BY <1>1, <1>3, <1>24, <1>29, <3>1, <3>2, <3>3, InboxFrame
  <2>3. QED
    BY <2>1, <2>2
<1>32. BatchInv' /\ LearnInv' /\ MailOnceInv'
  <2>1. BatchInv'
    BY <1>1, <1>21, BatchFrame DEF RelayIInv
  <2>2. LearnInv'
    BY <1>1, LearnFrame DEF RelayIInv
  <2>3. MailOnceInv'
    <3>1. \A r \in Runs : Up(r)' => Up(r)
      BY <1>1 DEF Up
    <3>2. QED
      BY <1>1, <3>1, MailOnceFrame DEF RelayIInv
  <2>4. QED
    BY <2>1, <2>2, <2>3
<1>33. InboxOnceInv'
  <2>1. CASE f0 # "inbox" \/ "inbox" \in crossed
    <3>1. "inbox" \notin crossed' => file'["inbox"] = file["inbox"]
      BY <1>1, <1>14, <1>29, <2>1
    <3>2. QED
      BY <1>1, <3>1, InboxOnceFrame DEF RelayIInv
  <2>2. CASE f0 = "inbox" /\ "inbox" \notin crossed
    <3> SUFFICES ASSUME ~repeated
                 PROVE  /\ \A i \in InboxItems : published[i] <= 1
                        /\ \A k \in 1..Len(file'["inbox"]) :
                             ~file'["inbox"][k].processed => published[file'["inbox"][k].item] = 0
      BY <1>1, <1>30, <2>2 DEF InboxOnceInv
    <3>1. /\ file["inbox"] = copy[x] /\ file'["inbox"] = new /\ i0 # Reset
      BY <1>14, <1>26, <1>29, <2>2
    <3>2. /\ \A i \in InboxItems : published[i] <= 1
          /\ \A k \in 1..Len(copy[x]) : ~copy[x][k].processed => published[copy[x][k].item] = 0
      BY <1>30, <2>2, <3>1 DEF RelayIInv, InboxOnceInv
    <3>3. ASSUME NEW k \in 1..Len(new), ~new[k].processed PROVE published[new[k].item] = 0
      <4>1. Len(copy[x]) \in Nat
        BY <1>10
      <4>2. CASE k \in 1..Len(copy[x])
        <5>1. new[k] = copy[x][k]
          BY <1>11, <3>1, <4>2
        <5>2. QED
          BY <3>2, <3>3, <4>2, <5>1
      <4>3. CASE k = Len(copy[x]) + 1
        BY <1>11, <1>30, <2>2, <3>1, <4>3
      <4>4. QED
        BY <1>11, <3>1, <3>3, <4>1, <4>2, <4>3
    <3>4. QED
      BY <3>1, <3>2, <3>3
  <2>3. QED
    BY <2>1, <2>2
<1>34. QED
  BY <1>20, <1>22, <1>23, <1>28, <1>31, <1>32, <1>33 DEF RelayIInv

-----------------------------------------------------------------------------
(* The steps of agents and of a run's start.                               *)

LEMMA AgentSendsStep ==
  ASSUME RelayIInv, NEW i \in Actors, AgentSends(i) PROVE RelayIInv'
<1> DEFINE ops == <<[file |-> IF i \in Mail THEN "messages" ELSE "inbox", item |-> i]>>
<1>1. /\ i \in InboxItems \cup Mail /\ i \notin sent /\ sent' = sent \cup {i}
      /\ todo' = [todo EXCEPT ![i] = ops]
      /\ UNCHANGED <<redis, file, phase, copy, pc, batch, flags, last_check, stamped, kills,
                     published, appended, crossed, repeated, in_time>>
  BY DEF AgentSends, Send, ghosts
<1>2. TypeOK /\ WorkInv /\ RowsInv /\ AloneInv /\ InboxInv
  BY DEF RelayIInv
<1>3. i \in Items
  BY <1>1, Kinds
<1>4. ops \in Seq(Ops) /\ ops # <<>>
  BY <1>3 DEF Ops, Files
<1>5. /\ i \in InboxItems => ops = <<[file |-> "inbox", item |-> i]>>
      /\ i \in Mail => ops = <<[file |-> "messages", item |-> i]>>
  BY Kinds
<1> HIDE DEF ops
<1>6. /\ todo' \in [Actors -> Seq(Ops)] /\ todo'[i] = ops
      /\ \A y \in Actors \ {i} : todo'[y] = todo[y]
  <2>1. todo \in [Actors -> Seq(Ops)]
    BY <1>2, RelayTypes
  <2>2. QED
    BY <1>1, <1>4, <2>1
<1>7. todo[i] = <<>> /\ phase[i] # "write"
  BY <1>1, <1>2 DEF WorkInv
<1>8. TypeOK'
  BY <1>1, <1>2, <1>3, <1>6 DEF TypeOK, Actors, Threads, Ops
<1>9. Later
  BY <1>1 DEF Later
<1>10. WorkInv'
  <2>1. \A y \in Actors : phase'[y] = "write" => todo'[y] # <<>>
    BY <1>1, <1>2, <1>4, <1>6 DEF WorkInv
  <2>2. ASSUME NEW y \in InboxItems
        PROVE  todo'[y] = <<>> \/ (y \in sent' /\ todo'[y] = <<[file |-> "inbox", item |-> y]>>)
    <3>1. CASE y = i
      BY <1>1, <1>5, <1>6, <3>1
    <3>2. CASE y # i
      BY <1>1, <1>2, <1>6, <3>2, Kinds DEF WorkInv
    <3>3. QED
      BY <3>1, <3>2
  <2>3. ASSUME NEW y \in Mail
        PROVE  /\ todo'[y] = <<>> \/ (y \in sent' /\ todo'[y] = <<[file |-> "messages", item |-> y]>>)
               /\ phase'[y] = "write" => y \in stamped'
    <3>1. CASE y = i
      BY <1>1, <1>5, <1>6, <1>7, <3>1
    <3>2. CASE y # i
      BY <1>1, <1>2, <1>6, <3>2, Kinds DEF WorkInv
    <3>3. QED
      BY <3>1, <3>2
  <2>4. \A y \in Runs \cup Threads : todo'[y] = todo[y]
    BY <1>1, <1>6, Kinds
  <2>5. QED
    BY <1>1, <1>2, <2>1, <2>2, <2>3, <2>4 DEF WorkInv, Actors, Threads
<1>11. RowsInv'
  BY <1>1, <1>2, <1>9, RowsFrame
<1>12. \A y \in Actors, f \in Files : Writing(y, f)' => Writing(y, f)
  BY <1>1, <1>6, <1>7 DEF Writing, Target
<1>13. AloneInv'
  BY <1>1, <1>2, <1>12, AloneFrame
<1>14. InboxInv'
  <2>1. \A r \in Runs : pc[r] = "inbox" /\ "inbox" \notin crossed =>
          SameItems(flags[r], appended["inbox"])
    BY <1>2 DEF InboxInv
  <2>2. \A y \in InboxItems :
          y \notin sent' \/ todo'[y] # <<>> => y \notin sent \/ todo[y] # <<>>
    BY <1>1, <1>6, Kinds
  <2>3. "inbox" \in Files
    BY DEF Files
  <2>4. QED
    BY <1>1, <1>2, <1>12, <2>1, <2>2, <2>3, InboxFrame
<1>15. BatchInv' /\ LearnInv'
  BY <1>1, <1>9, BatchFrame, LearnFrame DEF RelayIInv
<1>16. MailOnceInv'
  <2>1. \A r \in Runs : Up(r)' => Up(r)
    BY <1>1 DEF Up
  <2>2. QED
    BY <1>1, <2>1, MailOnceFrame DEF RelayIInv
<1>17. InboxOnceInv'
  BY <1>1, InboxOnceFrame DEF RelayIInv
<1>18. QED
  BY <1>8, <1>10, <1>11, <1>13, <1>14, <1>15, <1>16, <1>17 DEF RelayIInv

LEMMA RepairStep ==
  ASSUME RelayIInv, NEW r \in Runs, Repair(r) PROVE RelayIInv'
<1> DEFINE ops == <<[file |-> "messages", item |-> Reset]>>
           S == IF Busy("messages", r) THEN {"messages"} ELSE {}
<1>1. /\ pc[r] = "off" /\ (file["messages"] = Broken \/ Busy("messages", r))
      /\ pc' = [pc EXCEPT ![r] = "repair"] /\ todo' = [todo EXCEPT ![r] = ops]
      /\ phase' = [phase EXCEPT ![r] = "write"] /\ Cross(S)
      /\ repeated' = (repeated \/ \E q \in Runs : Up(q))
      /\ UNCHANGED <<redis, file, copy, batch, flags, last_check, sent, stamped, kills,
                     published, in_time>>
  BY DEF Repair
<1>2. TypeOK /\ WorkInv /\ RowsInv /\ AloneInv /\ InboxInv
  BY DEF RelayIInv
<1>3. S \in SUBSET Files /\ "messages" \in Files /\ "inbox" \in Files
  BY DEF Files
<1>4. ops \in Seq(Ops) /\ ops # <<>> /\ Head(ops).file = "messages"
      /\ \A k \in 1..Len(ops) : ops[k].file = "messages" /\ ops[k].item = Reset
  BY DEF Ops, Files
<1> HIDE DEF ops
<1>5. /\ crossed' = crossed \cup S /\ crossed \subseteq crossed' /\ crossed' \subseteq Files
      /\ appended' \in [Files -> Seq(Items)]
      /\ \A f \in Files : f \notin crossed' => f \notin crossed /\ f \notin S
                                               /\ appended'[f] = appended[f]
  BY <1>1, <1>2, <1>3, CrossFacts
<1>6. "messages" \in crossed'
  <2>1. CASE Busy("messages", r)
    BY <1>5, <2>1
  <2>2. CASE file["messages"] = Broken
    BY <1>2, <1>3, <1>5, <2>2 DEF AloneInv
  <2>3. QED
    BY <1>1, <2>1, <2>2
<1>7. /\ todo \in [Actors -> Seq(Ops)] /\ phase \in [Actors -> {"idle", "write"}]
      /\ r \in Actors
  BY <1>2, RelayTypes, Kinds
<1>8. /\ todo' \in [Actors -> Seq(Ops)] /\ todo'[r] = ops
      /\ \A y \in Actors \ {r} : todo'[y] = todo[y]
  BY <1>1, <1>4, <1>7
<1>9. /\ phase' \in [Actors -> {"idle", "write"}] /\ phase'[r] = "write"
      /\ \A y \in Actors \ {r} : phase'[y] = phase[y]
  BY <1>1, <1>7
<1>10. /\ pc' \in [Runs -> {"off", "repair", "up", "learned", "inbox", "flagged", "mail",
                            "done", "killed"}]
       /\ pc'[r] = "repair" /\ \A q \in Runs \ {r} : pc'[q] = pc[q]
       /\ repeated' \in BOOLEAN
  BY <1>1, <1>2 DEF TypeOK
<1>11. TypeOK'
  BY <1>1, <1>2, <1>5, <1>8, <1>9, <1>10 DEF TypeOK, Actors, Threads, Ops
<1>12. Later
  BY <1>1 DEF Later
<1>13. WorkInv'
  <2>1. \A y \in Actors : phase'[y] = "write" => todo'[y] # <<>>
    BY <1>2, <1>4, <1>8, <1>9 DEF WorkInv
  <2>2. \A y \in InboxItems \cup Mail : todo'[y] = todo[y] /\ phase'[y] = phase[y]
    BY <1>8, <1>9, Kinds
  <2>3. ASSUME NEW y \in Runs \cup Threads, NEW k \in 1..Len(todo'[y])
        PROVE  /\ todo'[y][k].file # "inbox"
               /\ todo'[y][k].item \in Mail => todo'[y][k].item \in stamped
               /\ todo'[y][k].item = Reset =>
                    todo'[y][k].file = "messages" /\ "messages" \in crossed'
    <3>1. CASE y = r
      BY <1>4, <1>6, <1>8, <2>3, <3>1, Kinds
    <3>2. CASE y # r
      <4>1. todo'[y] = todo[y]
        BY <1>8, <3>2, Kinds
      <4>2. QED
        BY <1>2, <1>6, <2>3, <4>1 DEF WorkInv
    <3>3. QED
      BY <3>1, <3>2
  <2>4. QED
    BY <1>1, <1>2, <2>1, <2>2, <2>3 DEF WorkInv, Actors, Threads
<1>14. RowsInv'
  BY <1>1, <1>2, <1>12, RowsFrame
<1>15. \A y \in Actors, f \in Files : Writing(y, f)' => Writing(y, f) \/ f = "messages"
  <2>1. Writing(r, "inbox")' => FALSE
    BY <1>4, <1>8 DEF Writing, Target
  <2>2. \A f \in Files : Writing(r, f)' => f = "messages"
    BY <1>4, <1>8 DEF Writing, Target
  <2>3. \A y \in Actors \ {r}, f \in Files : Writing(y, f)' => Writing(y, f)
    BY <1>8, <1>9 DEF Writing, Target
  <2>4. QED
    BY <2>2, <2>3
<1>16. AloneInv'
  BY <1>1, <1>2, <1>5, <1>6, <1>15, AloneFrame
<1>17. InboxInv'
  <2>1. \A q \in Runs : pc'[q] = "inbox" => pc[q] = "inbox"
    BY <1>1, <1>10
  <2>2. \A q \in Runs : pc[q] = "inbox" /\ "inbox" \notin crossed =>
          SameItems(flags[q], appended["inbox"])
    BY <1>2 DEF InboxInv
  <2>3. \A y \in InboxItems : todo'[y] = todo[y]
    BY <1>8, Kinds
  <2>4. QED
    BY <1>1, <1>2, <1>3, <1>5, <1>15, <2>1, <2>2, <2>3, InboxFrame
<1>18. BatchInv'
  <2>1. \A q \in Runs : pc'[q] \in {"mail", "done"} => pc'[q] = pc[q]
    BY <1>10
  <2>2. QED
    BY <1>1, <1>12, <2>1, BatchFrame DEF RelayIInv
<1>19. LearnInv'
  <2>1. \A q \in Runs : pc'[q] \in {"off", "repair", "up"} => pc[q] \in {"off", "repair", "up"}
    BY <1>1, <1>10
  <2>2. QED
    BY <1>1, <2>1, LearnFrame DEF RelayIInv
<1>20. MailOnceInv'
  <2> SUFFICES ASSUME ~repeated'
               PROVE  /\ \A q, s \in Runs : Up(q)' /\ Up(s)' => q = s
                      /\ \A i \in Mail : published[i] <= 1
                      /\ \A q \in Runs, i \in Mail : published[i] > 0 =>
                           /\ pc'[q] \in {"up", "learned", "inbox", "flagged"} => i \in last_check[q]
                           /\ pc'[q] = "mail" => i \notin batch[q]
    BY <1>1 DEF MailOnceInv, Up
  <2>1. ~repeated /\ \A q \in Runs : ~Up(q)
    BY <1>1
  <2>2. \A q \in Runs \ {r} : ~Up(q)'
    BY <1>10, <2>1 DEF Up
  <2>3. \A q \in Runs : pc'[q] \notin {"up", "learned", "inbox", "flagged", "mail"}
    BY <1>10, <2>2 DEF Up
  <2>4. \A i \in Mail : published[i] <= 1
    BY <2>1 DEF RelayIInv, MailOnceInv
  <2>5. QED
    BY <2>2, <2>3, <2>4
<1>21. InboxOnceInv'
  <2>1. \A q \in Runs : pc'[q] = "inbox" <=> pc[q] = "inbox"
    BY <1>1, <1>10
  <2>2. repeated => repeated'
    BY <1>1
  <2>3. QED
    BY <1>1, <1>5, <2>1, <2>2, InboxOnceFrame DEF RelayIInv
<1>22. QED
  BY <1>11, <1>13, <1>14, <1>16, <1>17, <1>18, <1>19, <1>20, <1>21 DEF RelayIInv

\* Where a run is, after a step of it.
LEMMA MovesOn ==
  ASSUME TypeOK, NEW r \in Runs, NEW p \in {"repair", "up", "learned", "inbox", "flagged",
                                            "mail", "done", "killed"},
         pc' = [pc EXCEPT ![r] = p]
  PROVE  /\ pc' \in [Runs -> {"off", "repair", "up", "learned", "inbox", "flagged", "mail",
                              "done", "killed"}]
         /\ pc'[r] = p /\ \A q \in Runs \ {r} : pc'[q] = pc[q]
  BY DEF TypeOK

\* Nothing happens to the files, nor to who works on them.
LEMMA FilesFrame ==
  ASSUME RelayIInv, Later, UNCHANGED <<file, todo, phase, copy, flags, sent, appended, crossed>>
  PROVE  WorkInv' /\ RowsInv' /\ AloneInv'
<1>1. TypeOK /\ WorkInv /\ RowsInv /\ AloneInv
  BY DEF RelayIInv
<1>2. WorkInv'
  BY <1>1, WorkFrame DEF Later
<1>3. RowsInv'
  BY <1>1, RowsFrame
<1>4. \A y \in Actors, f \in Files : Writing(y, f)' => Writing(y, f)
  BY DEF Writing, Target
<1>5. AloneInv'
  BY <1>1, <1>4, AloneFrame
<1>6. QED
  BY <1>2, <1>3, <1>5

LEMMA StartStep ==
  ASSUME RelayIInv, NEW r \in Runs, Start(r) PROVE RelayIInv'
<1>1. /\ pc[r] \in {"off", "repair"} /\ pc' = [pc EXCEPT ![r] = "up"]
      /\ last_check' = [last_check EXCEPT ![r] = stamped]
      /\ repeated' = (repeated \/ \E q \in Runs \ {r} : Up(q))
      /\ UNCHANGED <<redis, file, todo, phase, copy, batch, flags, sent, stamped, kills,
                     published, appended, crossed, in_time>>
  BY DEF Start, files
<1>2. TypeOK /\ RowsInv /\ AloneInv /\ InboxInv /\ BatchInv
  BY DEF RelayIInv
<1>3. /\ pc' \in [Runs -> {"off", "repair", "up", "learned", "inbox", "flagged", "mail",
                           "done", "killed"}]
      /\ pc'[r] = "up" /\ \A q \in Runs \ {r} : pc'[q] = pc[q]
  BY <1>1, <1>2, MovesOn
<1>4. /\ last_check' \in [Runs -> SUBSET Mail] /\ last_check'[r] = stamped
      /\ repeated' \in BOOLEAN
  BY <1>1, <1>2 DEF TypeOK
<1>5. TypeOK'
  BY <1>1, <1>2, <1>3, <1>4 DEF TypeOK, Actors, Threads
<1>6. Later
  BY <1>1 DEF Later
<1>7. WorkInv' /\ RowsInv' /\ AloneInv'
  BY <1>1, <1>6, FilesFrame
<1>8. InboxInv'
  <2>1. \A q \in Runs : pc'[q] = "inbox" => pc[q] = "inbox"
    BY <1>1, <1>3
  <2>2. \A q \in Runs : pc[q] = "inbox" /\ "inbox" \notin crossed =>
          SameItems(flags[q], appended["inbox"])
    BY <1>2 DEF InboxInv
  <2>3. \A y \in Actors : Writing(y, "inbox")' => Writing(y, "inbox")
    BY <1>1 DEF Writing, Target
  <2>4. QED
    BY <1>1, <1>2, <2>1, <2>2, <2>3, InboxFrame
<1>9. BatchInv'
  <2>1. \A q \in Runs : pc'[q] \in {"mail", "done"} => pc'[q] = pc[q]
    BY <1>3
  <2>2. QED
    BY <1>1, <1>2, <1>6, <2>1, BatchFrame
<1>10. LearnInv'
  <2>1. \A q \in Runs : pc'[q] \in {"off", "repair", "up"} => pc[q] \in {"off", "repair", "up"}
    BY <1>1, <1>3
  <2>2. QED
    BY <1>1, <2>1, LearnFrame DEF RelayIInv
<1>11. MailOnceInv'
  <2> SUFFICES ASSUME ~repeated'
               PROVE  /\ \A q, s \in Runs : Up(q)' /\ Up(s)' => q = s
                      /\ \A i \in Mail : published[i] <= 1
                      /\ \A q \in Runs, i \in Mail : published[i] > 0 =>
                           /\ pc'[q] \in {"up", "learned", "inbox", "flagged"} => i \in last_check'[q]
                           /\ pc'[q] = "mail" => i \notin batch[q]
    BY <1>1 DEF MailOnceInv, Up
  <2>1. ~repeated /\ \A q \in Runs \ {r} : ~Up(q)
    BY <1>1
  <2>2. \A q \in Runs \ {r} : ~Up(q)'
    BY <1>3, <2>1 DEF Up
  <2>3. \A q \in Runs \ {r} : pc'[q] \notin {"up", "learned", "inbox", "flagged", "mail"}
    BY <1>3, <2>2 DEF Up
  <2>4. \A i \in Mail : published[i] <= 1
    BY <2>1 DEF RelayIInv, MailOnceInv
  <2>5. \A i \in Mail : published[i] > 0 => i \in last_check'[r]
    BY <1>2, <1>4 DEF BatchInv
  <2>6. QED
    BY <1>3, <2>2, <2>3, <2>4, <2>5
<1>12. InboxOnceInv'
  <2>1. \A q \in Runs : pc'[q] = "inbox" <=> pc[q] = "inbox"
    BY <1>1, <1>3
  <2>2. repeated => repeated'
    BY <1>1
  <2>3. QED
    BY <1>1, <1>2, <2>1, <2>2, InboxOnceFrame DEF RelayIInv
<1>13. QED
  BY <1>5, <1>7, <1>8, <1>9, <1>10, <1>11, <1>12 DEF RelayIInv

LEMMA LearnStep ==
  ASSUME RelayIInv, NEW r \in Runs, Learn(r) PROVE RelayIInv'
<1>1. /\ pc[r] = "up" /\ pc' = [pc EXCEPT ![r] = "learned"]
      /\ UNCHANGED <<redis, file, phase, copy, batch, flags, last_check, stamped, kills,
                     appended, crossed, repeated, in_time>>
  BY DEF Learn, ghosts
<1>2. TypeOK /\ WorkInv /\ RowsInv /\ AloneInv /\ InboxInv /\ LearnInv
  BY DEF RelayIInv
<1>3. /\ pc' \in [Runs -> {"off", "repair", "up", "learned", "inbox", "flagged", "mail",
                           "done", "killed"}]
      /\ pc'[r] = "learned" /\ \A q \in Runs \ {r} : pc'[q] = pc[q]
  BY <1>1, <1>2, MovesOn
<1>4. /\ r \in Items /\ r \notin Mail /\ r \notin InboxItems
      /\ Runs \subseteq Items /\ Mail \subseteq Items /\ InboxItems \subseteq Items
  BY Kinds
<1>5. published \in [Items -> Nat] /\ todo \in [Actors -> Seq(Ops)] /\ sent \subseteq Items
  BY <1>2, RelayTypes
<1>6. /\ published' \in [Items -> Nat] /\ published'[r] <= 1
      /\ \A j \in Items \ {r} : published'[j] = published[j]
      /\ Later /\ WorkInv' /\ todo' \in [Actors -> Seq(Ops)]
      /\ sent \subseteq sent' /\ sent' \subseteq Items
      /\ \A x \in Actors, f \in Files : Writing(x, f)' => Writing(x, f)
      /\ \A x \in InboxItems : todo'[x] = todo[x]
  <2>1. published[r] = 0
    <3>1. pc[r] \in {"off", "repair", "up"}
      BY <1>1
    <3>2. QED
      BY <1>2, <3>1 DEF LearnInv
  <2>2. CASE UNCHANGED <<sent, published, todo>>
    <3>1. Later
      BY <1>1, <2>2 DEF Later
    <3>2. WorkInv'
      BY <1>1, <1>2, <2>2, WorkFrame
    <3>3. \A x \in Actors, f \in Files : Writing(x, f)' => Writing(x, f)
      BY <1>1, <2>2 DEF Writing, Target
    <3>4. QED
      BY <1>5, <2>1, <2>2, <3>1, <3>2, <3>3
  <2>3. CASE Send(r) /\ Publish(r, r)
    <3>1. sent' = sent \cup {r} /\ sent \subseteq sent' /\ sent' \subseteq Items
      BY <1>4, <1>5, <2>3 DEF Send
    <3>2. /\ published' \in [Items -> Nat] /\ published'[r] = published[r] + 1
          /\ \A j \in Items \ {r} : published'[j] = published[j]
          /\ Later /\ WorkInv' /\ todo' \in [Actors -> Seq(Ops)]
          /\ \A x \in Actors, f \in Files : Writing(x, f)' => Writing(x, f)
          /\ \A x \in InboxItems : todo'[x] = todo[x]
      BY <1>1, <1>2, <1>4, <2>3, <3>1, PublishFacts
    <3>3. QED
      BY <2>1, <3>1, <3>2
  <2>4. QED
    BY <2>2, <2>3 DEF Learn
<1>7. /\ \A i \in Mail \cup InboxItems : published'[i] = published[i]
      /\ \A q \in Runs \ {r} : published'[q] = published[q]
  BY <1>4, <1>6
<1>8. TypeOK'
  BY <1>1, <1>2, <1>3, <1>6 DEF TypeOK, Actors, Threads, Ops
<1>9. RowsInv'
  BY <1>1, <1>2, <1>6, RowsFrame
<1>10. AloneInv'
  BY <1>1, <1>2, <1>6, AloneFrame
<1>11. InboxInv'
  <2>1. \A q \in Runs : pc'[q] = "inbox" => pc[q] = "inbox"
    BY <1>3
  <2>2. \A q \in Runs : pc[q] = "inbox" /\ "inbox" \notin crossed =>
          SameItems(flags[q], appended["inbox"])
    BY <1>2 DEF InboxInv
  <2>3. "inbox" \in Files
    BY DEF Files
  <2>4. QED
    BY <1>1, <1>2, <1>6, <1>7, <2>1, <2>2, <2>3, InboxFrame
<1>12. BatchInv'
  <2>1. \A q \in Runs : pc'[q] \in {"mail", "done"} => pc'[q] = pc[q]
    BY <1>3
  <2>2. QED
    BY <1>1, <1>2, <1>6, <1>7, <2>1, BatchFrame DEF RelayIInv
<1>13. LearnInv'
  BY <1>2, <1>3, <1>6, <1>7 DEF LearnInv
<1>14. MailOnceInv'
  <2>1. \A q \in Runs :
          /\ Up(q)' => Up(q)
          /\ pc'[q] \in {"up", "learned", "inbox", "flagged"} =>
               pc[q] \in {"up", "learned", "inbox", "flagged"}
          /\ pc'[q] = "mail" => pc[q] = "mail"
    BY <1>1, <1>3 DEF Up
  <2>2. QED
    BY <1>1, <1>7, <2>1, MailOnceFrame DEF RelayIInv
<1>15. InboxOnceInv'
  <2>1. \A q \in Runs : pc'[q] = "inbox" <=> pc[q] = "inbox"
    BY <1>1, <1>3
  <2>2. QED
    BY <1>1, <1>2, <1>7, <2>1, InboxOnceFrame DEF RelayIInv
<1>16. QED
  BY <1>6, <1>8, <1>9, <1>10, <1>11, <1>12, <1>13, <1>14, <1>15 DEF RelayIInv

LEMMA ReadInboxStep ==
  ASSUME RelayIInv, NEW r \in Runs, ReadInbox(r) PROVE RelayIInv'
<1>1. /\ pc[r] = "learned" /\ todo[r] = <<>>
      /\ UNCHANGED <<redis, file, todo, phase, copy, batch, last_check, sent, stamped, kills,
                     published, repeated, in_time>>
  BY DEF ReadInbox, Idle, files
<1>2. TypeOK /\ WorkInv /\ RowsInv /\ AloneInv /\ InboxInv
  BY DEF RelayIInv
<1>3. Later
  BY <1>1 DEF Later
<1>4. \A y \in Actors, f \in Files : Writing(y, f)' => Writing(y, f)
  BY <1>1 DEF Writing, Target
<1>5. "inbox" \in Files
  BY DEF Files
<1>6. CASE /\ pc' = [pc EXCEPT ![r] = "flagged"]
           /\ UNCHANGED <<flags, crossed, appended>>
  <2>1. /\ pc' \in [Runs -> {"off", "repair", "up", "learned", "inbox", "flagged", "mail",
                             "done", "killed"}]
        /\ pc'[r] = "flagged" /\ \A q \in Runs \ {r} : pc'[q] = pc[q]
    BY <1>2, <1>6, MovesOn
  <2>2. TypeOK'
    BY <1>1, <1>2, <1>6, <2>1 DEF TypeOK, Actors, Threads
  <2>3. WorkInv' /\ RowsInv' /\ AloneInv'
    BY <1>1, <1>3, <1>6, FilesFrame
  <2>4. InboxInv'
    <3>1. \A q \in Runs : pc'[q] = "inbox" => pc[q] = "inbox"
      BY <1>1, <2>1
    <3>2. \A q \in Runs : pc[q] = "inbox" /\ "inbox" \notin crossed =>
            SameItems(flags[q], appended["inbox"])
      BY <1>2 DEF InboxInv
    <3>3. QED
      BY <1>1, <1>2, <1>4, <1>5, <1>6, <3>1, <3>2, InboxFrame
  <2>5. BatchInv'
    <3>1. \A q \in Runs : pc'[q] \in {"mail", "done"} => pc'[q] = pc[q]
      BY <2>1
    <3>2. QED
      BY <1>1, <1>2, <1>3, <3>1, BatchFrame DEF RelayIInv
  <2>6. LearnInv'
    <3>1. \A q \in Runs : pc'[q] \in {"off", "repair", "up"} => pc[q] \in {"off", "repair", "up"}
      BY <2>1
    <3>2. QED
      BY <1>1, <3>1, LearnFrame DEF RelayIInv
  <2>7. MailOnceInv'
    <3>1. \A q \in Runs :
            /\ Up(q)' => Up(q)
            /\ pc'[q] \in {"up", "learned", "inbox", "flagged"} =>
                 pc[q] \in {"up", "learned", "inbox", "flagged"}
            /\ pc'[q] = "mail" => pc[q] = "mail"
      BY <1>1, <2>1 DEF Up
    <3>2. QED
      BY <1>1, <3>1, MailOnceFrame DEF RelayIInv
  <2>8. InboxOnceInv'
    <3>1. \A q \in Runs : pc'[q] = "inbox" <=> pc[q] = "inbox"
      BY <1>1, <2>1
    <3>2. QED
      BY <1>1, <1>2, <1>6, <3>1, InboxOnceFrame DEF RelayIInv
  <2>9. QED
    BY <2>2, <2>3, <2>4, <2>5, <2>6, <2>7, <2>8 DEF RelayIInv
<1>7. CASE /\ file["inbox"] # Broken /\ pc' = [pc EXCEPT ![r] = "inbox"]
           /\ flags' = [flags EXCEPT ![r] = Messages]
           /\ Cross(IF Busy("inbox", r) THEN {"inbox"} ELSE {})
  <2> DEFINE S == IF Busy("inbox", r) THEN {"inbox"} ELSE {}
  <2>1. /\ pc' \in [Runs -> {"off", "repair", "up", "learned", "inbox", "flagged", "mail",
                             "done", "killed"}]
        /\ pc'[r] = "inbox" /\ \A q \in Runs \ {r} : pc'[q] = pc[q]
    BY <1>2, <1>7, MovesOn
  <2>2. S \in SUBSET Files /\ Cross(S)
    BY <1>5, <1>7
  <2>3. /\ crossed' = crossed \cup S /\ crossed \subseteq crossed' /\ crossed' \subseteq Files
        /\ appended' \in [Files -> Seq(Items)]
        /\ \A f \in Files : f \notin crossed' => f \notin crossed /\ f \notin S
                                                 /\ appended'[f] = appended[f]
    BY <1>2, <2>2, CrossFacts
  <2>4. "inbox" \notin crossed' => "inbox" \notin crossed /\ ~Busy("inbox", r)
    BY <1>5, <2>3
  <2> HIDE DEF S
  <2>5. file["inbox"] \in Seq(RowSet) /\ Honest(file["inbox"]) /\ OfInbox(file["inbox"])
    BY <1>2, <1>5, <1>7, RelayTypes DEF RowsInv
  <2>6. /\ flags' \in [Runs -> Seq(RowSet)] /\ flags'[r] = file["inbox"]
        /\ \A q \in Runs \ {r} : flags'[q] = flags[q]
    <3>1. flags \in [Runs -> Seq(RowSet)]
      BY <1>2, RelayTypes
    <3>2. QED
      BY <1>7, <2>5, <3>1 DEF Messages
  <2>7. TypeOK'
    BY <1>1, <1>2, <2>1, <2>3, <2>6 DEF TypeOK, Actors, Threads, Rows, RowSet
  <2>8. WorkInv'
    BY <1>1, <1>2, <2>3, WorkFrame
  <2>9. RowsInv'
    <3>1. \A q \in Runs : Honest(flags'[q]) /\ OfInbox(flags'[q])
      BY <1>2, <2>5, <2>6 DEF RowsInv
    <3>2. QED
      BY <1>1, <1>2, <3>1 DEF RowsInv, Honest, OfInbox, Actors, Threads, Files
  <2>10. AloneInv'
    BY <1>1, <1>2, <1>4, <2>3, AloneFrame
  <2>11. ASSUME "inbox" \notin crossed'
         PROVE  /\ \A q \in Runs : pc[q] # "inbox"
                /\ \A y \in Actors : ~Writing(y, "inbox")
                /\ SameItems(file["inbox"], appended["inbox"])
    <3>1. /\ \A y \in Actors : Writing(y, "inbox") => y = r
          /\ \A q \in Runs : pc[q] = "inbox" => q = r
      BY <1>5, <2>4, <2>11, NotBusy
    <3>2. ~Writing(r, "inbox")
      BY <1>1, <1>2, Kinds DEF Writing, WorkInv
    <3>3. SameItems(file["inbox"], appended["inbox"])
      BY <1>2, <1>5, <2>4, <2>11 DEF AloneInv
    <3>4. QED
      BY <1>1, <3>1, <3>2, <3>3
  <2>12. InboxInv'
    <3> SUFFICES ASSUME "inbox" \notin crossed'
                 PROVE  /\ \A q \in Runs : pc'[q] = "inbox" =>
                             /\ SameItems(flags'[q], appended'["inbox"])
                             /\ \A y \in Actors : ~Writing(y, "inbox")'
                             /\ \A s \in Runs : pc'[s] = "inbox" => s = q
                        /\ IsInjective(appended'["inbox"])
                        /\ \A y \in InboxItems :
                             /\ y \notin sent \/ todo[y] # <<>> => y \notin ToSet(appended'["inbox"])
                             /\ published[y] > 0 => y \in ToSet(appended'["inbox"])
      BY <1>1 DEF InboxInv, SameItems, Actors, Threads, ToSet, IsInjective
    <3>1. appended'["inbox"] = appended["inbox"] /\ "inbox" \notin crossed
      BY <1>5, <2>3
    <3>2. \A q \in Runs : pc'[q] = "inbox" => q = r
      BY <2>1, <2>11
    <3>3. \A y \in Actors : ~Writing(y, "inbox")'
      BY <1>4, <1>5, <2>11
    <3>4. SameItems(flags'[r], appended'["inbox"])
      BY <2>6, <2>11, <3>1
    <3>5. QED
      BY <1>2, <3>1, <3>2, <3>3, <3>4 DEF InboxInv
  <2>13. BatchInv'
    <3>1. \A q \in Runs : pc'[q] \in {"mail", "done"} => pc'[q] = pc[q]
      BY <2>1
    <3>2. QED
      BY <1>1, <1>2, <1>3, <3>1, BatchFrame DEF RelayIInv
  <2>14. LearnInv'
    <3>1. \A q \in Runs : pc'[q] \in {"off", "repair", "up"} => pc[q] \in {"off", "repair", "up"}
      BY <2>1
    <3>2. QED
      BY <1>1, <3>1, LearnFrame DEF RelayIInv
  <2>15. MailOnceInv'
    <3>1. \A q \in Runs :
            /\ Up(q)' => Up(q)
            /\ pc'[q] \in {"up", "learned", "inbox", "flagged"} =>
                 pc[q] \in {"up", "learned", "inbox", "flagged"}
            /\ pc'[q] = "mail" => pc[q] = "mail"
      BY <1>1, <2>1 DEF Up
    <3>2. QED
      BY <1>1, <3>1, MailOnceFrame DEF RelayIInv
  <2>16. InboxOnceInv'
    <3> SUFFICES ASSUME ~repeated, "inbox" \notin crossed'
                 PROVE  /\ \A i \in InboxItems : published[i] <= 1
                        /\ \A q \in Runs : pc'[q] = "inbox" =>
                             \A k \in 1..Len(flags'[q]) :
                               ~flags'[q][k].processed => published[flags'[q][k].item] = 0
      BY <1>1, <2>1 DEF InboxOnceInv
    <3>1. /\ \A i \in InboxItems : published[i] <= 1
          /\ \A k \in 1..Len(file["inbox"]) :
               ~file["inbox"][k].processed => published[file["inbox"][k].item] = 0
      BY <2>4, <2>11 DEF RelayIInv, InboxOnceInv
    <3>2. \A q \in Runs : pc'[q] = "inbox" => q = r
      BY <2>1, <2>11
    <3>3. QED
      BY <2>6, <3>1, <3>2
  <2>17. QED
    BY <2>7, <2>8, <2>9, <2>10, <2>12, <2>13, <2>14, <2>15, <2>16 DEF RelayIInv
<1>8. QED
  BY <1>6, <1>7 DEF ReadInbox

LEMMA PublishInboxStep ==
  ASSUME RelayIInv, NEW r \in Runs, PublishInbox(r) PROVE RelayIInv'
<1>1. PICK k0 \in Pending(r) : /\ Publish(r, flags[r][k0].item)
                               /\ flags' = [flags EXCEPT ![r][k0] = Flagged(@)]
  BY DEF PublishInbox
<1>2. /\ pc[r] = "inbox"
      /\ UNCHANGED <<redis, file, phase, copy, pc, batch, last_check, sent, stamped, kills,
                     appended, crossed, repeated, in_time>>
  BY DEF PublishInbox, ghosts
<1>3. TypeOK /\ WorkInv /\ RowsInv /\ AloneInv /\ InboxInv
  BY DEF RelayIInv
<1> DEFINE rows == flags[r]
           i == rows[k0].item
           rows2 == flags'[r]
<1>4. flags \in [Runs -> Seq(RowSet)] /\ rows \in Seq(RowSet) /\ Honest(rows) /\ OfInbox(rows)
  BY <1>3, RelayTypes DEF RowsInv
<1>5. /\ k0 \in 1..Len(rows) /\ k0 \in DOMAIN rows /\ Len(rows) \in Nat
      /\ rows[k0] \in RowSet /\ ~rows[k0].processed /\ i \in InboxItems /\ i \in Items
  BY <1>4, RowsAt, Kinds DEF Pending, OfInbox
<1>6. /\ Flagged(rows[k0]) \in RowSet /\ Flagged(rows[k0]).item = i
      /\ Flagged(rows[k0]).processed = TRUE
  BY <1>5 DEF Flagged, RowSet
<1>7. /\ flags' = [flags EXCEPT ![r] = [rows EXCEPT ![k0] = Flagged(rows[k0])]]
  BY <1>1, <1>4, <1>5
<1>8. /\ flags' \in [Runs -> Seq(RowSet)] /\ \A q \in Runs \ {r} : flags'[q] = flags[q]
      /\ rows2 = [rows EXCEPT ![k0] = Flagged(rows[k0])]
  <2> DEFINE more == [rows EXCEPT ![k0] = Flagged(rows[k0])]
  <2>1. more \in Seq(RowSet)
    BY <1>4, <1>5, <1>6
  <2> HIDE DEF more
  <2>2. flags' = [flags EXCEPT ![r] = more]
    BY <1>7 DEF more
  <2>3. /\ flags' \in [Runs -> Seq(RowSet)] /\ \A q \in Runs \ {r} : flags'[q] = flags[q]
        /\ flags'[r] = more
    BY <1>4, <2>1, <2>2
  <2>4. QED
    BY <2>3 DEF more
<1>9. /\ rows2 \in Seq(RowSet) /\ Len(rows2) = Len(rows)
      /\ rows2[k0].processed = TRUE /\ rows2[k0].item = i
      /\ \A k \in 1..Len(rows) : k # k0 => rows2[k] = rows[k]
      /\ \A k \in 1..Len(rows) : rows2[k].item = rows[k].item
  <2>1. rows2 \in Seq(RowSet) /\ Len(rows2) = Len(rows)
        /\ rows2[k0] = Flagged(rows[k0])
        /\ \A k \in 1..Len(rows) : k # k0 => rows2[k] = rows[k]
    BY <1>4, <1>5, <1>6, <1>8
  <2>2. QED
    BY <1>6, <2>1
<1> HIDE DEF rows, i, rows2
<1>10. Publish(r, i) /\ i \notin Mail /\ i \notin Runs
  BY <1>1, <1>5, Kinds DEF i, rows
<1>11. /\ published' \in [Items -> Nat] /\ published'[i] = published[i] + 1
       /\ \A j \in Items \ {i} : published'[j] = published[j]
       /\ Later /\ WorkInv' /\ todo' \in [Actors -> Seq(Ops)]
       /\ \A x \in Actors, f \in Files : Writing(x, f)' => Writing(x, f)
       /\ \A x \in InboxItems : todo'[x] = todo[x]
  <2>1. sent \subseteq sent'
    BY <1>2
  <2>2. QED
    BY <1>2, <1>3, <1>5, <1>10, <2>1, PublishFacts
<1>12. \A j \in Mail \cup Runs : published'[j] = published[j]
  BY <1>10, <1>11, Kinds
<1>13. TypeOK'
  BY <1>2, <1>3, <1>8, <1>11 DEF TypeOK, Actors, Threads, Rows, RowSet, Ops
<1>14. RowsInv'
  <2>1. ASSUME NEW f \in Files, file[f] # Broken PROVE Honest(file[f])'
    <3>1. file[f] \in Seq(RowSet) /\ Honest(file[f])
      BY <1>3, <2>1, RelayTypes DEF RowsInv
    <3>2. QED
      BY <1>2, <1>11, <3>1, HonestLater DEF Honest
  <2>2. ASSUME NEW y \in Actors PROVE Honest(copy[y])'
    <3>1. copy[y] \in Seq(RowSet) /\ Honest(copy[y])
      BY <1>3, RelayTypes DEF RowsInv
    <3>2. QED
      BY <1>2, <1>11, <3>1, HonestLater DEF Honest
  <2>3. ASSUME NEW q \in Runs PROVE Honest(flags[q])' /\ OfInbox(flags'[q])
    <3>1. CASE q # r
      <4>1. flags[q] \in Seq(RowSet) /\ Honest(flags[q]) /\ OfInbox(flags[q])
            /\ flags'[q] = flags[q]
        BY <1>3, <1>8, <3>1, RelayTypes DEF RowsInv
      <4>2. QED
        BY <1>11, <4>1, HonestLater DEF Honest
    <3>2. CASE q = r
      <4>1. \A k \in 1..Len(rows) :
              /\ rows[k].item \in Mail => rows[k].item \in stamped'
              /\ rows[k].processed => published'[rows[k].item] > 0
        BY <1>4, <1>11, HonestLater
      <4>2. published'[i] > 0
        <5>1. published[i] \in Nat
          BY <1>3, <1>5, RelayTypes
        <5>2. QED
          BY <1>11, <5>1
      <4>3. \A k \in 1..Len(rows2) :
              /\ rows2[k].item \in Mail => rows2[k].item \in stamped'
              /\ rows2[k].processed => published'[rows2[k].item] > 0
              /\ rows2[k].item \in InboxItems
        BY <1>4, <1>9, <4>1, <4>2 DEF OfInbox
      <4>4. flags'[q] = rows2
        BY <3>2 DEF rows2
      <4>5. QED
        BY <4>3, <4>4 DEF Honest, OfInbox
    <3>3. QED
      BY <3>1, <3>2
  <2>4. QED
    BY <1>2, <1>3, <2>1, <2>2, <2>3 DEF RowsInv, Actors, Threads, OfInbox, Files
<1>15. AloneInv'
  BY <1>2, <1>3, <1>11, AloneFrame
<1>16. InboxInv'
  <2>1. ASSUME "inbox" \notin crossed PROVE SameItems(rows2, appended["inbox"])
    <3>1. SameItems(rows, appended["inbox"])
      BY <1>2, <1>3, <2>1 DEF InboxInv, rows
    <3>2. QED
      BY <1>9, <3>1 DEF SameItems
  <2>2. ASSUME "inbox" \notin crossed PROVE i \in ToSet(appended["inbox"])
    <3>1. SameItems(rows, appended["inbox"])
      BY <1>2, <1>3, <2>2 DEF InboxInv, rows
    <3>2. appended["inbox"] \in Seq(Items)
      BY <1>3, RelayTypes DEF Files
    <3>3. appended["inbox"][k0] = i /\ k0 \in 1..Len(appended["inbox"])
      BY <1>5, <3>1 DEF SameItems, i
    <3>4. QED
      BY <3>2, <3>3, InSet
  <2>3. \A q \in Runs : pc'[q] = "inbox" /\ "inbox" \notin crossed =>
          pc[q] = "inbox" /\ SameItems(flags'[q], appended["inbox"])
    <3>1. flags'[r] = rows2
      BY DEF rows2
    <3>2. \A q \in Runs : pc[q] = "inbox" /\ "inbox" \notin crossed =>
            SameItems(flags[q], appended["inbox"])
      BY <1>3 DEF InboxInv
    <3>3. QED
      BY <1>2, <1>8, <2>1, <3>1, <3>2
  <2>4. \A y \in InboxItems : "inbox" \notin crossed =>
          (published'[y] > 0 => published[y] > 0 \/ y \in ToSet(appended["inbox"]))
    BY <1>11, <2>2, Kinds
  <2>5. "inbox" \in Files
    BY DEF Files
  <2>6. QED
    BY <1>2, <1>3, <1>11, <2>3, <2>4, <2>5, InboxFrame
<1>17. BatchInv' /\ LearnInv'
  <2>1. BatchInv'
    BY <1>2, <1>3, <1>11, <1>12, BatchFrame DEF RelayIInv
  <2>2. LearnInv'
    BY <1>2, <1>12, LearnFrame DEF RelayIInv
  <2>3. QED
    BY <2>1, <2>2
<1>18. MailOnceInv'
  <2>1. \A q \in Runs : Up(q)' => Up(q)
    BY <1>2 DEF Up
  <2>2. QED
    BY <1>2, <1>12, <2>1, MailOnceFrame DEF RelayIInv
<1>19. InboxOnceInv'
  <2> SUFFICES ASSUME ~repeated, "inbox" \notin crossed
               PROVE  /\ \A j \in InboxItems : published'[j] <= 1
                      /\ \A q \in Runs : pc[q] = "inbox" =>
                           \A k \in 1..Len(flags'[q]) :
                             ~flags'[q][k].processed => published'[flags'[q][k].item] = 0
    BY <1>2 DEF InboxOnceInv
  <2>1. /\ \A j \in InboxItems : published[j] <= 1
        /\ \A k \in 1..Len(rows) : ~rows[k].processed => published[rows[k].item] = 0
    BY <1>2 DEF RelayIInv, InboxOnceInv, rows
  <2>2. published[i] = 0
    BY <1>5, <2>1 DEF i
  <2>3. \A j \in InboxItems : published'[j] <= 1
    BY <1>11, <2>1, <2>2, Kinds
  <2>4. \A q \in Runs : pc[q] = "inbox" => q = r
    BY <1>2, <1>3 DEF InboxInv
  <2>5. /\ SameItems(rows, appended["inbox"]) /\ IsInjective(appended["inbox"])
        /\ appended["inbox"] \in Seq(Items)
    BY <1>2, <1>3, RelayTypes DEF InboxInv, rows, Files
  <2>6. ASSUME NEW k \in 1..Len(rows2), ~rows2[k].processed
        PROVE  published'[rows2[k].item] = 0
    <3>1. k # k0
      BY <1>9, <2>6
    <3>2. k \in 1..Len(rows) /\ rows2[k] = rows[k] /\ published[rows[k].item] = 0
      BY <1>9, <2>1, <2>6, <3>1
    <3>3. rows[k].item # i
      <4>1. /\ appended["inbox"][k] = rows[k].item /\ appended["inbox"][k0] = i
            /\ Len(appended["inbox"]) = Len(rows)
        BY <1>5, <2>5, <3>2 DEF SameItems, i
      <4>2. DOMAIN appended["inbox"] = 1..Len(rows)
        BY <2>5, <4>1
      <4>3. QED
        BY <1>5, <2>5, <3>1, <3>2, <4>1, <4>2 DEF IsInjective
    <3>4. rows[k].item \in Items
      BY <1>4, <3>2, RowsAt
    <3>5. QED
      BY <1>11, <3>2, <3>3, <3>4
  <2>7. flags'[r] = rows2
    BY DEF rows2
  <2>8. QED
    BY <2>3, <2>4, <2>6, <2>7
<1>20. QED
  BY <1>11, <1>13, <1>14, <1>15, <1>16, <1>17, <1>18, <1>19 DEF RelayIInv

LEMMA WriteFlagsStep ==
  ASSUME RelayIInv, NEW r \in Runs, WriteFlags(r) PROVE RelayIInv'
<1>1. /\ pc[r] = "inbox" /\ Pending(r) = {} /\ pc' = [pc EXCEPT ![r] = "flagged"]
      /\ flags' = [flags EXCEPT ![r] = <<>>]
      /\ UNCHANGED <<redis, todo, phase, copy, batch, last_check, sent, stamped, kills,
                     published, appended, crossed, repeated, in_time>>
  BY DEF WriteFlags, ghosts
<1>2. PICK content \in Written("inbox", r, flags[r]) :
        file' = [file EXCEPT !["inbox"] = content]
  BY DEF WriteFlags
<1>3. TypeOK /\ WorkInv /\ RowsInv /\ AloneInv /\ InboxInv
  BY DEF RelayIInv
<1>4. "inbox" \in Files
  BY DEF Files
<1>5. /\ pc' \in [Runs -> {"off", "repair", "up", "learned", "inbox", "flagged", "mail",
                           "done", "killed"}]
      /\ pc'[r] = "flagged" /\ \A q \in Runs \ {r} : pc'[q] = pc[q]
  BY <1>1, <1>3, MovesOn
<1>6. /\ flags \in [Runs -> Seq(RowSet)] /\ flags[r] \in Seq(RowSet)
      /\ Honest(flags[r]) /\ OfInbox(flags[r])
      /\ file \in [Files -> Seq(RowSet) \cup {Broken}] /\ Broken \notin Seq(RowSet)
  BY <1>3, RelayTypes DEF RowsInv
<1>7. /\ flags' \in [Runs -> Seq(RowSet)] /\ flags'[r] = <<>>
      /\ \A q \in Runs \ {r} : flags'[q] = flags[q]
  BY <1>1, <1>6, NoRows
<1>8. (content = flags[r] \/ content = Broken) /\ (~Busy("inbox", r) => content = flags[r])
  BY <1>2 DEF Written
<1>9. /\ file' \in [Files -> Seq(RowSet) \cup {Broken}] /\ file'["inbox"] = content
      /\ \A f \in Files \ {"inbox"} : file'[f] = file[f]
  BY <1>2, <1>4, <1>6, <1>8
<1>10. TypeOK'
  BY <1>1, <1>3, <1>5, <1>7, <1>9 DEF TypeOK, Actors, Threads, Rows, RowSet
<1>11. Later
  BY <1>1 DEF Later
<1>12. WorkInv'
  BY <1>1, <1>3, WorkFrame
<1>13. RowsInv'
  <2>1. \A f \in Files : file'[f] # Broken => Honest(file'[f])
    BY <1>3, <1>6, <1>8, <1>9 DEF RowsInv
  <2>2. file'["inbox"] # Broken => OfInbox(file'["inbox"])
    BY <1>6, <1>8, <1>9
  <2>3. \A q \in Runs : Honest(flags'[q]) /\ OfInbox(flags'[q])
    BY <1>3, <1>7, NoRows DEF RowsInv
  <2>4. QED
    BY <1>1, <1>3, <2>1, <2>2, <2>3 DEF RowsInv, Honest, OfInbox, Actors, Threads, Files
<1>14. \A y \in Actors, f \in Files : Writing(y, f)' <=> Writing(y, f)
  BY <1>1 DEF Writing, Target
<1>15. ASSUME "inbox" \notin crossed
       PROVE  /\ \A y \in Actors : ~Writing(y, "inbox")
              /\ \A q \in Runs : pc[q] = "inbox" => q = r
              /\ SameItems(flags[r], appended["inbox"]) /\ content = flags[r]
  <2>1. /\ \A y \in Actors : ~Writing(y, "inbox")
        /\ \A q \in Runs : pc[q] = "inbox" => q = r
        /\ SameItems(flags[r], appended["inbox"])
    BY <1>1, <1>3, <1>15 DEF InboxInv
  <2>2. ~Busy("inbox", r)
    <3>1. \A y \in Actors : phase[y] \in {"idle", "write"}
      BY <1>3, RelayTypes
    <3>2. \A y \in Actors : phase[y] # "idle" => Target(y) # "inbox"
      BY <2>1, <3>1 DEF Writing
    <3>3. QED
      BY <2>1, <3>2 DEF Busy
  <2>3. QED
    BY <1>8, <2>1, <2>2
<1>16. AloneInv'
  <2> SUFFICES ASSUME NEW f \in Files, f \notin crossed
               PROVE  /\ file'[f] # Broken /\ SameItems(file'[f], appended'[f])
                      /\ \A y \in Actors : Writing(y, f)' => copy'[y] = file'[f]
                      /\ \A y, z \in Actors : Writing(y, f)' /\ Writing(z, f)' => y = z
    BY <1>1 DEF AloneInv, SameItems, Actors, Threads, Files
  <2>1. CASE f = "inbox"
    BY <1>1, <1>6, <1>9, <1>14, <1>15, <2>1
  <2>2. CASE f # "inbox"
    <3>1. file'[f] = file[f] /\ appended'[f] = appended[f]
      BY <1>1, <1>9, <2>2
    <3>2. /\ file[f] # Broken /\ SameItems(file[f], appended[f])
          /\ \A y \in Actors : Writing(y, f) => copy[y] = file[f]
          /\ \A y, z \in Actors : Writing(y, f) /\ Writing(z, f) => y = z
      BY <1>3 DEF AloneInv
    <3>3. QED
      BY <1>1, <1>14, <3>1, <3>2
  <2>3. QED
    BY <2>1, <2>2
<1>17. InboxInv'
  <2>1. \A q \in Runs : pc'[q] = "inbox" => pc[q] = "inbox" /\ flags'[q] = flags[q]
    BY <1>5, <1>7
  <2>2. \A q \in Runs : pc[q] = "inbox" /\ "inbox" \notin crossed =>
          SameItems(flags[q], appended["inbox"])
    BY <1>3 DEF InboxInv
  <2>3. \A q \in Runs : pc'[q] = "inbox" /\ "inbox" \notin crossed =>
          pc[q] = "inbox" /\ SameItems(flags'[q], appended["inbox"])
    BY <2>1, <2>2
  <2>4. QED
    BY <1>1, <1>3, <1>4, <1>14, <2>3, InboxFrame
<1>18. BatchInv' /\ LearnInv'
  <2>1. \A q \in Runs : pc'[q] \in {"mail", "done"} => pc'[q] = pc[q]
    BY <1>5
  <2>2. \A q \in Runs : pc'[q] \in {"off", "repair", "up"} => pc[q] \in {"off", "repair", "up"}
    BY <1>5
  <2>3. BatchInv'
    BY <1>1, <1>3, <1>11, <2>1, BatchFrame DEF RelayIInv
  <2>4. LearnInv'
    BY <1>1, <2>2, LearnFrame DEF RelayIInv
  <2>5. QED
    BY <2>3, <2>4
<1>19. MailOnceInv'
  <2>1. \A q \in Runs :
          /\ Up(q)' => Up(q)
          /\ pc'[q] \in {"up", "learned", "inbox", "flagged"} =>
               pc[q] \in {"up", "learned", "inbox", "flagged"}
          /\ pc'[q] = "mail" => pc[q] = "mail"
    BY <1>1, <1>5 DEF Up
  <2>2. QED
    BY <1>1, <2>1, MailOnceFrame DEF RelayIInv
<1>20. InboxOnceInv'
  <2> SUFFICES ASSUME ~repeated, "inbox" \notin crossed
               PROVE  /\ \A i \in InboxItems : published[i] <= 1
                      /\ \A q \in Runs : pc'[q] # "inbox"
                      /\ \A k \in 1..Len(file'["inbox"]) : file'["inbox"][k].processed
    BY <1>1 DEF InboxOnceInv
  <2>1. \A i \in InboxItems : published[i] <= 1
    BY DEF RelayIInv, InboxOnceInv
  <2>2. \A q \in Runs : pc'[q] # "inbox"
    BY <1>5, <1>15
  <2>3. \A k \in 1..Len(flags[r]) : flags[r][k].processed
    BY <1>1, <1>6, RowsAt DEF Pending
  <2>4. QED
    BY <1>9, <1>15, <2>1, <2>2, <2>3
<1>21. QED
  BY <1>10, <1>12, <1>13, <1>16, <1>17, <1>18, <1>19, <1>20 DEF RelayIInv

LEMMA ReadMailStep ==
  ASSUME RelayIInv, NEW r \in Runs, ReadMail(r) PROVE RelayIInv'
<1>1. /\ pc[r] = "flagged" /\ pc' = [pc EXCEPT ![r] = "mail"]
      /\ in_time' = [in_time EXCEPT ![r] =
           IF "messages" \in crossed \/ Busy("messages", r) THEN {}
           ELSE (ToSet(appended["messages"]) \cap Mail) \ last_check[r]]
      /\ UNCHANGED <<redis, file, todo, phase, copy, flags, last_check, sent, stamped, kills,
                     published, appended, crossed, repeated>>
  BY DEF ReadMail, files
<1>2. PICK due \in {NewMail(r)} \cup (IF Busy("messages", r) THEN {{}} ELSE {}) :
        batch' = [batch EXCEPT ![r] = due]
  BY DEF ReadMail
<1>3. TypeOK /\ WorkInv /\ RowsInv /\ AloneInv /\ InboxInv /\ BatchInv
  BY DEF RelayIInv
<1>4. /\ "messages" \in Files /\ "inbox" \in Files
  BY DEF Files
<1>5. /\ pc' \in [Runs -> {"off", "repair", "up", "learned", "inbox", "flagged", "mail",
                           "done", "killed"}]
      /\ pc'[r] = "mail" /\ \A q \in Runs \ {r} : pc'[q] = pc[q]
  BY <1>1, <1>3, MovesOn
<1>6. (due = {} \/ due = NewMail(r)) /\ (~Busy("messages", r) => due = NewMail(r))
  OBVIOUS
<1>7. /\ file["messages"] \in Seq(RowSet) \cup {Broken}
      /\ appended["messages"] \in Seq(Items) /\ batch \in [Runs -> SUBSET Mail]
      /\ last_check \in [Runs -> SUBSET Mail] /\ in_time \in [Runs -> SUBSET Mail]
  BY <1>3, <1>4, RelayTypes
<1>8. /\ Content("messages") \in Seq(RowSet) /\ Honest(Content("messages"))
      /\ file["messages"] # Broken => Content("messages") = file["messages"]
  BY <1>3, <1>4, <1>7, NoRows DEF Content, RowsInv
<1> DEFINE rows == Content("messages")
<1>9. \A i \in Mail : i \in {m.item : m \in ToSet(rows)} <=> \E k \in 1..Len(rows) : rows[k].item = i
  <2>1. \A m : m \in ToSet(rows) <=> \E k \in 1..Len(rows) : rows[k] = m
    BY <1>8, InSet
  <2> HIDE DEF rows
  <2>2. QED
    BY <2>1
<1>10. /\ NewMail(r) \subseteq Mail /\ NewMail(r) \subseteq stamped
       /\ \A i \in NewMail(r) : i \notin last_check[r]
       /\ \A i \in Mail : i \notin last_check[r] /\ (\E k \in 1..Len(rows) : rows[k].item = i)
                          => i \in NewMail(r)
  <2>1. NewMail(r) = {i \in Mail : i \notin last_check[r] /\ i \in {m.item : m \in ToSet(rows)}}
    BY DEF NewMail
  <2>2. Honest(rows)
    BY <1>8
  <2> HIDE DEF rows
  <2>3. \A i \in NewMail(r) : \E k \in 1..Len(rows) : rows[k].item = i
    BY <1>9, <2>1
  <2>4. NewMail(r) \subseteq stamped
    BY <2>1, <2>2, <2>3 DEF Honest
  <2>5. QED
    BY <1>9, <2>1, <2>4
<1>11. /\ batch' \in [Runs -> SUBSET Mail] /\ batch'[r] = due
       /\ \A q \in Runs \ {r} : batch'[q] = batch[q]
  BY <1>2, <1>6, <1>7, <1>10
<1>12. /\ in_time' \in [Runs -> SUBSET Mail] /\ in_time'[r] \subseteq due
       /\ \A q \in Runs \ {r} : in_time'[q] = in_time[q]
  <2> DEFINE there == IF "messages" \in crossed \/ Busy("messages", r) THEN {}
                      ELSE (ToSet(appended["messages"]) \cap Mail) \ last_check[r]
  <2>1. there \subseteq Mail
    OBVIOUS
  <2>2. there \subseteq due
    <3> SUFFICES ASSUME NEW i \in there PROVE i \in due
      OBVIOUS
    <3>1. /\ "messages" \notin crossed /\ due = NewMail(r) /\ i \in Mail
          /\ i \in ToSet(appended["messages"]) /\ i \notin last_check[r]
      BY <1>6
    <3>2. PICK k \in 1..Len(appended["messages"]) : appended["messages"][k] = i
      BY <1>7, <3>1, InSet
    <3>3. SameItems(rows, appended["messages"])
      BY <1>3, <1>4, <1>8, <3>1 DEF AloneInv
    <3> HIDE DEF rows, there
    <3>4. k \in 1..Len(rows) /\ rows[k].item = i
      BY <3>2, <3>3 DEF SameItems
    <3>5. QED
      BY <1>10, <3>1, <3>4
  <2>3. in_time' = [in_time EXCEPT ![r] = there]
    BY <1>1
  <2> HIDE DEF there
  <2>4. QED
    BY <1>7, <2>1, <2>2, <2>3
<1> HIDE DEF rows
<1>13. TypeOK'
  BY <1>1, <1>3, <1>5, <1>11, <1>12 DEF TypeOK, Actors, Threads
<1>14. Later
  BY <1>1 DEF Later
<1>15. WorkInv' /\ RowsInv' /\ AloneInv'
  BY <1>1, <1>14, FilesFrame
<1>16. InboxInv'
  <2>1. \A q \in Runs : pc'[q] = "inbox" => pc[q] = "inbox"
    BY <1>5
  <2>2. \A q \in Runs : pc[q] = "inbox" /\ "inbox" \notin crossed =>
          SameItems(flags[q], appended["inbox"])
    BY <1>3 DEF InboxInv
  <2>3. \A y \in Actors : Writing(y, "inbox")' => Writing(y, "inbox")
    BY <1>1 DEF Writing, Target
  <2>4. QED
    BY <1>1, <1>3, <2>1, <2>2, <2>3, InboxFrame
<1>17. BatchInv'
  <2>1. \A q \in Runs : batch'[q] \subseteq stamped
    BY <1>3, <1>6, <1>10, <1>11 DEF BatchInv
  <2>2. \A q \in Runs :
          /\ pc'[q] = "mail" => \A i \in in_time'[q] : published[i] > 0 \/ i \in batch'[q]
          /\ pc'[q] = "done" => \A i \in in_time'[q] : published[i] > 0
    <3>1. ASSUME NEW q \in Runs, q # r
          PROVE  pc'[q] = pc[q] /\ in_time'[q] = in_time[q] /\ batch'[q] = batch[q]
      BY <1>5, <1>11, <1>12, <3>1
    <3>2. QED
      BY <1>3, <1>5, <1>11, <1>12, <3>1 DEF BatchInv
  <2>3. QED
    BY <1>1, <1>3, <2>1, <2>2 DEF BatchInv
<1>18. LearnInv'
  <2>1. \A q \in Runs : pc'[q] \in {"off", "repair", "up"} => pc[q] \in {"off", "repair", "up"}
    BY <1>5
  <2>2. QED
    BY <1>1, <2>1, LearnFrame DEF RelayIInv
<1>19. MailOnceInv'
  <2> SUFFICES ASSUME ~repeated
               PROVE  /\ \A q, s \in Runs : Up(q)' /\ Up(s)' => q = s
                      /\ \A i \in Mail : published[i] <= 1
                      /\ \A q \in Runs, i \in Mail : published[i] > 0 =>
                           /\ pc'[q] \in {"up", "learned", "inbox", "flagged"} => i \in last_check[q]
                           /\ pc'[q] = "mail" => i \notin batch'[q]
    BY <1>1 DEF MailOnceInv, Up
  <2>1. /\ \A q, s \in Runs : Up(q) /\ Up(s) => q = s
        /\ \A i \in Mail : published[i] <= 1
        /\ \A q \in Runs, i \in Mail : published[i] > 0 =>
             /\ pc[q] \in {"up", "learned", "inbox", "flagged"} => i \in last_check[q]
             /\ pc[q] = "mail" => i \notin batch[q]
    BY DEF RelayIInv, MailOnceInv
  <2>2. \A q \in Runs : Up(q)' => Up(q)
    BY <1>1, <1>5 DEF Up
  <2>3. ASSUME NEW i \in Mail, published[i] > 0 PROVE i \notin batch'[r]
    <3>1. i \in last_check[r]
      BY <1>1, <2>1, <2>3
    <3>2. QED
      BY <1>6, <1>10, <1>11, <3>1
  <2>4. QED
    BY <1>5, <1>11, <2>1, <2>2, <2>3
<1>20. InboxOnceInv'
  <2>1. \A q \in Runs : pc'[q] = "inbox" <=> pc[q] = "inbox"
    BY <1>1, <1>5
  <2>2. QED
    BY <1>1, <1>3, <2>1, InboxOnceFrame DEF RelayIInv
<1>21. QED
  BY <1>13, <1>15, <1>16, <1>17, <1>18, <1>19, <1>20 DEF RelayIInv

LEMMA PublishMailStep ==
  ASSUME RelayIInv, NEW r \in Runs, PublishMail(r) PROVE RelayIInv'
<1>1. PICK i \in batch[r] : Publish(r, i) /\ batch' = [batch EXCEPT ![r] = @ \ {i}]
  BY DEF PublishMail
<1>2. /\ pc[r] = "mail"
      /\ UNCHANGED <<redis, file, phase, copy, pc, flags, last_check, sent, stamped, kills,
                     appended, crossed, repeated, in_time>>
  BY DEF PublishMail, ghosts
<1>3. TypeOK /\ WorkInv /\ RowsInv /\ AloneInv /\ InboxInv /\ BatchInv
  BY DEF RelayIInv
<1>4. batch \in [Runs -> SUBSET Mail] /\ published \in [Items -> Nat]
  BY <1>3, RelayTypes
<1>5. i \in Mail /\ i \in Items /\ i \notin Runs /\ i \notin InboxItems /\ i \in stamped
  BY <1>1, <1>3, <1>4, Kinds DEF BatchInv
<1>6. /\ batch' \in [Runs -> SUBSET Mail] /\ batch'[r] = batch[r] \ {i}
      /\ \A q \in Runs \ {r} : batch'[q] = batch[q]
  BY <1>1, <1>4
<1>7. /\ published' \in [Items -> Nat] /\ published'[i] = published[i] + 1
      /\ \A j \in Items \ {i} : published'[j] = published[j]
      /\ Later /\ WorkInv' /\ todo' \in [Actors -> Seq(Ops)]
      /\ \A x \in Actors, f \in Files : Writing(x, f)' => Writing(x, f)
      /\ \A x \in InboxItems : todo'[x] = todo[x]
  <2>1. sent \subseteq sent'
    BY <1>2
  <2>2. QED
    BY <1>1, <1>2, <1>3, <1>5, <2>1, PublishFacts
<1>8. /\ \A j \in InboxItems \cup Runs : published'[j] = published[j]
      /\ \A j \in Mail : published'[j] > 0 => published[j] > 0 \/ j = i
      /\ published'[i] > 0
  BY <1>4, <1>5, <1>7, Kinds
<1>9. TypeOK'
  BY <1>2, <1>3, <1>6, <1>7 DEF TypeOK, Actors, Threads, Ops
<1>10. RowsInv'
  BY <1>2, <1>3, <1>7, RowsFrame
<1>11. AloneInv'
  BY <1>2, <1>3, <1>7, AloneFrame
<1>12. InboxInv'
  <2>1. \A q \in Runs : pc[q] = "inbox" /\ "inbox" \notin crossed =>
          SameItems(flags[q], appended["inbox"])
    BY <1>3 DEF InboxInv
  <2>2. "inbox" \in Files
    BY DEF Files
  <2>3. QED
    BY <1>2, <1>3, <1>7, <1>8, <2>1, <2>2, InboxFrame
<1>13. BatchInv'
  <2>1. \A q \in Runs : batch'[q] \subseteq stamped
    BY <1>3, <1>6 DEF BatchInv
  <2>2. \A j \in Mail : published'[j] > 0 => j \in stamped
    BY <1>3, <1>5, <1>8 DEF BatchInv
  <2>3. \A j \in Mail : published[j] > 0 => published'[j] > 0
    BY <1>7, Kinds DEF Later
  <2>4. \A q \in Runs : in_time[q] \subseteq Mail
    BY <1>3, RelayTypes
  <2>5. \A q \in Runs :
          /\ pc[q] = "mail" => \A j \in in_time[q] : published'[j] > 0 \/ j \in batch'[q]
          /\ pc[q] = "done" => \A j \in in_time[q] : published'[j] > 0
    BY <1>3, <1>6, <1>8, <2>3, <2>4 DEF BatchInv
  <2>6. QED
    BY <1>2, <2>1, <2>2, <2>5 DEF BatchInv
<1>14. LearnInv'
  BY <1>2, <1>8, LearnFrame DEF RelayIInv
<1>15. MailOnceInv'
  <2> SUFFICES ASSUME ~repeated
               PROVE  /\ \A q, s \in Runs : Up(q) /\ Up(s) => q = s
                      /\ \A j \in Mail : published'[j] <= 1
                      /\ \A q \in Runs, j \in Mail : published'[j] > 0 =>
                           /\ pc[q] \in {"up", "learned", "inbox", "flagged"} => j \in last_check[q]
                           /\ pc[q] = "mail" => j \notin batch'[q]
    BY <1>2 DEF MailOnceInv, Up
  <2>1. /\ \A q, s \in Runs : Up(q) /\ Up(s) => q = s
        /\ \A j \in Mail : published[j] <= 1
        /\ \A q \in Runs, j \in Mail : published[j] > 0 =>
             /\ pc[q] \in {"up", "learned", "inbox", "flagged"} => j \in last_check[q]
             /\ pc[q] = "mail" => j \notin batch[q]
    BY DEF RelayIInv, MailOnceInv
  <2>2. published[i] = 0
    <3>1. ~(published[i] > 0)
      BY <1>1, <1>2, <1>5, <2>1
    <3>2. QED
      BY <1>4, <1>5, <3>1
  <2>3. \A j \in Mail : published'[j] <= 1
    BY <1>7, <2>1, <2>2, Kinds
  <2>4. \A q \in Runs \ {r} : pc[q] \notin {"up", "learned", "inbox", "flagged", "mail"}
    BY <1>2, <2>1 DEF Up
  <2>5. \A j \in Mail : published'[j] > 0 => j \notin batch'[r]
    BY <1>2, <1>6, <1>8, <2>1
  <2>6. QED
    BY <1>2, <2>1, <2>3, <2>4, <2>5
<1>16. InboxOnceInv'
  BY <1>2, <1>3, <1>8, InboxOnceFrame DEF RelayIInv
<1>17. QED
  BY <1>7, <1>9, <1>10, <1>11, <1>12, <1>13, <1>14, <1>15, <1>16 DEF RelayIInv

\* What the threads of a run that ends have open.
LEMMA OpenFiles ==
  ASSUME TypeOK, WorkInv, NEW gone \in SUBSET Actors
  PROVE  {Target(x) : x \in {y \in gone : phase[y] = "write"}} \in SUBSET Files
<1>1. \A x \in gone : phase[x] = "write" => Target(x) \in Files
  BY FirstOp DEF WorkInv
<1>2. QED
  BY <1>1

LEMMA CheckStep ==
  ASSUME RelayIInv, NEW r \in Runs, Check(r) PROVE RelayIInv'
<1> DEFINE gone == {x \in Threads : x[2] = r}
           open == {Target(x) : x \in {y \in gone : phase[y] = "write"}}
<1>1. /\ pc[r] = "mail" /\ batch[r] = {} /\ pc' = [pc EXCEPT ![r] = "done"]
      /\ last_check' = [last_check EXCEPT ![r] = stamped] /\ End(gone, open)
      /\ UNCHANGED <<redis, batch, flags, sent, stamped, kills, published, repeated, in_time>>
  BY DEF Check, Checked
<1>2. TypeOK /\ WorkInv /\ RowsInv /\ AloneInv /\ InboxInv /\ BatchInv
  BY DEF RelayIInv
<1>3. open \in SUBSET Files
  BY <1>2, OpenFiles, Kinds
<1> HIDE DEF gone, open
<1>4. /\ todo' \in [Actors -> Seq(Ops)] /\ phase' \in [Actors -> {"idle", "write"}]
      /\ copy' \in [Actors -> Seq(RowSet)] /\ file' \in [Files -> Seq(RowSet) \cup {Broken}]
      /\ appended' \in [Files -> Seq(Items)] /\ crossed \subseteq crossed'
      /\ crossed' \subseteq Files /\ WorkInv'
      /\ \A f \in Files : file'[f] = file[f] \/ file'[f] = Broken
      /\ \A x \in Actors : copy'[x] = copy[x] \/ copy'[x] = <<>>
      /\ \A x \in Actors : todo'[x] = todo[x] \/ todo'[x] = <<>>
      /\ \A f \in Files \ crossed' :
           /\ file'[f] = file[f] /\ appended'[f] = appended[f]
           /\ \A y \in Actors : Writing(y, f)' => Writing(y, f) /\ copy'[y] = copy[y]
  BY <1>1, <1>2, <1>3, EndFacts
<1>5. /\ pc' \in [Runs -> {"off", "repair", "up", "learned", "inbox", "flagged", "mail",
                           "done", "killed"}]
      /\ pc'[r] = "done" /\ \A q \in Runs \ {r} : pc'[q] = pc[q]
  BY <1>1, <1>2, MovesOn
<1>6. /\ last_check' \in [Runs -> SUBSET Mail]
      /\ \A q \in Runs \ {r} : last_check'[q] = last_check[q]
  BY <1>1, <1>2 DEF TypeOK
<1>7. TypeOK'
  BY <1>1, <1>2, <1>4, <1>5, <1>6 DEF TypeOK, Actors, Threads, Rows, RowSet, Ops
<1>8. Later
  BY <1>1 DEF Later
<1>9. RowsInv'
  BY <1>1, <1>2, <1>4, <1>8, RowsFrame
<1>10. AloneInv'
  BY <1>2, <1>4, AloneFrame
<1>11. "inbox" \in Files
  BY DEF Files
<1>12. InboxInv'
  <2>1. \A q \in Runs : pc'[q] = "inbox" => pc[q] = "inbox"
    BY <1>5
  <2>2. \A q \in Runs : pc[q] = "inbox" /\ "inbox" \notin crossed =>
          SameItems(flags[q], appended["inbox"])
    BY <1>2 DEF InboxInv
  <2>3. \A y \in InboxItems : todo'[y] # <<>> => todo[y] # <<>>
    BY <1>4, Kinds
  <2>4. QED
    BY <1>1, <1>2, <1>4, <1>11, <2>1, <2>2, <2>3, InboxFrame
<1>13. BatchInv'
  <2>1. \A i \in in_time[r] : published[i] > 0
    BY <1>1, <1>2 DEF BatchInv
  <2>2. QED
    BY <1>1, <1>2, <1>5, <2>1 DEF BatchInv
<1>14. LearnInv'
  <2>1. \A q \in Runs : pc'[q] \in {"off", "repair", "up"} => pc[q] \in {"off", "repair", "up"}
    BY <1>5
  <2>2. QED
    BY <1>1, <2>1, LearnFrame DEF RelayIInv
<1>15. MailOnceInv'
  <2>1. \A q \in Runs :
          /\ Up(q)' => Up(q)
          /\ pc'[q] \in {"up", "learned", "inbox", "flagged"} =>
               pc[q] \in {"up", "learned", "inbox", "flagged"} /\ last_check'[q] = last_check[q]
          /\ pc'[q] = "mail" => pc[q] = "mail"
    BY <1>5, <1>6 DEF Up
  <2>2. QED
    BY <1>1, <2>1, MailOnceFrame DEF RelayIInv
<1>16. InboxOnceInv'
  <2>1. \A q \in Runs : pc'[q] = "inbox" <=> pc[q] = "inbox"
    BY <1>1, <1>5
  <2>2. QED
    BY <1>1, <1>2, <1>4, <1>11, <2>1, InboxOnceFrame DEF RelayIInv
<1>17. QED
  BY <1>4, <1>7, <1>9, <1>10, <1>12, <1>13, <1>14, <1>15, <1>16 DEF RelayIInv

\* What both ways to end early have in common.
LEMMA DieFacts ==
  ASSUME RelayIInv, NEW r \in Runs, Die(r), kills' \in 0..MaxKills, repeated' \in BOOLEAN
  PROVE  /\ TypeOK' /\ WorkInv' /\ RowsInv' /\ AloneInv' /\ InboxInv' /\ BatchInv' /\ LearnInv'
         /\ published' = published /\ crossed \subseteq crossed' /\ pc'[r] = "killed"
         /\ \A q \in Runs \ {r} : /\ pc'[q] = pc[q] /\ flags'[q] = flags[q]
                                  /\ batch'[q] = batch[q]
         /\ last_check' = last_check
         /\ "inbox" \notin crossed' => file'["inbox"] = file["inbox"]
<1> DEFINE gone == {r} \cup {x \in Threads : x[2] = r}
           open == {Target(x) : x \in {y \in gone : phase[y] = "write"}}
                   \cup (IF pc[r] = "inbox" THEN {"inbox"} ELSE {})
<1>1. /\ pc' = [pc EXCEPT ![r] = "killed"] /\ End(gone, open)
      /\ batch' = [batch EXCEPT ![r] = {}] /\ flags' = [flags EXCEPT ![r] = <<>>]
      /\ UNCHANGED <<redis, last_check, sent, stamped, published, in_time>>
  BY DEF Die
<1>2. TypeOK /\ WorkInv /\ RowsInv /\ AloneInv /\ InboxInv /\ BatchInv
  BY DEF RelayIInv
<1>3. open \in SUBSET Files /\ "inbox" \in Files
  <2>1. gone \in SUBSET Actors
    BY Kinds
  <2> HIDE DEF gone
  <2>2. {Target(x) : x \in {y \in gone : phase[y] = "write"}} \in SUBSET Files
    BY <1>2, <2>1, OpenFiles
  <2>3. "inbox" \in Files
    BY DEF Files
  <2>4. QED
    BY <2>2, <2>3
<1> HIDE DEF gone, open
<1>4. /\ todo' \in [Actors -> Seq(Ops)] /\ phase' \in [Actors -> {"idle", "write"}]
      /\ copy' \in [Actors -> Seq(RowSet)] /\ file' \in [Files -> Seq(RowSet) \cup {Broken}]
      /\ appended' \in [Files -> Seq(Items)] /\ crossed \subseteq crossed'
      /\ crossed' \subseteq Files /\ WorkInv'
      /\ \A f \in Files : file'[f] = file[f] \/ file'[f] = Broken
      /\ \A x \in Actors : copy'[x] = copy[x] \/ copy'[x] = <<>>
      /\ \A x \in Actors : todo'[x] = todo[x] \/ todo'[x] = <<>>
      /\ \A f \in Files \ crossed' :
           /\ file'[f] = file[f] /\ appended'[f] = appended[f]
           /\ \A y \in Actors : Writing(y, f)' => Writing(y, f) /\ copy'[y] = copy[y]
  BY <1>1, <1>2, <1>3, EndFacts
<1>5. /\ pc' \in [Runs -> {"off", "repair", "up", "learned", "inbox", "flagged", "mail",
                           "done", "killed"}]
      /\ pc'[r] = "killed" /\ \A q \in Runs \ {r} : pc'[q] = pc[q]
  BY <1>1, <1>2, MovesOn
<1>6. /\ batch' \in [Runs -> SUBSET Mail] /\ batch'[r] = {}
      /\ \A q \in Runs \ {r} : batch'[q] = batch[q]
      /\ flags' \in [Runs -> Seq(RowSet)] /\ flags'[r] = <<>>
      /\ \A q \in Runs \ {r} : flags'[q] = flags[q]
  <2>1. batch \in [Runs -> SUBSET Mail] /\ flags \in [Runs -> Seq(RowSet)]
    BY <1>2, RelayTypes
  <2>2. QED
    BY <1>1, <2>1, NoRows
<1>8. TypeOK'
  BY <1>1, <1>2, <1>4, <1>5, <1>6 DEF TypeOK, Actors, Threads, Rows, RowSet, Ops
<1>9. Later
  BY <1>1 DEF Later
<1>10. RowsInv'
  <2>1. \A q \in Runs : flags'[q] = flags[q] \/ flags'[q] = <<>>
    BY <1>6
  <2>2. QED
    BY <1>2, <1>4, <1>9, <2>1, RowsFrame
<1>11. AloneInv'
  BY <1>2, <1>4, AloneFrame
<1>12. InboxInv'
  <2>1. \A q \in Runs : pc'[q] = "inbox" => pc[q] = "inbox" /\ flags'[q] = flags[q]
    BY <1>5, <1>6
  <2>2. \A q \in Runs : pc[q] = "inbox" /\ "inbox" \notin crossed =>
          SameItems(flags[q], appended["inbox"])
    BY <1>2 DEF InboxInv
  <2>3. \A y \in InboxItems : todo'[y] # <<>> => todo[y] # <<>>
    BY <1>4, Kinds
  <2>4. \A q \in Runs : pc'[q] = "inbox" /\ "inbox" \notin crossed =>
          pc[q] = "inbox" /\ SameItems(flags'[q], appended["inbox"])
    BY <2>1, <2>2
  <2>5. QED
    BY <1>1, <1>2, <1>3, <1>4, <2>3, <2>4, InboxFrame
<1>13. BatchInv'
  <2>1. \A q \in Runs : \/ batch'[q] = batch[q] /\ (pc'[q] \in {"mail", "done"} => pc'[q] = pc[q])
                        \/ batch'[q] = {} /\ pc'[q] = "killed"
    BY <1>5, <1>6
  <2>2. QED
    BY <1>1, <1>2, <1>9, <2>1, BatchFrame
<1>14. LearnInv'
  <2>1. \A q \in Runs : pc'[q] \in {"off", "repair", "up"} => pc[q] \in {"off", "repair", "up"}
    BY <1>5
  <2>2. QED
    BY <1>1, <2>1, LearnFrame DEF RelayIInv
<1>15. QED
  BY <1>1, <1>3, <1>4, <1>5, <1>6, <1>8, <1>10, <1>11, <1>12, <1>13, <1>14

LEMMA KillStep ==
  ASSUME RelayIInv, NEW r \in Runs, Kill(r) PROVE RelayIInv'
<1>1. kills < MaxKills /\ kills' = kills + 1 /\ repeated' = TRUE /\ Die(r)
  BY DEF Kill
<1>2. kills' \in 0..MaxKills
  BY <1>1, RelayAssumption DEF TypeOK, RelayIInv
<1>3. MailOnceInv' /\ InboxOnceInv'
  BY <1>1 DEF MailOnceInv, InboxOnceInv
<1>4. QED
  BY <1>1, <1>2, <1>3, DieFacts DEF RelayIInv

LEMMA RaiseStep ==
  ASSUME RelayIInv, NEW r \in Runs, Raise(r) PROVE RelayIInv'
<1>1. pc[r] \in {"up", "learned", "mail"} /\ Die(r) /\ UNCHANGED <<kills, repeated>>
  BY DEF Raise
<1>2. kills' \in 0..MaxKills /\ repeated' \in BOOLEAN
  BY <1>1 DEF TypeOK, RelayIInv
<1>3. /\ TypeOK' /\ WorkInv' /\ RowsInv' /\ AloneInv' /\ InboxInv' /\ BatchInv' /\ LearnInv'
      /\ published' = published /\ crossed \subseteq crossed' /\ pc'[r] = "killed"
      /\ \A q \in Runs \ {r} : /\ pc'[q] = pc[q] /\ flags'[q] = flags[q]
                               /\ batch'[q] = batch[q]
      /\ last_check' = last_check
      /\ "inbox" \notin crossed' => file'["inbox"] = file["inbox"]
  BY <1>1, <1>2, DieFacts
<1>4. MailOnceInv'
  <2>1. \A q \in Runs :
          /\ Up(q)' => Up(q)
          /\ pc'[q] \in {"up", "learned", "inbox", "flagged"} =>
               pc[q] \in {"up", "learned", "inbox", "flagged"}
          /\ pc'[q] = "mail" => pc[q] = "mail" /\ batch'[q] = batch[q]
    BY <1>3 DEF Up
  <2>2. QED
    BY <1>1, <1>3, <2>1, MailOnceFrame DEF RelayIInv
<1>5. InboxOnceInv'
  <2>1. \A q \in Runs : /\ pc'[q] = "inbox" <=> pc[q] = "inbox"
                        /\ pc'[q] = "inbox" => flags'[q] = flags[q]
    BY <1>1, <1>3
  <2>2. QED
    BY <1>1, <1>3, <2>1, InboxOnceFrame DEF RelayIInv
<1>6. QED
  BY <1>3, <1>4, <1>5 DEF RelayIInv

\* Whoever leaves the inbox early leaves the flags of what it has published behind.
LEMMA LeaveInboxStep ==
  ASSUME RelayIInv, NEW r \in Runs, LeaveInbox(r) PROVE RelayIInv'
<1> DEFINE open == IF Pending(r) = {} THEN {"inbox"} ELSE {}
<1>1. /\ pc[r] = "inbox" /\ pc' = [pc EXCEPT ![r] = "flagged"]
      /\ flags' = [flags EXCEPT ![r] = <<>>] /\ repeated' = TRUE /\ End({r}, open)
      /\ UNCHANGED <<redis, batch, last_check, sent, stamped, kills, published, in_time>>
  BY DEF LeaveInbox
<1>2. TypeOK /\ WorkInv /\ RowsInv /\ AloneInv /\ InboxInv /\ BatchInv
  BY DEF RelayIInv
<1>3. open \in SUBSET Files /\ "inbox" \in Files
  BY DEF Files
<1> HIDE DEF open
<1>4. /\ todo' \in [Actors -> Seq(Ops)] /\ phase' \in [Actors -> {"idle", "write"}]
      /\ copy' \in [Actors -> Seq(RowSet)] /\ file' \in [Files -> Seq(RowSet) \cup {Broken}]
      /\ appended' \in [Files -> Seq(Items)] /\ crossed \subseteq crossed'
      /\ crossed' \subseteq Files /\ WorkInv'
      /\ \A f \in Files : file'[f] = file[f] \/ file'[f] = Broken
      /\ \A x \in Actors : copy'[x] = copy[x] \/ copy'[x] = <<>>
      /\ \A x \in Actors : todo'[x] = todo[x] \/ todo'[x] = <<>>
      /\ \A f \in Files \ crossed' :
           /\ file'[f] = file[f] /\ appended'[f] = appended[f]
           /\ \A y \in Actors : Writing(y, f)' => Writing(y, f) /\ copy'[y] = copy[y]
  BY <1>1, <1>2, <1>3, EndFacts
<1>5. /\ pc' \in [Runs -> {"off", "repair", "up", "learned", "inbox", "flagged", "mail",
                           "done", "killed"}]
      /\ pc'[r] = "flagged" /\ \A q \in Runs \ {r} : pc'[q] = pc[q]
  BY <1>1, <1>2, MovesOn
<1>6. /\ flags' \in [Runs -> Seq(RowSet)] /\ flags'[r] = <<>>
      /\ \A q \in Runs \ {r} : flags'[q] = flags[q]
  <2>1. flags \in [Runs -> Seq(RowSet)]
    BY <1>2, RelayTypes
  <2>2. QED
    BY <1>1, <2>1, NoRows
<1>8. TypeOK'
  BY <1>1, <1>2, <1>4, <1>5, <1>6 DEF TypeOK, Actors, Threads, Rows, RowSet, Ops
<1>9. Later
  BY <1>1 DEF Later
<1>10. RowsInv'
  <2>1. \A q \in Runs : flags'[q] = flags[q] \/ flags'[q] = <<>>
    BY <1>6
  <2>2. QED
    BY <1>2, <1>4, <1>9, <2>1, RowsFrame
<1>11. AloneInv'
  BY <1>2, <1>4, AloneFrame
<1>12. InboxInv'
  <2>1. \A q \in Runs : pc'[q] = "inbox" => pc[q] = "inbox" /\ flags'[q] = flags[q]
    BY <1>5, <1>6
  <2>2. \A q \in Runs : pc[q] = "inbox" /\ "inbox" \notin crossed =>
          SameItems(flags[q], appended["inbox"])
    BY <1>2 DEF InboxInv
  <2>3. \A y \in InboxItems : todo'[y] # <<>> => todo[y] # <<>>
    BY <1>4, Kinds
  <2>4. \A q \in Runs : pc'[q] = "inbox" /\ "inbox" \notin crossed =>
          pc[q] = "inbox" /\ SameItems(flags'[q], appended["inbox"])
    BY <2>1, <2>2
  <2>5. QED
    BY <1>1, <1>2, <1>3, <1>4, <2>3, <2>4, InboxFrame
<1>13. BatchInv'
  <2>1. \A q \in Runs : pc'[q] \in {"mail", "done"} => pc'[q] = pc[q]
    BY <1>5
  <2>2. QED
    BY <1>1, <1>2, <1>9, <2>1, BatchFrame
<1>14. LearnInv'
  <2>1. \A q \in Runs : pc'[q] \in {"off", "repair", "up"} => pc[q] \in {"off", "repair", "up"}
    BY <1>5
  <2>2. QED
    BY <1>1, <2>1, LearnFrame DEF RelayIInv
<1>15. MailOnceInv' /\ InboxOnceInv'
  BY <1>1 DEF MailOnceInv, InboxOnceInv
<1>16. QED
  BY <1>4, <1>8, <1>10, <1>11, <1>12, <1>13, <1>14, <1>15 DEF RelayIInv

-----------------------------------------------------------------------------

LEMMA RelaySteps == RelayIInv /\ Next => RelayIInv'
<1> SUFFICES ASSUME RelayIInv, Next PROVE RelayIInv'
  OBVIOUS
<1>1. CASE \E x \in Actors : ReadFile(x) \/ WriteFile(x) \/ AgentSends(x)
  BY <1>1, ReadFileStep, WriteFileStep, AgentSendsStep
<1>2. ASSUME NEW r \in Runs, Repair(r) \/ Start(r) \/ Learn(r) \/ ReadInbox(r)
      PROVE  RelayIInv'
  BY <1>2, RepairStep, StartStep, LearnStep, ReadInboxStep
<1>3. ASSUME NEW r \in Runs, PublishInbox(r) \/ WriteFlags(r) \/ ReadMail(r)
      PROVE  RelayIInv'
  BY <1>3, PublishInboxStep, WriteFlagsStep, ReadMailStep
<1>4. ASSUME NEW r \in Runs, PublishMail(r) \/ Check(r) \/ Kill(r)
      PROVE  RelayIInv'
  BY <1>4, PublishMailStep, CheckStep, KillStep
<1>5. ASSUME NEW r \in Runs, LeaveInbox(r) \/ Raise(r) PROVE RelayIInv'
  BY <1>5, LeaveInboxStep, RaiseStep
<1>6. QED
  BY <1>1, <1>2, <1>3, <1>4, <1>5 DEF Next

LEMMA RelayStill == RelayIInv /\ UNCHANGED vars => RelayIInv'
<1> SUFFICES ASSUME RelayIInv, UNCHANGED vars PROVE RelayIInv'
  OBVIOUS
<1>1. UNCHANGED <<redis, file, todo, phase, copy, pc, batch, flags, last_check, sent, stamped,
                  kills, published, appended, crossed, repeated, in_time>>
  BY DEF vars, files, ghosts
<1>2. TypeOK /\ RowsInv /\ AloneInv /\ InboxInv
  BY DEF RelayIInv
<1>3. TypeOK'
  BY <1>1, <1>2 DEF TypeOK, Actors, Threads
<1>4. Later
  BY <1>1 DEF Later
<1>5. WorkInv' /\ RowsInv' /\ AloneInv'
  BY <1>1, <1>4, FilesFrame
<1>6. InboxInv'
  <2>1. \A q \in Runs : pc[q] = "inbox" /\ "inbox" \notin crossed =>
          SameItems(flags[q], appended["inbox"])
    BY <1>2 DEF InboxInv
  <2>2. \A y \in Actors : Writing(y, "inbox")' => Writing(y, "inbox")
    BY <1>1 DEF Writing, Target
  <2>3. QED
    BY <1>1, <1>2, <2>1, <2>2, InboxFrame
<1>7. BatchInv' /\ LearnInv' /\ InboxOnceInv'
  <2>1. BatchInv'
    BY <1>1, <1>4, BatchFrame DEF RelayIInv
  <2>2. LearnInv'
    BY <1>1, LearnFrame DEF RelayIInv
  <2>3. InboxOnceInv'
    BY <1>1, InboxOnceFrame DEF RelayIInv
  <2>4. QED
    BY <2>1, <2>2, <2>3
<1>8. MailOnceInv'
  <2>1. \A q \in Runs : Up(q)' => Up(q)
    BY <1>1 DEF Up
  <2>2. QED
    BY <1>1, <2>1, MailOnceFrame DEF RelayIInv
<1>9. QED
  BY <1>3, <1>5, <1>6, <1>7, <1>8 DEF RelayIInv

LEMMA RelayMeans == RelayIInv => RelayIsSound
<1> SUFFICES ASSUME RelayIInv PROVE RelayIsSound
  OBVIOUS
<1>1. TypeOK /\ RowsInv /\ AloneInv /\ BatchInv /\ LearnInv /\ MailOnceInv /\ InboxOnceInv
  BY DEF RelayIInv
<1>2. "inbox" \in Files
  BY DEF Files
<1>3. ProcessedMeansPublished
  <2> SUFFICES ASSUME file["inbox"] # Broken, NEW m \in ToSet(file["inbox"]), m.processed
               PROVE  published[m.item] > 0
    BY DEF ProcessedMeansPublished
  <2>1. file["inbox"] \in Seq(RowSet) /\ Honest(file["inbox"])
    BY <1>1, <1>2, RelayTypes DEF RowsInv
  <2>2. PICK k \in 1..Len(file["inbox"]) : file["inbox"][k] = m
    BY <2>1, InSet
  <2>3. QED
    BY <2>1, <2>2 DEF Honest
<1>4. RepetitionsHaveACause
  <2> SUFFICES ASSUME NEW i \in Items, published[i] > 1, ~repeated, "inbox" \notin crossed
               PROVE  FALSE
    BY DEF RepetitionsHaveACause
  <2>1. published[i] <= 1
    BY <1>1, Kinds DEF LearnInv, MailOnceInv, InboxOnceInv
  <2>2. published[i] \in Nat
    BY <1>1, RelayTypes
  <2>3. QED
    BY <2>1, <2>2
<1>5. LoneAppendsAreKept
  <2> SUFFICES ASSUME NEW f \in Files \ crossed, file[f] # Broken
               PROVE  [k \in 1..Len(file[f]) |-> file[f][k].item] = appended[f]
    BY DEF LoneAppendsAreKept
  <2>1. SameItems(file[f], appended[f])
    BY <1>1 DEF AloneInv
  <2>2. appended[f] \in Seq(Items)
    BY <1>1, RelayTypes
  <2>3. appended[f] = [k \in 1..Len(appended[f]) |-> appended[f][k]]
    BY <2>2
  <2>4. QED
    BY <2>1, <2>3 DEF SameItems
<1>6. MailInTimeIsForwarded
  BY <1>1 DEF MailInTimeIsForwarded, BatchInv
<1>7. QED
  BY <1>1, <1>3, <1>4, <1>5, <1>6 DEF RelayIsSound

THEOREM RelayStaysSound == Spec => []RelayIsSound
<1>1. Init => RelayIInv
  BY RelayStarts
<1>2. RelayIInv /\ [Next]_vars => RelayIInv'
  BY RelaySteps, RelayStill
<1>3. RelayIInv => RelayIsSound
  BY RelayMeans
<1>4. QED
  BY <1>1, <1>2, <1>3, PTL DEF Spec

=================================================================================
