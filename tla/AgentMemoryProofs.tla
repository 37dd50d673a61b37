--------------------------- MODULE AgentMemoryProofs ---------------------------
(* Proofs about AgentMemory, for every value of its constants: the deques and    *)
(* the snapshot file first, then what is read of them.                           *)
EXTENDS AgentMemory, SequenceTheorems, FiniteSetTheorems, TLAPS

-----------------------------------------------------------------------------
(* Sequences.                                                              *)

\* A slice within a sequence: its type, length and elements.
LEMMA Slice ==
  ASSUME NEW S, NEW s \in Seq(S), NEW m \in Nat \ {0}, NEW n \in Nat, n <= Len(s)
  PROVE  /\ SubSeq(s, m, n) \in Seq(S)
         /\ Len(SubSeq(s, m, n)) = IF m <= n THEN n - m + 1 ELSE 0
         /\ \A i \in 1..Len(SubSeq(s, m, n)) : SubSeq(s, m, n)[i] = s[m + i - 1]
<1>1. \A i \in m..n : s[i] \in S
  BY ElementOfSeq, SMT
<1>2. QED
  BY <1>1, SubSeqProperties, SMT

\* What is appended does not change an earlier slice.
LEMMA SliceOfAppend ==
  ASSUME NEW S, NEW s \in Seq(S), NEW e \in S,
         NEW m \in Nat \ {0}, NEW n \in Nat, n <= Len(s)
  PROVE  SubSeq(Append(s, e), m, n) = SubSeq(s, m, n)
<1> DEFINE t == Append(s, e)
<1>1. /\ t \in Seq(S) /\ Len(t) = Len(s) + 1
      /\ \A i \in 1..Len(s) : t[i] = s[i]
  BY AppendProperties, SMT
<1>2. /\ SubSeq(t, m, n) \in Seq(S) /\ SubSeq(s, m, n) \in Seq(S)
      /\ Len(SubSeq(t, m, n)) = Len(SubSeq(s, m, n))
      /\ Len(SubSeq(s, m, n)) = IF m <= n THEN n - m + 1 ELSE 0
  BY <1>1, Slice, LenProperties, SMT
<1>3. ASSUME NEW i \in 1..Len(SubSeq(s, m, n))
      PROVE  SubSeq(t, m, n)[i] = SubSeq(s, m, n)[i]
  <2>1. SubSeq(t, m, n)[i] = t[m + i - 1] /\ SubSeq(s, m, n)[i] = s[m + i - 1]
    BY <1>1, <1>2, Slice, LenProperties, SMT
  <2>2. m + i - 1 \in 1..Len(s)
    BY <1>2, LenProperties, SMT
  <2>3. QED
    BY <1>1, <2>1, <2>2
<1> HIDE DEF t
<1>4. SubSeq(t, m, n) = SubSeq(s, m, n)
  BY <1>2, <1>3, SeqEqual
<1>5. QED
  BY <1>4 DEF t

\* The slice up to the end grows with what is appended.
LEMMA TailOfAppend ==
  ASSUME NEW S, NEW s \in Seq(S), NEW e \in S, NEW m \in Nat, m <= Len(s)
  PROVE  SubSeq(Append(s, e), m + 1, Len(s) + 1) = Append(SubSeq(s, m + 1, Len(s)), e)
<1> DEFINE t == Append(s, e)
           a == SubSeq(t, m + 1, Len(s) + 1)
           b == SubSeq(s, m + 1, Len(s))
           c == Append(b, e)
<1>0. Len(s) \in Nat
  BY LenProperties
<1>1. /\ t \in Seq(S) /\ Len(t) = Len(s) + 1
      /\ \A i \in 1..Len(s) : t[i] = s[i]
      /\ t[Len(s) + 1] = e
  BY AppendProperties, SMT
<1>2. /\ a \in Seq(S) /\ Len(a) = Len(s) + 1 - m
      /\ \A i \in 1..Len(a) : a[i] = t[m + i]
  BY <1>0, <1>1, Slice, SMT
<1>3. /\ b \in Seq(S) /\ Len(b) = Len(s) - m
      /\ \A i \in 1..Len(b) : b[i] = s[m + i]
  BY <1>0, Slice, SMT
<1> HIDE DEF a, b
<1>4. /\ c \in Seq(S) /\ Len(c) = Len(b) + 1
      /\ \A i \in 1..Len(b) : c[i] = b[i]
      /\ c[Len(b) + 1] = e
  BY <1>3, AppendProperties
<1> HIDE DEF t, c
<1>5. ASSUME NEW i \in 1..Len(a)
      PROVE  a[i] = c[i]
  <2>1. CASE i = Len(s) + 1 - m
    BY <1>0, <1>1, <1>2, <1>3, <1>4, <2>1, SMT
  <2>2. CASE i < Len(s) + 1 - m
    <3>1. i \in 1..Len(b) /\ m + i \in 1..Len(s)
      BY <1>0, <1>3, <1>2, <2>2, SMT
    <3>2. QED
      BY <1>1, <1>2, <1>3, <1>4, <3>1
  <2>3. QED
    BY <1>0, <1>2, <2>1, <2>2, SMT
<1>6. a = c
  <2>1. Len(a) = Len(c)
    BY <1>0, <1>2, <1>3, <1>4, SMT
  <2>2. QED
    BY <1>2, <1>4, <1>5, <2>1, SeqEqual
<1>7. QED
  BY <1>6 DEF a, b, c, t

\* A slice of a prefix is a slice.
LEMMA SliceOfPrefix ==
  ASSUME NEW S, NEW s \in Seq(S), NEW u \in Nat, u <= Len(s),
         NEW m \in Nat \ {0}, NEW n \in Nat, n <= u
  PROVE  SubSeq(SubSeq(s, 1, u), m, n) = SubSeq(s, m, n)
<1> DEFINE p == SubSeq(s, 1, u)
           a == SubSeq(p, m, n)
           b == SubSeq(s, m, n)
<1>0. Len(s) \in Nat
  BY LenProperties
<1>1. /\ p \in Seq(S) /\ Len(p) = u /\ \A i \in 1..u : p[i] = s[i]
  BY <1>0, Slice, SMT
<1>2. /\ a \in Seq(S) /\ Len(a) = IF m <= n THEN n - m + 1 ELSE 0
      /\ \A i \in 1..Len(a) : a[i] = p[m + i - 1]
  BY <1>1, Slice
<1>3. /\ b \in Seq(S) /\ Len(b) = IF m <= n THEN n - m + 1 ELSE 0
      /\ \A i \in 1..Len(b) : b[i] = s[m + i - 1]
  BY <1>0, Slice, SMT
<1> HIDE DEF p, a, b
<1>4. ASSUME NEW i \in 1..Len(a) PROVE a[i] = b[i]
  <2>1. m + i - 1 \in 1..u
    BY <1>2, SMT
  <2>2. QED
    BY <1>1, <1>2, <1>3, <2>1
<1>5. a = b
  BY <1>2, <1>3, <1>4, SeqEqual
<1>6. QED
  BY <1>5 DEF a, b, p

\* A prefix of s of length i, followed by the next element of s.
LEMMA PrefixGrows ==
  ASSUME NEW S, NEW s \in Seq(S), NEW i \in Nat, i < Len(s)
  PROVE  Append(SubSeq(s, 1, i), s[i + 1]) = SubSeq(s, 1, i + 1)
<1> DEFINE p == SubSeq(s, 1, i)
           a == Append(p, s[i + 1])
           b == SubSeq(s, 1, i + 1)
<1>0. Len(s) \in Nat /\ s[i + 1] \in S
  BY LenProperties, ElementOfSeq, SMT
<1>1. /\ p \in Seq(S) /\ Len(p) = i /\ \A j \in 1..i : p[j] = s[j]
  BY <1>0, Slice, SMT
<1>2. /\ b \in Seq(S) /\ Len(b) = i + 1 /\ \A j \in 1..i + 1 : b[j] = s[j]
  BY <1>0, Slice, SMT
<1>3. /\ a \in Seq(S) /\ Len(a) = i + 1 /\ \A j \in 1..i : a[j] = p[j]
      /\ a[i + 1] = s[i + 1]
  BY <1>0, <1>1, AppendProperties
<1> HIDE DEF p, a, b
<1>4. ASSUME NEW j \in 1..Len(a) PROVE a[j] = b[j]
  <2>1. j \in 1..i + 1 /\ (j \in 1..i \/ j = i + 1)
    BY <1>3, SMT
  <2>2. QED
    BY <1>1, <1>2, <1>3, <2>1
<1>5. a = b
  BY <1>2, <1>3, <1>4, SeqEqual
<1>6. QED
  BY <1>5 DEF a, b, p

-----------------------------------------------------------------------------
(* Windows.                                                                *)

\* The type and the elements of a window.
LEMMA WindowElements ==
  ASSUME NEW S, NEW s \in Seq(S), NEW n \in Nat
  PROVE  /\ Window(s, n) \in Seq(S)
         /\ Len(Window(s, n)) = IF Len(s) > n THEN n ELSE Len(s)
         /\ \A i \in 1..Len(Window(s, n)) :
              Window(s, n)[i] = s[Len(s) - Len(Window(s, n)) + i]
<1>0. Len(s) \in Nat
  BY LenProperties
<1>1. CASE Len(s) > n
  <2>1. /\ SubSeq(s, Len(s) - n + 1, Len(s)) \in Seq(S)
        /\ Len(SubSeq(s, Len(s) - n + 1, Len(s))) = n
        /\ \A i \in 1..n : SubSeq(s, Len(s) - n + 1, Len(s))[i] = s[Len(s) - n + i]
    BY <1>0, <1>1, Slice, SMT
  <2>2. QED
    BY <1>1, <2>1 DEF Window
<1>2. CASE ~(Len(s) > n)
  BY <1>0, <1>2, SMT DEF Window
<1>3. QED
  BY <1>1, <1>2

\* Evicting as one appends is the same as appending and then evicting.
LEMMA WindowOfAppend ==
  ASSUME NEW S, NEW s \in Seq(S), NEW e \in S, NEW n \in Nat \ {0}
  PROVE  Window(Append(Window(s, n), e), n) = Window(Append(s, e), n)
<1> DEFINE w == Window(s, n)
           x == Append(w, e)
           y == Append(s, e)
           a == Window(x, n)
           b == Window(y, n)
<1>0. Len(s) \in Nat
  BY LenProperties
<1>1. /\ w \in Seq(S) /\ Len(w) = IF Len(s) > n THEN n ELSE Len(s)
      /\ \A i \in 1..Len(w) : w[i] = s[Len(s) - Len(w) + i]
  BY WindowElements
<1>2. /\ x \in Seq(S) /\ Len(x) = Len(w) + 1
      /\ \A i \in 1..Len(w) : x[i] = w[i]
      /\ x[Len(w) + 1] = e
  BY <1>1, AppendProperties
<1>3. /\ y \in Seq(S) /\ Len(y) = Len(s) + 1
      /\ \A i \in 1..Len(s) : y[i] = s[i]
      /\ y[Len(s) + 1] = e
  BY AppendProperties
<1>4. /\ a \in Seq(S) /\ Len(a) = IF Len(x) > n THEN n ELSE Len(x)
      /\ \A i \in 1..Len(a) : a[i] = x[Len(x) - Len(a) + i]
  BY <1>2, WindowElements
<1>5. /\ b \in Seq(S) /\ Len(b) = IF Len(y) > n THEN n ELSE Len(y)
      /\ \A i \in 1..Len(b) : b[i] = y[Len(y) - Len(b) + i]
  BY <1>3, WindowElements
<1> HIDE DEF w, x, y, a, b
<1>6. /\ Len(w) \in Nat /\ Len(x) = Len(w) + 1 /\ Len(y) = Len(s) + 1
      /\ Len(a) \in Nat /\ Len(a) = Len(b)
      /\ IF Len(s) > n THEN Len(w) = n ELSE Len(w) = Len(s)
      /\ IF Len(w) + 1 > n THEN Len(a) = n ELSE Len(a) = Len(w) + 1
  BY <1>0, <1>1, <1>2, <1>3, <1>4, <1>5, SMT
<1>7. ASSUME NEW i \in 1..Len(a)
      PROVE  a[i] = b[i]
  <2> DEFINE p == Len(x) - Len(a) + i
             q == Len(y) - Len(a) + i
  <2>1. a[i] = x[p] /\ b[i] = y[q]
    BY <1>4, <1>5, <1>6
  <2>2. CASE i = Len(a)
    <3>1. p = Len(w) + 1 /\ q = Len(s) + 1
      BY <1>0, <1>6, <2>2, SMT
    <3>2. QED
      BY <1>2, <1>3, <2>1, <3>1
  <2>3. CASE i < Len(a)
    <3>1. p \in 1..Len(w) /\ q \in 1..Len(s) /\ Len(s) - Len(w) + p = q
      BY <1>0, <1>6, <2>3, SMT
    <3>2. QED
      BY <1>1, <1>2, <1>3, <2>1, <3>1
  <2>4. QED
    BY <1>6, <2>2, <2>3, SMT
<1>8. a = b
  BY <1>4, <1>5, <1>6, <1>7, SeqEqual
<1>9. QED
  BY <1>8 DEF a, b, x, y, w

-----------------------------------------------------------------------------
(* The inductive invariant.  A complete file, and the copies the saving     *)
(* thread has finished, are windows of the history up to upTo; an unfinished *)
(* copy is a prefix of its deque unless a record has disturbed the walk; the *)
(* copies not begun are empty.                                               *)

Holds(m, k, from, n) == m = Window(Since(k, from, n), Capacity(k))

Unbegun(k) ==
  \/ saving.pc = "sum"
  \/ saving.key = Decisions /\ k \in Apps
  \/ k \in saving.todo \ {saving.key}

SavingOK ==
  saving.pc # "idle" =>
    \A k \in Keys :
      /\ cleared[k] <= saving.upTo[k] /\ saving.upTo[k] <= Len(history[k])
      /\ saving.pc # "walk" \/ k # saving.key =>
           Holds(saving.copy[k], k, cleared[k], saving.upTo[k])
      /\ saving.pc = "walk" /\ k = saving.key /\ ~saving.stale =>
           /\ Len(saving.copy[k]) <= Len(memory[k])
           /\ saving.copy[k] = SubSeq(memory[k], 1, Len(saving.copy[k]))
      /\ saving.pc \in {"sum", "walk"} /\ Unbegun(k) => saving.copy[k] = <<>>

FileOK ==
  file \notin {Absent, Torn} =>
    \A k \in Keys :
      /\ file.since[k] <= file.upTo[k] /\ file.upTo[k] <= Len(history[k])
      /\ Holds(file.memory[k], k, file.since[k], file.upTo[k])

IInv ==
  /\ TypeOK
  /\ \A k \in Keys : cleared[k] <= Len(history[k])
  /\ MemoryIsAWindow
  /\ SavingOK
  /\ FileOK

-----------------------------------------------------------------------------
(* Types.                                                                  *)

LEMMA MemoryUpdate ==
  ASSUME NEW m \in Memories, NEW k \in Keys, NEW q \in Seq(Record(k))
  PROVE  [m EXCEPT ![k] = q] \in Memories
<1>1. Record(k) \subseteq Records
  BY DEF Records
<1>2. q \in Seq(Records)
  BY <1>1, SeqMonotonic
<1>3. QED
  BY <1>2 DEF Memories

LEMMA EmptyTypes ==
  /\ Empty \in Memories
  /\ \A k \in Keys : Empty[k] = <<>> /\ Len(Empty[k]) = 0
  /\ Zero \in Counts /\ \A k \in Keys : Zero[k] = 0
  /\ NotSaving \in [pc : {"idle", "sum", "walk", "open", "write"}, stale : BOOLEAN,
                    key : Keys, todo : SUBSET Apps, copy : Memories, upTo : Counts]
<1>1. Empty \in Memories
  BY EmptySeq DEF Empty, Memories
<1>2. Zero \in Counts
  BY DEF Zero, Counts
<1>3. QED
  BY <1>1, <1>2, EmptySeq DEF Empty, Zero, NotSaving, Keys

LEMMA CapacityType == \A k : Capacity(k) \in Nat \ {0}
  BY MemoryAssumption DEF Capacity

\* Nothing was recorded since a moment, as seen at that moment.
LEMMA HoldsNothing ==
  ASSUME NEW k \in Keys, NEW n \in Nat
  PROVE  Holds(<<>>, k, n, n)
<1>1. Since(k, n, n) = <<>>
  BY SubSeqEmpty, n < n + 1, n \in Int, n + 1 \in Int DEF Since
<1>2. QED
  BY <1>1, CapacityType, EmptySeq, SMT DEF Holds, Window

-----------------------------------------------------------------------------
(* The steps.                                                              *)

LEMMA InitIInv == Init => IInv
<1> SUFFICES ASSUME Init PROVE IInv
  OBVIOUS
<1>1. TypeOK
  BY MemoryAssumption, EmptyTypes, CapacityType, SMT DEF Init, TypeOK, Times
<1>2. \A k \in Keys : cleared[k] <= Len(history[k])
  BY EmptyTypes, SMT DEF Init
<1>3. MemoryIsAWindow
  BY EmptyTypes, HoldsNothing DEF Init, MemoryIsAWindow, Holds
<1>4. SavingOK /\ FileOK
  BY DEF Init, SavingOK, FileOK, NotSaving
<1>5. QED
  BY <1>1, <1>2, <1>3, <1>4 DEF IInv

\* A record is appended to one deque and to its history.
LEMMA StoreStep ==
  ASSUME IInv, NEW k \in Keys, NEW r \in Record(k), Store(k, r),
         writing' \in {"decision", "state"}
  PROVE  IInv'
<1> USE DEF IInv
<1>0. /\ memory[k] \in Seq(Record(k)) /\ history[k] \in Seq(Record(k))
      /\ Capacity(k) \in Nat \ {0}
      /\ memory' = [memory EXCEPT ![k] = Push(memory[k], r, Capacity(k))]
      /\ history' = [history EXCEPT ![k] = Append(history[k], r)]
      /\ memory \in Memories /\ history \in Memories
      /\ UNCHANGED <<decisionsSeen, statesSeen, file, restarts, cleared, restored>>
  BY CapacityType DEF TypeOK, Memories, Store
<1>1. /\ Push(memory[k], r, Capacity(k)) \in Seq(Record(k))
      /\ Len(Push(memory[k], r, Capacity(k))) <= Capacity(k)
      /\ Append(history[k], r) \in Seq(Record(k))
      /\ Len(Append(history[k], r)) = Len(history[k]) + 1
  <2>1. Append(memory[k], r) \in Seq(Record(k))
    BY <1>0, AppendProperties
  <2>2. Len(Append(memory[k], r)) \in Nat
    BY <2>1, LenProperties
  <2>3. /\ Push(memory[k], r, Capacity(k)) \in Seq(Record(k))
        /\ Len(Push(memory[k], r, Capacity(k))) =
             IF Len(Append(memory[k], r)) > Capacity(k) THEN Capacity(k)
             ELSE Len(Append(memory[k], r))
    BY <1>0, <2>1, WindowElements DEF Push
  <2>4. Len(Push(memory[k], r, Capacity(k))) <= Capacity(k)
    BY <1>0, <2>2, <2>3, SMT
  <2>5. QED
    BY <1>0, <2>3, <2>4, AppendProperties
<1>2. /\ memory' \in Memories /\ history' \in Memories
      /\ memory'[k] = Push(memory[k], r, Capacity(k))
      /\ history'[k] = Append(history[k], r)
      /\ \A j \in Keys \ {k} : memory'[j] = memory[j] /\ history'[j] = history[j]
  <2>1. memory' \in Memories /\ history' \in Memories
    BY <1>0, <1>1, MemoryUpdate
  <2>2. QED
    BY <1>0, <2>1 DEF Memories
<1>3. /\ saving' = [saving EXCEPT !.stale = @ \/ Disturbs(k)]
      /\ saving'.pc = saving.pc /\ saving'.key = saving.key
      /\ saving'.todo = saving.todo /\ saving'.copy = saving.copy
      /\ saving'.upTo = saving.upTo
      /\ ~saving'.stale => ~saving.stale /\ ~Disturbs(k)
  BY DEF Store, TypeOK
<1>4. TypeOK'
  <2>1. \A j \in Keys : Len(memory'[j]) <= Capacity(j)
    BY <1>1, <1>2 DEF TypeOK
  <2>2. now' \in Times
    BY MemoryAssumption, SMT DEF Store, TypeOK, Times
  <2>3. saving' \in [pc : {"idle", "sum", "walk", "open", "write"}, stale : BOOLEAN,
                    key : Keys, todo : SUBSET Apps, copy : Memories, upTo : Counts]
    <3>1. Disturbs(k) \in BOOLEAN
      BY DEF Disturbs
    <3>2. QED
      BY <1>3, <3>1 DEF TypeOK
  <2>4. QED
    BY <1>0, <1>2, <2>1, <2>2, <2>3 DEF TypeOK
<1>5. ASSUME NEW j \in Keys
      PROVE  /\ Len(history[j]) \in Nat /\ Len(history[j]) <= Len(history'[j])
             /\ \A from, n \in Nat :
                  n <= Len(history[j]) =>
                    SubSeq(history'[j], from + 1, n) = SubSeq(history[j], from + 1, n)
  <2>1. history[j] \in Seq(Record(j)) /\ Len(history[j]) \in Nat
    BY LenProperties DEF TypeOK, Memories
  <2>2. CASE j = k
    BY <1>0, <1>1, <1>2, <2>1, <2>2, SliceOfAppend, SMT DEF Since
  <2>3. CASE j # k
    BY <1>2, <2>1, <2>3, SMT DEF Since
  <2>4. QED
    BY <2>2, <2>3
<1>6. \A j \in Keys : cleared'[j] <= Len(history'[j])
  <2> SUFFICES ASSUME NEW j \in Keys PROVE cleared'[j] <= Len(history'[j])
    OBVIOUS
  <2>1. cleared' = cleared /\ cleared[j] \in Nat /\ cleared[j] <= Len(history[j])
    BY <1>0 DEF TypeOK, Counts
  <2>2. Len(history'[j]) \in Nat
    BY <1>2, LenProperties DEF Memories
  <2>3. QED
    BY <1>5, <2>1, <2>2, SMT
<1>7. MemoryIsAWindow'
  <2> SUFFICES ASSUME NEW j \in Keys
               PROVE memory'[j] = Window(SubSeq(history'[j], cleared[j] + 1,
                                                Len(history'[j])), Capacity(j))
    BY <1>0 DEF MemoryIsAWindow, Since, Capacity
  <2>1. memory[j] = Window(SubSeq(history[j], cleared[j] + 1, Len(history[j])),
                           Capacity(j))
    BY DEF MemoryIsAWindow, Since
  <2>2. CASE j # k
    BY <1>2, <2>1, <2>2
  <2>3. CASE j = k
    <3> DEFINE h == history[k]
               t == SubSeq(h, cleared[k] + 1, Len(h))
               c == Capacity(k)
    <3>1. cleared[k] \in Nat /\ cleared[k] <= Len(h) /\ Len(h) \in Nat
      BY <1>5 DEF TypeOK, Counts
    <3>2. t \in Seq(Record(k))
      BY <1>0, <3>1, Slice, SMT
    <3>3. SubSeq(Append(h, r), cleared[k] + 1, Len(h) + 1) = Append(t, r)
      BY <1>0, <3>1, TailOfAppend
    <3>4. Window(Append(Window(t, c), r), c) = Window(Append(t, r), c)
      BY <1>0, <3>2, WindowOfAppend
    <3>5. memory'[k] = Window(Append(t, r), c)
      BY <1>2, <2>1, <2>3, <3>4 DEF Push
    <3>6. QED
      BY <1>1, <1>2, <2>3, <3>3, <3>5
  <2>4. QED
    BY <2>2, <2>3
<1>8. SavingOK'
  <2> SUFFICES ASSUME saving.pc # "idle", NEW j \in Keys
               PROVE /\ cleared[j] <= saving.upTo[j]
                     /\ saving.upTo[j] <= Len(history'[j])
                     /\ saving.pc # "walk" \/ j # saving.key =>
                          Holds(saving.copy[j], j, cleared[j], saving.upTo[j])'
                     /\ saving.pc = "walk" /\ j = saving.key /\ ~saving'.stale =>
                          /\ Len(saving.copy[j]) <= Len(memory'[j])
                          /\ saving.copy[j] = SubSeq(memory'[j], 1, Len(saving.copy[j]))
                     /\ saving.pc \in {"sum", "walk"} /\ Unbegun(j) => saving.copy[j] = <<>>
    BY <1>0, <1>3 DEF SavingOK, Unbegun
  <2>1. /\ cleared[j] \in Nat /\ saving.upTo[j] \in Nat
        /\ cleared[j] <= saving.upTo[j] /\ saving.upTo[j] <= Len(history[j])
    BY DEF TypeOK, SavingOK, Counts
  <2>2. saving.upTo[j] <= Len(history'[j])
    BY <1>2, <1>5, <2>1, LenProperties, SMT DEF Memories
  <2>3. ASSUME saving.pc # "walk" \/ j # saving.key
        PROVE  Holds(saving.copy[j], j, cleared[j], saving.upTo[j])'
    <3>0. SubSeq(history'[j], cleared[j] + 1, saving.upTo[j])
            = SubSeq(history[j], cleared[j] + 1, saving.upTo[j])
      BY <1>5, <2>1
    <3>1. Since(j, cleared[j], saving.upTo[j])' = Since(j, cleared[j], saving.upTo[j])
      BY <1>0, <1>3, <3>0 DEF Since
    <3>2. Holds(saving.copy[j], j, cleared[j], saving.upTo[j])
      BY <2>3 DEF SavingOK
    <3>3. QED
      BY <1>3, <3>1, <3>2 DEF Holds, Capacity
  <2>4. ASSUME saving.pc = "walk", j = saving.key, ~saving'.stale
        PROVE  /\ Len(saving.copy[j]) <= Len(memory'[j])
               /\ saving.copy[j] = SubSeq(memory'[j], 1, Len(saving.copy[j]))
    <3>1. ~saving.stale /\ j # k
      BY <1>3, <2>4 DEF Disturbs
    <3>2. QED
      BY <1>2, <2>4, <3>1 DEF SavingOK
  <2>5. QED
    BY <2>1, <2>2, <2>3, <2>4 DEF SavingOK
<1>9. FileOK'
  <2> SUFFICES ASSUME file \notin {Absent, Torn}, NEW j \in Keys
               PROVE /\ file.since[j] <= file.upTo[j]
                     /\ file.upTo[j] <= Len(history'[j])
                     /\ Holds(file.memory[j], j, file.since[j], file.upTo[j])'
    BY <1>0 DEF FileOK
  <2>1. /\ file.since[j] \in Nat /\ file.upTo[j] \in Nat
        /\ file.since[j] <= file.upTo[j] /\ file.upTo[j] <= Len(history[j])
        /\ Holds(file.memory[j], j, file.since[j], file.upTo[j])
    BY DEF TypeOK, FileOK, Counts
  <2>2. file.upTo[j] <= Len(history'[j])
    BY <1>2, <1>5, <2>1, LenProperties, SMT DEF Memories
  <2>3. Since(j, file.since[j], file.upTo[j])' = Since(j, file.since[j], file.upTo[j])
    <3>1. SubSeq(history'[j], file.since[j] + 1, file.upTo[j])
            = SubSeq(history[j], file.since[j] + 1, file.upTo[j])
      BY <1>5, <2>1
    <3>2. QED
      BY <1>0, <3>1 DEF Since
  <2>4. QED
    BY <1>0, <2>1, <2>2, <2>3 DEF Holds, Capacity
<1>10. QED
  BY <1>4, <1>6, <1>7, <1>8, <1>9

\* What a step that leaves the memory and its history alone cannot disturb.
LEMMA Unmoved ==
  ASSUME IInv, UNCHANGED <<memory, history, cleared>>
  PROVE  /\ (\A k \in Keys : cleared[k] <= Len(history[k]))'
         /\ MemoryIsAWindow'
         /\ file' = file => FileOK'
         /\ saving' = saving => SavingOK'
<1>2. MemoryIsAWindow'
  BY DEF IInv, MemoryIsAWindow, Since, Capacity
<1>3. file' = file => FileOK'
  BY DEF IInv, FileOK, Holds, Since, Capacity
<1>4. saving' = saving => SavingOK'
  BY DEF IInv, SavingOK, Holds, Since, Capacity, Unbegun
<1>5. QED
  BY <1>2, <1>3, <1>4 DEF IInv

LEMMA CountStep == IInv /\ Count => IInv'
<1> SUFFICES ASSUME IInv, Count PROVE IInv'
  OBVIOUS
<1>1. UNCHANGED <<memory, history, cleared, saving, file>>
  BY DEF Count
<1>2. TypeOK'
  BY SMT DEF IInv, TypeOK, Count
<1>3. QED
  BY <1>1, <1>2, Unmoved DEF IInv

LEMMA ClearStep == IInv /\ ClearMemory => IInv'
<1> SUFFICES ASSUME IInv, ClearMemory PROVE IInv'
  OBVIOUS
<1> USE DEF IInv
<1>1. \A k \in Keys : Len(history[k]) \in Nat
  BY LenProperties DEF TypeOK, Memories
<1>2. /\ cleared' \in Counts /\ \A k \in Keys : cleared'[k] = Len(history[k])
  BY <1>1 DEF ClearMemory, Lengths, Counts
<1>3. TypeOK'
  BY <1>2, EmptyTypes, CapacityType, SMT DEF TypeOK, ClearMemory
<1>4. (\A k \in Keys : cleared[k] <= Len(history[k]))'
  BY <1>1, <1>2, SMT DEF ClearMemory
<1>5. MemoryIsAWindow'
  <2> SUFFICES ASSUME NEW k \in Keys
               PROVE  memory'[k] = Window(SubSeq(history[k], Len(history[k]) + 1,
                                                 Len(history[k])), Capacity(k))
    BY <1>2 DEF ClearMemory, MemoryIsAWindow, Since, Capacity
  <2>1. Holds(<<>>, k, Len(history[k]), Len(history[k]))
    BY <1>1, HoldsNothing
  <2>2. QED
    BY <2>1, EmptyTypes DEF ClearMemory, Holds, Since
<1>6. SavingOK'
  BY DEF ClearMemory, SavingOK
<1>7. FileOK'
  BY DEF ClearMemory, FileOK, Holds, Since, Capacity
<1>8. QED
  BY <1>3, <1>4, <1>5, <1>6, <1>7

\* The steps of the saving thread that leave the file alone.
LEMMA SavingStep ==
  ASSUME IInv, OnlySaving,
         saving' \in [pc : {"idle", "sum", "walk", "open", "write"}, stale : BOOLEAN,
                     key : Keys, todo : SUBSET Apps, copy : Memories, upTo : Counts],
         SavingOK'
  PROVE  IInv'
<1>1. UNCHANGED <<memory, history, cleared, file>>
  BY DEF OnlySaving, recorder
<1>2. TypeOK'
  BY SMT DEF IInv, TypeOK, OnlySaving, recorder
<1>3. QED
  BY <1>1, <1>2, Unmoved DEF IInv

LEMMA AbortStep == IInv /\ Abort /\ OnlySaving => IInv'
<1> SUFFICES ASSUME IInv, Abort, OnlySaving PROVE IInv'
  OBVIOUS
<1>1. SavingOK'
  BY DEF Abort, SavingOK, NotSaving
<1>2. QED
  BY <1>1, EmptyTypes, SavingStep DEF Abort

LEMMA StartSaveStep == IInv /\ StartSave => IInv'
<1> SUFFICES ASSUME IInv, StartSave PROVE IInv'
  OBVIOUS
<1>1. /\ saving' = [NotSaving EXCEPT !.pc = "sum", !.upTo = cleared]
      /\ OnlySaving /\ cleared \in Counts
  BY DEF StartSave, IInv, TypeOK
<1>2. /\ saving'.pc = "sum" /\ saving'.upTo = cleared /\ saving'.copy = Empty
      /\ saving' \in [pc : {"idle", "sum", "walk", "open", "write"}, stale : BOOLEAN,
                     key : Keys, todo : SUBSET Apps, copy : Memories, upTo : Counts]
  BY <1>1, EmptyTypes DEF NotSaving
<1>3. SavingOK'
  <2> SUFFICES ASSUME NEW k \in Keys
               PROVE  /\ cleared[k] <= Len(history[k])
                      /\ Holds(<<>>, k, cleared[k], cleared[k])
                      /\ cleared[k] <= cleared[k]
    BY <1>1, <1>2, EmptyTypes DEF SavingOK, OnlySaving, recorder, Holds, Since, Capacity
  <2>1. cleared[k] \in Nat
    BY <1>1 DEF Counts
  <2>2. QED
    BY <2>1, HoldsNothing, SMT DEF IInv
<1>4. QED
  BY <1>1, <1>2, <1>3, SavingStep

LEMMA SumStatesStep == IInv /\ SumStates => IInv'
<1> SUFFICES ASSUME IInv, SumStates PROVE IInv'
  OBVIOUS
<1>1. CASE saving.stale
  BY <1>1, AbortStep DEF SumStates
<1>2. CASE ~saving.stale
  <2>1. /\ saving' = [saving EXCEPT !.pc = "walk", !.key = Decisions]
        /\ OnlySaving /\ saving.pc = "sum"
    BY <1>2 DEF SumStates
  <2>2. /\ saving'.pc = "walk" /\ saving'.key = Decisions
        /\ saving'.upTo = saving.upTo /\ saving'.copy = saving.copy
        /\ saving'.todo = saving.todo
        /\ saving' \in [pc : {"idle", "sum", "walk", "open", "write"}, stale : BOOLEAN,
                     key : Keys, todo : SUBSET Apps, copy : Memories, upTo : Counts]
    BY <2>1 DEF IInv, TypeOK, Keys
  <2>3. SavingOK'
    <3> SUFFICES ASSUME NEW k \in Keys
                 PROVE  /\ cleared[k] <= saving.upTo[k]
                        /\ saving.upTo[k] <= Len(history[k])
                        /\ Holds(saving.copy[k], k, cleared[k], saving.upTo[k])
                        /\ Len(saving.copy[k]) <= Len(memory[k])
                        /\ saving.copy[k] = SubSeq(memory[k], 1, Len(saving.copy[k]))
                        /\ saving.copy[k] = <<>>
      BY <2>1, <2>2 DEF SavingOK, OnlySaving, recorder, Holds, Since, Capacity
    <3>1. /\ cleared[k] <= saving.upTo[k] /\ saving.upTo[k] <= Len(history[k])
          /\ Holds(saving.copy[k], k, cleared[k], saving.upTo[k])
          /\ saving.copy[k] = <<>>
      BY <2>1 DEF IInv, SavingOK, Unbegun
    <3>2. Len(memory[k]) \in Nat
      BY LenProperties DEF IInv, TypeOK, Memories
    <3>3. Len(saving.copy[k]) = 0 /\ SubSeq(memory[k], 1, 0) = <<>>
      BY <3>1, EmptySeq, SubSeqEmpty, SMT
    <3>4. QED
      BY <3>1, <3>2, <3>3, SMT
  <2>4. QED
    BY <2>1, <2>2, <2>3, SavingStep
<1>3. QED
  BY <1>1, <1>2

\* One more element of the deque under the walk is copied.
LEMMA WalkOnStep == IInv /\ WalkOn => IInv'
<1> SUFFICES ASSUME IInv, WalkOn PROVE IInv'
  OBVIOUS
<1> USE DEF IInv
<1> DEFINE key == saving.key
           old == saving.copy[key]
           new == Append(old, memory[key][Len(old) + 1])
<1>1. /\ saving.pc = "walk" /\ ~saving.stale /\ Len(old) < Len(memory[key])
      /\ saving' = [saving EXCEPT !.copy = [saving.copy EXCEPT ![key] = new]]
      /\ OnlySaving
  BY DEF WalkOn
<1>2. /\ key \in Keys /\ saving.copy \in Memories
      /\ memory[key] \in Seq(Record(key)) /\ old \in Seq(Record(key))
      /\ Len(old) \in Nat /\ Len(memory[key]) \in Nat
  BY LenProperties DEF TypeOK, Memories
<1>3. old = SubSeq(memory[key], 1, Len(old))
  BY <1>1, <1>2 DEF SavingOK
<1>4. memory[key][Len(old) + 1] \in Record(key)
  BY <1>1, <1>2, ElementOfSeq, SMT
<1>5. new \in Seq(Record(key)) /\ Len(new) = Len(old) + 1
  BY <1>2, <1>4, AppendProperties
<1>6. new = SubSeq(memory[key], 1, Len(old) + 1)
  BY <1>1, <1>2, <1>3, PrefixGrows
<1> HIDE DEF new
<1>7. /\ saving'.copy \in Memories /\ saving'.copy[key] = new
      /\ \A k \in Keys \ {key} : saving'.copy[k] = saving.copy[k]
      /\ saving'.pc = "walk" /\ saving'.key = key /\ saving'.stale = saving.stale
      /\ saving'.todo = saving.todo /\ saving'.upTo = saving.upTo
      /\ saving' \in [pc : {"idle", "sum", "walk", "open", "write"}, stale : BOOLEAN,
                     key : Keys, todo : SUBSET Apps, copy : Memories, upTo : Counts]
  <2>1. [saving.copy EXCEPT ![key] = new] \in Memories
    BY <1>2, <1>5, MemoryUpdate
  <2>2. QED
    BY <1>1, <1>2, <2>1 DEF TypeOK, Memories
<1>8. SavingOK'
  <2> SUFFICES ASSUME NEW k \in Keys
               PROVE  /\ cleared[k] <= saving.upTo[k]
                      /\ saving.upTo[k] <= Len(history[k])
                      /\ k # key => Holds(saving'.copy[k], k, cleared[k], saving.upTo[k])
                      /\ k = key => /\ Len(saving'.copy[k]) <= Len(memory[k])
                                    /\ saving'.copy[k] =
                                         SubSeq(memory[k], 1, Len(saving'.copy[k]))
                      /\ Unbegun(k) => saving'.copy[k] = <<>>
    BY <1>1, <1>7 DEF SavingOK, OnlySaving, recorder, Holds, Since, Capacity, Unbegun
  <2>1. /\ cleared[k] <= saving.upTo[k] /\ saving.upTo[k] <= Len(history[k])
        /\ k # key => Holds(saving.copy[k], k, cleared[k], saving.upTo[k])
        /\ Unbegun(k) => saving.copy[k] = <<>>
    BY <1>1 DEF SavingOK
  <2>2. k = key => ~Unbegun(k)
    BY <1>1, MemoryAssumption DEF Unbegun
  <2>3. k = key => /\ Len(saving'.copy[k]) <= Len(memory[k])
                   /\ saving'.copy[k] = SubSeq(memory[k], 1, Len(saving'.copy[k]))
    BY <1>1, <1>2, <1>5, <1>6, <1>7, SMT
  <2>4. QED
    BY <1>7, <2>1, <2>2, <2>3
<1>9. QED
  BY <1>1, <1>7, <1>8, SavingStep

\* The whole deque is copied: the copy is a window of today's history.
LEMMA EndWalkStep == IInv /\ EndWalk => IInv'
<1> SUFFICES ASSUME IInv, EndWalk PROVE IInv'
  OBVIOUS
<1> USE DEF IInv
<1> DEFINE key == saving.key
           upTo == [saving.upTo EXCEPT ![key] = Len(history[key])]
<1>1. /\ saving.pc = "walk" /\ ~saving.stale
      /\ Len(saving.copy[key]) >= Len(memory[key])
      /\ OnlySaving
      /\ \/ saving' = [saving EXCEPT !.upTo = upTo, !.todo = Left, !.pc = "open"]
         \/ \E a \in Left :
              saving' = [saving EXCEPT !.upTo = upTo, !.todo = Left, !.key = a]
  BY DEF EndWalk
<1>2. /\ key \in Keys /\ Len(history[key]) \in Nat
      /\ memory[key] \in Seq(Record(key)) /\ saving.copy[key] \in Seq(Record(key))
      /\ Len(saving.copy[key]) \in Nat /\ Len(memory[key]) \in Nat
  BY LenProperties DEF TypeOK, Memories
<1>3. saving.copy[key] = memory[key]
  <2>1. Len(saving.copy[key]) = Len(memory[key])
    <3>1. Len(saving.copy[key]) <= Len(memory[key])
      BY <1>1, <1>2 DEF SavingOK
    <3> DEFINE m == Len(saving.copy[key])
               n == Len(memory[key])
    <3>2. m \in Nat /\ n \in Nat /\ m <= n /\ m >= n
      BY <1>1, <1>2, <3>1
    <3> HIDE DEF m, n
    <3>3. m = n
      BY <3>2, SMT
    <3>4. QED
      BY <3>3 DEF m, n
  <2>2. saving.copy[key] = SubSeq(memory[key], 1, Len(memory[key]))
    BY <1>1, <1>2, <2>1 DEF SavingOK
  <2>3. QED
    BY <1>2, <2>2, SubSeqFull
<1>4. /\ upTo \in Counts /\ upTo[key] = Len(history[key])
      /\ \A k \in Keys \ {key} : upTo[k] = saving.upTo[k]
  BY <1>2 DEF TypeOK, Counts
<1>5. Left \subseteq Apps /\ key \notin Left
  BY MemoryAssumption DEF Left, Known, TypeOK
<1>6. \A a \in Left : Unbegun(a)
  BY DEF Left, Unbegun, Known
<1> HIDE DEF upTo
<1>7. /\ saving' \in [pc : {"idle", "sum", "walk", "open", "write"}, stale : BOOLEAN,
                     key : Keys, todo : SUBSET Apps, copy : Memories, upTo : Counts]
      /\ saving'.copy = saving.copy /\ saving'.upTo = upTo /\ saving'.todo = Left
      /\ \/ saving'.pc = "open"
         \/ saving'.pc = "walk" /\ saving'.key \in Left
  BY <1>1, <1>4, <1>5 DEF TypeOK, Keys
<1>8. SavingOK'
  <2> SUFFICES ASSUME NEW k \in Keys
               PROVE  /\ cleared[k] <= upTo[k] /\ upTo[k] <= Len(history[k])
                      /\ saving'.pc # "walk" \/ k # saving'.key =>
                           Holds(saving.copy[k], k, cleared[k], upTo[k])
                      /\ saving'.pc = "walk" /\ k = saving'.key =>
                           /\ Len(saving.copy[k]) <= Len(memory[k])
                           /\ saving.copy[k] = SubSeq(memory[k], 1, Len(saving.copy[k]))
                      /\ saving'.pc = "walk" /\ Unbegun(k)' => saving.copy[k] = <<>>
    <3>1. UNCHANGED <<memory, history, cleared>>
      BY <1>1 DEF OnlySaving, recorder
    <3>2. \A k \in Keys : Holds(saving.copy[k], k, cleared[k], saving.upTo[k])' <=>
                            Holds(saving.copy[k], k, cleared[k], upTo[k])
      BY <1>7, <3>1 DEF Holds, Since, Capacity
    <3>3. QED
      BY <1>7, <3>1, <3>2 DEF SavingOK
  <2>1. /\ cleared[k] <= upTo[k] /\ upTo[k] <= Len(history[k])
        /\ Holds(saving.copy[k], k, cleared[k], upTo[k])
    <3>1. CASE k = key
      <4>1. Holds(memory[key], key, cleared[key], Len(history[key]))
        BY <1>2 DEF MemoryIsAWindow, Holds
      <4>2. QED
        BY <1>2, <1>3, <1>4, <3>1, <4>1, SMT
    <3>2. CASE k # key
      BY <1>1, <1>4, <3>2 DEF SavingOK
    <3>3. QED
      BY <3>1, <3>2
  <2>2. ASSUME k \in Left
        PROVE  saving.copy[k] = <<>>
    BY <1>1, <1>6, <2>2 DEF SavingOK
  <2>3. saving'.pc = "walk" /\ Unbegun(k)' => k \in Left
    <3> SUFFICES ASSUME saving'.pc = "walk", Unbegun(k)' PROVE k \in Left
      OBVIOUS
    <3>1. saving'.key \in Apps
      BY <1>5, <1>7
    <3>2. saving'.key # Decisions
      BY <3>1, MemoryAssumption
    <3>3. k \in saving'.todo
      BY <3>2 DEF Unbegun
    <3>4. QED
      BY <1>7, <3>3
  <2>4. saving'.pc = "walk" /\ k = saving'.key =>
           /\ Len(saving.copy[k]) <= Len(memory[k])
           /\ saving.copy[k] = SubSeq(memory[k], 1, Len(saving.copy[k]))
    <3> SUFFICES ASSUME k \in Left
                 PROVE  /\ Len(saving.copy[k]) <= Len(memory[k])
                        /\ saving.copy[k] = SubSeq(memory[k], 1, Len(saving.copy[k]))
      BY <1>7
    <3>1. Len(memory[k]) \in Nat
      BY LenProperties DEF TypeOK, Memories
    <3>2. /\ saving.copy[k] = <<>> /\ Len(saving.copy[k]) = 0
          /\ SubSeq(memory[k], 1, 0) = <<>>
      BY <2>2, EmptySeq, SubSeqEmpty, SMT
    <3>3. QED
      BY <3>1, <3>2, SMT
  <2>5. QED
    BY <2>1, <2>2, <2>3, <2>4
<1>9. QED
  BY <1>1, <1>7, <1>8, SavingStep

LEMMA FileSteps == IInv /\ (OpenSnapshot \/ WriteSnapshot) => IInv'
<1>1. ASSUME IInv, OpenSnapshot PROVE IInv'
  <2>1. /\ UNCHANGED <<memory, history, cleared>>
        /\ file' = Torn /\ saving' = [saving EXCEPT !.pc = "write"]
        /\ saving.pc = "open"
    BY <1>1 DEF OpenSnapshot, recorder
  <2>2. TypeOK'
    BY <1>1, <2>1 DEF IInv, TypeOK, OpenSnapshot, recorder
  <2>3. /\ saving'.pc = "write" /\ saving'.copy = saving.copy
        /\ saving'.upTo = saving.upTo
    BY <1>1, <2>1 DEF IInv, TypeOK
  <2>4. SavingOK'
    BY <1>1, <2>1, <2>3 DEF IInv, SavingOK, Holds, Since, Capacity
  <2>5. FileOK'
    BY <2>1 DEF FileOK
  <2>6. QED
    BY <1>1, <2>1, <2>2, <2>4, <2>5, Unmoved DEF IInv
<1>2. ASSUME IInv, WriteSnapshot PROVE IInv'
  <2>1. /\ UNCHANGED <<memory, history, cleared>>
        /\ file' = [memory |-> saving.copy, upTo |-> saving.upTo, since |-> cleared]
        /\ saving' = NotSaving /\ saving.pc = "write"
    BY <1>2 DEF WriteSnapshot, recorder, Abort
  <2>2. TypeOK'
    BY <1>2, <2>1, EmptyTypes DEF IInv, TypeOK, WriteSnapshot, recorder
  <2>3. SavingOK'
    BY <2>1 DEF SavingOK, NotSaving
  <2>4. FileOK'
    BY <1>2, <2>1 DEF IInv, SavingOK, FileOK, Holds, Since, Capacity
  <2>5. QED
    BY <1>2, <2>1, <2>2, <2>3, <2>4, Unmoved DEF IInv
<1>3. QED
  BY <1>1, <1>2

\* A process that starts again: what it loads is a window of what it remembers.
LEMMA RestartStep == IInv /\ Restart => IInv'
<1> SUFFICES ASSUME IInv, Restart PROVE IInv'
  OBVIOUS
<1> USE DEF IInv
<1>1. /\ file' = file /\ now' = now /\ saving' = NotSaving
      /\ decisionsSeen' = 0 /\ statesSeen' = 0 /\ writing' = "no"
      /\ restarts' \in 0..MaxRestarts
  BY MemoryAssumption, SMT DEF Restart, TypeOK
<1>2. SavingOK'
  BY <1>1 DEF SavingOK, NotSaving
<1>3. CASE ~Complete
  <2>1. /\ memory' = Empty /\ history' = Empty /\ cleared' = Zero /\ restored' = Zero
        /\ file \in {Absent, Torn}
    BY <1>3 DEF Restart, Complete
  <2>2. TypeOK'
    BY <1>1, <2>1, EmptyTypes, CapacityType, SMT DEF TypeOK
  <2>3. (\A k \in Keys : cleared[k] <= Len(history[k]))'
    BY <2>1, EmptyTypes, SMT
  <2>4. MemoryIsAWindow'
    <3> SUFFICES ASSUME NEW k \in Keys
                 PROVE  <<>> = Window(SubSeq(<<>>, 0 + 1, 0), Capacity(k))
      BY <2>1, EmptyTypes DEF MemoryIsAWindow, Since, Capacity
    <3>1. SubSeq(<<>>, 0 + 1, 0) = <<>>
      BY SubSeqEmpty, SMT
    <3>2. QED
      BY <3>1, CapacityType, EmptySeq, SMT DEF Window
  <2>5. FileOK'
    BY <1>1, <2>1 DEF FileOK
  <2>6. QED
    BY <1>2, <2>2, <2>3, <2>4, <2>5
<1>4. CASE Complete
  <2>1. /\ memory' = [k \in Keys |-> Load(k)]
        /\ history' = [k \in Keys |-> SubSeq(history[k], 1, file.upTo[k])]
        /\ cleared' = file.since
        /\ restored' = [k \in Keys |-> file.upTo[k] - file.since[k]]
        /\ file \in [memory : Memories, upTo : Counts, since : Counts]
    BY <1>4 DEF Restart, Complete, TypeOK
  <2>2. ASSUME NEW k \in Keys
        PROVE  /\ file.since[k] \in Nat /\ file.upTo[k] \in Nat
               /\ file.since[k] <= file.upTo[k] /\ file.upTo[k] <= Len(history[k])
               /\ Holds(file.memory[k], k, file.since[k], file.upTo[k])
               /\ file.memory[k] \in Seq(Record(k)) /\ history[k] \in Seq(Record(k))
               /\ Capacity(k) \in Nat \ {0}
    BY <1>4, <2>1, CapacityType DEF FileOK, Complete, Counts, TypeOK, Memories
  <2>3. ASSUME NEW k \in Keys
        PROVE  /\ history'[k] = SubSeq(history[k], 1, file.upTo[k])
               /\ history'[k] \in Seq(Record(k)) /\ Len(history'[k]) = file.upTo[k]
    <3>1. /\ SubSeq(history[k], 1, file.upTo[k]) \in Seq(Record(k))
          /\ Len(SubSeq(history[k], 1, file.upTo[k])) = file.upTo[k]
      BY <2>2, Slice, SMT
    <3>2. QED
      BY <2>1, <3>1
  <2>4. ASSUME NEW k \in Keys, NEW n \in Nat, n <= file.upTo[k]
        PROVE  SubSeq(history'[k], file.since[k] + 1, n)
                 = SubSeq(history[k], file.since[k] + 1, n)
    <3> DEFINE h == history[k]
               u == file.upTo[k]
               m == file.since[k] + 1
    <3>1. /\ h \in Seq(Record(k)) /\ u \in Nat /\ u <= Len(h)
          /\ m \in Nat \ {0} /\ n <= u
      BY <2>2, <2>4, SMT
    <3> HIDE DEF h, u, m
    <3>2. SubSeq(SubSeq(h, 1, u), m, n) = SubSeq(h, m, n)
      BY <3>1, SliceOfPrefix
    <3>3. QED
      BY <2>3, <3>2 DEF h, u, m
  <2>5. ASSUME NEW k \in Keys
        PROVE  /\ memory'[k] = file.memory[k]
               /\ Len(file.memory[k]) <= Capacity(k)
    <3> DEFINE s == Since(k, file.since[k], file.upTo[k])
    <3>1. s \in Seq(Record(k))
      BY <2>2, Slice, SMT DEF Since
    <3>2. Len(s) \in Nat
      BY <3>1, LenProperties
    <3>3. file.memory[k] = Window(s, Capacity(k))
      BY <2>2 DEF Holds
    <3>4. Len(file.memory[k]) <= Capacity(k) /\ Len(file.memory[k]) \in Nat
      <4>1. Len(file.memory[k]) = IF Len(s) > Capacity(k) THEN Capacity(k) ELSE Len(s)
        BY <2>2, <3>1, <3>3, WindowElements
      <4>2. QED
        BY <2>2, <3>2, <4>1, SMT
    <3>5. Load(k) = file.memory[k]
      BY <2>2, <3>4, SMT DEF Load, Window
    <3>6. QED
      BY <2>1, <3>4, <3>5
  <2>6. memory' \in Memories /\ history' \in Memories
    <3>1. \A k \in Keys : Record(k) \subseteq Records
      BY DEF Records
    <3>2. \A k \in Keys : memory'[k] \in Seq(Record(k)) /\ history'[k] \in Seq(Record(k))
      BY <2>2, <2>3, <2>5
    <3>3. \A k \in Keys : memory'[k] \in Seq(Records) /\ history'[k] \in Seq(Records)
      BY <3>1, <3>2, SeqMonotonic
    <3>4. QED
      BY <2>1, <3>2, <3>3 DEF Memories
  <2>7. restored' \in Counts
    BY <2>1, <2>2, SMT DEF Counts
  <2>8. TypeOK'
    BY <1>1, <2>1, <2>5, <2>6, <2>7, EmptyTypes DEF TypeOK, Capacity
  <2>9. (\A k \in Keys : cleared[k] <= Len(history[k]))'
    BY <2>1, <2>2, <2>3
  <2>10. MemoryIsAWindow'
    <3> SUFFICES ASSUME NEW k \in Keys
                 PROVE  memory'[k] = Window(SubSeq(history'[k], file.since[k] + 1,
                                                   file.upTo[k]), Capacity(k))
      BY <2>1, <2>3 DEF MemoryIsAWindow, Since, Capacity
    <3>1. file.upTo[k] <= file.upTo[k]
      BY <2>2, SMT
    <3>2. SubSeq(history'[k], file.since[k] + 1, file.upTo[k]) =
            Since(k, file.since[k], file.upTo[k])
      BY <2>2, <2>4, <3>1 DEF Since
    <3>3. QED
      BY <2>2, <2>5, <3>2 DEF Holds
  <2>11. FileOK'
    <3> SUFFICES ASSUME NEW k \in Keys
                 PROVE  /\ file.since[k] <= file.upTo[k]
                        /\ file.upTo[k] <= Len(history'[k])
                        /\ file.memory[k] = Window(SubSeq(history'[k], file.since[k] + 1,
                                                          file.upTo[k]), Capacity(k))
      BY <1>1 DEF FileOK, Holds, Since, Capacity
    <3>1. file.upTo[k] <= file.upTo[k] /\ file.upTo[k] <= Len(history'[k])
      BY <2>2, <2>3, SMT
    <3>2. SubSeq(history'[k], file.since[k] + 1, file.upTo[k]) =
            Since(k, file.since[k], file.upTo[k])
      BY <2>2, <2>4, <3>1 DEF Since
    <3>3. QED
      BY <2>2, <3>1, <3>2 DEF Holds
  <2>12. QED
    BY <1>2, <2>8, <2>9, <2>10, <2>11
<1>5. QED
  BY <1>3, <1>4

LEMMA RecordTypes ==
  ASSUME TypeOK, now < MaxEvents
  PROVE  /\ \A d \in DecisionKinds : [at |-> now, says |-> d] \in Record(Decisions)
         /\ \A a \in Apps : [at |-> now] \in Record(a)
  BY MemoryAssumption DEF TypeOK, Record

LEMMA NextIInv == IInv /\ [Next]_vars => IInv'
<1> SUFFICES ASSUME IInv, [Next]_vars PROVE IInv'
  OBVIOUS
<1>1. CASE RememberDecision
  <2>1. PICK d \in DecisionKinds : Store(Decisions, [at |-> now, says |-> d])
    BY <1>1 DEF RememberDecision
  <2>2. [at |-> now, says |-> d] \in Record(Decisions)
    BY <2>1, RecordTypes DEF Store, IInv
  <2>3. QED
    BY <1>1, <2>1, <2>2, StoreStep DEF RememberDecision, Keys
<1>2. ASSUME NEW a \in Apps, RememberAppState(a)
      PROVE  IInv'
  <2>1. [at |-> now] \in Record(a)
    BY <1>2, RecordTypes DEF RememberAppState, Store, IInv
  <2>2. QED
    BY <1>2, <2>1, StoreStep DEF RememberAppState, Keys
<1>3. CASE Count
  BY <1>3, CountStep
<1>4. CASE ClearMemory
  BY <1>4, ClearStep
<1>5. CASE StartSave
  BY <1>5, StartSaveStep
<1>6. CASE SumStates
  BY <1>6, SumStatesStep
<1>7. CASE WalkOn
  BY <1>7, WalkOnStep
<1>8. CASE EndWalk
  BY <1>8, EndWalkStep
<1>9. CASE FailWalk
  BY <1>9, AbortStep DEF FailWalk
<1>10. CASE OpenSnapshot \/ WriteSnapshot
  BY <1>10, FileSteps
<1>11. CASE Restart
  BY <1>11, RestartStep
<1>12. CASE UNCHANGED vars
  <2>1. UNCHANGED <<memory, history, cleared, file, saving>>
    BY <1>12 DEF vars, recorder
  <2>2. TypeOK'
    BY <1>12 DEF IInv, TypeOK, vars, recorder
  <2>3. QED
    BY <2>1, <2>2, Unmoved DEF IInv
<1>13. QED
  BY <1>1, <1>2, <1>3, <1>4, <1>5, <1>6, <1>7, <1>8, <1>9, <1>10, <1>11, <1>12
  DEF Next

LEMMA Invariance == Spec => []IInv
  BY InitIInv, NextIInv, PTL DEF Spec

-----------------------------------------------------------------------------

\* Every deque stays within its bound and holds records of its kind, whatever
\* the recording thread, the saving thread, clear_memory and restarts do.
THEOREM MemoryTypeCorrect == Spec => []TypeOK
<1>1. IInv => TypeOK
  BY DEF IInv
<1>2. QED
  BY <1>1, Invariance, PTL

\* The memory is exactly the newest records since the last clear, in order,
\* across any number of evictions, saves, kills and restarts.
THEOREM MemoryKeepsTheNewest == Spec => []MemoryIsAWindow
<1>1. IInv => MemoryIsAWindow
  BY DEF IInv
<1>2. QED
  BY <1>1, Invariance, PTL

\* A snapshot that parses is never a mixture of two moments of one deque, although
\* it is copied element by element while another thread records.
THEOREM SnapshotIsAnEarlierMemory == Spec => []FileIsAnEarlierMemory
<1>1. ASSUME IInv, Complete, NEW k \in Keys
      PROVE  \E n \in file.since[k] .. Len(history[k]) :
               file.memory[k] = Window(Since(k, file.since[k], n), Capacity(k))
  <2>1. /\ file.since[k] <= file.upTo[k] /\ file.upTo[k] <= Len(history[k])
        /\ file.memory[k] = Window(Since(k, file.since[k], file.upTo[k]), Capacity(k))
    BY <1>1 DEF IInv, FileOK, Complete, Holds
  <2>2. file.since[k] \in Nat /\ file.upTo[k] \in Nat /\ Len(history[k]) \in Nat
    BY <1>1, LenProperties DEF IInv, TypeOK, Complete, Counts, Memories
  <2>3. file.upTo[k] \in file.since[k] .. Len(history[k])
    BY <2>1, <2>2, SMT
  <2>4. QED
    BY <2>1, <2>3
<1>2. IInv => FileIsAnEarlierMemory
  BY <1>1 DEF FileIsAnEarlierMemory
<1>3. QED
  BY <1>2, Invariance, PTL

-----------------------------------------------------------------------------
(* Induction, recursion, and the maximum of a set of naturals.             *)

\* Induction, for a set of naturals: were n the end of a gap, then k - 1 would map the part
\* of the gap up to n into what is left of it without n.
LEMMA SetInduction ==
  ASSUME NEW T, 0 \in T, \A n \in Nat : n \in T => n + 1 \in T
  PROVE  \A n \in Nat : n \in T
<1> SUFFICES ASSUME NEW n \in Nat, n \notin T PROVE FALSE
  OBVIOUS
<1> DEFINE Gap == {k \in 0..n : k \notin T}
           f == [k \in Gap |-> k - 1]
<1>1. IsFiniteSet(Gap) /\ n \in Gap
  <2>1. IsFiniteSet(0..n)
    BY FS_Interval
  <2>2. Gap \subseteq 0..n /\ n \in Gap
    OBVIOUS
  <2>3. QED
    BY <2>1, <2>2, FS_Subset
<1>2. /\ IsFiniteSet(Gap \ {n}) /\ Cardinality(Gap) \in Nat
      /\ Cardinality(Gap \ {n}) = Cardinality(Gap) - 1
  BY <1>1, FS_RemoveElement, FS_CardinalityType
<1>3. \A k \in Gap : k - 1 \in Gap \ {n}
  <2> SUFFICES ASSUME NEW k \in Gap PROVE k - 1 \in Gap \ {n}
    OBVIOUS
  <2>1. k \in 1..n /\ k - 1 \in Nat
    OBVIOUS
  <2>2. k - 1 \notin T
    <3>1. k - 1 \in T => (k - 1) + 1 \in T
      BY <2>1
    <3>2. QED
      BY <2>1, <3>1
  <2>3. QED
    BY <2>1, <2>2
<1>4. f \in [Gap -> Gap \ {n}]
  BY <1>3
<1>5. \E x, y \in Gap : x # y /\ f[x] = f[y]
  <2> HIDE DEF f
  <2>1. Cardinality(Gap \ {n}) < Cardinality(Gap)
    BY <1>2
  <2>2. QED
    BY <1>1, <1>2, <1>4, <2>1, FS_PigeonHole
<1>6. QED
  BY <1>5

\* f solves a recursion on 0..n; and a recursion has a solution, and whatever follows it is
\* that solution.
Solution(f, n, S, z, Step) ==
  /\ f \in [0..n -> S]
  /\ f[0] = z /\ \A i \in 1..n : f[i] = Step[i][f[i - 1]]
  /\ \A g : /\ g[0] = z
            /\ \A i \in 1..n : g[i - 1] \in S => g[i] = Step[i][g[i - 1]]
            => \A i \in 0..n : g[i] = f[i]

LEMMA Recursion ==
  ASSUME NEW n, NEW S, NEW z, NEW Step, n \in Nat, z \in S, Step \in [1..n -> [S -> S]]
  PROVE  \E f : Solution(f, n, S, z, Step)
<1> DEFINE Solves(f, m) == f[0] = z /\ \A i \in 1..m : f[i] = Step[i][f[i - 1]]
           T == {m \in Nat : m <= n => \E f \in [0..m -> S] : Solves(f, m)}
<1>1. 0 \in T
  <2> DEFINE f == [i \in 0..0 |-> z]
  <2>1. f \in [0..0 -> S] /\ Solves(f, 0)
    OBVIOUS
  <2>2. QED
    BY <2>1
<1>2. ASSUME NEW m \in Nat, m \in T PROVE m + 1 \in T
  <2> SUFFICES ASSUME m + 1 <= n PROVE \E g \in [0..(m + 1) -> S] : Solves(g, m + 1)
    OBVIOUS
  <2>1. PICK f \in [0..m -> S] : Solves(f, m)
    BY <1>2
  <2> DEFINE g == [i \in 0..(m + 1) |-> IF i <= m THEN f[i] ELSE Step[m + 1][f[m]]]
  <2>2. m + 1 \in 1..n /\ f[m] \in S
    BY <2>1
  <2>3. Step[m + 1][f[m]] \in S
    BY <2>2
  <2>4. g \in [0..(m + 1) -> S]
    BY <2>3
  <2>5. \A i \in 0..m : g[i] = f[i]
    OBVIOUS
  <2>6. g[m + 1] = Step[m + 1][f[m]]
    OBVIOUS
  <2> HIDE DEF g
  <2>7. ASSUME NEW i \in 1..(m + 1) PROVE g[i] = Step[i][g[i - 1]]
    <3>1. i - 1 \in 0..m /\ (i \in 1..m \/ i = m + 1)
      OBVIOUS
    <3>2. g[i - 1] = f[i - 1]
      BY <2>5, <3>1
    <3>3. CASE i \in 1..m
      <4>1. g[i] = f[i] /\ f[i] = Step[i][f[i - 1]]
        BY <2>1, <2>5, <3>3
      <4>2. QED
        BY <3>2, <4>1
    <3>4. CASE i = m + 1
      BY <2>6, <3>2, <3>4
    <3>5. QED
      BY <3>1, <3>3, <3>4
  <2>8. g[0] = z
    BY <2>1, <2>5
  <2>9. QED
    BY <2>4, <2>7, <2>8
<1>3. PICK f \in [0..n -> S] : Solves(f, n)
  <2> HIDE DEF T
  <2>1. n \in T
    BY <1>1, <1>2, SetInduction
  <2>2. QED
    BY <2>1 DEF T
<1>4. ASSUME NEW g, g[0] = z, \A i \in 1..n : g[i - 1] \in S => g[i] = Step[i][g[i - 1]]
      PROVE  \A i \in 0..n : g[i] = f[i]
  <2> DEFINE U == {m \in Nat : m <= n => g[m] = f[m]}
  <2>1. 0 \in U
    BY <1>3, <1>4
  <2>2. ASSUME NEW m \in Nat, m \in U PROVE m + 1 \in U
    <3> SUFFICES ASSUME m + 1 <= n PROVE g[m + 1] = f[m + 1]
      OBVIOUS
    <3>1. m + 1 \in 1..n /\ (m + 1) - 1 = m /\ m \in 0..n /\ g[m] = f[m]
      BY <2>2
    <3>2. f[m + 1] = Step[m + 1][f[m]]
      BY <1>3, <3>1
    <3>3. g[m] \in S => g[m + 1] = Step[m + 1][g[m]]
      BY <1>4, <3>1
    <3>4. f[m] \in S
      BY <3>1
    <3>5. QED
      BY <3>1, <3>2, <3>3, <3>4
  <2> HIDE DEF U
  <2>3. \A m \in Nat : m \in U
    BY <2>1, <2>2, SetInduction
  <2>4. QED
    BY <2>3 DEF U
<1>5. QED
  BY <1>3, <1>4 DEF Solution

\* The maximum of a set of naturals with a bound.
LEMMA MaxOf ==
  ASSUME NEW n \in Nat, NEW A \in SUBSET (0..n), A # {}
  PROVE  Max(A) \in A /\ \A x \in A : x <= Max(A)
<1> DEFINE Top(B) == \E x \in B : \A y \in B : x >= y
           T == {m \in Nat : \A B \in SUBSET (0..m) : B # {} => Top(B)}
<1>1. 0 \in T
  <2> SUFFICES ASSUME NEW B \in SUBSET (0..0), B # {} PROVE Top(B)
    OBVIOUS
  <2>1. 0 \in B /\ \A y \in B : y = 0
    <3>1. \A y \in B : y = 0
      OBVIOUS
    <3>2. PICK y \in B : TRUE
      OBVIOUS
    <3>3. QED
      BY <3>1, <3>2
  <2>2. QED
    BY <2>1
<1>2. ASSUME NEW m \in Nat, m \in T PROVE m + 1 \in T
  <2> SUFFICES ASSUME NEW B \in SUBSET (0..(m + 1)), B # {} PROVE Top(B)
    OBVIOUS
  <2>1. CASE m + 1 \in B
    BY <2>1
  <2>2. CASE m + 1 \notin B
    <3>1. B \in SUBSET (0..m)
      BY <2>2
    <3>2. QED
      BY <1>2, <3>1
  <2>3. QED
    BY <2>1, <2>2
<1>3. Top(A)
  <2> HIDE DEF T, Top
  <2>1. n \in T
    BY <1>1, <1>2, SetInduction
  <2>2. QED
    BY <2>1 DEF T
<1>4. Max(A) \in A /\ \A y \in A : Max(A) >= y
  BY <1>3 DEF Max
<1>5. QED
  BY <1>4

-----------------------------------------------------------------------------
(* repeated_actions.                                                       *)

\* The recursion of RunAt has a solution.
LEMMA RunAtIs ==
  ASSUME NEW actions, NEW n, n = Len(actions), n \in Nat
  PROVE  \A i \in 1..n :
           RunAt(actions)[i] = IF i > 1 /\ actions[i] = actions[i - 1]
                               THEN RunAt(actions)[i - 1] + 1 ELSE 1
<1> DEFINE More(i) == i > 1 /\ actions[i] = actions[i - 1]
           Step == [i \in 1..n |-> [x \in Nat |-> IF More(i) THEN x + 1 ELSE 1]]
<1>1. Step \in [1..n -> [Nat -> Nat]]
  OBVIOUS
<1>2. PICK f : f \in [0..n -> Nat] /\ \A i \in 1..n : f[i] = Step[i][f[i - 1]]
  <2> HIDE DEF Step
  <2>1. \E f : Solution(f, n, Nat, 0, Step)
    BY <1>1, Recursion
  <2>2. QED
    BY <2>1 DEF Solution
<1> DEFINE g == [i \in 1..n |-> f[i]]
<1>3. \A i \in 1..n : g[i] = IF More(i) THEN g[i - 1] + 1 ELSE 1
  <2> SUFFICES ASSUME NEW i \in 1..n PROVE g[i] = IF More(i) THEN g[i - 1] + 1 ELSE 1
    OBVIOUS
  <2>1. i - 1 \in 0..n /\ f[i - 1] \in Nat
    <3>1. i - 1 \in 0..n
      OBVIOUS
    <3> HIDE DEF More, Step, g
    <3>2. QED
      BY <1>2, <3>1
  <2>2. g[i] = IF More(i) THEN f[i - 1] + 1 ELSE 1
    BY <1>2, <2>1
  <2>3. More(i) => g[i - 1] = f[i - 1]
    OBVIOUS
  <2>4. QED
    BY <2>2, <2>3
<1>4. \E run : run = [i \in 1..Len(actions) |->
                        IF i > 1 /\ actions[i] = actions[i - 1] THEN run[i - 1] + 1 ELSE 1]
  <2> DEFINE h == [i \in 1..n |-> IF More(i) THEN g[i - 1] + 1 ELSE 1]
  <2>1. /\ DOMAIN g = 1..n /\ DOMAIN h = 1..n
        /\ \A i \in 1..n : h[i] = IF More(i) THEN g[i - 1] + 1 ELSE 1
    OBVIOUS
  <2>2. g = h
    <3>1. g = [i \in 1..n |-> g[i]]
      OBVIOUS
    <3> HIDE DEF g, More
    <3>2. QED
      BY <1>3, <3>1
  <2> HIDE DEF g
  <2>3. QED
    BY <2>2
<1> DEFINE run == CHOOSE run : run = [i \in 1..Len(actions) |->
                    IF i > 1 /\ actions[i] = actions[i - 1] THEN run[i - 1] + 1 ELSE 1]
<1>5. run = [i \in 1..Len(actions) |->
               IF i > 1 /\ actions[i] = actions[i - 1] THEN run[i - 1] + 1 ELSE 1]
  BY <1>4
<1>6. RunAt(actions) = run
  BY DEF RunAt
<1> HIDE DEF run
<1>7. \A i \in 1..n : run[i] = IF i > 1 /\ actions[i] = actions[i - 1] THEN run[i - 1] + 1 ELSE 1
  BY <1>5
<1>8. QED
  BY <1>6, <1>7

\* It is that long, its actions are the same, and the one before them is another.
LEMMA RunsEnd ==
  ASSUME NEW actions, NEW n, n = Len(actions), n \in Nat
  PROVE  \A i \in 1..n :
           /\ RunAt(actions)[i] \in 1..i
           /\ \A m \in (i - RunAt(actions)[i] + 1)..i : actions[m] = actions[i]
           /\ RunAt(actions)[i] < i =>
                actions[i - RunAt(actions)[i]] # actions[i - RunAt(actions)[i] + 1]
<1> DEFINE run == RunAt(actions)
           Equal(i) == \A m \in (i - run[i] + 1)..i : actions[m] = actions[i]
           Longest(i) == run[i] < i => actions[i - run[i]] # actions[i - run[i] + 1]
           Good(i) == i \in 1..n => run[i] \in 1..i /\ Equal(i) /\ Longest(i)
           T == {i \in Nat : Good(i)}
<1>1. \A i \in 1..n : run[i] = IF i > 1 /\ actions[i] = actions[i - 1] THEN run[i - 1] + 1 ELSE 1
  BY RunAtIs
<1> HIDE DEF run
<1>2. 0 \in T
  OBVIOUS
<1>3. ASSUME NEW j \in Nat, j \in T PROVE j + 1 \in T
  <2> DEFINE i == j + 1
  <2> SUFFICES ASSUME i \in 1..n PROVE run[i] \in 1..i /\ Equal(i) /\ Longest(i)
    OBVIOUS
  <2>1. i \in Nat /\ i - 1 = j
    OBVIOUS
  <2>2. CASE i > 1 /\ actions[i] = actions[j]
    <3>1. run[i] = run[j] + 1
      BY <1>1, <2>1, <2>2
    <3>2. j \in 1..n /\ run[j] \in 1..j /\ Equal(j) /\ Longest(j)
      BY <1>3, <2>2
    <3>3. i - run[i] = j - run[j] /\ run[i] \in 1..i
      BY <3>1, <3>2
    <3>4. Equal(i)
      <4> SUFFICES ASSUME NEW m \in (i - run[i] + 1)..i PROVE actions[m] = actions[i]
        OBVIOUS
      <4>1. m = i \/ m \in (j - run[j] + 1)..j
        BY <3>1, <3>2
      <4>2. m \in (j - run[j] + 1)..j => actions[m] = actions[j]
        BY <3>2
      <4>3. QED
        BY <2>2, <4>1, <4>2
    <3>5. Longest(i)
      <4>1. run[i] < i => run[j] < j
        BY <3>1, <3>2
      <4>2. i - run[i] + 1 = j - run[j] + 1
        BY <3>3
      <4>3. QED
        BY <3>2, <3>3, <4>1, <4>2
    <3>6. QED
      BY <3>3, <3>4, <3>5
  <2>3. CASE ~(i > 1 /\ actions[i] = actions[j])
    <3>1. run[i] = 1
      BY <1>1, <2>1, <2>3
    <3>2. \A m \in (i - run[i] + 1)..i : m = i
      BY <3>1
    <3>3. Longest(i)
      <4>1. i - run[i] = j /\ i - run[i] + 1 = i
        BY <3>1
      <4>2. run[i] < i => actions[j] # actions[i]
        BY <2>3, <3>1
      <4>3. QED
        BY <4>1, <4>2
    <3>4. QED
      BY <3>1, <3>2, <3>3
  <2>4. QED
    BY <2>2, <2>3
<1>4. \A i \in Nat : i \in T
  <2> HIDE DEF T
  <2>1. QED
    BY <1>2, <1>3, SetInduction
<1>5. \A i \in 1..n : i \in Nat /\ Good(i)
  <2> HIDE DEF Good
  <2>1. QED
    BY <1>4
<1>6. QED
  BY <1>5 DEF run

Runs(actions) ==
  {r \in (1..Len(actions)) \X (1..Len(actions)) :
     /\ r[1] <= r[2]
     /\ \A m, n \in r[1]..r[2] : actions[m] = actions[n]}

\* The longest of the runs that end somewhere is the longest run.
LEMMA LongestRun ==
  ASSUME NEW actions, NEW n, n = Len(actions), n \in Nat, n >= 2
  PROVE  Max({RunAt(actions)[i] : i \in 2..n})
           = Max({r[2] - r[1] + 1 : r \in Runs(actions)})
<1> DEFINE run == RunAt(actions)
           Same(a, b) == \A k, m \in a..b : actions[k] = actions[m]
           runs == {r \in (1..n) \X (1..n) : r[1] <= r[2] /\ Same(r[1], r[2])}
           A == {run[i] : i \in 2..n}
           B == {r[2] - r[1] + 1 : r \in runs}
<1>1. \A i \in 1..n : /\ run[i] \in 1..i
                      /\ \A m \in (i - run[i] + 1)..i : actions[m] = actions[i]
                      /\ run[i] < i => actions[i - run[i]] # actions[i - run[i] + 1]
  BY RunsEnd, Zenon
<1> HIDE DEF run
<1>2. A \in SUBSET (0..n) /\ run[2] \in A
  <2>1. \A i \in 2..n : i \in 1..n
    OBVIOUS
  <2>2. \A i \in 2..n : run[i] \in 0..n
    BY <1>1, <2>1
  <2>3. 2 \in 2..n
    OBVIOUS
  <2>4. QED
    BY <2>2, <2>3
<1>3. B \in SUBSET (0..n)
  <2>1. \A a, b \in 1..n : a <= b => b - a + 1 \in 0..n
    OBVIOUS
  <2>2. \A r \in runs : r[1] \in 1..n /\ r[2] \in 1..n /\ r[1] <= r[2]
    OBVIOUS
  <2> HIDE DEF runs
  <2>3. QED
    BY <2>1, <2>2
<1>4. \A x \in A : x \in B
  <2> SUFFICES ASSUME NEW i \in 2..n PROVE run[i] \in B
    OBVIOUS
  <2>1. i \in 1..n /\ run[i] \in 1..i /\ \A m \in (i - run[i] + 1)..i : actions[m] = actions[i]
    BY <1>1
  <2> DEFINE a == i - run[i] + 1
             r == <<a, i>>
  <2>2. a \in 1..n /\ a <= i /\ i - a + 1 = run[i]
    BY <2>1
  <2>3. Same(a, i)
    BY <2>1
  <2> HIDE DEF a, Same
  <2>4. r \in runs
    BY <2>1, <2>2, <2>3
  <2>5. r[2] - r[1] + 1 = run[i]
    BY <2>2
  <2> HIDE DEF r, runs
  <2>6. QED
    BY <2>4, <2>5
<1>5. \A y \in B : \E x \in A : y <= x
  <2> SUFFICES ASSUME NEW r \in runs PROVE \E x \in A : r[2] - r[1] + 1 <= x
    OBVIOUS
  <2> DEFINE a == r[1] b == r[2]
  <2>1. a \in 1..n /\ b \in 1..n /\ a <= b /\ Same(a, b)
    OBVIOUS
  <2> HIDE DEF a, b, runs
  <2>2. b - a + 1 <= run[b]
    <3> SUFFICES ASSUME ~(b - a + 1 <= run[b]) PROVE FALSE
      OBVIOUS
    <3>1. run[b] \in 1..b /\ (run[b] < b => actions[b - run[b]] # actions[b - run[b] + 1])
      BY <1>1, <2>1
    <3>2. run[b] < b /\ b - run[b] \in a..b /\ b - run[b] + 1 \in a..b
      BY <2>1, <3>1
    <3>3. QED
      BY <2>1, <3>1, <3>2
  <2>3. CASE b = 1
    <3>1. run[2] \in 1..2
      BY <1>1
    <3>2. b - a + 1 = 1
      BY <2>1, <2>3
    <3>3. b - a + 1 <= run[2]
      BY <3>1, <3>2
    <3>4. QED
      BY <1>2, <3>3 DEF a, b
  <2>4. CASE b # 1
    <3>1. b \in 2..n
      BY <2>1, <2>4
    <3>2. run[b] \in A
      BY <3>1
    <3>3. QED
      BY <2>2, <3>2 DEF a, b
  <2>5. QED
    BY <2>3, <2>4
<1> HIDE DEF A, B
<1>6. Max(A) \in A /\ (\A x \in A : x <= Max(A)) /\ Max(B) \in B /\ \A y \in B : y <= Max(B)
  BY <1>2, <1>3, <1>4, MaxOf
<1>7. Max(A) <= Max(B) /\ Max(A) \in Nat /\ Max(B) \in Nat
  <2> DEFINE a == Max(A) b == Max(B)
  <2>1. a \in A /\ b \in B /\ \A y \in B : y <= b
    BY <1>6
  <2> HIDE DEF a, b
  <2>2. a \in 0..n /\ b \in 0..n /\ a <= b
    BY <1>2, <1>3, <1>4, <2>1
  <2>3. QED
    BY <2>2 DEF a, b
<1>8. Max(B) <= Max(A)
  <2>1. PICK x \in A : Max(B) <= x
    BY <1>5, <1>6
  <2>2. x \in Nat /\ x <= Max(A)
    BY <1>2, <1>6
  <2>3. QED
    BY <1>7, <2>1, <2>2
<1>9. Max(A) = Max(B)
  BY <1>7, <1>8
<1>10. QED
  BY <1>9 DEF A, B, run, Runs

\* What is recalled, and the actions in it, are sequences.
LEMMA RecalledIs ==
  ASSUME TypeOK, NEW n \in Nat
  PROVE  /\ Recall(n) \in Seq(Record(Decisions)) /\ Len(Recall(n)) \in Nat
         /\ Len(Recall(n)) <= Len(memory[Decisions])
         /\ n # 0 => Len(Recall(n)) <= n
<1>1. memory[Decisions] \in Seq(Record(Decisions)) /\ Len(memory[Decisions]) \in Nat
  BY LenProperties DEF TypeOK, Memories, Keys
<1>2. /\ Window(memory[Decisions], n) \in Seq(Record(Decisions))
      /\ Len(Window(memory[Decisions], n)) =
           IF Len(memory[Decisions]) > n THEN n ELSE Len(memory[Decisions])
  BY <1>1, WindowElements
<1>3. QED
  BY <1>1, <1>2, SMT DEF Recall

LEMMA RecentIs ==
  ASSUME TypeOK, NEW entity, NEW lookback \in Nat
  PROVE  Len(RecentActions(entity, lookback)) \in Nat
<1> DEFINE all == Recall(lookback)
           n == Len(all)
           Hit(i) == entity \in {Nothing, all[i].says.app}
           Actions == {d.action : d \in DecisionKinds}
           S == Seq(Actions)
           Step == [i \in 1..n |-> [q \in S |-> IF Hit(i) THEN Append(q, all[i].says.action)
                                                ELSE q]]
           Body(f) == [i \in 0..Len(all) |->
             IF i = 0 THEN <<>>
             ELSE IF entity \in {Nothing, all[i].says.app} THEN Append(f[i - 1], all[i].says.action)
             ELSE f[i - 1]]
           about == CHOOSE f : f = Body(f)
<1>1. all \in Seq(Record(Decisions)) /\ n \in Nat
  BY RecalledIs
<1>2. \A i \in 1..n : all[i].says.action \in Actions
  <2>1. \A i \in 1..n : all[i] \in Record(Decisions)
    BY <1>1, ElementOfSeq
  <2>2. QED
    BY <2>1 DEF Record
<1>3. RecentActions(entity, lookback) = about[n]
  BY DEF RecentActions
<1> HIDE DEF all, Actions
<1>4. Step \in [1..n -> [S -> S]]
  <2>1. \A i \in 1..n : \A q \in S : Append(q, all[i].says.action) \in S
    BY <1>2, AppendProperties
  <2> HIDE DEF S
  <2>2. QED
    BY <2>1
<1>5. <<>> \in S
  BY EmptySeq
<1> HIDE DEF S
<1> HIDE DEF n
<1>6. PICK f : /\ f \in [0..n -> S]
               /\ f[0] = <<>> /\ \A i \in 1..n : f[i] = Step[i][f[i - 1]]
               /\ \A g : /\ g[0] = <<>>
                         /\ \A i \in 1..n : g[i - 1] \in S => g[i] = Step[i][g[i - 1]]
                         => \A i \in 0..n : g[i] = f[i]
  <2> HIDE DEF Step
  <2>1. \E f : Solution(f, n, S, <<>>, Step)
    BY <1>1, <1>4, <1>5, Recursion
  <2>2. QED
    BY <2>1 DEF Solution
<1>7. f = Body(f)
  <2>1. \A i \in 1..n : f[i] = IF Hit(i) THEN Append(f[i - 1], all[i].says.action) ELSE f[i - 1]
    <3>1. \A i \in 1..n : i - 1 \in 0..n
      BY <1>1
    <3>2. QED
      BY <1>6, <3>1
  <2>2. \A i \in 0..n : i = 0 \/ i \in 1..n
    BY <1>1
  <2>3. \A i \in 0..n : f[i] = Body(f)[i]
    BY <1>6, <2>1, <2>2 DEF n
  <2>4. DOMAIN f = 0..n /\ DOMAIN Body(f) = 0..n
    BY <1>6 DEF n
  <2> DEFINE h == Body(f)
  <2>5. h = [i \in 0..n |-> h[i]]
    BY DEF n
  <2>6. f = [i \in 0..n |-> f[i]]
    BY <1>6
  <2> HIDE DEF h, Body
  <2>7. \A i \in 0..n : f[i] = h[i]
    BY <2>3 DEF h
  <2>8. f = h
    BY <2>5, <2>6, <2>7
  <2>9. QED
    BY <2>8 DEF h
<1>8. about = Body(about)
  <2> HIDE DEF Body
  <2>1. QED
    BY <1>7
<1> HIDE DEF about
<1>9. \A i \in 0..n : about[i] = IF i = 0 THEN <<>>
                                 ELSE IF Hit(i) THEN Append(about[i - 1], all[i].says.action)
                                 ELSE about[i - 1]
  BY <1>8 DEF n
<1>10. about[n] = f[n]
  <2>1. about[0] = <<>>
    <3>1. 0 \in 0..n
      BY <1>1
    <3> HIDE DEF Hit
    <3>2. QED
      BY <1>9, <3>1
  <2>2. \A i \in 1..n : i \in 0..n /\ i # 0
    BY <1>1
  <2>3. \A i \in 1..n : about[i - 1] \in S => about[i] = Step[i][about[i - 1]]
    BY <1>9, <2>2
  <2> HIDE DEF Step
  <2>4. \A i \in 0..n : about[i] = f[i]
    BY <1>6, <2>1, <2>3
  <2>5. QED
    BY <1>1, <2>4
<1>11. f[n] \in S
  BY <1>1, <1>6
<1>12. QED
  BY <1>3, <1>10, <1>11, LenProperties DEF n, S

LEMMA RepeatsAreLongest == TypeOK => RepeatsAreTheLongestRun
<1> SUFFICES ASSUME TypeOK, NEW entity \in Apps \cup {Nothing}, NEW lookback \in Lookbacks
             PROVE  LET actions == RecentActions(entity, lookback)
                        runs == {r \in (1..Len(actions)) \X (1..Len(actions)) :
                                   /\ r[1] <= r[2]
                                   /\ \A m, n \in r[1]..r[2] : actions[m] = actions[n]}
                    IN RepeatedActions(entity, lookback) =
                         IF Len(actions) < 2 THEN 0 ELSE Max({r[2] - r[1] + 1 : r \in runs})
  BY DEF RepeatsAreTheLongestRun
<1> DEFINE actions == RecentActions(entity, lookback)
<1>1. Len(actions) \in Nat
  BY RecentIs, MemoryAssumption
<1>2. RepeatedActions(entity, lookback) =
        IF Len(actions) < 2 THEN 0 ELSE Max({RunAt(actions)[i] : i \in 2..Len(actions)})
  BY DEF RepeatedActions
<1> HIDE DEF actions
<1>3. CASE Len(actions) < 2
  BY <1>2, <1>3 DEF actions
<1>4. CASE ~(Len(actions) < 2)
  <2>1. Len(actions) >= 2
    BY <1>1, <1>4
  <2>2. Max({RunAt(actions)[i] : i \in 2..Len(actions)})
           = Max({r[2] - r[1] + 1 : r \in Runs(actions)})
    BY <1>1, <2>1, LongestRun
  <2>3. QED
    BY <1>2, <1>4, <2>2 DEF actions, Runs
<1>5. QED
  BY <1>3, <1>4

-----------------------------------------------------------------------------
(* What is read of the memory and of its snapshots.                        *)

\* Histories are stamped in order, before now.
ClockInv ==
  \A k \in Keys : \A i \in 1..Len(history[k]) :
    /\ history[k][i].at < now
    /\ \A j \in 1..i : history[k][j].at <= history[k][i].at

\* Every decision since the last clear is counted, is about to be, or was by an earlier process.
CountedInv ==
  decisionsSeen + (IF writing = "decision" THEN 1 ELSE 0) + restored[Decisions]
    = Len(history[Decisions]) - cleared[Decisions]

\* Records of a after the first n of its history are not older than any of the decisions m.
Later(m, a, n) ==
  \A i \in (n + 1)..Len(history[a]) : \A j \in 1..Len(m) : m[j].at <= history[a][i].at

\* The app's states are copied, or there were none, and the decisions were before.
Copied(a) ==
  \/ saving.pc \in {"open", "write"}
  \/ saving.pc = "walk" /\ saving.key \notin {Decisions, a} /\ a \notin saving.todo

CopyInv == \A a \in Apps : Copied(a) => Later(saving.copy[Decisions], a, saving.upTo[a])
SnapshotInv == Complete => \A a \in Apps : Later(file.memory[Decisions], a, file.upTo[a])

RecallIInv == IInv /\ ClockInv /\ CountedInv /\ CopyInv /\ SnapshotInv

LEMMA HistoryIs ==
  ASSUME IInv
  PROVE  /\ Decisions \in Keys /\ Apps \subseteq Keys /\ Decisions \notin Apps
         /\ now \in Nat /\ decisionsSeen \in Nat
         /\ \A k \in Keys :
              /\ history[k] \in Seq(Record(k)) /\ Len(history[k]) \in Nat
              /\ cleared[k] \in Nat /\ cleared[k] <= Len(history[k])
              /\ restored[k] \in Nat
              /\ \A i \in 1..Len(history[k]) : history[k][i].at \in Nat
<1>1. \A k \in Keys : history[k] \in Seq(Record(k)) /\ Len(history[k]) \in Nat
  BY LenProperties DEF IInv, TypeOK, Memories
<1>2. \A k \in Keys : \A r \in Record(k) : r.at \in Nat
  BY DEF Record, Times
<1>3. \A k \in Keys : \A i \in 1..Len(history[k]) : history[k][i] \in Record(k)
  BY <1>1, ElementOfSeq
<1>4. \A k \in Keys : cleared[k] \in Nat /\ cleared[k] <= Len(history[k]) /\ restored[k] \in Nat
  BY DEF IInv, TypeOK, Counts
<1>5. now \in Nat /\ decisionsSeen \in Nat
  BY DEF IInv, TypeOK, Times
<1>6. QED
  BY <1>1, <1>2, <1>3, <1>4, <1>5, MemoryAssumption DEF Keys

\* What is a window of a history has as its elements the last of it.
LEMMA HeldIs ==
  ASSUME IInv, NEW k \in Keys, NEW m, NEW from \in Nat, NEW n \in Nat,
         from <= n, n <= Len(history[k]), Holds(m, k, from, n)
  PROVE  /\ m \in Seq(Record(k)) /\ Len(m) \in Nat /\ Len(m) <= n - from
         /\ n > from => Len(m) > 0
         /\ \A j \in 1..Len(m) : n - Len(m) + j \in 1..n /\ m[j] = history[k][n - Len(m) + j]
<1> DEFINE s == Since(k, from, n) c == Capacity(k)
<1>1. history[k] \in Seq(Record(k)) /\ Len(history[k]) \in Nat /\ c \in Nat \ {0}
  BY HistoryIs, CapacityType
<1>2. /\ s \in Seq(Record(k)) /\ Len(s) = n - from
      /\ \A i \in 1..Len(s) : s[i] = history[k][from + i]
  <2>1. from + 1 \in Nat \ {0}
    OBVIOUS
  <2>2. /\ s \in Seq(Record(k)) /\ Len(s) = IF from + 1 <= n THEN n - (from + 1) + 1 ELSE 0
        /\ \A i \in 1..Len(s) : s[i] = history[k][from + 1 + i - 1]
    BY <1>1, <2>1, Slice DEF Since
  <2> HIDE DEF s
  <2>3. Len(s) = n - from
    BY <2>2
  <2>4. \A i \in 1..Len(s) : from + 1 + i - 1 = from + i
    BY <2>3
  <2>5. QED
    BY <2>2, <2>3, <2>4
<1> HIDE DEF s, c
<1>3. m = Window(s, c)
  BY DEF Holds, s, c
<1>4. /\ m \in Seq(Record(k)) /\ Len(m) = IF Len(s) > c THEN c ELSE Len(s)
      /\ \A j \in 1..Len(m) : m[j] = s[Len(s) - Len(m) + j]
  BY <1>1, <1>2, <1>3, WindowElements
<1>5. Len(m) \in Nat /\ Len(m) <= n - from /\ (n > from => Len(m) > 0)
  BY <1>1, <1>2, <1>4
<1>6. ASSUME NEW j \in 1..Len(m)
      PROVE  n - Len(m) + j \in 1..n /\ m[j] = history[k][n - Len(m) + j]
  <2> DEFINE i == Len(s) - Len(m) + j
  <2>1. i \in 1..Len(s) /\ from + i = n - Len(m) + j /\ n - Len(m) + j \in 1..n
    BY <1>2, <1>5
  <2>2. m[j] = s[i] /\ s[i] = history[k][from + i]
    BY <1>2, <1>4, <2>1
  <2>3. QED
    BY <2>1, <2>2
<1>7. QED
  BY <1>4, <1>5, <1>6

\* Decisions that a window holds were stamped before now.
LEMMA HeldBefore ==
  ASSUME IInv, ClockInv, NEW k \in Keys, NEW m, NEW from \in Nat, NEW n \in Nat,
         from <= n, n <= Len(history[k]), Holds(m, k, from, n)
  PROVE  /\ Len(m) \in Nat
         /\ \A j \in 1..Len(m) : m[j].at \in Nat /\ m[j].at < now
<1>1. /\ Len(m) \in Nat
      /\ \A j \in 1..Len(m) : n - Len(m) + j \in 1..n /\ m[j] = history[k][n - Len(m) + j]
  BY HeldIs
<1>2. \A i \in 1..n : i \in 1..Len(history[k])
  BY HistoryIs
<1>3. \A i \in 1..Len(history[k]) : history[k][i].at \in Nat /\ history[k][i].at < now
  BY HistoryIs DEF ClockInv
<1>4. QED
  BY <1>1, <1>2, <1>3

\* What a snapshot holds of the decisions.
LEMMA FileDecisions ==
  ASSUME IInv, ClockInv, Complete
  PROVE  /\ Len(file.memory[Decisions]) \in Nat
         /\ \A j \in 1..Len(file.memory[Decisions]) :
              file.memory[Decisions][j].at \in Nat /\ file.memory[Decisions][j].at < now
<1>1. file \notin {Absent, Torn} /\ file \in [memory : Memories, upTo : Counts, since : Counts]
  BY DEF IInv, TypeOK, Complete
<1>2. /\ Decisions \in Keys
      /\ file.since[Decisions] \in Nat /\ file.upTo[Decisions] \in Nat
      /\ file.since[Decisions] <= file.upTo[Decisions]
      /\ file.upTo[Decisions] <= Len(history[Decisions])
      /\ Holds(file.memory[Decisions], Decisions, file.since[Decisions], file.upTo[Decisions])
  BY <1>1 DEF IInv, FileOK, Counts, Keys
<1>3. QED
  BY <1>2, HeldBefore

LEMMA CopyDecisions ==
  ASSUME IInv, ClockInv, saving.pc # "idle", saving.pc # "walk" \/ saving.key # Decisions
  PROVE  /\ Len(saving.copy[Decisions]) \in Nat
         /\ \A j \in 1..Len(saving.copy[Decisions]) :
              saving.copy[Decisions][j].at \in Nat /\ saving.copy[Decisions][j].at < now
<1>1. /\ Decisions \in Keys /\ cleared[Decisions] \in Nat /\ saving.upTo[Decisions] \in Nat
      /\ cleared[Decisions] <= saving.upTo[Decisions]
      /\ saving.upTo[Decisions] <= Len(history[Decisions])
      /\ Holds(saving.copy[Decisions], Decisions, cleared[Decisions], saving.upTo[Decisions])
  BY DEF IInv, TypeOK, SavingOK, Counts, Keys
<1>2. QED
  BY <1>1, HeldBefore

LEMMA InitRecall == Init => RecallIInv
<1> SUFFICES ASSUME Init PROVE RecallIInv
  OBVIOUS
<1>1. IInv
  BY InitIInv
<1>2. \A k \in Keys : history[k] = <<>> /\ Len(history[k]) = 0 /\ cleared[k] = 0 /\ restored[k] = 0
  BY EmptyTypes DEF Init
<1>3. ClockInv
  BY <1>2 DEF ClockInv
<1>4. CountedInv
  BY <1>2 DEF CountedInv, Init, Keys
<1>5. CopyInv /\ SnapshotInv
  BY DEF Init, CopyInv, Copied, SnapshotInv, Complete, NotSaving
<1>6. QED
  BY <1>1, <1>3, <1>4, <1>5 DEF RecallIInv

\* remember_decision, remember_app_state.
LEMMA RecordRecall ==
  ASSUME RecallIInv, IInv', NEW k \in Keys, NEW r \in Record(k), r.at = now, Store(k, r),
         writing' = IF k = Decisions THEN "decision" ELSE "state"
  PROVE  RecallIInv'
<1>1. /\ history' = [history EXCEPT ![k] = Append(@, r)] /\ now' = now + 1
      /\ UNCHANGED <<decisionsSeen, file, cleared, restored>> /\ writing = "no"
      /\ saving'.pc = saving.pc /\ saving'.key = saving.key /\ saving'.todo = saving.todo
      /\ saving'.copy = saving.copy /\ saving'.upTo = saving.upTo
  BY DEF Store, RecallIInv, IInv, TypeOK
<1>2. \A j \in Keys \ {k} : history'[j] = history[j]
  BY <1>1
<1>3. /\ now \in Nat
      /\ \A j \in Keys : /\ history[j] \in Seq(Record(j)) /\ Len(history[j]) \in Nat
                         /\ \A i \in 1..Len(history[j]) : history[j][i].at \in Nat
  BY HistoryIs DEF RecallIInv
<1> DEFINE n == Len(history[k])
<1>4. /\ Len(history'[k]) = n + 1 /\ history'[k][n + 1] = r
      /\ \A i \in 1..n : history'[k][i] = history[k][i]
  <2>1. history'[k] = Append(history[k], r)
    BY <1>1 DEF RecallIInv, IInv, TypeOK, Memories
  <2>2. QED
    BY <1>3, <2>1, AppendProperties
<1>5. \A i \in 1..(n + 1) : i \in 1..n \/ i = n + 1
  BY <1>3
<1>6. ClockInv'
  <2> SUFFICES ASSUME NEW j \in Keys, NEW i \in 1..Len(history'[j])
               PROVE  /\ history'[j][i].at < now + 1
                      /\ \A l \in 1..i : history'[j][l].at <= history'[j][i].at
    BY <1>1 DEF ClockInv
  <2>1. CASE j # k
    <3>1. /\ history'[j] = history[j] /\ history[j][i].at < now /\ history[j][i].at \in Nat
          /\ \A l \in 1..i : history[j][l].at <= history[j][i].at
      BY <1>2, <1>3, <2>1 DEF RecallIInv, ClockInv
    <3>2. QED
      BY <1>3, <3>1
  <2>2. CASE j = k /\ i \in 1..n
    <3>1. /\ history[k][i].at < now /\ history[k][i].at \in Nat
          /\ \A l \in 1..i : history[k][l].at <= history[k][i].at
      BY <1>3, <2>2 DEF RecallIInv, ClockInv
    <3>2. \A l \in 1..i : l \in 1..n
      BY <1>3, <2>2
    <3>3. history'[k][i] = history[k][i] /\ \A l \in 1..i : history'[k][l] = history[k][l]
      BY <1>4, <2>2, <3>2
    <3>4. history'[k][i].at < now + 1
      BY <1>3, <3>1, <3>3
    <3>5. \A l \in 1..i : history'[k][l].at <= history'[k][i].at
      BY <3>1, <3>3
    <3>6. QED
      BY <2>2, <3>4, <3>5
  <2>3. CASE j = k /\ i = n + 1
    <3>1. history'[k][i].at = now
      BY <1>4, <2>3
    <3>2. \A l \in 1..n : history'[k][l].at < now /\ history'[k][l].at \in Nat
      BY <1>3, <1>4 DEF RecallIInv, ClockInv
    <3>3. \A l \in 1..i : history'[k][l].at <= now
      BY <1>3, <1>5, <2>3, <3>1, <3>2
    <3>4. QED
      BY <1>3, <2>3, <3>1, <3>3
  <2>4. QED
    BY <1>4, <1>5, <2>1, <2>2, <2>3
<1>7. CountedInv'
  <2>1. /\ cleared[Decisions] \in Nat /\ restored[Decisions] \in Nat /\ decisionsSeen \in Nat
        /\ Decisions \in Keys
    BY HistoryIs DEF RecallIInv
  <2>2. decisionsSeen + restored[Decisions] = Len(history[Decisions]) - cleared[Decisions]
    BY <1>1, <2>1 DEF RecallIInv, CountedInv
  <2>3. CASE k = Decisions
    <3>1. writing' = "decision" /\ Len(history'[Decisions]) = Len(history[Decisions]) + 1
      BY <1>4, <2>3
    <3>2. Len(history[Decisions]) \in Nat
      BY <1>3, <2>1
    <3> HIDE DEF n
    <3>3. decisionsSeen + 1 + restored[Decisions]
            = Len(history'[Decisions]) - cleared[Decisions]
      <4> DEFINE d == decisionsSeen b == restored[Decisions] c == cleared[Decisions]
                 h == Len(history[Decisions]) l == Len(history'[Decisions])
      <4>1. d \in Nat /\ b \in Nat /\ c \in Nat /\ h \in Nat /\ d + b = h - c
        BY <2>1, <2>2, <3>2
      <4>2. l = h + 1
        BY <3>1
      <4> HIDE DEF d, b, c, h, l
      <4>3. d + 1 + b = l - c
        BY <4>1, <4>2
      <4>4. QED
        BY <4>3 DEF d, b, c, l
    <3>4. QED
      BY <1>1, <3>1, <3>3 DEF CountedInv
  <2>4. CASE k # Decisions
    <3>1. writing' # "decision" /\ history'[Decisions] = history[Decisions]
      BY <1>2, <2>1, <2>4
    <3>2. QED
      BY <1>1, <2>1, <2>2, <3>1 DEF CountedInv
  <2>5. QED
    BY <2>3, <2>4
\* A record is not older than any decision that has been copied.
<1>8. ASSUME NEW m, NEW a \in Apps, NEW u \in Nat, Len(m) \in Nat, Later(m, a, u),
             \A j \in 1..Len(m) : m[j].at \in Nat /\ m[j].at < now
      PROVE  \A i \in (u + 1)..Len(history'[a]) : \A j \in 1..Len(m) : m[j].at <= history'[a][i].at
  <2>1. a \in Keys
    BY DEF Keys
  <2> SUFFICES ASSUME NEW i \in (u + 1)..Len(history'[a]), NEW j \in 1..Len(m)
               PROVE  m[j].at <= history'[a][i].at
    OBVIOUS
  <2>2. CASE i \in (u + 1)..Len(history[a]) /\ history'[a][i] = history[a][i]
    BY <1>8, <2>2 DEF Later
  <2>3. CASE a = k /\ i = n + 1
    <3>1. history'[a][i].at = now
      BY <1>4, <2>3
    <3>2. m[j].at \in Nat /\ m[j].at < now
      BY <1>8
    <3>3. QED
      BY <1>3, <3>1, <3>2
  <2>4. (i \in (u + 1)..Len(history[a]) /\ history'[a][i] = history[a][i]) \/ (a = k /\ i = n + 1)
    <3>1. CASE a # k
      BY <1>2, <2>1, <3>1
    <3>2. CASE a = k
      <4>1. i \in (u + 1)..(n + 1) /\ n \in Nat
        BY <1>3, <1>4, <3>2
      <4>2. i = n + 1 \/ i \in (u + 1)..n
        BY <4>1
      <4>3. i \in (u + 1)..n => i \in 1..n
        BY <4>1
      <4>4. QED
        BY <1>4, <3>2, <4>2, <4>3
    <3>3. QED
      BY <3>1, <3>2
  <2>5. QED
    BY <2>2, <2>3, <2>4
<1>9. CopyInv'
  <2> SUFFICES ASSUME NEW a \in Apps, Copied(a)
               PROVE  \A i \in (saving.upTo[a] + 1)..Len(history'[a]) :
                        \A j \in 1..Len(saving.copy[Decisions]) :
                          saving.copy[Decisions][j].at <= history'[a][i].at
    BY <1>1 DEF CopyInv, Copied, Later
  <2>1. Later(saving.copy[Decisions], a, saving.upTo[a]) /\ saving.upTo[a] \in Nat
    BY DEF RecallIInv, CopyInv, IInv, TypeOK, Counts, Keys
  <2>2. /\ Len(saving.copy[Decisions]) \in Nat
        /\ \A j \in 1..Len(saving.copy[Decisions]) :
             saving.copy[Decisions][j].at \in Nat /\ saving.copy[Decisions][j].at < now
    BY CopyDecisions DEF RecallIInv, Copied
  <2>3. QED
    BY <1>8, <2>1, <2>2
<1>10. SnapshotInv'
  <2> SUFFICES ASSUME Complete, NEW a \in Apps
               PROVE  \A i \in (file.upTo[a] + 1)..Len(history'[a]) :
                        \A j \in 1..Len(file.memory[Decisions]) :
                          file.memory[Decisions][j].at <= history'[a][i].at
    BY <1>1 DEF SnapshotInv, Complete, Later
  <2>1. Later(file.memory[Decisions], a, file.upTo[a]) /\ file.upTo[a] \in Nat
    BY DEF RecallIInv, SnapshotInv, IInv, TypeOK, Counts, Keys, Complete
  <2>2. /\ Len(file.memory[Decisions]) \in Nat
        /\ \A j \in 1..Len(file.memory[Decisions]) :
             file.memory[Decisions][j].at \in Nat /\ file.memory[Decisions][j].at < now
    BY FileDecisions DEF RecallIInv
  <2>3. QED
    BY <1>8, <2>1, <2>2
<1>11. QED
  BY <1>6, <1>7, <1>9, <1>10 DEF RecallIInv

\* Steps that leave the histories alone.
LEMMA QuietRecall ==
  ASSUME RecallIInv, IInv', UNCHANGED <<history, now>>
  PROVE  /\ ClockInv'
         /\ UNCHANGED <<saving>> => CopyInv'
         /\ UNCHANGED <<file>> => SnapshotInv'
         /\ UNCHANGED <<decisionsSeen, writing, restored, cleared>> => CountedInv'
<1>1. ClockInv'
  BY DEF RecallIInv, ClockInv
<1>2. UNCHANGED <<saving>> => CopyInv'
  BY DEF RecallIInv, CopyInv, Copied, Later
<1>3. UNCHANGED <<file>> => SnapshotInv'
  BY DEF RecallIInv, SnapshotInv, Complete, Later
<1>4. UNCHANGED <<decisionsSeen, writing, restored, cleared>> => CountedInv'
  BY DEF RecallIInv, CountedInv
<1>5. QED
  BY <1>1, <1>2, <1>3, <1>4

LEMMA CountRecall == RecallIInv /\ IInv' /\ Count => RecallIInv'
<1> SUFFICES ASSUME RecallIInv, IInv', Count PROVE RecallIInv'
  OBVIOUS
<1>1. UNCHANGED <<history, now, saving, file, cleared, restored>>
  BY DEF Count
<1>2. /\ decisionsSeen \in Nat /\ restored[Decisions] \in Nat /\ cleared[Decisions] \in Nat
      /\ Len(history[Decisions]) \in Nat
  BY HistoryIs DEF RecallIInv
<1>3. decisionsSeen' + (IF writing' = "decision" THEN 1 ELSE 0)
        = decisionsSeen + (IF writing = "decision" THEN 1 ELSE 0)
  BY <1>2 DEF Count
<1>4. CountedInv'
  <2>1. CountedInv /\ decisionsSeen' \in Nat
    BY <1>2 DEF RecallIInv, Count
  <2>2. QED
    BY <1>1, <1>3, <2>1 DEF CountedInv
<1>5. QED
  BY <1>1, <1>4, QuietRecall DEF RecallIInv

LEMMA ClearRecall == RecallIInv /\ IInv' /\ ClearMemory => RecallIInv'
<1> SUFFICES ASSUME RecallIInv, IInv', ClearMemory PROVE RecallIInv'
  OBVIOUS
<1>1. /\ UNCHANGED <<history, now, saving, file, writing>> /\ writing = "no"
      /\ decisionsSeen' = 0 /\ restored' = Zero /\ cleared' = Lengths
  BY DEF ClearMemory
<1>2. /\ restored'[Decisions] = 0 /\ cleared'[Decisions] = Len(history[Decisions])
      /\ Len(history[Decisions]) \in Nat
  BY <1>1, EmptyTypes, HistoryIs DEF Lengths, RecallIInv
<1>3. CountedInv'
  BY <1>1, <1>2 DEF CountedInv
<1>4. QED
  BY <1>1, <1>3, QuietRecall DEF RecallIInv

\* The walk over the deques.
LEMMA SaveRecall ==
  ASSUME RecallIInv, IInv', OnlySaving,
         StartSave \/ SumStates \/ WalkOn \/ EndWalk \/ FailWalk
  PROVE  RecallIInv'
<1>1. UNCHANGED <<history, now, file, decisionsSeen, writing, restored, cleared, memory>>
  BY DEF OnlySaving, recorder
<1>2. /\ saving \in [pc : {"idle", "sum", "walk", "open", "write"}, stale : BOOLEAN,
                     key : Keys, todo : SUBSET Apps, copy : Memories, upTo : Counts]
      /\ Decisions \in Keys /\ Decisions \notin Apps
  BY MemoryAssumption DEF RecallIInv, IInv, TypeOK, Keys
<1> DEFINE Early == saving.pc \in {"idle", "sum"} \/ (saving.pc = "walk" /\ saving.key = Decisions)
<1>3. Early' => CopyInv'
  <2>1. Early' => \A a \in Apps : ~Copied(a)'
    BY DEF Copied
  <2>2. QED
    BY <2>1 DEF CopyInv
<1>4. ASSUME StartSave \/ SumStates \/ FailWalk PROVE CopyInv'
  <2>1. saving' = NotSaving => Early'
    BY DEF NotSaving
  <2>2. StartSave => Early'
    BY DEF StartSave, NotSaving
  <2>3. saving' = [saving EXCEPT !.pc = "walk", !.key = Decisions] => Early'
    BY <1>2
  <2> HIDE DEF Early
  <2>4. QED
    BY <1>3, <1>4, <2>1, <2>2, <2>3 DEF SumStates, FailWalk, Abort
<1>5. ASSUME WalkOn PROVE CopyInv'
  <2>1. /\ saving'.pc = "walk" /\ saving.pc = "walk" /\ saving'.key = saving.key
        /\ saving'.todo = saving.todo /\ saving'.upTo = saving.upTo
        /\ saving.key # Decisions => saving'.copy[Decisions] = saving.copy[Decisions]
    BY <1>2, <1>5 DEF WalkOn
  <2>2. CASE saving.key = Decisions
    BY <1>3, <2>1, <2>2
  <2>3. CASE saving.key # Decisions
    <3>1. \A a \in Apps : Copied(a)' => Copied(a)
      BY <2>1 DEF Copied
    <3>2. \A a \in Apps : Later(saving.copy[Decisions], a, saving.upTo[a])
                           => Later(saving.copy[Decisions], a, saving.upTo[a])'
      BY <1>1, <2>1, <2>3 DEF Later
    <3>3. QED
      BY <3>1, <3>2 DEF RecallIInv, CopyInv
  <2>4. QED
    BY <2>2, <2>3
<1>6. ASSUME EndWalk PROVE CopyInv'
  <2> DEFINE key == saving.key
  <2>1. /\ saving.pc = "walk" /\ ~saving.stale /\ key \in Keys /\ Left \subseteq Apps
        /\ saving'.copy = saving.copy /\ saving'.todo = Left
        /\ saving'.upTo = [saving.upTo EXCEPT ![key] = Len(history[key])]
        /\ (Left = {} /\ saving'.pc = "open") \/ (saving'.pc = "walk" /\ saving'.key \in Left)
    BY <1>2, <1>6 DEF EndWalk, Left, Known
  <2>2. ASSUME NEW a \in Apps, Copied(a)' PROVE a \notin Left
    BY <2>1, <2>2 DEF Copied
  <2>3. \A a \in Apps : /\ a \in Keys /\ Len(history[a]) \in Nat
                        /\ saving.upTo[a] \in Nat /\ saving.upTo \in Counts
    BY <1>2, HistoryIs DEF RecallIInv, Keys, Counts
  <2>4. ASSUME NEW a \in Apps, Copied(a)'
        PROVE  Later(saving.copy[Decisions], a, saving'.upTo[a])
    <3>1. CASE a = key
      <4>1. saving'.upTo[a] = Len(history[a])
        BY <2>1, <2>3, <3>1 DEF Counts
      <4>2. QED
        BY <2>3, <4>1 DEF Later
    <3>2. CASE a # key /\ key = Decisions
      <4>1. memory[a] = <<>> /\ saving'.upTo[a] = saving.upTo[a]
        BY <2>1, <2>2, <2>3, <2>4, <3>2 DEF Left, Known, Counts
      <4>2. Holds(memory[a], a, cleared[a], Len(history[a]))
        BY <2>3 DEF RecallIInv, IInv, MemoryIsAWindow, Holds
      <4>3. cleared[a] \in Nat /\ cleared[a] <= Len(history[a])
        BY <2>3, HistoryIs DEF RecallIInv
      <4>4. Len(history[a]) > cleared[a] => Len(memory[a]) > 0
        BY <2>3, <4>2, <4>3, HeldIs DEF RecallIInv
      <4>5. Len(memory[a]) = 0
        BY <4>1, EmptySeq
      <4>6. saving.upTo[a] >= cleared[a] /\ saving.upTo[a] <= Len(history[a])
        BY <2>1, <2>3 DEF RecallIInv, IInv, SavingOK
      <4>7. saving'.upTo[a] = Len(history[a])
        BY <2>3, <4>1, <4>3, <4>4, <4>5, <4>6
      <4>8. QED
        BY <2>3, <4>7 DEF Later
    <3>3. CASE a # key /\ key # Decisions
      <4>1. Copied(a)
        BY <2>1, <2>2, <2>4, <3>3 DEF Copied, Left
      <4>2. saving'.upTo[a] = saving.upTo[a]
        BY <2>1, <2>3, <3>3 DEF Counts
      <4>3. QED
        BY <4>1, <4>2 DEF RecallIInv, CopyInv
    <3>4. QED
      BY <3>1, <3>2, <3>3
  <2>5. \A a \in Apps : Later(saving.copy[Decisions], a, saving'.upTo[a])
                         => Later(saving.copy[Decisions], a, saving.upTo[a])'
    BY <1>1, <2>1 DEF Later
  <2>6. QED
    BY <2>4, <2>5 DEF CopyInv
<1>7. CopyInv'
  BY <1>4, <1>5, <1>6
<1>8. QED
  BY <1>1, <1>7, QuietRecall DEF RecallIInv

LEMMA FileRecall ==
  ASSUME RecallIInv, IInv', OpenSnapshot \/ WriteSnapshot
  PROVE  RecallIInv'
<1>1. UNCHANGED <<history, now, decisionsSeen, writing, restored, cleared>>
  BY DEF OpenSnapshot, WriteSnapshot, recorder
<1>2. CASE OpenSnapshot
  <2>1. file' = Torn /\ saving' = [saving EXCEPT !.pc = "write"] /\ saving.pc = "open"
    BY <1>2 DEF OpenSnapshot
  <2>2. /\ saving'.pc = "write" /\ saving'.copy = saving.copy /\ saving'.upTo = saving.upTo
    BY <2>1 DEF RecallIInv, IInv, TypeOK
  <2>3. CopyInv'
    BY <1>1, <2>1, <2>2 DEF RecallIInv, CopyInv, Copied, Later
  <2>4. SnapshotInv'
    BY <2>1 DEF SnapshotInv, Complete
  <2>5. QED
    BY <1>1, <2>3, <2>4, QuietRecall DEF RecallIInv
<1>3. CASE WriteSnapshot
  <2>1. /\ file' = [memory |-> saving.copy, upTo |-> saving.upTo, since |-> cleared]
        /\ saving' = NotSaving /\ saving.pc = "write"
    BY <1>3 DEF WriteSnapshot, Abort
  <2>2. CopyInv'
    BY <2>1 DEF CopyInv, Copied, NotSaving
  <2>3. \A a \in Apps : Later(saving.copy[Decisions], a, saving.upTo[a])
    BY <2>1 DEF RecallIInv, CopyInv, Copied
  <2>4. SnapshotInv'
    BY <1>1, <2>1, <2>3 DEF SnapshotInv, Later
  <2>5. QED
    BY <1>1, <2>2, <2>4, QuietRecall DEF RecallIInv
<1>4. QED
  BY <1>2, <1>3

LEMMA RestartRecall == RecallIInv /\ IInv' /\ Restart => RecallIInv'
<1> SUFFICES ASSUME RecallIInv, IInv', Restart PROVE RecallIInv'
  OBVIOUS
<1>1. /\ UNCHANGED <<file, now>> /\ saving' = NotSaving
      /\ decisionsSeen' = 0 /\ writing' = "no"
  BY DEF Restart
<1>2. CopyInv'
  BY <1>1 DEF CopyInv, Copied, NotSaving
<1>3. CASE ~Complete
  <2>1. history' = Empty /\ cleared' = Zero /\ restored' = Zero
    BY <1>3 DEF Restart
  <2>2. \A k \in Keys : Len(history'[k]) = 0
    BY <2>1, EmptyTypes
  <2>3. ClockInv'
    BY <2>2 DEF ClockInv
  <2>4. CountedInv'
    BY <1>1, <2>1, <2>2, EmptyTypes DEF CountedInv, Keys
  <2>5. SnapshotInv'
    BY <1>1, <1>3 DEF SnapshotInv, Complete
  <2>6. QED
    BY <1>2, <2>3, <2>4, <2>5 DEF RecallIInv
<1>4. CASE Complete
  <2>1. /\ history' = [k \in Keys |-> SubSeq(history[k], 1, file.upTo[k])]
        /\ cleared' = file.since
        /\ restored' = [k \in Keys |-> file.upTo[k] - file.since[k]]
    BY <1>4 DEF Restart
  <2>2. ASSUME NEW k \in Keys
        PROVE  /\ file.upTo[k] \in Nat /\ file.since[k] \in Nat
               /\ file.since[k] <= file.upTo[k] /\ file.upTo[k] <= Len(history[k])
               /\ Len(history'[k]) = file.upTo[k]
               /\ \A i \in 1..file.upTo[k] : history'[k][i] = history[k][i]
    <3>1. /\ file.upTo[k] \in Nat /\ file.since[k] \in Nat
          /\ file.since[k] <= file.upTo[k] /\ file.upTo[k] <= Len(history[k])
      BY <1>4 DEF RecallIInv, IInv, TypeOK, FileOK, Complete, Counts
    <3>2. history[k] \in Seq(Record(k)) /\ history'[k] = SubSeq(history[k], 1, file.upTo[k])
      BY <2>1, HistoryIs DEF RecallIInv
    <3> DEFINE u == file.upTo[k] h == history[k] s == SubSeq(h, 1, u)
    <3>3. /\ Len(s) = IF 1 <= u THEN u - 1 + 1 ELSE 0
          /\ \A i \in 1..Len(s) : s[i] = h[1 + i - 1]
      <4>1. 1 \in Nat \ {0}
        OBVIOUS
      <4> HIDE DEF u, h
      <4>2. u \in Nat /\ u <= Len(h) /\ h \in Seq(Record(k))
        BY <3>1, <3>2 DEF u, h
      <4>3. QED
        BY <4>1, <4>2, Slice
    <3> HIDE DEF u, h, s
    <3>4. u \in Nat
      BY <3>1 DEF u
    <3>5. Len(s) = u /\ \A i \in 1..u : s[i] = h[i]
      <4>1. Len(s) = u
        BY <3>3, <3>4
      <4>2. \A i \in 1..u : 1 + i - 1 = i
        BY <3>4
      <4>3. QED
        BY <3>3, <4>1, <4>2
    <3>6. QED
      BY <3>1, <3>2, <3>5 DEF u, h, s
  <2>3. ClockInv'
    <3> SUFFICES ASSUME NEW k \in Keys, NEW i \in 1..Len(history'[k])
                 PROVE  /\ history'[k][i].at < now
                        /\ \A j \in 1..i : history'[k][j].at <= history'[k][i].at
      BY <1>1 DEF ClockInv
    <3>1. /\ Len(history[k]) \in Nat /\ i \in 1..file.upTo[k] /\ i \in 1..Len(history[k])
      BY <2>2, HistoryIs DEF RecallIInv
    <3>2. \A j \in 1..i : j \in 1..file.upTo[k]
      BY <2>2, <3>1
    <3>3. /\ history[k][i].at < now
          /\ \A j \in 1..i : history[k][j].at <= history[k][i].at
      BY <3>1 DEF RecallIInv, ClockInv
    <3>4. QED
      BY <2>2, <3>1, <3>2, <3>3
  <2>4. CountedInv'
    <3>1. Decisions \in Keys
      BY DEF Keys
    <3>2. /\ restored'[Decisions] = file.upTo[Decisions] - file.since[Decisions]
          /\ cleared'[Decisions] = file.since[Decisions]
          /\ Len(history'[Decisions]) = file.upTo[Decisions]
      BY <2>1, <2>2, <3>1
    <3>3. QED
      BY <1>1, <2>2, <3>1, <3>2 DEF CountedInv
  <2>5. SnapshotInv'
    <3>1. \A a \in Apps : a \in Keys /\ Len(history'[a]) = file.upTo[a] /\ file.upTo[a] \in Nat
      BY <2>2 DEF Keys
    <3>2. \A a \in Apps : \A i \in (file.upTo[a] + 1)..Len(history'[a]) : FALSE
      BY <3>1
    <3>3. QED
      BY <1>1, <3>2 DEF SnapshotInv, Later
  <2>6. QED
    BY <1>2, <2>3, <2>4, <2>5 DEF RecallIInv
<1>5. QED
  BY <1>3, <1>4

LEMMA NextRecall == RecallIInv /\ [Next]_vars => RecallIInv'
<1> SUFFICES ASSUME RecallIInv, [Next]_vars PROVE RecallIInv'
  OBVIOUS
<1>1. IInv /\ IInv'
  BY NextIInv DEF RecallIInv
<1>2. CASE RememberDecision
  <2>1. PICK d \in DecisionKinds : Store(Decisions, [at |-> now, says |-> d])
    BY <1>2 DEF RememberDecision
  <2>2. [at |-> now, says |-> d] \in Record(Decisions)
    BY <1>1, <2>1, RecordTypes DEF Store, IInv
  <2>3. Decisions \in Keys /\ [at |-> now, says |-> d].at = now /\ writing' = "decision"
    BY <1>2 DEF RememberDecision, Keys
  <2>4. QED
    BY <1>1, <2>1, <2>2, <2>3, RecordRecall
<1>3. ASSUME NEW a \in Apps, RememberAppState(a) PROVE RecallIInv'
  <2>1. /\ [at |-> now] \in Record(a) /\ Store(a, [at |-> now]) /\ writing' = "state"
        /\ a \in Keys /\ a # Decisions /\ [at |-> now].at = now
    BY <1>1, <1>3, RecordTypes, MemoryAssumption DEF RememberAppState, Store, IInv, Keys
  <2>2. QED
    BY <1>1, <2>1, RecordRecall
<1>4. CASE Count
  BY <1>1, <1>4, CountRecall
<1>5. CASE ClearMemory
  BY <1>1, <1>5, ClearRecall
<1>6. CASE StartSave \/ SumStates \/ WalkOn \/ EndWalk \/ FailWalk
  <2>1. OnlySaving
    BY <1>6 DEF StartSave, SumStates, WalkOn, EndWalk, FailWalk
  <2>2. QED
    BY <1>1, <1>6, <2>1, SaveRecall
<1>7. CASE OpenSnapshot \/ WriteSnapshot
  BY <1>1, <1>7, FileRecall
<1>8. CASE Restart
  BY <1>1, <1>8, RestartRecall
<1>9. CASE UNCHANGED vars
  <2>1. UNCHANGED <<history, now, saving, file, decisionsSeen, writing, restored, cleared>>
    BY <1>9 DEF vars, recorder
  <2>2. QED
    BY <1>1, <2>1, QuietRecall DEF RecallIInv
<1>10. QED
  BY <1>2, <1>3, <1>4, <1>5, <1>6, <1>7, <1>8, <1>9 DEF Next

\* A snapshot holds no states older than those known when its newest decision was made.
LEMMA SavedAreCurrent == RecallIInv => SavedStatesAreCurrent
<1> SUFFICES ASSUME RecallIInv, Complete, file.memory[Decisions] # <<>>,
                    NEW a \in Apps, NEW i \in (file.since[a] + 1)..Len(history[a]),
                    history[a][i].at < file.memory[Decisions][Len(file.memory[Decisions])].at
             PROVE  /\ file.memory[a] # <<>>
                    /\ file.memory[a][Len(file.memory[a])].at >= history[a][i].at
  BY DEF SavedStatesAreCurrent
<1> DEFINE m == file.memory[a] u == file.upTo[a] s == file.since[a]
           d == file.memory[Decisions]
<1>1. /\ a \in Keys /\ u \in Nat /\ s \in Nat /\ s <= u /\ u <= Len(history[a])
      /\ Holds(m, a, s, u)
  BY DEF RecallIInv, IInv, TypeOK, FileOK, Complete, Counts, Keys
<1>2. Len(history[a]) \in Nat /\ \A j \in 1..Len(history[a]) : history[a][j].at \in Nat
  BY <1>1, HistoryIs DEF RecallIInv
<1>3. /\ m \in Seq(Record(a)) /\ Len(m) \in Nat /\ (u > s => Len(m) > 0)
      /\ \A j \in 1..Len(m) : u - Len(m) + j \in 1..u /\ m[j] = history[a][u - Len(m) + j]
  <2>1. IInv
    BY DEF RecallIInv
  <2> HIDE DEF m, u, s
  <2>2. QED
    BY <1>1, <2>1, HeldIs
<1>4. Len(d) \in 1..Len(d) /\ d[Len(d)].at \in Nat
  <2>1. Len(d) \in Nat /\ \A j \in 1..Len(d) : d[j].at \in Nat
    BY FileDecisions DEF RecallIInv
  <2>2. d \in Seq(Record(Decisions))
    BY DEF RecallIInv, IInv, TypeOK, Complete, Memories, Keys
  <2>3. Len(d) # 0
    BY <2>2, EmptySeq
  <2>4. QED
    BY <2>1, <2>3
<1>5. i \in 1..Len(history[a]) /\ history[a][i].at \in Nat
  BY <1>1, <1>2
<1>6. i <= u
  <2>1. Later(d, a, u)
    BY DEF RecallIInv, SnapshotInv
  <2>2. i \in (u + 1)..Len(history[a]) => d[Len(d)].at <= history[a][i].at
    BY <1>4, <2>1 DEF Later
  <2>3. ~(d[Len(d)].at <= history[a][i].at)
    BY <1>4, <1>5
  <2> HIDE DEF d, u
  <2>4. QED
    BY <1>1, <1>2, <1>5, <2>2, <2>3
<1>7. Len(m) > 0 /\ m # <<>>
  <2>1. u > s
    BY <1>1, <1>2, <1>6
  <2>2. QED
    BY <1>3, <2>1, EmptySeq
<1>8. m[Len(m)] = history[a][u]
  <2> HIDE DEF m, u
  <2>1. Len(m) \in 1..Len(m) /\ u - Len(m) + Len(m) = u
    BY <1>1, <1>3, <1>7
  <2>2. QED
    BY <1>3, <2>1
<1>9. history[a][i].at <= history[a][u].at /\ history[a][u].at \in Nat
  <2>1. u \in 1..Len(history[a]) /\ i \in 1..u
    BY <1>1, <1>2, <1>5, <1>6
  <2>2. QED
    BY <1>1, <1>2, <2>1 DEF RecallIInv, ClockInv
<1> HIDE DEF m, u
<1>10. m[Len(m)].at >= history[a][i].at
  BY <1>5, <1>8, <1>9
<1>11. QED
  BY <1>7, <1>10 DEF m

\* The outcomes of two kinds are those of different decisions.
LEMMA OutcomesAre ==
  ASSUME TypeOK
  PROVE  /\ OutcomesOf({"failed"}) + OutcomesOf({"executed"}) <= Len(Recall(StatusLookback))
         /\ OutcomesOf({"failed"}) \in Nat /\ OutcomesOf({"executed"}) \in Nat
<1> DEFINE all == Recall(StatusLookback)
           n == Len(all)
           A == {i \in 1..n : all[i].says.outcome \in {"failed"}}
           B == {i \in 1..n : all[i].says.outcome \in {"executed"}}
<1>1. n \in Nat
  BY RecalledIs, MemoryAssumption
<1>2. OutcomesOf({"failed"}) = Cardinality(A) /\ OutcomesOf({"executed"}) = Cardinality(B)
  BY DEF OutcomesOf
<1>3. A \cup B \subseteq 1..n /\ A \subseteq 1..n /\ B \subseteq 1..n /\ A \cap B = {}
  OBVIOUS
<1> HIDE DEF A, B, n
<1>4. IsFiniteSet(1..n) /\ Cardinality(1..n) = n
  BY <1>1, FS_Interval
<1>5. /\ IsFiniteSet(A) /\ IsFiniteSet(B) /\ Cardinality(A) \in Nat /\ Cardinality(B) \in Nat
      /\ Cardinality(A \cup B) <= n
  BY <1>3, <1>4, FS_Subset, FS_CardinalityType
<1>6. Cardinality(A \cup B) = Cardinality(A) + Cardinality(B)
  <2>1. Cardinality(A \cup B) = Cardinality(A) + Cardinality(B) - Cardinality(A \cap B)
    BY <1>5, FS_Union
  <2>2. Cardinality(A \cap B) = 0
    BY <1>3, FS_EmptySet
  <2>3. QED
    BY <1>5, <2>1, <2>2
<1>7. QED
  BY <1>2, <1>5, <1>6 DEF n

LEMMA ConsideredIs ==
  ASSUME NEW s \in Nat \ {0}, decisionsSeen = s
  PROVE  Considered \in Nat /\ (s <= StatusWindow => Considered >= s)
         /\ (s > StatusWindow => Considered >= StatusWindow)
<1> DEFINE w == StatusWindow
           low == Min({s, w})
           top == Max({1, low})
<1>1. w \in Nat
  BY MemoryAssumption
<1>2. low = IF s <= w THEN s ELSE w
  <2>1. \E x \in {s, w} : \A y \in {s, w} : x <= y
    BY <1>1
  <2>2. low \in {s, w} /\ low <= s /\ low <= w
    BY <2>1 DEF Min
  <2> HIDE DEF low
  <2>3. QED
    BY <1>1, <2>2
<1>3. top \in {1, low} /\ top >= low
  <2> HIDE DEF low
  <2>1. low \in Nat
    BY <1>1, <1>2
  <2>2. \E x \in {1, low} : \A y \in {1, low} : x >= y
    BY <2>1
  <2>3. QED
    BY <2>2 DEF Max
<1>4. Considered = top
  BY DEF Considered
<1> HIDE DEF top, low
<1>5. QED
  BY <1>1, <1>2, <1>3, <1>4

LEMMA RatesHold == RecallIInv => RatesAreRates
<1> SUFFICES ASSUME RecallIInv, writing = "no"
             PROVE  /\ restored[Decisions] = 0 /\ decisionsSeen > 0 =>
                         OutcomesOf({"failed"}) + OutcomesOf({"executed"}) <= Considered
                    /\ Evicted + restored[Decisions] =
                         Len(history[Decisions]) - cleared[Decisions] - Len(memory[Decisions])
  BY DEF RatesAreRates
<1> DEFINE s == decisionsSeen r == restored[Decisions] c == cleared[Decisions]
           h == Len(history[Decisions]) m == Len(memory[Decisions])
<1>1. s \in Nat /\ r \in Nat /\ c \in Nat /\ h \in Nat /\ c <= h /\ Decisions \in Keys
  BY HistoryIs DEF RecallIInv
<1>2. m \in Nat /\ m <= h - c
  <2>1. Holds(memory[Decisions], Decisions, c, h)
    BY <1>1 DEF RecallIInv, IInv, MemoryIsAWindow, Holds
  <2>2. QED
    BY <1>1, <2>1, HeldIs DEF RecallIInv
<1>3. s + r = h - c
  <2>1. s + 0 + r = h - c
    BY DEF RecallIInv, CountedInv
  <2>2. QED
    BY <1>1, <2>1
<1>4. Evicted = s - m
  BY DEF Evicted
<1>5. ASSUME r = 0, s > 0
      PROVE  OutcomesOf({"failed"}) + OutcomesOf({"executed"}) <= Considered
  <2> DEFINE n == Len(Recall(StatusLookback)) k == OutcomesOf({"failed"}) + OutcomesOf({"executed"})
  <2>1. /\ k \in Nat /\ k <= n
    BY OutcomesAre DEF RecallIInv, IInv
  <2>2. n \in Nat /\ n <= m /\ n <= StatusLookback
    BY RecalledIs, MemoryAssumption DEF RecallIInv, IInv
  <2>3. /\ Considered \in Nat /\ (s <= StatusWindow => Considered >= s)
        /\ (s > StatusWindow => Considered >= StatusWindow)
    BY <1>1, <1>5, ConsideredIs
  <2>4. StatusLookback <= StatusWindow /\ StatusLookback \in Nat /\ StatusWindow \in Nat
    BY MemoryAssumption
  <2> HIDE DEF n, k, s, r, c, h, m
  <2>5. k <= Considered
    BY <1>1, <1>2, <1>3, <1>5, <2>1, <2>2, <2>3, <2>4
  <2>6. QED
    BY <2>5 DEF k
<1>6. Evicted + r = h - c - m
  <2> HIDE DEF s, r, c, h, m
  <2>1. QED
    BY <1>1, <1>2, <1>3, <1>4
<1>7. QED
  BY <1>5, <1>6

\* What is read from the memory is right: a snapshot has no states that are older than those
\* known when its newest decision was made (get_memory_snapshot), repeated_actions is the
\* length of the longest run (get_memory_context), and the rates of the status are rates
\* (get_agent_status, get_memory_stats).
THEOREM RecollectionsStayRight == Spec => []RecollectionsAreRight
<1>1. RecallIInv => RecollectionsAreRight
  BY SavedAreCurrent, RepeatsAreLongest, RatesHold DEF RecollectionsAreRight, RecallIInv, IInv
<1>2. QED
  BY <1>1, InitRecall, NextRecall, PTL DEF Spec

=============================================================================
