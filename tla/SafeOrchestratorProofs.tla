------------------------ MODULE SafeOrchestratorProofs ------------------------
(* Proofs about SafeOrchestrator, for every value of its constants: any set of *)
(* applications, operators and modes, any finite set of executors.             *)
EXTENDS SafeOrchestrator, SequenceTheorems, FiniteSetTheorems, TLAPS

-----------------------------------------------------------------------------
(* The inductive invariant.                                                *)

\* An override that is under way has a job and a store; so has a call its data.
PointsInv ==
  /\ \A o \in Operators : opc[o] # "idle" => job[o] \in Jobs /\ file # Absent
  /\ \A e \in Executors :
       /\ epc[e] # "idle" => call[e] \in Calls
       /\ epc[e] = "act" => call[e].action \in SafetyRules

\* Neither the store nor a copy of it, nor a freeze on its way into one, ends later than
\* an operator asked.
Granted(s) == \A a \in Apps : s[a] # Nothing /\ s[a].enabled => s[a].until <= granted[a]

ExpiryInv ==
  /\ file \in Stores => Granted(file)
  /\ \A o \in Operators :
       /\ Granted(copy[o])
       /\ opc[o] # "idle" /\ job[o].kind = "set" => job[o].until <= granted[job[o].app]

\* A store that has the freeze of a, if one was confirmed and goes on.
Keeps(s, a) == acked[a] > now => s[a] # Nothing /\ s[a].enabled /\ s[a].until >= acked[a]

\* While overrides come one at a time: only one is under way; the store keeps every freeze
\* until it is truncated, and the copy every freeze but that of its own application, whose
\* place the new one takes.
StoreInv ==
  /\ jobs = 0 => Quiet /\ \A a \in Apps : acked[a] = 0
  /\ ~disturbed =>
       /\ \A o, p \in Operators : opc[o] # "idle" /\ opc[p] # "idle" => o = p
       /\ (\A o \in Operators : opc[o] # "write") =>
            \A a \in Apps : acked[a] > now => file \in Stores /\ Keeps(file, a)
       /\ \A o \in Operators :
            /\ opc[o] = "write" => file = Torn
            /\ opc[o] \in {"open", "write"} =>
                 /\ \A a \in Apps \ {job[o].app} : Keeps(copy[o], a)
                 /\ job[o].kind = "set" =>
                      copy[o][job[o].app] = [enabled |-> TRUE, until |-> job[o].until]

\* What has passed the gate and is to be executed concerns no application with a freeze in
\* force, unless the executor is excused.
ActInv ==
  ~disturbed =>
    \A e \in Executors \ excused :
      epc[e] = "act" /\ call[e].entry = "gate" /\ call[e].action # "noop"
        => ~(acked[call[e].app] > now)

IInv == TypeOK /\ PointsInv /\ ExpiryInv /\ StoreInv /\ ActInv

-----------------------------------------------------------------------------
(* Data.                                                                   *)

LEMMA Times ==
  /\ Time \subseteq Nat /\ Ends \subseteq Nat /\ Time \subseteq Ends
  /\ \A t \in Time, d \in Durations : t + d \in Ends
  BY OrchestratorAssumption, SMT DEF Time, Ends

LEMMA EmptyStore ==
  /\ Empty \in Stores
  /\ \A a \in Apps : Empty[a] = Nothing
  BY DEF Empty, Stores


-----------------------------------------------------------------------------
(* Types, and what each point of an override or a call has.                *)

LEMMA BegunType == TypeOK => Begun \in Nat
<1> SUFFICES ASSUME TypeOK PROVE Begun \in Nat
  OBVIOUS
<1>1. Len(log) \in Nat
  BY LenProperties DEF TypeOK
<1>2. Cardinality({e \in Executors : epc[e] # "idle"}) \in Nat
  BY OrchestratorAssumption, FS_Subset, FS_CardinalityType
<1>3. QED
  BY <1>1, <1>2, SMT DEF Begun

LEMMA InitIInv == Init => IInv
<1> SUFFICES ASSUME Init PROVE IInv
  OBVIOUS
<1>1. TypeOK
  <2>1. now \in Time /\ jobs \in 0..MaxWork /\ 0 \in Ends
    BY OrchestratorAssumption, Times, SMT DEF Init, Time
  <2>2. log \in Seq(Rows)
    BY EmptySeq DEF Init
  <2>3. mode \in Modes /\ file \in Stores \cup {Torn, Absent}
    BY EmptyStore DEF Init
  <2>4. copy \in [Operators -> Stores]
    BY EmptyStore DEF Init
  <2>5. granted \in [Apps -> Ends] /\ acked \in [Apps -> Ends]
    BY <2>1 DEF Init
  <2>6. QED
    BY <2>1, <2>2, <2>3, <2>4, <2>5 DEF Init, TypeOK, Stores
<1>2. PointsInv
  BY DEF Init, PointsInv
<1>3. ExpiryInv
  BY EmptyStore, NamesAssumption DEF Init, ExpiryInv, Granted
<1>4. StoreInv
  BY OrchestratorAssumption DEF Init, StoreInv, Quiet
<1>5. ActInv
  BY DEF Init, ActInv
<1>6. QED
  BY <1>1, <1>2, <1>3, <1>4, <1>5 DEF IInv

\* The steps of an override keep the types.
LEMMA OperatorTypes ==
  ASSUME TypeOK, PointsInv, NEW o \in Operators, OperatorStep(o)
  PROVE  TypeOK' /\ PointsInv'
<1>0. /\ now \in Ends /\ jobs \in Nat /\ MaxWork \in Nat /\ file \in Stores \cup {Torn, Absent}
      /\ copy \in [Operators -> Stores]
  BY Times, OrchestratorAssumption, SMT DEF TypeOK, Stores
<1>1. CASE BeginOverride(o)
  <2>1. jobs' \in 0..MaxWork
    BY <1>0, <1>1, BegunType, SMT DEF BeginOverride
  <2>2. PICK a \in Apps :
          \/ \E d \in Durations :
               /\ job' = [job EXCEPT ![o] = [app |-> a, until |-> now + d, kind |-> "set"]]
               /\ granted' = [granted EXCEPT ![a] = IF now + d > @ THEN now + d ELSE @]
          \/ /\ job' = [job EXCEPT ![o] = [app |-> a, until |-> now, kind |-> "clear"]]
             /\ UNCHANGED granted
    BY <1>1 DEF BeginOverride
  <2>3. \A d \in Durations : now + d \in Ends
    BY Times DEF TypeOK
  <2>4. /\ job' \in [Operators -> Jobs \cup {Nothing}] /\ job'[o] \in Jobs
        /\ \A p \in Operators \ {o} : job'[p] = job[p]
        /\ granted' \in [Apps -> Ends]
    <3>1. CASE \E d \in Durations :
                 /\ job' = [job EXCEPT ![o] = [app |-> a, until |-> now + d, kind |-> "set"]]
                 /\ granted' = [granted EXCEPT ![a] = IF now + d > @ THEN now + d ELSE @]
      <4>1. PICK d \in Durations :
              /\ job' = [job EXCEPT ![o] = [app |-> a, until |-> now + d, kind |-> "set"]]
              /\ granted' = [granted EXCEPT ![a] = IF now + d > @ THEN now + d ELSE @]
        BY <3>1
      <4>2. [app |-> a, until |-> now + d, kind |-> "set"] \in Jobs
        BY <2>3 DEF Jobs
      <4>3. granted' \in [Apps -> Ends]
        BY <2>3, <4>1 DEF TypeOK
      <4>4. QED
        BY <4>1, <4>2, <4>3 DEF TypeOK
    <3>2. CASE /\ job' = [job EXCEPT ![o] = [app |-> a, until |-> now, kind |-> "clear"]]
               /\ UNCHANGED granted
      <4>1. [app |-> a, until |-> now, kind |-> "clear"] \in Jobs
        BY <1>0 DEF Jobs
      <4>2. QED
        BY <3>2, <4>1 DEF TypeOK
    <3>3. QED
      BY <2>2, <3>1, <3>2
  <2>5. file' \in Stores \cup {Torn, Absent} /\ file' # Absent
    BY <1>0, <1>1, EmptyStore, NamesAssumption DEF BeginOverride
  <2>6. /\ opc' = [opc EXCEPT ![o] = "read"] /\ disturbed' \in BOOLEAN
        /\ UNCHANGED <<mode, now, copy, acked, epc, call, excused, service, log>>
    BY <1>1 DEF BeginOverride, execution
  <2>7. TypeOK'
    BY <2>1, <2>4, <2>5, <2>6 DEF TypeOK, Stores
  <2>8. QED
    BY <2>4, <2>5, <2>6, <2>7 DEF TypeOK, PointsInv, SafetyRules
<1>2. CASE ReadStore(o)
  <2>0. PICK read \in {Empty, IF file = Torn THEN Empty ELSE file} : ReadsAs(o, read)
    BY <1>2 DEF ReadStore
  <2> DEFINE a == job[o].app
  <2>1. opc[o] = "read" /\ job[o] \in Jobs /\ file # Absent
    BY <2>0 DEF ReadsAs, PointsInv
  <2>2. read \in Stores /\ a \in Apps /\ job[o].until \in Ends
    BY <1>0, <2>1, EmptyStore DEF Jobs
  <2>3. \A f \in BOOLEAN, u \in Ends :
          [read EXCEPT ![a] = [enabled |-> f, until |-> u]] \in Stores
    BY <2>2 DEF Stores, Entry
  <2>4. /\ UNCHANGED <<mode, now, file, jobs, granted, epc, call, excused, service, log>>
        /\ disturbed' \in BOOLEAN
        /\ \/ /\ \E f \in BOOLEAN, u \in Ends :
                   copy' = [copy EXCEPT ![o] = [read EXCEPT ![a] = [enabled |-> f, until |-> u]]]
              /\ opc' = [opc EXCEPT ![o] = "open"]
              /\ UNCHANGED <<job, acked>>
           \/ /\ acked' = [acked EXCEPT ![a] = 0]
              /\ opc' = [opc EXCEPT ![o] = "idle"]
              /\ job' = [job EXCEPT ![o] = Nothing]
              /\ UNCHANGED copy
    BY <1>0, <2>0, <2>2 DEF ReadsAs, execution
  <2>5. /\ copy' \in [Operators -> Stores] /\ acked' \in [Apps -> Ends]
        /\ job' \in [Operators -> Jobs \cup {Nothing}]
        /\ opc' \in [Operators -> {"idle", "read", "open", "write"}]
    <3>1. 0 \in Ends
      BY OrchestratorAssumption, Times, SMT DEF Time
    <3> HIDE DEF a
    <3>2. CASE UNCHANGED <<job, acked>> /\ opc' = [opc EXCEPT ![o] = "open"]
               /\ \E f \in BOOLEAN, u \in Ends :
                    copy' = [copy EXCEPT ![o] = [read EXCEPT ![a] = [enabled |-> f, until |-> u]]]
      <4>1. PICK s \in Stores : copy' = [copy EXCEPT ![o] = s]
        BY <2>3, <3>2
      <4>2. QED
        BY <1>0, <3>2, <4>1 DEF TypeOK
    <3>3. CASE /\ acked' = [acked EXCEPT ![a] = 0] /\ opc' = [opc EXCEPT ![o] = "idle"]
               /\ job' = [job EXCEPT ![o] = Nothing] /\ UNCHANGED copy
      BY <1>0, <2>2, <3>1, <3>3 DEF TypeOK
    <3>4. QED
      BY <2>4, <3>2, <3>3
  <2> HIDE DEF a
  <2>6. TypeOK'
    BY <2>4, <2>5 DEF TypeOK, Stores
  <2>7. PointsInv'
    BY <2>1, <2>4 DEF TypeOK, PointsInv, SafetyRules
  <2>8. QED
    BY <2>6, <2>7
<1>3. CASE OpenStore(o)
  <2>1. /\ opc[o] = "open" /\ file' = Torn /\ opc' = [opc EXCEPT ![o] = "write"]
        /\ UNCHANGED <<mode, now, jobs, job, copy, granted, acked, disturbed,
                       epc, call, excused, service, log>>
    BY <1>3 DEF OpenStore, execution
  <2>2. TypeOK'
    BY <2>1 DEF TypeOK
  <2>3. QED
    BY <2>1, <2>2, NamesAssumption DEF TypeOK, PointsInv, SafetyRules
<1>4. CASE WriteStore(o)
  <2>1. job[o] \in Jobs /\ job[o].app \in Apps /\ job[o].until \in Ends /\ 0 \in Ends
    <3>1. 0 \in Ends
      BY OrchestratorAssumption, Times, SMT DEF Time
    <3>2. QED
      BY <1>4, <3>1 DEF WriteStore, PointsInv, Jobs
  <2>2. /\ file' \in {copy[o], Torn}
        /\ acked' = [acked EXCEPT ![job[o].app] =
                       IF job[o].kind = "set" THEN job[o].until ELSE 0]
        /\ opc' = [opc EXCEPT ![o] = "idle"]
        /\ job' = [job EXCEPT ![o] = Nothing]
        /\ copy' = [copy EXCEPT ![o] = Empty]
        /\ excused' \subseteq Executors
        /\ UNCHANGED <<mode, now, jobs, granted, disturbed, epc, call, service, log>>
    BY <1>4 DEF WriteStore, TypeOK
  <2>3. file' \in Stores \cup {Torn, Absent} /\ file' # Absent
    BY <1>0, <2>2, NamesAssumption
  <2>4. acked' \in [Apps -> Ends] /\ copy' \in [Operators -> Stores]
    BY <1>0, <2>1, <2>2, EmptyStore DEF TypeOK
  <2>5. TypeOK'
    BY <2>2, <2>3, <2>4 DEF TypeOK, Stores
  <2>6. QED
    BY <2>2, <2>3, <2>5 DEF TypeOK, PointsInv, SafetyRules
<1>5. CASE BreakOff(o)
  <2>1. /\ opc' = [opc EXCEPT ![o] = "idle"]
        /\ job' = [job EXCEPT ![o] = Nothing]
        /\ copy' = [copy EXCEPT ![o] = Empty]
        /\ disturbed' \in BOOLEAN
        /\ UNCHANGED <<mode, now, file, jobs, granted, acked, epc, call, excused, service, log>>
    BY <1>5 DEF BreakOff, execution
  <2>2. copy' \in [Operators -> Stores]
    BY <1>0, <2>1, EmptyStore
  <2>3. TypeOK'
    BY <2>1, <2>2 DEF TypeOK, Stores
  <2>4. QED
    BY <2>1, <2>3 DEF TypeOK, PointsInv, SafetyRules
<1>6. QED
  BY <1>1, <1>2, <1>3, <1>4, <1>5 DEF OperatorStep

LEMMA RulesAreActions == SafetyRules \subseteq Actions
  BY DEF SafetyRules, Actions

\* The first gate that refuses names its reason, and "none" means that none refuses.
LEMMA RefusalNames ==
  ASSUME NEW c
  PROVE  /\ Refusal(c) \in Reasons
         /\ Refusal(c) = "none" => \A i \in DOMAIN GateOrder : ~Blocks(c, GateOrder[i])
<1> DEFINE blocking == {i \in DOMAIN GateOrder : Blocks(c, GateOrder[i])}
           first == CHOOSE i \in blocking : \A j \in blocking : i <= j
<1>1. DOMAIN GateOrder = 1..7
  BY DEF GateOrder
<1>2. \A i \in 1..7 : GateOrder[i] \in Reasons \ {"none"}
  BY SMT DEF GateOrder, Reasons
<1>3. Refusal(c) = IF blocking = {} THEN "none" ELSE GateOrder[first]
  BY DEF Refusal
<1>4. ASSUME blocking # {} PROVE first \in 1..7
  <2>1. blocking \subseteq 1..7
    BY <1>1
  <2> HIDE DEF blocking
  <2>2. \E i \in blocking : \A j \in blocking : i <= j
    <3>1. CASE 1 \in blocking
      BY <2>1, <3>1, SMT
    <3>2. CASE 1 \notin blocking /\ 2 \in blocking
      BY <2>1, <3>2, SMT
    <3>3. CASE blocking \subseteq 3..7 /\ 3 \in blocking
      BY <3>3, SMT
    <3>4. CASE blocking \subseteq 4..7 /\ 4 \in blocking
      BY <3>4, SMT
    <3>5. CASE blocking \subseteq 5..7 /\ 5 \in blocking
      BY <3>5, SMT
    <3>6. CASE blocking \subseteq 6..7 /\ 6 \in blocking
      BY <3>6, SMT
    <3>7. CASE blocking \subseteq 7..7
      <4>1. PICK i \in blocking : TRUE
        BY <1>4
      <4>2. \A j \in blocking : i <= j
        BY <3>7, SMT
      <4>3. QED
        BY <4>2
    <3>8. QED
      BY <2>1, <3>1, <3>2, <3>3, <3>4, <3>5, <3>6, <3>7, SMT
  <2>3. QED
    BY <2>1, <2>2
<1> HIDE DEF blocking, first
<1>5. Refusal(c) \in Reasons
  BY <1>2, <1>3, <1>4 DEF Reasons
<1>6. Refusal(c) = "none" => blocking = {}
  BY <1>2, <1>3, <1>4
<1>7. QED
  BY <1>5, <1>6 DEF blocking

\* What passes the gates, or all but that of the store, is safe in its environment.
LEMMA PassedIsSafe ==
  ASSUME NEW e, Passes(e) \/ Unread(e)
  PROVE  call[e].action \in SafetyRules
<1>1. 7 \in DOMAIN GateOrder /\ GateOrder[7] = "environment_safety_rules"
  BY DEF GateOrder
<1>2. CASE call[e].entry = "gate"
  <2>1. ~Blocks(call[e], "environment_safety_rules")
    BY <1>1, <1>2, RefusalNames DEF Passes, Unread
  <2>2. QED
    BY <2>1 DEF Blocks
<1>3. CASE call[e].entry # "gate"
  BY <1>3 DEF Passes, Unread
<1>4. QED
  BY <1>2, <1>3

\* A call that ends with a row.
LEMMA ReturnTypes ==
  ASSUME TypeOK, PointsInv, NEW e \in Executors, epc[e] # "idle",
         NEW executed \in Actions, NEW success \in BOOLEAN, NEW reason \in Reasons,
         NEW limit \in Int, Return(e, Row(e, executed, success, reason, limit)),
         service' \in [Executors -> [Apps -> Service \cup {Nothing}]]
  PROVE  TypeOK' /\ PointsInv'
<1>1. /\ log' = Append(log, Row(e, executed, success, reason, limit))
      /\ epc' = [epc EXCEPT ![e] = "idle"]
      /\ call' = [call EXCEPT ![e] = Nothing]
      /\ excused' = excused \ {e}
      /\ UNCHANGED <<mode, now, file, jobs, opc, job, copy, granted, acked, disturbed>>
  BY DEF Return, store
<1>2. call[e] \in Calls
  BY DEF PointsInv
<1>3. Row(e, executed, success, reason, limit) \in Rows
  BY <1>2 DEF Row, Rows, Calls, TypeOK
<1>4. log' \in Seq(Rows)
  BY <1>1, <1>3, AppendProperties DEF TypeOK
<1>5. TypeOK'
  BY <1>1, <1>4 DEF TypeOK
<1>6. QED
  BY <1>1, <1>5 DEF TypeOK, PointsInv, SafetyRules

\* What an executor believes of an application, from the first call on, is a service.
LEMMA CurrentTypes ==
  ASSUME TypeOK, NEW e \in Executors, NEW a \in Apps, NEW replicas \in Replicas
  PROVE  Current(e, a, replicas) \in Service
<1>1. CASE service[e][a] = Nothing
  BY <1>1, OrchestratorAssumption DEF Current, Service
<1>2. CASE service[e][a] # Nothing
  BY <1>2 DEF Current, TypeOK
<1>3. QED
  BY <1>1, <1>2

\* What a handler makes of a service, within its limit, is a service.
LEMMA ChangedTypes ==
  ASSUME NEW s \in Service, NEW action, NEW limit \in Int
  PROVE  /\ Counted(s, action) \in Nat \ {0}
         /\ Applies(s, action, limit) \in BOOLEAN
         /\ Changed(s, action) \in Service
<1>1. /\ s.replicas \in Nat /\ s.restarts \in Nat /\ s.initial \in Nat \ {0}
      /\ s = [replicas |-> s.replicas, restarts |-> s.restarts, initial |-> s.initial]
  BY DEF Service
<1>2. Counted(s, action) \in Nat \ {0}
  BY <1>1, SMT DEF Counted
<1> DEFINE n == Counted(s, action)
<1>3. Applies(s, action, limit) \in BOOLEAN
  <2>1. CASE action = "scale_up"
    BY <1>1, <1>2, <2>1, SMT DEF Applies
  <2>2. CASE action = "scale_down"
    BY <1>1, <1>2, <2>2, SMT DEF Applies
  <2>3. CASE action \notin {"scale_up", "scale_down"}
    BY <2>3 DEF Applies
  <2>4. QED
    BY <2>1, <2>2, <2>3
<1>4. n + 1 \in Nat /\ n - 1 \in Nat /\ s.restarts + 1 \in Nat
  BY <1>1, <1>2, SMT
<1> HIDE DEF n
<1>5. Changed(s, action) \in Service
  <2>1. CASE action = "restart"
    BY <1>1, <1>4, <2>1 DEF Changed, Service
  <2>2. CASE action = "scale_up"
    BY <1>1, <1>4, <2>2 DEF Changed, Service, n
  <2>3. CASE action = "scale_down"
    BY <1>1, <1>4, <2>3 DEF Changed, Service, n
  <2>4. CASE action \notin {"restart", "scale_up", "scale_down"}
    BY <2>4 DEF Changed
  <2>5. QED
    BY <2>1, <2>2, <2>3, <2>4
<1>6. QED
  BY <1>2, <1>3, <1>5

\* The service after a call that has passed, spelled out: untouched, begun or changed.
Acts(e, replicas, limit, done, reason) ==
  LET a      == call[e].app
      action == call[e].action
      s      == Current(e, a, replicas)
  IN /\ \/ service' = service /\ ~(done /\ action \in Scaling \cup {"restart"})
        \/ /\ service' = [service EXCEPT ![e][a] = s]
           /\ ~done /\ action \in Scaling \cup {"restart"}
        \/ /\ service' = [service EXCEPT ![e][a] = Changed(s, action)]
           /\ Applies(s, action, limit) /\ (done \/ reason = "exception")
           /\ action \in Scaling \cup {"restart"}
     /\ done => reason = "none"
     /\ Return(e, Row(e, action, done, reason, limit))

LEMMA ActsEffect ==
  ASSUME TypeOK, PointsInv, NEW e \in Executors, Execute(e) \/ Raise(e)
  PROVE  /\ epc[e] = "act" /\ call[e] \in Calls /\ call[e].app \in Apps
         /\ call[e].action \in SafetyRules /\ call[e].action \in Actions
         /\ \E replicas \in Replicas, limit \in Limits, done \in BOOLEAN,
              reason \in {"none", "exception"} : Acts(e, replicas, limit, done, reason)
<1> DEFINE a      == call[e].app
           action == call[e].action
<1>1. epc[e] = "act"
  BY DEF Execute, Raise
<1>2. call[e] \in Calls /\ action \in SafetyRules /\ action \in Actions /\ a \in Apps
  BY <1>1, RulesAreActions DEF PointsInv, Calls
<1>3. CASE Execute(e)
  <2>1. PICK replicas \in Replicas, limit \in Limits, works \in BOOLEAN :
          LET s    == Current(e, a, replicas)
              done == works /\ Applies(s, action, limit)
          IN /\ Becomes(e, a, action, IF done THEN Changed(s, action) ELSE s)
             /\ Return(e, Row(e, action, done, "none", limit))
    BY <1>3 DEF Execute
  <2> DEFINE s    == Current(e, a, replicas)
             done == works /\ Applies(s, action, limit)
  <2>2. Applies(s, action, limit) \in BOOLEAN
    <3>1. limit \in Int /\ s \in Service
      BY <1>2, OrchestratorAssumption, CurrentTypes
    <3>2. QED
      BY <3>1, ChangedTypes
  <2>3. done \in BOOLEAN /\ (done => Applies(s, action, limit))
    BY <2>2
  <2>4. service' = IF action \in Scaling \cup {"restart"}
                   THEN [service EXCEPT ![e][a] = IF done THEN Changed(s, action) ELSE s]
                   ELSE service
    BY <2>1 DEF Becomes
  <2>5. Return(e, Row(e, action, done, "none", limit))
    BY <2>1
  <2>6. Acts(e, replicas, limit, done, "none")
    <3> HIDE DEF a, action, s, done
    <3>1. \/ service' = service /\ ~(done /\ action \in Scaling \cup {"restart"})
          \/ /\ service' = [service EXCEPT ![e][a] = s]
             /\ ~done /\ action \in Scaling \cup {"restart"}
          \/ /\ service' = [service EXCEPT ![e][a] = Changed(s, action)]
             /\ Applies(s, action, limit) /\ (done \/ "none" = "exception")
             /\ action \in Scaling \cup {"restart"}
      BY <2>3, <2>4
    <3>2. QED
      BY <2>5, <3>1 DEF Acts, a, action, s
  <2>7. QED
    BY <1>1, <1>2, <2>3, <2>6
<1>4. CASE Raise(e)
  <2>1. PICK replicas \in Replicas, limit \in Limits :
          LET s == Current(e, a, replicas)
          IN /\ \/ UNCHANGED service
                \/ Becomes(e, a, action, s)
                \/ Applies(s, action, limit) /\ Becomes(e, a, action, Changed(s, action))
             /\ Return(e, Row(e, action, FALSE, "exception", limit))
    BY <1>4 DEF Raise
  <2>2. Acts(e, replicas, limit, FALSE, "exception")
    BY <2>1 DEF Acts, Becomes
  <2>3. QED
    BY <1>1, <1>2, <2>2
<1>5. QED
  BY <1>3, <1>4

LEMMA ExecutorTypes ==
  ASSUME TypeOK, PointsInv, NEW e \in Executors, ExecutorStep(e)
  PROVE  TypeOK' /\ PointsInv'
<1>1. CASE Begin(e)
  <2>1. PICK c \in Calls, p \in {"create", "decide"} :
          /\ call' = [call EXCEPT ![e] = c]
          /\ epc' = [epc EXCEPT ![e] = p]
    BY <1>1 DEF Begin
  <2>2. UNCHANGED <<mode, now, file, jobs, opc, job, copy, granted, acked, disturbed,
                    excused, service, log>>
    BY <1>1 DEF Begin, store
  <2>3. TypeOK'
    BY <2>1, <2>2 DEF TypeOK
  <2>4. \A d \in Executors \ {e} : epc'[d] = epc[d] /\ call'[d] = call[d]
    BY <2>1 DEF TypeOK
  <2>5. call'[e] \in Calls /\ epc'[e] # "act"
    BY <2>1 DEF TypeOK
  <2>6. SafetyRules' = SafetyRules
    BY <2>2 DEF SafetyRules
  <2>7. QED
    BY <2>2, <2>3, <2>4, <2>5, <2>6 DEF PointsInv
<1>2. CASE CreateStore(e)
  <2>1. /\ epc[e] = "create" /\ file' = Empty
        /\ epc' = [epc EXCEPT ![e] = "decide"]
        /\ disturbed' \in BOOLEAN
        /\ UNCHANGED <<mode, now, jobs, opc, job, copy, granted, acked, call, excused,
                       service, log>>
    BY <1>2 DEF CreateStore
  <2>2. TypeOK'
    BY <2>1, EmptyStore DEF TypeOK, Stores
  <2>3. QED
    BY <2>1, <2>2, EmptyStore, NamesAssumption DEF TypeOK, PointsInv, SafetyRules
<1>3. CASE Refuse(e)
  <2>1. /\ epc[e] # "idle" /\ service' = service
        /\ \E success \in BOOLEAN, reason \in Reasons :
             Return(e, Row(e, "noop", success, reason, 0))
    <3>1. Refusal(call[e]) \in Reasons /\ "unsafe_noop" \in Reasons
      BY RefusalNames DEF Reasons
    <3>2. QED
      BY <1>3, <3>1 DEF Refuse
  <2>2. "noop" \in Actions /\ 0 \in Int
    BY DEF Actions
  <2>3. service' \in [Executors -> [Apps -> Service \cup {Nothing}]]
    BY <2>1 DEF TypeOK
  <2>4. QED
    BY <2>1, <2>2, <2>3, ReturnTypes
<1>4. CASE Execute(e) \/ Raise(e)
  <2>1. /\ epc[e] = "act" /\ call[e].app \in Apps /\ call[e].action \in Actions
    BY <1>4, ActsEffect
  <2>2. PICK replicas \in Replicas, limit \in Limits, done \in BOOLEAN,
             reason \in {"none", "exception"} : Acts(e, replicas, limit, done, reason)
    BY <1>4, ActsEffect
  <2> DEFINE a == call[e].app
             s == Current(e, a, replicas)
             t == Changed(s, call[e].action)
  <2>3. limit \in Int /\ reason \in Reasons
    BY OrchestratorAssumption DEF Reasons
  <2>4. s \in Service /\ t \in Service
    BY <2>1, <2>3, CurrentTypes, ChangedTypes
  <2>5. /\ \/ service' = service
           \/ service' = [service EXCEPT ![e][a] = s]
           \/ service' = [service EXCEPT ![e][a] = t]
        /\ Return(e, Row(e, call[e].action, done, reason, limit))
    BY <2>2 DEF Acts
  <2>6. service' \in [Executors -> [Apps -> Service \cup {Nothing}]]
    <3> HIDE DEF a, s, t
    <3>1. a \in Apps
      BY <2>1 DEF a
    <3>2. service \in [Executors -> [Apps -> Service \cup {Nothing}]]
      BY DEF TypeOK
    <3>3. QED
      BY <2>4, <2>5, <3>1, <3>2
  <2>7. QED
    BY <2>1, <2>3, <2>5, <2>6, ReturnTypes
<1>5. CASE Abandon(e)
  <2>1. /\ epc' = [epc EXCEPT ![e] = "idle"] /\ call' = [call EXCEPT ![e] = Nothing]
        /\ UNCHANGED <<mode, now, file, jobs, opc, job, copy, granted, acked, disturbed,
                       excused, service, log>>
    BY <1>5 DEF Abandon, store
  <2>2. TypeOK'
    BY <2>1 DEF TypeOK
  <2>3. QED
    BY <2>1, <2>2 DEF TypeOK, PointsInv, SafetyRules
<1>6. CASE Check(e)
  <2>1. /\ epc[e] = "decide" /\ epc' = [epc EXCEPT ![e] = "act"]
        /\ excused' \subseteq Executors
        /\ UNCHANGED <<mode, now, file, jobs, opc, job, copy, granted, acked, disturbed,
                       call, service, log>>
    BY <1>6 DEF Check, store, TypeOK
  <2>2. TypeOK'
    BY <2>1 DEF TypeOK
  <2>3. call[e].action \in SafetyRules
    BY <1>6, PassedIsSafe DEF Check
  <2>4. QED
    BY <2>1, <2>2, <2>3 DEF TypeOK, PointsInv, SafetyRules
<1>7. QED
  BY <1>1, <1>2, <1>3, <1>4, <1>5, <1>6 DEF ExecutorStep

LEMMA NextTypes == TypeOK /\ PointsInv /\ [Next]_vars => TypeOK' /\ PointsInv'
<1> SUFFICES ASSUME TypeOK, PointsInv, [Next]_vars PROVE TypeOK' /\ PointsInv'
  OBVIOUS
<1>1. CASE Tick
  <2>1. now' \in Time
    BY <1>1, OrchestratorAssumption, SMT DEF Tick, TypeOK, Time
  <2>2. QED
    BY <1>1, <2>1 DEF Tick, store, execution, TypeOK, PointsInv, SafetyRules
<1>2. CASE \E o \in Operators : OperatorStep(o)
  BY <1>2, OperatorTypes
<1>3. CASE \E e \in Executors : ExecutorStep(e)
  BY <1>3, ExecutorTypes
<1>4. CASE UNCHANGED vars
  BY <1>4 DEF vars, store, execution, TypeOK, PointsInv, SafetyRules
<1>5. QED
  BY <1>1, <1>2, <1>3, <1>4 DEF Next

-----------------------------------------------------------------------------
(* Freezes expire.                                                         *)

\* A call leaves the store alone, unless it creates it.
LEMMA LeavesStore ==
  ASSUME NEW e \in Executors,
         Begin(e) \/ Refuse(e) \/ Abandon(e) \/ Check(e) \/ Execute(e) \/ Raise(e)
  PROVE  UNCHANGED <<now, file, jobs, opc, job, copy, granted, acked, disturbed>>
  BY DEF Begin, Refuse, Abandon, Check, Execute, Raise, Return, store

\* What leaves the stores and grants alone keeps the invariant.
LEMMA ExpiryFrame ==
  ASSUME ExpiryInv, UNCHANGED <<file, opc, job, copy, granted>>
  PROVE  ExpiryInv'
  BY DEF ExpiryInv, Granted

LEMMA ExpiryStep ==
  ASSUME TypeOK, PointsInv, ExpiryInv, [Next]_vars
  PROVE  ExpiryInv'
<1>0. /\ now \in Nat /\ Ends \subseteq Nat /\ granted \in [Apps -> Ends]
      /\ file \in Stores \cup {Torn, Absent}
      /\ copy \in [Operators -> Stores]
      /\ opc \in [Operators -> {"idle", "read", "open", "write"}]
      /\ job \in [Operators -> Jobs \cup {Nothing}]
  BY Times DEF TypeOK, Stores
<1>1. CASE Tick
  BY <1>1, ExpiryFrame DEF Tick, store
<1>2. ASSUME NEW o \in Operators, BeginOverride(o)
      PROVE  ExpiryInv'
  <2>1. /\ UNCHANGED copy /\ opc' = [opc EXCEPT ![o] = "read"]
        /\ file' = IF file = Absent THEN Empty ELSE file
    BY <1>2 DEF BeginOverride
  <2>2. /\ \A p \in Operators \ {o} : job'[p] = job[p]
        /\ job'[o].kind = "set" => job'[o].until <= granted'[job'[o].app]
        /\ \A a \in Apps : granted[a] \in Nat /\ granted'[a] \in Nat /\ granted[a] <= granted'[a]
    <3>1. PICK a \in Apps :
            \/ \E d \in Durations :
                 /\ job' = [job EXCEPT ![o] = [app |-> a, until |-> now + d, kind |-> "set"]]
                 /\ granted' = [granted EXCEPT ![a] = IF now + d > @ THEN now + d ELSE @]
            \/ /\ job' = [job EXCEPT ![o] = [app |-> a, until |-> now, kind |-> "clear"]]
               /\ UNCHANGED granted
      BY <1>2 DEF BeginOverride
    <3>2. CASE \E d \in Durations :
                 /\ job' = [job EXCEPT ![o] = [app |-> a, until |-> now + d, kind |-> "set"]]
                 /\ granted' = [granted EXCEPT ![a] = IF now + d > @ THEN now + d ELSE @]
      <4>1. PICK d \in Durations :
              /\ job' = [job EXCEPT ![o] = [app |-> a, until |-> now + d, kind |-> "set"]]
              /\ granted' = [granted EXCEPT ![a] = IF now + d > @ THEN now + d ELSE @]
        BY <3>2
      <4>2. d \in Nat
        BY OrchestratorAssumption
      <4>3. job'[o] = [app |-> a, until |-> now + d, kind |-> "set"]
        BY <1>0, <4>1
      <4>4. granted[a] \in Nat /\ granted'[a] = IF now + d > granted[a] THEN now + d ELSE granted[a]
        BY <1>0, <4>1
      <4>5. now + d \in Nat /\ now + d <= granted'[a] /\ granted[a] <= granted'[a]
              /\ granted'[a] \in Nat
        BY <1>0, <4>2, <4>4, SMT
      <4>6. \A b \in Apps \ {a} : granted'[b] = granted[b] /\ granted[b] \in Nat
        BY <1>0, <4>1
      <4>7. \A b \in Apps : granted[b] \in Nat /\ granted'[b] \in Nat /\ granted[b] <= granted'[b]
        BY <4>4, <4>5, <4>6, SMT
      <4>8. QED
        BY <1>0, <4>1, <4>3, <4>5, <4>7
    <3>3. CASE /\ job' = [job EXCEPT ![o] = [app |-> a, until |-> now, kind |-> "clear"]]
               /\ UNCHANGED granted
      <4>1. \A b \in Apps : granted[b] \in Nat
        BY <1>0
      <4>2. QED
        BY <1>0, <3>3, <4>1
    <3>4. QED
      BY <3>1, <3>2, <3>3
  <2>3. ASSUME NEW s \in Stores, Granted(s) PROVE Granted(s)'
    <3>1. ASSUME NEW a \in Apps, s[a] # Nothing /\ s[a].enabled PROVE s[a].until <= granted'[a]
      <4>1. s[a].until \in Nat
        BY <1>0, <3>1 DEF Stores, Entry
      <4>2. s[a].until <= granted[a]
        BY <2>3, <3>1 DEF Granted
      <4>3. QED
        BY <2>2, <4>1, <4>2, SMT
    <3>2. QED
      BY <3>1 DEF Granted
  <2>4. file' \in Stores => Granted(file)'
    <3>1. CASE file = Absent
      BY <2>1, <3>1, EmptyStore DEF Granted
    <3>2. CASE file # Absent /\ file \in Stores
      <4>1. file' = file /\ Granted(file)
        BY <2>1, <3>2 DEF ExpiryInv
      <4>2. ASSUME NEW a \in Apps, file[a] # Nothing /\ file[a].enabled
            PROVE  file[a].until <= granted'[a]
        <5>1. file[a].until \in Nat
          BY <1>0, <3>2, <4>2 DEF Stores, Entry
        <5>2. file[a].until <= granted[a]
          BY <4>1, <4>2 DEF Granted
        <5>3. QED
          BY <2>2, <5>1, <5>2, SMT
      <4>3. QED
        BY <4>1, <4>2 DEF Granted
    <3>3. CASE file # Absent /\ file \notin Stores
      BY <2>1, <3>3
    <3>4. QED
      BY <3>1, <3>2, <3>3
  <2>5. ASSUME NEW p \in Operators
        PROVE  /\ Granted(copy[p])'
               /\ opc'[p] # "idle" /\ job'[p].kind = "set" =>
                    job'[p].until <= granted'[job'[p].app]
    <3>1. Granted(copy[p])'
      <4>1. copy[p] \in Stores /\ Granted(copy[p]) /\ copy' = copy
        BY <1>0, <2>1 DEF ExpiryInv
      <4>2. ASSUME NEW a \in Apps, copy[p][a] # Nothing /\ copy[p][a].enabled
            PROVE  copy[p][a].until <= granted'[a]
        <5>1. copy[p][a].until \in Nat
          BY <1>0, <4>1, <4>2 DEF Stores, Entry
        <5>2. copy[p][a].until <= granted[a]
          BY <4>1, <4>2 DEF Granted
        <5>3. QED
          BY <2>2, <5>1, <5>2, SMT
      <4>3. QED
        BY <4>1, <4>2 DEF Granted
    <3>2. CASE p = o
      BY <2>2, <3>1, <3>2
    <3>3. ASSUME p # o, opc'[p] # "idle", job'[p].kind = "set"
          PROVE  job'[p].until <= granted'[job'[p].app]
      <4>1. opc[p] # "idle" /\ job'[p] = job[p] /\ job[p] \in Jobs
        BY <1>0, <2>1, <2>2, <3>3 DEF PointsInv
      <4>2. job[p].until \in Nat /\ job[p].app \in Apps
        BY <1>0, <4>1 DEF Jobs
      <4>3. job[p].until <= granted[job[p].app]
        BY <3>3, <4>1 DEF ExpiryInv
      <4>4. QED
        BY <2>2, <4>1, <4>2, <4>3, SMT
    <3>4. QED
      BY <3>1, <3>2, <3>3
  <2>6. QED
    BY <2>4, <2>5 DEF ExpiryInv
<1>3. ASSUME NEW o \in Operators, ReadStore(o)
      PROVE  ExpiryInv'
  <2>0. PICK read \in {Empty, IF file = Torn THEN Empty ELSE file} : ReadsAs(o, read)
    BY <1>3 DEF ReadStore
  <2> DEFINE a == job[o].app
  <2>1. opc[o] = "read" /\ job[o] \in Jobs /\ file # Absent /\ a \in Apps
    BY <2>0 DEF ReadsAs, PointsInv, Jobs
  <2>2. read \in Stores /\ Granted(read)
    <3>1. CASE read = Empty
      BY <3>1, EmptyStore DEF Granted
    <3>2. CASE read # Empty
      BY <1>0, <2>0, <2>1, <3>2 DEF ExpiryInv
    <3>3. QED
      BY <3>1, <3>2
  <2>3. /\ UNCHANGED <<file, granted>>
        /\ \A p \in Operators \ {o} : opc'[p] = opc[p] /\ job'[p] = job[p] /\ copy'[p] = copy[p]
        /\ opc'[o] # "idle" => job'[o] = job[o]
    BY <1>0, <2>0 DEF ReadsAs
  <2>4. Granted(copy'[o])
    <3>1. CASE /\ job[o].kind = "set"
               /\ copy' = [copy EXCEPT ![o] =
                    [read EXCEPT ![a] = [enabled |-> TRUE, until |-> job[o].until]]]
      <4> DEFINE s == [read EXCEPT ![a] = [enabled |-> TRUE, until |-> job[o].until]]
      <4>1. copy'[o] = s
        BY <1>0, <3>1
      <4>2. job[o].until <= granted[a]
        BY <2>1, <3>1 DEF ExpiryInv
      <4>3. Granted(s)
        BY <2>1, <2>2, <4>2 DEF Granted, Stores
      <4>4. QED
        BY <4>1, <4>3
    <3>2. CASE copy' = [copy EXCEPT ![o] =
                 [read EXCEPT ![a] = [enabled |-> FALSE, until |-> now]]]
      <4> DEFINE s == [read EXCEPT ![a] = [enabled |-> FALSE, until |-> now]]
      <4>1. copy'[o] = s
        BY <1>0, <3>2
      <4>2. Granted(s)
        BY <2>1, <2>2 DEF Granted, Stores
      <4>3. QED
        BY <4>1, <4>2
    <3>3. CASE UNCHANGED copy
      BY <3>3 DEF ExpiryInv
    <3>4. QED
      BY <2>0, <3>1, <3>2, <3>3 DEF ReadsAs
  <2> HIDE DEF a
  <2>5. file' \in Stores => Granted(file)'
    BY <2>3 DEF ExpiryInv, Granted
  <2>6. ASSUME NEW p \in Operators
        PROVE  /\ Granted(copy[p])'
               /\ opc'[p] # "idle" /\ job'[p].kind = "set" =>
                    job'[p].until <= granted'[job'[p].app]
    BY <2>1, <2>3, <2>4 DEF ExpiryInv, Granted
  <2>7. QED
    BY <2>5, <2>6 DEF ExpiryInv
<1>4. ASSUME NEW o \in Operators, OpenStore(o)
      PROVE  ExpiryInv'
  <2>1. /\ opc[o] = "open" /\ file' = Torn /\ opc' = [opc EXCEPT ![o] = "write"]
        /\ UNCHANGED <<job, copy, granted>>
    BY <1>4 DEF OpenStore
  <2>2. ASSUME NEW p \in Operators PROVE opc'[p] # "idle" => opc[p] # "idle"
    BY <1>0, <2>1
  <2>3. QED
    BY <2>1, <2>2, NamesAssumption DEF ExpiryInv, Granted
<1>5. ASSUME NEW o \in Operators, WriteStore(o)
      PROVE  ExpiryInv'
  <2>1. /\ file' \in {copy[o], Torn} /\ UNCHANGED granted
        /\ opc' = [opc EXCEPT ![o] = "idle"]
        /\ job' = [job EXCEPT ![o] = Nothing]
        /\ copy' = [copy EXCEPT ![o] = Empty]
    BY <1>5 DEF WriteStore
  <2>2. file' \in Stores => Granted(file)'
    <3>1. CASE file' = Torn
      BY <3>1, NamesAssumption
    <3>2. CASE file' = copy[o]
      BY <2>1, <3>2 DEF ExpiryInv, Granted
    <3>3. QED
      BY <2>1, <3>1, <3>2
  <2>3. ASSUME NEW p \in Operators
        PROVE  /\ Granted(copy[p])'
               /\ opc'[p] # "idle" /\ job'[p].kind = "set" =>
                    job'[p].until <= granted'[job'[p].app]
    <3>1. CASE p = o
      BY <1>0, <2>1, <3>1, EmptyStore DEF Granted
    <3>2. CASE p # o
      BY <1>0, <2>1, <3>2 DEF ExpiryInv, Granted
    <3>3. QED
      BY <3>1, <3>2
  <2>4. QED
    BY <2>2, <2>3 DEF ExpiryInv
<1>6. ASSUME NEW e \in Executors, CreateStore(e)
      PROVE  ExpiryInv'
  BY <1>6, EmptyStore DEF CreateStore, ExpiryInv, Granted
<1>7. ASSUME NEW e \in Executors,
             Begin(e) \/ Refuse(e) \/ Abandon(e) \/ Check(e) \/ Execute(e) \/ Raise(e)
      PROVE  ExpiryInv'
  BY <1>7, ExpiryFrame, LeavesStore
<1>8. CASE UNCHANGED vars
  BY <1>8, ExpiryFrame DEF vars, store
<1>9. ASSUME NEW o \in Operators, BreakOff(o)
      PROVE  ExpiryInv'
  <2>1. /\ opc' = [opc EXCEPT ![o] = "idle"]
        /\ job' = [job EXCEPT ![o] = Nothing]
        /\ copy' = [copy EXCEPT ![o] = Empty]
        /\ UNCHANGED <<file, granted>>
    BY <1>9 DEF BreakOff
  <2>2. file' \in Stores => Granted(file)'
    BY <2>1 DEF ExpiryInv, Granted
  <2>3. ASSUME NEW p \in Operators
        PROVE  /\ Granted(copy[p])'
               /\ opc'[p] # "idle" /\ job'[p].kind = "set" =>
                    job'[p].until <= granted'[job'[p].app]
    <3>1. CASE p = o
      BY <1>0, <2>1, <3>1, EmptyStore DEF Granted
    <3>2. CASE p # o
      BY <1>0, <2>1, <3>2 DEF ExpiryInv, Granted
    <3>3. QED
      BY <3>1, <3>2
  <2>4. QED
    BY <2>2, <2>3 DEF ExpiryInv
<1>10. QED
  BY <1>1, <1>2, <1>3, <1>4, <1>5, <1>6, <1>7, <1>8, <1>9
     DEF Next, OperatorStep, ExecutorStep

-----------------------------------------------------------------------------
(* Confirmed freezes stay, while overrides come one at a time.             *)

\* A store that has the freeze of an application stops its calls.
LEMMA KeptIsFrozen ==
  ASSUME TypeOK, file \in Stores, NEW a \in Apps, acked[a] > now, Keeps(file, a)
  PROVE  Frozen(a)
<1>1. file[a] # Nothing /\ file[a].enabled /\ file[a].until >= acked[a]
  BY DEF Keeps
<1>2. file[a].until \in Nat /\ acked[a] \in Nat /\ now \in Nat
  BY <1>1, Times DEF TypeOK, Stores, Entry
<1>3. file[a].until > now
  BY <1>1, <1>2, SMT
<1>4. QED
  BY <1>1, <1>3, NamesAssumption DEF Frozen

\* When time passes, fewer freezes have to be there.
LEMMA StoreFrame ==
  ASSUME TypeOK, StoreInv, now' \in Nat, now <= now',
         UNCHANGED <<file, jobs, opc, job, copy, acked, disturbed>>
  PROVE  StoreInv'
<1>1. now \in Nat /\ \A a \in Apps : acked[a] \in Nat
  BY Times DEF TypeOK
<1>2. \A a \in Apps : acked'[a] > now' => acked[a] > now
  BY <1>1, SMT
<1>3. \A s : \A a \in Apps : Keeps(s, a) => (Keeps(s, a))'
  BY <1>2 DEF Keeps
<1>4. jobs' = 0 => Quiet' /\ \A a \in Apps : acked'[a] = 0
  BY DEF StoreInv, Quiet
<1>5. ASSUME ~disturbed'
      PROVE  /\ \A o, p \in Operators : opc'[o] # "idle" /\ opc'[p] # "idle" => o = p
             /\ (\A o \in Operators : opc'[o] # "write") =>
                  \A a \in Apps : acked'[a] > now' => file' \in Stores /\ Keeps(file, a)'
             /\ \A o \in Operators :
                  /\ opc'[o] = "write" => file' = Torn
                  /\ opc'[o] \in {"open", "write"} =>
                       /\ \A a \in Apps \ {job'[o].app} : Keeps(copy[o], a)'
                       /\ job'[o].kind = "set" =>
                            copy'[o][job'[o].app] = [enabled |-> TRUE, until |-> job'[o].until]
  <2>1. ~disturbed
    BY <1>5
  <2>2. ASSUME \A o \in Operators : opc'[o] # "write", NEW a \in Apps, acked'[a] > now'
        PROVE  file' \in Stores /\ Keeps(file, a)'
    BY <1>2, <2>1, <2>2 DEF StoreInv, Keeps
  <2>3. ASSUME NEW o \in Operators, opc'[o] \in {"open", "write"}
        PROVE  \A a \in Apps \ {job'[o].app} : Keeps(copy[o], a)'
    <3>1. \A a \in Apps \ {job[o].app} : Keeps(copy[o], a)
      BY <2>1, <2>3 DEF StoreInv
    <3>2. UNCHANGED <<job, copy, acked>>
      OBVIOUS
    <3>3. QED
      BY <1>2, <3>1, <3>2 DEF Keeps
  <2>4. QED
    BY <2>1, <2>2, <2>3 DEF StoreInv
<1>6. QED
  BY <1>4, <1>5 DEF StoreInv

LEMMA StoreStep ==
  ASSUME TypeOK, PointsInv, StoreInv, [Next]_vars
  PROVE  StoreInv'
<1>0. /\ now \in Nat /\ jobs \in Nat /\ Ends \subseteq Nat /\ acked \in [Apps -> Ends]
      /\ file \in Stores \cup {Torn, Absent} /\ copy \in [Operators -> Stores]
      /\ opc \in [Operators -> {"idle", "read", "open", "write"}]
      /\ job \in [Operators -> Jobs \cup {Nothing}]
  BY Times, OrchestratorAssumption, SMT DEF TypeOK, Stores
<1>1. CASE Tick
  <2>1. now' = now + 1 /\ UNCHANGED <<file, jobs, opc, job, copy, acked, disturbed>>
    BY <1>1 DEF Tick, store
  <2>2. now' \in Nat /\ now <= now'
    BY <1>0, <2>1, SMT
  <2>3. QED
    BY <2>1, <2>2, StoreFrame
<1>2. ASSUME NEW o \in Operators, BeginOverride(o)
      PROVE  StoreInv'
  <2>1. /\ opc[o] = "idle" /\ jobs' = jobs + 1 /\ opc' = [opc EXCEPT ![o] = "read"]
        /\ file' = IF file = Absent THEN Empty ELSE file
        /\ disturbed' = (disturbed \/ ~Quiet)
        /\ UNCHANGED <<now, copy, acked>>
    BY <1>2 DEF BeginOverride
  <2>2. jobs' # 0
    BY <1>0, <2>1, SMT
  <2>3. ASSUME ~disturbed'
        PROVE  /\ \A p \in Operators : opc[p] = "idle"
               /\ \A a \in Apps : acked[a] > now => file \in Stores /\ Keeps(file, a)
    BY <2>1, <2>3 DEF StoreInv, Quiet
  <2>4. ASSUME ~disturbed', NEW a \in Apps, acked'[a] > now'
        PROVE  file' \in Stores /\ Keeps(file, a)'
    BY <2>1, <2>3, <2>4, NamesAssumption DEF Keeps
  <2>5. ASSUME ~disturbed'
        PROVE  \A p \in Operators : opc'[p] = IF p = o THEN "read" ELSE "idle"
    BY <1>0, <2>1, <2>3, <2>5
  <2>6. QED
    BY <2>2, <2>4, <2>5 DEF StoreInv
<1>3. ASSUME NEW o \in Operators, ReadStore(o)
      PROVE  StoreInv'
  <2>0. PICK read \in {Empty, IF file = Torn THEN Empty ELSE file} : ReadsAs(o, read)
    BY <1>3 DEF ReadStore
  <2> DEFINE a == job[o].app
  <2>1. /\ opc[o] = "read" /\ job[o] \in Jobs /\ file # Absent /\ a \in Apps
        /\ disturbed' = (disturbed \/ read # file)
        /\ UNCHANGED <<now, file, jobs>>
    BY <2>0 DEF ReadsAs, PointsInv, Jobs
  <2>2. jobs # 0
    BY <2>1 DEF StoreInv, Quiet
  <2>3. CASE disturbed'
    BY <2>1, <2>2, <2>3 DEF StoreInv
  <2>4. CASE ~disturbed /\ read = file /\ ~disturbed'
    <3>1. /\ \A p \in Operators \ {o} : opc[p] = "idle"
          /\ \A b \in Apps : acked[b] > now => file \in Stores /\ Keeps(file, b)
      BY <2>1, <2>4 DEF StoreInv
    <3>2. read \in Stores /\ \A b \in Apps : Keeps(read, b)
      <4>1. read \in Stores
        BY <1>0, <2>0, <2>1, EmptyStore
      <4>2. QED
        BY <2>4, <3>1, <4>1 DEF Keeps
    <3>3. CASE /\ opc' = [opc EXCEPT ![o] = "open"] /\ UNCHANGED <<job, acked>>
               /\ \/ /\ job[o].kind = "set"
                     /\ copy' = [copy EXCEPT ![o] =
                          [read EXCEPT ![a] = [enabled |-> TRUE, until |-> job[o].until]]]
                  \/ /\ job[o].kind = "clear"
                     /\ copy' = [copy EXCEPT ![o] =
                          [read EXCEPT ![a] = [enabled |-> FALSE, until |-> now]]]
      <4>1. PICK x \in Entry :
              /\ copy'[o] = [read EXCEPT ![a] = x]
              /\ job[o].kind = "set" => x = [enabled |-> TRUE, until |-> job[o].until]
        <5>1. /\ [enabled |-> TRUE, until |-> job[o].until] \in Entry
              /\ [enabled |-> FALSE, until |-> now] \in Entry
          BY <2>1, Times DEF Entry, Jobs, TypeOK
        <5> HIDE DEF a
        <5>2. CASE job[o].kind = "set" /\
                   copy' = [copy EXCEPT ![o] =
                          [read EXCEPT ![a] = [enabled |-> TRUE, until |-> job[o].until]]]
          BY <1>0, <5>1, <5>2
        <5>3. CASE job[o].kind = "clear" /\
                   copy' = [copy EXCEPT ![o] =
                          [read EXCEPT ![a] = [enabled |-> FALSE, until |-> now]]]
          BY <1>0, <5>1, <5>3
        <5>4. QED
          BY <3>3, <5>2, <5>3
      <4> HIDE DEF a
      <4>2. /\ copy'[o][a] = x
            /\ \A b \in Apps \ {a} : copy'[o][b] = read[b]
        BY <2>1, <3>2, <4>1 DEF Stores
      <4>3. \A b \in Apps \ {a} : Keeps(copy[o], b)'
        BY <2>1, <3>2, <3>3, <4>2 DEF Keeps
      <4>4. \A p \in Operators : opc'[p] = IF p = o THEN "open" ELSE "idle"
        BY <1>0, <3>1, <3>3
      <4>5. \A b \in Apps : acked'[b] > now' => file' \in Stores /\ Keeps(file, b)'
        BY <2>1, <3>1, <3>3 DEF Keeps
      <4>6. a = job'[o].app /\ job'[o] = job[o]
        BY <3>3 DEF a
      <4>7. QED
        BY <2>1, <2>2, <4>1, <4>2, <4>3, <4>4, <4>5, <4>6 DEF StoreInv
    <3>4. CASE /\ acked' = [acked EXCEPT ![a] = 0]
               /\ opc' = [opc EXCEPT ![o] = "idle"]
      <4>1. \A p \in Operators : opc'[p] = "idle"
        BY <1>0, <3>1, <3>4
      <4>2. \A b \in Apps : acked'[b] > now' => acked[b] > now /\ acked'[b] = acked[b]
        BY <1>0, <2>1, <3>4, SMT
      <4>3. \A b \in Apps : acked'[b] > now' => file' \in Stores /\ Keeps(file, b)'
        BY <2>1, <3>1, <4>2 DEF Keeps
      <4>4. QED
        BY <2>1, <2>2, <4>1, <4>3 DEF StoreInv
    <3>5. QED
      BY <2>0, <3>3, <3>4 DEF ReadsAs
  <2>5. QED
    BY <2>1, <2>3, <2>4
<1>4. ASSUME NEW o \in Operators, OpenStore(o)
      PROVE  StoreInv'
  <2>1. /\ opc[o] = "open" /\ file' = Torn /\ opc' = [opc EXCEPT ![o] = "write"]
        /\ UNCHANGED <<now, jobs, job, copy, acked, disturbed>>
    BY <1>4 DEF OpenStore
  <2>2. jobs' # 0
    BY <2>1 DEF StoreInv, Quiet
  <2>3. ASSUME ~disturbed'
        PROVE  \A p \in Operators : opc'[p] = IF p = o THEN "write" ELSE "idle"
    BY <1>0, <2>1, <2>3 DEF StoreInv
  <2>4. ASSUME ~disturbed'
        PROVE  /\ \A a \in Apps \ {job'[o].app} : Keeps(copy[o], a)'
               /\ job'[o].kind = "set" =>
                    copy'[o][job'[o].app] = [enabled |-> TRUE, until |-> job'[o].until]
    BY <2>1, <2>4 DEF StoreInv, Keeps
  <2>5. QED
    BY <2>1, <2>2, <2>3, <2>4 DEF StoreInv
<1>5. ASSUME NEW o \in Operators, WriteStore(o)
      PROVE  StoreInv'
  <2> DEFINE a == job[o].app
  <2>1. /\ opc[o] = "write" /\ job[o] \in Jobs /\ a \in Apps
        /\ (file' = copy[o] \/ file # Torn)
        /\ acked' = [acked EXCEPT ![a] = IF job[o].kind = "set" THEN job[o].until ELSE 0]
        /\ opc' = [opc EXCEPT ![o] = "idle"]
        /\ UNCHANGED <<now, jobs, disturbed>>
    BY <1>5 DEF WriteStore, PointsInv, Jobs
  <2>2. jobs' # 0
    BY <2>1 DEF StoreInv, Quiet
  <2>3. CASE disturbed
    BY <2>1, <2>2, <2>3 DEF StoreInv
  <2>4. CASE ~disturbed
    <3>1. /\ file' = copy[o] /\ copy[o] \in Stores
          /\ \A p \in Operators : opc'[p] = "idle"
          /\ \A b \in Apps \ {a} : Keeps(copy[o], b)
          /\ job[o].kind = "set" => copy[o][a] = [enabled |-> TRUE, until |-> job[o].until]
      BY <1>0, <2>1, <2>4 DEF StoreInv
    <3>2. /\ acked'[a] = IF job[o].kind = "set" THEN job[o].until ELSE 0
          /\ \A b \in Apps \ {a} : acked'[b] = acked[b]
          /\ job[o].until \in Nat
      BY <1>0, <2>1 DEF Jobs
    <3> HIDE DEF a
    <3>3. ASSUME NEW b \in Apps, acked'[b] > now'
          PROVE  Keeps(file, b)'
      <4>1. CASE b # a
        BY <2>1, <3>1, <3>2, <4>1 DEF Keeps
      <4>2. CASE b = a
        <5>1. job[o].kind = "set" /\ acked'[a] = job[o].until
          <6>1. acked'[a] > now /\ now \in Nat
            BY <1>0, <2>1, <3>3, <4>2
          <6>2. acked'[a] # 0
            BY <6>1, SMT
          <6>3. QED
            BY <3>2, <6>2
        <5>2. file'[a] = [enabled |-> TRUE, until |-> job[o].until] /\ file'[a] \in Entry
          <6>1. file'[a] = [enabled |-> TRUE, until |-> job[o].until]
            BY <3>1, <5>1
          <6>2. job[o].until \in Ends
            BY <2>1 DEF Jobs
          <6>3. QED
            BY <6>1, <6>2 DEF Entry
        <5>3. file'[a].until = acked'[a] /\ acked'[a] \in Nat
          BY <3>2, <5>1, <5>2
        <5>4. file'[a].until >= acked'[a]
          BY <5>3, SMT
        <5>5. file'[a].enabled /\ file'[a] # Nothing
          <6>1. file'[a].enabled = TRUE
            BY <5>2
          <6>2. file'[a] # Nothing
            BY <5>2, NamesAssumption
          <6>3. QED
            BY <6>1, <6>2
        <5>6. QED
          <6>1. file'[b] # Nothing /\ file'[b].enabled /\ file'[b].until >= acked'[b]
            BY <4>2, <5>4, <5>5
          <6>2. QED
            BY <6>1 DEF Keeps
      <4>3. QED
        BY <4>1, <4>2
    <3>4. QED
      BY <2>1, <2>2, <3>1, <3>3 DEF StoreInv
  <2>5. QED
    BY <2>3, <2>4 DEF TypeOK
<1>6. ASSUME NEW e \in Executors, CreateStore(e)
      PROVE  StoreInv'
  <2>1. /\ file' = Empty /\ disturbed' = (disturbed \/ jobs > 0)
        /\ UNCHANGED <<now, jobs, opc, job, copy, acked>>
    BY <1>6 DEF CreateStore
  <2>2. ASSUME ~disturbed'
        PROVE  /\ \A p \in Operators : opc'[p] = "idle"
               /\ \A a \in Apps : ~(acked'[a] > now')
    <3>1. jobs = 0
      <4>1. ~(jobs > 0)
        BY <2>1, <2>2
      <4>2. QED
        BY <1>0, <4>1, SMT
    <3>2. Quiet /\ \A a \in Apps : acked[a] = 0
      BY <3>1 DEF StoreInv
    <3>3. QED
      BY <1>0, <2>1, <3>2, SMT DEF Quiet
  <2>3. QED
    BY <2>1, <2>2 DEF StoreInv, Quiet
<1>7. ASSUME NEW e \in Executors,
             Begin(e) \/ Refuse(e) \/ Abandon(e) \/ Check(e) \/ Execute(e) \/ Raise(e)
      PROVE  StoreInv'
  <2>1. UNCHANGED <<now, file, jobs, opc, job, copy, acked, disturbed>>
    BY <1>7, LeavesStore
  <2>2. QED
    BY <1>0, <2>1, StoreFrame
<1>8. CASE UNCHANGED vars
  BY <1>0, <1>8, StoreFrame DEF vars, store
<1>9. ASSUME NEW o \in Operators, BreakOff(o)
      PROVE  StoreInv'
  <2>1. /\ opc[o] # "idle" /\ opc' = [opc EXCEPT ![o] = "idle"]
        /\ disturbed' = (disturbed \/ opc[o] = "write")
        /\ UNCHANGED <<now, file, jobs, acked>>
    BY <1>9 DEF BreakOff
  <2>2. jobs' # 0
    BY <2>1 DEF StoreInv, Quiet
  <2>3. ASSUME ~disturbed'
        PROVE  /\ \A p \in Operators : opc'[p] = "idle" /\ opc[p] # "write"
               /\ \A a \in Apps : acked[a] > now => file \in Stores /\ Keeps(file, a)
    <3>1. ~disturbed /\ opc[o] # "write"
      BY <2>1, <2>3
    <3>2. \A p \in Operators \ {o} : opc[p] = "idle"
      BY <2>1, <3>1 DEF StoreInv
    <3>3. \A p \in Operators : opc[p] # "write"
      BY <3>1, <3>2
    <3>4. QED
      BY <1>0, <2>1, <3>1, <3>2, <3>3 DEF StoreInv
  <2>4. QED
    BY <2>1, <2>2, <2>3 DEF StoreInv, Keeps
<1>10. QED
  BY <1>1, <1>2, <1>3, <1>4, <1>5, <1>6, <1>7, <1>8, <1>9
     DEF Next, OperatorStep, ExecutorStep

-----------------------------------------------------------------------------
(* What has passed the gate while its freeze was there.                    *)

\* What confirms no freeze and lets nothing pass keeps the invariant.
LEMMA ActFrame ==
  ASSUME TypeOK, ActInv, now' \in Nat, now <= now', disturbed => disturbed',
         \A a \in Apps : acked'[a] = acked[a] \/ acked'[a] = 0,
         \A e \in Executors \ excused' :
           epc'[e] = "act" => /\ epc[e] = "act" /\ call'[e] = call[e]
                             /\ call[e].app \in Apps /\ e \notin excused
  PROVE  ActInv'
<1>1. now \in Nat /\ \A a \in Apps : acked[a] \in Nat
  BY Times DEF TypeOK
<1>2. \A a \in Apps : acked'[a] > now' => acked[a] > now
  BY <1>1, SMT
<1>3. QED
  BY <1>2 DEF ActInv

LEMMA ActStep ==
  ASSUME TypeOK, PointsInv, StoreInv, ActInv, [Next]_vars
  PROVE  ActInv'
<1>0. /\ now \in Nat /\ acked \in [Apps -> Ends] /\ Ends \subseteq Nat
      /\ \A e \in Executors : epc[e] = "act" => call[e].app \in Apps
  BY Times DEF TypeOK, PointsInv, Calls
<1>1. CASE Tick
  <2>1. now' = now + 1 /\ UNCHANGED <<acked, disturbed, epc, call, excused>>
    BY <1>1 DEF Tick, store, execution
  <2>2. now' \in Nat /\ now <= now'
    BY <1>0, <2>1, SMT
  <2>3. QED
    BY <1>0, <2>1, <2>2, ActFrame
<1>2. ASSUME NEW o \in Operators,
             BeginOverride(o) \/ ReadStore(o) \/ OpenStore(o) \/ BreakOff(o)
      PROVE  ActInv'
  <2>1. /\ UNCHANGED <<now, epc, call, excused>> /\ (disturbed => disturbed')
        /\ acked' = acked \/ acked' = [acked EXCEPT ![job[o].app] = 0]
    <3>1. CASE BeginOverride(o)
      BY <3>1 DEF BeginOverride, execution
    <3>2. CASE ReadStore(o)
      <4>1. PICK read : ReadsAs(o, read)
        BY <3>2 DEF ReadStore
      <4>2. QED
        BY <4>1 DEF ReadsAs, execution
    <3>3. CASE OpenStore(o)
      BY <3>3 DEF OpenStore, execution
    <3>4. CASE BreakOff(o)
      BY <3>4 DEF BreakOff, execution
    <3>5. QED
      BY <1>2, <3>1, <3>2, <3>3, <3>4
  <2>2. \A a \in Apps : acked'[a] = acked[a] \/ acked'[a] = 0
    BY <1>0, <2>1
  <2>3. now' \in Nat /\ now <= now'
    BY <1>0, <2>1, SMT
  <2>4. QED
    BY <1>0, <2>1, <2>2, <2>3, ActFrame
<1>3. ASSUME NEW o \in Operators, WriteStore(o)
      PROVE  ActInv'
  <2>1. /\ \E n : acked' = [acked EXCEPT ![job[o].app] = n]
        /\ excused' = excused \cup {e \in Executors : epc[e] = "act"
                                                     /\ call[e].app = job[o].app}
        /\ UNCHANGED <<now, disturbed, epc, call>>
    BY <1>3 DEF WriteStore
  <2>2. ASSUME NEW e \in Executors \ excused', epc'[e] = "act"
        PROVE  /\ e \in Executors \ excused /\ epc[e] = "act" /\ call'[e] = call[e]
               /\ acked'[call'[e].app] = acked[call[e].app]
    BY <1>0, <2>1, <2>2
  <2>3. QED
    BY <2>1, <2>2 DEF ActInv
<1>4. ASSUME NEW e \in Executors, Check(e)
      PROVE  ActInv'
  <2>1. /\ epc[e] = "decide" /\ epc' = [epc EXCEPT ![e] = "act"]
        /\ UNCHANGED <<now, acked, disturbed, call>>
        /\ excused' \in {excused, excused \cup {e}}
        /\ e \notin excused' => Passes(e) /\ \A o \in Operators : opc[o] # "write"
    BY <1>4 DEF Check, store
  <2>2. ASSUME ~disturbed', NEW d \in Executors \ excused',
               epc'[d] = "act" /\ call'[d].entry = "gate" /\ call'[d].action # "noop"
        PROVE  ~(acked'[call'[d].app] > now')
    <3>1. CASE d # e
      BY <2>1, <2>2, <3>1 DEF ActInv, TypeOK
    <3>2. CASE d = e
      <4>1. ~Blocks(call[e], "app_manual_freeze_override")
        <5>1. 2 \in DOMAIN GateOrder /\ GateOrder[2] = "app_manual_freeze_override"
          BY DEF GateOrder
        <5>2. QED
          BY <2>1, <2>2, <3>2, <5>1, RefusalNames DEF Passes
      <4>2. ~Frozen(call[e].app)
        BY <2>1, <2>2, <3>2, <4>1 DEF Blocks
      <4>3. call[e].app \in Apps
        BY <2>1 DEF PointsInv, Calls
      <4>4. ASSUME acked[call[e].app] > now PROVE Frozen(call[e].app)
        <5>1. file \in Stores /\ Keeps(file, call[e].app)
          BY <2>1, <2>2, <3>2, <4>3, <4>4 DEF StoreInv
        <5>2. QED
          BY <4>3, <4>4, <5>1, KeptIsFrozen
      <4>5. QED
        BY <2>1, <3>2, <4>2, <4>4
    <3>3. QED
      BY <3>1, <3>2
  <2>3. QED
    BY <2>2 DEF ActInv
<1>5. ASSUME NEW e \in Executors,
             Begin(e) \/ CreateStore(e) \/ Refuse(e) \/ Abandon(e) \/ Execute(e) \/ Raise(e)
      PROVE  ActInv'
  <2>1. /\ UNCHANGED <<now, acked>> /\ (disturbed => disturbed')
        /\ \E p \in {"idle", "create", "decide"} : epc' = [epc EXCEPT ![e] = p]
        /\ \E c : call' = [call EXCEPT ![e] = c]
        /\ excused \subseteq excused' \cup {e}
    <3>1. CASE CreateStore(e)
      <4>1. call' = [call EXCEPT ![e] = call[e]]
        BY <3>1 DEF CreateStore, TypeOK
      <4>2. QED
        BY <3>1, <4>1 DEF CreateStore
    <3>2. CASE Begin(e)
      BY <3>2 DEF Begin, store
    <3>3. CASE Abandon(e)
      BY <3>3 DEF Abandon, store
    <3>4. CASE Refuse(e) \/ Execute(e) \/ Raise(e)
      <4>1. PICK row : Return(e, row)
        BY <3>4 DEF Refuse, Execute, Raise
      <4>2. QED
        BY <4>1 DEF Return, store
    <3>5. QED
      BY <1>5, <3>1, <3>2, <3>3, <3>4
  <2>2. \A d \in Executors \ excused' :
           epc'[d] = "act" => /\ epc[d] = "act" /\ call'[d] = call[d] /\ d \notin excused
    BY <2>1 DEF TypeOK
  <2>3. now' \in Nat /\ now <= now'
    BY <1>0, <2>1, SMT
  <2>4. QED
    BY <1>0, <2>1, <2>2, <2>3, ActFrame
<1>6. CASE UNCHANGED vars
  <2>1. UNCHANGED <<now, acked, disturbed, epc, call, excused>>
    BY <1>6 DEF vars, store, execution
  <2>2. now' \in Nat /\ now <= now'
    BY <1>0, <2>1, SMT
  <2>3. QED
    BY <1>0, <2>1, <2>2, ActFrame
<1>7. QED
  BY <1>1, <1>2, <1>3, <1>4, <1>5, <1>6 DEF Next, OperatorStep, ExecutorStep

-----------------------------------------------------------------------------
(* The decision log accounts for the services.                             *)

\* Appending a row counts it among the rows of a kind, if it is of that kind.
CountOf(rows, kind) == Cardinality({i \in DOMAIN rows : rows[i] \in kind})

LEMMA CountOfAppend ==
  ASSUME log \in Seq(Rows), NEW row \in Rows, log' = Append(log, row), NEW kind
  PROVE  /\ CountOf(log, kind) \in Nat
         /\ CountOf(log', kind) =
              IF row \in kind THEN CountOf(log, kind) + 1 ELSE CountOf(log, kind)
<1> DEFINE n == Len(log)
           old == {i \in DOMAIN log : log[i] \in kind}
           new == {i \in DOMAIN log' : log'[i] \in kind}
<1>1. n \in Nat /\ DOMAIN log = 1..n /\ DOMAIN log' = 1..n + 1
  BY LenProperties, AppendProperties
<1>2. log'[n + 1] = row /\ \A i \in 1..n : log'[i] = log[i]
  BY AppendProperties
<1>3. IsFiniteSet(old) /\ n + 1 \notin old
  <2>1. old \subseteq 1..n
    BY <1>1
  <2>2. IsFiniteSet(1..n)
    BY <1>1, FS_Interval
  <2>3. n + 1 \notin 1..n
    BY <1>1, SMT
  <2>4. QED
    BY <2>1, <2>2, <2>3, FS_Subset
<1>4. new = IF row \in kind THEN old \cup {n + 1} ELSE old
  <2>1. 1..n + 1 = (1..n) \cup {n + 1} /\ n + 1 \notin 1..n
    BY <1>1, SMT
  <2> HIDE DEF n
  <2>2. QED
    BY <1>1, <1>2, <2>1
<1> HIDE DEF old, new
<1>5. Cardinality(old) \in Nat /\ Cardinality(old \cup {n + 1}) = Cardinality(old) + 1
  BY <1>3, FS_CardinalityType, FS_AddElement
<1>6. Cardinality(new) = IF row \in kind THEN Cardinality(old) + 1 ELSE Cardinality(old)
  BY <1>4, <1>5
<1>7. QED
  BY <1>5, <1>6 DEF old, new, CountOf

\* What a row that is appended adds to the account of an executor, an application and an
\* action: to its successes, to its doubts, and to its limits.
Adds(row, e, a, action) ==
  LET mine == row.who = e /\ row.app = a /\ row.executed = action
  IN /\ Successes(e, a, action) \in Nat
     /\ Successes(e, a, action)' = IF mine /\ row.success
          THEN Successes(e, a, action) + 1 ELSE Successes(e, a, action)
     /\ Doubts(e, a, action) \in Nat
     /\ Doubts(e, a, action)' = IF mine /\ row.reason = "exception"
          THEN Doubts(e, a, action) + 1 ELSE Doubts(e, a, action)
     /\ LimitsOf(e, a, action) \subseteq Int
     /\ LimitsOf(e, a, action) \subseteq LimitsOf(e, a, action)'
     /\ (mine /\ (row.success \/ row.reason = "exception"))
          => row.limit \in LimitsOf(e, a, action)'

LEMMA AccountOfAppend ==
  ASSUME log \in Seq(Rows), NEW row \in Rows, log' = Append(log, row),
         NEW e, NEW a, NEW action
  PROVE  Adds(row, e, a, action)
<1>1. PICK good :
        good = {r \in Rows : r.who = e /\ r.app = a /\ r.success /\ r.executed = action}
  OBVIOUS
<1>2. PICK vague :
        vague = {r \in Rows : /\ r.who = e /\ r.app = a /\ r.reason = "exception"
                              /\ r.executed = action}
  OBVIOUS
<1>3. log' \in Seq(Rows)
  BY AppendProperties
<1>4. /\ \A i \in DOMAIN log : log[i] \in Rows
      /\ \A i \in DOMAIN log' : log'[i] \in Rows
  BY <1>3, ElementOfSeq, LenProperties
<1>5. /\ Successes(e, a, action) = CountOf(log, good)
      /\ Successes(e, a, action)' = CountOf(log', good)
  <2>1. /\ {i \in DOMAIN log : log[i] \in good} =
             {i \in DOMAIN log : /\ log[i].who = e /\ log[i].app = a /\ log[i].success
                                /\ log[i].executed = action}
        /\ {i \in DOMAIN log' : log'[i] \in good} =
             {i \in DOMAIN log' : /\ log'[i].who = e /\ log'[i].app = a /\ log'[i].success
                                 /\ log'[i].executed = action}
    BY <1>1, <1>4
  <2>2. QED
    BY <2>1 DEF Successes, CountOf
<1>6. /\ Doubts(e, a, action) = CountOf(log, vague)
      /\ Doubts(e, a, action)' = CountOf(log', vague)
  <2>1. /\ {i \in DOMAIN log : log[i] \in vague} =
             {i \in DOMAIN log : /\ log[i].who = e /\ log[i].app = a
                                /\ log[i].reason = "exception" /\ log[i].executed = action}
        /\ {i \in DOMAIN log' : log'[i] \in vague} =
             {i \in DOMAIN log' : /\ log'[i].who = e /\ log'[i].app = a
                                 /\ log'[i].reason = "exception" /\ log'[i].executed = action}
    BY <1>2, <1>4
  <2>2. QED
    BY <2>1 DEF Doubts, CountOf
<1>7. /\ row \in good <=> row.who = e /\ row.app = a /\ row.success /\ row.executed = action
      /\ row \in vague <=> /\ row.who = e /\ row.app = a /\ row.reason = "exception"
                           /\ row.executed = action
  BY <1>1, <1>2
<1>8. LimitsOf(e, a, action) \subseteq Int
  BY <1>4 DEF LimitsOf, Rows
<1>9. /\ LimitsOf(e, a, action) \subseteq LimitsOf(e, a, action)'
      /\ row.who = e /\ row.app = a /\ row.executed = action
           /\ (row.success \/ row.reason = "exception")
           => row.limit \in LimitsOf(e, a, action)'
  <2>1. /\ DOMAIN log \subseteq DOMAIN log' /\ \A i \in DOMAIN log : log'[i] = log[i]
        /\ Len(log) + 1 \in DOMAIN log' /\ log'[Len(log) + 1] = row
    BY <1>3, AppendProperties, LenProperties
  <2>2. QED
    BY <2>1 DEF LimitsOf
<1>10. /\ Successes(e, a, action) \in Nat
      /\ Successes(e, a, action)' = IF row \in good
           THEN Successes(e, a, action) + 1 ELSE Successes(e, a, action)
  BY <1>5, CountOfAppend
<1>11. /\ Doubts(e, a, action) \in Nat
      /\ Doubts(e, a, action)' = IF row \in vague
           THEN Doubts(e, a, action) + 1 ELSE Doubts(e, a, action)
  BY <1>6, CountOfAppend
<1>12. QED
  BY <1>7, <1>8, <1>9, <1>10, <1>11 DEF Adds

\* A service that the log accounts for, and within the limits of its calls.
Accounted(s, e, a) ==
  LET up   == Successes(e, a, "scale_up")
      down == Successes(e, a, "scale_down")
  IN /\ s.restarts >= Successes(e, a, "restart")
     /\ s.restarts <= Successes(e, a, "restart") + Doubts(e, a, "restart")
     /\ \/ \E limit \in LimitsOf(e, a, "scale_down") : limit < 1
        \/ /\ s.replicas + down + Doubts(e, a, "scale_down") >= s.initial + up
           /\ s.replicas + down <= s.initial + up + Doubts(e, a, "scale_up")

Within(s, e, a) ==
  /\ s.replicas <= s.initial \/ \E limit \in LimitsOf(e, a, "scale_up") : s.replicas <= limit
  /\ s.replicas >= s.initial \/ \E limit \in LimitsOf(e, a, "scale_down") : s.replicas >= limit

Untouched(e, a) == \A action \in Scaling \cup {"restart"} : Successes(e, a, action) = 0

ServicesInv ==
  \A e \in Executors, a \in Apps :
    IF service[e][a] = Nothing THEN Untouched(e, a)
    ELSE Accounted(service[e][a], e, a) /\ Within(service[e][a], e, a)

LEMMA ServicesInvMeans == ServicesInv <=> LogAccountsForServices /\ ReplicasWithinLimits
  BY DEF ServicesInv, LogAccountsForServices, ReplicasWithinLimits, Untouched, Accounted, Within

LEMMA InitServices == Init => ServicesInv
<1> SUFFICES ASSUME Init PROVE ServicesInv
  OBVIOUS
<1>1. \A e, a, action : Successes(e, a, action) = 0
  <2>1. DOMAIN log = {}
    BY DEF Init
  <2>2. QED
    BY <2>1, FS_EmptySet DEF Successes
<1>2. QED
  BY <1>1 DEF Init, ServicesInv, Untouched

\* A service that has just begun is accounted for.
LEMMA FreshIsAccounted ==
  ASSUME NEW s \in Service, s.restarts = 0, s.replicas = s.initial, NEW e, NEW a,
         Untouched(e, a), \A action : Doubts(e, a, action) \in Nat
  PROVE  Accounted(s, e, a) /\ Within(s, e, a)
<1>1. /\ Successes(e, a, "restart") = 0 /\ Successes(e, a, "scale_up") = 0
      /\ Successes(e, a, "scale_down") = 0
  BY DEF Untouched, Scaling
<1>2. s.replicas \in Nat /\ s.initial \in Nat
  BY DEF Service
<1>3. \A d, u \in Nat : /\ s.replicas + 0 + d >= s.initial + 0
                       /\ s.replicas + 0 <= s.initial + 0 + u /\ 0 >= 0 /\ 0 <= 0 + d
  BY <1>2, SMT
<1>4. Accounted(s, e, a)
  BY <1>1, <1>3 DEF Accounted
<1>5. s.replicas <= s.initial /\ s.replicas >= s.initial
  BY <1>2, SMT
<1>6. QED
  BY <1>4, <1>5 DEF Within

\* A row that is no success keeps the account of a service that stays as it is.
LEMMA StaysAccounted ==
  ASSUME NEW row, NEW s \in Service, NEW e, NEW a, Accounted(s, e, a), Within(s, e, a),
         \A action : Adds(row, e, a, action),
         ~row.success \/ row.who # e \/ row.app # a \/ row.executed \notin Scaling \cup {"restart"}
  PROVE  Accounted(s, e, a)' /\ Within(s, e, a)'
<1>1. \A action \in Scaling \cup {"restart"} :
        /\ Successes(e, a, action) \in Nat /\ Successes(e, a, action)' = Successes(e, a, action)
        /\ Doubts(e, a, action) \in Nat /\ Doubts(e, a, action)' \in Nat
        /\ Doubts(e, a, action) <= Doubts(e, a, action)'
        /\ LimitsOf(e, a, action) \subseteq LimitsOf(e, a, action)'
  BY SMT DEF Adds
<1>2. s.replicas \in Nat /\ s.restarts \in Nat /\ s.initial \in Nat
  BY DEF Service
<1>3. /\ Successes(e, a, "restart") \in Nat /\ Successes(e, a, "scale_up") \in Nat
      /\ Successes(e, a, "scale_down") \in Nat
      /\ Successes(e, a, "restart")' = Successes(e, a, "restart")
      /\ Successes(e, a, "scale_up")' = Successes(e, a, "scale_up")
      /\ Successes(e, a, "scale_down")' = Successes(e, a, "scale_down")
      /\ Doubts(e, a, "restart") \in Nat /\ Doubts(e, a, "restart")' \in Nat
      /\ Doubts(e, a, "scale_up") \in Nat /\ Doubts(e, a, "scale_up")' \in Nat
      /\ Doubts(e, a, "scale_down") \in Nat /\ Doubts(e, a, "scale_down")' \in Nat
      /\ Doubts(e, a, "restart") <= Doubts(e, a, "restart")'
      /\ Doubts(e, a, "scale_up") <= Doubts(e, a, "scale_up")'
      /\ Doubts(e, a, "scale_down") <= Doubts(e, a, "scale_down")'
  BY <1>1 DEF Scaling
<1>4. Within(s, e, a)'
  BY <1>1 DEF Within, Scaling
<1>5. /\ s.restarts >= Successes(e, a, "restart")'
      /\ s.restarts <= Successes(e, a, "restart")' + Doubts(e, a, "restart")'
  <2>1. /\ s.restarts >= Successes(e, a, "restart")
        /\ s.restarts <= Successes(e, a, "restart") + Doubts(e, a, "restart")
    BY DEF Accounted
  <2>2. QED
    BY <1>2, <1>3, <2>1, SMT
<1>6. CASE \E limit \in LimitsOf(e, a, "scale_down") : limit < 1
  BY <1>1, <1>4, <1>5, <1>6 DEF Accounted, Scaling
<1>7. CASE ~(\E limit \in LimitsOf(e, a, "scale_down") : limit < 1)
  <2>1. /\ s.replicas + Successes(e, a, "scale_down") + Doubts(e, a, "scale_down")
             >= s.initial + Successes(e, a, "scale_up")
        /\ s.replicas + Successes(e, a, "scale_down")
             <= s.initial + Successes(e, a, "scale_up") + Doubts(e, a, "scale_up")
    BY <1>7 DEF Accounted
  <2>2. /\ s.replicas + Successes(e, a, "scale_down")' + Doubts(e, a, "scale_down")'
             >= s.initial + Successes(e, a, "scale_up")'
        /\ s.replicas + Successes(e, a, "scale_down")'
             <= s.initial + Successes(e, a, "scale_up")' + Doubts(e, a, "scale_up")'
    BY <1>2, <1>3, <2>1, SMT
  <2>3. QED
    BY <1>4, <1>5, <2>2 DEF Accounted
<1>8. QED
  BY <1>6, <1>7

\* A handler that applies keeps the account of the service it changes, whether its call ends
\* as a success or by an exception.
LEMMA ChangeIsAccounted ==
  ASSUME NEW row, row.success \in BOOLEAN, NEW s \in Service, NEW e, NEW a, Accounted(s, e, a), Within(s, e, a),
         \A act : Adds(row, e, a, act), NEW action \in Scaling \cup {"restart"}, NEW limit \in Int,
         Applies(s, action, limit),
         row.who = e, row.app = a, row.executed = action,
         (row.success /\ row.reason # "exception") \/ (~row.success /\ row.reason = "exception"),
         action \in Scaling => row.limit = limit
  PROVE  Accounted(Changed(s, action), e, a)' /\ Within(Changed(s, action), e, a)'
<1> DEFINE n == Counted(s, action)
<1>0. /\ s.replicas \in Nat /\ s.restarts \in Nat /\ s.initial \in Nat /\ s.initial >= 1
      /\ s = [replicas |-> s.replicas, restarts |-> s.restarts, initial |-> s.initial]
      /\ n \in Nat /\ n >= 1 /\ (s.replicas # 0 => n = s.replicas)
      /\ action = "scale_up" /\ s.replicas = 0 => n = 1
      /\ action = "scale_down" /\ s.replicas = 0 => n = 2
  BY SMT DEF Service, Counted
<1>1. PICK t \in Service : t = Changed(s, action)
  BY ChangedTypes
<1>2. /\ t.initial = s.initial
      /\ t.restarts = IF action = "restart" THEN s.restarts + 1 ELSE s.restarts
      /\ t.replicas = IF action = "scale_up" THEN n + 1
                      ELSE IF action = "scale_down" THEN n - 1 ELSE s.replicas
  <2>1. CASE action = "restart"
    BY <1>0, <1>1, <2>1 DEF Changed
  <2>2. CASE action = "scale_up"
    BY <1>0, <1>1, <2>2 DEF Changed
  <2>3. CASE action = "scale_down"
    BY <1>0, <1>1, <2>3 DEF Changed
  <2>4. QED
    BY <2>1, <2>2, <2>3 DEF Scaling
<1>3. \A act \in Scaling \cup {"restart"} :
        /\ Successes(e, a, act) \in Nat
        /\ Successes(e, a, act)' = IF act = action /\ row.success
             THEN Successes(e, a, act) + 1 ELSE Successes(e, a, act)
        /\ Doubts(e, a, act) \in Nat
        /\ Doubts(e, a, act)' = IF act = action /\ row.reason = "exception"
             THEN Doubts(e, a, act) + 1 ELSE Doubts(e, a, act)
        /\ LimitsOf(e, a, act) \subseteq Int
        /\ LimitsOf(e, a, act) \subseteq LimitsOf(e, a, act)'
  BY DEF Adds
<1>4. /\ Successes(e, a, "restart") \in Nat /\ Successes(e, a, "scale_up") \in Nat
      /\ Successes(e, a, "scale_down") \in Nat
      /\ Doubts(e, a, "restart") \in Nat /\ Doubts(e, a, "scale_up") \in Nat
      /\ Doubts(e, a, "scale_down") \in Nat
      /\ Successes(e, a, "restart")' = IF "restart" = action /\ row.success
           THEN Successes(e, a, "restart") + 1 ELSE Successes(e, a, "restart")
      /\ Successes(e, a, "scale_up")' = IF "scale_up" = action /\ row.success
           THEN Successes(e, a, "scale_up") + 1 ELSE Successes(e, a, "scale_up")
      /\ Successes(e, a, "scale_down")' = IF "scale_down" = action /\ row.success
           THEN Successes(e, a, "scale_down") + 1 ELSE Successes(e, a, "scale_down")
      /\ Doubts(e, a, "restart")' = IF "restart" = action /\ row.reason = "exception"
           THEN Doubts(e, a, "restart") + 1 ELSE Doubts(e, a, "restart")
      /\ Doubts(e, a, "scale_up")' = IF "scale_up" = action /\ row.reason = "exception"
           THEN Doubts(e, a, "scale_up") + 1 ELSE Doubts(e, a, "scale_up")
      /\ Doubts(e, a, "scale_down")' = IF "scale_down" = action /\ row.reason = "exception"
           THEN Doubts(e, a, "scale_down") + 1 ELSE Doubts(e, a, "scale_down")
  BY <1>3 DEF Scaling
<1>5. /\ action \in {"restart", "scale_up", "scale_down"}
      /\ row.success # (row.reason = "exception") /\ row.success \in BOOLEAN
  BY DEF Scaling
<1>6. action \in Scaling => limit \in LimitsOf(e, a, action)'
  BY DEF Adds
<1>7. /\ action = "scale_up" => n < limit
      /\ action = "scale_down" => n > limit
  BY DEF Applies
<1>8. s.replicas = 0 => \E low \in LimitsOf(e, a, "scale_down") : low < 1
  <2>1. ASSUME s.replicas = 0 PROVE \E low \in LimitsOf(e, a, "scale_down") : low < 1
    <3>1. ~(s.replicas >= s.initial)
      BY <1>0, <2>1, SMT
    <3>2. PICK low \in LimitsOf(e, a, "scale_down") : s.replicas >= low
      BY <3>1 DEF Within
    <3>3. low \in Int
      BY <1>3, <3>2 DEF Scaling
    <3>4. low < 1
      BY <2>1, <3>2, <3>3, SMT
    <3>5. QED
      BY <3>4
  <2>2. QED
    BY <2>1
<1> HIDE DEF n
<1>9. /\ t.restarts >= Successes(e, a, "restart")'
      /\ t.restarts <= Successes(e, a, "restart")' + Doubts(e, a, "restart")'
  <2>1. /\ s.restarts >= Successes(e, a, "restart")
        /\ s.restarts <= Successes(e, a, "restart") + Doubts(e, a, "restart")
    BY DEF Accounted
  <2>2. QED
    BY <1>0, <1>2, <1>4, <1>5, <2>1, SMT
<1>10. \/ \E low \in LimitsOf(e, a, "scale_down")' : low < 1
      \/ /\ t.replicas + Successes(e, a, "scale_down")' + Doubts(e, a, "scale_down")'
               >= t.initial + Successes(e, a, "scale_up")'
         /\ t.replicas + Successes(e, a, "scale_down")'
               <= t.initial + Successes(e, a, "scale_up")' + Doubts(e, a, "scale_up")'
  <2>1. CASE \E low \in LimitsOf(e, a, "scale_down") : low < 1
    BY <1>3, <2>1 DEF Scaling
  <2>2. CASE ~(\E low \in LimitsOf(e, a, "scale_down") : low < 1)
    <3>1. /\ s.replicas + Successes(e, a, "scale_down") + Doubts(e, a, "scale_down")
               >= s.initial + Successes(e, a, "scale_up")
          /\ s.replicas + Successes(e, a, "scale_down")
               <= s.initial + Successes(e, a, "scale_up") + Doubts(e, a, "scale_up")
      BY <2>2 DEF Accounted
    <3>2. n = s.replicas
      BY <1>0, <1>8, <2>2
    <3>3. QED
      BY <1>0, <1>2, <1>4, <1>5, <3>1, <3>2, SMT
  <2>3. QED
    BY <2>1, <2>2
<1>11. Within(t, e, a)'
  <2>1. t.replicas <= t.initial \/ \E l \in LimitsOf(e, a, "scale_up")' : t.replicas <= l
    <3>1. CASE action = "scale_up"
      <4>1. t.replicas <= limit
        BY <1>0, <1>2, <1>7, <3>1, SMT
      <4>2. QED
        BY <1>6, <3>1, <4>1 DEF Scaling
    <3>2. CASE action # "scale_up"
      <4>1. t.replicas <= s.replicas \/ t.replicas <= t.initial
        BY <1>0, <1>2, <3>2, SMT
      <4>2. s.replicas <= s.initial \/ \E l \in LimitsOf(e, a, "scale_up") : s.replicas <= l
        BY DEF Within
      <4>3. \A l \in Int : t.replicas <= s.replicas /\ s.replicas <= l => t.replicas <= l
        BY <1>0, <1>1, SMT DEF Service
      <4>4. QED
        BY <1>0, <1>2, <1>3, <4>1, <4>2, <4>3 DEF Scaling
    <3>3. QED
      BY <3>1, <3>2
  <2>2. t.replicas >= t.initial \/ \E l \in LimitsOf(e, a, "scale_down")' : t.replicas >= l
    <3>1. CASE action = "scale_down"
      <4>1. t.replicas >= limit
        BY <1>0, <1>2, <1>7, <3>1, SMT
      <4>2. QED
        BY <1>6, <3>1, <4>1 DEF Scaling
    <3>2. CASE action # "scale_down"
      <4>1. t.replicas >= s.replicas
        BY <1>0, <1>2, <3>2, SMT
      <4>2. s.replicas >= s.initial \/ \E l \in LimitsOf(e, a, "scale_down") : s.replicas >= l
        BY DEF Within
      <4>3. \A l \in Int : s.replicas >= l => t.replicas >= l
        BY <1>0, <1>1, <4>1, SMT DEF Service
      <4>4. t.initial \in Int
        BY <1>1 DEF Service
      <4>5. QED
        BY <1>2, <1>3, <4>2, <4>3, <4>4 DEF Scaling
    <3>3. QED
      BY <3>1, <3>2
  <2>3. QED
    BY <2>1, <2>2 DEF Within
<1>12. Accounted(t, e, a)'
  BY <1>9, <1>10 DEF Accounted
<1>13. QED
  BY <1>1, <1>11, <1>12

\* Steps that leave the services and the log alone.
LEMMA ServicesFrame ==
  ASSUME ServicesInv, UNCHANGED <<service, log>>
  PROVE  ServicesInv'
<1>1. \A e, a, action :
        /\ Successes(e, a, action)' = Successes(e, a, action)
        /\ Doubts(e, a, action)' = Doubts(e, a, action)
        /\ LimitsOf(e, a, action)' = LimitsOf(e, a, action)
  BY DEF Successes, Doubts, LimitsOf
<1>2. QED
  BY <1>1 DEF ServicesInv, Untouched, Accounted, Within

\* A row about one executor and one application leaves the others' accounts as they are, and
\* so does a row that is no success and changes nothing.
LEMMA ServicesKept ==
  ASSUME TypeOK, ServicesInv, NEW row \in Rows, log' = Append(log, row),
         NEW e \in Executors, NEW a \in Apps, service'[e][a] = service[e][a],
         ~row.success \/ row.who # e \/ row.app # a \/ row.executed \notin Scaling \cup {"restart"}
  PROVE  IF service'[e][a] = Nothing THEN Untouched(e, a)'
         ELSE Accounted(service[e][a], e, a)' /\ Within(service[e][a], e, a)'
<1>1. service[e][a] \in Service \cup {Nothing} /\ log \in Seq(Rows)
  BY DEF TypeOK
<1>2. \A action : Adds(row, e, a, action)
  BY <1>1, AccountOfAppend
<1>3. CASE service[e][a] = Nothing
  <2>1. Untouched(e, a)
    BY <1>3 DEF ServicesInv
  <2>2. \A action \in Scaling \cup {"restart"} :
          Successes(e, a, action)' = Successes(e, a, action)
    BY <1>2 DEF Adds
  <2>3. QED
    BY <1>3, <2>1, <2>2 DEF Untouched
<1>4. CASE service[e][a] # Nothing
  <2>1. PICK s \in Service : s = service[e][a]
    BY <1>1, <1>4
  <2>2. Accounted(s, e, a) /\ Within(s, e, a)
    BY <1>4, <2>1 DEF ServicesInv
  <2>3. Accounted(s, e, a)' /\ Within(s, e, a)'
    BY <1>2, <2>2, StaysAccounted
  <2>4. service'[e][a] = s
    BY <2>1
  <2>5. QED
    BY <1>4, <2>3, <2>4 DEF Accounted, Within
<1>5. QED
  BY <1>3, <1>4

\* What one row does to the account of every executor and application.
LEMMA ServicesStep ==
  ASSUME TypeOK, PointsInv, ServicesInv, [Next]_vars
  PROVE  ServicesInv'
<1>0. log \in Seq(Rows)
  BY DEF TypeOK
<1>1. CASE UNCHANGED <<service, log>>
  BY <1>1, ServicesFrame
<1>2. ASSUME NEW e \in Executors, Refuse(e)
      PROVE  ServicesInv'
  <2>1. PICK success \in BOOLEAN, reason \in Reasons :
          Return(e, Row(e, "noop", success, reason, 0))
    <3>1. Refusal(call[e]) \in Reasons /\ "unsafe_noop" \in Reasons
      BY RefusalNames DEF Reasons
    <3>2. QED
      BY <1>2, <3>1 DEF Refuse
  <2>2. call[e] \in Calls
    BY <1>2 DEF Refuse, PointsInv
  <2>3. PICK row \in Rows : row.executed = "noop" /\ log' = Append(log, row)
    <3>1. Row(e, "noop", success, reason, 0) \in Rows
      BY <2>2 DEF Row, Rows, Calls, Actions
    <3>2. QED
      BY <2>1, <3>1 DEF Return, Row
  <2>4. row.executed \notin Scaling \cup {"restart"} /\ service' = service
    BY <1>2, <2>3 DEF Refuse, Scaling
  <2>5. QED
    BY <2>3, <2>4, ServicesKept DEF ServicesInv, Accounted, Within, Untouched
<1>3. ASSUME NEW e \in Executors, Execute(e) \/ Raise(e)
      PROVE  ServicesInv'
  <2>1. PICK replicas \in Replicas, limit \in Limits, done \in BOOLEAN,
             reason \in {"none", "exception"} : Acts(e, replicas, limit, done, reason)
    BY <1>3, ActsEffect
  <2>2. PICK a \in Apps, action \in Actions : a = call[e].app /\ action = call[e].action
    BY <1>3, ActsEffect
  <2>3. PICK row \in Rows :
          /\ log' = Append(log, row)
          /\ row.who = e /\ row.app = a /\ row.executed = action /\ row.success = done
          /\ row.reason = reason
          /\ action \in Scaling /\ (done \/ reason = "exception") => row.limit = limit
    <3>1. limit \in Int /\ reason \in Reasons
      BY OrchestratorAssumption DEF Reasons
    <3>2. Row(e, action, done, reason, limit) \in Rows
      BY <2>2, <3>1 DEF Row, Rows
    <3>3. log' = Append(log, Row(e, action, done, reason, limit))
      BY <2>1, <2>2 DEF Acts, Return
    <3>4. QED
      BY <2>2, <3>2, <3>3 DEF Row
  <2>4. PICK s \in Service : s = Current(e, a, replicas)
    BY CurrentTypes
  <2>5. \A act : Adds(row, e, a, act)
    BY <1>0, <2>3, AccountOfAppend
  <2>6. Accounted(s, e, a) /\ Within(s, e, a)
    <3>1. CASE service[e][a] = Nothing
      <4>1. Untouched(e, a) /\ s = [replicas |-> replicas, restarts |-> 0, initial |-> replicas]
        BY <2>4, <3>1 DEF ServicesInv, Current
      <4>2. \A act : Doubts(e, a, act) \in Nat
        BY <2>5 DEF Adds
      <4>3. QED
        BY <4>1, <4>2, FreshIsAccounted
    <3>2. CASE service[e][a] # Nothing
      BY <2>4, <3>2 DEF ServicesInv, Current
    <3>3. QED
      BY <3>1, <3>2
  <2>7. \/ service' = service /\ ~(done /\ action \in Scaling \cup {"restart"})
        \/ service' = [service EXCEPT ![e][a] = s] /\ ~done
        \/ /\ service' = [service EXCEPT ![e][a] = Changed(s, action)]
           /\ Applies(s, action, limit) /\ (done \/ reason = "exception")
           /\ action \in Scaling \cup {"restart"}
    BY <2>1, <2>2, <2>4 DEF Acts
  <2>8. ASSUME NEW d \in Executors, NEW b \in Apps, d # e \/ b # a
        PROVE  IF service'[d][b] = Nothing THEN Untouched(d, b)'
               ELSE Accounted(service[d][b], d, b)' /\ Within(service[d][b], d, b)'
    <3>1. service'[d][b] = service[d][b]
      BY <2>7, <2>8 DEF TypeOK
    <3>2. row.who # d \/ row.app # b
      BY <2>3, <2>8
    <3>3. QED
      BY <2>3, <3>1, <3>2, ServicesKept
  <2>9. IF service'[e][a] = Nothing THEN Untouched(e, a)'
        ELSE Accounted(service[e][a], e, a)' /\ Within(service[e][a], e, a)'
    <3>1. CASE service' = service /\ ~(done /\ action \in Scaling \cup {"restart"})
      <4>1. ~row.success \/ row.executed \notin Scaling \cup {"restart"}
        BY <2>3, <3>1
      <4>2. QED
        BY <2>3, <3>1, <4>1, ServicesKept
    <3>2. CASE service' = [service EXCEPT ![e][a] = s] /\ ~done
      <4>1. service'[e][a] = s /\ s # Nothing
        BY <3>2, NamesAssumption DEF TypeOK
      <4>2. Accounted(s, e, a)' /\ Within(s, e, a)'
        BY <2>3, <2>5, <2>6, <3>2, StaysAccounted
      <4>3. QED
        BY <4>1, <4>2 DEF Accounted, Within
    <3>3. CASE /\ service' = [service EXCEPT ![e][a] = Changed(s, action)]
               /\ Applies(s, action, limit) /\ (done \/ reason = "exception")
               /\ action \in Scaling \cup {"restart"} /\ ~(done /\ reason = "exception")
      <4>0. limit \in Int
        BY OrchestratorAssumption
      <4>1. PICK t \in Service : t = Changed(s, action)
        BY <4>0, ChangedTypes
      <4>2. service'[e][a] = t /\ t # Nothing
        BY <3>3, <4>1, NamesAssumption DEF TypeOK
      <4>3. /\ Accounted(Changed(s, action), e, a)' /\ Within(Changed(s, action), e, a)'
        <5>1. /\ action \in Scaling \cup {"restart"} /\ Applies(s, action, limit)
              /\ \/ (row.success /\ row.reason # "exception")
                 \/ (~row.success /\ row.reason = "exception")
              /\ action \in Scaling => row.limit = limit
              /\ row.success \in BOOLEAN
          BY <2>3, <3>3
        <5>2. QED
          BY <2>3, <2>5, <2>6, <4>0, <5>1, ChangeIsAccounted
      <4>4. Accounted(t, e, a)' /\ Within(t, e, a)'
        BY <4>1, <4>3
      <4>5. QED
        BY <4>2, <4>4 DEF Accounted, Within
    <3>4. QED
      BY <2>1, <2>7, <3>1, <3>2, <3>3 DEF Acts
  <2>10. QED
    BY <2>8, <2>9 DEF ServicesInv, Accounted, Within, Untouched
<1>4. QED
  BY <1>1, <1>2, <1>3 DEF Next, OperatorStep, ExecutorStep, Tick, BeginOverride, ReadStore,
     ReadsAs, OpenStore, WriteStore, BreakOff, Begin, CreateStore, Abandon, Check, execution, vars

-----------------------------------------------------------------------------
(* The theorems.                                                           *)

LEMMA IInvHolds == Spec => []IInv
<1>1. IInv /\ [Next]_vars => IInv'
  BY NextTypes, ExpiryStep, StoreStep, ActStep DEF IInv
<1>2. QED
  BY InitIInv, <1>1, PTL DEF Spec

\* Freezes end no later than an operator asked, and while overrides come one at a time and
\* none fails half-way a confirmed freeze is in the store: for any operators and executors,
\* of any number of overlapping overrides and calls (app_override_manager.py).
THEOREM FreezesAreKeptAlways == Spec => []FreezesAreKept
<1>1. IInv => FreezesAreKept
  <2> SUFFICES ASSUME IInv PROVE FreezesAreKept
    OBVIOUS
  <2>1. FreezesExpire
    BY DEF IInv, ExpiryInv, FreezesExpire, Granted, Stores
  <2>2. ASSUME ~disturbed, Quiet, NEW a \in Apps, acked[a] > now
        PROVE  Frozen(a)
    <3>1. file \in Stores /\ Keeps(file, a)
      BY <2>2 DEF IInv, StoreInv, Quiet
    <3>2. QED
      BY <2>2, <3>1, KeptIsFrozen DEF IInv
  <2>3. QED
    BY <2>1, <2>2 DEF FreezesAreKept, ConfirmedFreezesAreStored
<1>2. QED
  BY IInvHolds, <1>1, PTL

\* And then a call of the gate executes nothing for a frozen application, unless it looked
\* at the store before the freeze was confirmed, during a write, or in vain
\* (rl_orchestrator_safe.py, execute_action).
THEOREM FrozenAppsStay == Spec => FrozenAppsAreLeftAlone
<1> DEFINE A == \A e \in Executors :
                  (/\ log' # log /\ log'[Len(log')].who = e /\ call[e].entry = "gate"
                   /\ ~disturbed /\ Quiet /\ acked[call[e].app] > now)
                  => log'[Len(log')].executed = "noop" \/ e \in excused
<1>1. IInv /\ [Next]_vars => [A]_vars
  <2> SUFFICES ASSUME IInv, Next, NEW d \in Executors,
                      log' # log, log'[Len(log')].who = d, call[d].entry = "gate",
                      ~disturbed, acked[call[d].app] > now, d \notin excused
               PROVE  log'[Len(log')].executed = "noop"
    OBVIOUS
  <2>1. PICK e \in Executors : Refuse(e) \/ Execute(e) \/ Raise(e)
    BY DEF Next, OperatorStep, ExecutorStep, Tick, BeginOverride, ReadStore, ReadsAs, OpenStore,
           WriteStore, BreakOff, Begin, CreateStore, Abandon, Check, execution
  <2>2. ASSUME NEW row, log' = Append(log, row)
        PROVE  log'[Len(log')] = row
    BY <2>2, AppendProperties DEF IInv, TypeOK
  <2>3. CASE Refuse(e)
    <3>1. PICK success, reason : log' = Append(log, Row(e, "noop", success, reason, 0))
      BY <2>3 DEF Refuse, Return
    <3>2. QED
      BY <2>2, <3>1 DEF Row
  <2>4. CASE Execute(e) \/ Raise(e)
    <3>1. PICK done, reason, limit :
            log' = Append(log, Row(e, call[e].action, done, reason, limit))
      BY <2>4, ActsEffect DEF IInv, Acts, Return
    <3>2. log'[Len(log')].executed = call[e].action /\ d = e
      BY <2>2, <3>1 DEF Row
    <3>3. epc[e] = "act"
      BY <2>4 DEF Execute, Raise
    <3>4. QED
      BY <3>2, <3>3 DEF IInv, ActInv
  <2>5. QED
    BY <2>1, <2>3, <2>4
<1>2. QED
  BY IInvHolds, <1>1, PTL DEF FrozenAppsAreLeftAlone, Spec

\* The executor's view of its services is what its log adds up to, give or take the calls
\* that an exception ended, and within the limits of its calls, over any number of them.
THEOREM ServicesAddUp == Spec => []ServicesAreAccountedFor
<1>1. TypeOK /\ PointsInv /\ ServicesInv /\ [Next]_vars => ServicesInv'
  BY ServicesStep
<1>2. IInv => TypeOK /\ PointsInv
  BY DEF IInv
<1>3. IInv /\ ServicesInv => ServicesAreAccountedFor
  BY ServicesInvMeans DEF IInv, ServicesAreAccountedFor
<1>4. QED
  BY IInvHolds, InitServices, <1>1, <1>2, <1>3, PTL DEF Spec

=============================================================================
