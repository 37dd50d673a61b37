--------------------------- MODULE SafeOrchestrator ---------------------------
(***************************************************************************)
(* The execution gate (control_plane/core/rl_orchestrator_safe.py) and the *)
(* store of manual freezes it consults (control_plane/                     *)
(* app_override_manager.py).  Operators are the Flask request threads of   *)
(* POST /api/control-plane/override; executors are the processes that hold *)
(* a SafeOrchestrator.  They share one JSON file, which every override     *)
(* reads, truncates and writes without a lock.                             *)
(*                                                                         *)
(* execute_action reads the file once, at its first gate (Check); what     *)
(* passes the gates is executed and logged later (Execute, Raise), on the  *)
(* executor's own objects.                                                 *)
(***************************************************************************)
EXTENDS Integers, Sequences, FiniteSets

CONSTANTS
  Apps, Operators, Executors,
  Nothing,          \* no entry, no job, no call
  Torn, Absent,     \* a store file that does not parse; no file
  Modes,            \* process configurations, see the variable mode
  DemoAllowed,      \* the demo allow-list (external)
  Sources,          \* where calls say they come from
  Requested,        \* actions asked for
  StoreExists,      \* is the override file there at the start
  LegacyCalls,      \* do executors also call execute_safe_action
  Durations,        \* freeze durations, in ticks
  Replicas,         \* replicas an application begins with, by the context of a call
  Limits,           \* the max_replicas or min_replicas of a call, by its context
  MaxTime, MaxWork   \* bounds: ticks; overrides and executions

ASSUME OrchestratorAssumption ==
  /\ Modes \subseteq [env : {"dev", "stage", "prod"}, emergency : BOOLEAN,
                     demo : BOOLEAN]
  /\ StoreExists \in BOOLEAN /\ LegacyCalls \in BOOLEAN
  /\ Requested \subseteq {"noop", "restart", "scale_up", "scale_down",
                         "rollback", "unknown_name", "unknown_index"}
  /\ Durations \subseteq Nat \ {0}
  /\ IsFiniteSet(Executors)
  /\ Replicas \subseteq Nat \ {0} /\ Limits \subseteq Int
  /\ MaxTime \in Nat /\ MaxWork \in Nat

VARIABLES
  mode,      \* the environment, EMERGENCY_FREEZE_ENABLED, is_demo_mode_active()
  now,       \* the clock
  file,      \* app_overrides.json: per app an entry or Nothing
  jobs,      \* overrides begun
  opc,       \* per operator: the point of its override
  job,       \* per operator: the override it makes
  copy,      \* per operator: the store as it read it
  granted,   \* ghost. Per app: the latest end any freeze asked for
  acked,     \* ghost. Per app: the end of the freeze last confirmed, 0 if none
  disturbed, \* ghost. Have two writers of the store overlapped, has one truncated it and
             \* not written, or has one failed to read it?
  epc,       \* per executor: the point of its call
  call,      \* per executor: its call
  excused,   \* ghost. Executors that looked at the store before a freeze of their
             \* application was confirmed or while one was written, or could not read it
  service,   \* per executor and app: _service_state, with a ghost of what it began with
  log        \* the calls that have ended: their row in the decision log, with a ghost of
             \* the limit. One that ended by an exception may have left no row

store     == <<file, jobs, opc, job, copy, granted, acked, disturbed>>
execution == <<epc, call, excused, service, log>>
vars      == <<mode, now, store, execution>>

-----------------------------------------------------------------------------
(* Data.                                                                   *)

Time      == 0..MaxTime
Ends      == Time \cup {t + d : t \in Time, d \in Durations}
Entry     == [enabled : BOOLEAN, until : Ends]
Empty     == [a \in Apps |-> Nothing]
Stores    == [Apps -> Entry \cup {Nothing}]
Jobs      == [app : Apps, until : Ends, kind : {"set", "clear"}]

Actions   == {"noop", "restart", "scale_up", "scale_down", "rollback"}

\* safety_rules.
SafetyRules ==
  CASE mode.env = "prod"  -> {"noop", "restart"}
    [] mode.env = "stage" -> {"restart", "noop"}
    [] OTHER         -> {"restart", "scale_up", "noop", "scale_down"}

Reasons == {"none", "app_manual_freeze_override", "emergency_freeze_override",
            "illegal_action", "illegal_action_index", "demo_mode_gate_blocked",
            "demo_safety_refused", "environment_safety_rules", "unsafe_noop",
            "exception"}

Calls == [app : Apps, action : Requested, source : Sources,
          entry : {"gate", "safe"}]

Service == [replicas : Nat, restarts : Nat, initial : Nat \ {0}]

\* What stands for the absence of something is none of the things.
ASSUME NamesAssumption ==
  /\ Torn # Absent /\ Torn \notin Stores /\ Absent \notin Stores
  /\ Nothing \notin Entry /\ Nothing \notin Jobs /\ Nothing \notin Calls
  /\ Nothing \notin Service

Rows  == [who : Executors, app : Apps, executed : Actions, success : BOOLEAN,
          reason : Reasons, limit : Int]

\* get_app_override(app)["freeze_enabled"]; an unreadable store is empty.
Frozen(a) ==
  /\ file \notin {Torn, Absent}
  /\ file[a] # Nothing
  /\ file[a].enabled
  /\ file[a].until > now

-----------------------------------------------------------------------------

Begun == Len(log) + Cardinality({e \in Executors : epc[e] # "idle"})

\* No override is under way.
Quiet == \A o \in Operators : opc[o] = "idle"

Init ==
  /\ mode \in Modes
  /\ now = 0
  /\ file = IF StoreExists THEN Empty ELSE Absent
  /\ jobs = 0
  /\ opc = [o \in Operators |-> "idle"]
  /\ job = [o \in Operators |-> Nothing]
  /\ copy = [o \in Operators |-> Empty]
  /\ granted = [a \in Apps |-> 0]
  /\ acked = [a \in Apps |-> 0]
  /\ disturbed = FALSE
  /\ epc = [e \in Executors |-> "idle"]
  /\ call = [e \in Executors |-> Nothing]
  /\ excused = {}
  /\ service = [e \in Executors |-> [a \in Apps |-> Nothing]]
  /\ log = <<>>

Tick ==
  /\ now < MaxTime
  /\ now' = now + 1
  /\ UNCHANGED <<mode, store, execution>>

(***************************************************************************)
(* The override store.  The API constructs its AppOverrideManager before   *)
(* it serves a request, so the file is there when an override begins.      *)
(***************************************************************************)
BeginOverride(o) ==
  /\ opc[o] = "idle"
  /\ jobs + Begun < MaxWork
  /\ jobs' = jobs + 1
  /\ \E a \in Apps :
       \/ \E d \in Durations :
            /\ job' = [job EXCEPT ![o] =
                         [app |-> a, until |-> now + d, kind |-> "set"]]
            /\ granted' = [granted EXCEPT ![a] = IF now + d > @ THEN now + d ELSE @]
       \/ /\ job' = [job EXCEPT ![o] = [app |-> a, until |-> now, kind |-> "clear"]]
          /\ UNCHANGED granted
  /\ opc' = [opc EXCEPT ![o] = "read"]
  /\ file' = IF file = Absent THEN Empty ELSE file
  /\ disturbed' = (disturbed \/ ~Quiet)
  /\ UNCHANGED <<mode, now, copy, acked, execution>>

\* A faulty variant: a new freeze is added to what is left of the old one.
ReadStoreExtends(o) ==
  LET read == IF file = Torn THEN Empty ELSE file
      a    == job[o].app
      left == IF read[a] = Nothing THEN 0 ELSE read[a].until
  IN /\ opc[o] = "read"
     /\ copy' = [copy EXCEPT ![o] =
          [read EXCEPT ![a] = [enabled |-> TRUE, until |-> job[o].until + left]]]
     /\ opc' = [opc EXCEPT ![o] = "open"]
     /\ UNCHANGED <<mode, now, file, jobs, job, granted, acked, disturbed, execution>>

\* A faulty variant: the entries of the other apps are not carried over.
ReadStoreAlone(o) ==
  /\ opc[o] = "read"
  /\ copy' = [copy EXCEPT ![o] = [Empty EXCEPT ![job[o].app] =
                 [enabled |-> job[o].kind = "set", until |-> job[o].until]]]
  /\ opc' = [opc EXCEPT ![o] = "open"]
  /\ UNCHANGED <<mode, now, file, jobs, job, granted, acked, disturbed, execution>>

\* _read_store: any failure to read or to parse yields an empty store.  clear_freeze
\* of an app without an entry writes nothing.
ReadsAs(o, read) ==
  LET a == job[o].app
  IN /\ opc[o] = "read"
     /\ disturbed' = (disturbed \/ read # file)
     /\ \/ /\ job[o].kind = "set"
           /\ copy' = [copy EXCEPT ![o] =
                [read EXCEPT ![a] = [enabled |-> TRUE, until |-> job[o].until]]]
           /\ opc' = [opc EXCEPT ![o] = "open"]
           /\ UNCHANGED <<job, acked>>
        \/ /\ job[o].kind = "clear" /\ read[a] # Nothing
           /\ copy' = [copy EXCEPT ![o] =
                [read EXCEPT ![a] = [enabled |-> FALSE, until |-> now]]]
           /\ opc' = [opc EXCEPT ![o] = "open"]
           /\ UNCHANGED <<job, acked>>
        \/ /\ job[o].kind = "clear" /\ read[a] = Nothing
           /\ acked' = [acked EXCEPT ![a] = 0]
           /\ opc' = [opc EXCEPT ![o] = "idle"]
           /\ job' = [job EXCEPT ![o] = Nothing]
           /\ UNCHANGED copy
     /\ UNCHANGED <<mode, now, file, jobs, granted, execution>>

ReadStore(o) == \E read \in {Empty, IF file = Torn THEN Empty ELSE file} : ReadsAs(o, read)

\* _write_store: open(..., "w") truncates, json.dump is flushed by close.
OpenStore(o) ==
  /\ opc[o] = "open"
  /\ file' = Torn
  /\ opc' = [opc EXCEPT ![o] = "write"]
  /\ UNCHANGED <<mode, now, jobs, job, copy, granted, acked, disturbed,
                 execution>>

\* The text goes to offset 0.  If another override has written since the
\* truncation and its text is longer, the tail stays and nothing parses.
WriteStore(o) ==
  /\ opc[o] = "write"
  /\ \/ file' = copy[o]
     \/ file # Torn /\ file' = Torn
  /\ acked' = [acked EXCEPT ![job[o].app] =
                 IF job[o].kind = "set" THEN job[o].until ELSE 0]
  /\ opc' = [opc EXCEPT ![o] = "idle"]
  /\ job' = [job EXCEPT ![o] = Nothing]
  /\ copy' = [copy EXCEPT ![o] = Empty]
  /\ excused' = excused \cup {e \in Executors : epc[e] = "act" /\ call[e].app = job[o].app}
  /\ UNCHANGED <<mode, now, jobs, granted, disturbed, epc, call, service, log>>

\* The process is killed, or opening or writing the file fails.
BreakOff(o) ==
  /\ opc[o] # "idle"
  /\ disturbed' = (disturbed \/ opc[o] = "write")
  /\ opc' = [opc EXCEPT ![o] = "idle"]
  /\ job' = [job EXCEPT ![o] = Nothing]
  /\ copy' = [copy EXCEPT ![o] = Empty]
  /\ UNCHANGED <<mode, now, file, jobs, granted, acked, execution>>

-----------------------------------------------------------------------------
(* The execution gate.                                                     *)

Begin(e) ==
  /\ epc[e] = "idle"
  /\ jobs + Begun < MaxWork
  /\ \E c \in Calls :
       /\ c.entry = "safe" => LegacyCalls /\ c.action # "unknown_index"
       /\ call' = [call EXCEPT ![e] = c]
       /\ epc' = [epc EXCEPT ![e] =
            IF c.action # "unknown_index" /\ c.entry = "gate" /\ file = Absent
            THEN "create" ELSE "decide"]
  /\ UNCHANGED <<mode, now, store, excused, service, log>>

\* AppOverrideManager.__init__: the file was not there when it looked.
CreateStore(e) ==
  /\ epc[e] = "create"
  /\ file' = Empty
  /\ epc' = [epc EXCEPT ![e] = "decide"]
  /\ disturbed' = (disturbed \/ jobs > 0)
  /\ UNCHANGED <<mode, now, jobs, opc, job, copy, granted, acked, call, excused,
                 service, log>>

\* The gates of execute_action, in their order.  A fresh ActionGovernance
\* records the action and blocks nothing, so there is no governance gate.
GateOrder == <<"illegal_action_index", "app_manual_freeze_override",
               "emergency_freeze_override", "illegal_action",
               "demo_mode_gate_blocked", "demo_safety_refused",
               "environment_safety_rules">>

\* A faulty gate: a confirmed freeze does not stop a restart.
BlocksNotRestart(c, gate) ==
  CASE gate = "app_manual_freeze_override" ->
         Frozen(c.app) /\ c.action \notin {"noop", "restart"}
    [] gate = "environment_safety_rules"   -> c.action \notin SafetyRules
    [] OTHER                               -> FALSE

Blocks(c, gate) ==
  CASE gate = "illegal_action_index"       -> c.action = "unknown_index"
    [] gate = "app_manual_freeze_override" -> Frozen(c.app) /\ c.action # "noop"
    [] gate = "emergency_freeze_override"  -> mode.emergency /\ c.action # "noop"
    [] gate = "illegal_action"             -> c.action \notin Actions
    [] gate = "demo_mode_gate_blocked"     ->
         mode.demo /\ c.source \notin {"rl_decision_layer", "rl_intake_gate"}
    [] gate = "demo_safety_refused"        -> mode.demo /\ c.action \notin DemoAllowed
    [] OTHER                               -> c.action \notin SafetyRules

\* execute_action, validate_and_execute: the first gate that refuses.
Refusal(c) ==
  LET blocking == {i \in DOMAIN GateOrder : Blocks(c, GateOrder[i])}
  IN IF blocking = {} THEN "none"
     ELSE GateOrder[CHOOSE i \in blocking : \A j \in blocking : i <= j]

\* execute_safe_action asks for the rules of the environment only.
Passes(e) ==
  IF call[e].entry = "gate" THEN Refusal(call[e]) = "none" ELSE call[e].action \in SafetyRules

\* The gate of the store is passed because it could not be read, and so are the others.
Unread(e) ==
  /\ call[e].entry = "gate"
  /\ \A i \in DOMAIN GateOrder :
       Blocks(call[e], GateOrder[i]) => GateOrder[i] = "app_manual_freeze_override"

\* The gates are passed, by what the store says now.
Check(e) ==
  /\ epc[e] = "decide"
  /\ \/ /\ Passes(e)
        /\ excused' = IF \E o \in Operators : opc[o] = "write"
                      THEN excused \cup {e} ELSE excused
     \/ /\ Unread(e)
        /\ excused' = excused \cup {e}
  /\ epc' = [epc EXCEPT ![e] = "act"]
  /\ UNCHANGED <<mode, now, store, call, service, log>>

\* _get_service_state.
Current(e, a, replicas) ==
  IF service[e][a] = Nothing
  THEN [replicas |-> replicas, restarts |-> 0, initial |-> replicas]
  ELSE service[e][a]

\* Zero replicas are read as one by the one handler and as two by the other.
Counted(s, action) ==
  IF s.replicas # 0 THEN s.replicas ELSE IF action = "scale_up" THEN 1 ELSE 2

\* A faulty guard-rail: one replica too many.
AppliesOverLimit(s, action, limit) ==
  CASE action = "scale_up"   -> Counted(s, action) <= limit
    [] action = "scale_down" -> Counted(s, action) > limit
    [] OTHER                 -> TRUE

\* The capacity guards of _scale_up_service and _scale_down_service.
Applies(s, action, limit) ==
  CASE action = "scale_up"   -> Counted(s, action) < limit
    [] action = "scale_down" -> Counted(s, action) > limit
    [] OTHER                 -> TRUE

\* _restart_service, _scale_up_service, _scale_down_service.
Changed(s, action) ==
  CASE action = "restart"    -> [s EXCEPT !.restarts = @ + 1]
    [] action = "scale_up"   -> [s EXCEPT !.replicas = Counted(s, action) + 1]
    [] action = "scale_down" -> [s EXCEPT !.replicas = Counted(s, action) - 1]
    [] OTHER                 -> s

Scaling == {"scale_up", "scale_down"}

\* noop and rollback touch no service.
Becomes(e, a, action, s) ==
  service' = IF action \in Scaling \cup {"restart"} THEN [service EXCEPT ![e][a] = s] ELSE service

Row(e, executed, success, reason, limit) ==
  [who |-> e, app |-> call[e].app, executed |-> executed, success |-> success,
   reason |-> reason,
   limit |-> IF executed \in Scaling /\ (success \/ reason = "exception") THEN limit ELSE 0]

Return(e, row) ==
  /\ log' = Append(log, row)
  /\ epc' = [epc EXCEPT ![e] = "idle"]
  /\ call' = [call EXCEPT ![e] = Nothing]
  /\ excused' = excused \ {e}
  /\ UNCHANGED <<mode, now, store>>

\* A refused call executes nothing; execute_safe_action calls it a success.
Refuse(e) ==
  /\ epc[e] = "decide"
  /\ \/ /\ call[e].entry = "gate" /\ Refusal(call[e]) # "none"
        /\ Return(e, Row(e, "noop", FALSE, Refusal(call[e]), 0))
     \/ /\ call[e].entry = "safe" /\ call[e].action \notin SafetyRules
        /\ Return(e, Row(e, "noop", TRUE, "unsafe_noop", 0))
  /\ UNCHANGED service

\* A faulty handler: the service changes although the handler reports that
\* its limit was reached.
ExecuteUnguarded(e) ==
  LET a == call[e].app
      action == call[e].action
  IN /\ epc[e] = "act"
     /\ \E replicas \in Replicas, limit \in Limits :
          LET s == Current(e, a, replicas)
          IN /\ Becomes(e, a, action, Changed(s, action))
             /\ Return(e, Row(e, action, Applies(s, action, limit), "none", limit))

\* An exception before anything is executed ends the call without a row.
Abandon(e) ==
  /\ epc[e] \in {"create", "decide"}
  /\ epc' = [epc EXCEPT ![e] = "idle"]
  /\ call' = [call EXCEPT ![e] = Nothing]
  /\ UNCHANGED <<mode, now, store, excused, service, log>>

\* The handler of the action runs.  A restart may time out (simulate_failure).
Execute(e) ==
  LET a == call[e].app
      action == call[e].action
  IN /\ epc[e] = "act"
     /\ \E replicas \in Replicas, limit \in Limits, works \in BOOLEAN :
          LET s    == Current(e, a, replicas)
              done == works /\ Applies(s, action, limit)
          IN /\ ~works => action = "restart"
             /\ Becomes(e, a, action, IF done THEN Changed(s, action) ELSE s)
             /\ Return(e, Row(e, action, done, "none", limit))

\* An exception, before the handler has changed anything (the context has no number where
\* it reads one) or after (the proof log is not written, which is caught, or the decision
\* log, which is not).
Raise(e) ==
  LET a == call[e].app
      action == call[e].action
  IN /\ epc[e] = "act"
     /\ \E replicas \in Replicas, limit \in Limits :
          LET s == Current(e, a, replicas)
          IN /\ \/ UNCHANGED service
                \/ Becomes(e, a, action, s)
                \/ Applies(s, action, limit) /\ Becomes(e, a, action, Changed(s, action))
             /\ Return(e, Row(e, action, FALSE, "exception", limit))

-----------------------------------------------------------------------------

OperatorStep(o) ==
  BeginOverride(o) \/ ReadStore(o) \/ OpenStore(o) \/ WriteStore(o) \/ BreakOff(o)
ExecutorStep(e) ==
  Begin(e) \/ CreateStore(e) \/ Refuse(e) \/ Abandon(e) \/ Check(e) \/ Execute(e)
  \/ Raise(e)

Next ==
  \/ Tick
  \/ \E o \in Operators : OperatorStep(o)
  \/ \E e \in Executors : ExecutorStep(e)

Spec == Init /\ [][Next]_vars

-----------------------------------------------------------------------------

TypeOK ==
  /\ mode \in Modes
  /\ now \in Time
  /\ file \in [Apps -> Entry \cup {Nothing}] \cup {Torn, Absent}
  /\ jobs \in 0..MaxWork
  /\ opc \in [Operators -> {"idle", "read", "open", "write"}]
  /\ job \in [Operators -> Jobs \cup {Nothing}]
  /\ copy \in [Operators -> [Apps -> Entry \cup {Nothing}]]
  /\ granted \in [Apps -> Ends]
  /\ acked \in [Apps -> Ends]
  /\ disturbed \in BOOLEAN
  /\ epc \in [Executors -> {"idle", "create", "decide", "act"}]
  /\ excused \subseteq Executors
  /\ call \in [Executors -> Calls \cup {Nothing}]
  /\ service \in [Executors -> [Apps -> Service \cup {Nothing}]]
  /\ log \in Seq(Rows)

Successes(e, a, action) ==
  Cardinality({i \in DOMAIN log :
                 /\ log[i].who = e /\ log[i].app = a /\ log[i].success
                 /\ log[i].executed = action})

\* Calls that may have changed a service, though an exception ended them.
Doubts(e, a, action) ==
  Cardinality({i \in DOMAIN log :
                 /\ log[i].who = e /\ log[i].app = a /\ log[i].reason = "exception"
                 /\ log[i].executed = action})

\* The limits of the calls that changed, or may have changed, a service.
LimitsOf(e, a, action) ==
  {log[i].limit : i \in {j \in DOMAIN log :
                    /\ log[j].who = e /\ log[j].app = a /\ log[j].executed = action
                    /\ log[j].success \/ log[j].reason = "exception"}}

\* The decision log accounts for the services: what an executor believes of
\* an app is what its successful rows add up to, give or take the calls that an
\* exception ended, so a refused call, a handler that hit its limit and a restart
\* that timed out changed nothing.  Of the replicas this holds as long as no call
\* allowed less than one.
LogAccountsForServices ==
  \A e \in Executors, a \in Apps :
    LET s == service[e][a]
        up == Successes(e, a, "scale_up")
        down == Successes(e, a, "scale_down")
    IN IF s = Nothing THEN \A action \in Scaling \cup {"restart"} : Successes(e, a, action) = 0
       ELSE /\ s.restarts >= Successes(e, a, "restart")
            /\ s.restarts <= Successes(e, a, "restart") + Doubts(e, a, "restart")
            /\ \/ \E limit \in LimitsOf(e, a, "scale_down") : limit < 1
               \/ /\ s.replicas + down + Doubts(e, a, "scale_down") >= s.initial + up
                  /\ s.replicas + down <= s.initial + up + Doubts(e, a, "scale_up")

\* The guard-rails hold over any sequence of calls, whose limits differ: an app has no more
\* replicas than it began with or than a call to scale up allowed, and no fewer than it began
\* with or than a call to scale down allowed.
ReplicasWithinLimits ==
  \A e \in Executors, a \in Apps :
    LET s == service[e][a]
    IN s # Nothing =>
         /\ \/ s.replicas <= s.initial
            \/ \E limit \in LimitsOf(e, a, "scale_up") : s.replicas <= limit
         /\ \/ s.replicas >= s.initial
            \/ \E limit \in LimitsOf(e, a, "scale_down") : s.replicas >= limit

\* Freezes expire (README.md:15 "with expiry"): whatever overrides collide,
\* the store never holds a freeze that ends later than an operator asked.
FreezesExpire ==
  file \in [Apps -> Entry \cup {Nothing}] =>
    \A a \in Apps : (file[a] # Nothing /\ file[a].enabled) => file[a].until <= granted[a]

\* As long as overrides come one at a time, none fails to read the store and none is broken
\* off between truncating and writing it, the store holds, between them, every freeze that
\* was confirmed and neither cleared nor expired since.
ConfirmedFreezesAreStored ==
  (~disturbed /\ Quiet) => \A a \in Apps : acked[a] > now => Frozen(a)

\* And then a call of the gate for a frozen app executes nothing, whichever executor
\* makes it and whichever action it asks for, unless it had read the store before the
\* freeze was confirmed, while the store was being written, or in vain: what has passed
\* is not checked again.  execute_safe_action does not read the store.
FrozenAppsAreLeftAlone ==
  [][\A e \in Executors :
       (/\ log' # log /\ log'[Len(log')].who = e /\ call[e].entry = "gate"
        /\ ~disturbed /\ Quiet /\ acked[call[e].app] > now)
         => log'[Len(log')].executed = "noop" \/ e \in excused]_vars

\* The executor's view of its services, over any sequence of calls.
ServicesAreAccountedFor == TypeOK /\ LogAccountsForServices /\ ReplicasWithinLimits

\* The store neither prolongs a freeze nor, undisturbed, loses one.
FreezesAreKept == FreezesExpire /\ ConfirmedFreezesAreStored

=============================================================================
