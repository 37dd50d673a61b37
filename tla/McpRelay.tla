------------------------------- MODULE McpRelay -------------------------------
(***************************************************************************)
(* The relay between the sovereign bus and MCP agents: the bridge          *)
(* (core/mcp_bridge.py), the adapter (core/mcp_adapter.py) over the        *)
(* manager's message file (core/mcp_manager.py), and the buses they use    *)
(* (core/sovereign_bus.py, core/event_bus.py).                             *)
(*                                                                         *)
(* A run is one execution of _local_simulation.py.  With Redis each        *)
(* subscription has a thread of its own beside the main thread; without,   *)
(* events reach the subscribers of their own process only.  Everybody      *)
(* changes the three JSON files by reading all, truncating and writing     *)
(* all, without a lock; what does not parse is read as empty.  Truncating  *)
(* and writing are one step here: what others may find in between is in    *)
(* Found, Written and End.  The files are there from the start.            *)
(***************************************************************************)
EXTENDS Naturals, Sequences, SequencesExt, FiniteSets

CONSTANTS
  Runs,
  InboxItems,      \* messages MCP agents put into the bridge's inbox
  Mail,            \* messages MCP agents send to the adapter
  Relayed,         \* of these: those whose event type is subscribed to
  RedisSubscribers,   \* bound: the subscribers whose Redis threads run
  Broken,          \* the content of a file that does not parse
  MaxWithRedis, MaxWithout,   \* bounds: messages of agents and events of learning
  MaxKills         \* bound: runs that are killed

\* What _ensure_file_exists writes in the place of messages.
Reset == "reset"

\* A run stands for the event rl.learned it publishes.
Items == InboxItems \cup Mail \cup Runs

Files == {"inbox", "outbox", "messages"}

\* Main threads, subscription threads, and an MCP agent per message.
Threads == RedisSubscribers \X Runs
Actors  == Runs \cup Threads \cup InboxItems \cup Mail

ASSUME RelayAssumption ==
  /\ RedisSubscribers \subseteq {"bridge", "adapter"}
  /\ Runs \cap (InboxItems \cup Mail) = {} /\ InboxItems \cap Mail = {}
  /\ Threads \cap Items = {} /\ Reset \notin Items
  /\ Broken \notin Seq([item : Items, processed : BOOLEAN])
  /\ Relayed \subseteq InboxItems \cup Mail
  /\ MaxWithRedis \in Nat /\ MaxWithout \in Nat /\ MaxKills \in Nat

VARIABLES
  redis,       \* is Redis there
  file,        \* per file: its messages
  todo,        \* per actor: the appends it still has to make
  phase, copy, \* per actor: where it is in the first of them, what it has read
  pc,          \* per run: where it is
  batch,       \* per run: mail that is due and not yet published
  flags,       \* per run: the inbox as it has read it and will write it back
  last_check,  \* per run: the mail stamped before its last check
  sent,        \* messages that agents have begun to send, and events of learning
  stamped,     \* mail that has its timestamp
  kills,
  published,   \* per item: how often it was published on the bus
  appended,    \* ghost. Per file: the appends that were made, until two overlap
  crossed,     \* ghost. Files that two changes overlapped on, or a kill broke
  repeated,    \* ghost. Has a run been killed, has one left its inbox before the flags were
               \* written, or have two been up at once?
  in_time      \* ghost. Per run: mail that was there when it looked

files  == <<file, todo, phase, copy>>
ghosts == <<appended, crossed, repeated, in_time>>
vars   == <<redis, files, pc, batch, flags, last_check, sent, stamped, kills, published, ghosts>>

Up(r)     == pc[r] \notin {"off", "done", "killed"}
Row(i) == [item |-> i, processed |-> FALSE]
Content(f) == IF file[f] = Broken THEN <<>> ELSE file[f]

Init ==
  /\ redis \in BOOLEAN
  /\ file = [f \in Files |-> <<>>]
  /\ todo = [x \in Actors |-> <<>>] /\ phase = [x \in Actors |-> "idle"]
  /\ copy = [x \in Actors |-> <<>>]
  /\ pc = [r \in Runs |-> "off"]
  /\ batch = [r \in Runs |-> {}] /\ flags = [r \in Runs |-> <<>>]
  /\ last_check = [r \in Runs |-> {}] /\ sent = {} /\ stamped = {}
  /\ kills = 0
  /\ published = [i \in Items |-> 0]
  /\ appended = [f \in Files |-> <<>>] /\ crossed = {} /\ repeated = FALSE
  /\ in_time = [r \in Runs |-> {}]

-----------------------------------------------------------------------------
(* A file is changed: _forward_to_mcp of the bridge, send_message of the   *)
(* manager, add_inbox_message.                                             *)

Target(x) == Head(todo[x]).file

\* Is somebody else between the reading and the writing of this file?
Busy(f, x) ==
  \/ \E y \in Actors \ {x} : phase[y] # "idle" /\ Target(y) = f
  \/ f = "inbox" /\ \E r \in Runs \ {x} : pc[r] = "inbox"

Cross(S) ==
  /\ crossed' = crossed \cup S
  /\ appended' = [f \in Files |-> IF f \in S THEN <<>> ELSE appended[f]]

\* What a reader may find: an empty list too, while somebody is writing.
Found(f, x) == {Content(f)} \cup (IF Busy(f, x) THEN {<<>>} ELSE {})

ReadFile(x) ==
  /\ todo[x] # <<>> /\ phase[x] = "idle"
  /\ \E rows \in Found(Target(x), x) : copy' = [copy EXCEPT ![x] = rows]
  /\ phase' = [phase EXCEPT ![x] = "write"]
  /\ stamped' = IF x \in Mail THEN stamped \cup {x} ELSE stamped
  /\ Cross(IF Busy(Target(x), x) THEN {Target(x)} ELSE {})
  /\ UNCHANGED <<redis, file, todo, pc, batch, flags, last_check, sent, kills, published,
                 repeated, in_time>>

\* Faulty variant: the file is replaced by the new message.
WithAppendedOnly(old, i) == <<Row(i)>>

\* The last 100 or 1000 messages are kept, more than a run makes.
WithAppended(old, i) == IF i = Reset THEN <<>> ELSE Append(old, Row(i))

\* The tail of a longer text that another writer leaves makes the file unreadable.
Written(f, x, new) == {new} \cup (IF Busy(f, x) THEN {Broken} ELSE {})

WriteFile(x) ==
  LET op == Head(todo[x])
      new == WithAppended(copy[x], op.item)
  IN /\ phase[x] = "write"
     /\ \E content \in Written(op.file, x, new) : file' = [file EXCEPT ![op.file] = content]
     /\ appended' = [appended EXCEPT ![op.file] =
                       IF op.file \in crossed THEN @ ELSE Append(@, op.item)]
     /\ todo' = [todo EXCEPT ![x] = Tail(@)]
     /\ phase' = [phase EXCEPT ![x] = "idle"] /\ copy' = [copy EXCEPT ![x] = <<>>]
     /\ UNCHANGED <<redis, pc, batch, flags, last_check, sent, stamped, kills, published,
                    crossed, repeated, in_time>>

Send(i) ==
  /\ Cardinality(sent) < IF redis THEN MaxWithRedis ELSE MaxWithout
  /\ sent' = sent \cup {i}

\* An MCP agent adds a message, once.
AgentSends(i) ==
  /\ i \in InboxItems \cup Mail
  /\ i \notin sent /\ Send(i)
  /\ todo' = [todo EXCEPT ![i] =
       <<[file |-> IF i \in Mail THEN "messages" ELSE "inbox", item |-> i]>>]
  /\ UNCHANGED <<redis, file, phase, copy, pc, batch, flags, last_check, stamped, kills,
                 published, ghosts>>

-----------------------------------------------------------------------------
(* A run.                                                                  *)

Idle(r) == todo[r] = <<>>

Forwards(x, i) == CASE x \in Runs -> <<[file |-> "outbox", item |-> i],
                                       [file |-> "messages", item |-> i]>>
                    [] x \in Threads -> <<[file |-> IF x[1] = "bridge" THEN "outbox"
                                                    ELSE "messages", item |-> i]>>

\* SovereignBus.publish: over Redis to the subscription threads of every process that is
\* up, and then to the subscribers of this one, the bridge before the adapter.
Publish(r, i) ==
  /\ published' = [published EXCEPT ![i] = @ + 1]
  /\ todo' = [x \in Actors |->
       IF i \in Relayed \cup Runs /\ (x = r \/ (redis /\ x \in Threads /\ Up(x[2])))
       THEN todo[x] \o Forwards(x, i) ELSE todo[x]]

\* _ensure_file_exists: messages that do not parse are replaced by none.
Repair(r) ==
  /\ pc[r] = "off" /\ (file["messages"] = Broken \/ Busy("messages", r))
  /\ pc' = [pc EXCEPT ![r] = "repair"]
  /\ todo' = [todo EXCEPT ![r] = <<[file |-> "messages", item |-> Reset]>>]
  /\ phase' = [phase EXCEPT ![r] = "write"]
  /\ Cross(IF Busy("messages", r) THEN {"messages"} ELSE {})
  /\ repeated' = (repeated \/ \E q \in Runs : Up(q))
  /\ UNCHANGED <<redis, file, copy, batch, flags, last_check, sent, stamped, kills,
                 published, in_time>>

\* The bridge and the adapter subscribe; the adapter starts to look from here on.
Start(r) ==
  /\ (pc[r] = "off" /\ file["messages"] # Broken) \/ (pc[r] = "repair" /\ Idle(r))
  /\ pc' = [pc EXCEPT ![r] = "up"]
  /\ last_check' = [last_check EXCEPT ![r] = stamped]
  /\ repeated' = (repeated \/ \E q \in Runs \ {r} : Up(q))
  /\ UNCHANGED <<redis, files, batch, flags, sent, stamped, kills, published, appended,
                 crossed, in_time>>

\* The simulation learns, or not, and goes on to the inbox.
Learn(r) ==
  /\ pc[r] = "up" /\ Idle(r)
  /\ pc' = [pc EXCEPT ![r] = "learned"]
  /\ (Send(r) /\ Publish(r, r)) \/ UNCHANGED <<sent, published, todo>>
  /\ UNCHANGED <<redis, file, phase, copy, batch, flags, last_check, stamped, kills, ghosts>>

\* Faulty variant: the messages are flagged when they are loaded.
MessagesFlagged == [k \in DOMAIN file["inbox"] |-> [file["inbox"][k] EXCEPT !.processed = TRUE]]

Messages == file["inbox"]

\* process_mcp_inbox: an inbox that does not parse, also as somebody is writing it, is left
\* alone.
ReadInbox(r) ==
  /\ pc[r] = "learned" /\ Idle(r)
  /\ \/ /\ file["inbox"] = Broken \/ Busy("inbox", r)
        /\ pc' = [pc EXCEPT ![r] = "flagged"]
        /\ UNCHANGED <<flags, crossed, appended>>
     \/ /\ file["inbox"] # Broken
        /\ pc' = [pc EXCEPT ![r] = "inbox"]
        /\ flags' = [flags EXCEPT ![r] = Messages]
        /\ Cross(IF Busy("inbox", r) THEN {"inbox"} ELSE {})
  /\ UNCHANGED <<redis, files, batch, last_check, sent, stamped, kills, published,
                 repeated, in_time>>

\* What the loop over the messages has not come to yet.
Pending(r) == {k \in DOMAIN flags[r] : ~flags[r][k].processed}

\* Faulty variant: the flag is not set.
FlaggedNot(m) == m

Flagged(m) == [m EXCEPT !.processed = TRUE]

\* The next message is published, and flagged when the publication has returned.
PublishInbox(r) ==
  /\ pc[r] = "inbox" /\ Idle(r)
  /\ \E k \in Pending(r) :
       /\ \A j \in Pending(r) : k <= j
       /\ Publish(r, flags[r][k].item)
       /\ flags' = [flags EXCEPT ![r][k] = Flagged(@)]
  /\ UNCHANGED <<redis, file, phase, copy, pc, batch, last_check, sent, stamped, kills, ghosts>>

WriteFlags(r) ==
  /\ pc[r] = "inbox" /\ Pending(r) = {} /\ Idle(r)
  /\ \E content \in Written("inbox", r, flags[r]) : file' = [file EXCEPT !["inbox"] = content]
  /\ pc' = [pc EXCEPT ![r] = "flagged"]
  /\ flags' = [flags EXCEPT ![r] = <<>>]
  /\ UNCHANGED <<redis, todo, phase, copy, batch, last_check, sent, stamped, kills,
                 published, ghosts>>

\* Threads end with their process: a file they were about to write, or had truncated, is
\* as it was or broken.
End(gone, open) ==
  /\ todo' = [x \in Actors |-> IF x \in gone THEN <<>> ELSE todo[x]]
  /\ phase' = [x \in Actors |-> IF x \in gone THEN "idle" ELSE phase[x]]
  /\ copy' = [x \in Actors |-> IF x \in gone THEN <<>> ELSE copy[x]]
  /\ \E broken \in SUBSET open :
       /\ file' = [f \in Files |-> IF f \in broken THEN Broken ELSE file[f]]
       /\ Cross(broken)

\* Its latest publication has not come to its own subscribers, or needs not.
Unheard(r) == phase[r] = "idle" /\ Len(todo[r]) \in {0, 2}

\* An exception ends the loop before the flags are written: a message is not of the shape
\* that is expected, or the publication of one raises when Redis has it, before it comes to
\* the subscribers of the process.  Or the writing of the flags fails.  The run goes on.
LeaveInbox(r) ==
  /\ pc[r] = "inbox" /\ Unheard(r)
  /\ pc' = [pc EXCEPT ![r] = "flagged"]
  /\ flags' = [flags EXCEPT ![r] = <<>>]
  /\ repeated' = TRUE
  /\ End({r}, IF Pending(r) = {} THEN {"inbox"} ELSE {})
  /\ UNCHANGED <<redis, batch, last_check, sent, stamped, kills, published, in_time>>

\* Faulty variant: the adapter's clock is reset when it begins to look.
NewMailSinceNow(r) == {}

\* read_messages for the adapter, of which those are new that were stamped after the
\* last check.  A copy of mail that was forwarded to agents is taken for the mail.
NewMail(r) ==
  {i \in Mail : i \notin last_check[r] /\ i \in {m.item : m \in ToSet(Content("messages"))}}

\* There is none while somebody is writing.
ReadMail(r) ==
  /\ pc[r] = "flagged" /\ Idle(r)
  /\ pc' = [pc EXCEPT ![r] = "mail"]
  /\ \E due \in {NewMail(r)} \cup (IF Busy("messages", r) THEN {{}} ELSE {}) :
       batch' = [batch EXCEPT ![r] = due]
  /\ in_time' = [in_time EXCEPT ![r] =
       IF "messages" \in crossed \/ Busy("messages", r) THEN {}
       ELSE (ToSet(appended["messages"]) \cap Mail) \ last_check[r]]
  /\ UNCHANGED <<redis, files, flags, last_check, sent, stamped, kills, published, appended,
                 crossed, repeated>>

PublishMail(r) ==
  /\ pc[r] = "mail" /\ Idle(r)
  /\ \E i \in batch[r] : Publish(r, i) /\ batch' = [batch EXCEPT ![r] = @ \ {i}]
  /\ UNCHANGED <<redis, file, phase, copy, pc, flags, last_check, sent, stamped, kills, ghosts>>

\* time.time(): the mail that has a timestamp by now.
Checked == stamped

\* last_check moves to now; the simulation is at its end, and so are its threads.
Check(r) ==
  /\ pc[r] = "mail" /\ batch[r] = {} /\ Idle(r)
  /\ last_check' = [last_check EXCEPT ![r] = Checked]
  /\ pc' = [pc EXCEPT ![r] = "done"]
  /\ LET gone == {x \in Threads : x[2] = r}
     IN End(gone, {Target(x) : x \in {y \in gone : phase[y] = "write"}})
  /\ UNCHANGED <<redis, batch, flags, sent, stamped, kills, published,
                 repeated, in_time>>

\* A run ends early with its threads: a file they have open stays truncated.
Die(r) ==
  /\ pc' = [pc EXCEPT ![r] = "killed"]
  /\ LET gone == {r} \cup {x \in Threads : x[2] = r}
     IN End(gone, {Target(x) : x \in {y \in gone : phase[y] = "write"}}
                  \cup (IF pc[r] = "inbox" THEN {"inbox"} ELSE {}))
  /\ batch' = [batch EXCEPT ![r] = {}] /\ flags' = [flags EXCEPT ![r] = <<>>]
  /\ UNCHANGED <<redis, last_check, sent, stamped, published, in_time>>

Kill(r) ==
  /\ Up(r) /\ kills < MaxKills /\ kills' = kills + 1
  /\ repeated' = TRUE
  /\ Die(r)

\* Nothing catches what the simulation or the adapter's pass over the mail raises.
Raise(r) ==
  /\ pc[r] \in {"up", "learned", "mail"} /\ Unheard(r)
  /\ Die(r)
  /\ UNCHANGED <<kills, repeated>>

-----------------------------------------------------------------------------

Next ==
  \/ \E x \in Actors : ReadFile(x) \/ WriteFile(x) \/ AgentSends(x)
  \/ \E r \in Runs :
       \/ Repair(r) \/ Start(r) \/ Learn(r) \/ ReadInbox(r) \/ PublishInbox(r)
       \/ WriteFlags(r) \/ ReadMail(r) \/ PublishMail(r) \/ Check(r) \/ Kill(r)
       \/ LeaveInbox(r) \/ Raise(r)

Spec == Init /\ [][Next]_vars

-----------------------------------------------------------------------------

Rows == Seq([item : Items, processed : BOOLEAN])

TypeOK ==
  /\ redis \in BOOLEAN
  /\ file \in [Files -> Rows \cup {Broken}]
  /\ todo \in [Actors -> Seq([file : Files, item : Items \cup {Reset}])]
  /\ phase \in [Actors -> {"idle", "write"}]
  /\ copy \in [Actors -> Rows]
  /\ pc \in [Runs -> {"off", "repair", "up", "learned", "inbox", "flagged", "mail",
                      "done", "killed"}]
  /\ batch \in [Runs -> SUBSET Mail] /\ flags \in [Runs -> Rows]
  /\ last_check \in [Runs -> SUBSET Mail] /\ sent \subseteq Items /\ stamped \subseteq Mail
  /\ kills \in 0..MaxKills
  /\ published \in [Items -> Nat]
  /\ appended \in [Files -> Seq(Items)]
  /\ crossed \subseteq Files /\ repeated \in BOOLEAN
  /\ in_time \in [Runs -> SUBSET Mail]

\* A message of the inbox that is flagged as processed has been published on the bus,
\* whatever overlapped with the writing of the flags and whatever was killed.
ProcessedMeansPublished ==
  file["inbox"] # Broken =>
    \A m \in ToSet(file["inbox"]) : m.processed => published[m.item] > 0

\* A message comes to the bus a second time only if a run was killed between publishing
\* and flagging it, if an exception made it leave the inbox there, if two runs read it, or
\* if an overlapping write of the inbox took its flag back.
RepetitionsHaveACause ==
  \A i \in Items : published[i] > 1 => repeated \/ "inbox" \in crossed

\* Appends that do not overlap lose nothing: as long as no two changes of a file met and
\* no writer was killed, it holds every message that was ever appended, in order.
LoneAppendsAreKept ==
  \A f \in Files \ crossed :
    file[f] # Broken => [k \in 1..Len(file[f]) |-> file[f][k].item] = appended[f]

\* Mail that is in the file when the adapter of a run looks, while nobody writes it, and was
\* stamped after the run had started, is on the bus when the run ends; a later run would not
\* look at it again.
MailInTimeIsForwarded ==
  \A r \in Runs : pc[r] = "done" => \A i \in in_time[r] : published[i] > 0

\* The relay between files and bus: the inbox is published at least once, and more often
\* only for a reason; what is appended is kept, and what is kept and due is forwarded.
RelayIsSound ==
  /\ TypeOK /\ ProcessedMeansPublished /\ RepetitionsHaveACause
  /\ LoneAppendsAreKept /\ MailInTimeIsForwarded

=============================================================================
