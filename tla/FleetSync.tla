----------------------------- MODULE FleetSync -----------------------------
(***************************************************************************)
(* How the controller (lib/vincula-fleet.py) copies the audit log of one   *)
(* logical node into fleet.db, and what happens to its cursor when the     *)
(* node is retired or moved to another machine.                            *)
(*                                                                         *)
(* The node is served by one host after another.  Each host keeps an audit *)
(* log as AuditLog describes it (Accountd implements that): its steps here *)
(* are AuditLog's Append and Prune.  `vcl audit export` on the host reads  *)
(* the two meta counters and the rows in three separate statements.        *)
(*                                                                         *)
(* Everything the controller does to the node runs under fleet_op_lock, so *)
(* it is one sequential process here.  fleet.db is in autocommit mode but  *)
(* for explicit transactions: each commit is a step, and the process may   *)
(* die between any two.                                                    *)
(*                                                                         *)
(* A definition whose comment starts with "Mutant of" is not part of the   *)
(* specification (see Accountd).                                           *)
(***************************************************************************)
EXTENDS Integers, FiniteSets, FiniteSetsExt, Functions

CONSTANTS
  Host,        \* machines that may serve the node
  First,       \* the machine that serves it initially
  EventId,     \* event_id: rows of `connections` that get closed (the bound)
  FromBackup   \* does the operator use node replace --from-backup?

ASSUME ConstantsAssumption ==
  /\ IsFiniteSet(EventId)
  /\ First \in Host /\ {"none", "foreign"} \cap Host = {}
  /\ FromBackup \in BOOLEAN

VARIABLES
  node,     \* per host: is Vincula installed, and its audit log
  reg,      \* fleet.json: the host of the node
  life,     \* fleet.json: the status of the node
  db,       \* fleet.db: events, cursor and instance history of the node
  op,       \* the command the controller runs
  pc,       \* where it is in it
  after,    \* the cursor it read
  answer,   \* what the export has read so far
  image,    \* the backup that is being restored
  target,   \* the host it was restored on
  kept,     \* an older backup of the node the operator has at hand
  owed,     \* history: last export_seq when the command began
  told,     \* history: cursor after the last sync that began from zero
  stale     \* history: the host was restored from before the cursor

command == <<op, pc, after, answer, image, target>>
history == <<owed, told, stale>>
vars    == <<node, reg, life, db, command, kept, history>>

None    == "none"
Foreign == "foreign"   \* an instance of another node
Nothing == [s \in {} |-> s]

(* A closed connection: its event_id, and the machine that closed it.      *)
Event == [id : EventId, origin : Host]

(* A host without Vincula; `free` are the event ids it has not closed yet. *)
(* A backup has the same fields.                                           *)
Absent == [up |-> FALSE, log |-> Nothing, high |-> 0, pruned |-> 0, free |-> {}]

NoAnswer == [max |-> 0, rows |-> Nothing]

Log(h) == INSTANCE AuditLog WITH
            log <- node[h].log, high <- node[h].high, pruned <- node[h].pruned

-----------------------------------------------------------------------------
(***************************************************************************)
(* The hosts: connections close, retention deletes.                        *)
(***************************************************************************)
HostCloses(h, id) ==
  /\ node[h].up
  /\ id \in node[h].free
  /\ LET s == node[h].high + 1
         e == [id |-> id, origin |-> h]
     IN  node' = [node EXCEPT
           ![h].log  = [t \in DOMAIN @ \cup {s} |-> IF t = s THEN e ELSE @[t]],
           ![h].high = s,
           ![h].free = @ \ {id}]
  /\ Log(h)!Append
  /\ UNCHANGED <<reg, life, db, command, kept, history>>

HostExpires(h, s) ==
  /\ node[h].up
  /\ s \in DOMAIN node[h].log
  /\ node' = [node EXCEPT
       ![h].log    = Restrict(@, DOMAIN @ \ {s}),
       ![h].pruned = Max({@, s})]
  /\ Log(h)!Prune
  /\ UNCHANGED <<reg, life, db, command, kept, history>>

-----------------------------------------------------------------------------
(***************************************************************************)
(* Writes to fleet.db.                                                     *)
(***************************************************************************)
NewCursor == [seq |-> 0, inst |-> None, kind |-> "export_seq", status |-> "ok"]

(* mark_cursor_status: the position stays.                                 *)
Marked(inst, st) == [db EXCEPT !.cursor.inst = inst, !.cursor.status = st]

(* retire_active_instance and insert_instance.                             *)
Retired(past) == [h \in Host |-> IF past[h] = "active" THEN "retired" ELSE past[h]]
Inserted(past, h) == [past EXCEPT ![h] = "active"]

(* _record_instance_db_pending: both, in the transaction of sync --full.   *)
Recorded(past, h) == IF past[h] = None THEN Inserted(Retired(past), h) ELSE past

(* Mutant of Upserted: INSERT OR IGNORE.                                   *)
InsertedOrIgnored(events, rows) ==
  [id \in DOMAIN events \cup {rows[s].id : s \in DOMAIN rows} |->
     IF id \in DOMAIN events
       THEN events[id]
       ELSE LET s == CHOOSE s \in DOMAIN rows : rows[s].id = id
            IN  [seq |-> s, origin |-> rows[s].origin]]

(* Mutant of Upserted: the events of the node are replaced, as its users   *)
(* are in user_snapshot.                                                   *)
Replaced(events, rows) ==
  [id \in {rows[s].id : s \in DOMAIN rows} |->
     LET s == CHOOSE s \in DOMAIN rows : rows[s].id = id
     IN  [seq |-> s, origin |-> rows[s].origin]]

(* INSERT ... ON CONFLICT(node_id, event_id) DO UPDATE.                    *)
Upserted(events, rows) ==
  [id \in DOMAIN events \cup {rows[s].id : s \in DOMAIN rows} |->
     IF \E s \in DOMAIN rows : rows[s].id = id
       THEN LET s == CHOOSE s \in DOMAIN rows : rows[s].id = id
            IN  [seq |-> s, origin |-> rows[s].origin]
       ELSE events[id]]

NextCursor(rows) == IF rows = Nothing THEN after ELSE Max(DOMAIN rows)

-----------------------------------------------------------------------------
(***************************************************************************)
(* sync, sync --full, and the final sync of retire and replace.            *)
(***************************************************************************)
Idle ==
  /\ pc' = "idle" /\ op' = None
  /\ after' = 0 /\ answer' = NoAnswer
  /\ image' = Absent /\ target' = None

Begin(o) ==
  /\ pc = "idle"
  /\ life = "active"
  /\ o # "full" => db.cursor.kind = "export_seq"   \* CURSOR_PROTOCOL_MISMATCH
  /\ op' = o
  /\ after' = db.cursor.seq
  /\ pc' = "identity"
  /\ owed' = node[reg].high
  /\ UNCHANGED <<node, reg, life, db, answer, image, target, kept, told, stale>>

(* reseed_node_local, then a sync from zero.                               *)
Reseed ==
  /\ pc = "idle"
  /\ life = "active"
  /\ db' = [db EXCEPT !.events = Nothing, !.cursor = NewCursor]
  /\ op' = "sync"
  /\ after' = 0
  /\ pc' = "identity"
  /\ owed' = node[reg].high
  /\ told' = 0
  /\ stale' = FALSE
  /\ UNCHANGED <<node, reg, life, answer, image, target, kept>>

(* No answer, or that of another node, whose instance sync_one_node writes *)
(* into the cursor it marks.  sync --full writes nothing; retire and       *)
(* replace give up on an identity request of their own before they sync.   *)
IdentityFails ==
  /\ pc = "identity"
  /\ \/ op # "full" /\ \E inst \in {db.cursor.inst, Foreign} : db' = Marked(inst, "error")
     \/ op # "sync" /\ db' = db
  /\ Idle
  /\ UNCHANGED <<node, reg, life, kept, history>>

(* The host answers.  record_instance: on first sight of its instance, the *)
(* previous one is retired, in a commit of its own.                        *)
IdentityOK ==
  /\ pc = "identity"
  /\ IF op # "full" /\ db.past[reg] = None
       THEN /\ db' = [db EXCEPT !.past = Retired(@)]
            /\ pc' = "record"
       ELSE /\ db' = db
            /\ pc' = "max"
  /\ UNCHANGED <<node, reg, life, op, after, answer, image, target, kept, history>>

RecordInstance ==
  /\ pc = "record"
  /\ db' = [db EXCEPT !.past = Inserted(@, reg)]
  /\ pc' = "max"
  /\ UNCHANGED <<node, reg, life, op, after, answer, image, target, kept, history>>

(* export_after, statement by statement.                                   *)
ReadMax ==
  /\ pc = "max"
  /\ answer' = [answer EXCEPT !.max = node[reg].high]
  /\ pc' = "pruned"
  /\ UNCHANGED <<node, reg, life, db, op, after, image, target, kept, history>>

Expired(a, mark) == a > 0 /\ a < mark
Ahead(a, max)    == a > 0 /\ a > max

ReadPruned ==
  /\ pc = "pruned"
  /\ ~ Expired(after, node[reg].pruned)
  /\ ~ Ahead(after, answer.max)
  /\ pc' = "rows"
  /\ UNCHANGED <<node, reg, life, db, op, after, answer, image, target, kept, history>>

(* CURSOR_EXPIRED or CURSOR_AHEAD.                                         *)
Refused ==
  /\ pc = "pruned"
  /\ Expired(after, node[reg].pruned) \/ Ahead(after, answer.max)
  /\ db' = IF op = "full"
             THEN db
             ELSE Marked(reg, IF Expired(after, node[reg].pruned) THEN "expired" ELSE "error")
  /\ Idle
  /\ UNCHANGED <<node, reg, life, kept, history>>

(* Mutant of ReadRows: the bound is off by one.                            *)
ReadRowsBeyond ==
  /\ pc = "rows"
  /\ answer' = [answer EXCEPT
       !.rows = Restrict(node[reg].log, {s \in DOMAIN node[reg].log : s > after + 1})]
  /\ pc' = "import"
  /\ UNCHANGED <<node, reg, life, db, op, after, image, target, kept, history>>

ReadRows ==
  /\ pc = "rows"
  /\ answer' = [answer EXCEPT
       !.rows = Restrict(node[reg].log, {s \in DOMAIN node[reg].log : s > after})]
  /\ pc' = "import"
  /\ UNCHANGED <<node, reg, life, db, op, after, image, target, kept, history>>

(* validate_export_batch: rows that closed after max was read are refused. *)
Valid == \A s \in DOMAIN answer.rows : s <= answer.max

(* import_audit_batch: rows and cursor in one transaction.                 *)
Import ==
  /\ pc = "import"
  /\ Valid
  /\ db' = [events |-> Upserted(db.events, answer.rows),
            cursor |-> [seq |-> NextCursor(answer.rows), inst |-> reg,
                        kind |-> "export_seq", status |-> "ok"],
            past   |-> IF op = "full" THEN Recorded(db.past, reg) ELSE db.past]
  /\ told' = IF after = 0 THEN NextCursor(answer.rows) ELSE told
  /\ IF op \in {"sync", "full"}
       THEN Idle
       ELSE /\ pc' = IF op = "retire" THEN "retire" ELSE "backup"
            /\ answer' = NoAnswer
            /\ UNCHANGED <<op, after, image, target>>
  /\ UNCHANGED <<node, reg, life, kept, owed, stale>>

(* Mutant of SyncFails: retire and replace go on all the same.             *)
SyncFailsIgnored ==
  /\ pc \in {"max", "pruned", "rows", "import"}
  /\ db' = IF op = "full" THEN db ELSE Marked(reg, "error")
  /\ IF op \in {"sync", "full"}
       THEN Idle
       ELSE /\ pc' = IF op = "retire" THEN "retire" ELSE "backup"
            /\ answer' = NoAnswer
            /\ UNCHANGED <<op, after, image, target>>
  /\ UNCHANGED <<node, reg, life, kept, history>>

(* ssh fails or times out, the answer is cut or invalid, the import rolls  *)
(* back.                                                                   *)
SyncFails ==
  /\ pc \in {"max", "pruned", "rows", "import"}
  /\ db' = IF op = "full" THEN db ELSE Marked(reg, "error")
  /\ Idle
  /\ UNCHANGED <<node, reg, life, kept, history>>

(* Everything else that ends a command early, and the death of the process *)
(* at any point: an open transaction is rolled back.                       *)
Abort ==
  /\ pc # "idle"
  /\ Idle
  /\ UNCHANGED <<node, reg, life, db, kept, history>>

-----------------------------------------------------------------------------
(***************************************************************************)
(* node retire and node replace, after their final sync.                   *)
(***************************************************************************)
MarkRetired ==
  /\ pc = "retire"
  /\ life' = "retired"
  /\ Idle
  /\ UNCHANGED <<node, reg, db, kept, history>>

(* vcl backup create on the old host, pulled and verified.                 *)
Backup ==
  /\ pc = "backup"
  /\ image' = node[reg]
  /\ pc' = "restore"
  /\ UNCHANGED <<node, reg, life, db, op, after, answer, target, kept, history>>

(* The operator keeps a backup of the node ...                             *)
KeepBackup ==
  /\ FromBackup
  /\ pc = "idle"
  /\ kept' = node[reg]
  /\ UNCHANGED <<node, reg, life, db, command, history>>

(* ... and uses it later, when the old host may be dead: no final sync.    *)
BeginFromBackup ==
  /\ FromBackup
  /\ kept.up
  /\ pc = "idle"
  /\ life = "active"
  /\ op' = "replace"
  /\ image' = kept
  /\ pc' = "restore"
  /\ owed' = node[reg].high
  /\ UNCHANGED <<node, reg, life, db, after, answer, target, kept, told, stale>>

(* Mutant of Restore: its exit status is not looked at.                    *)
RestoreUnchecked(h) ==
  /\ pc = "restore"
  /\ ~ node[h].up
  /\ node' \in {node, [node EXCEPT ![h] = image]}
  /\ pc' = "verify"
  /\ target' = h
  /\ UNCHANGED <<reg, life, db, op, after, answer, image, kept, history>>

(* vcl restore on a host without VERSION.  It may succeed there and its    *)
(* answer be lost here.                                                    *)
Restore(h) ==
  /\ pc = "restore"
  /\ ~ node[h].up
  /\ node' = [node EXCEPT ![h] = image]
  /\ \/ /\ pc' = "verify"
        /\ target' = h
        /\ UNCHANGED <<op, after, answer, image>>
     \/ Idle
  /\ UNCHANGED <<reg, life, db, kept, history>>

(* Mutant of Verified: the old instance stays active.                      *)
VerifiedOnly ==
  /\ pc = "verify"
  /\ pc' = "insert"
  /\ UNCHANGED <<node, reg, life, db, op, after, answer, image, target, kept, history>>

(* identity and verify answer; retire_active_instance.                     *)
Verified ==
  /\ pc = "verify"
  /\ db' = [db EXCEPT !.past = Retired(@)]
  /\ pc' = "insert"
  /\ UNCHANGED <<node, reg, life, op, after, answer, image, target, kept, history>>

InsertTarget ==
  /\ pc = "insert"
  /\ db' = [db EXCEPT !.past = Inserted(@, target)]
  /\ pc' = "cursor"
  /\ UNCHANGED <<node, reg, life, op, after, answer, image, target, kept, history>>

(* The cursor keeps its position.                                          *)
MoveCursor ==
  /\ pc = "cursor"
  /\ db' = [db EXCEPT !.cursor.inst = target]
  /\ pc' = "save"
  /\ UNCHANGED <<node, reg, life, op, after, answer, image, target, kept, history>>

SaveRegistry ==
  /\ pc = "save"
  /\ reg' = target
  /\ stale' = (stale \/ image.high < db.cursor.seq)
  /\ Idle
  /\ UNCHANGED <<node, life, db, kept, owed, told>>

-----------------------------------------------------------------------------
(* A registered node, never synced or synced by an older controller, which *)
(* left event_id cursors and rows without export_seq.                      *)
Init ==
  /\ reg = First
  /\ life = "active"
  /\ \/ /\ node = [h \in Host |->
                     IF h = First THEN [Absent EXCEPT !.up = TRUE, !.free = EventId]
                                  ELSE Absent]
        /\ db = [events |-> Nothing, cursor |-> NewCursor, past |-> [h \in Host |-> None]]
     \/ \E id \in EventId, S \in SUBSET EventId :
          /\ S \subseteq {id}
          /\ node = [h \in Host |->
                       IF h = First
                         THEN [up |-> TRUE, log |-> [s \in {1} |-> [id |-> id, origin |-> h]],
                               high |-> 1, pruned |-> 0, free |-> EventId \ {id}]
                         ELSE Absent]
          /\ db = [events |-> [i \in S |-> [seq |-> 0, origin |-> First]],
                   cursor |-> [NewCursor EXCEPT !.inst = First, !.kind = "event_id"],
                   past   |-> [h \in Host |-> IF h = First THEN "active" ELSE None]]
  /\ op = None /\ pc = "idle" /\ after = 0 /\ answer = NoAnswer
  /\ image = Absent /\ target = None /\ kept = Absent
  /\ owed = 0 /\ told = 0 /\ stale = FALSE

Sync ==
  \/ IdentityOK \/ RecordInstance
  \/ ReadMax \/ ReadPruned \/ ReadRows \/ Import
  \/ Refused

Move ==
  \/ MarkRetired
  \/ Backup \/ (\E h \in Host : Restore(h)) \/ Verified
  \/ InsertTarget \/ MoveCursor \/ SaveRegistry

Controller ==
  \/ \E o \in {"sync", "full", "retire", "replace"} : Begin(o)
  \/ BeginFromBackup
  \/ Reseed
  \/ Sync
  \/ Move
  \/ IdentityFails
  \/ SyncFails
  \/ Abort
  \/ KeepBackup

Hosts ==
  \E h \in Host :
    \/ \E id \in EventId : HostCloses(h, id)
    \/ \E s \in DOMAIN node[h].log : HostExpires(h, s)

Next == Controller \/ Hosts

Spec == Init /\ [][Next]_vars

-----------------------------------------------------------------------------
Commands == {"sync", "full", "retire", "replace"}

TypeOK ==
  /\ DOMAIN node = Host
  /\ \A h \in Host :
       /\ node[h].up \in BOOLEAN
       /\ node[h].free \subseteq EventId
       /\ Log(h)!LogInv
  /\ reg \in Host /\ node[reg].up
  /\ life \in {"active", "retired"}
  /\ DOMAIN db.events \subseteq EventId
  /\ \A id \in DOMAIN db.events : db.events[id] \in [seq : Nat, origin : Host]
  /\ db.cursor \in [seq : Nat, inst : Host \cup {None, Foreign},
                    kind : {"export_seq", "event_id"}, status : {"ok", "error", "expired"}]
  /\ db.past \in [Host -> {None, "active", "retired"}]
  /\ op \in Commands \cup {None}
  /\ after \in Nat
  /\ target \in Host \cup {None}
  /\ pc \in {"insert", "cursor", "save"} => target \in Host

-----------------------------------------------------------------------------
(* The event with number s in the log of host h is in fleet.db.            *)
Imported(h, s) ==
  LET e == node[h].log[s]
  IN  /\ e.id \in DOMAIN db.events
      /\ db.events[e.id] = [seq |-> s, origin |-> e.origin]

(* The fleet's copy has no holes: whatever the serving host still has at   *)
(* or below the cursor is in fleet.db, across failed and repeated syncs,   *)
(* closes and retention during an export, controller crashes, reseeds, and *)
(* moves of the node at whatever point they break off.                     *)
NothingSkipped ==
  \A s \in DOMAIN node[reg].log : s <= db.cursor.seq => Imported(reg, s)

(* An imported event stays, and stays the same event, until a reseed.      *)
EventsKept ==
  [][\/ db'.cursor = NewCursor
     \/ \A id \in DOMAIN db.events :
          /\ id \in DOMAIN db'.events
          /\ db'.events[id].origin = db.events[id].origin]_vars

(* Retiring or moving the node loses nothing it had closed when the command*)
(* began: it is in fleet.db, or on the new host, or retention deleted it.  *)
HandsOver ==
  [][life' # life \/ reg' # reg =>
       \A s \in DOMAIN node[reg].log :
         s <= owed =>
           \/ Imported(reg, s)
           \/ /\ s \in DOMAIN node[reg'].log
              /\ node[reg'].log[s] = node[reg].log[s]]_vars

(* At most one instance of the node is active, and an instance of it that  *)
(* the cursor names has been recorded, though each row is committed by     *)
(* itself.  A cursor that names an instance of another node says "error".  *)
HistorySound ==
  /\ \A g, h \in Host : db.past[g] = "active" /\ db.past[h] = "active" => g = h
  /\ db.cursor.inst \in Host => db.past[db.cursor.inst] # None
  /\ db.cursor.inst = Foreign => db.cursor.status = "error"

(* vincula-audit.py:12: "Retention that deleted unconsumed export_seq       *)
(* returns CURSOR_EXPIRED".  So the cursor never passes a number that was  *)
(* not imported, except in a sync from zero, which "always succeeds".      *)
NoSilentLoss ==
  \A s \in 1 .. db.cursor.seq :
    s <= told \/ \E id \in DOMAIN db.events : db.events[id].seq = s

(* CHANGELOG.md:181: "Stale cursor vs a restored older DB fails closed with*)
(* --reseed guidance".  So after a move to a backup that is older than the *)
(* cursor, nothing is imported and the cursor does not advance.            *)
StaleCursorRefused ==
  [][stale /\ stale' => db'.cursor.seq = db.cursor.seq /\ db'.events = db.events]_vars

-----------------------------------------------------------------------------
(***************************************************************************)
(* Liveness.  Every command ends, one way or the other (ssh has timeouts); *)
(* the operator or cron runs sync again and again; and what may fail on the*)
(* way (ssh, the import, the process) works now and then.                  *)
(***************************************************************************)
Ends == Sync \/ Move \/ IdentityFails \/ SyncFails \/ Abort

Fairness ==
  /\ WF_vars(Ends)
  /\ SF_vars(Begin("sync"))
  /\ SF_vars(IdentityOK)
  /\ SF_vars(RecordInstance)
  /\ SF_vars(ReadMax)
  /\ SF_vars(ReadPruned)
  /\ SF_vars(ReadRows)
  /\ SF_vars(Import)

NeedsReseed ==
  \/ db.cursor.kind # "export_seq"
  \/ Expired(db.cursor.seq, node[reg].pruned)
  \/ Ahead(db.cursor.seq, node[reg].high)

(* Again and again fleet.db has everything that the host still has, unless *)
(* the node is retired, its cursor waits for the operator to reseed, or the*)
(* host was restored from before the cursor (StaleCursorRefused): no order *)
(* of failures, closes, retention and reseeds leaves it behind.            *)
CatchesUp ==
  []<>(\/ life = "retired"
       \/ stale
       \/ NeedsReseed
       \/ \A s \in DOMAIN node[reg].log : Imported(reg, s))

=============================================================================
