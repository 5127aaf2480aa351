------------------------------ MODULE Accountd ------------------------------
(***************************************************************************)
(* The accounting daemon of a node (lib/vincula-accountd.py): one process  *)
(* that polls the Clash API of sing-box, turns its cumulative per-          *)
(* connection counters into byte deltas, and keeps them in accounting.db.  *)
(*                                                                         *)
(* A poll is one SQLite transaction made of many statements; the in-memory *)
(* cache known_open is replaced only after COMMIT.  The model takes the    *)
(* statements one connection at a time: `work` is the database as the open *)
(* transaction sees it, `committed` is what every other process sees and   *)
(* what survives a crash.                                                  *)
(*                                                                         *)
(* Clash and the traffic are the environment; `sent` is a history variable *)
(* with the bytes each connection really carried.                          *)
(*                                                                         *)
(* A definition whose comment starts with "Mutant of" is not part of the   *)
(* specification: it is the named definition with a plausible bug in it,   *)
(* kept to show that the properties notice (see PROJECT.json, "mutants").  *)
(***************************************************************************)
EXTENDS Integers, FiniteSets, FiniteSetsExt, Functions

CONSTANTS
  Conn,            \* Clash connection ids
  Dir,             \* counters of a connection: upload and download
  RawDays,         \* raw_retention_days; 0 keeps raw rows for ever
  Batch,           \* RETENTION_DELETE_BATCH
  MaxTraffic,      \* bound: bytes a connection carries in each direction
  MaxIncarnation,  \* bound: times Clash starts (or restarts) counting an id
  MaxDay           \* bound: days the clock advances

ASSUME ConstantsAssumption ==
  /\ IsFiniteSet(Conn)
  /\ RawDays \in Nat
  /\ Batch \in Nat \ {0}
  /\ MaxTraffic \in Nat
  /\ MaxIncarnation \in Nat
  /\ MaxDay \in Nat

VARIABLES
  committed,  \* accounting.db as of the last COMMIT
  work,       \* accounting.db inside the open transaction
  cache,      \* AccountDaemon._known_open
  phase,      \* where the daemon is
  live,       \* the poll's snapshot: connection id -> counters
  bad,        \* ids of the snapshot whose counters are not valid integers
  todo,       \* what the current loop has not processed yet
  newKnown,   \* the cache snapshot apply_poll_delta is building
  clash,      \* what sing-box counts, per connection
  sent,       \* history: bytes really carried, per connection
  day         \* the clock, in days

txn  == <<work, phase, live, bad, todo, newKnown>>
env  == <<clash, sent, day>>
vars == <<committed, cache, txn, env>>

Phases == {"down", "migrate", "idle", "live", "tracked", "stale", "commit", "retain"}

Counters == [Dir -> Nat]
Zero     == [d \in Dir |-> 0]

(* A row of `connections`; seq = 0 stands for export_seq IS NULL.          *)
Row ==
  [cid : Conn, gen : Nat, closed : BOOLEAN, bytes : Counters, seq : Nat, seen : Nat]

(* A row of `poll_baseline`, and an entry of the cache.                    *)
Baseline == [gen : Nat, raw : Counters, acc : Counters]

Empty == [x \in {} |-> x]

Put(f, x, v) == [y \in DOMAIN f \cup {x} |-> IF y = x THEN v ELSE f[y]]
Drop(f, S)   == Restrict(f, DOMAIN f \ S)

-----------------------------------------------------------------------------
(***************************************************************************)
(* Queries.  A database is a record: rows (by event_id), base (by          *)
(* connection id), the two meta counters seq and pruned, the AUTOINCREMENT *)
(* high-water mark eid, and the schema version.                            *)
(***************************************************************************)
RowsOf(db, c) == {e \in DOMAIN db.rows : db.rows[e].cid = c}

GenRows(db, c, g) == {e \in RowsOf(db, c) : db.rows[e].gen = g}

OpenRows(db) == {e \in DOMAIN db.rows : ~ db.rows[e].closed}

OpenGen(db, c, g) == GenRows(db, c, g) \cap OpenRows(db)

MaxGen(db, c) == Max({db.rows[e].gen : e \in RowsOf(db, c)})

NextGen(db, c) == IF RowsOf(db, c) = {} THEN 0 ELSE MaxGen(db, c) + 1

(* _durable_prev_state: the baseline counts only while its generation is   *)
(* still open.                                                             *)
HasPrev(db, c) ==
  /\ c \in DOMAIN db.base
  /\ OpenGen(db, c, db.base[c].gen) # {}

(* reload_known_open_from_db: baselines joined with their open generation. *)
KnownOpen(db) == Restrict(db.base, {c \in DOMAIN db.base : HasPrev(db, c)})

(* _open_connection_row: the open row with the highest generation.         *)
LatestOpen(db, c) ==
  LET open == RowsOf(db, c) \cap OpenRows(db)
  IN  CHOOSE e \in open : \A f \in open : db.rows[f].gen <= db.rows[e].gen

-----------------------------------------------------------------------------
(***************************************************************************)
(* Writes.                                                                 *)
(***************************************************************************)

(* Mutant of AssignSeq: the next number is one more than the highest in    *)
(* the table, instead of the counter in meta.                              *)
AssignSeqMax(db, e) ==
  LET next == Max({0} \cup {db.rows[f].seq : f \in DOMAIN db.rows}) + 1
  IN  IF db.rows[e].seq # 0
        THEN db
        ELSE [db EXCEPT !.seq = next, !.rows[e].seq = next]

(* _assign_export_seq_if_needed on a row that has just been closed.        *)
AssignSeq(db, e) ==
  IF db.rows[e].seq # 0
    THEN db
    ELSE [db EXCEPT !.seq = @ + 1, !.rows[e].seq = db.seq + 1]

Insert(db, c, g, bytes, close, now) ==
  [db EXCEPT !.eid  = @ + 1,
             !.rows = Put(@, db.eid + 1,
                          [cid |-> c, gen |-> g, closed |-> close,
                           bytes |-> bytes, seq |-> 0, seen |-> now])]

Update(db, e, bytes, close, now) ==
  [db EXCEPT !.rows[e] = [cid |-> @.cid, gen |-> @.gen, closed |-> close,
                          bytes |-> bytes, seq |-> @.seq, seen |-> now]]

(* upsert_connection refuses to touch a generation that is closed.         *)
Landed(db, c, g) == OpenGen(db, c, g) # {} \/ GenRows(db, c, g) = {}

(* upsert_connection(close=False).                                         *)
UpsertOpen(db, c, g, bytes, now) ==
  IF OpenGen(db, c, g) # {}
    THEN Update(db, CHOOSE e \in OpenGen(db, c, g) : TRUE, bytes, FALSE, now)
    ELSE Insert(db, c, g, bytes, FALSE, now)

(* upsert_connection(close=True): also gives the row its export_seq.       *)
UpsertClosed(db, c, g, bytes, now) ==
  IF OpenGen(db, c, g) # {}
    THEN LET e == CHOOSE e \in OpenGen(db, c, g) : TRUE
         IN  AssignSeq(Update(db, e, bytes, TRUE, now), e)
    ELSE IF GenRows(db, c, g) # {}
           THEN db
           ELSE AssignSeq(Insert(db, c, g, bytes, TRUE, now), db.eid + 1)

SetBaseline(db, c, g, raw, acc) ==
  [db EXCEPT !.base = Put(@, c, [gen |-> g, raw |-> raw, acc |-> acc])]

(* _write_open_state: a closed generation is never overwritten (D6); the   *)
(* write then lands in a new generation that starts from zero.             *)
WriteOpen(db, c, g, raw, acc, now) ==
  IF Landed(db, c, g)
    THEN SetBaseline(UpsertOpen(db, c, g, acc, now), c, g, raw, acc)
    ELSE SetBaseline(UpsertOpen(db, c, NextGen(db, c), Zero, now),
                     c, NextGen(db, c), raw, Zero)

(* _close_generation.                                                      *)
CloseGeneration(db, c, st, now) ==
  [UpsertClosed(db, c, st.gen, st.acc, now) EXCEPT !.base = Drop(@, {c})]

(* prune_closed_poll_baselines.                                            *)
PruneBaselines(db) == [db EXCEPT !.base = KnownOpen(db)]

(* The tracked-but-absent branch of apply_poll_delta.                      *)
CloseTracked(db, known, c, now) ==
  IF HasPrev(db, c)
    THEN CloseGeneration(db, c, db.base[c], now)
    ELSE IF c \in DOMAIN known
           THEN CloseGeneration(db, c, known[c], now)
           ELSE [db EXCEPT !.base = Drop(@, {c})]

-----------------------------------------------------------------------------
(***************************************************************************)
(* Start.  open_db migrates a schema 3 database (bytes, but neither        *)
(* export_seq nor, after schema 2, a baseline) in one transaction, closed  *)
(* rows in event_id order; then the cache is read from the database.       *)
(***************************************************************************)
Unassigned(db) ==
  {e \in DOMAIN db.rows : db.rows[e].closed /\ db.rows[e].seq = 0}

Start ==
  /\ phase = "down"
  /\ IF committed.schema = 3
       THEN /\ phase' = "migrate"
            /\ todo' = Unassigned(committed)
            /\ cache' = cache
       ELSE /\ phase' = "idle"
            /\ todo' = {}
            /\ cache' = KnownOpen(committed)
  /\ UNCHANGED <<committed, work, live, bad, newKnown, env>>

MigrateRow(e) ==
  /\ phase = "migrate"
  /\ e \in todo
  /\ \A f \in todo : e <= f
  /\ work' = AssignSeq(work, e)
  /\ todo' = todo \ {e}
  /\ UNCHANGED <<committed, cache, phase, live, bad, newKnown, env>>

FinishMigration ==
  /\ phase = "migrate"
  /\ todo = {}
  /\ work' = [work EXCEPT !.schema = 4]
  /\ committed' = work'
  /\ cache' = KnownOpen(work')
  /\ phase' = "idle"
  /\ UNCHANGED <<live, bad, todo, newKnown, env>>

-----------------------------------------------------------------------------
(***************************************************************************)
(* One poll.  fetch_clash_connections is one request: the snapshot is the  *)
(* set of connections at that moment.  A request that fails, or an answer  *)
(* that is not a valid snapshot, writes nothing and is not a step here.    *)
(***************************************************************************)
BeginPoll ==
  /\ phase = "idle"
  /\ LET on == {c \in Conn : clash[c].on}
     IN  /\ live' = [c \in on |-> clash[c].count]
         /\ todo' = on
         /\ bad' \in SUBSET on
  /\ phase' = "live"
  /\ UNCHANGED <<committed, work, cache, newKnown, env>>

(* One iteration of the live loop of apply_poll_delta that writes db.      *)
Account(c, db) ==
  /\ c \in todo \ bad
  /\ work' = db
  /\ newKnown' = Put(newKnown, c, db.base[c])
  /\ todo' = todo \ {c}
  /\ UNCHANGED <<committed, cache, phase, live, bad, env>>

Decreased(raw, prev) == \E d \in Dir : raw[d] < prev[d]

(* Mutant of Grown: the whole counter is added, not what it grew by.       *)
GrownByRaw(acc, raw, prev) == [d \in Dir |-> acc[d] + raw[d]]

Grown(acc, raw, prev) == [d \in Dir |-> acc[d] + (raw[d] - prev[d])]

(* The usual case: the counters moved forward.                             *)
PollDelta(c) ==
  LET prev == work.base[c]
  IN  /\ phase = "live" /\ c \in todo /\ HasPrev(work, c)
      /\ ~ Decreased(live[c], prev.raw)
      /\ Account(c, WriteOpen(work, c, prev.gen, live[c],
                              Grown(prev.acc, live[c], prev.raw), day))

(* Mutant of PollReset: the generation goes on from the new counters.      *)
PollResetInPlace(c) ==
  LET prev == work.base[c]
  IN  /\ phase = "live" /\ c \in todo /\ HasPrev(work, c)
      /\ Decreased(live[c], prev.raw)
      /\ Account(c, WriteOpen(work, c, prev.gen, live[c], prev.acc, day))

(* A counter went back (D8): close this generation, open the next at zero. *)
PollReset(c) ==
  LET prev == work.base[c]
  IN  /\ phase = "live" /\ c \in todo /\ HasPrev(work, c)
      /\ Decreased(live[c], prev.raw)
      /\ Account(c, WriteOpen(CloseGeneration(work, c, prev, day),
                              c, prev.gen + 1, live[c], Zero, day))

(* An open row without a baseline (migrated): keep its bytes.              *)
PollUntracked(c) ==
  LET row == work.rows[LatestOpen(work, c)]
  IN  /\ phase = "live" /\ c \in todo /\ ~ HasPrev(work, c)
      /\ RowsOf(work, c) \cap OpenRows(work) # {}
      /\ Account(c, WriteOpen(work, c, row.gen, live[c], row.bytes, day))

(* Never seen, or seen again after it was closed: start from zero.         *)
PollUnknown(c) ==
  /\ phase = "live" /\ c \in todo /\ ~ HasPrev(work, c)
  /\ RowsOf(work, c) \cap OpenRows(work) = {}
  /\ Account(c, WriteOpen(work, c, NextGen(work, c), live[c], Zero, day))

(* Counters that are not valid integers: keep what is known, write nothing.*)
PollInvalid(c) ==
  /\ phase = "live"
  /\ c \in todo \cap bad
  /\ newKnown' = IF HasPrev(work, c)
                   THEN Put(newKnown, c, work.base[c])
                   ELSE IF c \in DOMAIN cache
                          THEN Put(newKnown, c, cache[c])
                          ELSE newKnown
  /\ todo' = todo \ {c}
  /\ UNCHANGED <<committed, work, cache, phase, live, bad, env>>

EndLive ==
  /\ phase = "live"
  /\ todo = {}
  /\ phase' = "tracked"
  /\ todo' = (DOMAIN cache \cup DOMAIN work.base) \ DOMAIN live
  /\ UNCHANGED <<committed, work, cache, live, bad, newKnown, env>>

PollGone(c) ==
  /\ phase = "tracked"
  /\ c \in todo
  /\ work' = CloseTracked(work, cache, c, day)
  /\ todo' = todo \ {c}
  /\ UNCHANGED <<committed, cache, phase, live, bad, newKnown, env>>

(* Mutant of EndTracked: only what had a baseline is closed.               *)
EndTrackedOnly ==
  /\ phase = "tracked"
  /\ todo = {}
  /\ work' = PruneBaselines(work)
  /\ phase' = "stale"
  /\ UNCHANGED <<committed, cache, live, bad, todo, newKnown, env>>

(* Mutant of EndTracked: closed rows are selected as well.                 *)
EndTrackedAll ==
  /\ phase = "tracked"
  /\ todo = {}
  /\ work' = PruneBaselines(work)
  /\ phase' = "stale"
  /\ todo' = {e \in DOMAIN work.rows : work.rows[e].cid \notin DOMAIN live}
  /\ UNCHANGED <<committed, cache, live, bad, newKnown, env>>

(* The tracked loop is over; close_stale_open_connections selects what is  *)
(* still open and not in the snapshot.                                     *)
EndTracked ==
  /\ phase = "tracked"
  /\ todo = {}
  /\ work' = PruneBaselines(work)
  /\ phase' = "stale"
  /\ todo' = {e \in OpenRows(work) : work.rows[e].cid \notin DOMAIN live}
  /\ UNCHANGED <<committed, cache, live, bad, newKnown, env>>

CloseStale(e) ==
  /\ phase = "stale"
  /\ e \in todo
  /\ work' = AssignSeq(Update(work, e, work.rows[e].bytes, TRUE, day), e)
  /\ todo' = todo \ {e}
  /\ UNCHANGED <<committed, cache, phase, live, bad, newKnown, env>>

EndStale ==
  /\ phase = "stale"
  /\ todo = {}
  /\ work' = PruneBaselines(work)
  /\ phase' = "commit"
  /\ UNCHANGED <<committed, cache, live, bad, todo, newKnown, env>>

Forget ==
  /\ live' = Empty
  /\ bad' = {}
  /\ todo' = {}
  /\ newKnown' = Empty

CommitPoll ==
  /\ phase = "commit"
  /\ committed' = work
  /\ cache' = newKnown
  /\ phase' = "idle"
  /\ Forget
  /\ UNCHANGED <<work, env>>

(* commit_accounting: ROLLBACK, and the cache is read back from the database. *)
CommitFails ==
  /\ phase = "commit"
  /\ work' = committed
  /\ cache' = KnownOpen(committed)
  /\ phase' = "idle"
  /\ Forget
  /\ UNCHANGED <<committed, env>>

-----------------------------------------------------------------------------
(***************************************************************************)
(* Retention, after the tick's commit (cycle 1 and every 720th): at most   *)
(* Batch expired closed rows, oldest event_id first, in a transaction of   *)
(* its own that raises the mark over what it deletes.                      *)
(***************************************************************************)
Expired(db, now) ==
  {e \in DOMAIN db.rows : db.rows[e].closed /\ db.rows[e].seen < now - RawDays}

(* Mutant of Oldest: one row less than the batch.                          *)
OldestButOne(S, n) == {e \in S : Cardinality({f \in S : f < e}) < n - 1}

Oldest(S, n) == {e \in S : Cardinality({f \in S : f < e}) < n}

BeginRetention ==
  /\ phase = "idle"
  /\ RawDays > 0
  /\ Expired(committed, day) # {}
  /\ phase' = "retain"
  /\ todo' = Oldest(Expired(committed, day), Batch)
  /\ UNCHANGED <<committed, work, cache, live, bad, newKnown, env>>

(* Mutant of PruneRow: the mark is left behind.                            *)
PruneRowUnmarked(e) ==
  /\ phase = "retain"
  /\ e \in todo
  /\ work' = [work EXCEPT !.rows = Drop(@, {e})]
  /\ todo' = todo \ {e}
  /\ UNCHANGED <<committed, cache, phase, live, bad, newKnown, env>>

PruneRow(e) ==
  /\ phase = "retain"
  /\ e \in todo
  /\ work' = [work EXCEPT !.rows = Drop(@, {e}),
                          !.pruned = IF work.rows[e].seq > @ THEN work.rows[e].seq ELSE @]
  /\ todo' = todo \ {e}
  /\ UNCHANGED <<committed, cache, phase, live, bad, newKnown, env>>

CommitRetention ==
  /\ phase = "retain"
  /\ todo = {}
  /\ committed' = work
  /\ phase' = "idle"
  /\ UNCHANGED <<work, cache, live, bad, todo, newKnown, env>>

(* An exception inside the tick: run() rolls back and keeps the cache.     *)
TickFails ==
  /\ phase \in {"live", "tracked", "stale", "retain"}
  /\ work' = committed
  /\ phase' = "idle"
  /\ Forget
  /\ UNCHANGED <<committed, cache, env>>

(* The process dies at any point; SQLite rolls the open transaction back.  *)
Crash ==
  /\ phase # "down"
  /\ work' = committed
  /\ cache' = Empty
  /\ phase' = "down"
  /\ Forget
  /\ UNCHANGED <<committed, env>>

-----------------------------------------------------------------------------
(***************************************************************************)
(* The environment: sing-box starts counting a connection id, restarts its *)
(* counters, counts bytes, forgets the id; days pass.                      *)
(***************************************************************************)
ClashOpens(c) ==
  /\ clash[c].starts < MaxIncarnation
  /\ clash' = [clash EXCEPT ![c] = [on |-> TRUE, count |-> Zero, starts |-> @.starts + 1]]
  /\ UNCHANGED <<committed, cache, txn, sent, day>>

ClashCounts(c, d) ==
  /\ clash[c].on
  /\ sent[c][d] < MaxTraffic
  /\ clash' = [clash EXCEPT ![c].count[d] = @ + 1]
  /\ sent' = [sent EXCEPT ![c][d] = @ + 1]
  /\ UNCHANGED <<committed, cache, txn, day>>

ClashForgets(c) ==
  /\ clash[c].on
  /\ clash' = [clash EXCEPT ![c] = [on |-> FALSE, count |-> Zero, starts |-> @.starts]]
  /\ UNCHANGED <<committed, cache, txn, sent, day>>

NextDay ==
  /\ day < MaxDay
  /\ day' = day + 1
  /\ UNCHANGED <<committed, cache, txn, clash, sent>>

-----------------------------------------------------------------------------
(***************************************************************************)
(* Initially the daemon is down, over a new database or over one that an   *)
(* older version left: one row per connection id (generation 0), some      *)
(* closed, some open, some of those with a baseline.                       *)
(***************************************************************************)
NewDB ==
  [schema |-> 4, rows |-> Empty, base |-> Empty, seq |-> 0, pruned |-> 0, eid |-> 0]

LegacyDB(owner, shut, tracked, bytes) ==
  [schema |-> 3,
   rows   |-> [e \in DOMAIN owner |->
                 [cid |-> owner[e], gen |-> 0, closed |-> owner[e] \in shut,
                  bytes |-> bytes, seq |-> 0, seen |-> 0]],
   base   |-> [c \in tracked |-> [gen |-> 0, raw |-> bytes, acc |-> bytes]],
   seq    |-> 0, pruned |-> 0, eid |-> Cardinality(DOMAIN owner)]

Legacy(n) ==
  \E owner \in Injection(1 .. n, Conn), bytes \in [Dir -> 0 .. MaxTraffic] :
    \E shut \in SUBSET Range(owner) :
      \E tracked \in SUBSET (Range(owner) \ shut) :
        /\ committed = LegacyDB(owner, shut, tracked, bytes)
        /\ sent = [c \in Conn |-> IF c \in Range(owner) THEN bytes ELSE Zero]
        /\ clash \in [Conn -> {[on |-> FALSE, count |-> Zero, starts |-> 0]}
                             \cup {[on |-> TRUE, count |-> bytes, starts |-> 0]}]
        /\ \A c \in Conn : clash[c].on => c \in Range(owner) \ shut

Init ==
  /\ \/ /\ committed = NewDB
        /\ sent = [c \in Conn |-> Zero]
        /\ clash = [c \in Conn |-> [on |-> FALSE, count |-> Zero, starts |-> 0]]
     \/ \E n \in 1 .. Cardinality(Conn) : Legacy(n)
  /\ work = committed
  /\ cache = Empty
  /\ phase = "down"
  /\ live = Empty
  /\ bad = {}
  /\ todo = {}
  /\ newKnown = Empty
  /\ day = 0

Poll ==
  \/ BeginPoll
  \/ \E c \in todo : PollDelta(c) \/ PollReset(c) \/ PollUntracked(c)
                     \/ PollUnknown(c) \/ PollInvalid(c) \/ PollGone(c)
  \/ \E e \in todo : CloseStale(e)
  \/ EndLive
  \/ EndTracked
  \/ EndStale
  \/ CommitPoll
  \/ CommitFails

Retention ==
  \/ BeginRetention
  \/ \E e \in todo : PruneRow(e)
  \/ CommitRetention

Daemon ==
  \/ Start
  \/ \E e \in todo : MigrateRow(e)
  \/ FinishMigration
  \/ Poll
  \/ Retention
  \/ TickFails
  \/ Crash

Environment ==
  \/ \E c \in Conn : ClashOpens(c) \/ ClashForgets(c)
  \/ \E c \in Conn, d \in Dir : ClashCounts(c, d)
  \/ NextDay

Next == Daemon \/ Environment

Spec == Init /\ [][Next]_vars

-----------------------------------------------------------------------------
(***************************************************************************)
(* Types.                                                                  *)
(***************************************************************************)
DBType(db) ==
  /\ db = [schema |-> db.schema, rows |-> db.rows, base |-> db.base,
           seq |-> db.seq, pruned |-> db.pruned, eid |-> db.eid]
  /\ db.schema \in {3, 4}
  /\ db.seq \in Nat
  /\ db.pruned \in 0 .. db.seq
  /\ db.eid \in Nat
  /\ DOMAIN db.rows \subseteq 1 .. db.eid
  /\ db.rows \in [DOMAIN db.rows -> Row]
  /\ DOMAIN db.base \subseteq Conn
  /\ db.base \in [DOMAIN db.base -> Baseline]

KnownType(known) ==
  /\ DOMAIN known \subseteq Conn
  /\ known \in [DOMAIN known -> Baseline]

(* The type invariant: in particular no byte count is ever negative and no *)
(* AUTOINCREMENT id is handed out twice.                                   *)
TypeOK ==
  /\ DBType(committed) /\ DBType(work)
  /\ KnownType(cache) /\ KnownType(newKnown)
  /\ phase \in Phases
  /\ DOMAIN live \subseteq Conn /\ live \in [DOMAIN live -> Counters]
  /\ bad \subseteq DOMAIN live
  /\ phase \in {"live", "tracked"} => todo \subseteq Conn
  /\ phase = "live" => todo \subseteq DOMAIN live
  /\ phase \in {"migrate", "stale", "retain"} => todo \subseteq DOMAIN work.rows
  /\ phase \in {"down", "idle", "commit"} => todo = {}
  /\ clash \in [Conn -> [on : BOOLEAN, count : Counters, starts : Nat]]
  /\ sent \in [Conn -> Counters]
  /\ day \in Nat

-----------------------------------------------------------------------------
(***************************************************************************)
(* Safety of the database, for the committed state and for every state a   *)
(* transaction passes through.                                             *)
(***************************************************************************)
UniqueGen(db) ==
  \A e, f \in DOMAIN db.rows :
    db.rows[e].cid = db.rows[f].cid /\ db.rows[e].gen = db.rows[f].gen => e = f

OpenIsLatest(db) ==
  \A e \in OpenRows(db) : \A f \in RowsOf(db, db.rows[e].cid) :
    db.rows[f].gen <= db.rows[e].gen

(* A connection has at most one open generation and it is its latest one,  *)
(* whatever mix of counter resets, ids seen again, retention and restarts  *)
(* led there: _close_generation and _write_open_state always hit the row   *)
(* they mean, and the UNIQUE(connection_id, generation) index never fires. *)
GenerationsSound ==
  \A db \in {committed, work} : UniqueGen(db) /\ OpenIsLatest(db)

SeqOfClosed(db) ==
  /\ \A e \in DOMAIN db.rows :
       /\ db.rows[e].seq <= db.seq
       /\ db.rows[e].seq # 0 => db.rows[e].closed
       /\ db.schema = 4 /\ db.rows[e].closed => db.rows[e].seq # 0
  /\ \A e, f \in DOMAIN db.rows :
       db.rows[e].seq = db.rows[f].seq /\ db.rows[e].seq # 0 => e = f

Dense(db) ==
  \A s \in 1 .. db.seq :
    s > db.pruned => \E e \in DOMAIN db.rows : db.rows[e].seq = s

(* Closed rows and only they carry an export_seq, no two the same, and     *)
(* every number that was given out is on a row or covered by the pruned    *)
(* mark: an exporter that compares its cursor with the mark can tell       *)
(* exactly whether it missed something.                                    *)
ExportSeqSound ==
  \A db \in {committed, work} : SeqOfClosed(db) /\ Dense(db)

BaselineOfOpen(db) ==
  \A c \in DOMAIN db.base :
    \E e \in OpenGen(db, c, db.base[c].gen) : db.rows[e].bytes = db.base[c].acc

(* Every baseline belongs to an open generation and agrees with the bytes  *)
(* on its row (what accounting_plane_checks reports as "baseline sanity"), *)
(* so no poll adds a delta to the wrong row or to the wrong sum.           *)
BaselineSound ==
  \A db \in {committed, work} : BaselineOfOpen(db)

(* Between ticks the cache is what a restart would read from the database, *)
(* after commits, failed commits, rollbacks and retention alike (D7).      *)
CacheIsDurable ==
  phase = "idle" => cache = KnownOpen(committed)

Accounted(db, c, d) == MapThenSumSet(LAMBDA e : db.rows[e].bytes[d], RowsOf(db, c))

(* Accounting is approximate, but never in excess: over all generations of *)
(* a connection, no more bytes are on record than it carried.              *)
NoOvercount ==
  \A c \in Conn, d \in Dir : Accounted(committed, c, d) <= sent[c][d]

(* Along one generation, a commit that moves the counters of a baseline by *)
(* some amount moves its account by the same amount: a poll that failed,   *)
(* was rolled back or was cut by a crash neither repeats nor drops a delta.*)
DeltaOnce ==
  [][\A c \in DOMAIN committed.base \cap DOMAIN committed'.base :
       LET old == committed.base[c]
           new == committed'.base[c]
       IN  old.gen = new.gen =>
             \A d \in Dir : new.acc[d] - old.acc[d] = new.raw[d] - old.raw[d]]_committed

-----------------------------------------------------------------------------
(***************************************************************************)
(* The inductive invariant behind the properties above.                    *)
(***************************************************************************)

(* A generation is younger than the event ids it was numbered under: the   *)
(* generations of a connection are bounded, so MaxGen exists.              *)
GenBelowId(db) == \A e \in DOMAIN db.rows : db.rows[e].gen < db.eid

DBInv(db) ==
  /\ DBType(db)
  /\ UniqueGen(db)
  /\ OpenIsLatest(db)
  /\ SeqOfClosed(db)
  /\ Dense(db)
  /\ BaselineOfOpen(db)
  /\ GenBelowId(db)

(* The transaction has not touched the baseline of c yet.                  *)
Untouched(c) ==
  /\ c \in DOMAIN work.base <=> c \in DOMAIN cache
  /\ c \in DOMAIN cache => work.base[c] = cache[c]

(* What each phase knows of the cache, the snapshot and the transaction.   *)
PhaseInv ==
  /\ phase \notin {"down", "migrate"} =>
       /\ committed.schema = 4 /\ work.schema = 4
       /\ cache = committed.base
  /\ phase \in {"down", "idle"} => work = committed
  /\ phase = "migrate" => todo = Unassigned(work)
  /\ phase = "live" =>
       /\ \A c \in Conn : c \notin DOMAIN live \ todo => Untouched(c)
       /\ newKnown = Restrict(work.base, DOMAIN work.base \cap (DOMAIN live \ todo))
  /\ phase = "tracked" =>
       /\ \A c \in todo : Untouched(c)
       /\ DOMAIN work.base \subseteq DOMAIN live \cup todo
       /\ todo \cap DOMAIN live = {}
       /\ newKnown = Restrict(work.base, DOMAIN work.base \cap DOMAIN live)
  /\ phase = "stale" =>
       /\ \A e \in todo : ~ work.rows[e].closed /\ work.rows[e].cid \notin DOMAIN live
       /\ DOMAIN work.base \subseteq DOMAIN live
       /\ newKnown = work.base
  /\ phase = "commit" => newKnown = work.base
  /\ phase = "retain" =>
       /\ \A e \in todo : work.rows[e].closed
       /\ work.base = committed.base
  /\ phase \in {"down", "migrate", "idle", "retain"} => live = Empty /\ newKnown = Empty

IndInv ==
  /\ TypeOK
  /\ DBInv(committed)
  /\ DBInv(work)
  /\ PhaseInv

-----------------------------------------------------------------------------
(***************************************************************************)
(* The audit log the other components rely on, read off the database.      *)
(***************************************************************************)
Seqs(db) == {db.rows[e].seq : e \in DOMAIN db.rows} \ {0}

LogOf(db) ==
  [s \in Seqs(db) |->
     LET e == CHOOSE e \in DOMAIN db.rows : db.rows[e].seq = s
     IN  [id |-> e, row |-> db.rows[e]]]

Log == INSTANCE AuditLog WITH
         Event  <- [id : Nat, row : Row],
         log    <- LogOf(committed),
         high   <- committed.seq,
         pruned <- committed.pruned

(* The daemon implements AuditLog: closed rows are never rewritten, new    *)
(* numbers go to the head only (no event ever appears at or below a cursor *)
(* that has passed), and nothing is deleted without raising the mark.      *)
ImplementsAuditLog == Log!Spec

-----------------------------------------------------------------------------
(***************************************************************************)
(* Liveness.  The daemon is a systemd service and its loop never ends, so  *)
(* its own steps are fairly scheduled; maintenance comes round every 720   *)
(* cycles.  Assumed beyond that: the machine stays up from some time on,   *)
(* the errors run() catches are transient, as its comment says, so polls   *)
(* reach their COMMIT again and again, and a COMMIT tried again and again  *)
(* succeeds at some point.                                                 *)
(***************************************************************************)
Fairness ==
  /\ WF_vars(Start \/ FinishMigration \/ \E e \in todo : MigrateRow(e))
  /\ WF_vars(Poll)
  /\ SF_vars(CommitPoll)
  /\ SF_vars(BeginRetention)
  /\ SF_vars(\E e \in todo : PruneRow(e))
  /\ SF_vars(CommitRetention)
  /\ <>[](phase # "down")
  /\ []<>(phase = "commit")

(* A connection that Clash no longer lists ends up closed, and so becomes  *)
(* visible to the audit export.                                            *)
GoneIsClosed ==
  \A c \in Conn :
    <>[](~ clash[c].on) => <>[](RowsOf(committed, c) \cap OpenRows(committed) = {})

(* The retention backlog drains, batch by batch.                           *)
BacklogDrains ==
  RawDays > 0 => <>[](Expired(committed, day) = {})

=============================================================================
