# Vincula: specifications, model checking and proofs

Vincula (VCL 0.5.0) runs a VLESS/REALITY proxy (sing-box) on VPS nodes, accounts
the traffic of its users on each node, and lets a controller machine copy the
audit logs of a fleet of nodes and administer their users. This directory holds
TLA+ modules of its core, the TLC configurations that check them and TLAPS proofs.

## 1. The system

| Part | Where | State | Operations |
|---|---|---|---|
| sing-box, Clash API | external | live connections with counters | connections open, count, vanish |
| accountd | `lib/vincula-accountd.py` | `accounting.db` (connections, baselines, meta counters, daily usage), an in-memory cache of open connections | poll, commit, retention, rollup, schema migration |
| audit export | `lib/vincula-audit.py` | reads `accounting.db` | `vcl audit export --after-seq` |
| node users | `bin/vincula`, `lib/vincula-common.sh` | `users.json`, `config.json`, `owner.uri`, sing-box's running configuration | `vcl user add, import, set, disable, enable, rotate` |
| node backup and restore | `lib/vincula-backup.py`, `bin/vincula` | archive, safety copy with journal, VERSION marker, units | create, verify, restore, rollback |
| node install and upgrade | `vincula.sh`, `bin/vincula`, `lib/node_upgrade.py` | files, units, checkpoint | install, migrate, checkpoint, rollback |
| fleet controller | `lib/vincula-fleet.py` | `fleet.json`, `fleet.db` (events, cursors, instances), operation journal | sync, retire, replace, reseed, node administration |
| fleet users | `lib/vincula-fleet.py` | none of its own: the users are on the nodes | `vcl-fleet user add, import, enable, disable, rotate` over ssh |
| fleet operation lock | `lib/vincula-fleet.py` | RLock per process, flock on `.lock` | acquire, release |
| provisioning | `lib/provision.py` | none of its own: the node and the registry | provision, restore on a new host, adopt |
| workspace | `lib/workspace.py` | the portable files of the fleet home with revision and digest, the view each machine has of them, `fleet.db` and key bindings of the machine | mutation, init, export, import, migrate |
| remote access, trust | `lib/access.py`, `lib/trust.py`, `lib/ssh_transport.py` | known hosts, ssh child processes | run, copy, pin |
| local UI | `lib/vincula-ui/server.py`, `static/app.js` | request threads, a bound on them | pages, sync, refresh |
| statistics, archive, telemetry, legacy import | `lib/vincula-stats.py` and others | read-only, or one-time conversions | queries, snapshots |

How they interact: accountd polls the Clash API and writes `accounting.db`; the
export reads that database from another process, over ssh, on behalf of the
controller, which imports the rows into `fleet.db`; restore, user commands and
upgrade share the operation lock of the node; the UI runs the same controller
functions as the command line, in threads of one process, under the fleet lock.

What is hard in it: nothing below is atomic with anything else unless one SQLite
transaction or one rename makes it so. Processes die between two files, two
commits or a commit and a file. accountd's retention runs beside an export.
Counters of sing-box restart at zero, its connection ids come back. A node is
moved to another machine from a backup while the old machine goes on. The lock of
the controller mixes a variable global to the process with one local to the
thread. PROJECT.json lists these hazards line by line with the properties that
cover them.

What makes each part correct:

- accountd: a byte is counted once and in one generation of its connection; a
  closed row gets one sequence number for ever; retention never deletes a row
  above its mark or leaves one below; memory never disagrees with the database
  after a commit that failed; what is gone gets closed.
- export and sync: the controller has every event at or below its cursor that the
  node still has; events stay what they were; moving a node hands over its
  history; at most one instance of a node is active.
- node users: no update is lost; revoked credentials never come back; success
  means that the three files agree, and that sing-box serves them.
- fleet users: a user keeps one user_id on a node; what a run reported as SUCCESS is
  there; a disable holds against commands that arrive late.
- workspace: a home whose digest matches is a committed revision; an archive that
  import accepts is one; no machine goes back behind what it has seen; a failed
  write is undone. A migration destroys no row and no key path; the first one of a
  legacy home is whole when it says ok. (A second one drops the host keys that are
  only in the workspace's own `trust/known_hosts`.)
- node lifecycle (install, restore, upgrade, provision): what carries a VERSION
  marker is a whole installation; a failed restore or rollback is exact; an
  installed node keeps its identity; what a controller reports is so.
- fleet lock: mutual exclusion over threads and processes, no leak, no deadlock.

## 2. Modules

| Module | Models |
|---|---|
| `AuditLog` | the audit log as its readers may see it: an append-only log with a high mark and a prune mark |
| `Accountd` | `AccountDaemon`: one action per statement group that another process or a death can separate |
| `AccountdProofs` | its inductive invariant and what follows from it, that it implements `AuditLog`, that an account moves as its counters do and never exceeds what was carried |
| `FleetSync` | export, sync, retire and replace of one logical node over several hosts |
| `FleetSyncProofs` | nothing skipped, replaced or lost, a sound history, and the types, for any hosts and events |
| `FleetOpLock` | `acquire_fleet_op_lock` and `release_fleet_op_lock` |
| `FleetOpLockProofs` | mutual exclusion, the absence of leaks and of self-deadlock, for any threads, processes and depth |
| `NodeUsers` | the user commands of a node |
| `NodeUsersProofs` | no lost update, no revoked credential back, exact restores, true success, for any users and processes |
| `FleetUsers` | the controller's user commands over several nodes |
| `FleetUsersProofs` | stable identities, true reports, lasting disables, for any nodes, users and runs |
| `Workspace` | revisions of the fleet home, on two machines |
| `WorkspaceProofs` | sound revisions and archives, views that only advance, exact undoing, types, for any machines and commands |
| `Migrate` | the migration of a legacy home to a workspace |
| `MigrateProofs` | no row or key is destroyed, half a migration is refused or whole, what ok stands for, for any nodes, keys and number of migrations |
| `NodeInstall` | the installer: fresh install, migration, verification, on_exit |
| `NodeRestore` | EXTENDS it with backup create and restore |
| `NodeUpgrade` | EXTENDS it with checkpoint and rollback on the node and the controller's upgrade |
| `Provision` | EXTENDS it with provisioning and adoption: the whole node lifecycle |
| `ProvisionProofs` | stable identities, whole installations, exact rollbacks, true reports, for any commands, controllers, runs and faults |
| `MC...` | instances for TLC |

A definition introduced by "Mutant of" is not part of a specification: it is a
plausible bug in the code the original models, kept to show that a property
would notice it. `Accountd` explains the convention.

### Accountd and AuditLog

`committed` is the database on disk, `work` the open transaction, `cache` the
`known_open` dictionary, `phase` and `todo` where the daemon is in its tick, and
`clash` what the Clash API would answer. A poll (`BeginPoll`) takes one answer of
the API; `Account` then treats its connections in any order, each by exactly one
of the cases of `apply_poll_delta` (invalid counters, unknown, untracked, reset,
grown); `PollGone`, `EndTracked` and `CloseStale` close what the answer lacks;
`CommitPoll` and `CommitFails` are the two ends of `commit_accounting`.
Retention works in batches, one row per step, with a commit after each batch.
`Crash` leaves `committed` and nothing else. `Start`, `MigrateRow` and
`FinishMigration` are `open_db` on a new, a current or a legacy database.

`AuditLog` has two actions, `Append` (closed rows get the next numbers) and `Prune`
(entries go, not necessarily the lowest first, and the mark rises to cover them).
`ImplementsAuditLog` maps the rows of `committed` that have a number to that log; it is
checked as a refinement and proved: whatever polls, failures, deaths and retention do,
a reader of the database sees an append-only log, which is what `FleetSync` relies
on: its hosts take `AuditLog` steps.

### FleetSync

One logical node, served by one host after another. `node[h]` is a host with its
log, `db` the node's rows of `fleet.db`, `reg` and `life` its entry of
`fleet.json`. The controller is sequential, because everything it does here holds
the fleet lock; its program counter `pc` runs through `sync_one_node` (identity,
record instance, the three reads of the export, validation, import) and through
`cmd_node_replace` (backup, restore, identity, verify, the three commits to
`fleet.db`, `save_registry`), and may be cut off anywhere (`Abort`). Hosts close
and expire events between any two of these steps. A sync may be answered by another
node than the registered one (`Foreign`): the cursor then carries the instance of that
node until the next good answer.

### FleetOpLock

`depth` is local to the thread, `owner` and `count` are the RLock of a process,
`global` is `_FLEET_LOCK_FH`, `file` the local variable of `release`, `flock` the
lock in the kernel. Each statement that another thread can see is an action;
every failure path of `acquire` is there. The lock surrounds everything in
`FleetSync`, which is what justifies its sequential controller.

### NodeUsers

`files` is `users.json`, `config.json` and `owner.uri`; `proxy` is what sing-box
actually accepts; `saved` and `staged` are a command's backup and staged
registry. The steps are those of `user_mutation_apply`, `commit_user_mutation`
and `restore_user_mutation`: one file installed or one `systemctl` call each.
`state.json` is copied unchanged and left out; so are the order and the names of
users in `config.json` (UUIDs identify them). The restore's `install` is taken as
one step per file.

### FleetUsers

A run of the controller has a `plan` of (user, node, user_id) tasks, a `row` of
results and a `pc` in `provision_user_on_node`: show, send, wait. `remote` holds the
commands on the nodes; `by` is the run that waits for one. `Lose` and `Kill` leave
the command running, which is what ssh does. Of `NodeUsers` a node keeps the steps
that another command or `vcl user show` can see: the lock, the staged registry,
`users.json` installed, and its fate after the health check. `firm` records whether
a result rests on a `users.json` that nobody can still put back.

### Workspace

`files` and `man` are the homes of the machines, `man` with digest and revision;
`view` is what each machine has seen. A command holds the fleet lock, checks the manifest
against files and view, writes its files one by one and commits the manifest with
the next revision (`workspace_mutation`); it may be killed between any two writes.
Export reads file after file without the lock; import stages, checks, and
replaces member after member, putting back what it replaced when a write fails
(`InstallFails`); a put-back that fails too is passed over, and may leave a file cut
short (`PutBackFails`). Import and init take no lock. What happens when one of them runs
beside another writer on its machine is in the model; the history variable `raced`
notes that it did, and the properties speak of what came before (section 4 says why).

### Migrate

`reg`, `man`, `trust`, `hist` are the portable files, `homedb` and `localdb` the
`fleet.db` of a legacy home and of each fleet_id, `bind` the key bindings of each
fleet_id. A migration begins, stages (`Staged` is everything that steps 7 to 14
compute), copies the old files aside, replaces one file per step in the order of
`Members` and commits the first revision; `BreakOff` ends it anywhere, and what was
replaced stays. Between migrations nodes are adopted and synced, which is what
tells whether a half-migrated home is refused or works on with less. `own` and
`all` remember the key each node was adopted with and every row imported, `mig.found`
the home a migration began with: a legacy one (`WasLegacy`), a workspace, or what a
broken-off migration left of either.

### NodeInstall, NodeRestore, NodeUpgrade, Provision

One node in four layers, each of which EXTENDS the one before. `disk` is the files
by kind, each the tuple of what has to agree (who, which key, which users, which
version); `svc` is what systemd has enabled and what sing-box serves; `lock` is the node
operation lock; `cmd[c]` is a command under way with what it has still to write and
what it found. A command prepares under the lock, writes a file per step,
starts the services and commits; a failing step leads to its own rollback: the
installer's EXIT trap (which has released the lock before), `rollback_restore`
with the safety copy and the list of written files, `upgrade rollback` with a
checkpoint. A migration is armed first; then it copies the node file by file
(`SaveFiles`, or `SaveBreaks` with the files up to some point and maybe a part of the
next), waits for the old service, stages, and stops accountd. A failure in any of these
steps rolls back from what there is of the backup. `torn` is the files that were cut
short by a copy that failed: they are there, but nothing can read them. `Kill` leaves the
node as it is and notes it in `scars`, the history that the properties ask about, with a
rollback that broke off or had a torn backup (`"undo"`) and a lock taken under an
unfinished rollback (`"beside"`). `ctl[k]` is a controller in `run_upgrade_apply` or in
`node provision`; it waits for a command on the node, may lose it (ssh), and tells a
result (`told`). Provision holds the fleet lock (`Sole`), upgrade does not.
`ChangeUsers` stands for the commands of `NodeUsers` in one step, `NewHost` for
another, empty host under the same name.

## 3. Runs

| Run | Question | Bounds |
|---|---|---|
| `accountd` | counting, sequence numbers, the inductive invariant, the refinement of `AuditLog`, liveness | one id reused (2 incarnations), two counters up to 1 with resets, 2 days, batch 1 |
| `fleet_sync_move` | is anything skipped, lost, replaced; is the history of instances sound | two hosts, two events |
| `fleet_sync_live` | does the controller catch up, also with older backups | two hosts, one event |
| `fleet_sync_race` | violated: silent loss in an export that races with retention | one host, three events |
| `fleet_sync_stale` | violated: a stale cursor is refused | two hosts, two events, older backups |
| `fleet_op_lock` | exclusion, leaks, deadlock | two threads of one process and one of another, depth 3 |
| `node_users` | files, restores, revocation, shortcut past the restart | two users, two commands at a time, three UUIDs |
| `fleet_users` | identities, reports, disables against late commands | three runs, two at a time, two nodes, two commands at a time on each, one user, two user_ids |
| `node_users_disable` | violated: a reported disable takes effect | one command at a time |
| `workspace` | torn, rolled back, diverged and half-imported homes | two machines, two commands at a time, four in all, one fault |
| `node_lifecycle` | whole installations, exact rollbacks, identity, true reports | two commands at a time, two controllers, four commands or identities in all, one fault |
| `migrate` | migrations that break off, are repeated, meet a workspace | two nodes, two keys, eight commands, two faults |

Why the bounds are enough to show something: a generation needs a reset and a
reuse of the id, both happen with two incarnations and counters of 0 and 1;
batches need a backlog larger than a batch; a race in an export needs one event
deleted below one that stays; a fork of the history needs two events with the
same number on two hosts; nesting needs depth 2 and a release in between;
a lost update needs two commands on two users;
a false report needs two runs, a late command three; a torn archive needs one commit
between two reads; going back needs a second machine; a migration that loses
something needs a key, a row, a break-off and a second try; a rollback to a
checkpoint needs an older install, an upgrade, and its undo, with one
fault in between (with two faults, or five commands, the state space of the
lifecycle with two commands at a time is beyond the time a run is given). Larger instances were run once
each: `fleet_sync_move` with three events (10 million states) and with three hosts
(11 million), `node_users` with four UUIDs (3 million), `fleet_users` with two users
on one node, where an import has two rows; the lifecycle with one command at a time, one
controller, two faults and no CONSTRAINT (434 thousand states), where torn files meet
later commands and a rollback from a partial backup breaks off.

Symmetry is used over connection ids, event ids, hosts other than the first, UUIDs,
user_ids, nodes, runs and processes, in runs without liveness only. Two runs have a
CONSTRAINT, `Followed`: `workspace` does not go on from a state in which an init or an
import runs beside another writer, `node_lifecycle` not from one with a rollback beside
another command or with torn files. What the properties still promise of
the states after that (types, identity, a host that is replaced) is proved without it. `CHECK_DEADLOCK FALSE` stands where
the system may stop: a node that is retired and has nothing left to close, an operator
who begins no more runs.

Fairness. accountd: its loop goes on (weak fairness of polls), and what can fail
(COMMIT, a retention batch) succeeds if it is tried again and again, the daemon is
up from some point on (systemd restarts it). Sync: every command ends, since ssh
has timeouts (weak fairness of ending); someone syncs again and again, and each of
its steps, tried infinitely often, works infinitely often (strong fairness per
step). The lock has safety properties only.

## 4. Where the code does not do what it says

- `fleet_sync_race` (`lib/vincula-audit.py:312`): the export's three reads are not
  one transaction. A retention batch between the check of the prune mark and the
  selection of rows deletes events above the cursor, and the export answers OK
  without them.
- `fleet_sync_stale` (`lib/vincula-fleet.py:3141`): node replace keeps the cursor.
  It is refused only while it is ahead of the restored database; once the node has
  closed enough connections it is accepted, and the first of those are skipped.
- `node_users_disable` (`bin/vincula:1629`): whether sing-box must be restarted is
  decided by comparing files. A disable that was killed between installing
  `config.json` and the restart reports success when it is run again, with the
  credential still accepted.
- Not a run: a retry of `user add` (`lib/vincula-fleet.py:4661`) takes the user it
  finds for a success, also while the command that added it has not passed its
  health check. That command then removes the user; the retry has exited 0.

The following are stated in the modules, and TLC violates each of them in the model, on the
instance named; they are in no run:

- `OnlyMutationsChange` (one machine, two commands at a time, three in all, no fault;
  `lib/vincula-fleet.py:7143`): `workspace import` and `init` take no fleet operation lock,
  and an import replaces the files before it enters `workspace_mutation`, which says of
  itself (`lib/workspace.py:897`) that they change through it only. A registry command that
  loaded the registry before saves it over the imported one.
- `FailedImportRestores` (one machine, one command at a time, three in all, no fault;
  `lib/workspace.py:1861`): an import promises an unchanged workspace when it fails (1843).
  It looks whether the archive is older than what the machine has seen after it has
  installed it.
- `FailedMigrationRestores` (one command at a time, two commands or identities, one fault;
  `vincula.sh:299`): a migration is rolled back from the moment it is armed (1778). When the
  backup that comes next breaks off within a file (1658), the rollback puts the truncated
  copy over the good file. `docs/specs/V0.4.5_Spec.md:322` asks for a complete rollback. Any
  other failure in that window is rolled back exactly (`RollbackIsExact`).
- `OneWriter` (two commands at a time, three commands or identities, one fault;
  `vincula.sh:322`): `on_exit` of the installer releases the operation lock before it rolls
  back. A command that waited for the lock works in between, finds half an installation
  and has its own files taken away. Nothing in the repository promises that the rollback
  is under the lock.
- `FailedKeepsFleet` (one node, one key, two commands, one fault; `lib/workspace.py:1498`):
  `docs/specs/vcl-spec-v0.4-v0.5-rev1.md:1225` (AC-4.0-M03) says that a migration that fails
  must not break the legacy fleet. One that dies after `fleet.json` was replaced and before
  the bindings leaves refs that are bound to nothing: nodes with a key are refused.
  `BrokenIsRefused` is what remains true.
- `OkIsUsable` (one node, one key, four commands, one fault; `lib/workspace.py:1361`): begun
  again, that migration finds no key files any more and says ok with empty bindings, where
  line 1227 of the same document (AC-4.0-M04) says that sync works after it. When a node
  with a key file was added in between, the new bindings give its key to the node whose ref
  has the same number. And when the first migration died between `workspace.json` and
  `fleet.db`, the old rows stay in the home's `fleet.db`, which nothing reads any more; the
  copies set aside have it all (`NothingDestroyed`). This is why `OkIsWhole` says of a legacy
  home that all its nodes are reached, and of any other only that a node named without a ref
  keeps its key and that the rows the migration found are there.

Also met, without a statement of its own:

- `workspace migrate` on a workspace is not refused: it mints a new
  fleet_id, under which there are no bindings, and copies host keys from
  `~/.ssh/known_hosts` only, so that those pinned in the workspace's own
  `trust/known_hosts` are gone. `node adopt -i` in a workspace (`lib/vincula-fleet.py:2113`)
  binds the one ref `admin-default` again, for all nodes that use it. The same
  document (line 1141) sets `observe_credential_ref` at a migration; the code
  (`lib/workspace.py:1368`) leaves it out, so `status` is refused until it is set.
- A failing `systemctl restart` (`bin/vincula:1606`) ends a user command
  under `set -e` with the new files in place; only a failed health check restores
  the backup. `RestartFails` models this, and the properties of `node_users` hold
  with it.

## 5. Proofs

`AccountdProofs` (assumptions: the constants are finite sets and numbers, as
`Accountd` states): `Soundness` proves that `IndInv` is invariant, for any
connections, directions, retention and batch size. `ExportSeqSound` alone is not
inductive: it speaks of the database, and the open transaction, the rows still to
be pruned or numbered and the cache decide what the next commit makes of it.
`IndInv` says the same of `committed` and of `work`, how the two may differ in each
phase, what `todo` may hold, and that the cache is that of a reload. One lemma per
action shows that it is preserved; `TypeCorrect`, `GenerationsCorrect`,
`ExportSeqCorrect`, `BaselineCorrect` and `CacheCorrect` follow.

Its second part, `Refinement`, proves `Spec => ImplementsAuditLog`. A commit is one step
of the log, but many statements make it; so the proof compares the open transaction with
the committed database. `Grows` says that it only appended (polls, the migration),
`Shrinks` that it only pruned (retention), both are transitive, and `LogInv` says which
of the two holds in which phase. A commit is then an `Append`, a `Prune` or a stutter.

Its third part is about accounts. For `DeltaOnceHolds`, `DeltaInv` compares the baselines
of the open transaction with the committed ones: as long as a generation goes on, the
accounted bytes moved by what the raw counters moved. It needs from `IndInv` that a poll
comes to a connection whose baseline the transaction has not touched (`Untouched`).

`NoOvercountHolds` says that over all generations of a connection no more bytes are on
record than it carried. The sum over the rows is no induction hypothesis by itself: a poll
adds to it what the counter grew by since the baseline. So `Covered` says, of the committed
database and of the open transaction, that the account together with that growth is
within what was carried, and `Pending` says it of the snapshot that a poll works from while
traffic goes on. A write leaves the sums alone, moves one account by the growth it
books (`PollDelta`), or takes a row away (`PruneRow`); a new generation starts a row with
what its counters say, and a baseline that a crash takes back takes its row's bytes along.

The lowest and highest number of a set and sums over finite sets are lemmas of the modules
that use them, from the well-foundedness of strict inclusion on finite sets, a theorem of
the library. A sum is any function that adds one element at a time (`IsSum`): it exists,
does not depend on the order, and is what the community modules' fold computes.

`FleetSyncProofs`, for any number of hosts and events. `CopyInv` says that the serving
host, the backup a move has taken and the host it goes to are fit to serve (`Serves`: they
have reached the cursor, what they have up to it is imported, their unused event ids are
new), that an answer read in three statements has no hole up to its last number
(`AnswerSound`), and that what was closed before a retirement or a move is imported by the
time the command depends on it (`Settled`). `NothingSkippedHolds`, `EventsKeptHolds` and `HandsOverHolds` follow. They
assume `NoOlderBackup`, that is, no `node replace --from-backup`: with it TLC
violates all three, for the reason that `fleet_sync_stale` shows. `HistorySoundHolds` and
`TypeCorrect` need no such assumption: they rest on `HistInv`, the order in which instances
are recorded, closed and named by the cursor (which an identity check that failed may make
that of the foreign host that answered), and on the same of what the hosts, the backups
and the answers under way are (`HostSide`, `CopySide`): an older backup is of the right
type, whatever else is wrong with it.

`NodeUsersProofs`, for any users, UUIDs and processes. A command changes three files one
after the other, from a backup and a staged registry it took before; `UsersInv` says that
the lock keeps those true: while a process holds it, each file is the one it saved or the
one it staged, and its program counter tells which (`FilesInv`, `HolderInv`). From this
follow `NoLostUpdateHolds`, `RestoreIsExactHolds`, `SuccessSettlesHolds` and, with what
sing-box serves outside a restart (`ServedInv`), `SuccessServedHolds`.
`RevokedStaysOutHolds` also needs that in one registry no credential is both in use and
revoked and that a generated one is new to all (`RegistrySound`, `FreshSound`).

`FleetUsersProofs`, for any finite set of nodes, users and user_ids and any runs, slots and
number of runs. `HeldInv`: what a command with the lock has staged is its change of what it
saved, and the registry is one of the two. `WaitInv`: a command that a run waits for is the
only one, and does the run's next task, so that its answer is about that task. `Firm` is the
heart: a user is there and no command under way saved a registry without him; no
change takes a user away and only an add, refused for users who are there, could bring
another user_id, so what is firm stays firm. `FirmInv` says that answers, rows and reports
that claim it are firm, which is `SuccessIsTrueHolds`. `SettledInv` says the same of a user
who is off, with no enable under way: `DisableSticksHolds`. `IdentityIsStableHolds` follows
from `HeldInv` alone. `TypeCorrect` includes that an import's plan, one user after the other,
is a list of tasks, which is an induction over the file (`FlattenTasks`).

`WorkspaceProofs`, for any machines, commands, writes and revisions, of every behaviour of
the model. The properties say of themselves up to where they hold: until an import or an init
runs beside another writer (`~ raced`), which the code does not prevent and after which TLC
violates `OnlyMutationsChange`, the same without that condition (section 4); `TypeCorrect` holds beyond that. No command sees more
than its own home and an archive may carry a home away at any moment, so `WsInv` speaks of
every manifest there is, in a home, in a command's memory, in an archive (`Known`): its
digest matches nothing but what was committed under its write_id (`ManifestSound`). A
commit keeps that because one command at a time writes to a home (`Exclusion`) and finds
it as it left it (`HomeInv`), an init because no digest is about yet for the revision it
completes (`SealInv`). What a put-back that failed leaves is a mixture of two homes, or
cut short, and either matches no digest or is one of the two. `CleanIsCommittedHolds` and `ArchiveIsARevisionHolds` are read off it;
`SeenOnlyAdvancesHolds` needs in addition what a command's machine has seen since it checked
(`SeenInv`), `FailedWriteRestoresHolds` what it saved before it wrote.

`TypeCorrect` bounds write_ids: they are within `2 * MaxRuns + 1` however commands overlap,
which is not inductive, as a command still to commit would take a number nobody kept for
it. `NumberInv` gives each run two numbers: every commit takes one that is no other's
(`Counted`), a command that has not committed yet still has its highest ones before it
(`Reserved`), and a lock does not outlive the command that took it (`LockLives`).

`MigrateProofs` (assumptions: finitely many keys, and `None` is no other value):
`NothingDestroyedHolds`. What a step overwrites has been set aside (`PutInv`: until a
member's turn comes, a copy equals it) or was never there: the new fleet_id is that of no
earlier command, so nothing is stored under it (`Unused`). The order of the members plays no
part in it. `OkIsWholeHolds` needs that what was staged is all of the home that was found
(`StagedHome`), that the members whose turn has passed are in place (`Placed`), and, for the
nodes of a legacy home, that a host is pinned in the operator's own file as long as there
is no workspace (`PinnedInv`).
`BrokenIsRefusedHolds` is where the order does matter (`FirstInv`): no host is trusted in
the new workspace before its database is there, and the registry that names refs comes
before the manifest that lets one be used.

`ProvisionProofs`, for any commands, controllers, runs and faults. Three invariants stand on
each other. `NodeInv` is about order: the lock names the command that changes the node
(`LockHeld`), a controller and the command it waits for know each other (`AwaitInv`), a
command knows how far it is in the files it has to write (`Progress`) and where their
contents come from (`Source`), only the node that was there first is of the version before
(`NativeInv`), and a restore works on a node without VERSION (`UninstalledInv`).
`TypeCorrect` and `InstalledKeepsIdentityHolds` follow, whatever is torn and whoever works
beside a rollback.

`WholeInv` is about contents: at most one command changes the node, the node is a mixture of
what that command found and what it brings (`Midway`), it found a node at rest (`AtRest`), and
a checkpoint is one that can be put back (`Good`). A backup is whole, partial or torn
(`Backed`); with a partial one the files that it lacks have not been touched yet, which is
why the rollback is still exact. `InstalledIsWholeHolds` and
`RollbackIsExactHolds` are read off it. It promises less of a node on which a command was
killed (`scars`), as the properties do. `ReportInv` is what a provisioning may rely on while
it waits, verifies and reads the identity: no command can begin to change an installed node
of the new version, so what it has seen is still so when it tells (`Stable`), which is
`ReportIsTrueHolds`.

None of them assumes anything of who waits for the lock. A command that takes it under an
unfinished rollback leaves `"beside"` in `scars`, a torn backup or a broken-off rollback
`"undo"`, and `WholeInv` and `ReportInv` claim nothing of such a node, as the properties
do not; section 4 says what becomes of it.

`FleetOpLockProofs`: `LockSound` proves `LockInv`, from which `MutexHolds` and
`NothingLeakedHolds` follow; `NestedIsGrantedHolds` too, as a thread that is inside owns its
process's lock with as many entries as it is deep. `Mutex` is not inductive: it needs who holds what at
each program point (`Holding`, `Holds`), that a thread which is inside or on its
way out still owns the handle its process will close, and that the flock is held
through to the close.

Model-checked only: liveness (`GoneIsClosed`, `BacklogDrains`, `CatchesUp`), which is out of the prover's reach. Every safety property and every action property that a
passing run checks is a theorem.

## 6. What could come next

The UI's bounded worker pool on top of `FleetOpLock`; the daily rollup; the export
with its three reads as a refinement of an atomic one, once the code makes it one.

## 7. Not modelled

- accountd's daily usage rollup and rebuild, destination log, health file; loss of
  committed transactions at a power failure (WAL with `synchronous=NORMAL`).
- In sync: telemetry and user snapshots, copies of daily usage, `--limit`,
  `node set --host`.
- In fleet users: rotate, the links and credentials reported, users that a restored
  older backup of a node lacks, nodes that are disabled or retired meanwhile.
- In user commands: validation of tags and metadata, rendering of links, a
  `systemctl` that cannot reach systemd and changes nothing.
- In user commands too: a step of the restore that fails is passed over by the code
  (`|| true`); in the model it is taken or the command is killed.
- In the workspace: the contents of an archive beyond its digests, `last-status.json`,
  permissions, `EXDEV` renames; the migration's dry run; the class of credential (observe)
  a node is read with.
- In the node lifecycle: uninstall, the bootstrap download, the legacy seed, encryption
  of archives, their pruning, packages and firewall, time limits as numbers; the branch of
  the health wait for a legacy inbound (the old service is stopped first); identities
  minted and a REALITY host replaced by a migration (an old node without them);
  `--skip-preflight`; a checkpoint taken of torn files. A restart
  of the host (units enabled but not running) is not a step.
- Parts that PROJECT.json lists as `not_modelled`, with reasons.
