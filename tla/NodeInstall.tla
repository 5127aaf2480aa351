----------------------------- MODULE NodeInstall -----------------------------
(***************************************************************************)
(* What the installer vincula.sh does to a node: the runtime alone, a new  *)
(* node, the migration of an older one, the check of one that is up to     *)
(* date.  A command prepares under the node operation lock, replaces the   *)
(* files one by one and starts the services; when a step fails its EXIT    *)
(* trap puts the node back - after it has given up the lock (on_exit), and *)
(* in a migration from as much of a backup as there is.                    *)
(* NodeRestore, NodeUpgrade and Provision add the other commands; this     *)
(* module has the state of the node and what all of them share.            *)
(*                                                                         *)
(* A file is Absent or a tuple of the few things that must agree: who the  *)
(* node is, with which Reality key, which users, which version.  What is   *)
(* new is named by the command that makes it.  state.json goes with        *)
(* config.toml, the programs (helper, libraries, units) with each other.   *)
(* A file that was cut short (torn) is there, but nothing reads it; disk   *)
(* has what it would say.                                                  *)
(* A change of the users is one step here; NodeUsers has its steps.        *)
(*                                                                         *)
(* A definition whose comment starts with "Mutant of" is not part of the   *)
(* specification (see Accountd).                                           *)
(***************************************************************************)
EXTENDS Naturals, Sequences

CONSTANTS
  Cmd,       \* commands at a time
  MaxRuns,   \* bound: commands and node identities ever
  MaxFaults  \* bound: steps that fail, kills, ssh sessions lost

ASSUME ConstantsAssumption ==
  /\ "none" \notin Cmd
  /\ MaxRuns \in Nat \ {0, 1} /\ MaxFaults \in Nat

VARIABLES
  disk,    \* the files of the node
  torn,    \* those of them that were cut short
  svc,     \* units enabled, the config sing-box serves, accountd running
  lock,    \* who holds the node operation lock
  cmd,     \* the commands under way
  arch,    \* the backup archives the operator has
  runs,    \* commands begun
  faults,  \* faults still to come
  scars    \* history: kinds of commands that were killed and left the node in
           \* the middle, "verify" when one was checked in the middle, "undo"
           \* when one was put back badly, "beside" when a command took the
           \* lock while a rollback without it was due

node == <<disk, torn, svc, lock, cmd, arch, runs, faults, scars>>

None == "none"
Old == 1
New == 2        \* the version of the payload

File == {"state", "users", "config", "uri", "db", "VERSION", "prog", "marker"}
Absent == <<>>
NoFiles == [f \in File |-> Absent]
Stopped == [on |-> {}, sing |-> Absent, acct |-> FALSE]

(* The files of node n, instance i, key k, with users u.                   *)
Rendered(n, i, k, u, v) ==
  [state |-> <<n, i, k>>, users |-> <<u>>, config |-> <<k, u>>,
   uri |-> <<k, u>>, db |-> <<n>>, VERSION |-> <<v>>, prog |-> <<v>>,
   marker |-> Absent]

(* The order in which the files are copied, put back and removed.          *)
FileOrder == <<"prog", "config", "VERSION", "marker", "state", "users", "uri", "db">>
Front(n) == {FileOrder[i] : i \in 1..n}

Readable(fs) == fs \cap torn = {}

Runtime == [NoFiles EXCEPT !["db"] = <<0>>, !["prog"] = <<New>>,
                           !["marker"] = <<0>>]

Installed(d) == d["VERSION"] # Absent

(* The files agree on keys and users.                                      *)
Agree(d) ==
  /\ d["state"] # Absent /\ d["users"] # Absent
  /\ d["config"] = <<d["state"][3], d["users"][1]>>
  /\ d["uri"] = d["config"]

(* systemctl enable, with and without --now, start, restart.               *)
EnableNow(s, d, u) ==
  [s EXCEPT !.on = @ \cup u,
            !.sing = IF "sing" \in u /\ @ = Absent THEN d["config"] ELSE @,
            !.acct = @ \/ "acct" \in u]
Both == {"sing", "acct"}

(* Apply a captured service state to services that run.                    *)
PutServices(s, old, d) ==
  [on   |-> old.on,
   sing |-> IF old.sing = Absent THEN Absent
            ELSE IF s.sing = Absent THEN d["config"] ELSE s.sing,
   acct |-> old.acct]

-----------------------------------------------------------------------------
(* A command: its kind, its next step, who waits for it, the run that      *)
(* names what it makes, the files it still has to write and their new      *)
(* contents, what it wrote, the node as it found it, and for a migration   *)
(* what is in its backup, with the files of it that are torn.              *)
Idle == [kind |-> None, pc |-> "idle", by |-> None, id |-> 0, todo |-> <<>>,
         new |-> NoFiles, wrote |-> {}, found |-> NoFiles, before |-> Stopped,
         saved |-> NoFiles, cut |-> {}]

Command(kind, pc, by, new) ==
  [Idle EXCEPT !.kind = kind, !.pc = pc, !.by = by, !.id = runs + 1, !.new = new]

Begin(c, command) ==
  /\ cmd[c] = Idle /\ runs < MaxRuns
  /\ cmd' = [cmd EXCEPT ![c] = command]
  /\ runs' = runs + 1

(* The end of a command; one that a controller waits for keeps its result. *)
Ended(c, result) ==
  IF cmd[c].by = None THEN Idle
  ELSE [Idle EXCEPT !.kind = cmd[c].kind, !.by = cmd[c].by, !.pc = result]

Finish(c, result) == cmd' = [cmd EXCEPT ![c] = Ended(c, result)]

Release(c) == lock' = IF lock = c THEN None ELSE lock

(* Rolling back without the lock.                                          *)
Unlocked(c) == cmd[c].pc = "rollback" /\ lock # c

Mutating(c) == cmd[c].pc \in {"save", "health", "stage", "write", "start", "commit",
                              "rollback"}

(* acquire_vincula_op_lock: the lock is free, or the wait ends.            *)
Acquires(c) == cmd[c].pc = "lock" /\ lock = None

(* The scars when the lock is taken.                                       *)
Disturbed == IF \E b \in Cmd : Unlocked(b) THEN scars \cup {"beside"} ELSE scars

(* Mutant of Refuse: the lock is kept by a command that refuses.           *)
RefuseLocked(c) ==
  /\ Finish(c, "failed") /\ lock' = c
  /\ UNCHANGED <<disk, torn, svc, arch, runs, faults, scars>>

Refuse(c) ==
  /\ Finish(c, "failed")
  /\ UNCHANGED <<disk, torn, svc, lock, arch, runs, faults, scars>>

Busy(c) == cmd[c].pc = "lock" /\ lock # None /\ Refuse(c)

(* What a command does before its first change: it holds the lock, keeps   *)
(* the node as found, and knows what to write.                             *)
Prepared(c, pc, todo, new, services) ==
  /\ lock' = c
  /\ svc' = services
  /\ cmd' = [cmd EXCEPT ![c].pc = pc, ![c].todo = todo, ![c].new = new,
                        ![c].found = disk, ![c].before = svc]
  /\ scars' = Disturbed
  /\ UNCHANGED <<disk, torn, arch, runs, faults>>

-----------------------------------------------------------------------------
(* vincula.sh, by the operator or for a controller.                        *)
RunInstaller(c, kind, by) ==
  /\ Begin(c, Command(kind, "main", by, NoFiles))
  /\ UNCHANGED <<disk, torn, svc, lock, arch, faults, scars>>

(* main: VERSION, read before the lock, decides what the run is.           *)
Main(c) ==
  /\ cmd[c].pc = "main"
  /\ \/ /\ cmd[c].kind = "runtime" /\ ~Installed(disk)
        /\ cmd' = [cmd EXCEPT ![c].pc = "lock"]
        /\ UNCHANGED <<disk, torn, svc, lock, arch, runs, faults, scars>>
     \/ cmd[c].kind = "runtime" /\ Installed(disk) /\ Refuse(c)
     \/ cmd[c].kind = "installer" /\ ~Readable({"VERSION"}) /\ Refuse(c)
     \/ /\ cmd[c].kind = "installer" /\ Readable({"VERSION"})
        /\ cmd' = [cmd EXCEPT ![c].kind = IF ~Installed(disk) THEN "fresh"
                                          ELSE IF disk["VERSION"] = <<New>>
                                          THEN "verify" ELSE "migrate",
                              ![c].pc = IF Installed(disk)
                                           /\ disk["VERSION"] = <<New>>
                                        THEN "check" ELSE "lock"]
        /\ UNCHANGED <<disk, torn, svc, lock, arch, runs, faults, scars>>

(* preflight_clean_install: nothing of an install is there.                *)
Clean(d) == d = NoFiles

RuntimeOrder == <<"prog", "db", "marker">>
InstallOrder == <<"config", "state", "users", "uri", "VERSION", "prog">>

PrepareRuntime(c) ==
  /\ Acquires(c) /\ cmd[c].kind = "runtime"
  /\ CASE Installed(disk) -> Refuse(c)
       [] disk["marker"] # Absent /\ ~Installed(disk) ->
            /\ Finish(c, "done")
            /\ UNCHANGED <<disk, torn, svc, lock, arch, runs, faults, scars>>
       [] OTHER -> IF Clean(disk) THEN Prepared(c, "write", RuntimeOrder, Runtime, svc)
                   ELSE Refuse(c)

PrepareFresh(c) ==
  /\ Acquires(c) /\ cmd[c].kind = "fresh"
  /\ LET r == cmd[c].id
     IN IF Clean(disk)
        THEN Prepared(c, "write", InstallOrder, Rendered(r, r, r, r, New), svc)
        ELSE Refuse(c)

(* Mutant of Migrated: the config gets a key that state.json has not.      *)
MigratedKey(d) ==
  [Rendered(d["state"][1], d["state"][2], d["state"][3], d["users"][1], New)
     EXCEPT !["config"] = <<runs, d["users"][1]>>]

(* Identity, keys and users stay; the config is rendered anew.             *)
Migrated(d) ==
  Rendered(d["state"][1], d["state"][2], d["state"][3], d["users"][1], New)

Canonical(d) == \A f \in {"state", "users", "config", "uri"} : d[f] # Absent

(* The checks, the state of the services noted; with MIGRATION_STARTED a   *)
(* failure is rolled back from here on.                                    *)
PrepareMigrate(c) ==
  /\ Acquires(c) /\ cmd[c].kind = "migrate"
  /\ IF Canonical(disk) /\ Readable({"state", "users", "config"})
     THEN Prepared(c, "save", InstallOrder, Migrated(disk), svc)
     ELSE Refuse(c)

(* backup_existing_install, to the marker.                                 *)
SaveFiles(c) ==
  /\ cmd[c].pc = "save"
  /\ cmd' = [cmd EXCEPT ![c].pc = "health", ![c].saved = disk, ![c].cut = torn]
  /\ UNCHANGED <<disk, torn, svc, lock, arch, runs, faults, scars>>

(* The old service is enabled, started if it is down, and healthy;         *)
WaitForService(c) ==
  /\ cmd[c].pc = "health"
  /\ svc' = EnableNow(svc, disk, {"sing"})
  /\ cmd' = [cmd EXCEPT ![c].pc = "stage"]
  /\ UNCHANGED <<disk, torn, lock, arch, runs, faults, scars>>

(* the new files are rendered and checked, accountd is stopped.            *)
StopAccountd(c) ==
  /\ cmd[c].pc = "stage"
  /\ svc' = [svc EXCEPT !.acct = FALSE]
  /\ cmd' = [cmd EXCEPT ![c].pc = "write"]
  /\ UNCHANGED <<disk, torn, lock, arch, runs, faults, scars>>

(* verify_existing_install takes no lock, and starts what does not run.    *)
(* It passes when the Clash API that sing-box serves takes the secret of   *)
(* config.toml, which changes with the Reality key.                        *)
VerifyExisting(c) ==
  /\ cmd[c].pc = "check"
  /\ IF ~Canonical(disk) \/ disk["prog"] = Absent \/ ~Readable(File)
     THEN Refuse(c)
     ELSE /\ svc' = EnableNow(svc, disk, Both)
          /\ Finish(c, IF svc'.sing[1] = disk["state"][3] THEN "done" ELSE "failed")
          /\ scars' = IF \E b \in Cmd : Mutating(b) THEN scars \cup {"verify"}
                      ELSE scars
          /\ UNCHANGED <<disk, torn, lock, arch, runs, faults>>

(* The next file, written beside its place and renamed over it.            *)
Write(c) ==
  /\ cmd[c].pc = "write" /\ cmd[c].todo # <<>>
  /\ LET f == Head(cmd[c].todo)
     IN /\ disk' = [disk EXCEPT ![f] = cmd[c].new[f]] /\ torn' = torn \ {f}
        /\ cmd' = [cmd EXCEPT ![c].todo = Tail(@), ![c].wrote = @ \cup {f},
                    ![c].pc = IF Tail(cmd[c].todo) = <<>> THEN "start" ELSE @]
  /\ UNCHANGED <<svc, lock, arch, runs, faults, scars>>

(* Mutant of Restarted: sing-box is started, not restarted.                *)
RestartedNot(s, d) == EnableNow(s, d, {"sing"})

Restarted(s, d) == [s EXCEPT !.sing = d["config"]]

StartService(c) ==
  /\ cmd[c].pc = "start"
  /\ \/ cmd[c].kind = "fresh" /\ svc' = EnableNow(svc, disk, {"sing"})
     \/ cmd[c].kind = "migrate" /\ svc' = Restarted(svc, disk)
     \/ cmd[c].kind = "runtime" /\ svc' = svc
  /\ cmd' = [cmd EXCEPT ![c].pc = "commit"]
  /\ UNCHANGED <<disk, torn, lock, arch, runs, faults, scars>>

(* accountd enabled and healthy: INSTALL_COMMITTED, lock released at exit. *)
CommitInstall(c) ==
  /\ cmd[c].pc = "commit" /\ cmd[c].kind \in {"fresh", "migrate", "runtime"}
  /\ IF cmd[c].kind = "runtime" THEN UNCHANGED <<disk, torn, svc>>
     ELSE /\ Readable({"db"})
          /\ svc' = EnableNow(svc, disk, {"acct"})
          /\ disk' = [disk EXCEPT !["db"] = IF @ = Absent THEN cmd[c].new["db"]
                                            ELSE @]
  /\ Finish(c, "done") /\ Release(c)
  /\ UNCHANGED <<torn, arch, runs, faults, scars>>

-----------------------------------------------------------------------------
Fault == faults > 0 /\ faults' = faults - 1

(* A step fails after the first change - accountd with a torn database     *)
(* always does.  The installer gives up the lock and rolls back afterwards.*)
FailInstall(c) ==
  /\ cmd[c].pc \in {"health", "stage", "write", "start", "commit"}
  /\ cmd[c].kind \in {"fresh", "migrate", "runtime"}
  /\ \/ Fault
     \/ cmd[c].pc = "commit" /\ ~Readable({"db"}) /\ faults' = faults
  /\ cmd' = [cmd EXCEPT ![c].pc = "rollback"]
  /\ Release(c)
  /\ UNCHANGED <<disk, torn, svc, arch, runs, scars>>

Copied(d, fs) == [f \in File |-> IF f \in fs THEN d[f] ELSE Absent]

(* The backup fails: it has the files up to some point, and maybe a part   *)
(* of the next one.                                                        *)
SaveBreaks(c) ==
  /\ cmd[c].pc = "save" /\ Fault
  /\ \E n \in 1..Len(FileOrder) : \E last \in SUBSET {FileOrder[n]} :
       cmd' = [cmd EXCEPT ![c].pc = "rollback",
                          ![c].saved = Copied(disk, Front(n - 1) \cup last),
                          ![c].cut = (torn \cap Front(n - 1)) \cup last]
  /\ Release(c)
  /\ UNCHANGED <<disk, torn, svc, arch, runs, scars>>

(* rollback_install                                                        *)
RollbackInstall(c) ==
  /\ cmd[c].pc = "rollback" /\ cmd[c].kind \in {"fresh", "runtime"}
  /\ disk' = NoFiles /\ torn' = {} /\ svc' = Stopped
  /\ Finish(c, "failed")
  /\ UNCHANGED <<lock, arch, runs, faults, scars>>

(* Mutant of Over: what is not in the backup is taken away.                *)
OverAll(d, saved) == saved

(* The files of the backup over those of the node.                         *)
Over(d, saved) == [f \in File |-> IF saved[f] # Absent THEN saved[f] ELSE d[f]]

(* What runs of services that were started with torn files.                *)
WithTorn(s, t) ==
  [s EXCEPT !.sing = IF t \cap {"prog", "config"} = {} THEN @ ELSE Absent,
            !.acct = @ /\ t \cap {"prog", "state", "db"} = {}]

(* rollback_migration: both services down, back with the files that the    *)
(* backup has, whole or not, services as found.                            *)
RollbackMigration(c) ==
  /\ cmd[c].pc = "rollback" /\ cmd[c].kind = "migrate"
  /\ disk' = Over(disk, cmd[c].saved)
  /\ torn' = {f \in torn : cmd[c].saved[f] = Absent} \cup cmd[c].cut
  /\ svc' = WithTorn(PutServices(Stopped, cmd[c].before, disk'), torn')
  /\ scars' = IF cmd[c].cut = {} THEN scars ELSE scars \cup {"undo"}
  /\ Finish(c, "failed")
  /\ UNCHANGED <<lock, arch, runs, faults>>

(* The rollback breaks off: killed, or a file cannot be written.  It ends  *)
(* within a file, with both services down.                                 *)
RollbackBreaks(c) ==
  /\ Unlocked(c) /\ Fault
  /\ LET x == cmd[c]
         back == IF x.kind = "migrate" THEN Over(disk, x.saved) ELSE NoFiles
         done(n) == IF x.kind = "migrate"
                    THEN {f \in Front(n) : x.saved[f] # Absent} ELSE Front(n)
     IN \E n \in 1..Len(FileOrder) :
          /\ disk' = [f \in File |-> IF f \in Front(n) THEN back[f] ELSE disk[f]]
          /\ torn' = (torn \ done(n)) \cup (x.cut \cap done(n))
                      \cup (IF x.kind = "migrate" THEN done(n) \ Front(n - 1) ELSE {})
  /\ svc' = Stopped /\ scars' = scars \cup {"undo"}
  /\ Finish(c, "failed")
  /\ UNCHANGED <<lock, arch, runs>>

(* A command killed in the middle leaves the node as it is.                *)
Kill(c) ==
  /\ Mutating(c) /\ ~Unlocked(c)
  /\ Fault
  /\ scars' = scars \cup {cmd[c].kind}
  /\ Finish(c, "failed") /\ Release(c)
  /\ UNCHANGED <<disk, torn, svc, arch, runs>>

(* vcl user: config, users and owner.uri rendered from the new registry.   *)
ChangeUsers ==
  /\ Installed(disk) /\ Agree(disk) /\ disk["prog"] # Absent
  /\ Readable(File \ {"VERSION", "db"})
  /\ lock = None /\ runs < MaxRuns
  /\ LET key == disk["state"][3]
     IN disk' = [disk EXCEPT !["users"] = <<runs + 1>>,
                             !["config"] = <<key, runs + 1>>,
                             !["uri"] = <<key, runs + 1>>]
  /\ svc' = Restarted(svc, disk')
  /\ runs' = runs + 1 /\ scars' = Disturbed
  /\ UNCHANGED <<torn, lock, cmd, arch, faults>>

(* The host is replaced by an empty one; the archives are elsewhere.       *)
NewHost ==
  /\ \A c \in Cmd : cmd[c] = Idle
  /\ disk' = NoFiles /\ torn' = {} /\ svc' = Stopped /\ scars' = {}
  /\ UNCHANGED <<lock, cmd, arch, runs, faults>>

InstallNext ==
  \/ \E c \in Cmd :
       \/ \E kind \in {"installer", "runtime"} : RunInstaller(c, kind, None)
       \/ Main(c) \/ Busy(c) \/ PrepareRuntime(c) \/ PrepareFresh(c)
       \/ PrepareMigrate(c) \/ SaveFiles(c) \/ WaitForService(c) \/ StopAccountd(c)
       \/ VerifyExisting(c) \/ Write(c) \/ StartService(c)
       \/ CommitInstall(c) \/ FailInstall(c) \/ SaveBreaks(c) \/ RollbackInstall(c)
       \/ RollbackMigration(c) \/ RollbackBreaks(c) \/ Kill(c)
  \/ ChangeUsers

(* The node is new, has the runtime, or runs the version before.           *)
NodeInit ==
  /\ \/ disk = NoFiles /\ svc = Stopped
     \/ disk = Runtime /\ svc = Stopped
     \/ /\ disk = Rendered(1, 1, 1, 1, Old)
        /\ svc = EnableNow(Stopped, disk, Both)
  /\ torn = {} /\ lock = None /\ cmd = [c \in Cmd |-> Idle] /\ arch = {}
  /\ runs = 1 /\ faults = MaxFaults /\ scars = {}
=============================================================================
