----------------------------- MODULE NodeRestore -----------------------------
(***************************************************************************)
(* vcl backup create and vcl restore (lib/vincula-backup.py, cmd_restore   *)
(* of bin/vincula).  A restore puts the identity of an archive on a host   *)
(* that has the runtime: same node_id, new instance_id.  It keeps a safety *)
(* copy, lists what it writes in a journal, and makes VERSION the last     *)
(* file, once the services are up.                                         *)
(***************************************************************************)
EXTENDS NodeInstall

(* What an archive holds.  Without secrets the keys and the credentials    *)
(* are stripped: none of it can be served again.                           *)
Stripped == <<0>>
Archive(state, users, db, secret) ==
  [state |-> IF secret THEN state ELSE <<state[1], state[2], 0>>,
   users |-> IF secret THEN users ELSE Stripped, db |-> db, secret |-> secret]

(* vcl backup create takes no lock, and runs wherever the helper is.  One  *)
(* that a controller waits for is bounded with it.                         *)
RunBackup(c, by) ==
  /\ disk["prog"] # Absent /\ Readable({"prog"})
  /\ cmd[c] = Idle
  /\ cmd' = [cmd EXCEPT ![c] = [Idle EXCEPT !.kind = "backup", !.pc = "state", !.by = by]]
  /\ by = None => runs < MaxRuns
  /\ runs' = IF by = None THEN runs + 1 ELSE runs
  /\ UNCHANGED <<disk, torn, svc, lock, arch, faults, scars>>

(* assemble_components reads state.json first,                             *)
BackupState(c) ==
  /\ cmd[c].pc = "state"
  /\ IF disk["state"] = Absent \/ ~Readable({"state"}) THEN Refuse(c)
     ELSE /\ cmd' = [cmd EXCEPT ![c].pc = "users", ![c].new["state"] = disk["state"]]
          /\ UNCHANGED <<disk, torn, svc, lock, arch, runs, faults, scars>>

(* then the users and a snapshot of the database.  Only an operator may    *)
(* ask for the secrets.                                                    *)
BackupRest(c) ==
  /\ cmd[c].pc = "users"
  /\ IF disk["users"] = Absent \/ ~Readable({"users", "db"}) THEN Refuse(c)
     ELSE /\ \E secret \in IF cmd[c].by = None THEN BOOLEAN ELSE {FALSE} :
               arch' = arch \cup {Archive(cmd[c].new["state"], disk["users"],
                                          disk["db"], secret)}
          /\ Finish(c, "done")
          /\ UNCHANGED <<disk, torn, svc, lock, runs, faults, scars>>

(* No recipient or no age for the secrets, or the archive does not pass    *)
(* the check of its own that precedes the rename.                          *)
BackupFails(c) == cmd[c].pc = "users" /\ Refuse(c)

-----------------------------------------------------------------------------
(* build_restore_plan.  With secrets the keys and the users of the archive *)
(* are served again; without, there are new keys,                          *)
PlannedKey(a, secrets, r) == IF secrets THEN a.state[3] ELSE r

(* and every active credential is revoked and issued anew.                 *)
PlannedUsers(a, secrets, r) == IF secrets THEN a.users[1] ELSE r

Planned(a, secrets, r) ==
  [Rendered(a.state[1], r, PlannedKey(a, secrets, r), PlannedUsers(a, secrets, r), New)
     EXCEPT !["db"] = a.db]

RunRestore(c, a, secrets) ==
  /\ disk["prog"] # Absent /\ Readable({"prog"})
  /\ secrets => a.secret
  /\ Begin(c, Command("restore", "lock", None, Planned(a, secrets, runs + 1)))
  /\ UNCHANGED <<disk, torn, svc, lock, arch, faults, scars>>

(* What is not kept is not put on the node.                                *)
Kept(new, f) == IF new[f] = Absent THEN <<>> ELSE <<f>>

RestoreOrder(new) ==
  <<"state", "users", "uri">> \o Kept(new, "db") \o <<"config">>

(* Mutant of MayRestore: an installed node is overwritten.                 *)
MayRestoreAny(d) == TRUE

(* No install; the library and the sing-box binary are (still) there.      *)
MayRestore(d) == ~Installed(d) /\ d["prog"] # Absent

(* The archive is torn, is not what its manifest says, or its age identity *)
(* is not there: refused before anything is changed.                       *)
ArchiveRefused(c) == Acquires(c) /\ cmd[c].kind = "restore" /\ Refuse(c)

(* Verify, preflight, plan, safety copy, accountd stopped.                 *)
PrepareRestore(c) ==
  /\ Acquires(c) /\ cmd[c].kind = "restore"
  /\ IF MayRestore(disk)
     THEN Prepared(c, "write", RestoreOrder(cmd[c].new), cmd[c].new,
                   [svc EXCEPT !.acct = FALSE])
     ELSE Refuse(c)

(* Both services enabled and started.  One that runs is not restarted.     *)
StartRestored(c) ==
  /\ cmd[c].pc = "start" /\ cmd[c].kind = "restore"
  /\ svc' = EnableNow(svc, disk, Both)
  /\ cmd' = [cmd EXCEPT ![c].pc = "commit"]
  /\ UNCHANGED <<disk, torn, lock, arch, runs, faults, scars>>

(* commit-version: VERSION written, .runtime-only removed.                 *)
CommitRestore(c) ==
  /\ cmd[c].pc = "commit" /\ cmd[c].kind = "restore"
  /\ disk' = [disk EXCEPT !["VERSION"] = disk["prog"], !["marker"] = Absent]
  /\ Finish(c, "done") /\ Release(c)
  /\ UNCHANGED <<torn, svc, arch, runs, faults, scars>>

(* apply_restore's own rollback and cmd_restore's restore_abort, under the *)
(* lock.                                                                   *)
FailRestore(c) ==
  /\ cmd[c].pc \in {"write", "start", "commit"} /\ cmd[c].kind = "restore"
  /\ Fault
  /\ cmd' = [cmd EXCEPT ![c].pc = "rollback"]
  /\ UNCHANGED <<disk, torn, svc, lock, arch, runs, scars>>

(* Mutant of PutBack: what was not there before is left.                   *)
PutBackSaved(d, c) == Over(d, cmd[c].found)

(* The safety copy over the node; what it has not and the journal lists is *)
(* removed.  cmd_restore renders config.json without an entry in the       *)
(* journal.                                                                *)
PutBack(d, c) ==
  [f \in File |->
     IF cmd[c].found[f] = Absent /\ f \in (cmd[c].wrote \ {"config"}) \cup {"VERSION"}
     THEN Absent ELSE Over(d, cmd[c].found)[f]]

RollbackRestore(c) ==
  /\ cmd[c].pc = "rollback" /\ cmd[c].kind = "restore"
  /\ disk' = PutBack(disk, c)
  /\ svc' = PutServices(svc, cmd[c].before, disk')
  /\ Finish(c, "failed") /\ Release(c)
  /\ UNCHANGED <<torn, arch, runs, faults, scars>>

RestoreNext ==
  \E c \in Cmd :
    \/ RunBackup(c, None) \/ BackupState(c) \/ BackupRest(c)
    \/ BackupFails(c) \/ ArchiveRefused(c)
    \/ \E a \in arch, secrets \in BOOLEAN : RunRestore(c, a, secrets)
    \/ PrepareRestore(c) \/ StartRestored(c) \/ CommitRestore(c)
    \/ FailRestore(c) \/ RollbackRestore(c)
=============================================================================
