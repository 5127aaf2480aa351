----------------------------- MODULE NodeUpgrade -----------------------------
(***************************************************************************)
(* vcl-fleet node upgrade (lib/node_upgrade.py), and the two commands it   *)
(* has on the node: upgrade checkpoint and upgrade rollback (bin/vincula). *)
(* The controller plans, backs up, takes a checkpoint, runs the installer  *)
(* over ssh, checks the result and rolls back to the checkpoint when a     *)
(* check fails.  A lost ssh session ends the controller's wait, not the    *)
(* command on the node.  upgrade apply takes no fleet operation lock.      *)
(***************************************************************************)
EXTENDS NodeRestore

CONSTANT Ctl   \* upgrades and provisionings at a time

ASSUME ControllersAssumption == None \notin Ctl

VARIABLES
  ctl,   \* what each controller does
  reg,   \* the node_ids in the registry
  told   \* the result each ended with last

controller == <<ctl, reg, told>>

NoWork == [op |-> None, pc |-> "idle", c |-> None, seen |-> Absent, ck |-> NoFiles]

Report(k, result) ==
  /\ told' = [told EXCEPT ![k] = result]
  /\ ctl' = [ctl EXCEPT ![k] = NoWork]

(* Something new is begun.                                                 *)
Start(k, work) ==
  /\ told' = [told EXCEPT ![k] = None]
  /\ ctl' = [ctl EXCEPT ![k] = work]

Step(k, pc) == ctl' = [ctl EXCEPT ![k].pc = pc] /\ UNCHANGED told

(* vcl identity: node_id and instance_id of the files, the version of the  *)
(* helper that answers.                                                    *)
Answers(d) ==
  d["prog"] # Absent /\ d["state"] # Absent /\ Readable({"prog", "state"})
Identity(d) == <<d["state"][1], d["state"][2]>>

(* vcl verify: both services up.                                           *)
Verified(d, s) == Answers(d) /\ s.sing # Absent /\ s.acct

(* An answer is lost, or a check fails that depends on nothing modelled.   *)
SameNode == <<disk, torn, svc, lock, cmd, arch, runs, scars>>

-----------------------------------------------------------------------------
(* run_upgrade_plan: SKIPPED, REFUSED or on.                               *)
PlanUpgrade(k) ==
  /\ ctl[k] = NoWork /\ reg # {} /\ Answers(disk)
  /\ IF disk["state"][1] \notin reg THEN Report(k, "REFUSED")
     ELSE IF disk["prog"] = <<New>> THEN Report(k, "SKIPPED")
     ELSE Start(k, [NoWork EXCEPT !.op = "upgrade", !.pc = "backup",
                                  !.seen = Identity(disk)])
  /\ UNCHANGED <<node, reg>>

(* Something the controller runs on the node in slot c, and waits for.     *)
Await(k, c) ==
  /\ ctl' = [ctl EXCEPT ![k].c = c, ![k].pc = "await"]
  /\ UNCHANGED <<reg, told>>

Backup(k, c) ==
  /\ ctl[k].pc = "backup" /\ RunBackup(c, k) /\ Await(k, c)

(* The payload in a new directory of the node, its digest right, unpacked; *)
(* the controller gives up when one of this fails.                         *)
Stage(k) ==
  /\ ctl[k].pc = "stage"
  /\ \/ /\ Step(k, IF ctl[k].op = "upgrade" THEN "checkpoint" ELSE "install")
        /\ UNCHANGED node
     \/ Fault /\ Report(k, "died") /\ UNCHANGED SameNode
  /\ UNCHANGED reg

(* upgrade checkpoint of the staged helper: under the lock every file and  *)
(* the database are copied; the marker comes last.  An empty VERSION and a *)
(* database that cannot be read are refused; that other torn files would   *)
(* be copied as they are is left out.                                      *)
Checkpoint(k) ==
  /\ ctl[k].pc = "checkpoint"
  /\ lock = None
  /\ IF Installed(disk) /\ Readable(File)
     THEN /\ ctl' = [ctl EXCEPT ![k].pc = "install", ![k].ck = disk]
          /\ UNCHANGED told
     ELSE Report(k, "died")
  /\ scars' = Disturbed
  /\ UNCHANGED <<disk, torn, svc, lock, cmd, arch, runs, faults, reg>>

Install(k, c, op) ==
  /\ ctl[k].pc = "install" /\ ctl[k].op = op
  /\ RunInstaller(c, "installer", k) /\ Await(k, c)

InstallUpgrade(k, c) == Install(k, c, "upgrade")

(* upgrade rollback CHECKPOINT, of the helper that is installed.           *)
RunUndo(c, k) ==
  /\ disk["prog"] = <<New>> /\ Readable({"prog"})
  /\ Begin(c, Command("undo", "lock", k, ctl[k].ck))
  /\ UNCHANGED <<disk, torn, svc, lock, arch, faults, scars>>

Undo(k, c) == ctl[k].pc = "undo" /\ RunUndo(c, k) /\ Await(k, c)

NoUndo(k) ==
  /\ ctl[k].pc = "undo"
  /\ disk["prog"] # <<New>> \/ ~Readable({"prog"})
  /\ Report(k, "PARTIAL") /\ UNCHANGED <<node, reg>>

-----------------------------------------------------------------------------
(* The node side of the rollback: both services down, everything of the    *)
(* checkpoint over the node, services up, the programs last.               *)
UndoOrder(new) ==
  Kept(new, "config") \o Kept(new, "VERSION") \o Kept(new, "state")
    \o Kept(new, "users") \o Kept(new, "uri") \o Kept(new, "db")

PrepareUndo(c) ==
  /\ Acquires(c) /\ cmd[c].kind = "undo"
  /\ Prepared(c, "write", UndoOrder(cmd[c].new), cmd[c].new, Stopped)

StartUndone(c) ==
  /\ cmd[c].pc = "start" /\ cmd[c].kind = "undo"
  /\ svc' = EnableNow(svc, disk, Both)
  /\ cmd' = [cmd EXCEPT ![c].pc = "commit"]
  /\ UNCHANGED <<disk, torn, lock, arch, runs, faults, scars>>

CommitUndo(c) ==
  /\ cmd[c].pc = "commit" /\ cmd[c].kind = "undo"
  /\ disk' = [disk EXCEPT !["prog"] = cmd[c].new["prog"]]
  /\ torn' = torn \ {"prog"}
  /\ Finish(c, "done") /\ Release(c)
  /\ UNCHANGED <<svc, arch, runs, faults, scars>>

(* A failure leaves the node between the two; nothing is put back.         *)
FailUndo(c) ==
  /\ cmd[c].kind = "undo" /\ cmd[c].pc \in {"write", "start", "commit"}
  /\ Fault /\ scars' = scars \cup {"undo"}
  /\ Finish(c, "failed") /\ Release(c)
  /\ UNCHANGED <<disk, torn, svc, arch, runs>>

-----------------------------------------------------------------------------
(* The command ended and its result arrives.                               *)
Result(k) ==
  /\ ctl[k].pc = "await"
  /\ LET c == ctl[k].c  done == cmd[c].pc = "done"
     IN /\ cmd[c].by = k /\ cmd[c].pc \in {"done", "failed"}
        /\ cmd' = [cmd EXCEPT ![c] = Idle]
        /\ CASE cmd[c].kind = "backup" ->
                  IF done THEN Step(k, "stage") ELSE Report(k, "died")
             [] cmd[c].kind = "undo" ->
                  Report(k, IF done THEN "ROLLED_BACK" ELSE "PARTIAL")
             [] OTHER ->
                  IF done THEN Step(k, "verify")
                  ELSE Report(k, "died")
  /\ UNCHANGED <<disk, torn, svc, lock, arch, runs, faults, scars, reg>>

(* The session is lost or times out: the controller gives up, the command  *)
(* goes on.                                                                *)
Lose(k) ==
  /\ ctl[k].pc = "await" /\ Fault
  /\ LET c == ctl[k].c
     IN /\ cmd' = [cmd EXCEPT ![c] =
                     IF @.pc \in {"done", "failed"} THEN Idle ELSE [@ EXCEPT !.by = None]]
        /\ Report(k, IF cmd[c].kind = "undo" THEN "PARTIAL" ELSE "died")
  /\ UNCHANGED <<disk, torn, svc, lock, arch, runs, scars, reg>>

(* vcl verify and capabilities after the installer.                        *)
VerifyUpgrade(k) ==
  /\ ctl[k].pc = "verify" /\ ctl[k].op = "upgrade"
  /\ Step(k, IF Verified(disk, svc) /\ disk["prog"] = <<New>> THEN "identity"
             ELSE "undo")
  /\ UNCHANGED <<node, reg>>

Upgraded(d, seen) ==
  Answers(d) /\ d["prog"] = <<New>> /\ Identity(d) = seen

(* vcl identity: the target version, the same node, the same instance.     *)
IdentifyUpgrade(k) ==
  /\ ctl[k].pc = "identity" /\ ctl[k].op = "upgrade"
  /\ IF Upgraded(disk, ctl[k].seen) THEN Report(k, "SUCCESS") ELSE Step(k, "undo")
  /\ UNCHANGED <<node, reg>>

(* One of the checks has no answer.                                        *)
CheckFails(k) ==
  /\ ctl[k].pc \in {"verify", "identity"} /\ ctl[k].op = "upgrade"
  /\ Fault /\ Step(k, "undo")
  /\ UNCHANGED <<SameNode, reg>>

UpgradeNext ==
  \/ \E k \in Ctl :
       \/ PlanUpgrade(k) \/ Stage(k) \/ Checkpoint(k) \/ NoUndo(k)
       \/ Result(k) \/ Lose(k) \/ VerifyUpgrade(k) \/ IdentifyUpgrade(k)
       \/ CheckFails(k)
       \/ \E c \in Cmd : Backup(k, c) \/ InstallUpgrade(k, c) \/ Undo(k, c)
  \/ /\ \E c \in Cmd :
          PrepareUndo(c) \/ StartUndone(c) \/ CommitUndo(c) \/ FailUndo(c)
     /\ UNCHANGED controller
=============================================================================
