------------------------------ MODULE Provision ------------------------------
(***************************************************************************)
(* vcl-fleet node provision (lib/provision.py) and node adopt, and the     *)
(* life of a node as a whole: installed, provisioned, changed, backed up,  *)
(* restored on a new host, upgraded and rolled back.  A provisioning       *)
(* checks the host, runs the installer, verifies, and only then registers  *)
(* the node; when that fails the node stays installed and is adopted later.*)
(***************************************************************************)
EXTENDS NodeUpgrade

(* A provisioning and an adoption hold the fleet operation lock; an        *)
(* upgrade does not.                                                       *)
Sole == \A k \in Ctl : ctl[k].op # "provision"

(* It goes on with the next phase, or is refused for a reason outside the  *)
(* model; nothing was changed yet.                                         *)
OnOrRefused(k, pc) ==
  /\ Step(k, pc) \/ Report(k, "REFUSED")
  /\ UNCHANGED <<node, reg>>

BeginProvision(k) ==
  /\ ctl[k] = NoWork /\ Sole
  /\ Start(k, [NoWork EXCEPT !.op = "provision", !.pc = "payload"])
  /\ UNCHANGED <<node, reg>>

(* The payload is found and has the digest of its sidecar;                 *)
Payload(k) == ctl[k].pc = "payload" /\ OnOrRefused(k, "preflight")

(* An installed host is to be adopted; a sing-box unit is in the way.      *)
Conflict == Installed(disk) \/ disk["prog"] # Absent

(* run_provision_preflight, first stage: the host can be installed on.     *)
Preflight(k) ==
  /\ ctl[k].pc = "preflight"
  /\ IF Conflict THEN Report(k, "REFUSED") /\ UNCHANGED <<node, reg>>
     ELSE OnOrRefused(k, "bootstrap")

(* Missing packages are installed,                                         *)
Bootstrap(k) == ctl[k].pc = "bootstrap" /\ OnOrRefused(k, "reach")

(* the port is free and the network reaches what the installer needs;      *)
Reach(k) == ctl[k].pc = "reach" /\ OnOrRefused(k, "target")

(* the payload fits the host, and the registry can take the node.          *)
Target(k) == ctl[k].pc = "target" /\ OnOrRefused(k, "stage")

InstallProvision(k, c) == Install(k, c, "provision")

(* vcl verify, and vcl identity for the node_id.                           *)
VerifyProvision(k) ==
  /\ ctl[k].pc = "verify" /\ ctl[k].op = "provision"
  /\ IF Verified(disk, svc) THEN Step(k, "identity") ELSE Report(k, "died")
  /\ UNCHANGED <<node, reg>>

IdentifyProvision(k) ==
  /\ ctl[k].pc = "identity" /\ ctl[k].op = "provision"
  /\ IF Answers(disk)
     THEN /\ ctl' = [ctl EXCEPT ![k].pc = "register", ![k].seen = Identity(disk)]
          /\ UNCHANGED told
     ELSE Report(k, "died")
  /\ UNCHANGED <<node, reg>>

(* _commit: a node_id or name that is taken, or a registry that cannot be  *)
(* saved, leaves the node to be adopted.                                   *)
Register(k) ==
  /\ ctl[k].pc = "register"
  /\ LET id == ctl[k].seen[1]
     IN \/ /\ id \notin reg
           /\ reg' = reg \cup {id} /\ Step(k, "sync") /\ UNCHANGED node
        \/ /\ id \in reg
           /\ Report(k, "REMOTE_READY_LOCAL_UNCOMMITTED") /\ UNCHANGED <<node, reg>>
        \/ /\ Fault
           /\ Report(k, "REMOTE_READY_LOCAL_UNCOMMITTED")
           /\ UNCHANGED <<SameNode, reg>>

(* sync --full, or none.                                                   *)
SyncProvisioned(k) ==
  /\ ctl[k].pc = "sync"
  /\ \/ Report(k, "SUCCESS") /\ UNCHANGED node
     \/ Fault /\ Report(k, "PARTIAL") /\ UNCHANGED SameNode
  /\ UNCHANGED reg

(* node adopt: vcl identity and the registry.                              *)
Adopt(k) ==
  /\ ctl[k] = NoWork /\ Sole
  /\ Answers(disk) /\ disk["state"][1] \notin reg
  /\ reg' = reg \cup {disk["state"][1]}
  /\ UNCHANGED <<node, ctl, told>>

ProvisionNext ==
  \E k \in Ctl :
    \/ BeginProvision(k) \/ Payload(k) \/ Preflight(k)
    \/ Bootstrap(k) \/ Reach(k) \/ Target(k)
    \/ \E c \in Cmd : InstallProvision(k, c)
    \/ VerifyProvision(k) \/ IdentifyProvision(k)
    \/ Register(k) \/ SyncProvisioned(k) \/ Adopt(k)

-----------------------------------------------------------------------------
vars == <<node, controller>>

Init ==
  /\ NodeInit
  /\ ctl = [k \in Ctl |-> NoWork] /\ reg = {} /\ told = [k \in Ctl |-> None]

Next ==
  \/ (InstallNext \/ RestoreNext) /\ UNCHANGED controller
  \/ NewHost /\ (\A k \in Ctl : ctl[k] = NoWork) /\ UNCHANGED controller
  \/ UpgradeNext
  \/ ProvisionNext

Spec == Init /\ [][Next]_vars

-----------------------------------------------------------------------------
(* The types, and the lock: it is held by exactly the command that is      *)
(* changing the node, the rollback of an installer excepted.               *)
Run == 0..MaxRuns

TypeOK ==
  /\ torn \subseteq File
  /\ disk \in [File -> {Absent} \cup {<<a>> : a \in Run}
                 \cup (Run \X Run) \cup (Run \X Run \X Run)]
  /\ svc.on \subseteq Both /\ svc.acct \in BOOLEAN
  /\ runs \in Run /\ faults \in 0..MaxFaults /\ reg \subseteq Run
  /\ \A c \in Cmd :
       (lock = c) <=> Mutating(c)
                      /\ ~(cmd[c].pc = "rollback"
                           /\ cmd[c].kind \in {"fresh", "migrate", "runtime"})

Quiet == \A c \in Cmd : ~Mutating(c)

(* An installed node that no command is changing has files that agree and  *)
(* can be read, and when nothing was killed in the middle, both services   *)
(* run, sing-box with the config on disk.  A killed installer, migration   *)
(* or restore breaks only the second half; nothing is promised after a     *)
(* rollback that broke off, had only a torn backup, or ran beside another  *)
(* command.                                                                *)
InstalledIsWhole ==
  Installed(disk) /\ Quiet =>
    /\ scars \cap {"undo", "beside"} = {} => Agree(disk) /\ torn = {}
    /\ scars = {} => /\ disk["prog"] = disk["VERSION"]
                     /\ disk["marker"] = Absent
                     /\ svc = [on |-> Both, sing |-> disk["config"], acct |-> TRUE]

(* A command that failed and was not killed leaves files and services as   *)
(* it found them, wherever it failed once a failure is rolled back - but   *)
(* for the config.json a restore rendered where none was; an upgrade       *)
(* rollback that ends well leaves those of the checkpoint, with both       *)
(* services up.  Scars except a rollback from a torn backup, and one       *)
(* beside another command.                                                 *)
PutBackExactly(c) ==
  /\ \A f \in File : \/ disk'[f] = cmd[c].found[f]
                     \/ f = "config" /\ cmd[c].kind = "restore"
  /\ torn' = {}
  /\ svc' = cmd[c].before

Undone(c) ==
  /\ \A f \in File : cmd[c].new[f] # Absent => disk'[f] = cmd[c].new[f]
  /\ svc' = EnableNow(Stopped, disk', Both)

RollbackIsExact ==
  [][\A c \in Cmd : cmd'[c].pc # cmd[c].pc /\ scars' = {} =>
       /\ cmd[c].pc = "rollback" => PutBackExactly(c)
       /\ cmd[c].pc = "commit" /\ cmd[c].kind = "undo" => Undone(c)]_vars

(* What the specification of 0.4.5 says of an installer that fails in the  *)
(* middle: complete rollback.  It does not hold for a migration whose      *)
(* backup breaks off: the rollback puts the torn copy over the good file.  *)
FailedMigrationRestores ==
  [][\A c \in Cmd :
       /\ cmd[c].kind = "migrate" /\ cmd[c].pc = "rollback" /\ scars = {}
       /\ cmd'[c].pc # "rollback"
       => PutBackExactly(c)]_vars

(* The lock, as the notes on it say: the installer and the commands that   *)
(* change the node exclude each other.  It does not hold: an installer     *)
(* that rolls back has given it up.                                        *)
OneWriter == \A b, c \in Cmd : Mutating(b) /\ Mutating(c) => b = c

(* An installed node keeps its node_id and its instance_id.                *)
InstalledKeepsIdentity ==
  [][Installed(disk) /\ Installed(disk') /\ disk["state"] # Absent =>
       /\ disk'["state"] # Absent
       /\ Identity(disk') = Identity(disk)]_vars

(* What the operator is told is so, when nothing was killed: SUCCESS and   *)
(* REMOTE_READY name an installed node of the identity that was seen, at   *)
(* the version of the payload; and when no command is changing the node,   *)
(* its files agree and both services run.                                  *)
ReportIsTrue ==
  [][\A k \in Ctl :
       /\ told'[k] # told[k] /\ scars = {}
       /\ told'[k] \in {"SUCCESS", "REMOTE_READY_LOCAL_UNCOMMITTED"}
       => /\ Installed(disk)
          /\ disk["prog"] = <<New>> /\ Identity(disk) = ctl[k].seen
          /\ Quiet => Agree(disk) /\ Verified(disk, svc)]_vars
=============================================================================
