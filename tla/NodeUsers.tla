----------------------------- MODULE NodeUsers -----------------------------
(***************************************************************************)
(* How `vcl user add|import|set|disable|enable|rotate` changes a node      *)
(* (bin/vincula, lib/vincula-common.sh).  A command takes the operation    *)
(* lock, backs up the artifacts, stages a changed registry, renders        *)
(* config.json and owner.uri from it, and installs the files one by one.   *)
(* Unless the rendered files equal those on disk it restarts sing-box and, *)
(* when that does not become healthy, puts the backup back.                *)
(*                                                                         *)
(* A step is one file installed or one call of systemctl, and a command    *)
(* may die between any two: killed, or stopped by `set -e`.                *)
(*                                                                         *)
(* A definition whose comment starts with "Mutant of" is not part of the   *)
(* specification (see Accountd).                                           *)
(***************************************************************************)
EXTENDS Naturals

CONSTANTS
  User,    \* tags
  Owner,   \* the tag "owner", whose link owner.uri holds
  Cred,    \* VLESS UUIDs; bound: how many are ever generated
  Proc     \* runs of the command line

ASSUME ConstantsAssumption ==
  /\ Owner \in User
  /\ "none" \notin Cred /\ "none" \notin Proc

VARIABLES
  lock,    \* the process that holds the flock
  pc,      \* what a process does next
  job,     \* its command and arguments
  saved,   \* its backup
  staged,  \* its staged users.json
  files,   \* users.json, config.json and owner.uri
  proxy,   \* the credentials sing-box accepts; none when it is stopped
  used,    \* history: the UUIDs generated
  gone,    \* history: the UUIDs revoked by a rotate that reported success
  torn     \* history: a command died after it changed config.json, and
           \* sing-box has not been restarted since

vars == <<lock, pc, job, saved, staged, files, proxy, used, gone, torn>>

None == "none"

Steps == {"out", "lock", "save", "stage", "install", "users", "uri", "restart",
          "health", "done", "backConfig", "backUsers", "backUri", "backRestart",
          "failed"}

Ops == {"add", "set", "disable", "enable", "rotate"}

-----------------------------------------------------------------------------
(* users.json: a user's state, active and revoked credentials, metadata.   *)
Entry == [status : {"absent", "on", "off"}, cred : Cred \cup {None},
          old : SUBSET Cred, meta : 0 .. 1]

Absent == [status |-> "absent", cred |-> None, old |-> {}, meta |-> 0]

Registry == [User -> Entry]

NoUsers == [u \in User |-> Absent]

NoFiles == [users |-> NoUsers, config |-> {}, uri |-> None]

Enabled(reg) == {u \in User : reg[u].status = "on"}

(* render_config_from_registry: the inbound's users.                       *)
Config(reg) == {reg[u].cred : u \in Enabled(reg)}

(* regenerate_owner_uri: the owner's credential, enabled or not.           *)
Uri(reg) == reg[Owner].cred

(* A command: add takes one user, import any number of rows.               *)
Job == [op : Ops, tags : SUBSET User, meta : 0 .. 1,
        fresh : UNION {[tags -> Cred] : tags \in SUBSET User}]

NoJob == [op |-> "set", tags |-> {}, meta |-> 0, fresh |-> [u \in {} |-> None]]

Commands == {j \in [op : Ops, tags : SUBSET User, meta : 0 .. 1, fresh : {NoJob.fresh}] :
               j.op = "add" \/ \E u \in User : j.tags = {u}}

(* The UUIDs a command generates.                                          *)
Fresh(j) ==
  IF j.op \in {"add", "rotate"}
    THEN {f \in [j.tags -> Cred \ used] : \A t, u \in j.tags : f[t] = f[u] => t = u}
    ELSE {NoJob.fresh}

(* Mutant of Allowed: a tag that is not found is not refused.              *)
AllowedUnfound(reg, j) ==
  IF j.op = "add"
    THEN \A u \in j.tags : reg[u].status = "absent"
    ELSE j.op = "disable" => Enabled(reg) # j.tags

(* users_registry_mutate and users_import_prepare refuse ...               *)
Allowed(reg, j) ==
  IF j.op = "add"
    THEN \A u \in j.tags : reg[u].status = "absent"
    ELSE /\ \A u \in j.tags : reg[u].status # "absent"
         /\ j.op = "disable" => Enabled(reg) # j.tags

(* ... or change the entries of the users named.                           *)
ChangedEntry(e, u, j) ==
  IF j.op = "add" THEN [status |-> "on", cred |-> j.fresh[u], old |-> {}, meta |-> j.meta]
  ELSE IF j.op = "set" THEN [e EXCEPT !.meta = j.meta]
  ELSE IF j.op = "disable" THEN [e EXCEPT !.status = "off"]
  ELSE IF j.op = "enable" THEN [e EXCEPT !.status = "on"]
  ELSE [e EXCEPT !.old = @ \cup {e.cred}, !.cred = j.fresh[u]]

(* Mutant of Changed: a rotated credential is not marked revoked, and the  *)
(* first active one goes into config.json and the link.                    *)
ChangedKeepsActive(reg, j) ==
  [u \in User |->
     IF u \notin j.tags THEN reg[u]
     ELSE IF j.op = "rotate"
       THEN [reg[u] EXCEPT !.old = @ \cup {reg[u].cred}]
       ELSE ChangedEntry(reg[u], u, j)]

Changed(reg, j) ==
  [u \in User |-> IF u \in j.tags THEN ChangedEntry(reg[u], u, j) ELSE reg[u]]

-----------------------------------------------------------------------------
Goto(p, step) == pc' = [pc EXCEPT ![p] = step]

(* The process exits: the kernel drops its flock, what was its own is gone.*)
Exit(p) ==
  /\ pc' = [pc EXCEPT ![p] = "out"]
  /\ lock' = IF lock = p THEN None ELSE lock
  /\ job' = [job EXCEPT ![p] = NoJob]
  /\ saved' = [saved EXCEPT ![p] = NoFiles]
  /\ staged' = [staged EXCEPT ![p] = NoUsers]

Want(p) ==
  /\ pc[p] = "out"
  /\ Goto(p, "lock")
  /\ UNCHANGED <<lock, job, saved, staged, files, proxy, used, gone, torn>>

(* Mutant of Lock: a shared lock.                                          *)
LockShared(p) ==
  /\ pc[p] = "lock"
  /\ lock' = p
  /\ \E j \in Commands : job' = [job EXCEPT ![p] = j]
  /\ Goto(p, "save")
  /\ UNCHANGED <<saved, staged, files, proxy, used, gone, torn>>

(* The command's arguments, first used from here on.                       *)
Lock(p) ==
  /\ pc[p] = "lock"
  /\ lock = None
  /\ lock' = p
  /\ \E j \in Commands : job' = [job EXCEPT ![p] = j]
  /\ Goto(p, "save")
  /\ UNCHANGED <<saved, staged, files, proxy, used, gone, torn>>

Busy(p) ==
  /\ pc[p] = "lock"
  /\ lock # None
  /\ Exit(p)
  /\ UNCHANGED <<files, proxy, used, gone, torn>>

(* The new UUIDs are generated, and backup_user_mutation copies the files. *)
Save(p) ==
  /\ pc[p] = "save"
  /\ \E f \in Fresh(job[p]) :
       /\ job' = [job EXCEPT ![p].fresh = f]
       /\ used' = used \cup {f[u] : u \in DOMAIN f}
  /\ saved' = [saved EXCEPT ![p] = files]
  /\ Goto(p, "stage")
  /\ UNCHANGED <<lock, staged, files, proxy, gone, torn>>

(* Rendering raises when no user is enabled.                               *)
Stage(p) ==
  /\ pc[p] = "stage"
  /\ Allowed(files.users, job[p])
  /\ Enabled(Changed(files.users, job[p])) # {}
  /\ staged' = [staged EXCEPT ![p] = Changed(files.users, job[p])]
  /\ Goto(p, "install")
  /\ UNCHANGED <<lock, job, saved, files, proxy, used, gone, torn>>

Refuse(p) ==
  /\ pc[p] = "stage"
  /\ ~ Allowed(files.users, job[p]) \/ Enabled(Changed(files.users, job[p])) = {}
  /\ Goto(p, "failed")
  /\ UNCHANGED <<lock, job, saved, staged, files, proxy, used, gone, torn>>

-----------------------------------------------------------------------------
(* Mutant of SameArtifacts: only config.json is compared.                  *)
SameConfig(p) == Config(staged[p]) = files.config

(* user_mutation_apply: cmp with what is on disk.                          *)
SameArtifacts(p) ==
  Config(staged[p]) = files.config /\ Uri(staged[p]) = files.uri

InstallUsersOnly(p) ==
  /\ pc[p] = "install"
  /\ SameArtifacts(p)
  /\ files' = [files EXCEPT !.users = staged[p]]
  /\ Goto(p, "done")
  /\ UNCHANGED <<lock, job, saved, staged, proxy, used, gone, torn>>

(* commit_user_mutation.                                                   *)
InstallConfig(p) ==
  /\ pc[p] = "install"
  /\ ~ SameArtifacts(p)
  /\ files' = [files EXCEPT !.config = Config(staged[p])]
  /\ Goto(p, "users")
  /\ UNCHANGED <<lock, job, saved, staged, proxy, used, gone, torn>>

InstallUsers(p) ==
  /\ pc[p] = "users"
  /\ files' = [files EXCEPT !.users = staged[p]]
  /\ Goto(p, "uri")
  /\ UNCHANGED <<lock, job, saved, staged, proxy, used, gone, torn>>

InstallUri(p) ==
  /\ pc[p] = "uri"
  /\ files' = [files EXCEPT !.uri = Uri(staged[p])]
  /\ Goto(p, "restart")
  /\ UNCHANGED <<lock, job, saved, staged, proxy, used, gone, torn>>

Restart(p) ==
  /\ pc[p] = "restart"
  /\ proxy' = files.config
  /\ Goto(p, "health")
  /\ torn' = FALSE
  /\ UNCHANGED <<lock, job, saved, staged, files, used, gone>>

(* systemctl fails (ExecStartPre, or restarted too often): under `set -e`  *)
(* the script ends here, before the test that leads to the restore.        *)
RestartFails(p) ==
  /\ pc[p] = "restart"
  /\ proxy' = {}
  /\ Goto(p, "failed")
  /\ torn' = FALSE
  /\ UNCHANGED <<lock, job, saved, staged, files, used, gone>>

Healthy(p) ==
  /\ pc[p] = "health"
  /\ Goto(p, "done")
  /\ UNCHANGED <<lock, job, saved, staged, files, proxy, used, gone, torn>>

Unhealthy(p) ==
  /\ pc[p] = "health"
  /\ Goto(p, "backConfig")
  /\ UNCHANGED <<lock, job, saved, staged, files, proxy, used, gone, torn>>

-----------------------------------------------------------------------------
(* restore_user_mutation.                                                  *)
BackConfig(p) ==
  /\ pc[p] = "backConfig"
  /\ files' = [files EXCEPT !.config = saved[p].config]
  /\ Goto(p, "backUsers")
  /\ UNCHANGED <<lock, job, saved, staged, proxy, used, gone, torn>>

BackUsers(p) ==
  /\ pc[p] = "backUsers"
  /\ files' = [files EXCEPT !.users = saved[p].users]
  /\ Goto(p, "backUri")
  /\ UNCHANGED <<lock, job, saved, staged, proxy, used, gone, torn>>

(* Mutant of BackUri: the restore leaves out owner.uri.                    *)
BackNoUri(p) ==
  /\ pc[p] = "backUri"
  /\ Goto(p, "backRestart")
  /\ UNCHANGED <<lock, job, saved, staged, files, proxy, used, gone, torn>>

BackUri(p) ==
  /\ pc[p] = "backUri"
  /\ files' = [files EXCEPT !.uri = saved[p].uri]
  /\ Goto(p, "backRestart")
  /\ UNCHANGED <<lock, job, saved, staged, proxy, used, gone, torn>>

(* Mutant of BackRestart: the files are put back, sing-box is left alone.  *)
BackQuietly(p) ==
  /\ pc[p] = "backRestart"
  /\ Goto(p, "failed")
  /\ UNCHANGED <<lock, job, saved, staged, files, proxy, used, gone, torn>>

(* This restart may fail.                                                  *)
BackRestart(p) ==
  /\ pc[p] = "backRestart"
  /\ proxy' \in {files.config, {}}
  /\ Goto(p, "failed")
  /\ torn' = FALSE
  /\ UNCHANGED <<lock, job, saved, staged, files, used, gone>>

Report(p) ==
  /\ pc[p] = "done"
  /\ gone' = IF job[p].op = "rotate"
               THEN gone \cup UNION {staged[p][u].old : u \in job[p].tags}
               ELSE gone
  /\ Exit(p)
  /\ UNCHANGED <<files, proxy, used, torn>>

Fail(p) ==
  /\ pc[p] = "failed"
  /\ Exit(p)
  /\ UNCHANGED <<files, proxy, used, gone, torn>>

Die(p) ==
  /\ pc[p] \notin {"out", "done", "failed"}
  /\ Exit(p)
  /\ torn' = (torn \/ pc[p] \in {"users", "uri", "restart", "backUsers", "backUri", "backRestart"})
  /\ UNCHANGED <<files, proxy, used, gone>>

(* systemd starts sing-box again after a failure or a reboot; `vcl         *)
(* restart`, which takes no lock, restarts it.                             *)
ProxyStarts ==
  /\ proxy' = files.config
  /\ torn' = FALSE
  /\ UNCHANGED <<lock, pc, job, saved, staged, files, used, gone>>

ProxyStops ==
  /\ proxy' = {}
  /\ torn' = FALSE
  /\ UNCHANGED <<lock, pc, job, saved, staged, files, used, gone>>

-----------------------------------------------------------------------------
(* An installed node: the owner, with artifacts rendered and running.      *)
Init ==
  \E c \in Cred :
    LET reg == [u \in User |-> IF u = Owner THEN [Absent EXCEPT !.status = "on", !.cred = c]
                                            ELSE Absent]
    IN  /\ files = [users |-> reg, config |-> Config(reg), uri |-> Uri(reg)]
        /\ proxy = Config(reg)
        /\ used = {c}
        /\ lock = None
        /\ pc = [p \in Proc |-> "out"]
        /\ job = [p \in Proc |-> NoJob]
        /\ saved = [p \in Proc |-> NoFiles]
        /\ staged = [p \in Proc |-> NoUsers]
        /\ gone = {}
        /\ torn = FALSE

Step(p) ==
  \/ Want(p) \/ Lock(p) \/ Busy(p) \/ Save(p) \/ Stage(p) \/ Refuse(p)
  \/ InstallUsersOnly(p) \/ InstallConfig(p) \/ InstallUsers(p) \/ InstallUri(p)
  \/ Restart(p) \/ RestartFails(p) \/ Healthy(p) \/ Unhealthy(p)
  \/ BackConfig(p) \/ BackUsers(p) \/ BackUri(p) \/ BackRestart(p)
  \/ Report(p) \/ Fail(p) \/ Die(p)

Next == (\E p \in Proc : Step(p)) \/ ProxyStarts \/ ProxyStops

Spec == Init /\ [][Next]_vars

-----------------------------------------------------------------------------
Files == [users : Registry, config : SUBSET Cred, uri : Cred \cup {None}]

TypeOK ==
  /\ lock \in Proc \cup {None}
  /\ pc \in [Proc -> Steps]
  /\ job \in [Proc -> Job]
  /\ saved \in [Proc -> Files]
  /\ staged \in [Proc -> Registry]
  /\ files \in Files
  /\ proxy \in SUBSET Cred
  /\ used \in SUBSET Cred
  /\ gone \in SUBSET Cred
  /\ torn \in BOOLEAN

(* No update is lost: what a command installs is its change of the         *)
(* registry that stands at that moment, and what it puts back after a      *)
(* failed health check undoes its own change and nothing else - whatever   *)
(* other commands did since the backup or the staging.                     *)
NoLostUpdate ==
  [][\A p \in Proc :
       /\ pc[p] \in {"install", "users"} /\ files'.users # files.users =>
            files'.users = Changed(files.users, job[p])
       /\ pc[p] = "backUsers" /\ pc'[p] = "backUri" =>
            files.users = Changed(files'.users, job[p])]_vars

(* Once a rotate reported success the credentials it revoked never come    *)
(* back: not into the registry as active, not into config.json or the      *)
(* owner's link, by no later command, death or restore.                    *)
RevokedStaysOut ==
  /\ \A u \in User : files.users[u].cred \notin gone
  /\ files.config \cap gone = {}
  /\ files.uri \notin gone

(* A command that reports success leaves the three files agreeing with     *)
(* each other, whatever an earlier one left behind when it died between    *)
(* two of them.                                                            *)
SuccessSettlesDisk ==
  \A p \in Proc : pc[p] = "done" =>
    files.config = Config(files.users) /\ files.uri = Uri(files.users)

(* When the restore after a failed health check ends, all three files are  *)
(* what they were when the command began.                                  *)
RestoreIsExact ==
  \A p \in Proc : pc[p] = "backRestart" => files = saved[p]

(* A command that reports success leaves sing-box serving the registry, or *)
(* stopped: the shortcut past the restart is taken while sing-box serves   *)
(* something else only after a command died between config.json and the    *)
(* restart.  Failed restarts and health checks never lead there.           *)
SuccessIsServed ==
  \A p \in Proc : pc[p] = "done" /\ ~ torn => proxy \in {{}, Config(files.users)}

(* docs/specs/V0.2.5-V0.2.6_dev_spec.md:295: disable guarantees that new   *)
(* authentications fail.  So once a disable reports success, sing-box does *)
(* not accept the user's credential.                                       *)
DisableTakesEffect ==
  \A p \in Proc : pc[p] = "done" /\ job[p].op = "disable" =>
    \A u \in job[p].tags : files.users[u].cred \notin proxy

=============================================================================
