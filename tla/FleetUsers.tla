----------------------------- MODULE FleetUsers -----------------------------
(***************************************************************************)
(* How the controller administers the users of several nodes               *)
(* (lib/vincula-fleet.py): `vcl-fleet user add | import | enable |         *)
(* disable`.  It keeps no copy of the users and takes no lock: a run works *)
(* through (user, node) pairs, each over ssh, and reports SUCCESS or       *)
(* PARTIAL.  The same user has the same user_id on all nodes because the   *)
(* controller chooses it and the operator repeats it when he retries.      *)
(*                                                                         *)
(* An ssh that fails says nothing of the command it started: that goes on  *)
(* on the node, beside whatever is sent there next.  Of a command on a     *)
(* node (NodeUsers has all of it) this module keeps what other commands    *)
(* and `vcl user show`, which takes no lock, can see: users.json installed *)
(* before the health check, and put back after it failed.                  *)
(*                                                                         *)
(* A definition whose comment starts with "Mutant of" is not part of the   *)
(* specification (see Accountd).                                           *)
(***************************************************************************)
EXTENDS Naturals, Sequences, SequencesExt

CONSTANTS
  Node,   \* nodes, all of them enabled
  Tag,    \* users
  Uid,    \* user_ids; bound: how many are ever generated
  Run,    \* runs of the controller's command line at a time
  Slot,   \* bound: commands at a time on one node
  MaxRuns \* bound: runs ever begun

ASSUME ConstantsAssumption ==
  /\ "none" \notin Run \cup Slot \cup Uid \cup Tag
  /\ IsFiniteSet(Node) /\ IsFiniteSet(Tag) /\ IsFiniteSet(Uid)
  /\ MaxRuns \in Nat

VARIABLES
  users,    \* users.json of each node
  lock,     \* the command that holds a node's operation lock
  remote,   \* the commands on the nodes
  op,       \* what a run does ...
  plan,     \* ... to which users on which nodes, in order
  row,      \* its results so far
  pc,       \* its next step
  left,     \* runs that may still begin
  minted,   \* history: the user a user_id was generated for
  told,     \* history: what runs that ended in SUCCESS said of nodes
  settled   \* history: the users whose disable succeeded on a node, with no
            \* enable under way then or sent since

vars == <<users, lock, remote, op, plan, row, pc, left, minted, told, settled>>

None == "none"

-----------------------------------------------------------------------------
Entry == [uid : Uid \cup {None}, on : BOOLEAN]

Absent == [uid |-> None, on |-> FALSE]

NoUsers == [t \in Tag |-> Absent]

Task == [tag : Tag, node : Node, uid : Uid]

(* `by` is the run that waits for the command, None when it gave up.       *)
Command == [phase : {"free", "lock", "staged", "installed", "ok", "failed"},
            op : {"add", "enable", "disable"}, tag : Tag \cup {None},
            uid : Uid \cup {None}, by : Run \cup {None},
            saved : [Tag -> Entry], staged : [Tag -> Entry]]

Free == [phase |-> "free", op |-> "add", tag |-> None, uid |-> None,
         by |-> None, saved |-> NoUsers, staged |-> NoUsers]

Running(c) == c.phase \in {"lock", "staged", "installed"}

(* Mutant of Allowed: a tag that exists is overwritten.                    *)
AllowedAgain(reg, c) ==
  IF c.op = "add" THEN \A t \in Tag \ {c.tag} : reg[t].uid # c.uid
                  ELSE reg[c.tag] # Absent

(* users_registry_mutate on the node (the owner, who is no fleet user,     *)
(* stays enabled, so that disable never refuses for lack of others).       *)
Allowed(reg, c) ==
  IF c.op = "add" THEN reg[c.tag] = Absent /\ \A t \in Tag : reg[t].uid # c.uid
                  ELSE reg[c.tag] # Absent

Changed(reg, c) ==
  IF c.op = "add" THEN [reg EXCEPT ![c.tag] = [uid |-> c.uid, on |-> TRUE]]
                  ELSE [reg EXCEPT ![c.tag].on = (c.op = "enable")]

-----------------------------------------------------------------------------
(* The commands on a node.                                                 *)

(* Mutant of Ends: the lock outlives the command.                          *)
EndsHolding(n, s, answer) ==
  /\ remote' = [remote EXCEPT ![n][s] =
       IF @.by = None THEN Free
       ELSE [@ EXCEPT !.phase = answer, !.saved = NoUsers, !.staged = NoUsers]]
  /\ lock' = lock

(* A command ends: its lock is dropped, its answer waits for the run that  *)
(* asked for it, if there still is one.                                    *)
Ends(n, s, answer) ==
  /\ remote' = [remote EXCEPT ![n][s] =
       IF @.by = None THEN Free
       ELSE [@ EXCEPT !.phase = answer, !.saved = NoUsers, !.staged = NoUsers]]
  /\ lock' = [lock EXCEPT ![n] = IF @ = s THEN None ELSE @]

(* A disable that succeeds while no enable is under way settles the user.  *)
Settles(n, s) ==
  LET c == remote[n][s]
      contested == \E z \in Slot \ {s} :
        Running(remote[n][z]) /\ remote[n][z].op = "enable" /\ remote[n][z].tag = c.tag
  IN  settled' = IF c.op = "disable" /\ ~ contested
                   THEN settled \cup {<<n, c.tag>>} ELSE settled

(* Mutant of NodeStages: no lock is taken.                                 *)
NodeStagesUnlocked(n, s) ==
  LET c == remote[n][s]
  IN  /\ c.phase = "lock"
      /\ Allowed(users[n], c)
      /\ remote' = [remote EXCEPT ![n][s].phase = "staged", ![n][s].saved = users[n],
                                  ![n][s].staged = Changed(users[n], c)]
      /\ UNCHANGED <<users, lock, op, plan, row, pc, left, minted, told, settled>>

(* The command gets the lock, backs up the files and stages its change.    *)
NodeStages(n, s) ==
  LET c == remote[n][s]
  IN  /\ c.phase = "lock"
      /\ lock[n] = None
      /\ Allowed(users[n], c)
      /\ lock' = [lock EXCEPT ![n] = s]
      /\ remote' = [remote EXCEPT ![n][s].phase = "staged", ![n][s].saved = users[n],
                                  ![n][s].staged = Changed(users[n], c)]
      /\ UNCHANGED <<users, op, plan, row, pc, left, minted, told, settled>>

NodeRefuses(n, s) ==
  /\ remote[n][s].phase = "lock"
  /\ lock[n] = None
  /\ ~ Allowed(users[n], remote[n][s])
  /\ Ends(n, s, "failed")
  /\ UNCHANGED <<users, op, plan, row, pc, left, minted, told, settled>>

(* The wait for the lock times out.                                        *)
NodeBusy(n, s) ==
  /\ remote[n][s].phase = "lock"
  /\ lock[n] # None
  /\ Ends(n, s, "failed")
  /\ UNCHANGED <<users, op, plan, row, pc, left, minted, told, settled>>

(* user_mutation_apply: nothing that is rendered changes, no restart.      *)
NodeInstallsSame(n, s) ==
  /\ remote[n][s].phase = "staged"
  /\ remote[n][s].staged = users[n]
  /\ Ends(n, s, "ok")
  /\ Settles(n, s)
  /\ UNCHANGED <<users, op, plan, row, pc, left, minted, told>>

NodeInstalls(n, s) ==
  /\ remote[n][s].phase = "staged"
  /\ remote[n][s].staged # users[n]
  /\ users' = [users EXCEPT ![n] = remote[n][s].staged]
  /\ remote' = [remote EXCEPT ![n][s].phase = "installed"]
  /\ UNCHANGED <<lock, op, plan, row, pc, left, minted, told, settled>>

NodeHealthy(n, s) ==
  /\ remote[n][s].phase = "installed"
  /\ Ends(n, s, "ok")
  /\ Settles(n, s)
  /\ UNCHANGED <<users, op, plan, row, pc, left, minted, told>>

(* restore_user_mutation after a failed health check.                      *)
NodeUnhealthy(n, s) ==
  /\ remote[n][s].phase = "installed"
  /\ users' = [users EXCEPT ![n] = remote[n][s].saved]
  /\ Ends(n, s, "failed")
  /\ UNCHANGED <<op, plan, row, pc, left, minted, told, settled>>

(* Killed, a reboot, or `set -e` when systemctl fails.                     *)
NodeDies(n, s) ==
  /\ Running(remote[n][s])
  /\ Ends(n, s, "failed")
  /\ UNCHANGED <<users, op, plan, row, pc, left, minted, told, settled>>

-----------------------------------------------------------------------------
(* The controller.                                                         *)

(* Non-empty lists without repetition: of nodes, and of the rows of a file.*)
Lists(S) ==
  {s \in UNION {[1 .. k -> S] : k \in 1 .. Cardinality(S)} : IsInjective(s)}

AddPlan(t, u, ns) == [i \in DOMAIN ns |-> [tag |-> t, node |-> ns[i], uid |-> u]]

Begin(r, o, p, step) ==
  /\ pc[r] = "idle"
  /\ left > 0
  /\ left' = left - 1
  /\ op' = [op EXCEPT ![r] = o]
  /\ plan' = [plan EXCEPT ![r] = p]
  /\ pc' = [pc EXCEPT ![r] = step]

(* user add: with --user-id, a user_id generated for this user before (the *)
(* remediation that a PARTIAL report prints), without it a new one.        *)
UserAdd(r) ==
  \E t \in Tag, u \in Uid, ns \in Lists(Node) :
    /\ minted[u] \in {None, t}
    /\ Begin(r, "add", AddPlan(t, u, ns), "show")
    /\ minted' = [minted EXCEPT ![u] = t]
    /\ UNCHANGED <<users, lock, remote, row, told, settled>>

(* user import: a new user_id per row of the file; no tag comes twice.     *)
UserImport(r) ==
  \E tags \in Lists(Tag), uids \in Lists(Uid) :
    \E nodes \in [DOMAIN tags -> Lists(Node)] :
      /\ Len(uids) = Len(tags)
      /\ \A i \in DOMAIN uids : minted[uids[i]] = None
      /\ Begin(r, "add",
               FlattenSeq([i \in DOMAIN tags |-> AddPlan(tags[i], uids[i], nodes[i])]), "show")
      /\ minted' = [u \in Uid |->
                      IF \E i \in DOMAIN uids : uids[i] = u
                        THEN tags[CHOOSE i \in DOMAIN uids : uids[i] = u] ELSE minted[u]]
      /\ UNCHANGED <<users, lock, remote, row, told, settled>>

(* user enable and disable: one node, and no look at it first.             *)
UserSwitch(r) ==
  \E o \in {"enable", "disable"}, t \in Tag, n \in Node, u \in Uid :
    /\ minted[u] = t
    /\ Begin(r, o, AddPlan(t, u, <<n>>), "send")
    /\ UNCHANGED <<users, lock, remote, row, minted, told, settled>>

TaskOf(r) == plan[r][Len(row[r]) + 1]

Shown(r) == users[TaskOf(r).node][TaskOf(r).tag]

(* The result of a task: on to the next one, or to the report.             *)
Result(r, ok, firm) ==
  /\ row' = [row EXCEPT ![r] = Append(@, [ok |-> ok, firm |-> firm])]
  /\ pc' = [pc EXCEPT ![r] = IF Len(row[r]) + 1 = Len(plan[r]) THEN "report" ELSE "show"]

(* provision_user_on_node: `vcl user show` over ssh.                       *)
ShowMissing(r) ==
  /\ pc[r] = "show"
  /\ Shown(r) = Absent
  /\ pc' = [pc EXCEPT ![r] = "send"]
  /\ UNCHANGED <<users, lock, remote, op, plan, row, left, minted, told, settled>>

ShowConflict(r) ==
  /\ pc[r] = "show"
  /\ Shown(r) # Absent
  /\ Shown(r).uid # TaskOf(r).uid
  /\ Result(r, FALSE, TRUE)
  /\ UNCHANGED <<users, lock, remote, op, plan, left, minted, told, settled>>

(* The command that added the user has not finished: it may yet put the    *)
(* users.json back that lacks him.                                         *)
Tentative(k) ==
  \E s \in Slot :
    /\ remote[k.node][s].phase = "installed"
    /\ remote[k.node][s].saved[k.tag] = Absent

(* Mutant of ShowSame: the user_id is not compared.                        *)
ShowAny(r) ==
  /\ pc[r] = "show"
  /\ Shown(r) # Absent
  /\ Result(r, TRUE, ~ Tentative(TaskOf(r)))
  /\ UNCHANGED <<users, lock, remote, op, plan, left, minted, told, settled>>

(* Already there: SUCCESS, with a link when `vcl user link` answers.       *)
ShowSame(r) ==
  /\ pc[r] = "show"
  /\ Shown(r).uid = TaskOf(r).uid
  /\ Result(r, TRUE, ~ Tentative(TaskOf(r)))
  /\ UNCHANGED <<users, lock, remote, op, plan, left, minted, told, settled>>

Unreachable(r) ==
  /\ pc[r] \in {"show", "send"}
  /\ Result(r, FALSE, TRUE)
  /\ UNCHANGED <<users, lock, remote, op, plan, left, minted, told, settled>>

(* An enable that is sent unsettles the user.                              *)
Send(r) ==
  LET k == TaskOf(r)
  IN  /\ pc[r] = "send"
      /\ \E s \in Slot :
           /\ remote[k.node][s] = Free
           /\ remote' = [remote EXCEPT ![k.node][s] =
                [Free EXCEPT !.phase = "lock", !.op = op[r], !.tag = k.tag,
                             !.uid = IF op[r] = "add" THEN k.uid ELSE None, !.by = r]]
      /\ pc' = [pc EXCEPT ![r] = "wait"]
      /\ settled' = IF op[r] = "enable" THEN settled \ {<<k.node, k.tag>>} ELSE settled
      /\ UNCHANGED <<users, lock, op, plan, row, left, minted, told>>

(* ssh_remote_json with require_exit_0.                                    *)
Answer(r) ==
  \E s \in Slot :
    LET c == remote[TaskOf(r).node][s]
    IN  /\ pc[r] = "wait"
        /\ c.by = r
        /\ c.phase \in {"ok", "failed"}
        /\ Result(r, c.phase = "ok", TRUE)
        /\ remote' = [remote EXCEPT ![TaskOf(r).node][s] = Free]
        /\ UNCHANGED <<users, lock, op, plan, left, minted, told, settled>>

(* Nobody waits any more for what run r sent.                              *)
Abandoned(r) ==
  [n \in Node |-> [s \in Slot |->
     LET c == remote[n][s]
     IN  IF c.by # r THEN c ELSE IF Running(c) THEN [c EXCEPT !.by = None] ELSE Free]]

(* ssh fails or times out; the command on the node does not notice.        *)
Lose(r) ==
  /\ pc[r] = "wait"
  /\ Result(r, FALSE, TRUE)
  /\ remote' = Abandoned(r)
  /\ UNCHANGED <<users, lock, op, plan, left, minted, told, settled>>

(* plan_state: SUCCESS only if every node succeeded.                       *)
State(r) == IF \A i \in DOMAIN row[r] : row[r][i].ok THEN "SUCCESS" ELSE "PARTIAL"

Stop(r) ==
  /\ op' = [op EXCEPT ![r] = "add"]
  /\ plan' = [plan EXCEPT ![r] = << >>]
  /\ row' = [row EXCEPT ![r] = << >>]
  /\ pc' = [pc EXCEPT ![r] = "idle"]

Report(r) ==
  /\ pc[r] = "report"
  /\ told' = IF op[r] = "add" /\ State(r) = "SUCCESS"
               THEN told \cup {[task |-> plan[r][i], firm |-> row[r][i].firm] :
                                  i \in DOMAIN row[r]}
               ELSE told
  /\ Stop(r)
  /\ UNCHANGED <<users, lock, remote, left, minted, settled>>

Kill(r) ==
  /\ pc[r] # "idle"
  /\ Stop(r)
  /\ remote' = Abandoned(r)
  /\ UNCHANGED <<users, lock, left, minted, told, settled>>

-----------------------------------------------------------------------------
Init ==
  /\ users = [n \in Node |-> NoUsers]
  /\ lock = [n \in Node |-> None]
  /\ remote = [n \in Node |-> [s \in Slot |-> Free]]
  /\ op = [r \in Run |-> "add"]
  /\ plan = [r \in Run |-> << >>]
  /\ row = [r \in Run |-> << >>]
  /\ pc = [r \in Run |-> "idle"]
  /\ left = MaxRuns
  /\ minted = [u \in Uid |-> None]
  /\ told = {}
  /\ settled = {}

OnNode(n, s) ==
  \/ NodeStages(n, s) \/ NodeRefuses(n, s) \/ NodeBusy(n, s) \/ NodeInstallsSame(n, s)
  \/ NodeInstalls(n, s) \/ NodeHealthy(n, s) \/ NodeUnhealthy(n, s) \/ NodeDies(n, s)

OnController(r) ==
  \/ UserAdd(r) \/ UserImport(r) \/ UserSwitch(r)
  \/ ShowMissing(r) \/ ShowConflict(r) \/ ShowSame(r) \/ Unreachable(r)
  \/ Send(r) \/ Answer(r) \/ Lose(r) \/ Report(r) \/ Kill(r)

Next == (\E n \in Node, s \in Slot : OnNode(n, s)) \/ (\E r \in Run : OnController(r))

Spec == Init /\ [][Next]_vars

-----------------------------------------------------------------------------
TypeOK ==
  /\ users \in [Node -> [Tag -> Entry]]
  /\ lock \in [Node -> Slot \cup {None}]
  /\ \A n \in Node, s \in Slot :
       lock[n] = s <=> remote[n][s].phase \in {"staged", "installed"}
  /\ remote \in [Node -> [Slot -> Command]]
  /\ op \in [Run -> {"add", "enable", "disable"}]
  /\ plan \in [Run -> Seq(Task)]
  /\ row \in [Run -> Seq([ok : BOOLEAN, firm : BOOLEAN])]
  /\ pc \in [Run -> {"idle", "show", "send", "wait", "report"}]
  /\ left \in 0 .. MaxRuns
  /\ minted \in [Uid -> Tag \cup {None}]
  /\ told \in SUBSET [task : Task, firm : BOOLEAN]
  /\ settled \in SUBSET (Node \X Tag)

(* docs/specs/V0.2.7-V0.3.1_spec.md: a conflicting stable id is never      *)
(* silently overwritten.  A user that a node has under one user_id never   *)
(* gets another one there, whatever runs race, time out and are repeated;  *)
(* not even after the command that added it was undone, unless the user    *)
(* was gone in between.                                                    *)
IdentityIsStable ==
  [][\A n \in Node, t \in Tag :
       users[n][t] # Absent /\ users'[n][t] # Absent
         => users'[n][t].uid = users[n][t].uid]_vars

(* What a run that ended in SUCCESS said of a node stays true for ever:    *)
(* the user is there under that user_id - unless the run read a users.json *)
(* that an unfinished command could still put back: without `firm` this is *)
(* violated, although docs/specs/V0.2.7-V0.3.1_spec.md:1258 says never to  *)
(* report full success after a partial change.                             *)
SuccessIsTrue ==
  \A w \in told : w.firm => users[w.task.node][w.task.tag].uid = w.task.uid

(* Once a disable succeeded on a node with no enable of that user under    *)
(* way there, the user is off until somebody sends an enable: no retried   *)
(* or late add, no undone command brings him back.                         *)
DisableSticks ==
  \A s \in settled : ~ users[s[1]][s[2]].on

=============================================================================
