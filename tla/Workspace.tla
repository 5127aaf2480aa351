------------------------------ MODULE Workspace ------------------------------
(***************************************************************************)
(* The controller's portable workspace (lib/workspace.py, lib/trust.py and *)
(* the commands of lib/vincula-fleet.py that write it): the node registry  *)
(* fleet.json, the append-only files trust/known_hosts and                 *)
(* history/instances.jsonl, and workspace.json, which names the revision   *)
(* and carries a digest of the others.  A home without workspace.json is a *)
(* legacy one: its files are written directly.                             *)
(*                                                                         *)
(* There is no transaction over the files.  workspace_mutation checks the  *)
(* digest and what this machine saw last, lets the caller write, reads     *)
(* workspace.json again and commits the next revision; whatever stops      *)
(* between shows as a digest that does not match.  Workspaces travel       *)
(* between machines as archives (export, import).  The registry commands   *)
(* and the sync hold the fleet operation lock of their machine; init,      *)
(* import and export do not.                                               *)
(*                                                                         *)
(* A definition whose comment starts with "Mutant of" is not part of the   *)
(* specification (see Accountd).                                           *)
(***************************************************************************)
EXTENDS Naturals, Sequences

CONSTANTS
  Machine,   \* machines with a controller
  Proc,      \* commands at a time
  MaxRuns,   \* bound: commands ever begun
  MaxFaults  \* bound: commands killed, and imports one of whose writes fails

ASSUME ConstantsAssumption ==
  /\ "none" \notin Machine \cup Proc
  /\ MaxRuns \in Nat /\ MaxFaults \in Nat

VARIABLES
  files,    \* the portable files of each home, without workspace.json
  man,      \* workspace.json of each home
  view,     \* workspace-view.json of each machine, per fleet
  lock,     \* who holds the fleet operation lock of a machine
  arch,     \* the archives the operator has
  at,       \* the machine a command runs on
  pc,       \* its next step
  op,       \* which command
  item,     \* what it adds
  todo,     \* the writes it still has to make
  base,     \* the workspace.json it checked, or wrote last
  snap,     \* the files as it read them
  pack,     \* the archive it installs or puts together
  runs,     \* commands begun
  faults,   \* faults still to come
  commits,  \* history: what each revision was to contain, by write_id
  raced     \* history: an init or an import ran beside another writer

local == <<at, pc, op, item, todo, base, snap, pack>>
vars == <<files, man, view, lock, arch, local, runs, faults, commits, raced>>

None == "none"

-----------------------------------------------------------------------------
Item == 1..MaxRuns

Wid == 1..(2 * MaxRuns + 1)   \* write_ids are fresh: numbered in their order

(* The registry is a set of nodes; trust and history, which are only       *)
(* appended to, one set of lines, in a file that may be missing.  CutShort *)
(* in a registry: the file was truncated and cannot be loaded.             *)
CutShort == 0

Files == [reg : SUBSET (Item \cup {CutShort}), log : SUBSET Item, logged : BOOLEAN]

NoFiles == [reg |-> {}, log |-> {}, logged |-> FALSE]

(* A digest is what it matches: the content it was computed over, or, the  *)
(* zero digest, nothing.  A fleet_id is the write_id of its first revision.*)
Manifest == [fid : Wid, rev : Nat, wid : Wid, sum : SUBSET Files]

NoManifest == [fid |-> 0, rev |-> 0, wid |-> 0, sum |-> {}]

(* wid = 0: no workspace-view.json yet.                                    *)
View == [rev : Nat, wid : Wid \cup {0}]

Unseen == [rev |-> 0, wid |-> 0]

Archive == [man : Manifest \cup {NoManifest}, files : Files]

NoArchive == [man |-> NoManifest, files |-> NoFiles]

WithLog(f, g) == [f EXCEPT !.log = g.log, !.logged = g.logged]

(* The content of f after a write of kind w that adds i; only an import    *)
(* commits without a change.                                               *)
Written(f, w, i) ==
  CASE w = "reg" -> [f EXCEPT !.reg = @ \cup {i}]
    [] w = "log" -> [f EXCEPT !.log = @ \cup {i}, !.logged = TRUE]
    [] OTHER     -> f

-----------------------------------------------------------------------------
(* detect_workspace_conflict: manifest d, files f, view v.                 *)
Inconsistent(d, f) == f \notin d.sum

RolledBack(d, v) == v.wid # 0 /\ d.rev < v.rev

Diverged(d, v) == v.wid # 0 /\ d.rev = v.rev /\ d.wid # v.wid

(* Mutant of Conflict: two revisions of one number are not told apart.     *)
ConflictByNumber(d, f, v) == Inconsistent(d, f) \/ RolledBack(d, v)

Conflict(d, f, v) == Inconsistent(d, f) \/ RolledBack(d, v) \/ Diverged(d, v)

(* remember_workspace_view                                                 *)
Remember(m, d) == view' = [view EXCEPT ![m][d.fid] = [rev |-> d.rev, wid |-> d.wid]]

(* Mutant of Importable: the digest of an archive is not compared.         *)
ImportableUnchecked(a) == a.man # NoManifest

(* _validate_staged_workspace                                              *)
Importable(a) ==
  a.man # NoManifest /\ CutShort \notin a.files.reg /\ a.files \in a.man.sum

-----------------------------------------------------------------------------
(* Beginning and end of a command.                                         *)

Locked == {"adopt", "register", "flush"}

(* `node adopt` pins a host key before it saves the registry; `register`   *)
(* stands for every other registry command; a sync flushes history lines.  *)
Writes(c) ==
  CASE c = "adopt"    -> <<"log", "reg">>
    [] c = "register" -> <<"reg">>
    [] c = "flush"    -> <<"log">>
    [] OTHER          -> << >>

(* save_registry stores what load_registry gave; the lines are appended to *)
(* what is there.                                                          *)
FirstStep(w) == IF w = "reg" THEN "load" ELSE "check"

Others(p, m) == {q \in Proc \ {p} : at[q] = m}

(* An export reads only; those that take the lock exclude each other.      *)
Beside(p, m, c) ==
  \E q \in Others(p, m) :
    /\ c # "export" /\ op[q] # "export"
    /\ c \notin Locked \/ op[q] \notin Locked

Begins(p, m, c, writes, first) ==
  /\ op[p] = None /\ runs < MaxRuns
  /\ runs' = runs + 1 /\ raced' = (raced \/ Beside(p, m, c))
  /\ at' = [at EXCEPT ![p] = m]
  /\ op' = [op EXCEPT ![p] = c]
  /\ item' = [item EXCEPT ![p] = runs + 1]
  /\ todo' = [todo EXCEPT ![p] = writes]
  /\ pc' = [pc EXCEPT ![p] = first]

Forgotten(p) ==
  /\ at' = [at EXCEPT ![p] = None]
  /\ pc' = [pc EXCEPT ![p] = "idle"]
  /\ op' = [op EXCEPT ![p] = None]
  /\ item' = [item EXCEPT ![p] = 0]
  /\ todo' = [todo EXCEPT ![p] = << >>]
  /\ base' = [base EXCEPT ![p] = NoManifest]
  /\ snap' = [snap EXCEPT ![p] = NoFiles]
  /\ pack' = [pack EXCEPT ![p] = NoArchive]

(* Mutant of Ends: the lock is a file that outlives its owner.             *)
EndsLocked(p) == Forgotten(p) /\ lock' = lock

(* A command is over, whatever became of it, and with it its lock.         *)
Ends(p) ==
  /\ Forgotten(p)
  /\ lock' = [m \in Machine |-> IF lock[m] = p THEN None ELSE lock[m]]

Goes(p, next) ==
  /\ pc' = [pc EXCEPT ![p] = next]
  /\ UNCHANGED <<at, op, lock>>

(* The write at hand is done: the next one, or the end.                    *)
Proceeds(p) ==
  IF Len(todo[p]) > 1
    THEN /\ Goes(p, FirstStep(todo[p][2]))
         /\ todo' = [todo EXCEPT ![p] = Tail(@)]
         /\ UNCHANGED <<item, base, snap, pack>>
    ELSE Ends(p)

-----------------------------------------------------------------------------
(* Commands that hold the fleet operation lock.                            *)

(* Mutant of Start: the commands take no lock.                             *)
StartUnlocked(p, m) ==
  \E c \in Locked :
    /\ Begins(p, m, c, Writes(c), FirstStep(Writes(c)[1]))
    /\ UNCHANGED <<files, man, view, lock, arch, base, snap, pack, faults, commits>>

Start(p, m) ==
  \E c \in Locked :
    /\ lock[m] = None
    /\ Begins(p, m, c, Writes(c), FirstStep(Writes(c)[1]))
    /\ lock' = [lock EXCEPT ![m] = p]
    /\ UNCHANGED <<files, man, view, arch, base, snap, pack, faults, commits>>

LoadRegistry(p) ==
  /\ pc[p] = "load"
  /\ IF CutShort \in files[at[p]].reg THEN Ends(p)
       ELSE /\ snap' = [snap EXCEPT ![p] = files[at[p]]]
            /\ Goes(p, "check")
            /\ UNCHANGED <<item, todo, base, pack>>
  /\ UNCHANGED <<files, man, view, arch, runs, faults, commits, raced>>

(* What a write puts in place: the registry it read with its change, or    *)
(* its line after those that are there.                                    *)
Put(p) ==
  LET m == at[p]
  IN  CASE todo[p][1] = "reg" -> [files[m] EXCEPT !.reg = snap[p].reg \cup {item[p]}]
        [] OTHER              -> Written(files[m], todo[p][1], item[p])

(* Without workspace.json there is no check and no revision, and a pinned  *)
(* host key goes to the user's own known_hosts.                            *)
WriteLegacy(p) ==
  /\ pc[p] = "check" /\ man[at[p]] = NoManifest
  /\ files' = IF op[p] = "adopt" /\ todo[p][1] = "log" THEN files
                ELSE [files EXCEPT ![at[p]] = Put(p)]
  /\ Proceeds(p)
  /\ UNCHANGED <<man, view, arch, runs, faults, commits, raced>>

-----------------------------------------------------------------------------
(* workspace_mutation                                                      *)

CheckFails(p) ==
  LET m == at[p]
  IN  /\ pc[p] = "check" /\ man[m] # NoManifest
      /\ Conflict(man[m], files[m], view[m][man[m].fid])
      /\ Ends(p)
      /\ UNCHANGED <<files, man, view, arch, runs, faults, commits, raced>>

Check(p) ==
  LET m == at[p]
  IN  /\ pc[p] = "check" /\ man[m] # NoManifest
      /\ ~ Conflict(man[m], files[m], view[m][man[m].fid])
      /\ base' = [base EXCEPT ![p] = man[m]]
      /\ Remember(m, man[m])
      /\ Goes(p, "mutate")
      /\ UNCHANGED <<files, man, arch, item, todo, snap, pack, runs, faults, commits, raced>>

Mutate(p) ==
  /\ pc[p] = "mutate"
  /\ files' = [files EXCEPT ![at[p]] = Put(p)]
  /\ Goes(p, "reread")
  /\ UNCHANGED <<man, view, arch, item, todo, base, snap, pack, runs, faults, commits, raced>>

SameTip(d, e) == d.rev = e.rev /\ d.wid = e.wid

(* The check before the commit; when it refuses, what was written stays.   *)
Reread(p) ==
  LET d == man[at[p]]
  IN  /\ pc[p] = "reread"
      /\ IF SameTip(d, base[p])
           THEN /\ base' = [base EXCEPT ![p] = d]
                /\ Goes(p, "digest")
                /\ UNCHANGED <<item, todo, snap, pack>>
           ELSE Ends(p)
      /\ UNCHANGED <<files, man, view, arch, runs, faults, commits, raced>>

(* refresh_manifest_digest                                                 *)
Digest(p) ==
  /\ pc[p] = "digest"
  /\ snap' = [snap EXCEPT ![p] = files[at[p]]]
  /\ Goes(p, "commit")
  /\ UNCHANGED <<files, man, view, arch, item, todo, base, pack, runs, faults, commits, raced>>

NextRevision(p) ==
  [base[p] EXCEPT !.rev = @ + 1, !.wid = Len(commits) + 1, !.sum = {snap[p]}]

Commit(p) ==
  /\ pc[p] = "commit"
  /\ man' = [man EXCEPT ![at[p]] = NextRevision(p)]
  /\ base' = [base EXCEPT ![p] = NextRevision(p)]
  /\ commits' = Append(commits, Written(commits[base[p].wid], todo[p][1], item[p]))
  /\ Goes(p, "see")
  /\ UNCHANGED <<files, view, arch, item, todo, snap, pack, runs, faults, raced>>

See(p) ==
  /\ pc[p] = "see"
  /\ Remember(at[p], base[p])
  /\ Proceeds(p)
  /\ UNCHANGED <<files, man, arch, runs, faults, commits, raced>>

-----------------------------------------------------------------------------
(* `workspace init`: create_workspace_manifest saves workspace.json twice, *)
(* the second time with its digest.                                        *)

BeginInit(p, m) ==
  LET d == [fid |-> Len(commits) + 1, rev |-> 1, wid |-> Len(commits) + 1, sum |-> {}]
  IN  /\ man[m] = NoManifest
      /\ Begins(p, m, "init", << >>, "seal")
      /\ man' = [man EXCEPT ![m] = d]
      /\ base' = [base EXCEPT ![p] = d]
      /\ commits' = Append(commits, files[m])
      /\ UNCHANGED <<files, view, lock, arch, snap, pack, faults>>

Seal(p) ==
  LET d == [base[p] EXCEPT !.sum = {files[at[p]]}]
  IN  /\ pc[p] = "seal"
      /\ man' = [man EXCEPT ![at[p]] = d]
      /\ base' = [base EXCEPT ![p] = d]
      /\ commits' = [commits EXCEPT ![d.wid] = files[at[p]]]
      /\ Goes(p, "see")
      /\ UNCHANGED <<files, view, arch, item, todo, snap, pack, runs, faults, raced>>

-----------------------------------------------------------------------------
(* `workspace export`: a check, then the members are read one by one.      *)

BeginExport(p, m) ==
  /\ man[m] # NoManifest
  /\ ~ Conflict(man[m], files[m], view[m][man[m].fid])
  /\ Begins(p, m, "export", << >>, "pack man")
  /\ UNCHANGED <<files, man, view, lock, arch, base, snap, pack, faults, commits>>

Pack(p) ==
  LET m == at[p]
      adds(name, packed) == /\ pack' = [pack EXCEPT ![p] = packed]
                            /\ Goes(p, name)
  IN  /\ \/ pc[p] = "pack man" /\ adds("pack reg", [pack[p] EXCEPT !.man = man[m]])
         \/ pc[p] = "pack reg" /\ adds("pack log", [pack[p] EXCEPT !.files.reg = files[m].reg])
      /\ UNCHANGED <<files, man, view, arch, item, todo, base, snap, runs, faults, commits, raced>>

EndExport(p) ==
  /\ pc[p] = "pack log"
  /\ arch' = arch \cup {[pack[p] EXCEPT !.files = WithLog(@, files[at[p]])]}
  /\ Ends(p)
  /\ UNCHANGED <<files, man, view, runs, faults, commits, raced>>

-----------------------------------------------------------------------------
(* `workspace import`: the members of a valid archive are installed one by *)
(* one, with no check against the workspace they replace; a member the     *)
(* archive lacks is left; then a revision is committed.                    *)

Members(a) ==
  IF a.files.logged THEN <<"man", "reg", "log">> ELSE <<"man", "reg">>

BeginImport(p, m) ==
  \E a \in arch :
    /\ Importable(a)
    /\ Begins(p, m, "import", Members(a) \o <<"bump">>, "install")
    /\ pack' = [pack EXCEPT ![p] = a]
    /\ base' = [base EXCEPT ![p] = man[m]]
    /\ snap' = [snap EXCEPT ![p] = files[m]]
    /\ UNCHANGED <<files, man, view, lock, arch, faults, commits>>

(* The member `name` of the home of m replaced from [man, files] a.        *)
Installed(name, m, a) ==
  /\ man' = IF name = "man" THEN [man EXCEPT ![m] = a.man] ELSE man
  /\ files' = CASE name = "reg" -> [files EXCEPT ![m].reg = a.files.reg]
                [] name = "log" -> [files EXCEPT ![m] = WithLog(@, a.files)]
                [] OTHER        -> files

Install(p) ==
  /\ pc[p] = "install"
  /\ Installed(todo[p][1], at[p], pack[p])
  /\ todo' = [todo EXCEPT ![p] = Tail(@)]
  /\ Goes(p, IF todo[p][2] = "bump" THEN "check" ELSE "install")
  /\ UNCHANGED <<view, arch, item, base, snap, pack, runs, faults, commits, raced>>

(* Mutant of PutBack: workspace.json is left as it is.                     *)
PutBackFiles(p) ==
  /\ man' = man
  /\ files' = IF todo[p][1] = "log" THEN [files EXCEPT ![at[p]].reg = snap[p].reg] ELSE files

(* What _commit_staged_workspace puts back when a write fails: the members *)
(* it had written, as they were.  PutBackFails has what goes wrong there.  *)
PutBack(p) ==
  LET m == at[p]
      done == todo[p][1]
  IN  /\ man' = IF done = "man" THEN man ELSE [man EXCEPT ![m] = base[p]]
      /\ files' = IF done = "log" THEN [files EXCEPT ![m].reg = snap[p].reg] ELSE files

InstallFails(p) ==
  /\ pc[p] = "install" /\ faults > 0
  /\ faults' = faults - 1
  /\ PutBack(p)
  /\ Ends(p)
  /\ UNCHANGED <<view, arch, runs, commits, raced>>

(* A workspace.json that cannot be loaded matches nothing.                 *)
Truncated(d) == [d EXCEPT !.sum = {}]

(* A put-back that fails is passed over: what the import wrote stays, or   *)
(* is cut short by the copy that fails.  The member at hand stays too when *)
(* only its mode could not be set, after it was renamed into its place.    *)
PutBackFails(p) ==
  LET m == at[p]
      done == todo[p][1]
      logs == {WithLog(NoFiles, f) : f \in {snap[p], pack[p].files}}
                \cup {[NoFiles EXCEPT !.logged = TRUE]}
  IN  /\ pc[p] = "install" /\ faults > 0
      /\ faults' = faults - 1
      /\ \E d \in {base[p], pack[p].man, Truncated(base[p])} :
           man' = [man EXCEPT ![m] = d]
      /\ \E reg \in {snap[p].reg, pack[p].files.reg, {CutShort}}, f \in logs :
           files' = CASE done = "man" -> files
                      [] done = "reg" -> [files EXCEPT ![m].reg = reg]
                      [] OTHER -> [files EXCEPT ![m] = WithLog([@ EXCEPT !.reg = reg], f)]
      /\ Ends(p)
      /\ UNCHANGED <<view, arch, runs, commits, raced>>

-----------------------------------------------------------------------------
(* Any command may be killed between two steps; the system drops its lock. *)
Kill(p) ==
  /\ op[p] # None /\ faults > 0
  /\ faults' = faults - 1
  /\ Ends(p)
  /\ UNCHANGED <<files, man, view, arch, runs, commits, raced>>

Genesis == [fid |-> 1, rev |-> 1, wid |-> 1, sum |-> {NoFiles}]

(* Every machine has a copy of a new workspace, or none has one yet.       *)
InitWith(W) ==
  /\ files = [m \in Machine |-> NoFiles]
  /\ man = [m \in Machine |-> IF m \in W THEN Genesis ELSE NoManifest]
  /\ view = [m \in Machine |-> [f \in Wid |->
       IF m \in W /\ f = 1 THEN [rev |-> 1, wid |-> 1] ELSE Unseen]]
  /\ commits = IF W = {} THEN << >> ELSE <<NoFiles>>
  /\ lock = [m \in Machine |-> None]
  /\ arch = {}
  /\ at = [p \in Proc |-> None]
  /\ pc = [p \in Proc |-> "idle"]
  /\ op = [p \in Proc |-> None]
  /\ item = [p \in Proc |-> 0]
  /\ todo = [p \in Proc |-> << >>]
  /\ base = [p \in Proc |-> NoManifest]
  /\ snap = [p \in Proc |-> NoFiles]
  /\ pack = [p \in Proc |-> NoArchive]
  /\ runs = 0 /\ faults = MaxFaults /\ raced = FALSE

Init == \E W \in {{}, Machine} : InitWith(W)

Mutation(p) ==
  \/ CheckFails(p) \/ Check(p) \/ Mutate(p) \/ Reread(p)
  \/ Digest(p) \/ Commit(p) \/ See(p)

Next ==
  \E p \in Proc :
    \/ \E m \in Machine :
         Start(p, m) \/ BeginInit(p, m) \/ BeginExport(p, m) \/ BeginImport(p, m)
    \/ LoadRegistry(p) \/ WriteLegacy(p) \/ Mutation(p)
    \/ Seal(p) \/ Pack(p) \/ EndExport(p)
    \/ Install(p) \/ InstallFails(p) \/ PutBackFails(p)
    \/ Kill(p)

Spec == Init /\ [][Next]_vars

-----------------------------------------------------------------------------
Step == {"idle", "load", "check", "mutate", "reread", "digest", "commit", "see",
         "seal", "pack man", "pack reg", "pack log", "install"}

TypeOK ==
  /\ files \in [Machine -> Files]
  /\ man \in [Machine -> Manifest \cup {NoManifest}]
  /\ view \in [Machine -> [Wid -> View]]
  /\ lock \in [Machine -> Proc \cup {None}]
  /\ arch \subseteq Archive
  /\ at \in [Proc -> Machine \cup {None}]
  /\ pc \in [Proc -> Step]
  /\ op \in [Proc -> Locked \cup {"init", "export", "import", None}]
  /\ item \in [Proc -> Item \cup {0}]
  /\ todo \in [Proc -> Seq({"man", "reg", "log", "bump"})]
  /\ base \in [Proc -> Manifest \cup {NoManifest}]
  /\ snap \in [Proc -> Files]
  /\ pack \in [Proc -> Archive]
  /\ runs \in 0..MaxRuns /\ faults \in 0..MaxFaults
  /\ commits \in Seq(Files) /\ raced \in BOOLEAN
  /\ \A m \in Machine : lock[m] # None => at[lock[m]] = m   \* no lock outlives its command

(* A workspace whose digest matches holds what its write_id was committed  *)
(* with: the changes of all its ancestors and its own.                     *)
MatchIsCommitted(m) ==
  man[m] # NoManifest /\ ~ Inconsistent(man[m], files[m])
    => files[m] = commits[man[m].wid]

(* So it is whatever was killed or failed on the way, unless an init or an *)
(* import ran beside another writer; anything else shows as INCONSISTENT.  *)
CleanIsCommitted == ~ raced => \A m \in Machine : MatchIsCommitted(m)

(* What workspace_mutation says of itself: while workspace.json exists,    *)
(* the portable files change only through it.  It does not hold: an import *)
(* replaces them first, and a command that loaded the registry before      *)
(* commits over what the import installed.                                 *)
OnlyMutationsChange == \A m \in Machine : MatchIsCommitted(m)

(* An archive that import accepts is a revision, although export takes no  *)
(* lock and reads the members one after another.                           *)
ArchiveIsARevision ==
  ~ raced => \A a \in arch : Importable(a) => a.files = commits[a.man.wid]

(* A machine never goes back to a revision of a fleet older than one it    *)
(* has seen, nor to another one of the same number, although an import     *)
(* installs an older one before it looks.                                  *)
SeenOnlyAdvances ==
  [][~ raced => \A m \in Machine : \A f \in Wid :
       view'[m][f] # view[m][f] =>
         view[m][f] = Unseen \/ view'[m][f].rev > view[m][f].rev]_vars

AsFound(p) == man'[at[p]] = base[p] /\ files'[at[p]] = snap[p]

(* An import whose write fails leaves the home as the import found it,     *)
(* when no put-back fails and nothing else wrote to the home.              *)
FailedWriteRestores ==
  [][~ raced => \A p \in Proc : InstallFails(p) => AsFound(p)]_vars

(* What import_workspace says: on validation or commit failure the live    *)
(* workspace is left unchanged.  It does not hold when the archive is      *)
(* older than what the machine has seen: that check comes last.            *)
FailedImportRestores ==
  [][\A p \in Proc : op[p] = "import" /\ CheckFails(p) => AsFound(p)]_vars

=============================================================================
