--------------------------- MODULE ProvisionProofs ---------------------------
(***************************************************************************)
(* The life of a node: what is installed keeps its identity, what carries  *)
(* a VERSION is whole, a rollback is exact, and what a controller reports  *)
(* is so - for any commands, controllers, runs and faults.                 *)
(*                                                                         *)
(* NodeInv is about types and order: the lock names the command that       *)
(* changes the node (LockHeld), a controller and its command know each     *)
(* other (AwaitInv), a command knows how far it is in the files it has to  *)
(* write (Progress) and where their new contents come from (Source), only  *)
(* the node that was there first is of the version before (NativeInv), and *)
(* a restore works on a node without VERSION (UninstalledInv).             *)
(*                                                                         *)
(* TornInv: a torn file is the mark of a rollback that went wrong.         *)
(* WholeInv is about contents, as long as no command took the lock while a *)
(* rollback without it was due: one command at a time changes the node,    *)
(* the node is a mixture of what that command found and what it brings     *)
(* (Midway), and what it found was at rest (AtRest).  ReportInv is what a  *)
(* provisioning may rely on between its steps: nothing can begin to change *)
(* the node it installed (Stable).                                         *)
(***************************************************************************)
EXTENDS Provision, SequenceTheorems, TLAPS

-----------------------------------------------------------------------------
(* The types.                                                              *)
Content == {Absent} \cup {<<a>> : a \in Run} \cup (Run \X Run)
             \cup (Run \X Run \X Run)

(* What each file holds.                                                   *)
Holds(f) ==
  {Absent} \cup
    CASE f = "state" -> Run \X Run \X Run
      [] f \in {"users", "db"} -> {<<a>> : a \in Run}
      [] f \in {"config", "uri"} -> Run \X Run
      [] f \in {"VERSION", "prog"} -> {<<Old>>, <<New>>}
      [] f = "marker" -> {<<0>>}

Disk == {d \in [File -> Content] : \A f \in File : d[f] \in Holds(f)}
Services == [on : SUBSET Both, sing : {Absent} \cup (Run \X Run), acct : BOOLEAN]
Archives == [state : Run \X Run \X Run, users : {<<a>> : a \in Run},
             db : {Absent} \cup {<<a>> : a \in Run}, secret : BOOLEAN]

Installer == {"fresh", "migrate", "runtime"}
Final == {"idle", "done", "failed"}
Writing == {"save", "health", "stage", "write", "start", "commit"}
Commands ==
  [kind : Installer \cup {None, "installer", "verify", "restore", "backup", "undo"},
   pc : Final \cup Writing
          \cup {"main", "lock", "check", "rollback", "state", "users"},
   by : Ctl \cup {None}, id : Run, todo : Seq(File),
   new : Disk, wrote : SUBSET File, found : Disk, before : Services,
   saved : Disk, cut : SUBSET File]

Changes(x) == x.pc \in Writing \cup {"rollback"}
Ends(x) == x.pc \in Final

(* What a command of each kind does.                                       *)
KindFits(x) ==
  /\ x.pc = "main" => x.kind \in {"runtime", "installer"}
  /\ x.pc = "check" => x.kind = "verify"
  /\ x.pc \in {"state", "users"} => x.kind = "backup"
  /\ x.pc \in {"lock", "rollback"} \cup Writing
       => x.kind \in Installer \cup {"restore", "undo"}
  /\ x.pc \in {"save", "health", "stage"} => x.kind = "migrate"
  /\ x.pc = "rollback" => x.kind # "undo"
  /\ x.kind = "backup" => x.pc \in Final \cup {"state", "users"}

CmdType(x) ==
  /\ x \in Commands
  /\ KindFits(x)
  /\ x.pc = "idle" => x = Idle
  /\ ~Ends(x) /\ x.kind # "backup" => x.id \notin {0, 1}
  /\ x.pc = "users" => x.new["state"] # Absent

Upgrading == {"backup", "checkpoint", "undo"}
Provisioning == {"payload", "preflight", "bootstrap", "reach", "target",
                 "register", "sync"}
Works == [op : {None, "upgrade", "provision"},
          pc : {"idle", "await", "stage", "install", "verify", "identity"}
                 \cup Upgrading \cup Provisioning,
          c : Cmd \cup {None}, seen : {Absent} \cup (Run \X Run), ck : Disk]

CtlType(w) ==
  /\ w \in Works
  /\ w.pc = "await" => w.c \in Cmd
  /\ w.op = None => w = NoWork
  /\ w.pc = "idle" => w.op = None
  /\ w.pc \in Upgrading => w.op = "upgrade"
  /\ w.pc \in Provisioning => w.op = "provision"
  /\ w.pc = "register" => w.seen # Absent

NodeType ==
  /\ disk \in Disk /\ torn \subseteq File /\ svc \in Services
  /\ arch \subseteq Archives
  /\ runs \in Run \ {0} /\ faults \in 0 .. MaxFaults

(* Everything but what the commands and the controllers do.                *)
Shape ==
  /\ reg \subseteq Run
  /\ cmd = [c \in Cmd |-> cmd[c]]
  /\ ctl = [k \in Ctl |-> ctl[k]]
  /\ told = [k \in Ctl |-> told[k]]

(* The commands that hold the lock.                                        *)
KeepsLock(x) ==
  x.pc \in Writing \/ (x.pc = "rollback" /\ x.kind \notin Installer)
LockHeld == \A c \in Cmd : (lock = c) <=> KeepsLock(cmd[c])

(* A controller waits for the one command that is its own.                 *)
AwaitInv ==
  \A c \in Cmd, k \in Ctl :
    (cmd[c].by = k) <=> (ctl[k].pc = "await" /\ ctl[k].c = c)

-----------------------------------------------------------------------------
(* What a command has to write, and how far it is.                         *)
Basics == {"config", "state", "users", "uri"}
InstallFiles == Basics \cup {"VERSION", "prog"}
TargetsOf(kind, new) ==
  CASE kind = "runtime" -> {"prog", "db", "marker"}
    [] kind \in {"fresh", "migrate"} -> InstallFiles
    [] kind = "undo" -> Basics \cup {"VERSION", "db"}
    [] OTHER -> Basics \cup (IF new["db"] = Absent THEN {} ELSE {"db"})
Targets(x) == TargetsOf(x.kind, x.new)

Left(s) == {s[i] : i \in 1 .. Len(s)}
Distinct(s) == \A i, j \in 1 .. Len(s) : s[i] = s[j] => i = j
BasicsFirst(s) ==
  \A i, j \in 1 .. Len(s) : s[j] = "VERSION" /\ s[i] \in Basics => i < j

Progress(x) ==
  /\ x.pc \in {"main", "lock"} => x.wrote = {} /\ x.saved = NoFiles
  /\ x.pc \in {"save", "health", "stage"} => x.wrote = {}
  /\ Changes(x) => x.wrote \subseteq Targets(x)
  /\ x.pc \in {"save", "health", "stage", "write"}
       => /\ x.todo # <<>> /\ Distinct(x.todo)
          /\ Left(x.todo) = Targets(x) \ x.wrote
  /\ x.pc \in {"start", "commit"} => x.wrote = Targets(x)
  /\ x.kind = "fresh" /\ x.pc = "write" => BasicsFirst(x.todo)
  /\ x.kind = "fresh" /\ Changes(x) /\ "VERSION" \in x.wrote
       => Basics \subseteq x.wrote

(* The node that was there first, until the host is replaced.              *)
First == <<1, 1, 1>>
Native(d) == d["state"] = First
NativeWhole(d) ==
  Native(d) /\ \A f \in InstallFiles \cup {"db"} : d[f] # Absent

(* Where the new contents of the files come from.                          *)
Source(x) ==
  /\ x.kind = "undo" /\ ~Ends(x) => NativeWhole(x.new)
  /\ x.kind = "migrate" /\ Changes(x)
       => /\ NativeWhole(x.found) /\ x.new = Migrated(x.found)
          /\ x.saved["state"] \in {Absent, First}
  /\ x.kind = "fresh" /\ Changes(x)
       => x.found = NoFiles /\ x.new = Rendered(x.id, x.id, x.id, x.id, New)
  /\ x.kind = "runtime" /\ Changes(x) => x.found = NoFiles /\ x.new = Runtime
  /\ x.kind = "restore" /\ ~Ends(x) => ~Native(x.new) /\ Agree(x.new)
  /\ x.kind = "restore" /\ Changes(x)
       => /\ ~Installed(x.found) /\ ~Native(x.found)
          /\ x.found["prog"] = <<New>>

CmdInv(x) == CmdType(x) /\ Progress(x) /\ Source(x)

(* Only the node that was there first has the version before, and only it  *)
(* is migrated, upgraded or rolled back to a checkpoint.                   *)
NativeFits(x) ==
  /\ Changes(x) /\ Native(disk) => x.kind \in {"migrate", "undo"}
  /\ x.kind \in {"migrate", "undo"} /\ ~Ends(x) => Native(disk)

NativeInv ==
  /\ disk["VERSION"] = <<Old>> \/ disk["prog"] = <<Old>> => Native(disk)
  /\ Native(disk) => NativeWhole(disk)
  /\ \A c \in Cmd : NativeFits(cmd[c])

(* A node is not installed while a restore, or a fresh installation that   *)
(* has not come to VERSION, changes it.                                    *)
Uninstalled(x) ==
  \/ x.kind = "restore" /\ Changes(x)
  \/ x.kind = "fresh" /\ x.pc = "write" /\ "VERSION" \notin x.wrote

UninstalledInv == \A c \in Cmd : Uninstalled(cmd[c]) => ~Installed(disk)

(* The checkpoint of an upgrade.                                           *)
CtlInv(w) ==
  /\ CtlType(w)
  /\ w.op = "upgrade" => Native(disk)
  /\ w.ck # NoFiles => NativeWhole(w.ck)
  /\ w.op = "upgrade" /\ w.pc \in {"install", "verify", "identity", "undo"}
       => w.ck # NoFiles
  /\ w.op = "upgrade" /\ w.pc = "await" /\ w.ck = NoFiles
       => cmd[w.c].kind = "backup"

NodeInv ==
  /\ NodeType /\ Shape /\ LockHeld /\ AwaitInv /\ NativeInv /\ UninstalledInv
  /\ \A c \in Cmd : CmdInv(cmd[c])
  /\ \A k \in Ctl : CtlInv(ctl[k])

-----------------------------------------------------------------------------
(***************************************************************************)
(* The data: constants, files, services, sequences of files.               *)
(***************************************************************************)
LEMMA Constants ==
  /\ None \notin Cmd /\ None \notin Ctl
  /\ 0 \in Run /\ 1 \in Run /\ 2 \in Run /\ Run \subseteq Nat
  /\ \A n \in Run : n < MaxRuns => n + 1 \in Run
  /\ MaxRuns \in Nat /\ MaxFaults \in Nat
  BY ConstantsAssumption, ControllersAssumption DEF Run, None

LEMMA AbsentIsNot ==
  /\ \A a : <<a>> # Absent
  /\ \A a, b : <<a, b>> # Absent
  /\ \A a, b, c : <<a, b, c>> # Absent
  BY DEF Absent

LEMMA FilesOf ==
  ASSUME NEW d \in Disk
  PROVE  /\ d = [f \in File |-> d[f]]
         /\ d["state"] \in {Absent} \cup (Run \X Run \X Run)
         /\ d["users"] \in {Absent} \cup {<<a>> : a \in Run}
         /\ d["db"] \in {Absent} \cup {<<a>> : a \in Run}
         /\ d["config"] \in {Absent} \cup (Run \X Run)
         /\ d["uri"] \in {Absent} \cup (Run \X Run)
         /\ d["VERSION"] \in {Absent, <<Old>>, <<New>>}
         /\ d["prog"] \in {Absent, <<Old>>, <<New>>}
         /\ d["marker"] \in {Absent, <<0>>}
  BY DEF Disk, Holds, File

LEMMA InDisk ==
  ASSUME NEW d, d = [f \in File |-> d[f]],
         d["state"] \in {Absent} \cup (Run \X Run \X Run),
         d["users"] \in {Absent} \cup {<<a>> : a \in Run},
         d["db"] \in {Absent} \cup {<<a>> : a \in Run},
         d["config"] \in {Absent} \cup (Run \X Run),
         d["uri"] \in {Absent} \cup (Run \X Run),
         d["VERSION"] \in {Absent, <<Old>>, <<New>>},
         d["prog"] \in {Absent, <<Old>>, <<New>>},
         d["marker"] \in {Absent, << 0 >>}
  PROVE  d \in Disk
<1>1. \A f \in File : d[f] \in Holds(f)
  BY DEF Holds, File
<1>2. \A f \in File : Holds(f) \subseteq Content
  BY Constants DEF Holds, File, Content, Old, New
<1>3. d \in [File -> Content]
  BY <1>1, <1>2
<1>4. QED
  BY <1>1, <1>3 DEF Disk

(* Each file has one type: a node made of the files of two is a node.      *)
LEMMA MixedDisk ==
  ASSUME NEW d, d = [f \in File |-> d[f]],
         \A f \in File : \E e \in Disk : d[f] = e[f]
  PROVE  d \in Disk
<1>1. \A f \in File : d[f] \in Content /\ d[f] \in Holds(f)
  BY DEF Disk
<1>2. QED
  BY <1>1 DEF Disk

(* n is d with the file f of e.                                            *)
Puts(n, d, f, e) == n = [d EXCEPT ![f] = e[f]]

LEMMA PutFile ==
  ASSUME NEW d \in Disk, NEW e \in Disk, NEW f \in File,
         NEW n, Puts(n, d, f, e)
  PROVE  /\ n \in Disk /\ n[f] = e[f]
         /\ \A g \in File \ {f} : n[g] = d[g]
<1>1. d = [g \in File |-> d[g]]
  BY FilesOf
<1>2. /\ n = [g \in File |-> n[g]] /\ n[f] = e[f]
      /\ \A g \in File \ {f} : n[g] = d[g]
  BY <1>1 DEF Puts
<1>3. n \in Disk
  BY <1>2, MixedDisk
<1>4. QED
  BY <1>2, <1>3

LEMMA OverDisk ==
  ASSUME NEW d \in Disk, NEW e \in Disk
  PROVE  Over(d, e) \in Disk
<1>1. /\ Over(d, e) = [f \in File |-> Over(d, e)[f]]
      /\ \A f \in File : Over(d, e)[f] = e[f] \/ Over(d, e)[f] = d[f]
  BY DEF Over
<1>2. QED
  BY <1>1, MixedDisk

LEMMA NoFilesDisk ==
  NoFiles \in Disk /\ \A f \in File : NoFiles[f] = Absent
<1>1. NoFiles = [f \in File |-> NoFiles[f]] /\ \A f \in File : NoFiles[f] = Absent
  BY DEF NoFiles
<1>2. QED
  BY <1>1, InDisk DEF File

LEMMA RenderedDisk ==
  ASSUME NEW n \in Run, NEW i \in Run, NEW k \in Run, NEW u \in Run,
         NEW v \in {Old, New}
  PROVE  LET d == Rendered(n, i, k, u, v)
         IN /\ d \in Disk
            /\ d["state"] = <<n, i, k>> /\ d["users"] = <<u>>
            /\ d["config"] = <<k, u>> /\ d["uri"] = <<k, u>> /\ d["db"] = <<n>>
            /\ d["VERSION"] = <<v>> /\ d["prog"] = <<v>> /\ d["marker"] = Absent
            /\ Agree(d)
<1> DEFINE d == Rendered(n, i, k, u, v)
<1>1. d = [f \in File |-> d[f]]
  BY DEF Rendered, File
<1>2. /\ d["state"] = <<n, i, k>> /\ d["users"] = <<u>>
      /\ d["config"] = <<k, u>> /\ d["uri"] = <<k, u>> /\ d["db"] = <<n>>
      /\ d["VERSION"] = <<v>> /\ d["prog"] = <<v>> /\ d["marker"] = Absent
  BY DEF Rendered
<1> HIDE DEF d
<1>3. d \in Disk
  <2>1. d["state"] \in Run \X Run \X Run
    BY <1>2
  <2>2. d["config"] \in Run \X Run /\ d["uri"] \in Run \X Run
    BY <1>2
  <2>3. d["users"] \in {<<a>> : a \in Run} /\ d["db"] \in {<<a>> : a \in Run}
    BY <1>2
  <2>4. d["VERSION"] \in {<<Old>>, <<New>>} /\ d["prog"] \in {<<Old>>, <<New>>}
    BY <1>2
  <2>5. QED
    BY <1>1, <1>2, <2>1, <2>2, <2>3, <2>4, InDisk
<1>4. Agree(d)
  BY <1>2, AbsentIsNot DEF Agree
<1>5. QED
  BY <1>2, <1>3, <1>4 DEF d

LEMMA RuntimeDisk ==
  /\ Runtime \in Disk
  /\ Runtime["prog"] = <<New>>
  /\ \A f \in InstallFiles \ {"prog"} : Runtime[f] = Absent
<1>1. Runtime = [f \in File |-> Runtime[f]]
  BY NoFilesDisk, FilesOf DEF Runtime
<1>2. /\ Runtime["prog"] = <<New>> /\ Runtime["db"] = <<0>>
      /\ Runtime["marker"] = <<0>>
      /\ \A f \in File \ {"db", "prog", "marker"} : Runtime[f] = Absent
  BY NoFilesDisk DEF Runtime, File, NoFiles
<1>3. Runtime \in Disk
  BY <1>1, <1>2, Constants, InDisk DEF File
<1>4. QED
  BY <1>2, <1>3 DEF File, InstallFiles, Basics

LEMMA StoppedType == Stopped \in Services
  BY DEF Stopped, Services

LEMMA EnableNowType ==
  ASSUME NEW s \in Services, NEW d \in Disk, NEW u \in SUBSET Both
  PROVE  /\ EnableNow(s, d, u) \in Services
         /\ EnableNow(s, d, u).on = s.on \cup u
         /\ EnableNow(s, d, u).sing
              = IF "sing" \in u /\ s.sing = Absent THEN d["config"] ELSE s.sing
         /\ EnableNow(s, d, u).acct = (s.acct \/ "acct" \in u)
<1>1. /\ s.on \in SUBSET Both /\ s.sing \in {Absent} \cup (Run \X Run)
      /\ s.acct \in BOOLEAN /\ d["config"] \in {Absent} \cup (Run \X Run)
      /\ s = [on |-> s.on, sing |-> s.sing, acct |-> s.acct]
  BY FilesOf DEF Services
<1> DEFINE t == EnableNow(s, d, u)
<1>2. /\ DOMAIN t = {"on", "sing", "acct"} /\ t = [x \in {"on", "sing", "acct"} |-> t[x]]
      /\ t.on = s.on \cup u
      /\ t.sing = IF "sing" \in u /\ s.sing = Absent THEN d["config"] ELSE s.sing
      /\ t.acct = (s.acct \/ "acct" \in u)
  BY <1>1 DEF EnableNow, Services
<1> HIDE DEF t
<1>3. t \in Services
  <2>1. t = [on |-> t.on, sing |-> t.sing, acct |-> t.acct]
    BY <1>2
  <2>2. t.on \in SUBSET Both /\ t.sing \in {Absent} \cup (Run \X Run) /\ t.acct \in BOOLEAN
    BY <1>1, <1>2
  <2>3. QED
    BY <2>1, <2>2 DEF Services
<1>4. QED
  BY <1>2, <1>3 DEF t

LEMMA AcctDown ==
  ASSUME NEW s \in Services
  PROVE  LET t == [s EXCEPT !.acct = FALSE]
         IN t \in Services /\ t.on = s.on /\ t.sing = s.sing /\ t.acct = FALSE
<1> DEFINE t == [s EXCEPT !.acct = FALSE]
<1>1. /\ t = [x \in {"on", "sing", "acct"} |-> t[x]]
      /\ t.on = s.on /\ t.sing = s.sing /\ t.acct = FALSE
  BY DEF Services
<1>2. s.on \in SUBSET Both /\ s.sing \in {Absent} \cup (Run \X Run)
  BY DEF Services
<1> HIDE DEF t
<1>3. t = [on |-> t.on, sing |-> t.sing, acct |-> t.acct]
  BY <1>1
<1>4. t \in Services
  BY <1>1, <1>2, <1>3 DEF Services
<1>5. QED
  BY <1>1, <1>4 DEF t

LEMMA RestartedType ==
  ASSUME NEW s \in Services, NEW d \in Disk
  PROVE  /\ Restarted(s, d) \in Services
         /\ Restarted(s, d).on = s.on /\ Restarted(s, d).acct = s.acct
         /\ Restarted(s, d).sing = d["config"]
<1>1. d["config"] \in {Absent} \cup (Run \X Run)
  BY FilesOf
<1>2. QED
  BY <1>1 DEF Services, Restarted

LEMMA PutServicesType ==
  ASSUME NEW s \in Services, NEW old \in Services, NEW d \in Disk
  PROVE  PutServices(s, old, d) \in Services
<1>1. d["config"] \in {Absent} \cup (Run \X Run)
  BY FilesOf
<1>2. QED
  BY <1>1 DEF Services, PutServices

LEMMA BothIs == "sing" \in Both /\ "acct" \in Both /\ {"sing"} \in SUBSET Both
                /\ {"acct"} \in SUBSET Both /\ Both \in SUBSET Both
  BY DEF Both

(* Sequences of files without repetition, and what is left in them.        *)
LEMMA TailLeft ==
  ASSUME NEW s \in Seq(File), s # <<>>, Distinct(s)
  PROVE  /\ Head(s) \in File /\ Head(s) \in Left(s) /\ Tail(s) \in Seq(File)
         /\ Left(Tail(s)) = Left(s) \ {Head(s)} /\ Distinct(Tail(s))
         /\ BasicsFirst(s) => /\ BasicsFirst(Tail(s))
                              /\ Head(s) = "VERSION" => Left(s) \cap Basics = {}
<1>1. /\ Len(s) \in Nat \ {0} /\ Head(s) = s[1] /\ s[1] \in File
      /\ Tail(s) \in Seq(File) /\ Len(Tail(s)) = Len(s) - 1
      /\ \A i \in 1 .. Len(s) - 1 : Tail(s)[i] = s[i + 1]
  BY HeadTailProperties, EmptySeq, LenProperties, ElementOfSeq
<1>2. Head(s) \in Left(s)
  BY <1>1 DEF Left
<1>3. Left(Tail(s)) \subseteq Left(s) \ {Head(s)}
  <2>1. ASSUME NEW i \in 1 .. Len(s) - 1
        PROVE  Tail(s)[i] \in Left(s) /\ Tail(s)[i] # s[1]
    <3>1. i + 1 \in 1 .. Len(s) /\ 1 \in 1 .. Len(s) /\ i + 1 # 1
      BY <1>1
    <3>2. QED
      BY <1>1, <3>1 DEF Left, Distinct
  <2>2. QED
    BY <1>1, <2>1 DEF Left
<1>4. Left(s) \ {Head(s)} \subseteq Left(Tail(s))
  <2>1. ASSUME NEW i \in 1 .. Len(s), s[i] # s[1]
        PROVE  s[i] \in Left(Tail(s))
    <3>1. i - 1 \in 1 .. Len(s) - 1 /\ (i - 1) + 1 = i
      BY <1>1, <2>1
    <3>2. QED
      BY <1>1, <3>1 DEF Left
  <2>2. QED
    BY <1>1, <2>1 DEF Left
<1>5. Distinct(Tail(s))
  <2>1. ASSUME NEW i \in 1 .. Len(s) - 1, NEW j \in 1 .. Len(s) - 1,
               Tail(s)[i] = Tail(s)[j]
        PROVE  i = j
    <3>1. i + 1 \in 1 .. Len(s) /\ j + 1 \in 1 .. Len(s)
      BY <1>1
    <3>2. i + 1 = j + 1
      BY <1>1, <2>1, <3>1 DEF Distinct
    <3>3. QED
      BY <3>2
  <2>2. QED
    BY <1>1, <2>1 DEF Distinct
<1>6. ASSUME BasicsFirst(s)
      PROVE  BasicsFirst(Tail(s))
  <2>1. ASSUME NEW i \in 1 .. Len(s) - 1, NEW j \in 1 .. Len(s) - 1,
               Tail(s)[j] = "VERSION", Tail(s)[i] \in Basics
        PROVE  i < j
    <3>1. i + 1 \in 1 .. Len(s) /\ j + 1 \in 1 .. Len(s)
      BY <1>1
    <3>2. i + 1 < j + 1
      BY <1>1, <1>6, <2>1, <3>1 DEF BasicsFirst
    <3>3. QED
      BY <3>2
  <2>2. QED
    BY <1>1, <2>1 DEF BasicsFirst
<1>7. ASSUME BasicsFirst(s), Head(s) = "VERSION"
      PROVE  Left(s) \cap Basics = {}
  <2>1. ASSUME NEW i \in 1 .. Len(s), s[i] \in Basics
        PROVE  FALSE
    <3>1. i < 1
      BY <1>1, <1>7, <2>1 DEF BasicsFirst
    <3>2. QED
      BY <3>1
  <2>2. QED
    BY <2>1 DEF Left
<1>8. QED
  BY <1>1, <1>2, <1>3, <1>4, <1>5, <1>6, <1>7

LEMMA EmptyLeft ==
  /\ Left(<<>>) = {}
  /\ \A s \in Seq(File) : Left(s) = {} => s = <<>>
<1>1. Left(<<>>) = {}
  BY DEF Left
<1>2. ASSUME NEW s \in Seq(File), s # <<>>
      PROVE  Left(s) # {}
  <2>1. 1 \in 1 .. Len(s)
    BY <1>2, EmptySeq, LenProperties
  <2>2. QED
    BY <2>1 DEF Left
<1>3. QED
  BY <1>1, <1>2

LEMMA JoinLeft ==
  ASSUME NEW s \in Seq(File), NEW t \in Seq(File), Distinct(s), Distinct(t),
         Left(s) \cap Left(t) = {}
  PROVE  /\ s \o t \in Seq(File) /\ Distinct(s \o t)
         /\ Left(s \o t) = Left(s) \cup Left(t)
<1> DEFINE u == s \o t
<1>1. /\ u \in Seq(File) /\ Len(u) = Len(s) + Len(t)
      /\ Len(s) \in Nat /\ Len(t) \in Nat
      /\ \A i \in 1 .. Len(s) + Len(t) :
           u[i] = IF i <= Len(s) THEN s[i] ELSE t[i - Len(s)]
  BY ConcatProperties, LenProperties
<1> HIDE DEF u
<1>2. ASSUME NEW i \in 1 .. Len(u)
      PROVE  \/ i \in 1 .. Len(s) /\ u[i] = s[i] /\ u[i] \in Left(s)
             \/ /\ i - Len(s) \in 1 .. Len(t) /\ u[i] = t[i - Len(s)]
                /\ u[i] \in Left(t)
  <2>1. CASE i <= Len(s)
    BY <1>1, <2>1 DEF Left
  <2>2. CASE i > Len(s)
    <3>1. i - Len(s) \in 1 .. Len(t) /\ u[i] = t[i - Len(s)]
      BY <1>1, <2>2
    <3>2. QED
      BY <3>1 DEF Left
  <2>3. QED
    BY <1>1, <2>1, <2>2
<1>3. Distinct(u)
  <2>1. ASSUME NEW i \in 1 .. Len(u), NEW j \in 1 .. Len(u), u[i] = u[j]
        PROVE  i = j
    <3>1. CASE i \in 1 .. Len(s) /\ u[i] = s[i] /\ u[i] \in Left(s)
      <4>1. j \in 1 .. Len(s) /\ u[j] = s[j]
        BY <1>2, <2>1, <3>1
      <4>2. QED
        BY <2>1, <3>1, <4>1 DEF Distinct
    <3>2. CASE i - Len(s) \in 1 .. Len(t) /\ u[i] = t[i - Len(s)] /\ u[i] \in Left(t)
      <4>1. j - Len(s) \in 1 .. Len(t) /\ u[j] = t[j - Len(s)]
        BY <1>2, <2>1, <3>2
      <4>2. i - Len(s) = j - Len(s)
        BY <2>1, <3>2, <4>1 DEF Distinct
      <4>3. QED
        BY <1>1, <4>2
    <3>3. QED
      BY <1>2, <3>1, <3>2
  <2>2. QED
    BY <2>1 DEF Distinct
<1>4. Left(u) \subseteq Left(s) \cup Left(t)
  BY <1>2 DEF Left
<1>5. Left(s) \subseteq Left(u)
  <2>1. ASSUME NEW i \in 1 .. Len(s)
        PROVE  s[i] \in Left(u)
    <3>1. i \in 1 .. Len(u) /\ u[i] = s[i]
      BY <1>1
    <3>2. QED
      BY <3>1 DEF Left
  <2>2. QED
    BY <2>1 DEF Left
<1>6. Left(t) \subseteq Left(u)
  <2>1. ASSUME NEW i \in 1 .. Len(t)
        PROVE  t[i] \in Left(u)
    <3>1. /\ i + Len(s) \in 1 .. Len(s) + Len(t) /\ ~ (i + Len(s) <= Len(s))
          /\ (i + Len(s)) - Len(s) = i
      BY <1>1
    <3>2. i + Len(s) \in 1 .. Len(u) /\ u[i + Len(s)] = t[i]
      BY <1>1, <3>1
    <3>3. QED
      BY <3>2 DEF Left
  <2>2. QED
    BY <2>1 DEF Left
<1>7. QED
  BY <1>1, <1>3, <1>4, <1>5, <1>6 DEF u

LEMMA KeptLeft ==
  ASSUME NEW new, NEW f \in File
  PROVE  /\ Kept(new, f) \in Seq(File) /\ Distinct(Kept(new, f))
         /\ Left(Kept(new, f)) = IF new[f] = Absent THEN {} ELSE {f}
<1>1. CASE new[f] = Absent
  BY <1>1, EmptyLeft, EmptySeq DEF Kept, Distinct
<1>2. CASE new[f] # Absent
  <2>1. Kept(new, f) = <<f>> /\ <<f>> \in Seq(File) /\ Len(<<f>>) = 1 /\ <<f>>[1] = f
    BY <1>2 DEF Kept
  <2>2. QED
    BY <1>2, <2>1 DEF Distinct, Left
<1>3. QED
  BY <1>1, <1>2

LEMMA KeptJoin ==
  ASSUME NEW new, NEW s \in Seq(File), Distinct(s), NEW f \in File \ Left(s),
         new[f] # Absent
  PROVE  /\ s \o Kept(new, f) \in Seq(File) /\ Distinct(s \o Kept(new, f))
         /\ Left(s \o Kept(new, f)) = Left(s) \cup {f}
<1> DEFINE t == Kept(new, f)
<1>1. t \in Seq(File) /\ Distinct(t) /\ Left(t) = {f}
  BY KeptLeft
<1> HIDE DEF t
<1>2. Left(s) \cap Left(t) = {}
  BY <1>1
<1>3. /\ s \o t \in Seq(File) /\ Distinct(s \o t)
      /\ Left(s \o t) = Left(s) \cup Left(t)
  BY <1>1, <1>2, JoinLeft
<1>4. QED
  BY <1>1, <1>3 DEF t

(* The orders in which the commands write.                                 *)
LEMMA Orders ==
  /\ RuntimeOrder \in Seq(File) /\ Distinct(RuntimeOrder) /\ RuntimeOrder # <<>>
  /\ Left(RuntimeOrder) = {"prog", "db", "marker"}
  /\ InstallOrder \in Seq(File) /\ Distinct(InstallOrder) /\ InstallOrder # <<>>
  /\ Left(InstallOrder) = InstallFiles /\ BasicsFirst(InstallOrder)
<1>1. /\ RuntimeOrder \in Seq(File) /\ Len(RuntimeOrder) = 3
      /\ RuntimeOrder[1] = "prog" /\ RuntimeOrder[2] = "db"
      /\ RuntimeOrder[3] = "marker"
  BY DEF RuntimeOrder, File
<1>2. 1 .. 3 = {1, 2, 3} /\ 1 .. 6 = {1, 2, 3, 4, 5, 6}
  OBVIOUS
<1>3. /\ InstallOrder \in Seq(File) /\ Len(InstallOrder) = 6
      /\ InstallOrder[1] = "config" /\ InstallOrder[2] = "state"
      /\ InstallOrder[3] = "users" /\ InstallOrder[4] = "uri"
      /\ InstallOrder[5] = "VERSION" /\ InstallOrder[6] = "prog"
  BY DEF InstallOrder, File
<1>4. RuntimeOrder # <<>> /\ InstallOrder # <<>>
  BY DEF RuntimeOrder, InstallOrder
<1>5. Distinct(RuntimeOrder) /\ Left(RuntimeOrder) = {"prog", "db", "marker"}
  BY <1>1, <1>2 DEF Distinct, Left
<1>6. Distinct(InstallOrder) /\ BasicsFirst(InstallOrder)
  BY <1>2, <1>3 DEF Distinct, BasicsFirst, Basics
<1>7. Left(InstallOrder) = InstallFiles
  BY <1>2, <1>3 DEF Left, InstallFiles, Basics
<1>8. QED
  BY <1>1, <1>3, <1>4, <1>5, <1>6, <1>7

LEMMA RestoreOrderLeft ==
  ASSUME NEW new
  PROVE  /\ RestoreOrder(new) \in Seq(File) /\ Distinct(RestoreOrder(new))
         /\ RestoreOrder(new) # <<>>
         /\ Left(RestoreOrder(new))
              = Basics \cup (IF new["db"] = Absent THEN {} ELSE {"db"})
<1> DEFINE s == <<"state", "users", "uri">>
           t == Kept(new, "db")
           u == <<"config">>
<1>1. s \in Seq(File) /\ Distinct(s) /\ Left(s) = {"state", "users", "uri"}
  <2>1. s \in Seq(File) /\ Len(s) = 3 /\ s[1] = "state" /\ s[2] = "users" /\ s[3] = "uri"
    BY DEF File
  <2>2. 1 .. 3 = {1, 2, 3}
    OBVIOUS
  <2>3. QED
    BY <2>1, <2>2 DEF Distinct, Left
<1>2. u \in Seq(File) /\ Distinct(u) /\ Left(u) = {"config"}
  <2>1. u \in Seq(File) /\ Len(u) = 1 /\ u[1] = "config"
    BY DEF File
  <2>2. QED
    BY <2>1 DEF Distinct, Left
<1>3. t \in Seq(File) /\ Distinct(t) /\ Left(t) = IF new["db"] = Absent THEN {} ELSE {"db"}
  BY KeptLeft DEF File
<1> HIDE DEF s, t, u
<1>4. /\ s \o t \in Seq(File) /\ Distinct(s \o t) /\ Left(s \o t) = Left(s) \cup Left(t)
  BY <1>1, <1>3, JoinLeft
<1> DEFINE v == s \o t
<1>5. v \in Seq(File) /\ Distinct(v) /\ Left(v) = Left(s) \cup Left(t)
  BY <1>4
<1> HIDE DEF v
<1>6. /\ v \o u \in Seq(File) /\ Distinct(v \o u) /\ Left(v \o u) = Left(v) \cup Left(u)
  BY <1>1, <1>2, <1>3, <1>5, JoinLeft
<1>7. RestoreOrder(new) = v \o u
  BY DEF RestoreOrder, s, t, u, v
<1>8. Left(RestoreOrder(new)) = Basics \cup (IF new["db"] = Absent THEN {} ELSE {"db"})
  BY <1>1, <1>2, <1>3, <1>5, <1>6, <1>7 DEF Basics
<1>9. RestoreOrder(new) # <<>>
  BY <1>8, EmptyLeft DEF Basics
<1>10. QED
  BY <1>6, <1>7, <1>8, <1>9

LEMMA UndoOrderLeft ==
  ASSUME NEW new, \A f \in Basics \cup {"VERSION", "db"} : new[f] # Absent
  PROVE  /\ UndoOrder(new) \in Seq(File) /\ Distinct(UndoOrder(new))
         /\ UndoOrder(new) # <<>>
         /\ Left(UndoOrder(new)) = Basics \cup {"VERSION", "db"}
<1>1. /\ new["config"] # Absent /\ new["VERSION"] # Absent /\ new["state"] # Absent
      /\ new["users"] # Absent /\ new["uri"] # Absent /\ new["db"] # Absent
  BY DEF Basics
<1> DEFINE a == Kept(new, "config")
           b == a \o Kept(new, "VERSION")
           c == b \o Kept(new, "state")
           d == c \o Kept(new, "users")
           e == d \o Kept(new, "uri")
           g == e \o Kept(new, "db")
<1>2. a \in Seq(File) /\ Distinct(a) /\ Left(a) = {"config"}
  BY <1>1, KeptLeft DEF File
<1> HIDE DEF a
<1>3. "VERSION" \in File \ Left(a)
  BY <1>2 DEF File
<1>4. b \in Seq(File) /\ Distinct(b) /\ Left(b) = {"config", "VERSION"}
  BY <1>1, <1>2, <1>3, KeptJoin
<1> HIDE DEF b
<1>5. "state" \in File \ Left(b)
  BY <1>4 DEF File
<1>6. c \in Seq(File) /\ Distinct(c) /\ Left(c) = {"config", "VERSION", "state"}
  BY <1>1, <1>4, <1>5, KeptJoin
<1> HIDE DEF c
<1>7. "users" \in File \ Left(c)
  BY <1>6 DEF File
<1>8. d \in Seq(File) /\ Distinct(d) /\ Left(d) = {"config", "VERSION", "state", "users"}
  BY <1>1, <1>6, <1>7, KeptJoin
<1> HIDE DEF d
<1>9. "uri" \in File \ Left(d)
  BY <1>8 DEF File
<1>10. /\ e \in Seq(File) /\ Distinct(e)
       /\ Left(e) = {"config", "VERSION", "state", "users", "uri"}
  BY <1>1, <1>8, <1>9, KeptJoin
<1> HIDE DEF e
<1>11. "db" \in File \ Left(e)
  BY <1>10 DEF File
<1>12. g \in Seq(File) /\ Distinct(g) /\ Left(g) = Basics \cup {"VERSION", "db"}
  <2>1. g \in Seq(File) /\ Distinct(g) /\ Left(g) = Left(e) \cup {"db"}
    BY <1>1, <1>10, <1>11, KeptJoin
  <2>2. Left(e) \cup {"db"} = Basics \cup {"VERSION", "db"}
    BY <1>10 DEF Basics
  <2>3. QED
    BY <2>1, <2>2
<1>13. UndoOrder(new) = g
  BY DEF UndoOrder, a, b, c, d, e, g
<1> HIDE DEF g
<1>14. QED
  BY <1>12, <1>13, EmptyLeft DEF Basics

-----------------------------------------------------------------------------
(***************************************************************************)
(* Commands.                                                               *)
(***************************************************************************)
LEMMA CommandFields ==
  ASSUME NEW x \in Commands
  PROVE  /\ x = [kind |-> x.kind, pc |-> x.pc, by |-> x.by, id |-> x.id,
                 todo |-> x.todo, new |-> x.new, wrote |-> x.wrote,
                 found |-> x.found, before |-> x.before, saved |-> x.saved,
                 cut |-> x.cut]
         /\ x.by \in Ctl \cup {None} /\ x.id \in Run /\ x.todo \in Seq(File)
         /\ x.new \in Disk /\ x.wrote \in SUBSET File /\ x.found \in Disk
         /\ x.before \in Services /\ x.saved \in Disk /\ x.cut \in SUBSET File
  BY DEF Commands

LEMMA IdleFields ==
  /\ Idle \in Commands
  /\ Idle.kind = None /\ Idle.pc = "idle" /\ Idle.by = None /\ Idle.id = 0
  /\ Idle.new = NoFiles /\ Idle.wrote = {} /\ Idle.todo = <<>>
  /\ Idle.saved = NoFiles
  BY Constants, NoFilesDisk, StoppedType, EmptySeq DEF Idle, Commands, Final

(* Nothing is said of a command that has ended but its type.               *)
LEMMA EndInv ==
  ASSUME NEW x \in Commands, x.pc \in Final, x.pc = "idle" => x = Idle
  PROVE  CmdInv(x)
  BY DEF CmdInv, CmdType, KindFits, Progress, Source, Changes, Ends, Final, Writing

LEMMA IdleInv == CmdInv(Idle)
  BY IdleFields, EndInv DEF Final

LEMMA EndedInv ==
  ASSUME NEW c \in Cmd, CmdType(cmd[c]), NEW r \in {"done", "failed"}
  PROVE  /\ CmdInv(Ended(c, r)) /\ Ends(Ended(c, r))
         /\ Ended(c, r).by = cmd[c].by
         /\ cmd[c].by # None => Ended(c, r).kind = cmd[c].kind /\ Ended(c, r).pc = r
<1>1. CASE cmd[c].by = None
  BY <1>1, IdleInv, IdleFields DEF Ended, Ends, Final
<1>2. CASE cmd[c].by # None
  <2> DEFINE y == [Idle EXCEPT !.kind = cmd[c].kind, !.by = cmd[c].by, !.pc = r]
  <2>1. cmd[c] \in Commands
    BY DEF CmdType
  <2>2. y \in Commands /\ y.pc = r /\ y.by = cmd[c].by /\ y.kind = cmd[c].kind
    BY <2>1, IdleFields DEF Commands, Final
  <2>3. Ended(c, r) = y
    BY <1>2 DEF Ended
  <2> HIDE DEF y
  <2>4. CmdInv(y)
    BY <2>2, EndInv DEF Final
  <2>5. QED
    BY <2>2, <2>3, <2>4 DEF Ends, Final
<1>3. QED
  BY <1>1, <1>2

LEMMA PcMoved ==
  ASSUME NEW x \in Commands,
         NEW p \in Writing \cup {"main", "lock", "check", "rollback", "state", "users"}
  PROVE  LET y == [x EXCEPT !.pc = p]
         IN /\ y \in Commands /\ y.pc = p /\ y.kind = x.kind /\ y.by = x.by
            /\ y.id = x.id /\ y.todo = x.todo /\ y.new = x.new
            /\ y.wrote = x.wrote /\ y.found = x.found /\ y.before = x.before
            /\ y.saved = x.saved /\ y.cut = x.cut
  BY DEF Commands

LEMMA CommandNew ==
  ASSUME NEW kind \in Installer \cup {"installer", "restore", "undo"},
         NEW p \in {"main", "lock"}, NEW by \in Ctl \cup {None}, NEW new \in Disk,
         runs + 1 \in Run
  PROVE  LET y == Command(kind, p, by, new)
         IN /\ y \in Commands /\ y.kind = kind /\ y.pc = p /\ y.by = by
            /\ y.id = runs + 1 /\ y.new = new /\ y.wrote = {} /\ y.saved = NoFiles
  BY IdleFields DEF Command, Commands

-----------------------------------------------------------------------------
(***************************************************************************)
(* A step that replaces one command.                                       *)
(***************************************************************************)
LockMoves(c, x) ==
  \/ lock' = lock /\ (KeepsLock(x) <=> KeepsLock(cmd[c]))
  \/ Release(c) /\ ~KeepsLock(x)
  \/ lock = None /\ lock' = c /\ KeepsLock(x)

NativeSame ==
  /\ Native(disk') <=> Native(disk)
  /\ Native(disk') => NativeWhole(disk')
  /\ disk'["VERSION"] = <<Old>> \/ disk'["prog"] = <<Old>> => Native(disk')

(* Only the holder of the lock makes the node an installed one.            *)
InstalledBy(c) == Installed(disk') => Installed(disk) \/ KeepsLock(cmd[c])

(* What a step does to the node and to command c, that becomes x.          *)
Moves(c, x) ==
  /\ cmd' = [cmd EXCEPT ![c] = x]
  /\ CmdInv(x) /\ NodeType' /\ LockMoves(c, x)
  /\ NativeSame /\ NativeFits(x)
  /\ InstalledBy(c)
  /\ Uninstalled(x) => ~Installed(disk')

LEMMA CommandOf ==
  ASSUME Shape, NEW c \in Cmd, NEW x, cmd' = [cmd EXCEPT ![c] = x]
  PROVE  /\ cmd' = [b \in Cmd |-> cmd'[b]]
         /\ cmd'[c] = x /\ \A b \in Cmd \ {c} : cmd'[b] = cmd[b]
<1>1. cmd = [b \in Cmd |-> cmd[b]]
  BY DEF Shape
<1>2. QED
  BY <1>1

LEMMA LockMovesSound ==
  ASSUME LockHeld, Shape, NEW c \in Cmd, NEW x, cmd' = [cmd EXCEPT ![c] = x],
         LockMoves(c, x)
  PROVE  LockHeld'
<1>1. cmd'[c] = x /\ \A b \in Cmd \ {c} : cmd'[b] = cmd[b]
  BY CommandOf
<1>2. ASSUME NEW b \in Cmd
      PROVE  (lock' = b) <=> KeepsLock(cmd'[b])
  <2>1. /\ (lock = b) <=> KeepsLock(cmd[b])
        /\ (lock = c) <=> KeepsLock(cmd[c])
        /\ b # None /\ c # None
    BY Constants DEF LockHeld
  <2>2. CASE b = c
    BY <1>1, <2>1, <2>2 DEF LockMoves, Release
  <2>3. CASE b # c
    <3>1. KeepsLock(cmd'[b]) <=> KeepsLock(cmd[b])
      BY <1>1, <2>3
    <3>2. QED
      BY <2>1, <2>3, <3>1 DEF LockMoves, Release
  <2>4. QED
    BY <2>2, <2>3
<1>3. QED
  BY <1>2 DEF LockHeld, KeepsLock

LEMMA MovesSound ==
  ASSUME NodeInv, NEW c \in Cmd, NEW x, Moves(c, x)
  PROVE  /\ NodeType' /\ LockHeld' /\ NativeInv' /\ UninstalledInv'
         /\ cmd' = [b \in Cmd |-> cmd'[b]]
         /\ \A b \in Cmd : CmdInv(cmd[b])'
         /\ Native(disk') <=> Native(disk)
         /\ cmd'[c] = x /\ \A b \in Cmd \ {c} : cmd'[b] = cmd[b]
<1>1. /\ cmd' = [b \in Cmd |-> cmd'[b]]
      /\ cmd'[c] = x /\ \A b \in Cmd \ {c} : cmd'[b] = cmd[b]
  BY CommandOf DEF NodeInv, Moves
<1>2. LockHeld'
  BY LockMovesSound DEF NodeInv, Moves
<1>3. ASSUME NEW b \in Cmd
      PROVE  CmdInv(cmd'[b])
  BY <1>1 DEF NodeInv, Moves
<1>4. ASSUME NEW b \in Cmd
      PROVE  NativeFits(cmd[b])'
  <2>1. NativeFits(cmd'[b])
    BY <1>1 DEF NodeInv, NativeInv, Moves
  <2>2. Native(disk') <=> Native(disk)
    BY DEF Moves, NativeSame
  <2>3. QED
    BY <2>1, <2>2 DEF NativeFits, Native, Changes, Ends
<1>5. NativeInv'
  BY <1>4 DEF NativeInv, Moves, NativeSame, Native, NativeWhole
<1>6. ASSUME NEW b \in Cmd, Uninstalled(cmd'[b])
      PROVE  ~Installed(disk')
  <2>1. CASE b = c
    BY <1>1, <1>6, <2>1 DEF Moves
  <2>2. CASE b # c
    <3>1. Uninstalled(cmd[b]) /\ ~Installed(disk)
      BY <1>1, <1>6, <2>2 DEF NodeInv, UninstalledInv
    <3>2. CASE KeepsLock(cmd[b])
      <4>1. ~KeepsLock(cmd[c])
        BY <2>2, <3>2 DEF NodeInv, LockHeld
      <4>2. QED
        BY <3>1, <4>1 DEF Moves, InstalledBy
    <3>3. CASE ~KeepsLock(cmd[b])
      BY <3>1, <3>3 DEF Uninstalled, KeepsLock, Changes, Writing, Installer
    <3>4. QED
      BY <3>2, <3>3
  <2>3. QED
    BY <2>1, <2>2
<1>7. UninstalledInv'
  BY <1>6 DEF UninstalledInv, Uninstalled, Installed, Changes
<1>8. \A b \in Cmd : CmdInv(cmd[b])'
  BY <1>3 DEF CmdInv, CmdType, KindFits, Progress, Source, Changes, Ends, Native,
              NativeWhole, Targets, TargetsOf, Agree, Installed
<1>9. QED
  BY <1>1, <1>2, <1>5, <1>7, <1>8 DEF Moves, NativeSame

(* The node's own step: the controllers see the command they wait for.     *)
LEMMA NodeStep ==
  ASSUME NodeInv, NEW c \in Cmd, NEW x, Moves(c, x), UNCHANGED controller,
         x.by = cmd[c].by,
         cmd[c].kind = "backup" /\ cmd[c].by # None => x.kind = "backup"
  PROVE  NodeInv'
<1>1. /\ NodeType' /\ LockHeld' /\ NativeInv' /\ UninstalledInv'
      /\ cmd' = [b \in Cmd |-> cmd'[b]]
      /\ \A b \in Cmd : CmdInv(cmd[b])'
      /\ Native(disk') <=> Native(disk)
      /\ cmd'[c] = x /\ \A b \in Cmd \ {c} : cmd'[b] = cmd[b]
  BY MovesSound
<1>2. ctl' = ctl /\ reg' = reg /\ told' = told
  BY DEF controller
<1>3. Shape'
  BY <1>1, <1>2 DEF NodeInv, Shape
<1>4. \A b \in Cmd : cmd'[b].by = cmd[b].by
  BY <1>1
<1>5. AwaitInv'
  BY <1>2, <1>4 DEF NodeInv, AwaitInv
<1>6. ASSUME NEW k \in Ctl
      PROVE  CtlInv(ctl[k])'
  <2>1. CtlInv(ctl[k])
    BY DEF NodeInv
  <2>2. ASSUME ctl[k].pc = "await", cmd[ctl[k].c].kind = "backup"
        PROVE  cmd'[ctl[k].c].kind = "backup"
    <3>1. ctl[k].c \in Cmd
      BY <2>1, <2>2 DEF CtlInv, CtlType
    <3>2. cmd[ctl[k].c].by = k /\ k # None
      BY <2>2, <3>1, Constants DEF NodeInv, AwaitInv
    <3>3. QED
      BY <1>1, <2>2, <3>1, <3>2
  <2>3. Native(disk) => Native(disk')
    BY <1>1
  <2>4. CtlType(ctl[k])'
    BY <1>2, <2>1 DEF CtlInv, CtlType
  <2>5. QED
    BY <1>2, <2>1, <2>2, <2>3, <2>4 DEF CtlInv, Native, NativeWhole
<1>7. QED
  BY <1>1, <1>3, <1>5, <1>6 DEF NodeInv

-----------------------------------------------------------------------------
(***************************************************************************)
(* The actions of the node.                                                *)
(***************************************************************************)
(* The command is still the same one for whoever waits for it.             *)
SameOwner(c, x) ==
  /\ x.by = cmd[c].by
  /\ cmd[c].kind = "backup" /\ cmd[c].by # None => x.kind = "backup"

Steps(c) == \E x : Moves(c, x) /\ SameOwner(c, x)

LEMMA CmdOf ==
  ASSUME NodeInv, NEW c \in Cmd
  PROVE  /\ CmdInv(cmd[c]) /\ CmdType(cmd[c]) /\ cmd[c] \in Commands
         /\ NativeFits(cmd[c])
         /\ Uninstalled(cmd[c]) => ~Installed(disk)
         /\ (lock = c) <=> KeepsLock(cmd[c])
  BY DEF NodeInv, CmdInv, CmdType, NativeInv, UninstalledInv, LockHeld

LEMMA NodeFacts ==
  ASSUME NodeInv
  PROVE  /\ disk \in Disk /\ torn \subseteq File /\ svc \in Services
         /\ arch \subseteq Archives
         /\ runs \in Run /\ runs # 0 /\ faults \in 0 .. MaxFaults
         /\ Native(disk) => NativeWhole(disk)
         /\ disk["VERSION"] = <<Old>> \/ disk["prog"] = <<Old>> => Native(disk)
  BY DEF NodeInv, NodeType, NativeInv

LEMMA SameDisk ==
  ASSUME NodeInv, NEW c \in Cmd, disk' = disk
  PROVE  NativeSame /\ InstalledBy(c)
  BY DEF NodeInv, NativeInv, NativeSame, InstalledBy, Native, NativeWhole, Installed

LEMMA EndedFits ==
  ASSUME NEW x, Ends(x)
  PROVE  NativeFits(x) /\ ~Uninstalled(x) /\ ~KeepsLock(x) /\ ~Changes(x)
  BY DEF NativeFits, Uninstalled, KeepsLock, Changes, Ends, Final, Writing

LEMMA FaultType ==
  ASSUME NodeInv, faults > 0 /\ faults' = faults - 1
  PROVE  faults' \in 0 .. MaxFaults
  BY NodeFacts, Constants

(* A command ends.                                                         *)
LEMMA FinishSteps ==
  ASSUME NodeInv, NEW c \in Cmd, NEW r \in {"done", "failed"}, Finish(c, r),
         NodeType', NativeSame, InstalledBy(c),
         Release(c) \/ (lock' = lock /\ ~KeepsLock(cmd[c]))
  PROVE  Steps(c)
<1> DEFINE x == Ended(c, r)
<1>1. /\ CmdInv(x) /\ Ends(x) /\ x.by = cmd[c].by
      /\ cmd[c].by # None => x.kind = cmd[c].kind
  BY CmdOf, EndedInv
<1>2. cmd' = [cmd EXCEPT ![c] = x]
  BY DEF Finish
<1> HIDE DEF x
<1>3. NativeFits(x) /\ ~Uninstalled(x) /\ ~KeepsLock(x)
  BY <1>1, EndedFits
<1>4. LockMoves(c, x)
  BY <1>3 DEF LockMoves
<1>5. Moves(c, x)
  BY <1>1, <1>2, <1>3, <1>4 DEF Moves
<1>6. QED
  BY <1>1, <1>5 DEF Steps, SameOwner

(* It is refused before it holds the lock.                                 *)
Early == {"main", "lock", "check", "state", "users"}

LEMMA EarlyFacts ==
  ASSUME NEW x, x.pc \in Early
  PROVE  ~KeepsLock(x) /\ ~Changes(x) /\ ~Ends(x) /\ ~Uninstalled(x)
  BY DEF Early, KeepsLock, Changes, Ends, Final, Writing, Uninstalled

LEMMA RefuseSteps ==
  ASSUME NodeInv, NEW c \in Cmd, cmd[c].pc \in Early, Refuse(c)
  PROVE  Steps(c)
<1>1. NodeType' /\ NativeSame /\ InstalledBy(c)
  BY SameDisk DEF Refuse, NodeInv, NodeType
<1>2. ~KeepsLock(cmd[c])
  BY EarlyFacts
<1>3. QED
  BY <1>1, <1>2, FinishSteps DEF Refuse

(* It goes on, and nothing else happens.                                   *)
LEMMA OnwardSteps ==
  ASSUME NodeInv, NEW c \in Cmd, NEW x, cmd' = [cmd EXCEPT ![c] = x], CmdInv(x),
         x.by = cmd[c].by, cmd[c].kind = "backup" => x.kind = "backup",
         NodeType', disk' = disk, lock' = lock, NativeFits(x),
         KeepsLock(x) <=> KeepsLock(cmd[c]), Uninstalled(x) => Uninstalled(cmd[c])
  PROVE  Steps(c)
<1>1. NativeSame /\ InstalledBy(c)
  BY SameDisk
<1>2. Uninstalled(x) => ~Installed(disk')
  BY CmdOf DEF Installed
<1>3. LockMoves(c, x)
  BY DEF LockMoves
<1>4. Moves(c, x)
  BY <1>1, <1>2, <1>3 DEF Moves
<1>5. QED
  BY <1>4 DEF Steps, SameOwner

LEMMA MainSteps ==
  ASSUME NodeInv, NEW c \in Cmd, Main(c)
  PROVE  Steps(c)
<1>1. cmd[c].pc = "main" /\ cmd[c].pc \in Early
  BY DEF Main, Early
<1>2. /\ CmdInv(cmd[c]) /\ cmd[c] \in Commands
      /\ cmd[c].wrote = {} /\ cmd[c].saved = NoFiles
      /\ cmd[c].id \notin {0, 1} /\ cmd[c].kind \in {"runtime", "installer"}
  BY <1>1, CmdOf DEF CmdInv, CmdType, Progress, Ends, Final, KindFits
<1>3. CASE cmd[c].kind = "runtime" /\ Installed(disk) /\ Refuse(c)
  BY <1>1, <1>3, RefuseSteps
<1>4. ASSUME NEW kind \in Installer \cup {"verify"}, NEW p \in {"lock", "check"},
             kind = "verify" <=> p = "check",
             kind = "migrate" => Native(disk),
             cmd' = [cmd EXCEPT ![c].kind = kind, ![c].pc = p],
             UNCHANGED <<disk, torn, svc, lock, arch, runs, faults, scars>>
      PROVE  Steps(c)
  <2> DEFINE x == [cmd[c] EXCEPT !.kind = kind, !.pc = p]
  <2>1. /\ x \in Commands /\ x.pc = p /\ x.kind = kind /\ x.by = cmd[c].by
        /\ x.id = cmd[c].id /\ x.wrote = cmd[c].wrote /\ x.saved = cmd[c].saved
    BY <1>2 DEF Commands
  <2>2. cmd' = [cmd EXCEPT ![c] = x]
    BY <1>4
  <2> HIDE DEF x
  <2>3. x.pc \in Early /\ x.pc \notin {"idle", "users", "state", "rollback"} \cup Writing
    BY <2>1 DEF Early, Writing
  <2>4. CmdType(x)
    BY <1>2, <1>4, <2>1, <2>3 DEF CmdType, KindFits, Installer, Writing
  <2>5. Progress(x) /\ Source(x)
    BY <1>2, <1>4, <2>1, <2>3, EarlyFacts DEF Progress, Source, Installer, Writing
  <2>6. NativeFits(x)
    BY <1>4, <2>1, <2>3, EarlyFacts DEF NativeFits, Installer
  <2>7. NodeType'
    BY <1>4 DEF NodeInv, NodeType
  <2>8. /\ KeepsLock(x) <=> KeepsLock(cmd[c])
        /\ ~Uninstalled(x) /\ cmd[c].kind # "backup"
    BY <1>1, <1>2, <2>3, EarlyFacts
  <2>9. QED
    BY <1>4, <2>1, <2>2, <2>4, <2>5, <2>6, <2>7, <2>8, OnwardSteps DEF CmdInv
<1>5. CASE /\ cmd[c].kind = "runtime"
           /\ cmd' = [cmd EXCEPT ![c].pc = "lock"]
           /\ UNCHANGED <<disk, torn, svc, lock, arch, runs, faults, scars>>
  <2>1. cmd' = [cmd EXCEPT ![c].kind = "runtime", ![c].pc = "lock"]
    <3>1. [cmd[c] EXCEPT !.kind = "runtime"] = cmd[c]
      BY <1>2, <1>5, CommandFields
    <3>2. QED
      BY <1>5, <3>1
  <2>2. QED
    BY <1>4, <1>5, <2>1 DEF Installer
<1>6. CASE cmd[c].kind = "installer" /\ ~Refuse(c)
  <2> DEFINE kind == IF ~Installed(disk) THEN "fresh"
                     ELSE IF disk["VERSION"] = <<New>> THEN "verify" ELSE "migrate"
             p == IF Installed(disk) /\ disk["VERSION"] = <<New>> THEN "check"
                  ELSE "lock"
  <2>1. kind = "migrate" => Native(disk)
    BY NodeFacts, FilesOf DEF Installed
  <2>2. kind \in Installer \cup {"verify"} /\ p \in {"lock", "check"}
    BY DEF Installer
  <2>3. kind = "verify" <=> p = "check"
    OBVIOUS
  <2>4. /\ cmd' = [cmd EXCEPT ![c].kind = kind, ![c].pc = p]
        /\ UNCHANGED <<disk, torn, svc, lock, arch, runs, faults, scars>>
    BY <1>6 DEF Main
  <2> HIDE DEF kind, p
  <2>5. QED
    BY <1>4, <2>1, <2>2, <2>3, <2>4
<1>7. CASE Refuse(c)
  BY <1>1, <1>7, RefuseSteps
<1>8. QED
  BY <1>2, <1>3, <1>5, <1>6, <1>7 DEF Main

(* A command gets the lock and has everything to write.                    *)
Ready(kind, id, todo, new) ==
  /\ todo \in Seq(File) /\ todo # <<>> /\ Distinct(todo)
  /\ Left(todo) = TargetsOf(kind, new)
  /\ CASE kind = "fresh" -> /\ BasicsFirst(todo) /\ disk = NoFiles
                            /\ new = Rendered(id, id, id, id, New)
       [] kind = "runtime" -> disk = NoFiles /\ new = Runtime
       [] kind = "migrate" -> new = Migrated(disk)
       [] kind = "undo" -> NativeWhole(new)
       [] kind = "restore" -> /\ ~Installed(disk) /\ disk["prog"] = <<New>>
                              /\ ~Native(disk) /\ ~Native(new) /\ Agree(new)

LEMMA PreparedSteps ==
  ASSUME NodeInv, NEW c \in Cmd, cmd[c].pc = "lock", lock = None,
         NEW p \in {"save", "write"}, p = "save" => cmd[c].kind = "migrate",
         NEW todo, NEW new \in Disk, NEW services \in Services,
         Prepared(c, p, todo, new, services), Ready(cmd[c].kind, cmd[c].id, todo, new)
  PROVE  Steps(c)
<1> DEFINE x == [cmd[c] EXCEPT !.pc = p, !.todo = todo, !.new = new,
                               !.found = disk, !.before = svc]
           kind == cmd[c].kind
<1>1. /\ CmdInv(cmd[c]) /\ cmd[c] \in Commands /\ NativeFits(cmd[c])
      /\ ~Ends(cmd[c]) /\ KindFits(cmd[c])
      /\ cmd[c].wrote = {} /\ cmd[c].saved = NoFiles
      /\ kind \in Installer \cup {"restore", "undo"} /\ cmd[c].id \notin {0, 1}
  BY CmdOf DEF CmdInv, CmdType, Progress, Ends, Final, KindFits
<1>2. /\ todo \in Seq(File) /\ disk \in Disk /\ svc \in Services
  BY NodeFacts DEF Ready
<1>3. /\ x \in Commands /\ x.pc = p /\ x.kind = kind /\ x.by = cmd[c].by
      /\ x.id = cmd[c].id /\ x.todo = todo /\ x.new = new /\ x.wrote = {}
      /\ x.found = disk /\ x.before = svc /\ x.saved = NoFiles
  BY <1>1, <1>2 DEF Commands, Writing
<1>4. cmd' = [cmd EXCEPT ![c] = x] /\ lock' = c
      /\ NodeType' /\ NativeSame /\ InstalledBy(c) /\ disk' = disk
  BY SameDisk DEF Prepared, NodeInv, NodeType
<1> HIDE DEF x
<1>5. /\ ~Ends(x) /\ Changes(x) /\ KeepsLock(x)
      /\ x.pc \notin {"main", "lock", "idle", "check", "state", "users", "start",
                      "commit", "rollback"}
  BY <1>3 DEF Ends, Changes, KeepsLock, Final, Writing
<1>6. CmdType(x)
  BY <1>1, <1>3, <1>5 DEF CmdType, KindFits, Installer, Final
<1>7. Progress(x)
  BY <1>3, <1>5 DEF Progress, Targets, Ready
<1>8. /\ kind \in {"migrate", "undo"} => Native(disk) /\ NativeWhole(disk)
      /\ kind \in {"fresh", "runtime"} => disk = NoFiles
  BY <1>1, NodeFacts DEF NativeFits, Ready
<1>9. NoFiles["state"] = Absent /\ NoFiles["VERSION"] = Absent
      /\ ~Native(NoFiles) /\ ~Installed(NoFiles)
  BY NoFilesDisk, AbsentIsNot DEF File, Native, First, Installed
<1>10. Source(x)
  BY <1>1, <1>3, <1>5, <1>8, <1>9 DEF Source, Ready
<1>11. NativeFits(x)
  BY <1>1, <1>3, <1>8, <1>9 DEF NativeFits, Ready, Installer
<1>12. Uninstalled(x) => ~Installed(disk')
  <2>1. Uninstalled(x) => kind \in {"fresh", "restore"}
    BY <1>3 DEF Uninstalled
  <2>2. kind \in {"fresh", "restore"} => ~Installed(disk)
    BY <1>8, <1>9 DEF Ready
  <2>3. QED
    BY <1>4, <2>1, <2>2 DEF Installed
<1>13. Moves(c, x)
  BY <1>4, <1>5, <1>6, <1>7, <1>10, <1>11, <1>12 DEF Moves, CmdInv, LockMoves
<1>14. kind # "backup"
  BY <1>1 DEF Installer
<1>15. QED
  BY <1>3, <1>13, <1>14 DEF Steps, SameOwner

LEMMA LockPc ==
  ASSUME NEW x, x.pc = "lock"
  PROVE  x.pc \in Early
  BY DEF Early

LEMMA BusySteps ==
  ASSUME NodeInv, NEW c \in Cmd, Busy(c)
  PROVE  Steps(c)
  BY LockPc, RefuseSteps DEF Busy

LEMMA PrepareRuntimeSteps ==
  ASSUME NodeInv, NEW c \in Cmd, PrepareRuntime(c)
  PROVE  Steps(c)
<1>1. /\ cmd[c].pc = "lock" /\ cmd[c].pc \in Early /\ lock = None
      /\ cmd[c].kind = "runtime" /\ ~KeepsLock(cmd[c])
  BY LockPc, EarlyFacts DEF PrepareRuntime, Acquires
<1>2. CASE Refuse(c)
  BY <1>1, <1>2, RefuseSteps
<1>3. CASE /\ Finish(c, "done")
           /\ UNCHANGED <<disk, torn, svc, lock, arch, runs, faults, scars>>
  <2>1. NodeType' /\ NativeSame /\ InstalledBy(c)
    BY <1>3, SameDisk DEF NodeInv, NodeType
  <2>2. QED
    BY <1>1, <1>3, <2>1, FinishSteps
<1>4. CASE Clean(disk) /\ Prepared(c, "write", RuntimeOrder, Runtime, svc)
  <2>1. Ready(cmd[c].kind, cmd[c].id, RuntimeOrder, Runtime)
    BY <1>1, <1>4, Orders DEF Ready, TargetsOf, Clean
  <2>2. QED
    BY <1>1, <1>4, <2>1, RuntimeDisk, NodeFacts, PreparedSteps
<1>5. QED
  BY <1>2, <1>3, <1>4 DEF PrepareRuntime

LEMMA PrepareFreshSteps ==
  ASSUME NodeInv, NEW c \in Cmd, PrepareFresh(c)
  PROVE  Steps(c)
<1> DEFINE r == cmd[c].id
           new == Rendered(r, r, r, r, New)
<1>1. /\ cmd[c].pc = "lock" /\ cmd[c].pc \in Early /\ lock = None
      /\ cmd[c].kind = "fresh"
  BY LockPc DEF PrepareFresh, Acquires
<1>2. CASE Refuse(c)
  BY <1>1, <1>2, RefuseSteps
<1>3. CASE Clean(disk) /\ Prepared(c, "write", InstallOrder, new, svc)
  <2>1. r \in Run
    BY CmdOf, CommandFields
  <2>2. new \in Disk
    BY <2>1, RenderedDisk
  <2>3. Ready(cmd[c].kind, cmd[c].id, InstallOrder, new)
    BY <1>1, <1>3, Orders DEF Ready, TargetsOf, Clean
  <2>4. QED
    BY <1>1, <1>3, <2>2, <2>3, NodeFacts, PreparedSteps
<1>4. QED
  BY <1>2, <1>3 DEF PrepareFresh

(* What a migration renders has the identity, the key and the users.       *)
LEMMA MigratedFiles ==
  ASSUME NEW d \in Disk, d["state"] # Absent, d["users"] # Absent
  PROVE  /\ Migrated(d) \in Disk
         /\ Migrated(d)["state"] = d["state"] /\ Migrated(d)["users"] = d["users"]
         /\ \A f \in InstallFiles \cup {"db"} : Migrated(d)[f] # Absent
         /\ Agree(Migrated(d))
         /\ Migrated(d)["VERSION"] = <<New>> /\ Migrated(d)["prog"] = <<New>>
         /\ Agree(d) => \A f \in Basics : Migrated(d)[f] = d[f]
<1>1. d["state"] \in Run \X Run \X Run /\ d["users"] \in {<<a>> : a \in Run}
  BY FilesOf
<1>2. PICK n \in Run, i \in Run, k \in Run : d["state"] = <<n, i, k>>
  BY <1>1
<1>3. PICK u \in Run : d["users"] = <<u>>
  BY <1>1
<1> DEFINE m == Rendered(n, i, k, u, New)
<1>4. Migrated(d) = m
  BY <1>2, <1>3 DEF Migrated
<1>5. /\ m \in Disk
      /\ m["state"] = <<n, i, k>> /\ m["users"] = <<u>>
      /\ m["config"] = <<k, u>> /\ m["uri"] = <<k, u>> /\ m["db"] = <<n>>
      /\ m["VERSION"] = <<New>> /\ m["prog"] = <<New>> /\ Agree(m)
  BY RenderedDisk, SMTT(30)
<1> HIDE DEF m
<1>6. \A f \in InstallFiles \cup {"db"} : m[f] # Absent
  BY <1>5, AbsentIsNot DEF InstallFiles, Basics
<1>7. Agree(d) => \A f \in Basics : m[f] = d[f]
  BY <1>2, <1>3, <1>5 DEF Agree, Basics
<1>8. QED
  BY <1>2, <1>3, <1>4, <1>5, <1>6, <1>7

LEMMA PrepareMigrateSteps ==
  ASSUME NodeInv, NEW c \in Cmd, PrepareMigrate(c)
  PROVE  Steps(c)
<1>1. /\ cmd[c].pc = "lock" /\ cmd[c].pc \in Early /\ lock = None
      /\ cmd[c].kind = "migrate" /\ disk \in Disk /\ svc \in Services
  BY LockPc, NodeFacts DEF PrepareMigrate, Acquires
<1>2. CASE Refuse(c)
  BY <1>1, <1>2, RefuseSteps
<1>3. CASE Canonical(disk) /\ Prepared(c, "save", InstallOrder, Migrated(disk), svc)
  <2>1. Migrated(disk) \in Disk
    BY <1>1, <1>3, MigratedFiles DEF Canonical
  <2>2. Ready(cmd[c].kind, cmd[c].id, InstallOrder, Migrated(disk))
    BY <1>1, Orders DEF Ready, TargetsOf
  <2>3. QED
    BY <1>1, <1>3, <2>1, <2>2, PreparedSteps
<1>4. QED
  BY <1>2, <1>3 DEF PrepareMigrate

LEMMA PrepareRestoreSteps ==
  ASSUME NodeInv, NEW c \in Cmd, PrepareRestore(c)
  PROVE  Steps(c)
<1> DEFINE services == [svc EXCEPT !.acct = FALSE]
           new == cmd[c].new
<1>1. /\ cmd[c].pc = "lock" /\ cmd[c].pc \in Early /\ lock = None
      /\ cmd[c].kind = "restore" /\ disk \in Disk /\ svc \in Services
  BY LockPc, NodeFacts DEF PrepareRestore, Acquires
<1>2. CASE Refuse(c)
  BY <1>1, <1>2, RefuseSteps
<1>3. CASE MayRestore(disk) /\ Prepared(c, "write", RestoreOrder(new), new, services)
  <2>1. services \in Services
    BY <1>1, AcctDown
  <2>2. /\ new \in Disk /\ ~Native(new) /\ Agree(new)
    BY <1>1, CmdOf, CommandFields, EarlyFacts DEF CmdInv, Source
  <2>3. ~Installed(disk) /\ disk["prog"] = <<New>> /\ ~Native(disk)
    <3>1. ~Installed(disk) /\ disk["prog"] # Absent
      BY <1>3 DEF MayRestore
    <3>2. ~Native(disk)
      BY <3>1, NodeFacts DEF NativeWhole, Installed, InstallFiles
    <3>3. QED
      BY <1>1, <3>1, <3>2, NodeFacts, FilesOf
  <2>4. Ready(cmd[c].kind, cmd[c].id, RestoreOrder(new), new)
    BY <1>1, <2>2, <2>3, RestoreOrderLeft DEF Ready, TargetsOf
  <2> HIDE DEF services, new
  <2>5. QED
    BY <1>1, <1>3, <2>1, <2>2, <2>4, PreparedSteps
<1>4. QED
  BY <1>2, <1>3 DEF PrepareRestore

LEMMA ArchiveRefusedSteps ==
  ASSUME NodeInv, NEW c \in Cmd, ArchiveRefused(c)
  PROVE  Steps(c)
  BY LockPc, RefuseSteps DEF ArchiveRefused, Acquires

LEMMA PrepareUndoSteps ==
  ASSUME NodeInv, NEW c \in Cmd, PrepareUndo(c)
  PROVE  Steps(c)
<1> DEFINE new == cmd[c].new
<1>1. /\ cmd[c].pc = "lock" /\ cmd[c].pc \in Early /\ lock = None
      /\ cmd[c].kind = "undo" /\ Prepared(c, "write", UndoOrder(new), new, Stopped)
  BY LockPc DEF PrepareUndo, Acquires
<1>2. new \in Disk /\ NativeWhole(new)
  BY <1>1, CmdOf, CommandFields, EarlyFacts DEF CmdInv, Source
<1>3. \A f \in Basics \cup {"VERSION", "db"} : new[f] # Absent
  BY <1>2 DEF NativeWhole, InstallFiles
<1>4. Ready(cmd[c].kind, cmd[c].id, UndoOrder(new), new)
  BY <1>1, <1>2, <1>3, UndoOrderLeft DEF Ready, TargetsOf
<1> HIDE DEF new
<1>5. QED
  BY <1>1, <1>2, <1>4, StoppedType, PreparedSteps

LEMMA VerifyExistingSteps ==
  ASSUME NodeInv, NEW c \in Cmd, VerifyExisting(c)
  PROVE  Steps(c)
<1>1. cmd[c].pc = "check" /\ cmd[c].pc \in Early
  BY DEF VerifyExisting, Early
<1>2. CASE Refuse(c)
  BY <1>1, <1>2, RefuseSteps
<1>3. CASE ~Refuse(c)
  <2> DEFINE r == IF svc'.sing[1] = disk["state"][3] THEN "done" ELSE "failed"
  <2>1. /\ svc' = EnableNow(svc, disk, Both) /\ Finish(c, r)
        /\ UNCHANGED <<disk, torn, lock, arch, runs, faults>>
    BY <1>3 DEF VerifyExisting
  <2>2. r \in {"done", "failed"}
    OBVIOUS
  <2> HIDE DEF r
  <2>3. svc' \in Services
    BY <2>1, NodeFacts, EnableNowType, BothIs
  <2>4. NodeType' /\ NativeSame /\ InstalledBy(c)
    BY <2>1, <2>3, SameDisk DEF NodeInv, NodeType
  <2>5. QED
    BY <1>1, <2>1, <2>2, <2>4, EarlyFacts, FinishSteps
<1>4. QED
  BY <1>2, <1>3

(* Which command it is, when it changes the node.                          *)
LEMMA ChangesFacts ==
  ASSUME NodeInv, NEW c \in Cmd, cmd[c].pc \in Writing \cup {"rollback"}
  PROVE  /\ Changes(cmd[c]) /\ ~Ends(cmd[c])
         /\ cmd[c].kind \in Installer \cup {"restore", "undo"}
         /\ cmd[c].wrote \subseteq Targets(cmd[c])
         /\ Native(disk) <=> cmd[c].kind \in {"migrate", "undo"}
         /\ cmd[c].kind \in {"fresh", "runtime", "restore"} =>
              /\ ~Native(disk) /\ ~Native(cmd[c].new)
              /\ ~Installed(cmd[c].found) /\ ~Native(cmd[c].found)
              /\ cmd[c].new["prog"] # <<Old>> \/ cmd[c].kind = "restore"
              /\ cmd[c].new["VERSION"] # <<Old>> \/ cmd[c].kind = "restore"
         /\ cmd[c].kind \in {"migrate", "undo"} => NativeWhole(cmd[c].new)
         /\ cmd[c].kind = "migrate" =>
              /\ NativeWhole(cmd[c].found)
              /\ cmd[c].saved["state"] \in {Absent, First}
<1>1. /\ Changes(cmd[c]) /\ ~Ends(cmd[c])
  BY DEF Changes, Ends, Final, Writing
<1>2. /\ cmd[c].kind \in Installer \cup {"restore", "undo"}
      /\ cmd[c].wrote \subseteq Targets(cmd[c]) /\ Source(cmd[c])
      /\ cmd[c].id \in Run \ {0, 1} /\ cmd[c].found \in Disk /\ cmd[c].new \in Disk
  <2>1. CmdInv(cmd[c]) /\ cmd[c] \in Commands
    BY CmdOf
  <2>2. cmd[c].kind \in Installer \cup {"restore", "undo"}
    BY <2>1 DEF CmdInv, CmdType, KindFits
  <2>3. cmd[c].id \notin {0, 1}
    BY <1>1, <2>1, <2>2 DEF CmdInv, CmdType, Installer
  <2>4. QED
    BY <1>1, <2>1, <2>2, <2>3, CommandFields DEF CmdInv, Progress
<1>3. Native(disk) <=> cmd[c].kind \in {"migrate", "undo"}
  BY <1>1, CmdOf DEF NativeFits
<1>4. CASE cmd[c].kind = "fresh"
  <2>1. /\ cmd[c].new["state"] = <<cmd[c].id, cmd[c].id, cmd[c].id>>
        /\ cmd[c].new["prog"] = <<New>> /\ cmd[c].new["VERSION"] = <<New>>
        /\ cmd[c].found = NoFiles
    BY <1>1, <1>2, <1>4, RenderedDisk DEF Source
  <2>2. ~Native(cmd[c].new)
    BY <1>2, <2>1 DEF Native, First
  <2>3. ~Installed(cmd[c].found) /\ ~Native(cmd[c].found)
    BY <2>1, NoFilesDisk, AbsentIsNot DEF Installed, Native, First, File
  <2>4. <<New>> # <<Old>>
    BY DEF New, Old
  <2>5. QED
    BY <1>1, <1>2, <1>3, <1>4, <2>1, <2>2, <2>3, <2>4
<1>5. CASE cmd[c].kind = "runtime"
  <2>1. cmd[c].new = Runtime /\ cmd[c].found = NoFiles
    BY <1>1, <1>2, <1>5 DEF Source
  <2>2. ~Native(cmd[c].new) /\ cmd[c].new["VERSION"] # <<Old>> /\ cmd[c].new["prog"] # <<Old>>
    BY <2>1, RuntimeDisk, AbsentIsNot DEF Native, First, InstallFiles, Basics, New, Old
  <2>3. ~Installed(cmd[c].found) /\ ~Native(cmd[c].found)
    BY <2>1, NoFilesDisk, AbsentIsNot DEF Installed, Native, First, File
  <2>4. QED
    BY <1>1, <1>2, <1>3, <1>5, <2>2, <2>3
<1>6. CASE cmd[c].kind = "restore"
  BY <1>1, <1>2, <1>3, <1>6 DEF Source
<1>7. CASE cmd[c].kind = "migrate"
  <2>1. /\ NativeWhole(cmd[c].found) /\ cmd[c].new = Migrated(cmd[c].found)
        /\ cmd[c].saved["state"] \in {Absent, First}
    BY <1>1, <1>2, <1>7 DEF Source
  <2>2. NativeWhole(cmd[c].new)
    BY <1>2, <2>1, MigratedFiles DEF NativeWhole, Native, InstallFiles, Basics
  <2>3. QED
    BY <1>1, <1>2, <1>3, <1>7, <2>1, <2>2
<1>8. CASE cmd[c].kind = "undo"
  BY <1>1, <1>2, <1>3, <1>8 DEF Source
<1>9. QED
  BY <1>2, <1>4, <1>5, <1>6, <1>7, <1>8 DEF Installer

LEMMA WriteSteps ==
  ASSUME NodeInv, NEW c \in Cmd, Write(c)
  PROVE  Steps(c)
<1> DEFINE f == Head(cmd[c].todo)
           p == IF Tail(cmd[c].todo) = <<>> THEN "start" ELSE "write"
           x == [cmd[c] EXCEPT !.todo = Tail(cmd[c].todo),
                               !.wrote = cmd[c].wrote \cup {f}, !.pc = p]
<1>1. /\ cmd[c].pc = "write" /\ cmd[c].todo # <<>>
      /\ disk' = [disk EXCEPT ![f] = cmd[c].new[f]]
      /\ cmd' = [cmd EXCEPT ![c] = x]
      /\ UNCHANGED <<svc, lock, arch, runs, faults, scars>> /\ torn' \subseteq torn
  BY DEF Write
<1>2. /\ cmd[c] \in Commands /\ CmdInv(cmd[c]) /\ NativeFits(cmd[c])
      /\ Uninstalled(cmd[c]) => ~Installed(disk)
  BY CmdOf
<1>3. /\ Distinct(cmd[c].todo) /\ cmd[c].todo \in Seq(File)
      /\ Left(cmd[c].todo) = Targets(cmd[c]) \ cmd[c].wrote
      /\ cmd[c].kind = "fresh" => BasicsFirst(cmd[c].todo)
      /\ cmd[c].new \in Disk /\ cmd[c].wrote \in SUBSET File
  BY <1>1, <1>2, CommandFields DEF CmdInv, Progress
<1>4. /\ f \in File /\ f \in Left(cmd[c].todo) /\ Tail(cmd[c].todo) \in Seq(File)
      /\ Left(Tail(cmd[c].todo)) = Left(cmd[c].todo) \ {f}
      /\ Distinct(Tail(cmd[c].todo))
      /\ cmd[c].kind = "fresh"
           => /\ BasicsFirst(Tail(cmd[c].todo))
              /\ f = "VERSION" => Left(cmd[c].todo) \cap Basics = {}
  BY <1>1, <1>3, TailLeft
<1>5. /\ x \in Commands /\ x.pc = p /\ x.kind = cmd[c].kind /\ x.by = cmd[c].by
      /\ x.id = cmd[c].id /\ x.todo = Tail(cmd[c].todo) /\ x.new = cmd[c].new
      /\ x.wrote = cmd[c].wrote \cup {f} /\ x.found = cmd[c].found
      /\ x.saved = cmd[c].saved
  BY <1>2, <1>3, <1>4, Zenon DEF Commands, Writing
<1>6. p \in {"start", "write"} /\ (p = "start" <=> Tail(cmd[c].todo) = <<>>)
  OBVIOUS
<1> HIDE DEF p, x, f
<1>7. /\ Changes(x) /\ Changes(cmd[c]) /\ ~Ends(x) /\ ~Ends(cmd[c])
      /\ KeepsLock(x) /\ KeepsLock(cmd[c])
  BY <1>1, <1>5, <1>6 DEF Changes, Ends, KeepsLock, Writing, Final
<1>8. CmdType(x)
  BY <1>1, <1>2, <1>5, <1>6, <1>7 DEF CmdInv, CmdType, KindFits, Writing, Final, Installer
<1>9. Targets(x) = Targets(cmd[c]) /\ cmd[c].wrote \subseteq Targets(cmd[c])
  BY <1>2, <1>5, <1>7 DEF Targets, CmdInv, Progress
<1>10. Progress(x)
  <2>1. x.wrote \subseteq Targets(x)
    BY <1>3, <1>4, <1>5, <1>9
  <2>2. Left(x.todo) = Targets(x) \ x.wrote /\ Distinct(x.todo)
    BY <1>3, <1>4, <1>5, <1>9
  <2>3. x.pc = "start" => x.wrote = Targets(x)
    <3>1. x.pc = "start" => Left(x.todo) = {}
      BY <1>5, <1>6, EmptyLeft
    <3>2. QED
      BY <2>1, <2>2, <3>1
  <2>4. x.kind = "fresh" /\ "VERSION" \in x.wrote => Basics \subseteq x.wrote
    <3>1. CASE x.kind = "fresh" /\ f = "VERSION"
      <4>1. Left(cmd[c].todo) \cap Basics = {} /\ Basics \subseteq Targets(cmd[c])
        BY <1>4, <1>5, <3>1 DEF Targets, TargetsOf, InstallFiles
      <4>2. QED
        BY <1>3, <1>5, <4>1
    <3>2. CASE x.kind = "fresh" /\ f # "VERSION"
      <4>1. "VERSION" \in cmd[c].wrote => Basics \subseteq cmd[c].wrote
        BY <1>2, <1>5, <1>7, <3>2 DEF CmdInv, Progress
      <4>2. QED
        BY <1>5, <3>2, <4>1
    <3>3. QED
      BY <3>1, <3>2
  <2>5. x.kind = "fresh" => BasicsFirst(x.todo)
    BY <1>4, <1>5
  <2>6. QED
    BY <1>5, <1>6, <1>7, <2>1, <2>2, <2>3, <2>4, <2>5 DEF Progress
<1>11. Source(x)
  BY <1>2, <1>5, <1>7 DEF CmdInv, Source
<1>12. /\ cmd[c].kind \in Installer \cup {"restore", "undo"}
       /\ Native(disk) <=> cmd[c].kind \in {"migrate", "undo"}
       /\ cmd[c].kind \in {"fresh", "runtime", "restore"} =>
              /\ ~Native(disk) /\ ~Native(cmd[c].new)
              /\ cmd[c].new["prog"] # <<Old>> \/ cmd[c].kind = "restore"
              /\ cmd[c].new["VERSION"] # <<Old>> \/ cmd[c].kind = "restore"
       /\ cmd[c].kind \in {"migrate", "undo"} => NativeWhole(cmd[c].new)
  BY <1>1, ChangesFacts DEF Writing
<1>13. /\ disk' \in Disk /\ disk'[f] = cmd[c].new[f]
       /\ \A g \in File \ {f} : disk'[g] = disk[g]
  <2>1. Puts(disk', disk, f, cmd[c].new)
    BY <1>1 DEF Puts
  <2>2. QED
    BY <1>3, <1>4, <2>1, NodeFacts, PutFile
<1>14. f \in Targets(cmd[c])
  BY <1>3, <1>4
<1>15. NativeSame
  <2>1. CASE cmd[c].kind \in {"migrate", "undo"}
    <3>1. NativeWhole(disk) /\ NativeWhole(cmd[c].new)
      BY <1>12, <2>1, NodeFacts
    <3>2. Native(disk')
      BY <1>13, <3>1 DEF NativeWhole, Native, File
    <3>3. \A g \in InstallFiles \cup {"db"} : disk'[g] # Absent
      BY <1>13, <3>1 DEF NativeWhole, File, InstallFiles, Basics
    <3>4. QED
      BY <1>12, <2>1, <3>2, <3>3 DEF NativeSame, NativeWhole
  <2>2. CASE cmd[c].kind \in {"fresh", "runtime", "restore"}
    <3>1. ~Native(disk')
      BY <1>12, <1>13, <2>2 DEF Native, File
    <3>2. disk["VERSION"] # <<Old>> /\ disk["prog"] # <<Old>>
      BY <1>12, <2>2, NodeFacts
    <3>3. cmd[c].kind = "restore" => f \notin {"VERSION", "prog"}
      BY <1>14 DEF Targets, TargetsOf, Basics
    <3>4. disk'["VERSION"] # <<Old>> /\ disk'["prog"] # <<Old>>
      BY <1>12, <1>13, <2>2, <3>2, <3>3 DEF File
    <3>5. QED
      BY <1>12, <2>2, <3>1, <3>4 DEF NativeSame
  <2>3. QED
    BY <1>12, <2>1, <2>2 DEF Installer
<1>16. NativeFits(x)
  BY <1>2, <1>5, <1>7 DEF NativeFits
<1>17. Uninstalled(x) => ~Installed(disk')
  <2>1. Uninstalled(x) => Uninstalled(cmd[c]) /\ f # "VERSION"
    <3>1. x.kind = "restore" => f # "VERSION"
      BY <1>5, <1>14 DEF Targets, TargetsOf, Basics
    <3>2. QED
      BY <1>1, <1>5, <1>7, <3>1 DEF Uninstalled
  <2>2. QED
    BY <1>2, <1>13, <2>1 DEF Installed, File
<1>18. NodeType'
  BY <1>1, <1>13 DEF NodeInv, NodeType
<1>19. Moves(c, x)
  BY <1>1, <1>7, <1>8, <1>10, <1>11, <1>15, <1>16, <1>17, <1>18
     DEF Moves, CmdInv, LockMoves, InstalledBy
<1>20. cmd[c].kind # "backup"
  BY <1>12 DEF Installer
<1>21. QED
  BY <1>5, <1>19, <1>20 DEF Steps, SameOwner

LEMMA StartSteps ==
  ASSUME NodeInv, NEW c \in Cmd,
         NEW p \in {"stage", "write", "commit"},
         \/ cmd[c].pc = "start" /\ p = "commit"
         \/ cmd[c].pc = "health" /\ p = "stage"
         \/ cmd[c].pc = "stage" /\ p = "write",
         cmd' = [cmd EXCEPT ![c].pc = p], svc' \in Services,
         UNCHANGED <<disk, torn, lock, arch, runs, faults, scars>>
  PROVE  Steps(c)
<1> DEFINE x == [cmd[c] EXCEPT !.pc = p]
<1>1. /\ cmd[c] \in Commands /\ CmdInv(cmd[c]) /\ NativeFits(cmd[c])
  BY CmdOf
<1>2. /\ x \in Commands /\ x.pc = p /\ x.kind = cmd[c].kind
      /\ x.by = cmd[c].by /\ x.id = cmd[c].id /\ x.new = cmd[c].new
      /\ x.wrote = cmd[c].wrote /\ x.found = cmd[c].found
      /\ x.todo = cmd[c].todo /\ x.saved = cmd[c].saved
  BY <1>1, PcMoved DEF Writing
<1>3. cmd' = [cmd EXCEPT ![c] = x]
  OBVIOUS
<1> HIDE DEF x
<1>4. /\ Changes(x) /\ Changes(cmd[c]) /\ ~Ends(x) /\ ~Ends(cmd[c])
      /\ KeepsLock(x) /\ KeepsLock(cmd[c])
  BY <1>2 DEF Changes, Ends, KeepsLock, Writing, Final
<1>5. CmdType(x) /\ x.kind # "backup"
  BY <1>1, <1>2, <1>4 DEF CmdInv, CmdType, KindFits, Writing, Final, Installer
<1>6. Progress(x)
  <2>1. cmd[c].pc # "start" => cmd[c].kind = "migrate"
    BY <1>1 DEF CmdInv, CmdType, KindFits
  <2>2. QED
    BY <1>1, <1>2, <1>4, <2>1 DEF CmdInv, Progress, Targets
<1>7. Source(x)
  BY <1>1, <1>2, <1>4 DEF CmdInv, Source
<1>8. NativeFits(x)
  BY <1>1, <1>2, <1>4 DEF NativeFits
<1>9. Uninstalled(x) => Uninstalled(cmd[c])
  <2>1. x.pc = "write" => x.kind = "migrate"
    BY <1>1, <1>2 DEF CmdInv, CmdType, KindFits
  <2>2. QED
    BY <1>2, <1>4, <2>1 DEF Uninstalled
<1>10. NodeType'
  BY DEF NodeInv, NodeType
<1>11. cmd[c].kind = "backup" => x.kind = "backup"
  BY <1>2
<1>12. QED
  BY <1>2, <1>3, <1>4, <1>5, <1>6, <1>7, <1>8, <1>9, <1>10, <1>11, OnwardSteps DEF CmdInv

LEMMA StartServiceSteps ==
  ASSUME NodeInv, NEW c \in Cmd, StartService(c)
  PROVE  Steps(c)
<1>1. svc' \in Services
  BY NodeFacts, EnableNowType, RestartedType, BothIs DEF StartService
<1>2. QED
  BY <1>1, StartSteps DEF StartService

LEMMA WaitForServiceSteps ==
  ASSUME NodeInv, NEW c \in Cmd, WaitForService(c)
  PROVE  Steps(c)
<1>1. svc' \in Services
  BY NodeFacts, EnableNowType, BothIs DEF WaitForService
<1>2. QED
  BY <1>1, StartSteps DEF WaitForService

LEMMA StopAccountdSteps ==
  ASSUME NodeInv, NEW c \in Cmd, StopAccountd(c)
  PROVE  Steps(c)
<1>1. svc' \in Services
  BY NodeFacts, AcctDown DEF StopAccountd
<1>2. QED
  BY <1>1, StartSteps DEF StopAccountd

LEMMA StartRestoredSteps ==
  ASSUME NodeInv, NEW c \in Cmd, StartRestored(c)
  PROVE  Steps(c)
<1>1. svc' \in Services
  BY NodeFacts, EnableNowType, BothIs DEF StartRestored
<1>2. QED
  BY <1>1, StartSteps DEF StartRestored

LEMMA StartUndoneSteps ==
  ASSUME NodeInv, NEW c \in Cmd, StartUndone(c)
  PROVE  Steps(c)
<1>1. svc' \in Services
  BY NodeFacts, EnableNowType, BothIs DEF StartUndone
<1>2. QED
  BY <1>1, StartSteps DEF StartUndone

(* A command that changed the node ends, and with it its hold of the lock. *)
LEMMA CommitInstallSteps ==
  ASSUME NodeInv, NEW c \in Cmd, CommitInstall(c)
  PROVE  Steps(c)
<1>1. /\ cmd[c].pc = "commit" /\ Finish(c, "done") /\ Release(c)
      /\ UNCHANGED <<torn, arch, runs, faults, scars>>
      /\ cmd[c].kind \in {"fresh", "migrate", "runtime"}
  BY DEF CommitInstall
<1>2. /\ svc' \in Services /\ disk' \in Disk
      /\ \A f \in File \ {"db"} : disk'[f] = disk[f]
      /\ disk["db"] # Absent => disk'["db"] # Absent
  <2>1. CASE cmd[c].kind = "runtime"
    BY <2>1, NodeFacts DEF CommitInstall
  <2>2. CASE cmd[c].kind # "runtime"
    <3> DEFINE b == IF disk["db"] = Absent THEN cmd[c].new["db"] ELSE disk["db"]
    <3>1. /\ svc' = EnableNow(svc, disk, {"acct"})
          /\ disk' = [disk EXCEPT !["db"] = b]
      BY <2>2 DEF CommitInstall
    <3>2. svc' \in Services
      BY <3>1, NodeFacts, EnableNowType, BothIs
    <3>3. cmd[c].new \in Disk
      BY CmdOf, CommandFields
    <3>4. PICK e \in Disk : b = e["db"] /\ (disk["db"] # Absent => e = disk)
      BY <3>3, NodeFacts
    <3>5. disk' \in Disk /\ disk'["db"] = e["db"] /\ \A f \in File \ {"db"} : disk'[f] = disk[f]
      <4>1. Puts(disk', disk, "db", e) /\ "db" \in File
        BY <3>1, <3>4 DEF File, Puts
      <4>2. QED
        BY <4>1, NodeFacts, PutFile
    <3>6. QED
      BY <3>2, <3>4, <3>5
  <2>3. QED
    BY <2>1, <2>2
<1>3. NativeSame /\ InstalledBy(c)
  <2>1. /\ disk'["state"] = disk["state"] /\ disk'["VERSION"] = disk["VERSION"]
        /\ disk'["prog"] = disk["prog"]
        /\ \A f \in InstallFiles : disk'[f] = disk[f]
    BY <1>2 DEF File, InstallFiles, Basics
  <2>2. QED
    BY <1>2, <2>1, NodeFacts DEF NativeSame, InstalledBy, Native, NativeWhole, Installed
<1>4. NodeType'
  BY <1>1, <1>2 DEF NodeInv, NodeType
<1>5. QED
  BY <1>1, <1>3, <1>4, FinishSteps

LEMMA CommitUndoSteps ==
  ASSUME NodeInv, NEW c \in Cmd, CommitUndo(c)
  PROVE  Steps(c)
<1>1. /\ cmd[c].pc = "commit" /\ Finish(c, "done") /\ Release(c)
      /\ UNCHANGED <<svc, arch, runs, faults, scars>> /\ cmd[c].kind = "undo"
      /\ disk' = [disk EXCEPT !["prog"] = cmd[c].new["prog"]]
      /\ torn' \subseteq torn
  BY DEF CommitUndo
<1>2. cmd[c].new \in Disk /\ NativeWhole(cmd[c].new) /\ Native(disk)
  BY <1>1, CmdOf, CommandFields, ChangesFacts DEF Writing
<1>3. /\ disk' \in Disk /\ disk'["prog"] = cmd[c].new["prog"]
      /\ \A f \in File \ {"prog"} : disk'[f] = disk[f]
  <2>1. Puts(disk', disk, "prog", cmd[c].new) /\ "prog" \in File
    BY <1>1 DEF Puts, File
  <2>2. QED
    BY <1>2, <2>1, NodeFacts, PutFile
<1>4. NativeSame /\ InstalledBy(c)
  <2>1. /\ disk'["state"] = disk["state"] /\ disk'["VERSION"] = disk["VERSION"]
        /\ disk'["prog"] # Absent
        /\ \A f \in (InstallFiles \cup {"db"}) \ {"prog"} : disk'[f] = disk[f]
    BY <1>2, <1>3 DEF File, InstallFiles, Basics, NativeWhole
  <2>2. QED
    BY <1>2, <2>1, NodeFacts DEF NativeSame, InstalledBy, Native, NativeWhole, Installed
<1>5. NodeType'
  BY <1>1, <1>3 DEF NodeInv, NodeType
<1>6. QED
  BY <1>1, <1>4, <1>5, FinishSteps

LEMMA CommitRestoreSteps ==
  ASSUME NodeInv, NEW c \in Cmd, CommitRestore(c)
  PROVE  Steps(c)
<1>1. /\ cmd[c].pc = "commit" /\ Finish(c, "done") /\ Release(c)
      /\ UNCHANGED <<torn, svc, arch, runs, faults, scars>>
      /\ cmd[c].kind = "restore"
      /\ disk' = [disk EXCEPT !["VERSION"] = disk["prog"], !["marker"] = Absent]
  BY DEF CommitRestore
<1>2. ~Native(disk) /\ KeepsLock(cmd[c])
  BY <1>1, ChangesFacts DEF KeepsLock, Writing
<1>3. disk = [f \in File |-> disk[f]] /\ disk["prog"] \in {Absent, <<Old>>, <<New>>}
  BY NodeFacts, FilesOf
<1>4. /\ disk' = [f \in File |-> disk'[f]]
      /\ disk'["VERSION"] = disk["prog"] /\ disk'["marker"] = Absent
      /\ \A f \in File \ {"VERSION", "marker"} : disk'[f] = disk[f]
  BY <1>1, <1>3 DEF File
<1>5. disk' \in Disk
  BY <1>3, <1>4, NodeFacts, FilesOf, InDisk DEF File
<1>6. NativeSame /\ InstalledBy(c)
  <2>1. disk'["state"] = disk["state"] /\ disk'["prog"] = disk["prog"]
    BY <1>4 DEF File
  <2>2. disk["prog"] # <<Old>>
    BY <1>2, NodeFacts
  <2>3. QED
    BY <1>2, <1>4, <2>1, <2>2 DEF NativeSame, InstalledBy, Native
<1>7. NodeType'
  BY <1>1, <1>5 DEF NodeInv, NodeType
<1>8. QED
  BY <1>1, <1>6, <1>7, FinishSteps

(* The backup is made,                                                     *)
LEMMA SaveFilesSteps ==
  ASSUME NodeInv, NEW c \in Cmd, SaveFiles(c)
  PROVE  Steps(c)
<1> DEFINE x == [cmd[c] EXCEPT !.pc = "health", !.saved = disk, !.cut = torn]
<1>1. /\ cmd[c] \in Commands /\ CmdInv(cmd[c]) /\ NativeFits(cmd[c])
      /\ cmd[c].pc = "save" /\ cmd[c].kind = "migrate"
      /\ disk \in Disk /\ torn \subseteq File
  BY CmdOf, NodeFacts DEF CmdInv, CmdType, KindFits, SaveFiles
<1>2. /\ x \in Commands /\ x.pc = "health" /\ x.kind = cmd[c].kind
      /\ x.by = cmd[c].by /\ x.id = cmd[c].id /\ x.new = cmd[c].new
      /\ x.wrote = cmd[c].wrote /\ x.found = cmd[c].found
      /\ x.todo = cmd[c].todo /\ x.saved = disk
  BY <1>1 DEF Commands, Writing
<1>3. cmd' = [cmd EXCEPT ![c] = x]
  BY DEF SaveFiles
<1> HIDE DEF x
<1>4. /\ Changes(x) /\ Changes(cmd[c]) /\ ~Ends(x) /\ ~Ends(cmd[c])
      /\ KeepsLock(x) /\ KeepsLock(cmd[c])
  BY <1>1, <1>2 DEF Changes, Ends, KeepsLock, Writing, Final
<1>5. CmdType(x)
  BY <1>1, <1>2, <1>4 DEF CmdInv, CmdType, KindFits, Writing, Final, Installer
<1>6. Progress(x)
  BY <1>1, <1>2, <1>4 DEF CmdInv, Progress, Targets
<1>7. Source(x)
  <2>1. disk["state"] = First
    BY <1>1, <1>4 DEF NativeFits, Native
  <2>2. QED
    BY <1>1, <1>2, <1>4, <2>1 DEF CmdInv, Source
<1>8. NativeFits(x)
  BY <1>1, <1>2, <1>4 DEF NativeFits
<1>9. ~Uninstalled(x)
  BY <1>1, <1>2 DEF Uninstalled
<1>10. NodeType'
  BY DEF NodeInv, NodeType, SaveFiles
<1>11. QED
  BY <1>2, <1>3, <1>4, <1>5, <1>6, <1>7, <1>8, <1>9, <1>10, OnwardSteps
     DEF CmdInv, SaveFiles

(* A command that failed rolls back, from the backup it has,               *)
RollsBack(x, y) ==
  /\ x \in Commands /\ x.pc = "rollback"
  /\ x.kind = y.kind /\ x.by = y.by /\ x.id = y.id /\ x.new = y.new
  /\ x.wrote = y.wrote /\ x.found = y.found
  /\ x.kind = "migrate" => x.saved["state"] \in {Absent, First}

LEMMA RollsBackSteps ==
  ASSUME NodeInv, NEW c \in Cmd, cmd[c].pc \in Writing, cmd[c].kind # "undo",
         NEW x, RollsBack(x, cmd[c]), cmd' = [cmd EXCEPT ![c] = x],
         faults' \in 0 .. MaxFaults,
         \/ cmd[c].kind \in Installer /\ Release(c)
         \/ cmd[c].kind \notin Installer /\ lock' = lock,
         UNCHANGED <<disk, torn, svc, arch, runs, scars>>
  PROVE  Steps(c)
<1>1. /\ cmd[c] \in Commands /\ CmdInv(cmd[c]) /\ NativeFits(cmd[c])
      /\ Uninstalled(cmd[c]) => ~Installed(disk)
  BY CmdOf
<1>2. /\ x \in Commands /\ x.pc = "rollback" /\ x.kind = cmd[c].kind
      /\ x.by = cmd[c].by /\ x.id = cmd[c].id /\ x.new = cmd[c].new
      /\ x.wrote = cmd[c].wrote /\ x.found = cmd[c].found
      /\ x.kind = "migrate" => x.saved["state"] \in {Absent, First}
  BY DEF RollsBack
<1>3. /\ Changes(x) /\ Changes(cmd[c]) /\ ~Ends(x) /\ ~Ends(cmd[c])
      /\ KeepsLock(cmd[c]) /\ (KeepsLock(x) <=> cmd[c].kind \notin Installer)
  BY <1>2 DEF Changes, Ends, KeepsLock, Writing, Final
<1>4. CmdType(x) /\ x.kind # "backup"
  BY <1>1, <1>2, <1>3 DEF CmdInv, CmdType, KindFits, Writing, Final, Installer
<1>5. Progress(x) /\ NativeFits(x)
  BY <1>1, <1>2, <1>3 DEF CmdInv, Progress, Targets, NativeFits
<1>6. Source(x)
  BY <1>1, <1>2, <1>3 DEF CmdInv, Source
<1>7. Uninstalled(x) => ~Installed(disk')
  BY <1>1, <1>2, <1>3 DEF Uninstalled, Installed
<1>8. NodeType'
  BY DEF NodeInv, NodeType
<1>9. NativeSame /\ InstalledBy(c)
  BY SameDisk
<1>10. LockMoves(c, x)
  BY <1>3 DEF LockMoves
<1>11. Moves(c, x)
  BY <1>4, <1>5, <1>6, <1>7, <1>8, <1>9, <1>10 DEF Moves, CmdInv
<1>12. QED
  BY <1>2, <1>4, <1>11 DEF Steps, SameOwner

LEMMA FailSteps ==
  ASSUME NodeInv, NEW c \in Cmd, cmd[c].pc \in Writing, cmd[c].kind # "undo",
         cmd' = [cmd EXCEPT ![c].pc = "rollback"],
         Fault \/ faults' = faults,
         \/ cmd[c].kind \in Installer /\ Release(c)
         \/ cmd[c].kind \notin Installer /\ lock' = lock,
         UNCHANGED <<disk, torn, svc, arch, runs, scars>>
  PROVE  Steps(c)
<1> DEFINE x == [cmd[c] EXCEPT !.pc = "rollback"]
<1>1. cmd[c] \in Commands /\ CmdInv(cmd[c])
  BY CmdOf
<1>2. Changes(cmd[c])
  BY DEF Changes
<1>3. RollsBack(x, cmd[c])
  BY <1>1, <1>2, PcMoved DEF RollsBack, CmdInv, Source
<1>4. cmd' = [cmd EXCEPT ![c] = x]
  OBVIOUS
<1> HIDE DEF x
<1>5. faults' \in 0 .. MaxFaults
  BY FaultType, NodeFacts DEF Fault
<1>6. QED
  BY <1>3, <1>4, <1>5, RollsBackSteps

LEMMA FailInstallSteps ==
  ASSUME NodeInv, NEW c \in Cmd, FailInstall(c)
  PROVE  Steps(c)
  BY FailSteps DEF FailInstall, Writing, Installer

LEMMA FailRestoreSteps ==
  ASSUME NodeInv, NEW c \in Cmd, FailRestore(c)
  PROVE  Steps(c)
  BY FailSteps DEF FailRestore, Writing, Installer

(* What a backup that broke off has.                                       *)
LEMMA CopiedDisk ==
  ASSUME NEW d \in Disk, NEW fs
  PROVE  /\ Copied(d, fs) \in Disk
         /\ \A f \in File : Copied(d, fs)[f] = IF f \in fs THEN d[f] ELSE Absent
<1>1. /\ Copied(d, fs) = [f \in File |-> Copied(d, fs)[f]]
      /\ \A f \in File : Copied(d, fs)[f] = IF f \in fs THEN d[f] ELSE Absent
  BY DEF Copied
<1>2. \A f \in File : \E e \in Disk : Copied(d, fs)[f] = e[f]
  BY <1>1, NoFilesDisk
<1>3. QED
  BY <1>1, <1>2, MixedDisk

LEMMA FrontFiles ==
  /\ \A n \in 0 .. Len(FileOrder) : Front(n) \subseteq File
  /\ \A n \in 1 .. Len(FileOrder) : FileOrder[n] \in File
<1>1. Len(FileOrder) = 8 /\ \A n \in 1 .. 8 : FileOrder[n] \in File
  BY DEF FileOrder, File
<1>2. QED
  BY <1>1 DEF Front

(* The backup that a migration rolls back from when SaveBreaks.            *)
PartSaved(x, y) ==
  \E fs \in SUBSET File, ts \in SUBSET File :
    x = [y EXCEPT !.pc = "rollback", !.saved = Copied(disk, fs), !.cut = ts]

LEMMA SaveBreaksTo ==
  ASSUME NodeInv, NEW c \in Cmd, SaveBreaks(c)
  PROVE  \E x : PartSaved(x, cmd[c]) /\ cmd' = [cmd EXCEPT ![c] = x]
<1>1. PICK n \in 1 .. Len(FileOrder) : \E last \in SUBSET {FileOrder[n]} :
        cmd' = [cmd EXCEPT ![c].pc = "rollback",
                           ![c].saved = Copied(disk, Front(n - 1) \cup last),
                           ![c].cut = (torn \cap Front(n - 1)) \cup last]
  BY DEF SaveBreaks
<1>2. PICK last \in SUBSET {FileOrder[n]} :
        cmd' = [cmd EXCEPT ![c].pc = "rollback",
                           ![c].saved = Copied(disk, Front(n - 1) \cup last),
                           ![c].cut = (torn \cap Front(n - 1)) \cup last]
  BY <1>1
<1> DEFINE fs == Front(n - 1) \cup last
           ts == (torn \cap Front(n - 1)) \cup last
           x == [cmd[c] EXCEPT !.pc = "rollback", !.saved = Copied(disk, fs), !.cut = ts]
<1>3. Front(n - 1) \subseteq File /\ last \subseteq File
  <2>1. n - 1 \in 0 .. Len(FileOrder)
    BY DEF FileOrder
  <2>2. QED
    BY <2>1, FrontFiles
<1>4. fs \in SUBSET File /\ ts \in SUBSET File
  BY <1>3
<1>5. PartSaved(x, cmd[c])
  BY <1>4 DEF PartSaved
<1>6. cmd' = [cmd EXCEPT ![c] = x]
  BY <1>2
<1> HIDE DEF x
<1>7. QED
  BY <1>5, <1>6

LEMMA SaveBreaksSteps ==
  ASSUME NodeInv, NEW c \in Cmd, SaveBreaks(c)
  PROVE  Steps(c)
<1>1. /\ cmd[c] \in Commands /\ CmdInv(cmd[c]) /\ NativeFits(cmd[c])
      /\ cmd[c].pc = "save" /\ cmd[c].kind = "migrate" /\ disk \in Disk
  BY CmdOf, NodeFacts DEF CmdInv, CmdType, KindFits, SaveBreaks
<1>2. PICK x : PartSaved(x, cmd[c]) /\ cmd' = [cmd EXCEPT ![c] = x]
  BY SaveBreaksTo
<1>3. PICK fs \in SUBSET File, ts \in SUBSET File :
        x = [cmd[c] EXCEPT !.pc = "rollback", !.saved = Copied(disk, fs), !.cut = ts]
  BY <1>2 DEF PartSaved
<1>4. disk["state"] = First
  BY <1>1 DEF NativeFits, Native, Ends, Final
<1>5. Copied(disk, fs) \in Disk /\ Copied(disk, fs)["state"] \in {Absent, First}
  BY <1>1, <1>4, CopiedDisk DEF File
<1>6. RollsBack(x, cmd[c])
  BY <1>1, <1>3, <1>5 DEF RollsBack, Commands
<1>7. faults' \in 0 .. MaxFaults
  BY FaultType DEF SaveBreaks, Fault
<1>8. QED
  BY <1>1, <1>2, <1>6, <1>7, RollsBackSteps DEF SaveBreaks, Writing, Installer

(* is killed, or leaves the node between the two.                          *)
LEMMA KillSteps ==
  ASSUME NodeInv, NEW c \in Cmd, Kill(c)
  PROVE  Steps(c)
<1>1. NodeType'
  BY FaultType DEF NodeInv, NodeType, Kill, Fault
<1>2. NativeSame /\ InstalledBy(c)
  BY SameDisk DEF Kill
<1>3. QED
  BY <1>1, <1>2, FinishSteps DEF Kill

LEMMA FailUndoSteps ==
  ASSUME NodeInv, NEW c \in Cmd, FailUndo(c)
  PROVE  Steps(c)
<1>1. NodeType'
  BY FaultType DEF NodeInv, NodeType, FailUndo, Fault
<1>2. NativeSame /\ InstalledBy(c)
  BY SameDisk DEF FailUndo
<1>3. QED
  BY <1>1, <1>2, FinishSteps DEF FailUndo

LEMMA RollbackInstallSteps ==
  ASSUME NodeInv, NEW c \in Cmd, RollbackInstall(c)
  PROVE  Steps(c)
<1>1. /\ cmd[c].pc = "rollback" /\ cmd[c].kind \in {"fresh", "runtime"}
      /\ disk' = NoFiles /\ torn' = {} /\ svc' = Stopped /\ Finish(c, "failed")
      /\ UNCHANGED <<lock, arch, runs, faults, scars>>
  BY DEF RollbackInstall
<1>2. ~Native(disk) /\ ~KeepsLock(cmd[c])
  BY <1>1, ChangesFacts DEF KeepsLock, Writing, Installer
<1>3. /\ NoFiles["state"] = Absent /\ NoFiles["VERSION"] = Absent
      /\ NoFiles["prog"] = Absent
  BY NoFilesDisk DEF File
<1>4. NativeSame /\ InstalledBy(c)
  BY <1>1, <1>2, <1>3, AbsentIsNot DEF NativeSame, InstalledBy, Native, Installed, First
<1>5. NodeType'
  BY <1>1, NoFilesDisk, StoppedType DEF NodeInv, NodeType
<1>6. QED
  BY <1>1, <1>2, <1>4, <1>5, FinishSteps

(* Files of the backup over those of a node that is migrated.              *)
LEMMA OverNative ==
  ASSUME NodeInv, Native(disk), NEW e \in Disk, e["state"] \in {Absent, First},
         NEW n, n = [f \in File |-> n[f]], \A f \in File : n[f] \in {disk[f], Over(disk, e)[f]}
  PROVE  n \in Disk /\ NativeWhole(n)
<1>1. NativeWhole(disk) /\ disk \in Disk
  BY NodeFacts
<1>2. \A f \in File : Over(disk, e)[f] = IF e[f] # Absent THEN e[f] ELSE disk[f]
  BY DEF Over
<1>3. \A f \in File : n[f] = disk[f] \/ (n[f] = e[f] /\ e[f] # Absent)
  BY <1>2
<1>4. n \in Disk
  BY <1>1, <1>3, MixedDisk
<1>5. n["state"] = First
  BY <1>1, <1>3 DEF File, Native
<1>6. \A f \in InstallFiles \cup {"db"} : n[f] # Absent
  BY <1>1, <1>3 DEF NativeWhole, InstallFiles, Basics, File
<1>7. QED
  BY <1>4, <1>5, <1>6 DEF NativeWhole, Native

LEMMA RollbackMigrationSteps ==
  ASSUME NodeInv, NEW c \in Cmd, RollbackMigration(c)
  PROVE  Steps(c)
<1> DEFINE services == PutServices(Stopped, cmd[c].before, disk')
<1>1. /\ cmd[c].pc = "rollback" /\ cmd[c].kind = "migrate"
      /\ disk' = Over(disk, cmd[c].saved)
      /\ torn' = {f \in torn : cmd[c].saved[f] = Absent} \cup cmd[c].cut
      /\ svc' = WithTorn(services, torn')
      /\ Finish(c, "failed") /\ UNCHANGED <<lock, arch, runs, faults>>
  BY DEF RollbackMigration
<1>2. /\ Native(disk) /\ ~KeepsLock(cmd[c])
      /\ cmd[c].saved \in Disk /\ cmd[c].before \in Services
      /\ cmd[c].cut \in SUBSET File /\ cmd[c].saved["state"] \in {Absent, First}
  BY <1>1, CmdOf, CommandFields, ChangesFacts DEF KeepsLock, Writing, Installer
<1>3. disk' = [f \in File |-> disk'[f]]
  BY <1>1 DEF Over
<1>4. disk' \in Disk /\ NativeWhole(disk')
  BY <1>1, <1>2, <1>3, OverNative
<1>5. Installed(disk)
  BY <1>2, NodeFacts DEF NativeWhole, InstallFiles, Installed
<1>6. NativeSame /\ InstalledBy(c)
  BY <1>2, <1>4, <1>5 DEF NativeSame, InstalledBy, NativeWhole
<1>7. services \in Services
  BY <1>2, <1>4, StoppedType, PutServicesType
<1> HIDE DEF services
<1>8. svc' \in Services
  BY <1>1, <1>7 DEF WithTorn, Services
<1>9. torn' \subseteq File
  BY <1>1, <1>2, NodeFacts
<1>10. NodeType'
  BY <1>1, <1>4, <1>8, <1>9 DEF NodeInv, NodeType
<1>11. QED
  BY <1>1, <1>2, <1>6, <1>10, FinishSteps

(* Or the rollback breaks off.                                             *)
LEMMA RollbackBreaksSteps ==
  ASSUME NodeInv, NEW c \in Cmd, RollbackBreaks(c)
  PROVE  Steps(c)
<1> DEFINE x == cmd[c]
           back == IF x.kind = "migrate" THEN Over(disk, x.saved) ELSE NoFiles
           done(m) == IF x.kind = "migrate"
                      THEN {f \in Front(m) : x.saved[f] # Absent} ELSE Front(m)
<1>1. /\ cmd[c].pc = "rollback" /\ lock # c /\ svc' = Stopped
      /\ Finish(c, "failed") /\ UNCHANGED <<lock, arch, runs>>
      /\ faults' \in 0 .. MaxFaults
  BY FaultType DEF RollbackBreaks, Unlocked, Fault
<1>2. PICK n \in 1 .. Len(FileOrder) :
        /\ disk' = [f \in File |-> IF f \in Front(n) THEN back[f] ELSE disk[f]]
        /\ torn' = (torn \ done(n)) \cup (x.cut \cap done(n))
                    \cup (IF x.kind = "migrate" THEN done(n) \ Front(n - 1) ELSE {})
  BY DEF RollbackBreaks
<1>3. /\ disk' = [f \in File |-> disk'[f]]
      /\ \A f \in File : disk'[f] \in {disk[f], back[f]}
  BY <1>2
<1>4. torn' \subseteq File
  <2>1. Front(n) \subseteq File
    <3>1. n \in 0 .. Len(FileOrder)
      BY DEF FileOrder
    <3>2. QED
      BY <3>1, FrontFiles
  <2>2. done(n) \subseteq File
    BY <2>1
  <2> HIDE DEF done
  <2>3. QED
    BY <1>2, <2>2, NodeFacts
<1> HIDE DEF done
<1>5. ~KeepsLock(cmd[c]) /\ cmd[c].kind \in Installer
  BY <1>1, CmdOf DEF KeepsLock
<1>6. disk' \in Disk /\ NativeSame /\ InstalledBy(c)
  <2>1. CASE cmd[c].kind = "migrate"
    <3>1. /\ Native(disk) /\ cmd[c].saved \in Disk
          /\ cmd[c].saved["state"] \in {Absent, First}
      BY <1>1, <2>1, CmdOf, CommandFields, ChangesFacts
    <3>2. disk' \in Disk /\ NativeWhole(disk')
      BY <1>3, <2>1, <3>1, OverNative
    <3>3. Installed(disk)
      BY <3>1, NodeFacts DEF NativeWhole, InstallFiles, Installed
    <3>4. QED
      BY <3>1, <3>2, <3>3 DEF NativeSame, InstalledBy, NativeWhole
  <2>2. CASE cmd[c].kind # "migrate"
    <3>1. ~Native(disk)
      BY <1>1, <1>5, <2>2, ChangesFacts DEF Installer
    <3>2. \A f \in File : disk'[f] \in {disk[f], Absent}
      BY <1>3, <2>2, NoFilesDisk
    <3>3. disk' \in Disk
      BY <1>3, <3>2, NodeFacts, NoFilesDisk, MixedDisk
    <3>4. /\ disk'["state"] \in {disk["state"], Absent}
          /\ disk'["VERSION"] \in {disk["VERSION"], Absent}
          /\ disk'["prog"] \in {disk["prog"], Absent}
      BY <3>2 DEF File
    <3>5. ~Native(disk')
      BY <3>1, <3>4, AbsentIsNot DEF Native, First
    <3>6. disk'["VERSION"] # <<Old>> /\ disk'["prog"] # <<Old>>
      BY <3>1, <3>4, NodeFacts, AbsentIsNot
    <3>7. QED
      BY <3>1, <3>3, <3>4, <3>5, <3>6 DEF NativeSame, InstalledBy, Installed
  <2>3. QED
    BY <2>1, <2>2
<1>7. NodeType'
  BY <1>1, <1>4, <1>6, StoppedType DEF NodeInv, NodeType
<1>8. QED
  BY <1>1, <1>5, <1>6, <1>7, FinishSteps

LEMMA RollbackRestoreSteps ==
  ASSUME NodeInv, NEW c \in Cmd, RollbackRestore(c)
  PROVE  Steps(c)
<1>1. /\ cmd[c].pc = "rollback" /\ cmd[c].kind = "restore"
      /\ disk' = PutBack(disk, c)
      /\ svc' = PutServices(svc, cmd[c].before, disk')
      /\ Finish(c, "failed") /\ Release(c)
      /\ UNCHANGED <<torn, arch, runs, faults, scars>>
  BY DEF RollbackRestore
<1>2. /\ ~Native(disk) /\ ~Native(cmd[c].found) /\ ~Installed(cmd[c].found)
      /\ cmd[c].found \in Disk /\ cmd[c].before \in Services
      /\ cmd[c].found["prog"] = <<New>>
  BY <1>1, CmdOf, CommandFields, ChangesFacts DEF Writing, CmdInv, Source
<1>3. /\ disk' = [f \in File |-> disk'[f]]
      /\ \A f \in File : disk'[f] \in {Absent, disk[f], cmd[c].found[f]}
      /\ disk'["VERSION"] = Absent /\ disk'["prog"] = <<New>>
  <2>1. \A f \in File : Over(disk, cmd[c].found)[f]
                          = IF cmd[c].found[f] # Absent THEN cmd[c].found[f] ELSE disk[f]
    BY DEF Over
  <2>2. disk' = [f \in File |-> disk'[f]]
    BY <1>1 DEF PutBack
  <2>3. \A f \in File : disk'[f] \in {Absent, disk[f], cmd[c].found[f]}
    BY <1>1, <2>1 DEF PutBack
  <2>4. disk'["VERSION"] = Absent
    BY <1>1, <1>2 DEF PutBack, Installed, File
  <2>5. disk'["prog"] = <<New>>
    BY <1>1, <1>2, <2>1, AbsentIsNot DEF PutBack, File
  <2>6. QED
    BY <2>2, <2>3, <2>4, <2>5
<1>4. disk' \in Disk
  <2>1. \A f \in File : \E e \in Disk : disk'[f] = e[f]
    BY <1>2, <1>3, NodeFacts, NoFilesDisk
  <2>2. QED
    BY <1>3, <2>1, MixedDisk
<1>5. NativeSame /\ InstalledBy(c)
  <2>1. ~Native(disk')
    BY <1>2, <1>3, AbsentIsNot DEF Native, First, File
  <2>2. QED
    BY <1>2, <1>3, <2>1, AbsentIsNot DEF NativeSame, InstalledBy, Installed, Old, New
<1>6. NodeType'
  BY <1>1, <1>2, <1>4, NodeFacts, PutServicesType DEF NodeInv, NodeType
<1>7. QED
  BY <1>1, <1>5, <1>6, FinishSteps

(* A command begins.                                                       *)
LEMMA BegunMoves ==
  ASSUME NodeInv, NEW c \in Cmd, cmd[c] = Idle, NEW x, cmd' = [cmd EXCEPT ![c] = x],
         CmdInv(x), NativeFits(x), x.pc \in Early, NodeType', disk' = disk, lock' = lock
  PROVE  Moves(c, x)
<1>1. NativeSame /\ InstalledBy(c)
  BY SameDisk
<1>2. ~KeepsLock(x) /\ ~Uninstalled(x)
  BY EarlyFacts
<1>3. ~KeepsLock(cmd[c])
  BY IdleFields DEF KeepsLock, Writing
<1>4. LockMoves(c, x)
  BY <1>2, <1>3 DEF LockMoves
<1>5. QED
  BY <1>1, <1>2, <1>4 DEF Moves

LEMMA RunsNext ==
  ASSUME NodeInv, runs < MaxRuns
  PROVE  runs + 1 \in Run \ {0, 1}
<1>1. runs \in Nat /\ runs # 0 /\ runs + 1 \in Run
  BY NodeFacts, Constants
<1>2. QED
  BY <1>1

LEMMA RunInstallerMoves ==
  ASSUME NodeInv, NEW c \in Cmd, NEW kind \in {"installer", "runtime"},
         NEW by \in Ctl \cup {None}, RunInstaller(c, kind, by)
  PROVE  /\ Moves(c, Command(kind, "main", by, NoFiles))
         /\ Command(kind, "main", by, NoFiles).by = by
         /\ cmd[c] = Idle
<1> DEFINE x == Command(kind, "main", by, NoFiles)
<1>1. /\ cmd[c] = Idle /\ runs < MaxRuns /\ runs' = runs + 1
      /\ cmd' = [cmd EXCEPT ![c] = x]
      /\ UNCHANGED <<disk, torn, svc, lock, arch, faults, scars>>
  BY DEF RunInstaller, Begin
<1>2. runs + 1 \in Run \ {0, 1}
  BY <1>1, RunsNext
<1>3. /\ x \in Commands /\ x.kind = kind /\ x.pc = "main" /\ x.by = by
      /\ x.id = runs + 1 /\ x.wrote = {} /\ x.saved = NoFiles
  BY <1>2, CommandNew, NoFilesDisk DEF Installer
<1> HIDE DEF x
<1>4. x.pc \in Early /\ ~Changes(x) /\ ~Ends(x)
  BY <1>3, EarlyFacts DEF Early
<1>5. CmdType(x)
  BY <1>2, <1>3, <1>4 DEF CmdType, KindFits, Writing, Installer
<1>6. CmdInv(x)
  BY <1>3, <1>4, <1>5 DEF CmdInv, Progress, Source, Writing
<1>7. NativeFits(x)
  BY <1>3, <1>4 DEF NativeFits
<1>8. NodeType'
  BY <1>1, <1>2 DEF NodeInv, NodeType
<1>9. Moves(c, x)
  BY <1>1, <1>4, <1>6, <1>7, <1>8, BegunMoves
<1>10. QED
  BY <1>1, <1>3, <1>9 DEF x

LEMMA RunBackupMoves ==
  ASSUME NodeInv, NEW c \in Cmd, NEW by \in Ctl \cup {None}, RunBackup(c, by)
  PROVE  LET x == [Idle EXCEPT !.kind = "backup", !.pc = "state", !.by = by]
         IN Moves(c, x) /\ x.by = by /\ x.kind = "backup" /\ cmd[c] = Idle
<1> DEFINE x == [Idle EXCEPT !.kind = "backup", !.pc = "state", !.by = by]
<1>1. /\ cmd[c] = Idle /\ cmd' = [cmd EXCEPT ![c] = x]
      /\ by = None => runs < MaxRuns
      /\ runs' = IF by = None THEN runs + 1 ELSE runs
      /\ UNCHANGED <<disk, torn, svc, lock, arch, faults, scars>>
  BY DEF RunBackup
<1>2. /\ x \in Commands /\ x.kind = "backup" /\ x.pc = "state" /\ x.by = by
  BY IdleFields DEF Commands
<1> HIDE DEF x
<1>3. x.pc \in Early /\ ~Changes(x) /\ ~Ends(x)
  BY <1>2, EarlyFacts DEF Early
<1>4. CmdInv(x)
  BY <1>2, <1>3 DEF CmdInv, CmdType, KindFits, Progress, Source, Writing, Installer
<1>5. NativeFits(x)
  BY <1>2, <1>3 DEF NativeFits
<1>6. runs' \in Run \ {0}
  BY <1>1, RunsNext, NodeFacts
<1>7. NodeType'
  BY <1>1, <1>6 DEF NodeInv, NodeType
<1>8. Moves(c, x)
  BY <1>1, <1>3, <1>4, <1>5, <1>7, BegunMoves
<1>9. QED
  BY <1>1, <1>2, <1>8 DEF x

LEMMA BackupStateSteps ==
  ASSUME NodeInv, NEW c \in Cmd, BackupState(c)
  PROVE  Steps(c)
<1>1. cmd[c].pc = "state" /\ cmd[c].pc \in Early
  BY DEF BackupState, Early
<1>2. CASE Refuse(c)
  BY <1>1, <1>2, RefuseSteps
<1>3. CASE /\ disk["state"] # Absent
           /\ cmd' = [cmd EXCEPT ![c].pc = "users", ![c].new["state"] = disk["state"]]
           /\ UNCHANGED <<disk, torn, svc, lock, arch, runs, faults, scars>>
  <2> DEFINE new == [cmd[c].new EXCEPT !["state"] = disk["state"]]
             x == [cmd[c] EXCEPT !.pc = "users", !.new = new]
  <2>1. /\ cmd[c] \in Commands /\ CmdInv(cmd[c]) /\ cmd[c].new \in Disk
        /\ disk \in Disk /\ cmd[c].kind = "backup"
    BY <1>1, CmdOf, NodeFacts, CommandFields DEF CmdType, KindFits
  <2>2. Puts(new, cmd[c].new, "state", disk) /\ "state" \in File
    BY DEF Puts, File
  <2>4. cmd' = [cmd EXCEPT ![c] = x]
    BY <1>3
  <2> HIDE DEF new
  <2>3. new \in Disk /\ new["state"] = disk["state"]
    BY <2>1, <2>2, PutFile
  <2>5. /\ x \in Commands /\ x.pc = "users" /\ x.kind = "backup" /\ x.by = cmd[c].by
        /\ x.new = new
    BY <2>1, <2>3 DEF Commands
  <2> HIDE DEF x
  <2>6. x.pc \in Early /\ ~Changes(x) /\ ~Ends(x) /\ ~Uninstalled(x) /\ ~KeepsLock(x)
    BY <2>5, EarlyFacts DEF Early
  <2>7. CmdInv(x)
    BY <1>3, <2>3, <2>5, <2>6
       DEF CmdInv, CmdType, KindFits, Progress, Source, Writing, Installer
  <2>8. NativeFits(x)
    BY <2>5, <2>6 DEF NativeFits
  <2>9. NodeType'
    BY <1>3 DEF NodeInv, NodeType
  <2>10. ~KeepsLock(cmd[c])
    BY <1>1, EarlyFacts
  <2>11. QED
    BY <1>3, <2>4, <2>5, <2>6, <2>7, <2>8, <2>9, <2>10, OnwardSteps
<1>4. QED
  BY <1>2, <1>3 DEF BackupState

LEMMA ArchiveType ==
  ASSUME NEW state \in Run \X Run \X Run, NEW users \in {<<a>> : a \in Run},
         NEW db \in {Absent} \cup {<<a>> : a \in Run}, NEW secret \in BOOLEAN
  PROVE  Archive(state, users, db, secret) \in Archives
<1>1. <<state[1], state[2], 0>> \in Run \X Run \X Run
  BY Constants
<1>2. Stripped \in {<<a>> : a \in Run}
  BY Constants DEF Stripped
<1>3. QED
  BY <1>1, <1>2 DEF Archive, Archives

LEMMA BackupRestSteps ==
  ASSUME NodeInv, NEW c \in Cmd, BackupRest(c)
  PROVE  Steps(c)
<1>1. cmd[c].pc = "users" /\ cmd[c].pc \in Early
  BY DEF BackupRest, Early
<1>2. CASE Refuse(c)
  BY <1>1, <1>2, RefuseSteps
<1>3. CASE /\ disk["users"] # Absent
           /\ \E secret \in IF cmd[c].by = None THEN BOOLEAN ELSE {FALSE} :
                arch' = arch \cup {Archive(cmd[c].new["state"], disk["users"],
                                           disk["db"], secret)}
           /\ Finish(c, "done")
           /\ UNCHANGED <<disk, torn, svc, lock, runs, faults, scars>>
  <2>1. PICK secret \in BOOLEAN :
          arch' = arch \cup {Archive(cmd[c].new["state"], disk["users"], disk["db"],
                                     secret)}
    BY <1>3
  <2>2. cmd[c].new \in Disk /\ cmd[c].new["state"] # Absent
    BY <1>1, CmdOf, CommandFields DEF CmdType
  <2>3. cmd[c].new["state"] \in Run \X Run \X Run
    BY <2>2, FilesOf
  <2>4. /\ disk["users"] \in {<<a>> : a \in Run}
        /\ disk["db"] \in {Absent} \cup {<<a>> : a \in Run}
    BY <1>3, NodeFacts, FilesOf
  <2>5. arch' \subseteq Archives
    BY <2>1, <2>3, <2>4, ArchiveType, NodeFacts
  <2>6. NodeType' /\ NativeSame /\ InstalledBy(c)
    BY <1>3, <2>5, SameDisk DEF NodeInv, NodeType
  <2>7. ~KeepsLock(cmd[c])
    BY <1>1, EarlyFacts
  <2>8. QED
    BY <1>3, <2>6, <2>7, FinishSteps
<1>4. QED
  BY <1>2, <1>3 DEF BackupRest

LEMMA BackupFailsSteps ==
  ASSUME NodeInv, NEW c \in Cmd, BackupFails(c)
  PROVE  Steps(c)
  BY RefuseSteps DEF BackupFails, Early

LEMMA RenderedWith ==
  ASSUME NEW n \in Run, NEW i \in Run, NEW k \in Run, NEW u \in Run,
         NEW db \in {Absent} \cup {<<a>> : a \in Run}
  PROVE  LET p == [Rendered(n, i, k, u, New) EXCEPT !["db"] = db]
         IN p \in Disk /\ p["state"] = <<n, i, k>> /\ Agree(p)
<1> DEFINE m == Rendered(n, i, k, u, New)
           p == [m EXCEPT !["db"] = db]
<1>1. /\ m \in Disk
      /\ m["state"] = <<n, i, k>> /\ m["users"] = <<u>>
      /\ m["config"] = <<k, u>> /\ m["uri"] = <<k, u>>
  BY RenderedDisk, SMTT(30)
<1>2. m = [f \in File |-> m[f]]
  BY <1>1, FilesOf
<1>3. p = [f \in File |-> p[f]] /\ p["db"] = db
      /\ \A f \in File \ {"db"} : p[f] = m[f]
  BY <1>2 DEF File
<1> HIDE DEF p, m
<1>4. p \in Disk
  BY <1>1, <1>3, FilesOf, InDisk DEF File
<1>5. /\ p["state"] = <<n, i, k>> /\ p["users"] = <<u>>
      /\ p["config"] = <<k, u>> /\ p["uri"] = <<k, u>>
  BY <1>1, <1>3 DEF File
<1>6. Agree(p)
  BY <1>5, AbsentIsNot DEF Agree
<1>7. QED
  BY <1>4, <1>5, <1>6 DEF p, m

(* A restored node is a new instance, whose files agree.                   *)
LEMMA PlannedFiles ==
  ASSUME NEW a \in Archives, NEW secrets \in BOOLEAN, NEW r \in Run \ {0, 1}
  PROVE  /\ Planned(a, secrets, r) \in Disk
         /\ ~Native(Planned(a, secrets, r)) /\ Agree(Planned(a, secrets, r))
<1>1. /\ a.state \in Run \X Run \X Run /\ a.users \in {<<u>> : u \in Run}
      /\ a.db \in {Absent} \cup {<<u>> : u \in Run}
  BY DEF Archives
<1>2. PICK n \in Run, i \in Run, k \in Run : a.state = <<n, i, k>>
  BY <1>1
<1>3. PICK u \in Run : a.users = <<u>>
  BY <1>1
<1>4. PICK key \in Run : key = PlannedKey(a, secrets, r)
  BY <1>2 DEF PlannedKey
<1>5. PICK use \in Run : use = PlannedUsers(a, secrets, r)
  BY <1>3 DEF PlannedUsers
<1> DEFINE p == [Rendered(n, r, key, use, New) EXCEPT !["db"] = a.db]
<1>6. Planned(a, secrets, r) = p
  BY <1>2, <1>4, <1>5 DEF Planned
<1>7. p \in Disk /\ p["state"] = <<n, r, key>> /\ Agree(p)
  BY <1>1, RenderedWith
<1> HIDE DEF p
<1>8. <<n, r, key>> # First
  BY DEF First
<1>9. QED
  BY <1>6, <1>7, <1>8 DEF Native

LEMMA RunRestoreSteps ==
  ASSUME NodeInv, NEW c \in Cmd, NEW a \in arch, NEW secrets \in BOOLEAN,
         RunRestore(c, a, secrets)
  PROVE  Steps(c)
<1> DEFINE new == Planned(a, secrets, runs + 1)
           x == Command("restore", "lock", None, new)
<1>1. /\ cmd[c] = Idle /\ runs < MaxRuns /\ runs' = runs + 1
      /\ cmd' = [cmd EXCEPT ![c] = x]
      /\ UNCHANGED <<disk, torn, svc, lock, arch, faults, scars>>
  BY DEF RunRestore, Begin
<1>2. runs + 1 \in Run \ {0, 1}
  BY <1>1, RunsNext
<1>3. a \in Archives
  BY NodeFacts
<1>4. new \in Disk /\ ~Native(new) /\ Agree(new)
  BY <1>2, <1>3, PlannedFiles
<1> HIDE DEF new
<1>5. /\ x \in Commands /\ x.kind = "restore" /\ x.pc = "lock" /\ x.by = None
      /\ x.id = runs + 1 /\ x.wrote = {} /\ x.new = new /\ x.saved = NoFiles
  <2>1. /\ "restore" \in Installer \cup {"installer", "restore", "undo"}
        /\ None \in Ctl \cup {None} /\ runs + 1 \in Run
    BY <1>2
  <2>2. QED
    BY <2>1, <1>4, CommandNew
<1> HIDE DEF x
<1>6. x.pc \in Early /\ ~Changes(x) /\ ~Ends(x)
  BY <1>5, EarlyFacts DEF Early
<1>7. CmdType(x)
  BY <1>2, <1>5, <1>6 DEF CmdType, KindFits, Writing, Installer
<1>8. CmdInv(x)
  BY <1>4, <1>5, <1>6, <1>7 DEF CmdInv, Progress, Source, Writing
<1>9. NativeFits(x)
  BY <1>5, <1>6 DEF NativeFits
<1>10. NodeType'
  BY <1>1, <1>2 DEF NodeInv, NodeType
<1>11. Moves(c, x)
  BY <1>1, <1>6, <1>8, <1>9, <1>10, BegunMoves
<1>12. x.by = cmd[c].by /\ cmd[c].kind # "backup"
  BY <1>1, <1>5, IdleFields, Constants DEF None
<1>13. QED
  BY <1>11, <1>12 DEF Steps, SameOwner

LEMMA RunInstallerSteps ==
  ASSUME NodeInv, NEW c \in Cmd, NEW kind \in {"installer", "runtime"},
         RunInstaller(c, kind, None)
  PROVE  Steps(c)
<1> DEFINE x == Command(kind, "main", None, NoFiles)
<1>1. Moves(c, x) /\ x.by = None /\ cmd[c] = Idle
  BY RunInstallerMoves
<1> HIDE DEF x
<1>2. x.by = cmd[c].by /\ cmd[c].kind # "backup"
  BY <1>1, IdleFields DEF None
<1>3. QED
  BY <1>1, <1>2 DEF Steps, SameOwner

LEMMA RunBackupSteps ==
  ASSUME NodeInv, NEW c \in Cmd, RunBackup(c, None)
  PROVE  Steps(c)
<1> DEFINE x == [Idle EXCEPT !.kind = "backup", !.pc = "state", !.by = None]
<1>1. Moves(c, x) /\ x.by = None /\ cmd[c] = Idle
  BY RunBackupMoves, Zenon
<1> HIDE DEF x
<1>2. x.by = cmd[c].by /\ cmd[c].kind # "backup"
  BY <1>1, IdleFields DEF None
<1>3. QED
  BY <1>1, <1>2 DEF Steps, SameOwner

-----------------------------------------------------------------------------
(***************************************************************************)
(* The controllers, and the steps that change no command.                  *)
(***************************************************************************)
LEMMA CmdSame ==
  ASSUME NodeInv, cmd' = cmd, lock' = lock, NodeType', NativeSame,
         Installed(disk') => Installed(disk)
  PROVE  /\ LockHeld' /\ NativeInv' /\ UninstalledInv'
         /\ cmd' = [b \in Cmd |-> cmd'[b]]
         /\ \A b \in Cmd : CmdInv(cmd[b])'
<1>1. LockHeld'
  BY DEF NodeInv, LockHeld, KeepsLock
<1>2. NativeInv'
  BY DEF NodeInv, NativeInv, NativeSame, NativeFits, Native, NativeWhole, Changes, Ends
<1>3. UninstalledInv'
  BY DEF NodeInv, UninstalledInv, Uninstalled, Installed, Changes
<1>4. cmd' = [b \in Cmd |-> cmd'[b]]
  BY DEF NodeInv, Shape
<1>5. \A b \in Cmd : CmdInv(cmd'[b])
  BY DEF NodeInv
<1>6. \A b \in Cmd : CmdInv(cmd[b])'
  BY <1>5 DEF CmdInv, CmdType, KindFits, Progress, Source, Changes, Ends, Native,
              NativeWhole, Targets, TargetsOf, Agree, Installed
<1>7. QED
  BY <1>1, <1>2, <1>3, <1>4, <1>6

LEMMA WorkOf ==
  ASSUME Shape, NEW k \in Ctl, NEW w, ctl' = [ctl EXCEPT ![k] = w]
  PROVE  /\ ctl' = [j \in Ctl |-> ctl'[j]]
         /\ ctl'[k] = w /\ \A j \in Ctl \ {k} : ctl'[j] = ctl[j]
<1>1. ctl = [j \in Ctl |-> ctl[j]]
  BY DEF Shape
<1>2. QED
  BY <1>1

LEMMA ToldOf ==
  ASSUME Shape, NEW k \in Ctl, NEW r,
         told' = [told EXCEPT ![k] = r] \/ told' = told
  PROVE  told' = [j \in Ctl |-> told'[j]]
<1>1. told = [j \in Ctl |-> told[j]]
  BY DEF Shape
<1>2. QED
  BY <1>1

(* A controller's step, whatever the node does at the same time.           *)
LEMMA WorkStep ==
  ASSUME NodeInv, NEW k \in Ctl, NEW w, ctl' = [ctl EXCEPT ![k] = w],
         NodeType', LockHeld', NativeInv', UninstalledInv',
         cmd' = [b \in Cmd |-> cmd'[b]], \A b \in Cmd : CmdInv(cmd[b])',
         Native(disk) => Native(disk'),
         told' = [j \in Ctl |-> told'[j]], reg' \subseteq Run,
         CtlInv(ctl[k])',
         \A b \in Cmd : (cmd'[b].by = k) <=> (ctl'[k].pc = "await" /\ ctl'[k].c = b),
         \A b \in Cmd, j \in Ctl \ {k} : (cmd'[b].by = j) <=> (cmd[b].by = j),
         \A b \in Cmd : cmd[b].by \in Ctl \ {k} /\ cmd[b].kind = "backup"
                          => cmd'[b].kind = "backup"
  PROVE  NodeInv'
<1>1. /\ ctl' = [j \in Ctl |-> ctl'[j]]
      /\ ctl'[k] = w /\ \A j \in Ctl \ {k} : ctl'[j] = ctl[j]
  BY WorkOf DEF NodeInv
<1>2. Shape'
  BY <1>1 DEF Shape
<1>3. AwaitInv'
  <2>1. ASSUME NEW b \in Cmd, NEW j \in Ctl
        PROVE  (cmd'[b].by = j) <=> (ctl'[j].pc = "await" /\ ctl'[j].c = b)
    <3>1. CASE j = k
      BY <3>1
    <3>2. CASE j # k
      BY <1>1, <3>2 DEF NodeInv, AwaitInv
    <3>3. QED
      BY <3>1, <3>2
  <2>2. QED
    BY <2>1 DEF AwaitInv
<1>4. ASSUME NEW j \in Ctl \ {k}
      PROVE  CtlInv(ctl[j])'
  <2>1. CtlInv(ctl[j]) /\ ctl'[j] = ctl[j]
    BY <1>1 DEF NodeInv
  <2>2. ASSUME ctl[j].pc = "await", cmd[ctl[j].c].kind = "backup"
        PROVE  cmd'[ctl[j].c].kind = "backup"
    <3>1. ctl[j].c \in Cmd
      BY <2>1, <2>2 DEF CtlInv, CtlType
    <3>2. cmd[ctl[j].c].by = j
      BY <2>2, <3>1 DEF NodeInv, AwaitInv
    <3>3. QED
      BY <2>2, <3>1, <3>2
  <2>3. CtlType(ctl[j])'
    BY <2>1 DEF CtlInv, CtlType
  <2>4. QED
    BY <2>1, <2>2, <2>3 DEF CtlInv, Native, NativeWhole
<1>5. \A j \in Ctl : CtlInv(ctl[j])'
  BY <1>4
<1>6. QED
  BY <1>2, <1>3, <1>5 DEF NodeInv

(* It goes on, or ends, and the node is as it was.                         *)
LEMMA OwnStep ==
  ASSUME NodeInv, NEW k \in Ctl, NEW w, NEW r, ctl' = [ctl EXCEPT ![k] = w],
         told' = [told EXCEPT ![k] = r] \/ told' = told,
         UNCHANGED <<disk, torn, svc, lock, cmd, arch, runs>>, faults' \in 0 .. MaxFaults,
         reg' \subseteq Run, CtlInv(w), w.pc # "await", ctl[k].pc # "await"
  PROVE  NodeInv'
<1>1. /\ disk' = disk /\ cmd' = cmd /\ lock' = lock
      /\ NodeType' /\ NativeSame
      /\ Installed(disk') => Installed(disk)
      /\ Native(disk) => Native(disk')
  BY DEF NodeInv, NodeType, NativeInv, NativeSame, Native, NativeWhole, Installed
<1>2. /\ LockHeld' /\ NativeInv' /\ UninstalledInv'
      /\ cmd' = [b \in Cmd |-> cmd'[b]]
      /\ \A b \in Cmd : CmdInv(cmd[b])'
  BY <1>1, CmdSame
<1>3. told' = [j \in Ctl |-> told'[j]]
  BY ToldOf DEF NodeInv
<1>4. ctl'[k] = w
  BY WorkOf DEF NodeInv
<1>5. CtlInv(ctl[k])'
  <2>1. CtlType(ctl[k])'
    BY <1>4 DEF CtlInv, CtlType
  <2>2. QED
    BY <1>4, <2>1 DEF CtlInv, Native, NativeWhole
<1>6. \A b \in Cmd : (cmd'[b].by = k) <=> (ctl'[k].pc = "await" /\ ctl'[k].c = b)
  BY <1>4 DEF NodeInv, AwaitInv
<1>7. QED
  BY <1>1, <1>2, <1>3, <1>5, <1>6, WorkStep

(* It starts a command and waits for it.                                   *)
LEMMA AwaitStep ==
  ASSUME NodeInv, NEW k \in Ctl, NEW c \in Cmd, NEW x, Moves(c, x), x.by = k,
         cmd[c] = Idle, ctl[k].pc # "await", ctl[k].op # None, Await(k, c),
         ctl[k].op = "upgrade" /\ ctl[k].ck = NoFiles => x.kind = "backup"
  PROVE  NodeInv'
<1> DEFINE w == [ctl[k] EXCEPT !.c = c, !.pc = "await"]
<1>1. /\ NodeType' /\ LockHeld' /\ NativeInv' /\ UninstalledInv'
      /\ cmd' = [b \in Cmd |-> cmd'[b]]
      /\ \A b \in Cmd : CmdInv(cmd[b])'
      /\ Native(disk') <=> Native(disk)
      /\ cmd'[c] = x /\ \A b \in Cmd \ {c} : cmd'[b] = cmd[b]
  BY MovesSound
<1>2. ctl' = [ctl EXCEPT ![k] = w] /\ told' = told /\ reg' = reg
  BY DEF Await
<1>3. CtlInv(ctl[k]) /\ ctl[k] \in Works
  BY DEF NodeInv, CtlInv, CtlType
<1>4. /\ w \in Works /\ w.pc = "await" /\ w.c = c /\ w.op = ctl[k].op
      /\ w.ck = ctl[k].ck /\ w.seen = ctl[k].seen
  BY <1>3 DEF Works
<1> HIDE DEF w
<1>5. ctl'[k] = w
  BY <1>2, WorkOf DEF NodeInv
<1>6. CtlInv(ctl[k])'
  <2>1. CtlType(ctl[k])'
    BY <1>3, <1>4, <1>5 DEF CtlType, Upgrading, Provisioning
  <2>2. w.op = "upgrade" => Native(disk')
    BY <1>1, <1>3, <1>4 DEF CtlInv
  <2>3. w.ck # NoFiles => NativeWhole(w.ck)
    BY <1>3, <1>4 DEF CtlInv
  <2>4. w.op = "upgrade" /\ w.ck = NoFiles => cmd'[w.c].kind = "backup"
    BY <1>1, <1>4
  <2>5. QED
    BY <1>4, <1>5, <2>1, <2>2, <2>3, <2>4 DEF CtlInv, Native, NativeWhole
<1>7. cmd[c].by = None /\ k # None /\ \A j \in Ctl : j # None
  BY IdleFields, Constants
<1>8. \A b \in Cmd : (cmd'[b].by = k) <=> (ctl'[k].pc = "await" /\ ctl'[k].c = b)
  <2>1. \A b \in Cmd \ {c} : cmd'[b].by # k
    BY <1>1 DEF NodeInv, AwaitInv
  <2>2. cmd'[c].by = k
    BY <1>1
  <2>3. QED
    BY <1>4, <1>5, <2>1, <2>2
<1>9. \A b \in Cmd, j \in Ctl \ {k} : (cmd'[b].by = j) <=> (cmd[b].by = j)
  BY <1>1, <1>7
<1>10. \A b \in Cmd : cmd[b].by \in Ctl \ {k} /\ cmd[b].kind = "backup"
                       => cmd'[b].kind = "backup"
  BY <1>1, <1>7
<1>11. told' = [j \in Ctl |-> told'[j]] /\ reg' \subseteq Run
  BY <1>2 DEF NodeInv, Shape
<1>12. QED
  BY <1>1, <1>2, <1>6, <1>8, <1>9, <1>10, <1>11, WorkStep

(* It waits no longer.                                                     *)
LEMMA EndWaitStep ==
  ASSUME NodeInv, NEW k \in Ctl, NEW c \in Cmd, NEW x, Moves(c, x), x.by = None,
         disk' = disk, ctl[k].pc = "await", ctl[k].c = c,
         NEW w, NEW r, ctl' = [ctl EXCEPT ![k] = w],
         told' = [told EXCEPT ![k] = r] \/ told' = told, reg' = reg,
         CtlInv(w), w.pc # "await"
  PROVE  NodeInv'
<1>1. /\ NodeType' /\ LockHeld' /\ NativeInv' /\ UninstalledInv'
      /\ cmd' = [b \in Cmd |-> cmd'[b]]
      /\ \A b \in Cmd : CmdInv(cmd[b])'
      /\ Native(disk') <=> Native(disk)
      /\ cmd'[c] = x /\ \A b \in Cmd \ {c} : cmd'[b] = cmd[b]
  BY MovesSound
<1>2. told' = [j \in Ctl |-> told'[j]] /\ reg' \subseteq Run
  BY ToldOf DEF NodeInv, Shape
<1>3. ctl'[k] = w
  BY WorkOf DEF NodeInv
<1>4. CtlInv(ctl[k])'
  <2>1. CtlType(ctl[k])'
    BY <1>3 DEF CtlInv, CtlType
  <2>2. QED
    BY <1>1, <1>3, <2>1 DEF CtlInv, Native, NativeWhole
<1>5. cmd[c].by = k /\ \A j \in Ctl : j # None
  BY Constants DEF NodeInv, AwaitInv
<1>6. \A b \in Cmd : (cmd'[b].by = k) <=> (ctl'[k].pc = "await" /\ ctl'[k].c = b)
  <2>1. \A b \in Cmd \ {c} : cmd'[b].by # k
    BY <1>1 DEF NodeInv, AwaitInv
  <2>2. cmd'[c].by # k
    BY <1>1, <1>5
  <2>3. QED
    BY <1>3, <2>1, <2>2
<1>7. \A b \in Cmd, j \in Ctl \ {k} : (cmd'[b].by = j) <=> (cmd[b].by = j)
  BY <1>1, <1>5
<1>8. \A b \in Cmd : cmd[b].by \in Ctl \ {k} /\ cmd[b].kind = "backup"
                      => cmd'[b].kind = "backup"
  BY <1>1, <1>5
<1>9. QED
  BY <1>1, <1>2, <1>4, <1>6, <1>7, <1>8, WorkStep

LEMMA ChangeUsersStep ==
  ASSUME NodeInv, ChangeUsers, UNCHANGED controller
  PROVE  NodeInv'
<1> DEFINE key == disk["state"][3]
<1>1. /\ Installed(disk) /\ disk["state"] # Absent
      /\ disk' = [disk EXCEPT !["users"] = <<runs + 1>>,
                              !["config"] = <<key, runs + 1>>,
                              !["uri"] = <<key, runs + 1>>]
      /\ svc' = Restarted(svc, disk') /\ runs' = runs + 1 /\ runs < MaxRuns
      /\ lock' = lock /\ cmd' = cmd /\ arch' = arch /\ faults' = faults /\ torn' = torn
  BY DEF ChangeUsers, Agree
<1>2. runs + 1 \in Run \ {0, 1} /\ key \in Run
  <2>1. disk["state"] \in Run \X Run \X Run
    BY <1>1, NodeFacts, FilesOf
  <2>2. QED
    BY <1>1, <2>1, RunsNext
<1> HIDE DEF key
<1>3. /\ disk' = [f \in File |-> disk'[f]]
      /\ disk'["users"] = <<runs + 1>> /\ disk'["config"] = <<key, runs + 1>>
      /\ disk'["uri"] = <<key, runs + 1>>
      /\ \A f \in File \ {"users", "config", "uri"} : disk'[f] = disk[f]
  <2>1. disk = [f \in File |-> disk[f]]
    BY NodeFacts, FilesOf
  <2>2. QED
    BY <1>1, <2>1 DEF File
<1>4. disk' \in Disk
  <2>1. \A f \in File \ {"users", "config", "uri"} : disk'[f] \in Holds(f)
    BY <1>3, NodeFacts DEF Disk
  <2>2. disk'["users"] \in Holds("users") /\ disk'["config"] \in Holds("config")
        /\ disk'["uri"] \in Holds("uri")
    BY <1>2, <1>3 DEF Holds
  <2>3. \A f \in File : disk'[f] \in Holds(f)
    BY <2>1, <2>2
  <2>4. \A f \in File : Holds(f) \subseteq Content
    BY Constants DEF Holds, File, Content, Old, New
  <2>5. disk' \in [File -> Content]
    BY <1>3, <2>3, <2>4
  <2>6. QED
    BY <2>3, <2>5 DEF Disk
<1>5. svc' \in Services
  BY <1>1, <1>4, NodeFacts, RestartedType
<1>6. NodeType'
  BY <1>1, <1>2, <1>4, <1>5 DEF NodeInv, NodeType
<1>7. /\ disk'["state"] = disk["state"] /\ disk'["VERSION"] = disk["VERSION"]
      /\ disk'["prog"] = disk["prog"] /\ disk'["db"] = disk["db"]
  BY <1>3 DEF File
<1>8. Native(disk') <=> Native(disk)
  BY <1>7 DEF Native
<1>9. NativeWhole(disk) => NativeWhole(disk')
  BY <1>3, <1>7, <1>8, AbsentIsNot DEF NativeWhole, InstallFiles, Basics
<1>10. NativeSame
  BY <1>7, <1>8, <1>9, NodeFacts DEF NativeSame
<1>11. Installed(disk') => Installed(disk)
  BY <1>1
<1>12. /\ LockHeld' /\ NativeInv' /\ UninstalledInv'
       /\ cmd' = [b \in Cmd |-> cmd'[b]]
       /\ \A b \in Cmd : CmdInv(cmd[b])'
  BY <1>1, <1>6, <1>10, <1>11, CmdSame
<1>13. ctl' = ctl /\ reg' = reg /\ told' = told
  BY DEF controller
<1>14. Shape' /\ AwaitInv'
  BY <1>1, <1>12, <1>13 DEF NodeInv, Shape, AwaitInv
<1>15. ASSUME NEW k \in Ctl
       PROVE  CtlInv(ctl[k])'
  <2>1. CtlInv(ctl[k])
    BY DEF NodeInv
  <2>2. CtlType(ctl[k])'
    BY <1>13, <2>1 DEF CtlInv, CtlType
  <2>3. QED
    BY <1>1, <1>8, <1>13, <2>1, <2>2 DEF CtlInv, Native, NativeWhole
<1>16. QED
  BY <1>6, <1>12, <1>14, <1>15 DEF NodeInv

LEMMA NoWorkFields ==
  /\ NoWork \in Works /\ NoWork.op = None /\ NoWork.pc = "idle" /\ NoWork.ck = NoFiles
  /\ NoWork.seen = Absent /\ NoWork.c = None
  BY NoFilesDisk DEF NoWork, Works

LEMMA NoWorkInv == CtlInv(NoWork)
  BY NoWorkFields DEF CtlInv, CtlType, None, Upgrading, Provisioning

LEMMA NewHostStep ==
  ASSUME NodeInv, NewHost, \A k \in Ctl : ctl[k] = NoWork, UNCHANGED controller
  PROVE  NodeInv'
<1>1. /\ \A c \in Cmd : cmd[c] = Idle
      /\ disk' = NoFiles /\ torn' = {} /\ svc' = Stopped /\ lock' = lock /\ cmd' = cmd
      /\ arch' = arch /\ runs' = runs /\ faults' = faults
  BY DEF NewHost
<1>2. ctl' = ctl /\ reg' = reg /\ told' = told
  BY DEF controller
<1>3. NodeType'
  BY <1>1, NoFilesDisk, StoppedType DEF NodeInv, NodeType
<1>4. Shape' /\ AwaitInv' /\ LockHeld'
  BY <1>1, <1>2 DEF NodeInv, Shape, AwaitInv, LockHeld, KeepsLock
<1>5. /\ disk'["state"] = Absent /\ disk'["VERSION"] = Absent /\ disk'["prog"] = Absent
  BY <1>1, NoFilesDisk DEF File
<1>6. ~Native(disk') /\ ~Installed(disk')
  BY <1>5, AbsentIsNot DEF Native, First, Installed
<1>7. \A c \in Cmd : cmd'[c] = Idle /\ Ends(Idle) /\ ~Changes(Idle)
  BY <1>1, IdleFields DEF Ends, Final, Changes, Writing
<1>8. NativeInv'
  <2>1. \A c \in Cmd : NativeFits(cmd[c])'
    BY <1>7 DEF NativeFits
  <2>2. QED
    BY <1>5, <1>6, <2>1, AbsentIsNot DEF NativeInv
<1>9. UninstalledInv'
  BY <1>6 DEF UninstalledInv
<1>10. \A c \in Cmd : CmdInv(cmd[c])'
  <2>1. CmdInv(Idle)
    BY IdleInv
  <2>2. QED
    BY <1>7, IdleInv DEF CmdInv, CmdType, KindFits, Progress, Source, Changes, Ends
<1>11. \A k \in Ctl : CtlInv(ctl[k])'
  <2>1. \A k \in Ctl : ctl'[k] = NoWork
    BY <1>2
  <2>2. QED
    BY <2>1, NoWorkFields DEF CtlInv, CtlType, None, Upgrading, Provisioning
<1>12. QED
  BY <1>3, <1>4, <1>8, <1>9, <1>10, <1>11 DEF NodeInv

LEMMA WorkFacts ==
  ASSUME NodeInv, NEW k \in Ctl
  PROVE  /\ CtlInv(ctl[k]) /\ CtlType(ctl[k]) /\ ctl[k] \in Works
         /\ ctl[k].seen \in {Absent} \cup (Run \X Run) /\ ctl[k].ck \in Disk
         /\ ctl[k].op = None => ctl[k].pc = "idle"
         /\ ctl[k].op = "upgrade" => Native(disk)
         /\ faults \in 0 .. MaxFaults /\ reg \subseteq Run
  BY NoWorkFields, NodeFacts, Zenon DEF NodeInv, CtlInv, CtlType, Works, Shape

(* The node is as it was, but for an answer that may be lost.              *)
Aside == /\ UNCHANGED <<disk, torn, svc, lock, cmd, arch, runs>>
         /\ faults' \in 0 .. MaxFaults

LEMMA AsideOf ==
  ASSUME NodeInv
  PROVE  /\ UNCHANGED node => Aside
         /\ Fault /\ UNCHANGED SameNode => Aside
<1>1. faults \in 0 .. MaxFaults
  BY NodeFacts
<1>2. UNCHANGED node => Aside
  BY <1>1 DEF node, Aside
<1>3. ASSUME Fault, UNCHANGED SameNode
      PROVE  Aside
  BY <1>3, FaultType DEF Fault, SameNode, Aside
<1>4. QED
  BY <1>2, <1>3

LEMMA ReportStep ==
  ASSUME NodeInv, NEW k \in Ctl, NEW r, Report(k, r), Aside, reg' \subseteq Run,
         ctl[k].pc # "await"
  PROVE  NodeInv'
<1>1. ctl' = [ctl EXCEPT ![k] = NoWork] /\ told' = [told EXCEPT ![k] = r]
  BY DEF Report
<1>2. CtlInv(NoWork) /\ NoWork.pc # "await"
  BY NoWorkInv, NoWorkFields
<1>3. QED
  BY <1>1, <1>2, OwnStep DEF Aside

(* What a controller may go on to do.                                      *)
MayGo(w, p) ==
  /\ w.op # None
  /\ p \in Upgrading \cup {"verify", "identity"} \cup Provisioning \cup {"stage", "install"}
  /\ p \in Upgrading => w.op = "upgrade"
  /\ p \in Provisioning => w.op = "provision"
  /\ p = "register" => w.seen # Absent
  /\ w.op = "upgrade" /\ p \in {"install", "verify", "identity", "undo"}
       => w.ck # NoFiles

LEMMA GoneInv ==
  ASSUME NEW w, CtlInv(w), NEW p, MayGo(w, p)
  PROVE  CtlInv([w EXCEPT !.pc = p]) /\ [w EXCEPT !.pc = p].pc # "await"
<1> DEFINE v == [w EXCEPT !.pc = p]
<1>1. w \in Works
  BY DEF CtlInv, CtlType
<1>2. p \notin {"await", "idle"}
  BY DEF MayGo, Upgrading, Provisioning
<1>3. /\ v \in Works /\ v.pc = p /\ v.op = w.op /\ v.c = w.c /\ v.seen = w.seen
      /\ v.ck = w.ck
  BY <1>1 DEF Works, MayGo
<1> HIDE DEF v
<1>4. CtlType(v)
  BY <1>2, <1>3 DEF CtlType, MayGo
<1>5. CtlInv(v)
  BY <1>2, <1>3, <1>4 DEF CtlInv, MayGo
<1>6. QED
  BY <1>2, <1>3, <1>5 DEF v

LEMMA GoStep ==
  ASSUME NodeInv, NEW k \in Ctl, NEW p, Step(k, p), MayGo(ctl[k], p), Aside,
         reg' \subseteq Run, ctl[k].pc # "await"
  PROVE  NodeInv'
<1> DEFINE w == [ctl[k] EXCEPT !.pc = p]
<1>1. ctl' = [ctl EXCEPT ![k] = w] /\ told' = told
  BY DEF Step
<1>2. CtlInv(w) /\ w.pc # "await"
  BY WorkFacts, GoneInv
<1> HIDE DEF w
<1>3. QED
  BY <1>1, <1>2, OwnStep DEF Aside

LEMMA IdentityType ==
  ASSUME NEW d \in Disk, d["state"] # Absent
  PROVE  Identity(d) \in Run \X Run
<1>1. d["state"] \in Run \X Run \X Run
  BY FilesOf
<1>2. QED
  BY <1>1 DEF Identity

LEMMA PlanUpgradeStep ==
  ASSUME NodeInv, NEW k \in Ctl, PlanUpgrade(k)
  PROVE  NodeInv'
<1>1. /\ ctl[k] = NoWork /\ Answers(disk) /\ UNCHANGED <<node, reg>>
      /\ ctl[k].pc # "await"
  BY NoWorkFields DEF PlanUpgrade
<1>2. Aside /\ reg' \subseteq Run
  BY <1>1, AsideOf, WorkFacts
<1>3. ASSUME NEW r, Report(k, r)
      PROVE  NodeInv'
  BY <1>1, <1>2, <1>3, ReportStep
<1> DEFINE w == [NoWork EXCEPT !.op = "upgrade", !.pc = "backup", !.seen = Identity(disk)]
<1>4. CASE disk["prog"] # <<New>> /\ Start(k, w)
  <2>1. Native(disk) /\ disk["state"] # Absent
    BY <1>1, <1>4, NodeFacts, FilesOf DEF Answers
  <2>2. Identity(disk) \in Run \X Run
    BY <2>1, NodeFacts, IdentityType
  <2>3. /\ w \in Works /\ w.op = "upgrade" /\ w.pc = "backup" /\ w.ck = NoFiles
    BY <2>2, NoWorkFields DEF Works, Upgrading
  <2>4. ctl' = [ctl EXCEPT ![k] = w] /\ told' = [told EXCEPT ![k] = None]
    BY <1>4 DEF Start
  <2> HIDE DEF w
  <2>5. CtlInv(w)
    BY <2>1, <2>3 DEF CtlInv, CtlType, Upgrading, Provisioning, None
  <2>6. QED
    BY <1>1, <1>2, <2>3, <2>4, <2>5, OwnStep DEF Aside
<1>5. QED
  BY <1>3, <1>4 DEF PlanUpgrade

LEMMA BackupStep ==
  ASSUME NodeInv, NEW k \in Ctl, NEW c \in Cmd, Backup(k, c)
  PROVE  NodeInv'
<1> DEFINE x == [Idle EXCEPT !.kind = "backup", !.pc = "state", !.by = k]
<1>1. Moves(c, x) /\ x.by = k /\ x.kind = "backup" /\ cmd[c] = Idle
  BY RunBackupMoves, Zenon DEF Backup
<1> HIDE DEF x
<1>2. ctl[k].pc # "await" /\ ctl[k].op # None /\ Await(k, c)
  BY WorkFacts DEF Backup
<1>3. QED
  BY <1>1, <1>2, AwaitStep

LEMMA StageStep ==
  ASSUME NodeInv, NEW k \in Ctl, Stage(k)
  PROVE  NodeInv'
<1>1. ctl[k].pc = "stage" /\ ctl[k].op # None /\ reg' \subseteq Run /\ Aside
  BY WorkFacts, AsideOf DEF Stage
<1>2. CASE Report(k, "died")
  BY <1>1, <1>2, ReportStep
<1>3. CASE Step(k, IF ctl[k].op = "upgrade" THEN "checkpoint" ELSE "install")
  <2>1. ctl[k].op \in {None, "upgrade", "provision"}
    BY WorkFacts DEF Works
  <2>2. CASE ctl[k].op = "upgrade"
    <3>1. MayGo(ctl[k], "checkpoint") /\ Step(k, "checkpoint")
      BY <1>1, <1>3, <2>2 DEF MayGo, Upgrading, Provisioning
    <3>2. QED
      BY <1>1, <3>1, GoStep
  <2>3. CASE ctl[k].op = "provision"
    <3>1. MayGo(ctl[k], "install") /\ Step(k, "install")
      BY <1>1, <1>3, <2>3 DEF MayGo, Upgrading, Provisioning
    <3>2. QED
      BY <1>1, <3>1, GoStep
  <2>4. QED
    BY <1>1, <2>1, <2>2, <2>3
<1>4. QED
  BY <1>2, <1>3 DEF Stage

LEMMA CheckpointStep ==
  ASSUME NodeInv, NEW k \in Ctl, Checkpoint(k)
  PROVE  NodeInv'
<1>1. /\ ctl[k].pc = "checkpoint" /\ ctl[k].op = "upgrade" /\ reg' \subseteq Run /\ Aside
  BY WorkFacts, NodeFacts DEF Checkpoint, CtlType, Upgrading, Aside
<1>2. CASE Report(k, "died")
  BY <1>1, <1>2, ReportStep
<1>3. CASE /\ ctl' = [ctl EXCEPT ![k].pc = "install", ![k].ck = disk]
           /\ told' = told
  <2> DEFINE w == [ctl[k] EXCEPT !.pc = "install", !.ck = disk]
  <2>1. ctl[k] \in Works /\ disk \in Disk /\ Native(disk) /\ NativeWhole(disk)
    BY <1>1, WorkFacts, NodeFacts
  <2>2. w \in Works /\ w.op = "upgrade" /\ w.pc = "install" /\ w.ck = disk
    BY <1>1, <2>1 DEF Works
  <2>3. ctl' = [ctl EXCEPT ![k] = w]
    BY <1>3
  <2> HIDE DEF w
  <2>4. disk # NoFiles
    BY <2>1, NoFilesDisk, AbsentIsNot DEF Native, First, File
  <2>5. CtlInv(w)
    BY <2>1, <2>2, <2>4 DEF CtlInv, CtlType, Upgrading, Provisioning, None
  <2>6. QED
    BY <1>1, <1>3, <2>2, <2>3, <2>5, OwnStep DEF Aside
<1>4. QED
  BY <1>2, <1>3 DEF Checkpoint

LEMMA InstallStep ==
  ASSUME NodeInv, NEW k \in Ctl, NEW c \in Cmd, NEW op, Install(k, c, op)
  PROVE  NodeInv'
<1> DEFINE x == Command("installer", "main", k, NoFiles)
<1>1. ctl[k].pc = "install" /\ RunInstaller(c, "installer", k) /\ Await(k, c)
  BY DEF Install
<1>2. Moves(c, x) /\ x.by = k /\ cmd[c] = Idle
  BY <1>1, RunInstallerMoves
<1> HIDE DEF x
<1>3. /\ ctl[k].op # None
      /\ ~(ctl[k].op = "upgrade" /\ ctl[k].ck = NoFiles)
  BY <1>1, WorkFacts DEF CtlInv
<1>4. QED
  BY <1>1, <1>2, <1>3, AwaitStep

LEMMA UndoStep ==
  ASSUME NodeInv, NEW k \in Ctl, NEW c \in Cmd, Undo(k, c)
  PROVE  NodeInv'
<1> DEFINE x == Command("undo", "lock", k, ctl[k].ck)
<1>1. /\ ctl[k].pc = "undo" /\ Await(k, c)
      /\ cmd[c] = Idle /\ runs < MaxRuns /\ runs' = runs + 1
      /\ cmd' = [cmd EXCEPT ![c] = x]
      /\ UNCHANGED <<disk, torn, svc, lock, arch, faults, scars>>
  BY DEF Undo, RunUndo, Begin
<1>2. /\ ctl[k].op = "upgrade" /\ Native(disk) /\ NativeWhole(ctl[k].ck)
      /\ ctl[k].ck \in Disk /\ ctl[k].ck # NoFiles
  BY <1>1, WorkFacts DEF CtlInv, CtlType, Upgrading
<1>3. runs + 1 \in Run \ {0, 1}
  BY <1>1, RunsNext
<1>4. PICK new \in Disk : new = ctl[k].ck
  BY <1>2
<1>5. /\ x \in Commands /\ x.kind = "undo" /\ x.pc = "lock" /\ x.by = k
      /\ x.id = runs + 1 /\ x.wrote = {} /\ x.new = new /\ x.saved = NoFiles
  <2>1. PICK kind \in Installer \cup {"installer", "restore", "undo"},
             p \in {"main", "lock"}, by \in Ctl \cup {None} :
               kind = "undo" /\ p = "lock" /\ by = k
    OBVIOUS
  <2>2. x = Command(kind, p, by, new)
    BY <1>4, <2>1
  <2> HIDE DEF x
  <2>3. runs + 1 \in Run
    BY <1>3
  <2>4. LET y == Command(kind, p, by, new)
        IN /\ y \in Commands /\ y.kind = kind /\ y.pc = p /\ y.by = by
           /\ y.id = runs + 1 /\ y.new = new /\ y.wrote = {}
           /\ y.saved = NoFiles
    BY <2>3, CommandNew
  <2>5. QED
    BY <2>1, <2>2, <2>4
<1> HIDE DEF x
<1>6. x.pc \in Early /\ ~Changes(x) /\ ~Ends(x)
  BY <1>5, EarlyFacts DEF Early
<1>7. CmdType(x)
  BY <1>3, <1>5, <1>6 DEF CmdType, KindFits, Writing, Installer
<1>8. CmdInv(x)
  BY <1>2, <1>4, <1>5, <1>6, <1>7 DEF CmdInv, Progress, Source, Writing
<1>9. NativeFits(x)
  BY <1>2, <1>5, <1>6 DEF NativeFits
<1>10. NodeType'
  BY <1>1, <1>3 DEF NodeInv, NodeType
<1>11. Moves(c, x)
  BY <1>1, <1>6, <1>8, <1>9, <1>10, BegunMoves
<1>12. ctl[k].op # None
  BY <1>2 DEF None
<1>13. QED
  BY <1>1, <1>2, <1>5, <1>11, <1>12, AwaitStep

LEMMA NoUndoStep ==
  ASSUME NodeInv, NEW k \in Ctl, NoUndo(k)
  PROVE  NodeInv'
<1>1. Aside /\ reg' \subseteq Run
  BY AsideOf, WorkFacts DEF NoUndo
<1>2. QED
  BY <1>1, ReportStep DEF NoUndo

LEMMA ResultStep ==
  ASSUME NodeInv, NEW k \in Ctl, Result(k)
  PROVE  NodeInv'
<1>1. PICK c \in Cmd : c = ctl[k].c
  BY WorkFacts DEF Result, CtlType
<1>2. /\ ctl[k].pc = "await" /\ cmd[c].pc \in {"done", "failed"}
      /\ cmd' = [cmd EXCEPT ![c] = Idle]
      /\ UNCHANGED <<disk, torn, svc, lock, arch, runs, faults, scars, reg>>
  BY <1>1 DEF Result
<1>3. Moves(c, Idle) /\ Idle.by = None
  <2>1. NodeType' /\ NativeSame /\ InstalledBy(c)
    BY <1>2, SameDisk DEF NodeInv, NodeType
  <2>2. ~KeepsLock(cmd[c])
    BY <1>2, EndedFits DEF Ends, Final
  <2>3. NativeFits(Idle) /\ ~Uninstalled(Idle) /\ ~KeepsLock(Idle)
    BY IdleFields, EndedFits DEF Ends, Final
  <2>4. QED
    BY <1>2, <2>1, <2>2, <2>3, IdleInv, IdleFields DEF Moves, LockMoves
<1>4. /\ ctl[k].op # None
      /\ ctl[k].op = "upgrade" /\ cmd[c].kind # "backup" => ctl[k].ck # NoFiles
      /\ CtlInv(ctl[k])
  BY <1>1, <1>2, WorkFacts DEF CtlInv
<1>5. ASSUME NEW r, Report(k, r)
      PROVE  NodeInv'
  <2>1. ctl' = [ctl EXCEPT ![k] = NoWork] /\ told' = [told EXCEPT ![k] = r]
    BY <1>5 DEF Report
  <2>2. CtlInv(NoWork) /\ NoWork.pc # "await"
    BY NoWorkInv, NoWorkFields
  <2>3. QED
    BY <1>1, <1>2, <1>3, <2>1, <2>2, EndWaitStep
<1>6. ASSUME NEW p, Step(k, p), MayGo(ctl[k], p)
      PROVE  NodeInv'
  <2> DEFINE w == [ctl[k] EXCEPT !.pc = p]
  <2>1. ctl' = [ctl EXCEPT ![k] = w] /\ told' = told
    BY <1>6 DEF Step
  <2>2. CtlInv(w) /\ w.pc # "await"
    BY <1>4, <1>6, GoneInv
  <2> HIDE DEF w
  <2>3. QED
    BY <1>1, <1>2, <1>3, <2>1, <2>2, EndWaitStep
<1>7. MayGo(ctl[k], "stage")
  BY <1>4 DEF MayGo, Upgrading, Provisioning
<1>8. cmd[c].kind # "backup" => MayGo(ctl[k], "verify")
  BY <1>4 DEF MayGo, Upgrading, Provisioning
<1>9. QED
  BY <1>1, <1>5, <1>6, <1>7, <1>8 DEF Result

LEMMA LoseStep ==
  ASSUME NodeInv, NEW k \in Ctl, Lose(k)
  PROVE  NodeInv'
<1>1. PICK c \in Cmd : c = ctl[k].c
  BY WorkFacts DEF Lose, CtlType
<1> DEFINE x == IF cmd[c].pc \in {"done", "failed"} THEN Idle
                ELSE [cmd[c] EXCEPT !.by = None]
<1>2. /\ ctl[k].pc = "await" /\ Fault
      /\ cmd' = [cmd EXCEPT ![c] = x]
      /\ UNCHANGED <<disk, torn, svc, lock, arch, runs, scars, reg>>
      /\ \E r : Report(k, r)
  BY <1>1 DEF Lose
<1>3. NodeType' /\ NativeSame /\ InstalledBy(c)
  <2>1. faults' \in 0 .. MaxFaults
    BY <1>2, FaultType DEF Fault
  <2>2. QED
    BY <1>2, <2>1, SameDisk DEF NodeInv, NodeType
<1>4. Moves(c, x) /\ x.by = None
  <2>1. CASE cmd[c].pc \in {"done", "failed"}
    <3>1. x = Idle
      BY <2>1
    <3> HIDE DEF x
    <3>2. ~KeepsLock(cmd[c])
      BY <2>1, EndedFits DEF Ends, Final
    <3>3. NativeFits(Idle) /\ ~Uninstalled(Idle) /\ ~KeepsLock(Idle)
      BY IdleFields, EndedFits DEF Ends, Final
    <3>4. QED
      BY <1>2, <1>3, <3>1, <3>2, <3>3, IdleInv, IdleFields DEF Moves, LockMoves
  <2>2. CASE cmd[c].pc \notin {"done", "failed"}
    <3>1. /\ CmdInv(cmd[c]) /\ cmd[c] \in Commands /\ NativeFits(cmd[c])
          /\ Uninstalled(cmd[c]) => ~Installed(disk)
      BY CmdOf
    <3>2. cmd[c].by = k /\ k # None
      BY <1>1, <1>2, Constants DEF NodeInv, AwaitInv
    <3>3. cmd[c].pc # "idle" /\ ~Ends(cmd[c])
      BY <2>2, <3>1, <3>2, IdleFields DEF CmdInv, CmdType, Ends, Final
    <3>4. /\ x \in Commands /\ x.pc = cmd[c].pc /\ x.kind = cmd[c].kind /\ x.by = None
          /\ x.id = cmd[c].id /\ x.todo = cmd[c].todo /\ x.new = cmd[c].new
          /\ x.wrote = cmd[c].wrote /\ x.found = cmd[c].found
          /\ x.saved = cmd[c].saved
      BY <2>2, <3>1 DEF Commands
    <3> HIDE DEF x
    <3>5. CmdType(x)
      BY <3>1, <3>3, <3>4 DEF CmdInv, CmdType, KindFits, Ends
    <3>6. Progress(x)
      BY <3>1, <3>4 DEF CmdInv, Progress, Changes, Targets
    <3>7. Source(x)
      BY <3>1, <3>4 DEF CmdInv, Source, Changes, Ends
    <3>8. NativeFits(x)
      BY <3>1, <3>4 DEF NativeFits, Changes, Ends
    <3>9. Uninstalled(x) => ~Installed(disk')
      BY <1>2, <3>1, <3>4 DEF Uninstalled, Changes, Installed
    <3>10. LockMoves(c, x)
      BY <1>2, <3>4 DEF LockMoves, KeepsLock
    <3>11. QED
      BY <1>2, <1>3, <3>4, <3>5, <3>6, <3>7, <3>8, <3>9, <3>10 DEF Moves, CmdInv
  <2>3. QED
    BY <2>1, <2>2
<1> HIDE DEF x
<1>5. PICK r : Report(k, r)
  BY <1>2
<1>6. ctl' = [ctl EXCEPT ![k] = NoWork] /\ told' = [told EXCEPT ![k] = r]
  BY <1>5 DEF Report
<1>7. CtlInv(NoWork) /\ NoWork.pc # "await"
  BY NoWorkInv, NoWorkFields
<1>8. QED
  BY <1>1, <1>2, <1>4, <1>6, <1>7, EndWaitStep

LEMMA VerifyUpgradeStep ==
  ASSUME NodeInv, NEW k \in Ctl,
         VerifyUpgrade(k) \/ IdentifyUpgrade(k) \/ CheckFails(k)
  PROVE  NodeInv'
<1>1. /\ ctl[k].pc \in {"verify", "identity"} /\ ctl[k].op = "upgrade"
      /\ Aside /\ reg' \subseteq Run
  BY AsideOf, WorkFacts DEF VerifyUpgrade, IdentifyUpgrade, CheckFails
<1>2. ctl[k].ck # NoFiles
  BY <1>1, WorkFacts DEF CtlInv
<1>3. MayGo(ctl[k], "identity") /\ MayGo(ctl[k], "undo")
  BY <1>1, <1>2 DEF MayGo, Upgrading, Provisioning, None
<1>4. \/ Step(k, "identity") \/ Step(k, "undo") \/ Report(k, "SUCCESS")
  BY DEF VerifyUpgrade, IdentifyUpgrade, CheckFails
<1>5. QED
  BY <1>1, <1>3, <1>4, GoStep, ReportStep

(* The phases of a provisioning that change nothing the model has.         *)
LEMMA OnOrRefusedStep ==
  ASSUME NodeInv, NEW k \in Ctl, NEW p \in Provisioning \cup {"stage"}, p # "register",
         ctl[k].pc \in Provisioning, OnOrRefused(k, p)
  PROVE  NodeInv'
<1>1. ctl[k].op = "provision" /\ ctl[k].pc # "await" /\ Aside /\ reg' \subseteq Run
  BY AsideOf, WorkFacts DEF OnOrRefused, CtlType, Provisioning
<1>2. MayGo(ctl[k], p)
  BY <1>1 DEF MayGo, Upgrading, Provisioning, None
<1>3. Step(k, p) \/ Report(k, "REFUSED")
  BY DEF OnOrRefused
<1>4. QED
  BY <1>1, <1>2, <1>3, GoStep, ReportStep

LEMMA BeginProvisionStep ==
  ASSUME NodeInv, NEW k \in Ctl, BeginProvision(k)
  PROVE  NodeInv'
<1> DEFINE w == [NoWork EXCEPT !.op = "provision", !.pc = "payload"]
<1>1. /\ ctl[k].pc # "await" /\ Aside /\ reg' \subseteq Run
  BY NoWorkFields, AsideOf, WorkFacts DEF BeginProvision
<1>2. ctl' = [ctl EXCEPT ![k] = w] /\ told' = [told EXCEPT ![k] = None]
  BY DEF BeginProvision, Start
<1>3. w \in Works /\ w.op = "provision" /\ w.pc = "payload" /\ w.ck = NoFiles
  BY NoWorkFields DEF Works, Provisioning
<1> HIDE DEF w
<1>4. CtlInv(w)
  BY <1>3 DEF CtlInv, CtlType, Upgrading, Provisioning, None
<1>5. QED
  BY <1>1, <1>2, <1>3, <1>4, OwnStep DEF Aside

LEMMA PhaseStep ==
  ASSUME NodeInv, NEW k \in Ctl,
         Payload(k) \/ Preflight(k) \/ Bootstrap(k) \/ Reach(k) \/ Target(k)
  PROVE  NodeInv'
<1>1. ctl[k].pc \in Provisioning /\ ctl[k].pc # "await"
  BY DEF Payload, Preflight, Bootstrap, Reach, Target, Provisioning
<1>2. CASE \E p \in {"preflight", "bootstrap", "reach", "target", "stage"} :
             OnOrRefused(k, p)
  BY <1>1, <1>2, OnOrRefusedStep DEF Provisioning
<1>3. CASE Report(k, "REFUSED") /\ UNCHANGED <<node, reg>>
  <2>1. Aside /\ reg' \subseteq Run
    BY <1>3, AsideOf, WorkFacts
  <2>2. QED
    BY <1>1, <1>3, <2>1, ReportStep
<1>4. QED
  BY <1>2, <1>3 DEF Payload, Preflight, Bootstrap, Reach, Target

LEMMA VerifyProvisionStep ==
  ASSUME NodeInv, NEW k \in Ctl, VerifyProvision(k)
  PROVE  NodeInv'
<1>1. /\ ctl[k].pc # "await" /\ ctl[k].op = "provision" /\ Aside /\ reg' \subseteq Run
  BY AsideOf, WorkFacts DEF VerifyProvision
<1>2. MayGo(ctl[k], "identity")
  BY <1>1 DEF MayGo, Upgrading, Provisioning, None
<1>3. Step(k, "identity") \/ Report(k, "died")
  BY DEF VerifyProvision
<1>4. QED
  BY <1>1, <1>2, <1>3, GoStep, ReportStep

LEMMA IdentifyProvisionStep ==
  ASSUME NodeInv, NEW k \in Ctl, IdentifyProvision(k)
  PROVE  NodeInv'
<1>1. /\ ctl[k].pc # "await" /\ ctl[k].op = "provision" /\ Aside /\ reg' \subseteq Run
  BY AsideOf, WorkFacts DEF IdentifyProvision
<1>2. CASE Report(k, "died")
  BY <1>1, <1>2, ReportStep
<1>3. CASE /\ Answers(disk)
           /\ ctl' = [ctl EXCEPT ![k].pc = "register", ![k].seen = Identity(disk)]
           /\ told' = told
  <2> DEFINE w == [ctl[k] EXCEPT !.pc = "register", !.seen = Identity(disk)]
  <2>1. Identity(disk) \in Run \X Run
    BY <1>3, NodeFacts, IdentityType DEF Answers
  <2>2. /\ w \in Works /\ w.op = "provision" /\ w.pc = "register"
        /\ w.seen = Identity(disk) /\ w.ck = ctl[k].ck
    BY <1>1, <2>1, WorkFacts DEF Works, Provisioning
  <2>3. ctl' = [ctl EXCEPT ![k] = w]
    BY <1>3
  <2> HIDE DEF w
  <2>4. w.seen # Absent
    BY <2>1, <2>2, AbsentIsNot
  <2>5. CtlInv(w)
    BY <2>2, <2>4, WorkFacts DEF CtlInv, CtlType, Upgrading, Provisioning, None
  <2>6. QED
    BY <1>1, <1>3, <2>2, <2>3, <2>5, OwnStep DEF Aside
<1>4. QED
  BY <1>2, <1>3 DEF IdentifyProvision

LEMMA RegisterStep ==
  ASSUME NodeInv, NEW k \in Ctl, Register(k)
  PROVE  NodeInv'
<1>1. /\ ctl[k].pc = "register" /\ ctl[k].pc # "await" /\ ctl[k].op = "provision"
      /\ ctl[k].seen \in Run \X Run /\ reg \subseteq Run
  BY WorkFacts DEF Register, CtlType, Provisioning
<1>2. ctl[k].seen[1] \in Run
  BY <1>1
<1>3. reg' \subseteq Run /\ Aside
  <2>1. UNCHANGED node \/ (Fault /\ UNCHANGED SameNode)
    BY DEF Register
  <2>2. reg' = reg \cup {ctl[k].seen[1]} \/ reg' = reg
    BY DEF Register
  <2>3. QED
    BY <1>1, <1>2, <2>1, <2>2, AsideOf
<1>4. MayGo(ctl[k], "sync")
  BY <1>1 DEF MayGo, Upgrading, Provisioning, None
<1>5. Step(k, "sync") \/ Report(k, "REMOTE_READY_LOCAL_UNCOMMITTED")
  BY DEF Register
<1>6. QED
  BY <1>1, <1>3, <1>4, <1>5, GoStep, ReportStep

LEMMA SyncProvisionedStep ==
  ASSUME NodeInv, NEW k \in Ctl, SyncProvisioned(k)
  PROVE  NodeInv'
<1>1. ctl[k].pc # "await" /\ reg' \subseteq Run /\ Aside
  BY AsideOf, WorkFacts DEF SyncProvisioned
<1>2. Report(k, "SUCCESS") \/ Report(k, "PARTIAL")
  BY DEF SyncProvisioned
<1>3. QED
  BY <1>1, <1>2, ReportStep

LEMMA AdoptStep ==
  ASSUME NodeInv, NEW k \in Ctl, Adopt(k)
  PROVE  NodeInv'
<1>1. /\ ctl[k] = NoWork /\ disk["state"] # Absent
      /\ reg' = reg \cup {disk["state"][1]} /\ UNCHANGED <<node, ctl, told>>
  BY DEF Adopt, Answers
<1>2. disk["state"] \in Run \X Run \X Run /\ reg \subseteq Run
  BY <1>1, NodeFacts, FilesOf, WorkFacts
<1>3. disk["state"][1] \in Run
  BY <1>2
<1>4. Aside /\ reg' \subseteq Run
  BY <1>1, <1>2, <1>3, AsideOf
<1>5. ctl' = [ctl EXCEPT ![k] = NoWork]
  BY <1>1 DEF NodeInv, Shape
<1>6. QED
  BY <1>1, <1>4, <1>5, NoWorkInv, NoWorkFields, OwnStep DEF Aside

-----------------------------------------------------------------------------
(***************************************************************************)
(* Every step of the specification.                                        *)
(***************************************************************************)
LEMMA InitInv == Init => NodeInv
<1> SUFFICES ASSUME Init
             PROVE  NodeInv
  OBVIOUS
<1>1. /\ torn = {} /\ lock = None /\ cmd = [c \in Cmd |-> Idle] /\ arch = {}
      /\ runs = 1 /\ faults = MaxFaults /\ ctl = [k \in Ctl |-> NoWork] /\ reg = {}
      /\ told = [k \in Ctl |-> None]
  BY DEF Init, NodeInit
<1> DEFINE old == Rendered(1, 1, 1, 1, Old)
<1>2. \/ disk = NoFiles /\ svc = Stopped
      \/ disk = Runtime /\ svc = Stopped
      \/ disk = old /\ svc = EnableNow(Stopped, old, Both)
  BY DEF Init, NodeInit
<1>3. /\ old \in Disk /\ old["state"] = <<1, 1, 1>> /\ old["users"] = <<1>>
      /\ old["config"] = <<1, 1>> /\ old["uri"] = <<1, 1>> /\ old["db"] = <<1>>
      /\ old["VERSION"] = <<Old>> /\ old["prog"] = <<Old>>
  BY Constants, RenderedDisk, SMTT(30)
<1> HIDE DEF old
<1>4. disk \in Disk /\ svc \in Services
  BY <1>2, <1>3, NoFilesDisk, RuntimeDisk, StoppedType, EnableNowType, BothIs
<1>5. NodeType
  BY <1>1, <1>4, Constants DEF NodeType
<1>6. \A c \in Cmd : cmd[c] = Idle
  BY <1>1, Zenon
<1>7. \A k \in Ctl : ctl[k] = NoWork
  BY <1>1
<1>8. Shape
  BY <1>1 DEF Shape
<1>9. Ends(Idle) /\ ~KeepsLock(Idle) /\ NativeFits(Idle) /\ ~Uninstalled(Idle)
  BY IdleFields, EndedFits DEF Ends, Final
<1>10. LockHeld /\ AwaitInv
  <2>1. LockHeld
    BY <1>1, <1>6, <1>9, Constants, Zenon DEF LockHeld
  <2>2. AwaitInv
    BY <1>6, <1>7, Constants, IdleFields, NoWorkFields DEF AwaitInv
  <2>3. QED
    BY <2>1, <2>2
<1>11. NativeInv
  <2>1. CASE disk = old
    BY <1>3, <1>6, <1>9, <2>1, AbsentIsNot
       DEF NativeInv, Native, NativeWhole, First, InstallFiles, Basics
  <2>2. CASE disk = NoFiles \/ disk = Runtime
    <3>1. /\ disk["state"] = Absent /\ disk["VERSION"] = Absent
          /\ disk["prog"] \in {Absent, <<New>>}
      BY <2>2, NoFilesDisk, RuntimeDisk DEF File, InstallFiles, Basics
    <3>2. ~Native(disk) /\ disk["VERSION"] # <<Old>> /\ disk["prog"] # <<Old>>
      BY <3>1, AbsentIsNot DEF Native, First, Old, New
    <3>3. QED
      BY <1>6, <1>9, <3>2 DEF NativeInv
  <2>3. QED
    BY <1>2, <2>1, <2>2
<1>12. UninstalledInv
  BY <1>6, <1>9 DEF UninstalledInv
<1>13. QED
  BY <1>5, <1>6, <1>7, <1>8, <1>10, <1>11, <1>12, IdleInv, NoWorkInv DEF NodeInv

(* The commands of the node.                                               *)
NodeNext(c) ==
  \/ \E kind \in {"installer", "runtime"} : RunInstaller(c, kind, None)
  \/ Main(c) \/ Busy(c) \/ PrepareRuntime(c) \/ PrepareFresh(c)
  \/ PrepareMigrate(c) \/ SaveFiles(c) \/ WaitForService(c) \/ StopAccountd(c)
  \/ VerifyExisting(c) \/ Write(c) \/ StartService(c)
  \/ CommitInstall(c) \/ FailInstall(c) \/ SaveBreaks(c) \/ RollbackInstall(c)
  \/ RollbackMigration(c) \/ RollbackBreaks(c) \/ Kill(c)
  \/ RunBackup(c, None) \/ BackupState(c) \/ BackupRest(c)
  \/ BackupFails(c) \/ ArchiveRefused(c)
  \/ \E a \in arch, secrets \in BOOLEAN : RunRestore(c, a, secrets)
  \/ PrepareRestore(c) \/ StartRestored(c) \/ CommitRestore(c)
  \/ FailRestore(c) \/ RollbackRestore(c)
  \/ PrepareUndo(c) \/ StartUndone(c) \/ CommitUndo(c) \/ FailUndo(c)

(* The steps of a controller.                                              *)
WorkNext(k) ==
  \/ PlanUpgrade(k) \/ Stage(k) \/ Checkpoint(k) \/ NoUndo(k)
  \/ Result(k) \/ Lose(k) \/ VerifyUpgrade(k) \/ IdentifyUpgrade(k)
  \/ CheckFails(k)
  \/ \E c \in Cmd : \/ Backup(k, c) \/ InstallUpgrade(k, c) \/ Undo(k, c)
                    \/ InstallProvision(k, c)
  \/ BeginProvision(k) \/ Payload(k) \/ Preflight(k)
  \/ Bootstrap(k) \/ Reach(k) \/ Target(k)
  \/ VerifyProvision(k) \/ IdentifyProvision(k)
  \/ Register(k) \/ SyncProvisioned(k) \/ Adopt(k)

LEMMA NextIs ==
  ASSUME Next
  PROVE  \/ \E c \in Cmd : NodeNext(c) /\ UNCHANGED controller
         \/ ChangeUsers /\ UNCHANGED controller
         \/ NewHost /\ (\A k \in Ctl : ctl[k] = NoWork) /\ UNCHANGED controller
         \/ \E k \in Ctl : WorkNext(k)
<1>1. CASE InstallNext /\ UNCHANGED controller
  BY <1>1 DEF InstallNext, NodeNext
<1>2. CASE RestoreNext /\ UNCHANGED controller
  BY <1>2 DEF RestoreNext, NodeNext
<1>3. CASE NewHost /\ (\A k \in Ctl : ctl[k] = NoWork) /\ UNCHANGED controller
  BY <1>3
<1>4. CASE UpgradeNext
  BY <1>4 DEF UpgradeNext, NodeNext, WorkNext
<1>5. CASE ProvisionNext
  BY <1>5 DEF ProvisionNext, WorkNext
<1>6. QED
  BY <1>1, <1>2, <1>3, <1>4, <1>5 DEF Next

LEMMA NodeNextSteps ==
  ASSUME NodeInv, NEW c \in Cmd, NodeNext(c)
  PROVE  Steps(c)
<1>1. CASE \E kind \in {"installer", "runtime"} : RunInstaller(c, kind, None)
  BY <1>1, RunInstallerSteps
<1>2. CASE \E a \in arch, secrets \in BOOLEAN : RunRestore(c, a, secrets)
  BY <1>2, RunRestoreSteps
<1>3. CASE \/ Main(c) \/ Busy(c) \/ PrepareRuntime(c) \/ PrepareFresh(c)
           \/ PrepareMigrate(c) \/ SaveFiles(c) \/ WaitForService(c) \/ StopAccountd(c)
           \/ VerifyExisting(c) \/ Write(c) \/ StartService(c)
  BY <1>3, MainSteps, BusySteps, PrepareRuntimeSteps, PrepareFreshSteps,
     PrepareMigrateSteps, SaveFilesSteps, WaitForServiceSteps, StopAccountdSteps,
     VerifyExistingSteps, WriteSteps, StartServiceSteps
<1>4. CASE \/ CommitInstall(c) \/ FailInstall(c) \/ SaveBreaks(c) \/ RollbackInstall(c)
           \/ RollbackMigration(c) \/ RollbackBreaks(c) \/ Kill(c)
  BY <1>4, CommitInstallSteps, FailInstallSteps, SaveBreaksSteps, RollbackInstallSteps,
     RollbackMigrationSteps, RollbackBreaksSteps, KillSteps
<1>5. CASE \/ RunBackup(c, None) \/ BackupState(c) \/ BackupRest(c)
           \/ BackupFails(c) \/ ArchiveRefused(c)
  BY <1>5, RunBackupSteps, BackupStateSteps, BackupRestSteps, BackupFailsSteps,
     ArchiveRefusedSteps
<1>6. CASE \/ PrepareRestore(c) \/ StartRestored(c) \/ CommitRestore(c)
           \/ FailRestore(c) \/ RollbackRestore(c)
  BY <1>6, PrepareRestoreSteps, StartRestoredSteps, CommitRestoreSteps,
     FailRestoreSteps, RollbackRestoreSteps
<1>7. CASE PrepareUndo(c) \/ StartUndone(c) \/ CommitUndo(c) \/ FailUndo(c)
  BY <1>7, PrepareUndoSteps, StartUndoneSteps, CommitUndoSteps, FailUndoSteps
<1>8. QED
  BY <1>1, <1>2, <1>3, <1>4, <1>5, <1>6, <1>7 DEF NodeNext

LEMMA WorkNextStep ==
  ASSUME NodeInv, NEW k \in Ctl, WorkNext(k)
  PROVE  NodeInv'
<1>1. CASE \/ PlanUpgrade(k) \/ Stage(k) \/ Checkpoint(k) \/ NoUndo(k)
           \/ Result(k) \/ Lose(k)
  BY <1>1, PlanUpgradeStep, StageStep, CheckpointStep, NoUndoStep, ResultStep, LoseStep
<1>2. CASE VerifyUpgrade(k) \/ IdentifyUpgrade(k) \/ CheckFails(k)
  BY <1>2, VerifyUpgradeStep
<1>3. CASE \E c \in Cmd : \/ Backup(k, c) \/ InstallUpgrade(k, c) \/ Undo(k, c)
                          \/ InstallProvision(k, c)
  BY <1>3, BackupStep, InstallStep, UndoStep DEF InstallUpgrade, InstallProvision
<1>4. CASE Payload(k) \/ Preflight(k) \/ Bootstrap(k) \/ Reach(k) \/ Target(k)
  BY <1>4, PhaseStep
<1>5. CASE \/ BeginProvision(k) \/ VerifyProvision(k) \/ IdentifyProvision(k)
           \/ Register(k) \/ SyncProvisioned(k) \/ Adopt(k)
  BY <1>5, BeginProvisionStep, VerifyProvisionStep, IdentifyProvisionStep, RegisterStep,
     SyncProvisionedStep, AdoptStep
<1>6. QED
  BY <1>1, <1>2, <1>3, <1>4, <1>5 DEF WorkNext

LEMMA StutterStep ==
  ASSUME NodeInv, UNCHANGED vars
  PROVE  NodeInv'
<1>1. /\ UNCHANGED <<disk, torn, svc, lock, cmd, arch, runs, faults, scars, ctl, reg, told>>
  BY DEF vars, node, controller
<1>2. NodeType' /\ NativeSame /\ (Installed(disk') => Installed(disk))
  BY <1>1 DEF NodeInv, NodeType, NativeInv, NativeSame, Native, NativeWhole, Installed
<1>3. /\ LockHeld' /\ NativeInv' /\ UninstalledInv'
      /\ \A b \in Cmd : CmdInv(cmd[b])'
  BY <1>1, <1>2, CmdSame
<1>4. Shape' /\ AwaitInv'
  BY <1>1 DEF NodeInv, Shape, AwaitInv
<1>5. ASSUME NEW k \in Ctl
      PROVE  CtlInv(ctl[k])'
  <2>1. CtlInv(ctl[k])
    BY DEF NodeInv
  <2>2. CtlType(ctl[k])'
    BY <1>1, <2>1 DEF CtlInv, CtlType
  <2>3. QED
    BY <1>1, <2>1, <2>2 DEF CtlInv, Native, NativeWhole
<1>6. QED
  BY <1>2, <1>3, <1>4, <1>5 DEF NodeInv

LEMMA NodeInvHolds == Spec => []NodeInv
<1>1. Init => NodeInv
  BY InitInv
<1>2. NodeInv /\ [Next]_vars => NodeInv'
  <2>1. SUFFICES ASSUME NodeInv, [Next]_vars
                 PROVE  NodeInv'
    OBVIOUS
  <2>2. ASSUME NEW c \in Cmd, NodeNext(c), UNCHANGED controller
        PROVE  NodeInv'
    <3>1. PICK x : Moves(c, x) /\ SameOwner(c, x)
      BY <2>1, <2>2, NodeNextSteps DEF Steps
    <3>2. QED
      BY <2>1, <2>2, <3>1, NodeStep DEF SameOwner
  <2>3. CASE ChangeUsers /\ UNCHANGED controller
    BY <2>1, <2>3, ChangeUsersStep
  <2>4. CASE NewHost /\ (\A k \in Ctl : ctl[k] = NoWork) /\ UNCHANGED controller
    BY <2>1, <2>4, NewHostStep
  <2>5. CASE \E k \in Ctl : WorkNext(k)
    BY <2>1, <2>5, WorkNextStep
  <2>6. CASE UNCHANGED vars
    BY <2>1, <2>6, StutterStep
  <2>7. QED
    BY <2>1, <2>2, <2>3, <2>4, <2>5, <2>6, NextIs
<1>3. QED
  BY <1>1, <1>2, PTL DEF Spec

(* The types, and the lock: it is held by exactly the command that is      *)
(* changing the node, the rollback of an installer excepted.               *)
THEOREM TypeCorrect == Spec => []TypeOK
<1>1. NodeInv => TypeOK
  <2>1. SUFFICES ASSUME NodeInv
                 PROVE  TypeOK
    OBVIOUS
  <2>2. disk \in [File -> Content] /\ svc.on \subseteq Both /\ svc.acct \in BOOLEAN
    BY <2>1 DEF NodeInv, NodeType, Disk, Services
  <2>3. torn \subseteq File /\ runs \in Run /\ faults \in 0 .. MaxFaults /\ reg \subseteq Run
    BY <2>1 DEF NodeInv, NodeType, Shape
  <2>4. ASSUME NEW c \in Cmd
        PROVE  (lock = c) <=> Mutating(c)
                              /\ ~(cmd[c].pc = "rollback"
                                   /\ cmd[c].kind \in {"fresh", "migrate", "runtime"})
    BY <2>1 DEF NodeInv, LockHeld, KeepsLock, Mutating, Writing, Installer
  <2>5. QED
    BY <2>2, <2>3, <2>4 DEF TypeOK, Content
<1>2. QED
  BY <1>1, NodeInvHolds, PTL

-----------------------------------------------------------------------------
(***************************************************************************)
(* Identity.                                                               *)
(***************************************************************************)
StateKept == Installed(disk) /\ Installed(disk') => disk'["state"] = disk["state"]

LEMMA WriteKeeps ==
  ASSUME NodeInv, NEW c \in Cmd, Write(c)
  PROVE  StateKept
<1> DEFINE f == Head(cmd[c].todo)
           x == cmd[c]
<1>1. /\ x.pc = "write" /\ disk' = [disk EXCEPT ![f] = x.new[f]]
  BY DEF Write
<1>2. /\ CmdInv(x) /\ x \in Commands /\ NativeFits(x)
      /\ Uninstalled(x) => ~Installed(disk)
      /\ disk \in Disk /\ x.todo \in Seq(File) /\ x.todo # <<>> /\ Distinct(x.todo)
      /\ Changes(x) /\ ~Ends(x)
      /\ x.kind \in Installer \cup {"restore", "undo"}
  <2>1. Changes(x) /\ ~Ends(x)
    BY <1>1 DEF Changes, Ends, Writing, Final
  <2>2. CmdInv(x) /\ x \in Commands /\ NativeFits(x)
        /\ (Uninstalled(x) => ~Installed(disk)) /\ disk \in Disk
    BY CmdOf, NodeFacts
  <2>3. x.todo \in Seq(File)
    BY <2>2, CommandFields
  <2>4. x.todo # <<>> /\ Distinct(x.todo)
    BY <1>1, <2>2 DEF CmdInv, Progress
  <2>5. x.kind \in Installer \cup {"restore", "undo"}
    BY <1>1, <2>2 DEF CmdInv, CmdType, KindFits, Writing
  <2>6. QED
    BY <2>1, <2>2, <2>3, <2>4, <2>5
<1>3. f \in File /\ f \in Left(x.todo) /\ Left(x.todo) = Targets(x) \ x.wrote
  <2>1. f \in File /\ f \in Left(x.todo)
    BY <1>2, TailLeft
  <2>2. Left(x.todo) = Targets(x) \ x.wrote
    BY <1>1, <1>2 DEF CmdInv, Progress
  <2>3. QED
    BY <2>1, <2>2
<1> HIDE DEF f
<1>4. CASE f # "state"
  <2>1. disk = [g \in File |-> disk[g]]
    BY <1>2, FilesOf
  <2>2. disk'["state"] = disk["state"]
    BY <1>1, <1>4, <2>1 DEF File
  <2>3. QED
    BY <2>2 DEF StateKept
<1>5. CASE f = "state" /\ x.kind \in {"fresh", "restore"}
  <2>1. x.kind = "fresh" => "VERSION" \notin x.wrote
    BY <1>2, <1>3, <1>5 DEF CmdInv, Progress, Basics
  <2>2. Uninstalled(x)
    BY <1>1, <1>2, <1>5, <2>1 DEF Uninstalled
  <2>3. QED
    BY <1>2, <2>2 DEF StateKept
<1>6. CASE f = "state" /\ x.kind \in {"migrate", "undo"}
  <2>1. Native(disk)
    BY <1>2, <1>6 DEF NativeFits
  <2>2. x.kind = "migrate" => NativeWhole(x.found) /\ x.new = Migrated(x.found)
    BY <1>2 DEF CmdInv, Source
  <2>3. x.kind = "undo" => NativeWhole(x.new)
    BY <1>2 DEF CmdInv, Source
  <2>4. Native(x.new)
    <3>1. CASE x.kind = "migrate"
      <4>1. /\ x.found \in Disk /\ x.found["state"] # Absent /\ x.found["users"] # Absent
            /\ Native(x.found)
        BY <1>2, <2>2, <3>1, CommandFields
           DEF NativeWhole, InstallFiles, Basics
      <4>2. QED
        BY <2>2, <3>1, <4>1, MigratedFiles DEF Native
    <3>2. CASE x.kind = "undo"
      BY <2>3, <3>2 DEF NativeWhole
    <3>3. QED
      BY <1>6, <3>1, <3>2
  <2>5. disk'["state"] = x.new["state"]
    <3>1. disk = [g \in File |-> disk[g]]
      BY <1>2, FilesOf
    <3>2. QED
      BY <1>1, <1>3, <1>6, <3>1
  <2>6. QED
    BY <2>1, <2>4, <2>5 DEF StateKept, Native
<1>7. CASE f = "state" /\ x.kind = "runtime"
  <2>1. "state" \notin Targets(x)
    BY <1>7 DEF Targets, TargetsOf
  <2>2. QED
    BY <1>3, <1>7, <2>1
<1>8. QED
  BY <1>2, <1>4, <1>5, <1>6, <1>7 DEF Installer

LEMMA PutBackKeeps ==
  ASSUME NodeInv, NEW c \in Cmd, cmd[c].pc = "rollback", cmd[c].kind = "migrate",
         disk'["state"] \in {disk["state"], Over(disk, cmd[c].saved)["state"]}
  PROVE  StateKept
<1>1. Native(disk) /\ cmd[c].saved["state"] \in {Absent, First}
  BY ChangesFacts
<1>2. Over(disk, cmd[c].saved)["state"]
        = IF cmd[c].saved["state"] # Absent THEN cmd[c].saved["state"] ELSE disk["state"]
  BY DEF Over, File
<1>3. disk'["state"] = First
  BY <1>1, <1>2 DEF Native
<1>4. QED
  BY <1>1, <1>3 DEF StateKept, Native

(* The state goes after VERSION, and not at all in a migration.            *)
LEMMA BreakKeeps ==
  ASSUME NodeInv, NEW c \in Cmd, RollbackBreaks(c)
  PROVE  StateKept
<1> DEFINE back == IF cmd[c].kind = "migrate" THEN Over(disk, cmd[c].saved) ELSE NoFiles
<1>1. PICK n \in 1 .. Len(FileOrder) :
        disk' = [f \in File |-> IF f \in Front(n) THEN back[f] ELSE disk[f]]
  BY DEF RollbackBreaks
<1>2. disk'["state"] \in {disk["state"], back["state"]}
  BY <1>1 DEF File
<1>3. CASE cmd[c].kind = "migrate"
  BY <1>2, <1>3, PutBackKeeps DEF RollbackBreaks, Unlocked
<1>4. CASE cmd[c].kind # "migrate" /\ "VERSION" \in Front(n)
  <2>1. disk'["VERSION"] = Absent
    BY <1>1, <1>4, NoFilesDisk DEF File
  <2>2. QED
    BY <2>1 DEF StateKept, Installed
<1>5. CASE "VERSION" \notin Front(n)
  <2>1. Len(FileOrder) = 8 /\ FileOrder[1] = "prog" /\ FileOrder[2] = "config"
        /\ FileOrder[3] = "VERSION"
    BY DEF FileOrder
  <2>2. n \in {1, 2}
    BY <1>1, <1>5, <2>1 DEF Front
  <2>3. "state" \notin Front(n)
    BY <2>1, <2>2 DEF Front
  <2>4. disk'["state"] = disk["state"]
    BY <1>1, <2>3 DEF File
  <2>5. QED
    BY <2>4 DEF StateKept
<1>6. QED
  BY <1>3, <1>4, <1>5

LEMMA RestoreKeeps ==
  ASSUME NodeInv, NEW c \in Cmd, cmd[c].kind = "restore",
         cmd[c].pc \in {"commit", "rollback"}
  PROVE  StateKept
<1>1. Uninstalled(cmd[c])
  BY DEF Uninstalled, Changes, Writing
<1>2. QED
  BY <1>1, CmdOf DEF StateKept

LEMMA NodeNextKeeps ==
  ASSUME NodeInv, NEW c \in Cmd, NodeNext(c)
  PROVE  StateKept
<1>1. CASE disk' = disk
  BY <1>1 DEF StateKept
<1>2. CASE Write(c) \/ RollbackMigration(c) \/ RollbackBreaks(c)
  BY <1>2, WriteKeeps, PutBackKeeps, BreakKeeps DEF RollbackMigration
<1>3. CASE CommitRestore(c) \/ RollbackRestore(c)
  BY <1>3, RestoreKeeps DEF CommitRestore, RollbackRestore
<1>4. CASE RollbackInstall(c)
  <2>1. disk' = NoFiles
    BY <1>4 DEF RollbackInstall
  <2>2. QED
    BY <2>1, NoFilesDisk DEF StateKept, Installed, File
<1>5. CASE CommitInstall(c) \/ CommitUndo(c)
  <2>1. disk = [f \in File |-> disk[f]]
    BY NodeFacts, FilesOf
  <2>2. \/ disk' = disk
        \/ \E b : disk' = [disk EXCEPT !["db"] = b]
        \/ \E b : disk' = [disk EXCEPT !["prog"] = b]
    BY <1>5 DEF CommitInstall, CommitUndo
  <2>3. disk'["state"] = disk["state"]
    BY <2>1, <2>2 DEF File
  <2>4. QED
    BY <2>3 DEF StateKept
<1>6. CASE \/ \E kind \in {"installer", "runtime"} : RunInstaller(c, kind, None)
           \/ Main(c) \/ Busy(c) \/ PrepareRuntime(c) \/ PrepareFresh(c)
           \/ PrepareMigrate(c) \/ SaveFiles(c) \/ WaitForService(c) \/ StopAccountd(c)
           \/ VerifyExisting(c) \/ StartService(c)
           \/ FailInstall(c) \/ SaveBreaks(c) \/ Kill(c)
  <2>1. disk' = disk
    BY <1>6 DEF RunInstaller, Main, Busy, PrepareRuntime, PrepareFresh, PrepareMigrate,
                SaveFiles, WaitForService, StopAccountd, VerifyExisting, StartService,
                FailInstall, SaveBreaks, Kill, Refuse, Prepared
  <2>2. QED
    BY <1>1, <2>1
<1>7. CASE \/ RunBackup(c, None) \/ BackupState(c) \/ BackupRest(c)
           \/ BackupFails(c) \/ ArchiveRefused(c)
           \/ \E a \in arch, secrets \in BOOLEAN : RunRestore(c, a, secrets)
           \/ PrepareRestore(c) \/ StartRestored(c) \/ FailRestore(c)
           \/ PrepareUndo(c) \/ StartUndone(c) \/ FailUndo(c)
  <2>1. disk' = disk
    BY <1>7 DEF RunBackup, BackupState, BackupRest, BackupFails, ArchiveRefused,
                RunRestore, PrepareRestore, StartRestored, FailRestore, PrepareUndo,
                StartUndone, FailUndo, Refuse, Prepared
  <2>2. QED
    BY <1>1, <2>1
<1>8. QED
  BY <1>2, <1>3, <1>4, <1>5, <1>6, <1>7 DEF NodeNext

LEMMA WorkNextKeeps ==
  ASSUME NEW k \in Ctl, WorkNext(k)
  PROVE  disk' = disk
<1>1. CASE \/ PlanUpgrade(k) \/ Stage(k) \/ Checkpoint(k) \/ NoUndo(k)
           \/ Result(k) \/ Lose(k) \/ VerifyUpgrade(k) \/ IdentifyUpgrade(k)
           \/ CheckFails(k)
  BY <1>1 DEF PlanUpgrade, Stage, Checkpoint, NoUndo, Result, Lose, VerifyUpgrade,
              IdentifyUpgrade, CheckFails, node, SameNode
<1>2. CASE \E c \in Cmd : \/ Backup(k, c) \/ InstallUpgrade(k, c) \/ Undo(k, c)
                          \/ InstallProvision(k, c)
  BY <1>2 DEF Backup, RunBackup, InstallUpgrade, InstallProvision, Install,
              RunInstaller, Undo, RunUndo
<1>3. CASE \/ BeginProvision(k) \/ Payload(k) \/ Preflight(k)
           \/ Bootstrap(k) \/ Reach(k) \/ Target(k)
           \/ VerifyProvision(k) \/ IdentifyProvision(k)
           \/ Register(k) \/ SyncProvisioned(k) \/ Adopt(k)
  BY <1>3 DEF BeginProvision, Payload, Preflight, Bootstrap, Reach, Target, OnOrRefused,
              VerifyProvision, IdentifyProvision, Register, SyncProvisioned, Adopt, node,
              SameNode
<1>4. QED
  BY <1>1, <1>2, <1>3 DEF WorkNext

(* An installed node keeps its node_id and its instance_id.                *)
THEOREM InstalledKeepsIdentityHolds == Spec => InstalledKeepsIdentity
<1>1. ASSUME NodeInv, [Next]_vars
      PROVE  StateKept
  <2>1. CASE UNCHANGED vars
    BY <2>1 DEF vars, node, StateKept
  <2>2. ASSUME NEW c \in Cmd, NodeNext(c)
        PROVE  StateKept
    BY <1>1, <2>2, NodeNextKeeps
  <2>3. CASE ChangeUsers
    <3>1. disk = [f \in File |-> disk[f]]
      BY <1>1, NodeFacts, FilesOf
    <3>2. disk'["state"] = disk["state"]
      BY <2>3, <3>1 DEF ChangeUsers, File
    <3>3. QED
      BY <3>2 DEF StateKept
  <2>4. CASE NewHost
    <3>1. disk'["VERSION"] = Absent
      BY <2>4, NoFilesDisk DEF NewHost, File
    <3>2. QED
      BY <3>1 DEF StateKept, Installed
  <2>5. CASE \E k \in Ctl : WorkNext(k)
    <3>1. disk' = disk
      BY <2>5, WorkNextKeeps
    <3>2. QED
      BY <3>1 DEF StateKept
  <2>6. QED
    BY <1>1, <2>1, <2>2, <2>3, <2>4, <2>5, NextIs
<1>2. ASSUME NodeInv, [Next]_vars
      PROVE  [Installed(disk) /\ Installed(disk') /\ disk["state"] # Absent =>
                /\ disk'["state"] # Absent
                /\ Identity(disk') = Identity(disk)]_vars
  BY <1>1, <1>2 DEF StateKept, Identity
<1>3. QED
  BY <1>2, NodeInvHolds, PTL DEF Spec, InstalledKeepsIdentity

-----------------------------------------------------------------------------
(***************************************************************************)
(* The rest is about nodes on which no command took the lock while a       *)
(* rollback without it was due: the scars tell ("beside").  There, one     *)
(* command at a time changes the node, and the node is a mixture of what   *)
(* the command found and what it brings.  Below, d is the disk, s the      *)
(* services, h the scars, m the commands and w the controllers.            *)
(***************************************************************************)
Midway(x, d) ==
  \A f \in File : d[f] = IF f \in x.wrote THEN x.new[f] ELSE x.found[f]

(* The programs are of the version that VERSION says.                      *)
Even(d) == d["prog"] = d["VERSION"] /\ d["marker"] = Absent
Running(d) == [on |-> Both, sing |-> d["config"], acct |-> TRUE]

(* A node that no command changes, when nothing was killed in the middle.  *)
Settled(d, s) ==
  IF Installed(d) THEN Agree(d) /\ Even(d) /\ s = Running(d)
  ELSE (\A f \in {"state", "users", "uri"} : d[f] = Absent) /\ s = Stopped

AtRest(d, s, h) ==
  /\ "undo" \notin h /\ Installed(d) => Agree(d)
  /\ h = {} => Settled(d, s)

(* The services while a command writes, starts and commits.                *)
ServedBy(x, d) ==
  IF x.pc \in {"save", "health", "stage"} THEN Running(x.found)
  ELSE IF x.kind = "migrate"
  THEN [on |-> Both, sing |-> x.found["config"], acct |-> FALSE]
  ELSE IF x.pc # "commit" \/ x.kind = "runtime" THEN Stopped
  ELSE IF x.kind = "fresh" THEN [on |-> {"sing"}, sing |-> d["config"], acct |-> FALSE]
  ELSE Running(d)

(* The backup of a migration is whole, or nothing was written.             *)
Backed(x) ==
  x.kind = "migrate" =>
    \/ x.saved = x.found
    \/ /\ x.pc \in {"save", "rollback"} /\ x.wrote = {}
       /\ \A f \in File : x.saved[f] \in {Absent, x.found[f]}

Amid(x, d, s, h) ==
  /\ Midway(x, d) /\ Backed(x)
  /\ AtRest(x.found, x.before, h)
  /\ x.kind = "undo" => Installed(x.found)
  /\ x.pc \in Writing /\ h = {} => s = ServedBy(x, d)

(* A checkpoint can be put back.                                           *)
Good(d, h) == ("undo" \notin h => Agree(d)) /\ (h = {} => Even(d))

Whole(m, w, d, s, h) ==
  /\ \A b, c \in Cmd : Changes(m[b]) /\ Changes(m[c]) => b = c
  /\ \A c \in Cmd : Changes(m[c]) => Amid(m[c], d, s, h)
  /\ (\A c \in Cmd : ~Changes(m[c])) => AtRest(d, s, h)
  /\ \A c \in Cmd : m[c].kind = "undo" /\ ~Ends(m[c]) => Good(m[c].new, h)
  /\ \A k \in Ctl : w[k].ck # NoFiles => Good(w[k].ck, h)

WholeInv == Whole(cmd, ctl, disk, svc, scars)
WholeNext == Whole(cmd', ctl', disk', svc', scars')

(* A file is cut short only by a rollback, from a torn backup or broken    *)
(* off.                                                                    *)
TornInv == torn # {} => "undo" \in scars

(* What was left in the middle takes promises away, it adds none.          *)
LEMMA MoreScars ==
  ASSUME NEW h, NEW i, h \subseteq i
  PROVE  /\ \A d, s : AtRest(d, s, h) => AtRest(d, s, i)
         /\ \A d : Good(d, h) => Good(d, i)
<1>1. /\ "undo" \notin i => "undo" \notin h
      /\ i = {} => h = {}
  OBVIOUS
<1>2. QED
  BY <1>1 DEF AtRest, Good

(* A command that is the same for the node, whoever waits for it.          *)
SameCommand(x, y) ==
  /\ y.kind = x.kind /\ y.pc = x.pc /\ y.new = x.new /\ y.wrote = x.wrote
  /\ y.found = x.found /\ y.before = x.before /\ y.saved = x.saved

(* A command goes on without changing the node, before or after.           *)
Passive(x, y, h) ==
  /\ ~Changes(x) /\ ~Changes(y)
  /\ y.kind = "undo" /\ ~Ends(y) => Good(y.new, h)

LEMMA SameAmid ==
  ASSUME NEW x, NEW y, SameCommand(x, y), NEW d, NEW s, NEW h
  PROVE  /\ Changes(x) <=> Changes(y)
         /\ Ends(x) <=> Ends(y)
         /\ Amid(x, d, s, h) => Amid(y, d, s, h)
  BY DEF SameCommand, Changes, Ends, Amid, Midway, Backed, ServedBy

(* Nothing happens to the node.                                            *)
LEMMA PassiveStep ==
  ASSUME WholeInv, disk' = disk, svc' = svc, scars' = scars,
         \A b \in Cmd : SameCommand(cmd[b], cmd'[b]) \/ Passive(cmd[b], cmd'[b], scars),
         \A k \in Ctl : ctl'[k].ck \in {NoFiles, ctl[k].ck} \/ Good(ctl'[k].ck, scars)
  PROVE  WholeNext
<1>1. ASSUME NEW b \in Cmd
      PROVE  /\ Changes(cmd'[b]) <=> Changes(cmd[b])
             /\ Changes(cmd'[b]) => Amid(cmd'[b], disk, svc, scars)
             /\ cmd'[b].kind = "undo" /\ ~Ends(cmd'[b]) => Good(cmd'[b].new, scars)
  <2>1. CASE Passive(cmd[b], cmd'[b], scars)
    BY <2>1 DEF Passive
  <2>2. CASE SameCommand(cmd[b], cmd'[b])
    <3>1. /\ Changes(cmd[b]) <=> Changes(cmd'[b])
          /\ Ends(cmd[b]) <=> Ends(cmd'[b])
          /\ Amid(cmd[b], disk, svc, scars) => Amid(cmd'[b], disk, svc, scars)
      BY <2>2, SameAmid
    <3>2. cmd'[b].kind = cmd[b].kind /\ cmd'[b].new = cmd[b].new
      BY <2>2 DEF SameCommand
    <3>3. QED
      BY <3>1, <3>2 DEF WholeInv, Whole
  <2>3. QED
    BY <2>1, <2>2
<1>2. QED
  BY <1>1 DEF WholeInv, WholeNext, Whole

(* The others do not change the node.                                      *)
Alone(c) ==
  /\ \A b \in Cmd \ {c} : ~Changes(cmd[b]) /\ cmd'[b] = cmd[b]
  /\ ctl' = ctl /\ scars \subseteq scars'

(* One command changes the node and goes on.                               *)
LEMMA SoleStep ==
  ASSUME WholeInv, NEW c \in Cmd, Alone(c), Changes(cmd'[c]),
         Amid(cmd'[c], disk', svc', scars'),
         cmd'[c].kind = cmd[c].kind, ~Ends(cmd[c]),
         cmd[c].kind = "undo" => cmd'[c].new = cmd[c].new
  PROVE  WholeNext
<1>1. \A d : Good(d, scars) => Good(d, scars')
  BY MoreScars DEF Alone
<1>2. \A b, e \in Cmd : Changes(cmd'[b]) /\ Changes(cmd'[e]) => b = e
  BY DEF Alone
<1>3. \A b \in Cmd : Changes(cmd'[b]) => Amid(cmd'[b], disk', svc', scars')
  BY DEF Alone
<1>4. \A b \in Cmd : cmd'[b].kind = "undo" /\ ~Ends(cmd'[b]) => Good(cmd'[b].new, scars')
  BY <1>1 DEF Alone, WholeInv, Whole
<1>5. \A k \in Ctl : ctl'[k].ck # NoFiles => Good(ctl'[k].ck, scars')
  BY <1>1 DEF Alone, WholeInv, Whole
<1>6. QED
  BY <1>2, <1>3, <1>4, <1>5 DEF WholeNext, Whole

(* One command changes the node and ends.                                  *)
LEMMA EndStep ==
  ASSUME WholeInv, NEW c \in Cmd, Alone(c), Ends(cmd'[c]),
         AtRest(disk', svc', scars')
  PROVE  WholeNext
<1>1. \A d : Good(d, scars) => Good(d, scars')
  BY MoreScars DEF Alone
<1>2. \A b \in Cmd : ~Changes(cmd'[b])
  BY EndedFits DEF Alone
<1>3. \A b \in Cmd : cmd'[b].kind = "undo" /\ ~Ends(cmd'[b]) => Good(cmd'[b].new, scars')
  BY <1>1 DEF Alone, WholeInv, Whole
<1>4. \A k \in Ctl : ctl'[k].ck # NoFiles => Good(ctl'[k].ck, scars')
  BY <1>1 DEF Alone, WholeInv, Whole
<1>5. QED
  BY <1>2, <1>3, <1>4 DEF WholeNext, Whole

(* Whoever gets the lock finds a node that nobody changes.                 *)
LEMMA NotBeside ==
  ASSUME scars' = Disturbed, "beside" \notin scars'
  PROVE  scars' = scars /\ \A b \in Cmd : ~Unlocked(b)
  BY DEF Disturbed

LEMMA FreeIsQuiet ==
  ASSUME NodeInv, lock = None, \A b \in Cmd : ~Unlocked(b)
  PROVE  \A b \in Cmd : ~Changes(cmd[b])
<1>1. ASSUME NEW b \in Cmd
      PROVE  ~Changes(cmd[b])
  <2>1. lock # b
    BY Constants
  <2>2. ~KeepsLock(cmd[b]) /\ cmd[b].pc # "rollback"
    BY <2>1, CmdOf DEF Unlocked
  <2>3. QED
    BY <2>2 DEF KeepsLock, Changes
<1>2. QED
  BY <1>1, Zenon

(* The commands after a step of one.                                       *)
LEMMA OthersSame ==
  ASSUME NodeInv, NEW c \in Cmd, NodeNext(c)
  PROVE  \A b \in Cmd \ {c} : cmd'[b] = cmd[b]
<1>1. PICK x : Moves(c, x)
  BY NodeNextSteps DEF Steps
<1>2. QED
  BY <1>1, CommandOf DEF NodeInv, Moves

LEMMA AloneNext ==
  ASSUME NodeInv, WholeInv, NEW c \in Cmd, NodeNext(c), UNCHANGED controller,
         Changes(cmd[c]) \/ \A b \in Cmd : ~Changes(cmd[b]),
         scars \subseteq scars'
  PROVE  Alone(c)
  BY OthersSame DEF Alone, WholeInv, Whole, controller

(* The services, field by field.                                           *)
LEMMA ServicesSame ==
  ASSUME NEW s \in Services, NEW t \in Services, s.on = t.on, s.sing = t.sing,
         s.acct <=> t.acct
  PROVE  s = t
  BY DEF Services

LEMMA RunningFields ==
  ASSUME NEW d \in Disk
  PROVE  /\ Running(d) \in Services
         /\ Running(d).on = Both /\ Running(d).sing = d["config"] /\ Running(d).acct
<1>1. d["config"] \in {Absent} \cup (Run \X Run)
  BY FilesOf
<1>2. QED
  BY <1>1 DEF Running, Services

LEMMA StoppedFields ==
  Stopped \in Services /\ Stopped.on = {} /\ Stopped.sing = Absent /\ ~Stopped.acct
  BY StoppedType DEF Stopped

-----------------------------------------------------------------------------
(***************************************************************************)
(* The steps that leave the node alone.                                    *)
(***************************************************************************)
NodeStill == disk' = disk /\ svc' = svc /\ scars' = scars

LEMMA PassiveNext ==
  ASSUME NodeInv, WholeInv, NEW c \in Cmd, NodeNext(c), UNCHANGED controller,
         NodeStill, Passive(cmd[c], cmd'[c], scars)
  PROVE  WholeNext
<1>1. \A b \in Cmd : SameCommand(cmd[b], cmd'[b]) \/ Passive(cmd[b], cmd'[b], scars)
  BY OthersSame DEF SameCommand
<1>2. \A k \in Ctl : ctl'[k].ck = ctl[k].ck
  BY DEF controller
<1>3. QED
  BY <1>1, <1>2, PassiveStep DEF NodeStill

(* It ends.                                                                *)
LEMMA FinishPassive ==
  ASSUME NodeInv, NEW c \in Cmd, NEW r \in {"done", "failed"}, Finish(c, r),
         cmd[c].pc \in Early
  PROVE  Passive(cmd[c], cmd'[c], scars) /\ Ends(cmd'[c])
<1>1. cmd'[c] = Ended(c, r)
  BY DEF Finish, NodeInv, Shape
<1>2. Ends(cmd'[c])
  BY <1>1, CmdOf, EndedInv
<1>3. QED
  BY <1>2, EndedFits, EarlyFacts DEF Passive

LEMMA RefuseWhole ==
  ASSUME NodeInv, WholeInv, NEW c \in Cmd, NodeNext(c), UNCHANGED controller,
         Refuse(c), cmd[c].pc \in Early
  PROVE  WholeNext
  BY FinishPassive, PassiveNext DEF Refuse, NodeStill

(* It begins, or is on its way to the lock.                                *)
LEMMA EarlyWhole ==
  ASSUME NodeInv, WholeInv, NEW c \in Cmd, NodeNext(c), UNCHANGED controller,
         NodeStill, cmd[c].pc \in Early \cup Final, cmd'[c].pc \in Early,
         cmd'[c].kind # "undo"
  PROVE  WholeNext
<1>1. ~Changes(cmd[c]) /\ ~Changes(cmd'[c])
  BY EarlyFacts, EndedFits DEF Ends
<1>2. QED
  BY <1>1, PassiveNext DEF Passive

LEMMA RunWhole ==
  ASSUME NodeInv, WholeInv, NEW c \in Cmd, NodeNext(c), UNCHANGED controller,
         \/ \E kind \in {"installer", "runtime"} : RunInstaller(c, kind, None)
         \/ \E a \in arch, secrets \in BOOLEAN : RunRestore(c, a, secrets)
         \/ RunBackup(c, None)
  PROVE  WholeNext
<1>1. cmd = [b \in Cmd |-> cmd[b]]
  BY DEF NodeInv, Shape
<1>2. ASSUME NEW kind, NEW p \in {"main", "lock"}, NEW by, NEW new
      PROVE  Command(kind, p, by, new).kind = kind /\ Command(kind, p, by, new).pc = p
  BY IdleFields DEF Command, Commands
<1>3. CASE \E kind \in {"installer", "runtime"} : RunInstaller(c, kind, None)
  <2>1. PICK kind \in {"installer", "runtime"} : RunInstaller(c, kind, None)
    BY <1>3
  <2>2. cmd'[c] = Command(kind, "main", None, NoFiles) /\ cmd[c] = Idle /\ NodeStill
    BY <1>1, <2>1 DEF RunInstaller, Begin, NodeStill
  <2>3. QED
    BY <1>2, <2>2, IdleFields, EarlyWhole DEF Early, Final
<1>4. CASE \E a \in arch, secrets \in BOOLEAN : RunRestore(c, a, secrets)
  <2>1. PICK a \in arch, secrets \in BOOLEAN : RunRestore(c, a, secrets)
    BY <1>4
  <2>2. /\ cmd'[c] = Command("restore", "lock", None, Planned(a, secrets, runs + 1))
        /\ cmd[c] = Idle /\ NodeStill
    BY <1>1, <2>1 DEF RunRestore, Begin, NodeStill
  <2>3. QED
    BY <1>2, <2>2, IdleFields, EarlyWhole DEF Early, Final
<1>5. CASE RunBackup(c, None)
  <2>1. /\ cmd'[c] = [Idle EXCEPT !.kind = "backup", !.pc = "state", !.by = None]
        /\ cmd[c] = Idle /\ NodeStill
    BY <1>1, <1>5 DEF RunBackup, NodeStill
  <2>2. cmd'[c].kind = "backup" /\ cmd'[c].pc = "state"
    BY <2>1, IdleFields DEF Commands
  <2>3. QED
    BY <2>1, <2>2, IdleFields, EarlyWhole DEF Early, Final
<1>6. QED
  BY <1>3, <1>4, <1>5

LEMMA MainWhole ==
  ASSUME NodeInv, WholeInv, NEW c \in Cmd, NodeNext(c), UNCHANGED controller, Main(c)
  PROVE  WholeNext
<1>1. /\ cmd = [b \in Cmd |-> cmd[b]] /\ cmd[c] \in Commands
      /\ cmd[c].pc = "main" /\ cmd[c].pc \in Early
  BY CmdOf DEF NodeInv, Shape, Main, Early
<1>2. CASE Refuse(c)
  BY <1>1, <1>2, RefuseWhole
<1>3. CASE ~Refuse(c)
  <2>1. PICK kind \in {"runtime", "fresh", "verify", "migrate"}, p \in {"lock", "check"} :
          \/ cmd' = [cmd EXCEPT ![c].kind = kind, ![c].pc = p]
          \/ cmd' = [cmd EXCEPT ![c].pc = p] /\ cmd[c].kind = kind
    BY <1>1, <1>3, ZenonT(60) DEF Main
  <2>2. cmd'[c].pc = p /\ cmd'[c].kind = kind
    BY <1>1, <2>1, Zenon DEF Commands
  <2>3. NodeStill
    BY <1>3 DEF Main, NodeStill
  <2>4. QED
    BY <1>1, <2>2, <2>3, EarlyWhole DEF Early
<1>4. QED
  BY <1>2, <1>3

LEMMA BackupWhole ==
  ASSUME NodeInv, WholeInv, NEW c \in Cmd, NodeNext(c), UNCHANGED controller,
         BackupState(c) \/ BackupRest(c) \/ BackupFails(c)
  PROVE  WholeNext
<1>1. /\ cmd = [b \in Cmd |-> cmd[b]] /\ cmd[c] \in Commands
      /\ cmd[c].pc \in {"state", "users"} /\ cmd[c].pc \in Early
      /\ cmd[c].kind = "backup"
  BY CmdOf DEF NodeInv, Shape, BackupState, BackupRest, BackupFails, Early, CmdType,
               KindFits
<1>2. CASE Refuse(c)
  BY <1>1, <1>2, RefuseWhole
<1>3. CASE BackupState(c) /\ ~Refuse(c)
  <2>1. NodeStill /\ cmd'[c].pc = "users" /\ cmd'[c].kind = "backup"
    BY <1>1, <1>3 DEF BackupState, NodeStill, Commands
  <2>2. QED
    BY <1>1, <2>1, EarlyWhole DEF Early
<1>4. CASE BackupRest(c) /\ ~Refuse(c)
  BY <1>1, <1>4, FinishPassive, PassiveNext DEF BackupRest, NodeStill
<1>5. QED
  BY <1>2, <1>3, <1>4 DEF BackupFails

-----------------------------------------------------------------------------
(***************************************************************************)
(* A command prepares, writes, starts the services.                        *)
(***************************************************************************)
LEMMA PreparedWhole ==
  ASSUME NodeInv, WholeInv, "beside" \notin scars',
         NEW c \in Cmd, NodeNext(c), UNCHANGED controller, Acquires(c),
         NEW p \in {"save", "write"}, p = "save" <=> cmd[c].kind = "migrate",
         NEW todo, NEW new, NEW services, Prepared(c, p, todo, new, services),
         cmd[c].kind = "undo" => Installed(disk) /\ new = cmd[c].new,
         scars = {} /\ Settled(disk, svc) =>
           services = IF cmd[c].kind = "migrate" THEN Running(disk) ELSE Stopped
  PROVE  WholeNext
<1>1. /\ cmd = [b \in Cmd |-> cmd[b]] /\ cmd[c] \in Commands /\ cmd[c].pc = "lock"
      /\ cmd[c].wrote = {} /\ cmd[c].saved = NoFiles
  BY CmdOf DEF NodeInv, Shape, Acquires, CmdInv, Progress
<1>2. disk' = disk /\ svc' = services /\ scars' = Disturbed
  BY DEF Prepared
<1>3. scars' = scars /\ \A b \in Cmd : ~Changes(cmd[b])
  BY <1>2, NotBeside, FreeIsQuiet DEF Acquires
<1>4. AtRest(disk, svc, scars)
  BY <1>3 DEF WholeInv, Whole
<1>5. Alone(c)
  BY <1>3, AloneNext
<1>6. /\ cmd'[c].pc = p /\ cmd'[c].kind = cmd[c].kind /\ cmd'[c].wrote = {}
      /\ cmd'[c].found = disk /\ cmd'[c].before = svc /\ cmd'[c].new = new
      /\ cmd'[c].saved = NoFiles
  BY <1>1 DEF Prepared, Commands
<1>7. Changes(cmd'[c]) /\ ~Ends(cmd[c])
  BY <1>1, <1>6 DEF Changes, Writing, Ends, Final
<1>8. scars = {} => services = ServedBy(cmd'[c], disk)
  BY <1>4, <1>6 DEF AtRest, ServedBy
<1>9. Backed(cmd'[c])
  BY <1>6, NoFilesDisk DEF Backed
<1>10. Amid(cmd'[c], disk', svc', scars')
  BY <1>2, <1>3, <1>4, <1>6, <1>8, <1>9 DEF Amid, Midway
<1>11. QED
  BY <1>5, <1>6, <1>7, <1>10, SoleStep

LEMMA BareIsStopped ==
  ASSUME ~Installed(disk), Settled(disk, svc)
  PROVE  svc = Stopped
  BY DEF Settled

LEMMA PrepareInstallWhole ==
  ASSUME NodeInv, WholeInv, "beside" \notin scars', NEW c \in Cmd, NodeNext(c),
         UNCHANGED controller, PrepareRuntime(c) \/ PrepareFresh(c)
  PROVE  WholeNext
<1>1. /\ Acquires(c) /\ cmd[c].pc \in Early /\ cmd[c].kind \in {"runtime", "fresh"}
  BY LockPc DEF PrepareRuntime, PrepareFresh, Acquires
<1>2. CASE Refuse(c)
  BY <1>1, <1>2, RefuseWhole
<1>3. CASE Finish(c, "done") /\ UNCHANGED <<disk, torn, svc, lock, arch, runs, faults, scars>>
  BY <1>1, <1>3, FinishPassive, PassiveNext DEF NodeStill
<1>4. CASE Clean(disk) /\ \E todo, new : Prepared(c, "write", todo, new, svc)
  <2>1. PICK todo, new : Prepared(c, "write", todo, new, svc)
    BY <1>4
  <2>2. ~Installed(disk)
    BY <1>4, NoFilesDisk DEF Clean, Installed, File
  <2>3. QED
    BY <1>1, <2>1, <2>2, BareIsStopped, PreparedWhole
<1>5. QED
  BY <1>1, <1>2, <1>3, <1>4 DEF PrepareRuntime, PrepareFresh

LEMMA PrepareMigrateWhole ==
  ASSUME NodeInv, WholeInv, "beside" \notin scars', NEW c \in Cmd, NodeNext(c),
         UNCHANGED controller, PrepareMigrate(c)
  PROVE  WholeNext
<1>1. /\ Acquires(c) /\ cmd[c].pc \in Early /\ cmd[c].kind = "migrate"
  BY LockPc DEF PrepareMigrate, Acquires
<1>2. CASE Refuse(c)
  BY <1>1, <1>2, RefuseWhole
<1>3. CASE Prepared(c, "save", InstallOrder, Migrated(disk), svc)
  <2>1. Installed(disk)
    <3>1. ~Ends(cmd[c])
      BY <1>1, EarlyFacts
    <3>2. NativeWhole(disk)
      BY <1>1, <3>1, CmdOf, NodeFacts DEF NativeFits
    <3>3. QED
      BY <3>2 DEF NativeWhole, InstallFiles, Installed
  <2>2. Settled(disk, svc) => svc = Running(disk)
    BY <2>1 DEF Settled
  <2>3. QED
    BY <1>1, <1>3, <2>2, PreparedWhole
<1>4. QED
  BY <1>2, <1>3 DEF PrepareMigrate

LEMMA PrepareRestoreWhole ==
  ASSUME NodeInv, WholeInv, "beside" \notin scars', NEW c \in Cmd, NodeNext(c),
         UNCHANGED controller, PrepareRestore(c)
  PROVE  WholeNext
<1> DEFINE services == [svc EXCEPT !.acct = FALSE]
<1>1. /\ Acquires(c) /\ cmd[c].pc \in Early /\ cmd[c].kind = "restore"
      /\ svc \in Services
  BY LockPc, NodeFacts DEF PrepareRestore, Acquires
<1>2. CASE Refuse(c)
  BY <1>1, <1>2, RefuseWhole
<1>3. CASE /\ MayRestore(disk)
           /\ Prepared(c, "write", RestoreOrder(cmd[c].new), cmd[c].new, services)
  <2>1. ASSUME Settled(disk, svc)
        PROVE  services = Stopped
    <3>1. svc = Stopped
      BY <1>3, <2>1, BareIsStopped DEF MayRestore
    <3>2. /\ services \in Services /\ services.on = {} /\ services.sing = Absent
          /\ services.acct = FALSE
      BY <1>1, <3>1, AcctDown, StoppedFields
    <3> HIDE DEF services
    <3>3. QED
      BY <3>2, StoppedFields, ServicesSame
  <2> HIDE DEF services
  <2>2. QED
    BY <1>1, <1>3, <2>1, PreparedWhole
<1>4. QED
  BY <1>2, <1>3 DEF PrepareRestore

LEMMA PrepareUndoWhole ==
  ASSUME NodeInv, WholeInv, "beside" \notin scars', NEW c \in Cmd, NodeNext(c),
         UNCHANGED controller, PrepareUndo(c)
  PROVE  WholeNext
<1>1. /\ Acquires(c) /\ cmd[c].pc \in Early /\ cmd[c].kind = "undo"
      /\ Prepared(c, "write", UndoOrder(cmd[c].new), cmd[c].new, Stopped)
  BY LockPc DEF PrepareUndo, Acquires
<1>2. NativeWhole(disk)
  BY <1>1, EarlyFacts, CmdOf, NodeFacts DEF NativeFits
<1>3. Installed(disk)
  BY <1>2 DEF NativeWhole, InstallFiles, Installed
<1>4. QED
  BY <1>1, <1>3, PreparedWhole

LEMMA SoleNext ==
  ASSUME NodeInv, WholeInv, NEW c \in Cmd, NodeNext(c), UNCHANGED controller,
         Changes(cmd[c]), Changes(cmd'[c]), scars' = scars,
         cmd'[c].kind = cmd[c].kind, cmd'[c].new = cmd[c].new,
         Amid(cmd'[c], disk', svc', scars)
  PROVE  WholeNext
<1>1. Alone(c)
  BY AloneNext
<1>2. ~Ends(cmd[c])
  BY EndedFits
<1>3. QED
  BY <1>1, <1>2, SoleStep

LEMMA AmidOf ==
  ASSUME WholeInv, NEW c \in Cmd, Changes(cmd[c])
  PROVE  Amid(cmd[c], disk, svc, scars)
  BY DEF WholeInv, Whole

LEMMA WriteWhole ==
  ASSUME NodeInv, WholeInv, NEW c \in Cmd, NodeNext(c), UNCHANGED controller, Write(c)
  PROVE  WholeNext
<1> DEFINE f == Head(cmd[c].todo)
<1>1. /\ cmd = [b \in Cmd |-> cmd[b]] /\ cmd[c] \in Commands /\ cmd[c].pc = "write"
      /\ disk = [g \in File |-> disk[g]]
  BY CmdOf, NodeFacts, FilesOf DEF NodeInv, Shape, Write
<1>2. Changes(cmd[c]) /\ Amid(cmd[c], disk, svc, scars)
  BY <1>1, AmidOf DEF Changes, Writing
<1>3. f \in File
  BY <1>1, CmdOf, CommandFields, TailLeft DEF CmdInv, Progress
<1>4. /\ cmd'[c].pc \in {"write", "start"} /\ cmd'[c].kind = cmd[c].kind
      /\ cmd'[c].new = cmd[c].new /\ cmd'[c].wrote = cmd[c].wrote \cup {f}
      /\ cmd'[c].found = cmd[c].found /\ cmd'[c].before = cmd[c].before
      /\ cmd'[c].saved = cmd[c].saved
  BY <1>1 DEF Write, Commands
<1>5. disk' = [disk EXCEPT ![f] = cmd[c].new[f]] /\ svc' = svc /\ scars' = scars
  BY DEF Write
<1> HIDE DEF f
<1>6. Changes(cmd'[c])
  BY <1>4 DEF Changes, Writing
<1>7. Midway(cmd'[c], disk')
  <2>1. Midway(cmd[c], disk)
    BY <1>2 DEF Amid
  <2>2. ASSUME NEW g \in File
        PROVE  disk'[g] = IF g \in cmd'[c].wrote THEN cmd'[c].new[g] ELSE cmd'[c].found[g]
    BY <1>1, <1>3, <1>4, <1>5, <2>1 DEF Midway
  <2>3. QED
    BY <2>2 DEF Midway
<1>8. ServedBy(cmd'[c], disk') = ServedBy(cmd[c], disk)
  BY <1>1, <1>4 DEF ServedBy
<1>9. Backed(cmd'[c])
  BY <1>1, <1>2, <1>4 DEF Amid, Backed
<1>10. Amid(cmd'[c], disk', svc', scars)
  BY <1>1, <1>2, <1>4, <1>5, <1>7, <1>8, <1>9 DEF Amid, Writing
<1>11. QED
  BY <1>2, <1>4, <1>5, <1>6, <1>10, SoleNext

(* All the files are written.                                              *)
LEMMA WrittenFiles ==
  ASSUME NodeInv, WholeInv, NEW c \in Cmd, cmd[c].pc \in {"start", "commit"}
  PROVE  /\ Changes(cmd[c]) /\ ~Ends(cmd[c]) /\ Amid(cmd[c], disk, svc, scars)
         /\ cmd[c].kind \in Installer \cup {"restore", "undo"}
         /\ cmd[c].new \in Disk /\ cmd[c].found \in Disk /\ cmd[c].before \in Services
         /\ Source(cmd[c])
         /\ \A f \in Targets(cmd[c]) : disk[f] = cmd[c].new[f]
         /\ \A f \in File \ Targets(cmd[c]) : disk[f] = cmd[c].found[f]
<1>1. Changes(cmd[c]) /\ ~Ends(cmd[c])
  BY DEF Changes, Writing, Ends, Final
<1>2. Amid(cmd[c], disk, svc, scars)
  BY <1>1, AmidOf
<1>3. cmd[c].kind \in Installer \cup {"restore", "undo"}
  BY ChangesFacts DEF Writing
<1>4. /\ cmd[c].new \in Disk /\ cmd[c].found \in Disk /\ cmd[c].before \in Services
      /\ cmd[c].wrote \in SUBSET File
  BY CmdOf, CommandFields
<1>5. cmd[c].wrote = Targets(cmd[c]) /\ Source(cmd[c])
  BY CmdOf DEF CmdInv, Progress
<1>6. QED
  BY <1>1, <1>2, <1>3, <1>4, <1>5 DEF Amid, Midway

LEMMA TargetsAre ==
  ASSUME NEW x
  PROVE  /\ x.kind = "runtime" => Targets(x) = {"prog", "db", "marker"}
         /\ x.kind \in {"fresh", "migrate"} => Targets(x) = InstallFiles
         /\ x.kind = "undo" => Targets(x) = Basics \cup {"VERSION", "db"}
         /\ x.kind = "restore" => /\ Basics \subseteq Targets(x)
                                  /\ Targets(x) \subseteq Basics \cup {"db"}
  BY DEF Targets, TargetsOf

(* The command goes on, and the services are as the next step has them.    *)
LEMMA OnwardWhole ==
  ASSUME NodeInv, WholeInv, NEW c \in Cmd, NodeNext(c), UNCHANGED controller,
         cmd[c].pc \in Writing \ {"save"}, NEW p \in Writing \ {"save"},
         cmd' = [cmd EXCEPT ![c].pc = p], disk' = disk, scars' = scars,
         scars = {} => svc' = ServedBy([cmd[c] EXCEPT !.pc = p], disk)
  PROVE  WholeNext
<1>1. Changes(cmd[c]) /\ Amid(cmd[c], disk, svc, scars)
  BY AmidOf DEF Changes
<1>2. cmd'[c] = [cmd[c] EXCEPT !.pc = p]
  BY DEF NodeInv, Shape
<1>3. /\ cmd'[c].pc = p /\ cmd'[c].kind = cmd[c].kind
      /\ cmd'[c].new = cmd[c].new /\ cmd'[c].wrote = cmd[c].wrote
      /\ cmd'[c].found = cmd[c].found /\ cmd'[c].before = cmd[c].before
      /\ cmd'[c].saved = cmd[c].saved
  BY <1>2, CmdOf DEF Commands
<1>4. Changes(cmd'[c])
  BY <1>3 DEF Changes
<1>5. Backed(cmd'[c])
  BY <1>1, <1>3 DEF Amid, Backed, Writing
<1>6. Amid(cmd'[c], disk', svc', scars)
  BY <1>1, <1>2, <1>3, <1>5 DEF Amid, Midway
<1>7. QED
  BY <1>1, <1>3, <1>4, <1>6, SoleNext

LEMMA StartWhole ==
  ASSUME NodeInv, WholeInv, NEW c \in Cmd, NodeNext(c), UNCHANGED controller,
         cmd[c].pc = "start", cmd' = [cmd EXCEPT ![c].pc = "commit"],
         disk' = disk, scars' = scars,
         scars = {} => svc' = ServedBy([cmd[c] EXCEPT !.pc = "commit"], disk)
  PROVE  WholeNext
<1>1. PICK p \in Writing \ {"save"} : p = "commit"
  BY DEF Writing
<1>2. cmd[c].pc \in Writing \ {"save"} /\ cmd' = [cmd EXCEPT ![c].pc = p]
  BY <1>1 DEF Writing
<1>3. scars = {} => svc' = ServedBy([cmd[c] EXCEPT !.pc = p], disk)
  BY <1>1
<1>4. QED
  BY <1>2, <1>3, OnwardWhole

(* A migration has written nothing before it writes.                       *)
LEMMA NotWritten ==
  ASSUME NodeInv, WholeInv, NEW c \in Cmd, cmd[c].pc \in {"save", "health", "stage"}
  PROVE  /\ Changes(cmd[c]) /\ cmd[c].kind = "migrate" /\ cmd[c].wrote = {}
         /\ Amid(cmd[c], disk, svc, scars) /\ disk = cmd[c].found
<1>1. Changes(cmd[c]) /\ cmd[c].kind = "migrate" /\ cmd[c].wrote = {}
  BY CmdOf DEF Changes, Writing, CmdInv, CmdType, KindFits, Progress
<1>2. Amid(cmd[c], disk, svc, scars)
  BY <1>1, AmidOf
<1>3. \A f \in File : disk[f] = cmd[c].found[f]
  BY <1>1, <1>2 DEF Amid, Midway
<1>4. cmd[c].found \in Disk
  BY CmdOf, CommandFields
<1>5. disk = [f \in File |-> disk[f]] /\ cmd[c].found = [f \in File |-> cmd[c].found[f]]
  BY <1>4, NodeFacts, FilesOf
<1>6. disk = cmd[c].found
  BY <1>3, <1>5
<1>7. QED
  BY <1>1, <1>2, <1>6

LEMMA SaveFilesWhole ==
  ASSUME NodeInv, WholeInv, NEW c \in Cmd, NodeNext(c), UNCHANGED controller,
         SaveFiles(c)
  PROVE  WholeNext
<1>1. /\ cmd[c].pc = "save" /\ disk' = disk /\ svc' = svc /\ scars' = scars
      /\ cmd' = [cmd EXCEPT ![c].pc = "health", ![c].saved = disk, ![c].cut = torn]
  BY DEF SaveFiles
<1>2. /\ Changes(cmd[c]) /\ cmd[c].kind = "migrate" /\ cmd[c].wrote = {}
      /\ Amid(cmd[c], disk, svc, scars) /\ disk = cmd[c].found
  BY <1>1, NotWritten
<1>3. /\ cmd'[c].pc = "health" /\ cmd'[c].kind = cmd[c].kind
      /\ cmd'[c].new = cmd[c].new /\ cmd'[c].wrote = cmd[c].wrote
      /\ cmd'[c].found = cmd[c].found /\ cmd'[c].before = cmd[c].before
      /\ cmd'[c].saved = disk
  BY <1>1, CmdOf DEF Commands, NodeInv, Shape
<1>4. Changes(cmd'[c]) /\ Backed(cmd'[c])
  BY <1>2, <1>3 DEF Changes, Writing, Backed
<1>5. ServedBy(cmd'[c], disk) = ServedBy(cmd[c], disk)
  BY <1>1, <1>3 DEF ServedBy
<1>6. Amid(cmd'[c], disk', svc', scars)
  BY <1>1, <1>2, <1>3, <1>4, <1>5 DEF Amid, Midway, Writing
<1>7. QED
  BY <1>1, <1>2, <1>3, <1>4, <1>6, SoleNext

(* What runs need not be started.                                          *)
LEMMA EnableRunning ==
  ASSUME NEW d \in Disk, d["config"] # Absent, NEW u \in SUBSET Both
  PROVE  EnableNow(Running(d), d, u) = Running(d)
<1> DEFINE t == EnableNow(Running(d), d, u)
<1>1. /\ t \in Services /\ t.on = Running(d).on \cup u
      /\ t.sing = (IF "sing" \in u /\ Running(d).sing = Absent THEN d["config"]
                   ELSE Running(d).sing)
      /\ t.acct = (Running(d).acct \/ "acct" \in u)
  BY RunningFields, EnableNowType
<1> HIDE DEF t
<1>2. t.on = Both /\ t.sing = d["config"] /\ t.acct
  BY <1>1, RunningFields
<1>3. t = Running(d)
  BY <1>1, <1>2, RunningFields, ServicesSame
<1>4. QED
  BY <1>3 DEF t

LEMMA WaitForServiceWhole ==
  ASSUME NodeInv, WholeInv, NEW c \in Cmd, NodeNext(c), UNCHANGED controller,
         WaitForService(c)
  PROVE  WholeNext
<1> DEFINE y == [cmd[c] EXCEPT !.pc = "stage"]
<1>1. /\ cmd[c].pc = "health" /\ cmd' = [cmd EXCEPT ![c].pc = "stage"]
      /\ disk' = disk /\ scars' = scars /\ svc' = EnableNow(svc, disk, {"sing"})
  BY DEF WaitForService
<1>2. /\ Changes(cmd[c]) /\ cmd[c].kind = "migrate" /\ disk = cmd[c].found
      /\ Amid(cmd[c], disk, svc, scars) /\ disk \in Disk /\ cmd[c] \in Commands
  BY <1>1, NotWritten, NodeFacts, CmdOf
<1>3. y.pc = "stage" /\ y.found = cmd[c].found
  BY <1>2 DEF Commands
<1> HIDE DEF y
<1>4. disk["config"] # Absent
  BY <1>2, CmdOf DEF CmdInv, Source, NativeWhole, InstallFiles, Basics
<1>5. scars = {} => svc = Running(disk)
  BY <1>1, <1>2 DEF Amid, ServedBy, Writing
<1>6. scars = {} => svc' = ServedBy(y, disk)
  BY <1>1, <1>2, <1>3, <1>4, <1>5, BothIs, EnableRunning DEF ServedBy
<1>7. PICK p \in Writing \ {"save"} : p = "stage"
  BY DEF Writing
<1>8. /\ cmd[c].pc \in Writing \ {"save"} /\ cmd' = [cmd EXCEPT ![c].pc = p]
      /\ y = [cmd[c] EXCEPT !.pc = p]
  BY <1>1, <1>7 DEF Writing, y
<1>9. QED
  BY <1>1, <1>6, <1>8, OnwardWhole

LEMMA StopAccountdWhole ==
  ASSUME NodeInv, WholeInv, NEW c \in Cmd, NodeNext(c), UNCHANGED controller,
         StopAccountd(c)
  PROVE  WholeNext
<1> DEFINE y == [cmd[c] EXCEPT !.pc = "write"]
           t == [on |-> Both, sing |-> disk["config"], acct |-> FALSE]
<1>1. /\ cmd[c].pc = "stage" /\ cmd' = [cmd EXCEPT ![c].pc = "write"]
      /\ disk' = disk /\ scars' = scars /\ svc' = [svc EXCEPT !.acct = FALSE]
  BY DEF StopAccountd
<1>2. /\ Changes(cmd[c]) /\ cmd[c].kind = "migrate" /\ disk = cmd[c].found
      /\ Amid(cmd[c], disk, svc, scars) /\ disk \in Disk /\ svc \in Services
      /\ cmd[c] \in Commands
  BY <1>1, NotWritten, NodeFacts, CmdOf
<1>3. y.pc = "write" /\ y.found = cmd[c].found /\ y.kind = cmd[c].kind
  BY <1>2 DEF Commands
<1> HIDE DEF y
<1>4. scars = {} => svc = Running(disk)
  BY <1>1, <1>2 DEF Amid, ServedBy, Writing
<1>5. t \in Services /\ t.on = Both /\ t.sing = disk["config"] /\ t.acct = FALSE
  BY <1>2, FilesOf DEF Services
<1>6. /\ svc' \in Services /\ svc'.on = svc.on /\ svc'.sing = svc.sing
      /\ svc'.acct = FALSE
  BY <1>1, <1>2, AcctDown
<1> HIDE DEF t
<1>7. scars = {} => svc' = t
  <2>1. SUFFICES ASSUME scars = {}
                 PROVE  svc' = t
    OBVIOUS
  <2>2. svc.on = Both /\ svc.sing = disk["config"]
    BY <1>2, <1>4, <2>1, RunningFields
  <2>3. QED
    BY <1>5, <1>6, <2>2, ServicesSame
<1>8. t = ServedBy(y, disk)
  BY <1>2, <1>3 DEF ServedBy, t
<1>9. PICK p \in Writing \ {"save"} : p = "write"
  BY DEF Writing
<1>10. /\ cmd[c].pc \in Writing \ {"save"} /\ cmd' = [cmd EXCEPT ![c].pc = p]
       /\ y = [cmd[c] EXCEPT !.pc = p]
  BY <1>1, <1>9 DEF Writing, y
<1>11. QED
  BY <1>1, <1>7, <1>8, <1>10, OnwardWhole

LEMMA EnableStopped ==
  ASSUME NEW d \in Disk
  PROVE  /\ EnableNow(Stopped, d, Both) = Running(d)
         /\ EnableNow(Stopped, d, {"sing"})
              = [on |-> {"sing"}, sing |-> d["config"], acct |-> FALSE]
<1> DEFINE t == [on |-> {"sing"}, sing |-> d["config"], acct |-> FALSE]
           r == EnableNow(Stopped, d, {"sing"})
           b == EnableNow(Stopped, d, Both)
<1>1. /\ b \in Services /\ b.on = Stopped.on \cup Both
      /\ b.sing = (IF "sing" \in Both /\ Stopped.sing = Absent THEN d["config"]
                   ELSE Stopped.sing)
      /\ b.acct = (Stopped.acct \/ "acct" \in Both)
  BY StoppedFields, EnableNowType, BothIs
<1>2. /\ r \in Services /\ r.on = Stopped.on \cup {"sing"}
      /\ r.sing = (IF "sing" \in {"sing"} /\ Stopped.sing = Absent THEN d["config"]
                   ELSE Stopped.sing)
      /\ r.acct = (Stopped.acct \/ "acct" \in {"sing"})
  BY StoppedFields, EnableNowType, BothIs
<1>3. /\ t \in Services /\ t.on = {"sing"} /\ t.sing = d["config"] /\ t.acct = FALSE
  BY FilesOf, BothIs DEF Services
<1> HIDE DEF t, r, b
<1>4. b.on = Both /\ b.sing = d["config"] /\ b.acct
  BY <1>1, StoppedFields, BothIs
<1>5. r.on = {"sing"} /\ r.sing = d["config"] /\ ~r.acct
  BY <1>2, StoppedFields
<1>6. b = Running(d)
  BY <1>1, <1>4, RunningFields, ServicesSame
<1>7. r = t
  BY <1>2, <1>3, <1>5, ServicesSame
<1>8. QED
  BY <1>6, <1>7 DEF b, r, t

(* What a migration renders is what it found.                              *)
LEMMA MigratedSame ==
  ASSUME NodeInv, WholeInv, NEW c \in Cmd, Changes(cmd[c]), cmd[c].kind = "migrate"
  PROVE  /\ Installed(cmd[c].found) /\ cmd[c].new = Migrated(cmd[c].found)
         /\ \A f \in InstallFiles \cup {"db"} : cmd[c].found[f] # Absent
         /\ cmd[c].found \in Disk /\ cmd[c].new \in Disk /\ Agree(cmd[c].new)
         /\ cmd[c].new["VERSION"] = <<New>> /\ cmd[c].new["prog"] = <<New>>
         /\ "undo" \notin scars =>
              Agree(cmd[c].found) /\ \A f \in Basics : cmd[c].new[f] = cmd[c].found[f]
<1>1. /\ Amid(cmd[c], disk, svc, scars) /\ cmd[c].found \in Disk /\ Source(cmd[c])
      /\ ~Ends(cmd[c])
  BY AmidOf, CmdOf, CommandFields, EndedFits DEF CmdInv
<1>2. /\ NativeWhole(cmd[c].found) /\ cmd[c].new = Migrated(cmd[c].found)
  BY <1>1 DEF Source
<1>3. /\ Installed(cmd[c].found)
      /\ \A f \in InstallFiles \cup {"db"} : cmd[c].found[f] # Absent
      /\ cmd[c].found["state"] # Absent /\ cmd[c].found["users"] # Absent
  BY <1>2 DEF NativeWhole, InstallFiles, Basics, Installed
<1>4. "undo" \notin scars => Agree(cmd[c].found)
  BY <1>1, <1>3 DEF Amid, AtRest
<1>5. QED
  BY <1>1, <1>2, <1>3, <1>4, MigratedFiles

LEMMA StartServiceWhole ==
  ASSUME NodeInv, WholeInv, NEW c \in Cmd, NodeNext(c), UNCHANGED controller,
         StartService(c)
  PROVE  WholeNext
<1> DEFINE y == [cmd[c] EXCEPT !.pc = "commit"]
<1>1. /\ cmd[c].pc = "start" /\ cmd' = [cmd EXCEPT ![c].pc = "commit"]
      /\ disk' = disk /\ scars' = scars /\ disk \in Disk /\ svc \in Services
  BY NodeFacts DEF StartService
<1>2. Amid(cmd[c], disk, svc, scars) /\ cmd[c] \in Commands /\ Changes(cmd[c])
  BY <1>1, WrittenFiles, CmdOf
<1>3. y.pc = "commit" /\ y.kind = cmd[c].kind /\ y.found = cmd[c].found
  BY <1>2 DEF Commands
<1> HIDE DEF y
<1>4. scars = {} => svc = ServedBy(cmd[c], disk)
  BY <1>1, <1>2 DEF Amid, Writing
<1>5. ASSUME scars = {}
      PROVE  svc' = ServedBy(y, disk)
  <2>1. CASE cmd[c].kind = "fresh" /\ svc' = EnableNow(svc, disk, {"sing"})
    <3>1. svc = Stopped
      BY <1>1, <1>4, <1>5, <2>1 DEF ServedBy
    <3>2. QED
      BY <1>1, <1>3, <2>1, <3>1, EnableStopped DEF ServedBy
  <2>2. CASE cmd[c].kind = "migrate" /\ svc' = Restarted(svc, disk)
    <3>1. disk["config"] = cmd[c].found["config"]
      <4>1. disk["config"] = cmd[c].new["config"]
        BY <1>1, <2>2, WrittenFiles, TargetsAre DEF InstallFiles, Basics
      <4>2. cmd[c].new["config"] = cmd[c].found["config"]
        BY <1>2, <1>5, <2>2, MigratedSame DEF Basics
      <4>3. QED
        BY <4>1, <4>2
    <3>2. svc = [on |-> Both, sing |-> cmd[c].found["config"], acct |-> FALSE]
      BY <1>1, <1>4, <1>5, <2>2 DEF ServedBy
    <3>3. svc' = svc
      <4>1. /\ svc' \in Services /\ svc'.on = svc.on /\ svc'.acct = svc.acct
            /\ svc'.sing = disk["config"]
        BY <1>1, <2>2, RestartedType
      <4>2. svc.sing = disk["config"]
        BY <3>1, <3>2
      <4>3. QED
        BY <1>1, <4>1, <4>2, ServicesSame
    <3>4. QED
      BY <1>3, <2>2, <3>2, <3>3 DEF ServedBy
  <2>3. CASE cmd[c].kind = "runtime" /\ svc' = svc
    BY <1>1, <1>3, <1>4, <1>5, <2>3 DEF ServedBy
  <2>4. QED
    BY <2>1, <2>2, <2>3 DEF StartService
<1>6. QED
  BY <1>1, <1>5, StartWhole DEF y

LEMMA StartBothWhole ==
  ASSUME NodeInv, WholeInv, NEW c \in Cmd, NodeNext(c), UNCHANGED controller,
         StartRestored(c) \/ StartUndone(c)
  PROVE  WholeNext
<1> DEFINE y == [cmd[c] EXCEPT !.pc = "commit"]
<1>1. /\ cmd[c].pc = "start" /\ cmd' = [cmd EXCEPT ![c].pc = "commit"]
      /\ disk' = disk /\ scars' = scars /\ disk \in Disk
      /\ cmd[c].kind \in {"restore", "undo"} /\ svc' = EnableNow(svc, disk, Both)
  BY NodeFacts DEF StartRestored, StartUndone
<1>2. Amid(cmd[c], disk, svc, scars) /\ cmd[c] \in Commands
  BY <1>1, WrittenFiles, CmdOf
<1>3. y.pc = "commit" /\ y.kind = cmd[c].kind
  BY <1>2 DEF Commands
<1> HIDE DEF y
<1>4. scars = {} => svc = Stopped
  BY <1>1, <1>2 DEF Amid, Writing, ServedBy
<1>5. scars = {} => svc' = ServedBy(y, disk)
  BY <1>1, <1>3, <1>4, EnableStopped DEF ServedBy
<1>6. QED
  BY <1>1, <1>5, StartWhole DEF y

LEMMA FailWhole ==
  ASSUME NodeInv, WholeInv, NEW c \in Cmd, NodeNext(c), UNCHANGED controller,
         FailInstall(c) \/ FailRestore(c)
  PROVE  WholeNext
<1>1. /\ cmd[c].pc \in Writing \ {"save"} /\ cmd' = [cmd EXCEPT ![c].pc = "rollback"]
      /\ disk' = disk /\ svc' = svc /\ scars' = scars
  BY DEF FailInstall, FailRestore, Writing
<1>2. Changes(cmd[c]) /\ Amid(cmd[c], disk, svc, scars)
  BY <1>1, AmidOf DEF Changes
<1>3. /\ cmd'[c].pc = "rollback" /\ cmd'[c].kind = cmd[c].kind
      /\ cmd'[c].new = cmd[c].new /\ cmd'[c].wrote = cmd[c].wrote
      /\ cmd'[c].found = cmd[c].found /\ cmd'[c].before = cmd[c].before
      /\ cmd'[c].saved = cmd[c].saved
  BY <1>1, CmdOf DEF Commands, NodeInv, Shape
<1>4. Changes(cmd'[c])
  BY <1>3 DEF Changes
<1>5. Backed(cmd'[c])
  BY <1>1, <1>2, <1>3 DEF Amid, Backed, Writing
<1>6. Amid(cmd'[c], disk', svc', scars')
  BY <1>1, <1>2, <1>3, <1>5 DEF Amid, Midway, Writing
<1>7. QED
  BY <1>1, <1>2, <1>3, <1>4, <1>6, SoleNext

(* The backup breaks off: nothing was written, and it has what it has.     *)
LEMMA SaveBreaksWhole ==
  ASSUME NodeInv, WholeInv, NEW c \in Cmd, NodeNext(c), UNCHANGED controller,
         SaveBreaks(c)
  PROVE  WholeNext
<1>1. cmd[c].pc = "save" /\ disk' = disk /\ svc' = svc /\ scars' = scars
  BY DEF SaveBreaks
<1>2. /\ Changes(cmd[c]) /\ cmd[c].kind = "migrate" /\ cmd[c].wrote = {}
      /\ Amid(cmd[c], disk, svc, scars) /\ disk = cmd[c].found
      /\ disk \in Disk /\ cmd[c] \in Commands
  BY <1>1, NotWritten, NodeFacts, CmdOf
<1>3. PICK x : PartSaved(x, cmd[c]) /\ cmd' = [cmd EXCEPT ![c] = x]
  BY SaveBreaksTo
<1>4. PICK fs \in SUBSET File, ts \in SUBSET File :
        x = [cmd[c] EXCEPT !.pc = "rollback", !.saved = Copied(disk, fs), !.cut = ts]
  BY <1>3 DEF PartSaved
<1>5. /\ x.pc = "rollback" /\ x.kind = "migrate" /\ x.new = cmd[c].new
      /\ x.wrote = {} /\ x.found = disk /\ x.before = cmd[c].before
      /\ x.saved = Copied(disk, fs)
  BY <1>2, <1>4 DEF Commands
<1>6. cmd'[c] = x
  BY <1>3, CommandOf DEF NodeInv
<1>7. \A f \in File : x.saved[f] \in {Absent, x.found[f]}
  BY <1>2, <1>5, CopiedDisk
<1>8. Changes(x) /\ Backed(x)
  BY <1>5, <1>7 DEF Changes, Backed
<1>9. Amid(x, disk, svc, scars)
  BY <1>2, <1>5, <1>8 DEF Amid, Midway, Writing
<1>10. QED
  BY <1>1, <1>2, <1>5, <1>6, <1>8, <1>9, SoleNext

-----------------------------------------------------------------------------
(***************************************************************************)
(* A command ends: it commits, or puts the node back.                      *)
(***************************************************************************)
LEMMA EndNext ==
  ASSUME NodeInv, WholeInv, NEW c \in Cmd, NodeNext(c), UNCHANGED controller,
         Changes(cmd[c]), NEW r \in {"done", "failed"}, Finish(c, r),
         scars \subseteq scars', AtRest(disk', svc', scars')
  PROVE  WholeNext
<1>1. cmd'[c] = Ended(c, r)
  BY DEF Finish, NodeInv, Shape
<1>2. Ends(cmd'[c])
  BY <1>1, CmdOf, EndedInv
<1>3. Alone(c)
  BY AloneNext
<1>4. QED
  BY <1>2, <1>3, EndStep

LEMMA AgreeSame ==
  ASSUME NEW d, NEW e, Agree(d), \A f \in Basics : e[f] = d[f]
  PROVE  Agree(e)
  BY DEF Agree, Basics

LEMMA NodeDisk ==
  ASSUME NodeInv
  PROVE  disk \in Disk /\ svc \in Services /\ disk = [f \in File |-> disk[f]]
  BY NodeFacts, FilesOf

LEMMA CommitRuntimeRests ==
  ASSUME NodeInv, WholeInv, NEW c \in Cmd, cmd[c].pc = "commit",
         cmd[c].kind = "runtime"
  PROVE  AtRest(disk, svc, scars)
<1>1. Amid(cmd[c], disk, svc, scars)
  BY WrittenFiles
<1>2. cmd[c].found = NoFiles
  BY WrittenFiles DEF Source
<1>3. \A f \in {"state", "users", "uri", "VERSION"} : disk[f] = Absent
  <2>1. \A f \in {"state", "users", "uri", "VERSION"} :
          f \in File \ Targets(cmd[c])
    BY TargetsAre DEF File
  <2>2. QED
    BY <1>2, <2>1, WrittenFiles, NoFilesDisk
<1>4. scars = {} => svc = Stopped
  BY <1>1 DEF Amid, ServedBy, Writing
<1>5. QED
  BY <1>3, <1>4 DEF AtRest, Settled, Installed

(* The node after the installer, and how its services were before accountd *)
(* started.                                                                *)
LEMMA CommitServes ==
  ASSUME NEW s \in Services, NEW d \in Disk, NEW e \in Disk,
         "sing" \in s.on, s.on \subseteq Both, s.sing = d["config"],
         d["config"] = e["config"]
  PROVE  EnableNow(s, d, {"acct"}) = Running(e)
<1> DEFINE t == EnableNow(s, d, {"acct"})
<1>1. /\ t \in Services /\ t.on = s.on \cup {"acct"}
      /\ t.sing = (IF "sing" \in {"acct"} /\ s.sing = Absent THEN d["config"] ELSE s.sing)
      /\ t.acct = (s.acct \/ "acct" \in {"acct"})
  BY EnableNowType, BothIs
<1> HIDE DEF t
<1>2. t.on = Both /\ t.sing = e["config"] /\ t.acct
  BY <1>1 DEF Both
<1>3. t = Running(e)
  BY <1>1, <1>2, RunningFields, ServicesSame
<1>4. QED
  BY <1>3 DEF t

LEMMA InstalledRests ==
  ASSUME NodeInv, WholeInv, NEW c \in Cmd, cmd[c].pc = "commit",
         cmd[c].kind \in {"fresh", "migrate"}, CommitInstall(c), disk' \in Disk
  PROVE  AtRest(disk', svc', scars) /\ Installed(disk')
<1>1. /\ Amid(cmd[c], disk, svc, scars) /\ Changes(cmd[c])
      /\ \A f \in InstallFiles : disk[f] = cmd[c].new[f]
      /\ disk["marker"] = cmd[c].found["marker"]
  <2>1. Targets(cmd[c]) = InstallFiles
    BY TargetsAre
  <2>2. "marker" \in File \ InstallFiles
    BY DEF File, InstallFiles, Basics
  <2>3. QED
    BY <2>1, <2>2, WrittenFiles
<1>2. /\ svc' = EnableNow(svc, disk, {"acct"})
      /\ \E a : disk' = [disk EXCEPT !["db"] = a]
  BY DEF CommitInstall
<1>3. \A f \in File \ {"db"} : disk'[f] = disk[f]
  BY <1>2, NodeDisk
<1>4. /\ Agree(cmd[c].new) /\ cmd[c].new["VERSION"] = <<New>>
      /\ cmd[c].new["prog"] = <<New>>
      /\ scars = {} => cmd[c].found["marker"] = Absent
  <2>1. CASE cmd[c].kind = "fresh"
    <3>1. /\ cmd[c].new = Rendered(cmd[c].id, cmd[c].id, cmd[c].id, cmd[c].id, New)
          /\ cmd[c].found = NoFiles /\ cmd[c].id \in Run
      BY <2>1, WrittenFiles, CmdOf, CommandFields DEF Source
    <3>2. QED
      BY <3>1, RenderedDisk, NoFilesDisk DEF File
  <2>2. CASE cmd[c].kind = "migrate"
    BY <1>1, <2>2, MigratedSame DEF Amid, AtRest, Settled, Even
  <2>3. QED
    BY <2>1, <2>2
<1>5. /\ \A f \in Basics : disk'[f] = cmd[c].new[f]
      /\ disk'["VERSION"] = <<New>> /\ disk'["prog"] = <<New>>
      /\ disk'["marker"] = cmd[c].found["marker"]
  BY <1>1, <1>3, <1>4 DEF InstallFiles, Basics, File
<1>6. Agree(disk') /\ Installed(disk')
  BY <1>4, <1>5, AgreeSame, AbsentIsNot DEF Installed
<1>7. ASSUME scars = {}
      PROVE  svc' = Running(disk')
  <2>1. disk'["config"] = disk["config"]
    BY <1>3 DEF File
  <2>2. "sing" \in svc.on /\ svc.on \subseteq Both /\ svc.sing = disk["config"]
    <3>1. svc = ServedBy(cmd[c], disk)
      BY <1>1, <1>7 DEF Amid, Writing
    <3>2. CASE cmd[c].kind = "fresh"
      BY <3>1, <3>2, BothIs DEF ServedBy
    <3>3. CASE cmd[c].kind = "migrate"
      <4>1. disk["config"] = cmd[c].found["config"]
        BY <1>1, <1>7, <3>3, MigratedSame DEF InstallFiles, Basics
      <4>2. QED
        BY <3>1, <3>3, <4>1, BothIs DEF ServedBy
    <3>4. QED
      BY <3>2, <3>3
  <2>3. QED
    BY <1>2, <2>1, <2>2, NodeDisk, CommitServes
<1>8. QED
  BY <1>4, <1>5, <1>6, <1>7 DEF AtRest, Settled, Even

LEMMA NodeNextType ==
  ASSUME NodeInv, NEW c \in Cmd, NodeNext(c)
  PROVE  disk' \in Disk /\ svc' \in Services
<1>1. PICK x : Moves(c, x)
  BY NodeNextSteps DEF Steps
<1>2. QED
  BY <1>1 DEF Moves, NodeType

LEMMA CommitInstallWhole ==
  ASSUME NodeInv, WholeInv, NEW c \in Cmd, NodeNext(c), UNCHANGED controller,
         CommitInstall(c)
  PROVE  WholeNext
<1>1. /\ cmd[c].pc = "commit" /\ Finish(c, "done") /\ scars' = scars
      /\ cmd[c].kind \in {"fresh", "migrate", "runtime"}
      /\ cmd[c].kind = "runtime" => disk' = disk /\ svc' = svc
  BY DEF CommitInstall
<1>2. AtRest(disk', svc', scars')
  <2>1. CASE cmd[c].kind = "runtime"
    BY <1>1, <2>1, CommitRuntimeRests
  <2>2. CASE cmd[c].kind # "runtime"
    BY <1>1, <2>2, NodeNextType, InstalledRests
  <2>3. QED
    BY <2>1, <2>2
<1>3. Changes(cmd[c])
  BY <1>1, WrittenFiles
<1>4. QED
  BY <1>1, <1>2, <1>3, EndNext

LEMMA CommitRestoreWhole ==
  ASSUME NodeInv, WholeInv, NEW c \in Cmd, NodeNext(c), UNCHANGED controller,
         CommitRestore(c)
  PROVE  WholeNext
<1>1. /\ cmd[c].pc = "commit" /\ Finish(c, "done") /\ scars' = scars /\ svc' = svc
      /\ cmd[c].kind = "restore"
      /\ disk' = [disk EXCEPT !["VERSION"] = disk["prog"], !["marker"] = Absent]
  BY DEF CommitRestore
<1>2. /\ Changes(cmd[c]) /\ Amid(cmd[c], disk, svc, scars)
      /\ \A f \in Basics : disk[f] = cmd[c].new[f]
      /\ Agree(cmd[c].new) /\ disk["prog"] = cmd[c].found["prog"]
      /\ cmd[c].found["prog"] = <<New>>
  <2>1. "prog" \in File \ Targets(cmd[c])
    BY <1>1, TargetsAre DEF File, Basics
  <2>2. Changes(cmd[c]) /\ ~Ends(cmd[c]) /\ Source(cmd[c])
    BY <1>1, WrittenFiles
  <2>3. Agree(cmd[c].new) /\ cmd[c].found["prog"] = <<New>>
    BY <1>1, <2>2 DEF Source
  <2>4. QED
    BY <1>1, <2>1, <2>2, <2>3, WrittenFiles, TargetsAre
<1>3. /\ \A f \in Basics : disk'[f] = disk[f]
      /\ disk'["prog"] = <<New>> /\ disk'["VERSION"] = <<New>>
      /\ disk'["marker"] = Absent
  BY <1>1, <1>2, NodeDisk DEF File, Basics
<1>4. Agree(disk') /\ Installed(disk') /\ Even(disk')
  BY <1>2, <1>3, AgreeSame, AbsentIsNot DEF Installed, Even
<1>5. scars = {} => svc' = Running(disk')
  <2>1. scars = {} => svc = Running(disk)
    BY <1>1, <1>2 DEF Amid, Writing, ServedBy
  <2>2. disk'["config"] = disk["config"]
    BY <1>3 DEF Basics
  <2>3. QED
    BY <1>1, <2>1, <2>2 DEF Running
<1>6. AtRest(disk', svc', scars')
  BY <1>1, <1>4, <1>5 DEF AtRest, Settled
<1>7. QED
  BY <1>1, <1>2, <1>6, EndNext

(* What an upgrade rollback leaves.                                        *)
LEMMA UndoneFiles ==
  ASSUME NodeInv, WholeInv, NEW c \in Cmd, CommitUndo(c)
  PROVE  /\ Changes(cmd[c]) /\ Good(cmd[c].new, scars)
         /\ \A f \in File \ {"marker"} : disk'[f] = cmd[c].new[f]
         /\ scars = {} => /\ disk'["marker"] = Absent /\ cmd[c].new["marker"] = Absent
                          /\ svc' = Running(disk')
<1>1. /\ cmd[c].pc = "commit" /\ svc' = svc /\ cmd[c].kind = "undo"
      /\ disk' = [disk EXCEPT !["prog"] = cmd[c].new["prog"]]
      /\ torn' \subseteq torn
  BY DEF CommitUndo
<1>2. /\ Changes(cmd[c]) /\ ~Ends(cmd[c]) /\ Amid(cmd[c], disk, svc, scars)
  BY <1>1, WrittenFiles
<1>3. Good(cmd[c].new, scars)
  BY <1>1, <1>2 DEF WholeInv, Whole
<1>4. \A f \in File \ {"marker"} : disk'[f] = cmd[c].new[f]
  <2>1. \A f \in File \ {"marker", "prog"} : disk[f] = cmd[c].new[f]
    BY <1>1, WrittenFiles, TargetsAre DEF File, Basics
  <2>2. QED
    BY <1>1, <2>1, NodeDisk
<1>5. disk'["marker"] = cmd[c].found["marker"] /\ disk'["config"] = disk["config"]
  <2>1. "marker" \in File \ Targets(cmd[c])
    BY <1>1, TargetsAre DEF File, Basics
  <2>2. disk["marker"] = cmd[c].found["marker"]
    BY <1>1, <2>1, WrittenFiles
  <2>3. QED
    BY <1>1, <2>2, NodeDisk DEF File
<1>6. ASSUME scars = {}
      PROVE  /\ disk'["marker"] = Absent /\ cmd[c].new["marker"] = Absent
             /\ svc' = Running(disk')
  <2>1. cmd[c].found["marker"] = Absent
    BY <1>1, <1>2, <1>6 DEF Amid, AtRest, Settled, Even
  <2>2. svc = Running(disk)
    BY <1>1, <1>2, <1>6 DEF Amid, Writing, ServedBy
  <2>3. QED
    BY <1>1, <1>3, <1>5, <1>6, <2>1, <2>2 DEF Good, Even, Running
<1>7. QED
  BY <1>2, <1>3, <1>4, <1>6

LEMMA CommitUndoWhole ==
  ASSUME NodeInv, WholeInv, NEW c \in Cmd, NodeNext(c), UNCHANGED controller,
         CommitUndo(c)
  PROVE  WholeNext
<1>1. /\ Changes(cmd[c]) /\ Good(cmd[c].new, scars)
      /\ \A f \in File \ {"marker"} : disk'[f] = cmd[c].new[f]
      /\ scars = {} => disk'["marker"] = Absent /\ svc' = Running(disk')
  BY UndoneFiles
<1>2. Finish(c, "done") /\ scars' = scars
  BY DEF CommitUndo
<1>3. "undo" \notin scars => Agree(disk')
  <2>1. \A f \in Basics : disk'[f] = cmd[c].new[f]
    BY <1>1 DEF Basics, File
  <2>2. QED
    BY <1>1, <2>1, AgreeSame DEF Good
<1>4. Installed(disk')
  <2>1. NativeWhole(cmd[c].new)
    BY WrittenFiles DEF CommitUndo, Source
  <2>2. QED
    BY <1>1, <2>1 DEF NativeWhole, InstallFiles, Installed, File
<1>5. scars = {} => Even(disk')
  BY <1>1 DEF Good, Even, File
<1>6. AtRest(disk', svc', scars')
  BY <1>1, <1>2, <1>3, <1>4, <1>5 DEF AtRest, Settled
<1>7. QED
  BY <1>1, <1>2, <1>6, EndNext

(* Nothing is installed and nothing runs.                                  *)
LEMMA BareRests ==
  ASSUME NEW d, NEW s, NEW h, ~Installed(d),
         h = {} => /\ \A f \in {"state", "users", "uri"} : d[f] = Absent
                   /\ s = Stopped
  PROVE  AtRest(d, s, h)
  BY DEF AtRest, Settled

LEMMA NothingRests == \A h : AtRest(NoFiles, Stopped, h)
  BY NoFilesDisk, BareRests DEF Installed, File

LEMMA RollbackInstallWhole ==
  ASSUME NodeInv, WholeInv, NEW c \in Cmd, NodeNext(c), UNCHANGED controller,
         RollbackInstall(c)
  PROVE  WholeNext
<1>1. /\ Changes(cmd[c]) /\ Finish(c, "failed") /\ scars' = scars
      /\ disk' = NoFiles /\ svc' = Stopped
  BY DEF RollbackInstall, Changes
<1>2. AtRest(disk', svc', scars')
  BY <1>1, NothingRests
<1>3. QED
  BY <1>1, <1>2, EndNext

(* The state of a command that is to be rolled back.                       *)
LEMMA ToRollBack ==
  ASSUME NodeInv, WholeInv, NEW c \in Cmd, cmd[c].pc = "rollback"
  PROVE  /\ Changes(cmd[c]) /\ ~Ends(cmd[c]) /\ Amid(cmd[c], disk, svc, scars)
         /\ Source(cmd[c]) /\ cmd[c].kind \in Installer \cup {"restore", "undo"}
         /\ cmd[c].found \in Disk /\ cmd[c].before \in Services
         /\ cmd[c].wrote \subseteq Targets(cmd[c])
         /\ \A f \in File : \/ f \in cmd[c].wrote
                            \/ f \notin cmd[c].wrote /\ disk[f] = cmd[c].found[f]
<1>1. Changes(cmd[c]) /\ ~Ends(cmd[c]) /\ cmd[c].kind \in Installer \cup {"restore", "undo"}
      /\ cmd[c].wrote \subseteq Targets(cmd[c])
  BY ChangesFacts
<1>2. Amid(cmd[c], disk, svc, scars)
  BY <1>1, AmidOf
<1>3. Source(cmd[c]) /\ cmd[c].found \in Disk /\ cmd[c].before \in Services
  BY CmdOf, CommandFields DEF CmdInv
<1>4. QED
  BY <1>1, <1>2, <1>3 DEF Amid, Midway

(* Nothing is promised of what a rollback left in the middle.              *)
LEMMA UndoRests == \A d, s, h : "undo" \in h => AtRest(d, s, h)
  BY DEF AtRest

LEMMA WholeServices ==
  ASSUME NEW s \in Services
  PROVE  WithTorn(s, {}) = s
<1> DEFINE t == WithTorn(s, {})
<1>1. t = [s EXCEPT !.sing = s.sing, !.acct = s.acct /\ TRUE]
  BY DEF WithTorn
<1>2. t \in Services /\ t.on = s.on /\ t.sing = s.sing /\ (t.acct <=> s.acct)
  BY <1>1 DEF Services
<1> HIDE DEF t
<1>3. t = s
  BY <1>2, ServicesSame
<1>4. QED
  BY <1>3 DEF t

(* A migration with a backup that is not torn puts back the files it       *)
(* found, and the services.                                                *)
LEMMA MigrationUndone ==
  ASSUME NodeInv, WholeInv, TornInv, NEW c \in Cmd, RollbackMigration(c),
         cmd[c].cut = {}
  PROVE  /\ disk' = cmd[c].found
         /\ scars = {} => svc' = cmd[c].before /\ torn' = {}
<1> DEFINE services == PutServices(Stopped, cmd[c].before, disk')
<1>1. /\ cmd[c].pc = "rollback" /\ cmd[c].kind = "migrate"
      /\ disk' = Over(disk, cmd[c].saved)
      /\ torn' = {f \in torn : cmd[c].saved[f] = Absent} \cup cmd[c].cut
      /\ svc' = WithTorn(services, torn')
  BY DEF RollbackMigration
<1>2. /\ Changes(cmd[c]) /\ Amid(cmd[c], disk, svc, scars) /\ cmd[c].found \in Disk
      /\ cmd[c].before \in Services /\ cmd[c].wrote \subseteq InstallFiles
      /\ Backed(cmd[c])
  BY <1>1, ToRollBack, TargetsAre DEF Amid
<1>3. /\ Installed(cmd[c].found)
      /\ \A f \in InstallFiles \cup {"db"} : cmd[c].found[f] # Absent
  BY <1>1, <1>2, MigratedSame
<1>4. ASSUME NEW f \in File
      PROVE  disk'[f] = cmd[c].found[f]
  <2>1. disk'[f] = IF cmd[c].saved[f] # Absent THEN cmd[c].saved[f] ELSE disk[f]
    BY <1>1 DEF Over
  <2>2. CASE cmd[c].saved = cmd[c].found /\ cmd[c].found[f] # Absent
    BY <2>1, <2>2
  <2>3. CASE cmd[c].saved = cmd[c].found /\ cmd[c].found[f] = Absent
    <3>1. f \notin cmd[c].wrote
      BY <1>2, <1>3, <2>3
    <3>2. disk[f] = cmd[c].found[f]
      BY <1>1, <3>1, ToRollBack
    <3>3. QED
      BY <2>1, <2>3, <3>2
  <2>4. CASE cmd[c].wrote = {} /\ cmd[c].saved[f] \in {Absent, cmd[c].found[f]}
    <3>1. disk[f] = cmd[c].found[f]
      BY <1>1, <2>4, ToRollBack
    <3>2. QED
      BY <2>1, <2>4, <3>1
  <2>5. QED
    BY <1>1, <1>2, <2>2, <2>3, <2>4 DEF Backed
<1>5. disk' = cmd[c].found
  <2>1. disk' = [f \in File |-> disk'[f]]
    BY <1>1 DEF Over
  <2>2. cmd[c].found = [f \in File |-> cmd[c].found[f]]
    BY <1>2, FilesOf
  <2>3. QED
    BY <1>4, <2>1, <2>2
<1>6. ASSUME scars = {}
      PROVE  svc' = cmd[c].before /\ torn' = {}
  <2>1. cmd[c].before = Running(cmd[c].found)
    BY <1>2, <1>3, <1>6 DEF Amid, AtRest, Settled
  <2>2. /\ cmd[c].before.on = Both /\ cmd[c].before.acct
        /\ cmd[c].before.sing = cmd[c].found["config"]
    BY <1>2, <2>1, RunningFields
  <2>3. cmd[c].found["config"] # Absent
    BY <1>3 DEF InstallFiles, Basics
  <2>4. /\ services \in Services /\ services.on = cmd[c].before.on
        /\ services.acct = cmd[c].before.acct /\ services.sing = disk'["config"]
    <3>1. services \in Services
      BY <1>2, <1>5, StoppedFields, PutServicesType
    <3>2. /\ services.on = cmd[c].before.on /\ services.acct = cmd[c].before.acct
          /\ services.sing = IF cmd[c].before.sing = Absent THEN Absent
                             ELSE IF Stopped.sing = Absent THEN disk'["config"]
                             ELSE Stopped.sing
      BY <1>1 DEF PutServices
    <3> HIDE DEF services
    <3>3. QED
      BY <2>2, <2>3, <3>1, <3>2, StoppedFields
  <2> HIDE DEF services
  <2>5. services = cmd[c].before
    <3>1. services.sing = cmd[c].before.sing
      BY <1>5, <2>2, <2>4
    <3>2. QED
      BY <1>2, <2>4, <3>1, ServicesSame
  <2>6. torn' = {}
    BY <1>1, <1>6 DEF TornInv
  <2>7. QED
    BY <1>1, <1>2, <2>5, <2>6, WholeServices
<1>7. QED
  BY <1>5, <1>6

LEMMA RollbackMigrationWhole ==
  ASSUME NodeInv, WholeInv, TornInv, NEW c \in Cmd, NodeNext(c), UNCHANGED controller,
         RollbackMigration(c)
  PROVE  WholeNext
<1>1. /\ cmd[c].pc = "rollback" /\ Finish(c, "failed")
      /\ scars' = IF cmd[c].cut = {} THEN scars ELSE scars \cup {"undo"}
  BY DEF RollbackMigration
<1>2. Changes(cmd[c]) /\ AtRest(cmd[c].found, cmd[c].before, scars)
  BY <1>1, ToRollBack DEF Amid
<1>3. AtRest(disk', svc', scars')
  <2>1. CASE cmd[c].cut = {}
    <3>1. disk' = cmd[c].found /\ (scars = {} => svc' = cmd[c].before)
      BY <2>1, MigrationUndone
    <3>2. QED
      BY <1>1, <1>2, <2>1, <3>1 DEF AtRest
  <2>2. CASE cmd[c].cut # {}
    BY <1>1, <2>2, UndoRests
  <2>3. QED
    BY <2>1, <2>2
<1>4. QED
  BY <1>1, <1>2, <1>3, EndNext

LEMMA RollbackBreaksWhole ==
  ASSUME NodeInv, WholeInv, NEW c \in Cmd, NodeNext(c), UNCHANGED controller,
         RollbackBreaks(c)
  PROVE  WholeNext
<1>1. /\ cmd[c].pc = "rollback" /\ Finish(c, "failed")
      /\ scars' = scars \cup {"undo"}
  BY DEF RollbackBreaks, Unlocked
<1>2. Changes(cmd[c])
  BY <1>1 DEF Changes
<1>3. AtRest(disk', svc', scars')
  BY <1>1, UndoRests
<1>4. QED
  BY <1>1, <1>2, <1>3, EndNext

(* A restore puts back what it found, but for the config.                  *)
LEMMA RestoreUndone ==
  ASSUME NodeInv, WholeInv, NEW c \in Cmd, RollbackRestore(c), svc' \in Services
  PROVE  /\ \A f \in File \ {"config"} : disk'[f] = cmd[c].found[f]
         /\ ~Installed(cmd[c].found)
         /\ scars = {} => svc' = Stopped /\ cmd[c].before = Stopped
<1>1. /\ cmd[c].pc = "rollback" /\ cmd[c].kind = "restore"
      /\ disk' = PutBack(disk, c)
      /\ svc' = PutServices(svc, cmd[c].before, disk')
  BY DEF RollbackRestore
<1>2. Amid(cmd[c], disk, svc, scars) /\ Source(cmd[c]) /\ Changes(cmd[c])
  BY <1>1, ToRollBack
<1>3. ~Installed(cmd[c].found)
  BY <1>1, <1>2 DEF Source
<1>4. ASSUME NEW f \in File \ {"config"}
      PROVE  disk'[f] = cmd[c].found[f]
  <2>1. CASE cmd[c].found[f] # Absent
    BY <1>1, <2>1 DEF PutBack, Over
  <2>2. CASE cmd[c].found[f] = Absent /\ f \in cmd[c].wrote \cup {"VERSION"}
    BY <1>1, <2>2 DEF PutBack
  <2>3. CASE cmd[c].found[f] = Absent /\ f \notin cmd[c].wrote \cup {"VERSION"}
    <3>1. disk[f] = cmd[c].found[f]
      BY <1>1, <2>3, ToRollBack
    <3>2. QED
      BY <1>1, <2>3, <3>1 DEF PutBack, Over
  <2>4. QED
    BY <2>1, <2>2, <2>3
<1>5. ASSUME scars = {}
      PROVE  svc' = Stopped /\ cmd[c].before = Stopped
  <2>1. cmd[c].before = Stopped
    BY <1>2, <1>3, <1>5 DEF Amid, AtRest, Settled
  <2>2. svc'.on = {} /\ svc'.sing = Absent /\ ~svc'.acct
    BY <1>1, <2>1, StoppedFields DEF PutServices
  <2>3. QED
    BY <2>1, <2>2, StoppedFields, ServicesSame
<1>6. QED
  BY <1>3, <1>4, <1>5

LEMMA RollbackRestoreWhole ==
  ASSUME NodeInv, WholeInv, NEW c \in Cmd, NodeNext(c), UNCHANGED controller,
         RollbackRestore(c)
  PROVE  WholeNext
<1>1. /\ cmd[c].pc = "rollback" /\ Finish(c, "failed") /\ scars' = scars
  BY DEF RollbackRestore
<1>2. Changes(cmd[c]) /\ AtRest(cmd[c].found, cmd[c].before, scars)
  BY <1>1, ToRollBack DEF Amid
<1>3. /\ \A f \in File \ {"config"} : disk'[f] = cmd[c].found[f]
      /\ ~Installed(cmd[c].found)
      /\ scars = {} => svc' = Stopped
  BY NodeNextType, RestoreUndone
<1>4. ~Installed(disk')
  BY <1>3 DEF Installed, File
<1>5. scars = {} => \A f \in {"state", "users", "uri"} : disk'[f] = Absent
  BY <1>2, <1>3 DEF AtRest, Settled, File
<1>6. AtRest(disk', svc', scars')
  BY <1>1, <1>3, <1>4, <1>5, BareRests
<1>7. QED
  BY <1>1, <1>2, <1>6, EndNext

-----------------------------------------------------------------------------
(***************************************************************************)
(* A command is killed in the middle; the check of an install; the steps   *)
(* that are no command's.                                                  *)
(***************************************************************************)
LEMMA KilledAgrees ==
  ASSUME NodeInv, WholeInv, NEW c \in Cmd, Changes(cmd[c]), cmd[c].kind # "undo",
         "undo" \notin scars, Installed(disk)
  PROVE  Agree(disk)
<1>1. /\ cmd[c].pc \in Writing \cup {"rollback"} /\ Amid(cmd[c], disk, svc, scars)
  BY AmidOf DEF Changes
<1>2. /\ cmd[c].kind \in Installer \cup {"restore"} /\ ~Ends(cmd[c])
      /\ cmd[c].wrote \subseteq Targets(cmd[c])
  BY <1>1, ChangesFacts
<1>3. /\ Source(cmd[c]) /\ Progress(cmd[c]) /\ cmd[c].id \in Run
      /\ Uninstalled(cmd[c]) => ~Installed(disk)
  BY CmdOf, CommandFields DEF CmdInv
<1>4. Midway(cmd[c], disk)
  BY <1>1 DEF Amid
<1>5. CASE cmd[c].kind = "fresh"
  <2>1. /\ cmd[c].new = Rendered(cmd[c].id, cmd[c].id, cmd[c].id, cmd[c].id, New)
        /\ cmd[c].found = NoFiles
    BY <1>3, <1>5 DEF Source
  <2>2. "VERSION" \in cmd[c].wrote
    BY <1>4, <2>1, NoFilesDisk DEF Midway, Installed, File
  <2>3. Basics \subseteq cmd[c].wrote
    BY <1>3, <1>5, <2>2 DEF Progress
  <2>4. \A f \in Basics : disk[f] = cmd[c].new[f]
    BY <1>4, <2>3 DEF Midway, Basics, File
  <2>5. Agree(cmd[c].new)
    BY <1>3, <2>1, RenderedDisk
  <2>6. QED
    BY <2>4, <2>5, AgreeSame
<1>6. CASE cmd[c].kind = "migrate"
  <2>1. Agree(cmd[c].found) /\ \A f \in Basics : cmd[c].new[f] = cmd[c].found[f]
    BY <1>6, MigratedSame
  <2>2. \A f \in Basics : disk[f] = cmd[c].found[f]
    BY <1>4, <2>1 DEF Midway, Basics, File
  <2>3. QED
    BY <2>1, <2>2, AgreeSame
<1>7. CASE cmd[c].kind = "runtime"
  <2>1. cmd[c].found = NoFiles /\ "VERSION" \notin cmd[c].wrote
    BY <1>2, <1>3, <1>7, TargetsAre DEF Source
  <2>2. disk["VERSION"] = Absent
    BY <1>4, <2>1, NoFilesDisk DEF Midway, File
  <2>3. QED
    BY <2>2 DEF Installed
<1>8. CASE cmd[c].kind = "restore"
  BY <1>3, <1>8 DEF Uninstalled
<1>9. QED
  BY <1>2, <1>5, <1>6, <1>7, <1>8 DEF Installer

LEMMA KillWhole ==
  ASSUME NodeInv, WholeInv, NEW c \in Cmd, NodeNext(c), UNCHANGED controller,
         Kill(c) \/ FailUndo(c)
  PROVE  WholeNext
<1>1. /\ Changes(cmd[c]) /\ Finish(c, "failed") /\ disk' = disk /\ svc' = svc
      /\ scars' = scars \cup {cmd[c].kind}
  BY DEF Kill, FailUndo, Mutating, Changes, Writing
<1>2. scars \subseteq scars' /\ scars' # {}
  BY <1>1
<1>3. "undo" \notin scars' /\ Installed(disk') => Agree(disk')
  BY <1>1, KilledAgrees
<1>4. AtRest(disk', svc', scars')
  BY <1>2, <1>3 DEF AtRest
<1>5. QED
  BY <1>1, <1>2, <1>4, EndNext

LEMMA VerifyExistingWhole ==
  ASSUME NodeInv, WholeInv, NEW c \in Cmd, NodeNext(c), UNCHANGED controller,
         VerifyExisting(c)
  PROVE  WholeNext
<1>1. cmd[c].pc = "check" /\ cmd[c].pc \in Early
  BY DEF VerifyExisting, Early
<1>2. CASE Refuse(c)
  BY <1>1, <1>2, RefuseWhole
<1>3. CASE ~Refuse(c)
  <2>1. /\ Canonical(disk) /\ svc' = EnableNow(svc, disk, Both) /\ disk' = disk
        /\ \E r \in {"done", "failed"} : Finish(c, r)
        /\ scars' = IF \E b \in Cmd : Mutating(b) THEN scars \cup {"verify"} ELSE scars
    BY <1>3 DEF VerifyExisting
  <2>2. \A b \in Cmd : Mutating(b) <=> Changes(cmd[b])
    BY DEF Mutating, Changes, Writing
  <2>3. Passive(cmd[c], cmd'[c], scars) /\ Ends(cmd'[c])
    BY <1>1, <2>1, FinishPassive
  <2>4. \A b \in Cmd \ {c} : cmd'[b] = cmd[b]
    BY OthersSame
  <2>5. CASE \A b \in Cmd : ~Changes(cmd[b])
    <3>1. scars' = scars /\ AtRest(disk, svc, scars)
      BY <2>1, <2>2, <2>5 DEF WholeInv, Whole
    <3>2. ASSUME scars = {}
          PROVE  svc' = svc
      <4>1. Installed(disk) /\ disk["config"] # Absent
        BY <2>1, <3>1, <3>2 DEF AtRest, Settled, Canonical
      <4>2. svc = Running(disk)
        BY <3>1, <3>2, <4>1 DEF AtRest, Settled
      <4>3. QED
        BY <2>1, <4>1, <4>2, NodeDisk, BothIs, EnableRunning
    <3>3. AtRest(disk', svc', scars')
      BY <2>1, <3>1, <3>2 DEF AtRest
    <3>4. Alone(c)
      BY <2>5, <3>1, AloneNext
    <3>5. QED
      BY <2>3, <3>3, <3>4, EndStep
  <2>6. CASE \E b \in Cmd : Changes(cmd[b])
    <3>1. scars' = scars \cup {"verify"}
      BY <2>1, <2>2, <2>6
    <3>2. scars \subseteq scars' /\ scars' # {}
      BY <3>1
    <3>3. /\ \A d, s : AtRest(d, s, scars) => AtRest(d, s, scars')
          /\ \A d : Good(d, scars) => Good(d, scars')
      BY <3>2, MoreScars
    <3>4. ~Changes(cmd'[c]) /\ ~Changes(cmd[c])
      BY <2>3 DEF Passive
    <3>5. ASSUME NEW b \in Cmd, Changes(cmd'[b])
          PROVE  Amid(cmd'[b], disk', svc', scars')
      <4>1. cmd'[b] = cmd[b]
        BY <2>4, <3>4, <3>5
      <4>2. Amid(cmd[b], disk, svc, scars)
        BY <3>5, <4>1, AmidOf
      <4>3. QED
        BY <2>1, <3>2, <3>3, <4>1, <4>2 DEF Amid
    <3>6. ASSUME NEW b \in Cmd, cmd'[b].kind = "undo", ~Ends(cmd'[b])
          PROVE  Good(cmd'[b].new, scars')
      <4>1. cmd'[b] = cmd[b]
        BY <2>3, <2>4, <3>6
      <4>2. QED
        BY <3>3, <3>6, <4>1 DEF WholeInv, Whole
    <3>7. \A b \in Cmd : Changes(cmd'[b]) <=> Changes(cmd[b])
      BY <2>4, <3>4
    <3>8. \A k \in Ctl : ctl'[k].ck # NoFiles => Good(ctl'[k].ck, scars')
      BY <3>3 DEF controller, WholeInv, Whole
    <3>9. QED
      BY <2>6, <3>5, <3>6, <3>7, <3>8 DEF WholeInv, WholeNext, Whole
  <2>7. QED
    BY <2>5, <2>6
<1>4. QED
  BY <1>2, <1>3

LEMMA ChangeUsersWhole ==
  ASSUME NodeInv, WholeInv, "beside" \notin scars', ChangeUsers, UNCHANGED controller
  PROVE  WholeNext
<1>1. PICK u, k : /\ disk' = [disk EXCEPT !["users"] = <<u>>, !["config"] = <<k, u>>,
                                          !["uri"] = <<k, u>>]
                  /\ k = disk["state"][3]
  BY DEF ChangeUsers
<1>2. /\ Installed(disk) /\ Agree(disk) /\ lock = None
      /\ svc' = Restarted(svc, disk') /\ cmd' = cmd
      /\ scars' = scars /\ \A b \in Cmd : ~Unlocked(b)
  BY NotBeside DEF ChangeUsers
<1>3. \A b \in Cmd : ~Changes(cmd[b])
  BY <1>2, FreeIsQuiet
<1>4. AtRest(disk, svc, scars)
  BY <1>3 DEF WholeInv, Whole
<1>5. /\ disk'["users"] = <<u>> /\ disk'["config"] = <<k, u>>
      /\ disk'["uri"] = <<k, u>> /\ disk'["state"] = disk["state"]
      /\ \A f \in {"VERSION", "prog", "marker"} : disk'[f] = disk[f]
  BY <1>1, NodeDisk DEF File
<1>6. Agree(disk')
  <2>1. disk'["state"] # Absent /\ disk'["users"] # Absent
    BY <1>2, <1>5, AbsentIsNot DEF Agree
  <2>2. disk'["users"][1] = u
    <3>1. <<u>>[1] = u
      OBVIOUS
    <3>2. QED
      BY <1>5, <3>1
  <2>3. disk'["state"][3] = k
    BY <1>1, <1>5
  <2>4. QED
    BY <1>5, <2>1, <2>2, <2>3 DEF Agree
<1>7. Installed(disk')
  BY <1>2, <1>5 DEF Installed
<1>8. disk' \in Disk
  BY ChangeUsersStep DEF NodeInv, NodeType
<1>9. ASSUME scars = {}
      PROVE  Even(disk') /\ svc' = Running(disk')
  <2>1. Even(disk) /\ svc = Running(disk)
    BY <1>2, <1>4, <1>9 DEF AtRest, Settled
  <2>2. svc.on = Both /\ svc.acct
    BY <2>1, NodeDisk, RunningFields
  <2>3. /\ svc' \in Services /\ svc'.on = svc.on /\ svc'.acct = svc.acct
        /\ svc'.sing = disk'["config"]
    BY <1>2, <1>8, NodeDisk, RestartedType
  <2>4. svc' = Running(disk')
    BY <1>8, <2>2, <2>3, RunningFields, ServicesSame
  <2>5. QED
    BY <1>5, <2>1, <2>4 DEF Even
<1>10. AtRest(disk', svc', scars')
  BY <1>2, <1>6, <1>7, <1>9 DEF AtRest, Settled
<1>11. QED
  BY <1>2, <1>3, <1>10 DEF WholeInv, WholeNext, Whole, controller

LEMMA NewHostWhole ==
  ASSUME NewHost, \A k \in Ctl : ctl[k] = NoWork, UNCHANGED controller
  PROVE  WholeNext
<1>1. /\ \A c \in Cmd : cmd[c] = Idle
      /\ disk' = NoFiles /\ svc' = Stopped /\ cmd' = cmd
  BY DEF NewHost
<1>2. AtRest(disk', svc', scars')
  BY <1>1, NothingRests
<1>3. \A c \in Cmd : Ends(cmd'[c]) /\ ~Changes(cmd'[c])
  BY <1>1, IdleFields, EndedFits DEF Ends, Final
<1>4. \A k \in Ctl : ctl'[k].ck = NoFiles
  BY DEF controller, NoWork
<1>5. QED
  BY <1>2, <1>3, <1>4 DEF WholeNext, Whole

-----------------------------------------------------------------------------
(***************************************************************************)
(* The steps of the controllers.                                           *)
(***************************************************************************)
CheckpointsKept == \A k \in Ctl : ctl'[k].ck \in {NoFiles, ctl[k].ck}

LEMMA KeepsCheckpoints ==
  ASSUME NodeInv, NEW k \in Ctl,
         \/ \E pc : Step(k, pc)
         \/ \E r : Report(k, r)
         \/ \E c : Await(k, c)
         \/ \E w : Start(k, w) /\ w.ck = NoFiles
         \/ \E pc, seen : ctl' = [ctl EXCEPT ![k].pc = pc, ![k].seen = seen]
         \/ ctl' = ctl
  PROVE  CheckpointsKept
<1>1. ctl = [j \in Ctl |-> ctl[j]] /\ ctl[k] \in Works
  BY WorkFacts, Zenon DEF NodeInv, Shape
<1>2. \A j \in Ctl \ {k} : ctl'[j] = ctl[j]
  BY <1>1, Zenon DEF Step, Report, Await, Start
<1>3. ctl'[k].ck \in {NoFiles, ctl[k].ck}
  <2>1. CASE \E r : Report(k, r)
    BY <1>1, <2>1, NoWorkFields, Zenon DEF Report
  <2>2. CASE \E w : Start(k, w) /\ w.ck = NoFiles
    BY <1>1, <2>2, Zenon DEF Start
  <2>3. CASE \E pc : Step(k, pc)
    <3>1. PICK pc : ctl' = [ctl EXCEPT ![k].pc = pc]
      BY <2>3 DEF Step
    <3>2. ctl'[k] = [ctl[k] EXCEPT !.pc = pc]
      BY <1>1, <3>1, Zenon
    <3>3. QED
      BY <1>1, <3>2, Zenon DEF Works
  <2>4. CASE \E c : Await(k, c)
    <3>1. PICK c : ctl' = [ctl EXCEPT ![k].c = c, ![k].pc = "await"]
      BY <2>4 DEF Await
    <3>2. PICK w : w = [ctl[k] EXCEPT !.c = c]
      OBVIOUS
    <3>3. w.ck = ctl[k].ck
      BY <1>1, <3>2, Zenon DEF Works
    <3>4. DOMAIN w = DOMAIN ctl[k] /\ w = [x \in DOMAIN w |-> w[x]] /\ "ck" \in DOMAIN w
      BY <1>1, <3>2, Zenon DEF Works
    <3>5. ctl'[k] = [w EXCEPT !.pc = "await"]
      BY <1>1, <3>1, <3>2, Zenon
    <3>6. ctl'[k].ck = w.ck
      BY <3>4, <3>5
    <3>7. QED
      BY <3>3, <3>6
  <2>5. CASE \E pc, seen : ctl' = [ctl EXCEPT ![k].pc = pc, ![k].seen = seen]
    <3>1. PICK pc, seen : ctl' = [ctl EXCEPT ![k].pc = pc, ![k].seen = seen]
      BY <2>5
    <3>2. PICK w : w = [ctl[k] EXCEPT !.pc = pc]
      OBVIOUS
    <3>3. w.ck = ctl[k].ck
      BY <1>1, <3>2, Zenon DEF Works
    <3>4. DOMAIN w = DOMAIN ctl[k] /\ w = [x \in DOMAIN w |-> w[x]] /\ "ck" \in DOMAIN w
      BY <1>1, <3>2, Zenon DEF Works
    <3>5. ctl'[k] = [w EXCEPT !.seen = seen]
      BY <1>1, <3>1, <3>2, Zenon
    <3>6. ctl'[k].ck = w.ck
      BY <3>4, <3>5
    <3>7. QED
      BY <3>3, <3>6
  <2>6. QED
    BY <2>1, <2>2, <2>3, <2>4, <2>5
<1>4. QED
  BY <1>2, <1>3 DEF CheckpointsKept

(* The controller goes on and the node is left alone.                      *)
LEMMA WorkPassive ==
  ASSUME NodeInv, WholeInv, NodeStill, cmd' = cmd, CheckpointsKept
  PROVE  WholeNext
<1>1. \A b \in Cmd : SameCommand(cmd[b], cmd'[b])
  BY DEF SameCommand
<1>2. QED
  BY <1>1, PassiveStep DEF NodeStill, CheckpointsKept

LEMMA PhasesWhole ==
  ASSUME NodeInv, WholeInv, NEW k \in Ctl,
         \/ PlanUpgrade(k) \/ Stage(k) \/ NoUndo(k)
         \/ VerifyUpgrade(k) \/ IdentifyUpgrade(k) \/ CheckFails(k)
         \/ BeginProvision(k) \/ Payload(k) \/ Preflight(k)
         \/ Bootstrap(k) \/ Reach(k) \/ Target(k)
         \/ VerifyProvision(k) \/ IdentifyProvision(k)
         \/ Register(k) \/ SyncProvisioned(k) \/ Adopt(k)
  PROVE  WholeNext
<1>1. NodeStill /\ cmd' = cmd
  <2>1. CASE PlanUpgrade(k) \/ Stage(k) \/ NoUndo(k)
    BY <2>1 DEF PlanUpgrade, Stage, NoUndo, NodeStill, node, SameNode
  <2>2. CASE VerifyUpgrade(k) \/ IdentifyUpgrade(k) \/ CheckFails(k)
    BY <2>2 DEF VerifyUpgrade, IdentifyUpgrade, CheckFails, NodeStill, node, SameNode
  <2>3. CASE \/ BeginProvision(k) \/ Payload(k) \/ Preflight(k)
             \/ Bootstrap(k) \/ Reach(k) \/ Target(k)
    BY <2>3 DEF BeginProvision, Payload, Preflight, Bootstrap, Reach, Target,
                OnOrRefused, NodeStill, node
  <2>4. CASE \/ VerifyProvision(k) \/ IdentifyProvision(k)
             \/ Register(k) \/ SyncProvisioned(k) \/ Adopt(k)
    BY <2>4 DEF VerifyProvision, IdentifyProvision, Register, SyncProvisioned, Adopt,
                NodeStill, node, SameNode
  <2>5. QED
    BY <2>1, <2>2, <2>3, <2>4
<1>2. \A op, pc, seen : [NoWork EXCEPT !.op = op, !.pc = pc, !.seen = seen].ck = NoFiles
  BY NoWorkFields DEF Works
<1>3. \A op, pc : [NoWork EXCEPT !.op = op, !.pc = pc].ck = NoFiles
  BY NoWorkFields DEF Works
<1>4. CheckpointsKept
  <2>1. CASE PlanUpgrade(k)
    BY <1>2, <2>1, KeepsCheckpoints DEF PlanUpgrade
  <2>2. CASE BeginProvision(k)
    BY <1>3, <2>2, KeepsCheckpoints DEF BeginProvision
  <2>3. CASE Stage(k) \/ NoUndo(k) \/ VerifyUpgrade(k) \/ IdentifyUpgrade(k)
             \/ CheckFails(k)
    BY <2>3, KeepsCheckpoints DEF Stage, NoUndo, VerifyUpgrade, IdentifyUpgrade, CheckFails
  <2>4. CASE \/ Payload(k) \/ Preflight(k) \/ Bootstrap(k) \/ Reach(k) \/ Target(k)
    BY <2>4, KeepsCheckpoints
       DEF Payload, Preflight, Bootstrap, Reach, Target, OnOrRefused
  <2>5. CASE VerifyProvision(k) \/ IdentifyProvision(k)
    BY <2>5, KeepsCheckpoints DEF VerifyProvision, IdentifyProvision
  <2>6. CASE Register(k) \/ SyncProvisioned(k) \/ Adopt(k)
    BY <2>6, KeepsCheckpoints DEF Register, SyncProvisioned, Adopt
  <2>7. QED
    BY <2>1, <2>2, <2>3, <2>4, <2>5, <2>6
<1>5. QED
  BY <1>1, <1>4, WorkPassive

(* A command is begun for a controller.                                    *)
LEMMA BegunWhole ==
  ASSUME NodeInv, WholeInv, NEW k \in Ctl, NEW c \in Cmd, Await(k, c), NodeStill,
         NEW x, cmd[c] = Idle, cmd' = [cmd EXCEPT ![c] = x], ~Changes(x),
         x.kind = "undo" => Good(x.new, scars)
  PROVE  WholeNext
<1>1. cmd'[c] = x /\ \A b \in Cmd \ {c} : cmd'[b] = cmd[b]
  BY CommandOf DEF NodeInv
<1>2. ~Changes(cmd[c])
  BY IdleFields, EndedFits DEF Ends, Final
<1>3. \A b \in Cmd : SameCommand(cmd[b], cmd'[b]) \/ Passive(cmd[b], cmd'[b], scars)
  BY <1>1, <1>2 DEF SameCommand, Passive
<1>4. CheckpointsKept
  BY KeepsCheckpoints
<1>5. QED
  BY <1>3, <1>4, PassiveStep DEF NodeStill, CheckpointsKept

LEMMA StartedWhole ==
  ASSUME NodeInv, WholeInv, NEW k \in Ctl, NEW c \in Cmd,
         \/ Backup(k, c) \/ InstallUpgrade(k, c) \/ InstallProvision(k, c)
         \/ Undo(k, c)
  PROVE  WholeNext
<1>1. ASSUME NEW kind, NEW p \in {"main", "lock"}, NEW by, NEW new
      PROVE  /\ Command(kind, p, by, new).kind = kind /\ Command(kind, p, by, new).pc = p
             /\ Command(kind, p, by, new).new = new
  BY IdleFields DEF Command, Commands
<1>2. \A x : x.pc \in Early => ~Changes(x)
  BY EarlyFacts
<1>3. CASE Backup(k, c)
  <2> DEFINE x == [Idle EXCEPT !.kind = "backup", !.pc = "state", !.by = k]
  <2>1. x.kind = "backup" /\ x.pc = "state"
    BY IdleFields DEF Commands
  <2>2. /\ Await(k, c) /\ NodeStill /\ cmd[c] = Idle /\ cmd' = [cmd EXCEPT ![c] = x]
    BY <1>3 DEF Backup, RunBackup, NodeStill
  <2> HIDE DEF x
  <2>3. ~Changes(x) /\ x.kind # "undo"
    BY <1>2, <2>1 DEF Early
  <2>4. QED
    BY <2>2, <2>3, BegunWhole
<1>4. CASE InstallUpgrade(k, c) \/ InstallProvision(k, c)
  <2> DEFINE x == Command("installer", "main", k, NoFiles)
  <2>1. x.kind = "installer" /\ x.pc = "main"
    BY <1>1
  <2>2. /\ Await(k, c) /\ NodeStill /\ cmd[c] = Idle /\ cmd' = [cmd EXCEPT ![c] = x]
    BY <1>4 DEF InstallUpgrade, InstallProvision, Install, RunInstaller, Begin, NodeStill
  <2> HIDE DEF x
  <2>3. ~Changes(x) /\ x.kind # "undo"
    BY <1>2, <2>1 DEF Early
  <2>4. QED
    BY <2>2, <2>3, BegunWhole
<1>5. CASE Undo(k, c)
  <2> DEFINE x == Command("undo", "lock", k, ctl[k].ck)
  <2>1. x.kind = "undo" /\ x.pc = "lock" /\ x.new = ctl[k].ck
    BY <1>1
  <2>2. /\ Await(k, c) /\ NodeStill /\ cmd[c] = Idle /\ cmd' = [cmd EXCEPT ![c] = x]
        /\ ctl[k].pc = "undo"
    BY <1>5 DEF Undo, RunUndo, Begin, NodeStill
  <2> HIDE DEF x
  <2>3. ctl[k].ck # NoFiles
    BY <2>2, WorkFacts DEF CtlInv, CtlType, Upgrading
  <2>4. ~Changes(x) /\ Good(x.new, scars)
    BY <1>2, <2>1, <2>3 DEF Early, WholeInv, Whole
  <2>5. QED
    BY <2>2, <2>4, BegunWhole
<1>6. QED
  BY <1>3, <1>4, <1>5

LEMMA CheckpointWhole ==
  ASSUME NodeInv, WholeInv, "beside" \notin scars', NEW k \in Ctl, Checkpoint(k)
  PROVE  WholeNext
<1>1. /\ NodeStill /\ cmd' = cmd /\ lock = None
      /\ \A b \in Cmd : ~Unlocked(b)
  BY NotBeside DEF Checkpoint, NodeStill
<1>2. CASE \E r : Report(k, r)
  BY <1>1, <1>2, KeepsCheckpoints, WorkPassive
<1>3. CASE Installed(disk) /\ ctl' = [ctl EXCEPT ![k].pc = "install", ![k].ck = disk]
  <2>1. \A b \in Cmd : ~Changes(cmd[b])
    BY <1>1, FreeIsQuiet
  <2>2. AtRest(disk, svc, scars)
    BY <2>1 DEF WholeInv, Whole
  <2>3. Good(disk, scars)
    BY <1>3, <2>2 DEF AtRest, Settled, Good
  <2>4. ctl = [j \in Ctl |-> ctl[j]] /\ ctl[k] \in Works
    BY WorkFacts DEF NodeInv, Shape
  <2>5. ctl'[k].ck = disk /\ \A j \in Ctl \ {k} : ctl'[j] = ctl[j]
    BY <1>3, <2>4 DEF Works
  <2>6. \A b \in Cmd : SameCommand(cmd[b], cmd'[b])
    BY <1>1 DEF SameCommand
  <2>7. QED
    BY <1>1, <2>3, <2>5, <2>6, PassiveStep DEF NodeStill
<1>4. QED
  BY <1>2, <1>3 DEF Checkpoint

LEMMA ResultWhole ==
  ASSUME NodeInv, WholeInv, NEW k \in Ctl, Result(k) \/ Lose(k)
  PROVE  WholeNext
<1>1. PICK c \in Cmd : c = ctl[k].c
  BY WorkFacts DEF Result, Lose, CtlType
<1>2. NodeStill
  BY DEF Result, Lose, NodeStill
<1>3. CheckpointsKept
  <2>1. CASE Result(k)
    <3>1. (\E pc : Step(k, pc)) \/ (\E r : Report(k, r))
      BY <2>1 DEF Result
    <3>2. QED
      BY <3>1, KeepsCheckpoints
  <2>2. CASE Lose(k)
    <3>1. \E r : Report(k, r)
      BY <2>2 DEF Lose
    <3>2. QED
      BY <3>1, KeepsCheckpoints
  <2>3. QED
    BY <2>1, <2>2
<1>4. \A b \in Cmd \ {c} : cmd'[b] = cmd[b]
  BY <1>1 DEF Result, Lose, NodeInv, Shape
<1>5. CASE cmd[c].pc \in {"done", "failed"} /\ cmd'[c] = Idle
  <2>1. Passive(cmd[c], cmd'[c], scars)
    <3>1. ~Changes(cmd[c]) /\ ~Changes(cmd'[c]) /\ Ends(cmd'[c])
      BY <1>5, IdleFields, EndedFits DEF Ends, Final
    <3>2. QED
      BY <3>1 DEF Passive
  <2>2. \A b \in Cmd : SameCommand(cmd[b], cmd'[b]) \/ Passive(cmd[b], cmd'[b], scars)
    BY <1>4, <2>1 DEF SameCommand
  <2>3. QED
    BY <1>2, <1>3, <2>2, PassiveStep DEF NodeStill, CheckpointsKept
<1>6. CASE cmd'[c] = [cmd[c] EXCEPT !.by = None]
  <2>1. SameCommand(cmd[c], cmd'[c])
    BY <1>6, CmdOf DEF SameCommand, Commands
  <2>2. \A b \in Cmd : SameCommand(cmd[b], cmd'[b])
    BY <1>4, <2>1 DEF SameCommand
  <2>3. QED
    BY <1>2, <1>3, <2>2, PassiveStep DEF NodeStill, CheckpointsKept
<1>7. QED
  BY <1>1, <1>5, <1>6 DEF Result, Lose, NodeInv, Shape

LEMMA WorkNextWhole ==
  ASSUME NodeInv, WholeInv, "beside" \notin scars', NEW k \in Ctl, WorkNext(k)
  PROVE  WholeNext
<1>1. CASE Checkpoint(k)
  BY <1>1, CheckpointWhole
<1>2. CASE Result(k) \/ Lose(k)
  BY <1>2, ResultWhole
<1>3. CASE \E c \in Cmd : \/ Backup(k, c) \/ InstallUpgrade(k, c) \/ Undo(k, c)
                          \/ InstallProvision(k, c)
  BY <1>3, StartedWhole
<1>4. QED
  BY <1>1, <1>2, <1>3, PhasesWhole DEF WorkNext

LEMMA NodeNextWhole ==
  ASSUME NodeInv, WholeInv, TornInv, "beside" \notin scars', NEW c \in Cmd,
         NodeNext(c), UNCHANGED controller
  PROVE  WholeNext
<1>1. CASE \/ \E kind \in {"installer", "runtime"} : RunInstaller(c, kind, None)
           \/ \E a \in arch, secrets \in BOOLEAN : RunRestore(c, a, secrets)
           \/ RunBackup(c, None)
  BY <1>1, RunWhole
<1>2. CASE Main(c) \/ BackupState(c) \/ BackupRest(c) \/ BackupFails(c)
  BY <1>2, MainWhole, BackupWhole
<1>3. CASE Busy(c) \/ ArchiveRefused(c)
  <2>1. Refuse(c) /\ cmd[c].pc \in Early
    BY <1>3 DEF Busy, ArchiveRefused, Acquires, Early
  <2>2. QED
    BY <2>1, RefuseWhole
<1>4. CASE \/ PrepareRuntime(c) \/ PrepareFresh(c) \/ PrepareMigrate(c)
           \/ PrepareRestore(c) \/ PrepareUndo(c)
  BY <1>4, PrepareInstallWhole, PrepareMigrateWhole, PrepareRestoreWhole, PrepareUndoWhole
<1>5. CASE VerifyExisting(c)
  BY <1>5, VerifyExistingWhole
<1>6. CASE SaveFiles(c) \/ WaitForService(c) \/ StopAccountd(c)
  BY <1>6, SaveFilesWhole, WaitForServiceWhole, StopAccountdWhole
<1>7. CASE \/ Write(c) \/ StartService(c) \/ StartRestored(c) \/ StartUndone(c)
           \/ FailInstall(c) \/ FailRestore(c) \/ SaveBreaks(c)
  BY <1>7, WriteWhole, StartServiceWhole, StartBothWhole, FailWhole, SaveBreaksWhole
<1>8. CASE \/ CommitInstall(c) \/ CommitRestore(c) \/ CommitUndo(c)
           \/ Kill(c) \/ FailUndo(c)
  BY <1>8, CommitInstallWhole, CommitRestoreWhole, CommitUndoWhole, KillWhole
<1>9. CASE \/ RollbackInstall(c) \/ RollbackMigration(c) \/ RollbackBreaks(c)
           \/ RollbackRestore(c)
  BY <1>9, RollbackInstallWhole, RollbackMigrationWhole, RollbackBreaksWhole,
     RollbackRestoreWhole
<1>10. QED
  BY <1>1, <1>2, <1>3, <1>4, <1>5, <1>6, <1>7, <1>8, <1>9 DEF NodeNext

-----------------------------------------------------------------------------
(***************************************************************************)
(* Only a new host takes scars away, and it has no torn files.             *)
(***************************************************************************)
Scarred == scars \subseteq scars' /\ (torn' \subseteq torn \/ "undo" \in scars')

LEMMA RollbackScarred ==
  ASSUME NEW c \in Cmd,
         RollbackInstall(c) \/ RollbackMigration(c) \/ RollbackBreaks(c)
  PROVE  Scarred
<1>1. CASE RollbackInstall(c)
  BY <1>1 DEF RollbackInstall, Scarred
<1>2. CASE RollbackMigration(c) /\ cmd[c].cut = {}
  BY <1>2 DEF RollbackMigration, Scarred
<1>3. CASE RollbackMigration(c) /\ cmd[c].cut # {}
  BY <1>3 DEF RollbackMigration, Scarred
<1>4. CASE RollbackBreaks(c)
  <2>1. scars' = scars \cup {"undo"}
    BY <1>4 DEF RollbackBreaks
  <2>2. QED
    BY <2>1 DEF Scarred
<1>5. QED
  BY <1>1, <1>2, <1>3, <1>4

LEMMA ScarsStay ==
  ASSUME NEW c \in Cmd, NodeNext(c)
  PROVE  Scarred
<1>1. CASE \/ \E kind \in {"installer", "runtime"} : RunInstaller(c, kind, None)
           \/ \E a \in arch, secrets \in BOOLEAN : RunRestore(c, a, secrets)
           \/ RunBackup(c, None)
  BY <1>1 DEF RunInstaller, RunRestore, RunBackup, Scarred
<1>2. CASE \/ Main(c) \/ BackupState(c) \/ BackupRest(c) \/ BackupFails(c)
           \/ Busy(c) \/ ArchiveRefused(c) \/ VerifyExisting(c)
  BY <1>2 DEF Main, BackupState, BackupRest, BackupFails, Busy, ArchiveRefused,
              VerifyExisting, Refuse, Scarred
<1>3. CASE \/ PrepareRuntime(c) \/ PrepareFresh(c) \/ PrepareMigrate(c)
           \/ PrepareRestore(c) \/ PrepareUndo(c)
  <2>1. \/ torn' = torn /\ scars' \in {scars, Disturbed}
    BY <1>3 DEF PrepareRuntime, PrepareFresh, PrepareMigrate, PrepareRestore,
                PrepareUndo, Prepared, Refuse
  <2>2. QED
    BY <2>1 DEF Disturbed, Scarred
<1>4. CASE \/ SaveFiles(c) \/ WaitForService(c) \/ StopAccountd(c) \/ SaveBreaks(c)
  BY <1>4 DEF SaveFiles, WaitForService, StopAccountd, SaveBreaks, Scarred
<1>5. CASE \/ Write(c) \/ StartService(c) \/ StartRestored(c) \/ StartUndone(c)
           \/ FailInstall(c) \/ FailRestore(c) \/ FailUndo(c) \/ Kill(c)
  BY <1>5 DEF Write, StartService, StartRestored, StartUndone, FailInstall,
              FailRestore, FailUndo, Kill, Scarred
<1>6. CASE CommitInstall(c) \/ CommitRestore(c) \/ CommitUndo(c) \/ RollbackRestore(c)
  BY <1>6 DEF CommitInstall, CommitRestore, CommitUndo, RollbackRestore, Scarred
<1>7. CASE RollbackInstall(c) \/ RollbackMigration(c) \/ RollbackBreaks(c)
  BY <1>7, RollbackScarred
<1>8. QED
  BY <1>1, <1>2, <1>3, <1>4, <1>5, <1>6, <1>7 DEF NodeNext

LEMMA WorkScarred ==
  ASSUME NEW k \in Ctl, WorkNext(k)
  PROVE  Scarred /\ ("beside" \notin scars' => scars' = scars)
<1>1. CASE PlanUpgrade(k) \/ Stage(k) \/ NoUndo(k)
  BY <1>1 DEF PlanUpgrade, Stage, NoUndo, node, SameNode, Scarred
<1>2. CASE Checkpoint(k)
  BY <1>2 DEF Checkpoint, Disturbed, Scarred
<1>3. CASE VerifyUpgrade(k) \/ IdentifyUpgrade(k) \/ CheckFails(k)
  BY <1>3 DEF VerifyUpgrade, IdentifyUpgrade, CheckFails, node, SameNode, Scarred
<1>4. CASE Result(k) \/ Lose(k)
  BY <1>4 DEF Result, Lose, Scarred
<1>5. CASE \E c \in Cmd : \/ Backup(k, c) \/ InstallUpgrade(k, c) \/ Undo(k, c)
                          \/ InstallProvision(k, c)
  BY <1>5 DEF Backup, RunBackup, InstallUpgrade, InstallProvision, Install,
              RunInstaller, Undo, RunUndo, Scarred
<1>6. CASE \/ BeginProvision(k) \/ Payload(k) \/ Preflight(k)
           \/ Bootstrap(k) \/ Reach(k) \/ Target(k)
  BY <1>6 DEF BeginProvision, Payload, Preflight, Bootstrap, Reach, Target,
              OnOrRefused, node, Scarred
<1>7. CASE \/ VerifyProvision(k) \/ IdentifyProvision(k)
           \/ Register(k) \/ SyncProvisioned(k) \/ Adopt(k)
  BY <1>7 DEF VerifyProvision, IdentifyProvision, Register, SyncProvisioned, Adopt,
              node, SameNode, Scarred
<1>8. QED
  BY <1>1, <1>2, <1>3, <1>4, <1>5, <1>6, <1>7 DEF WorkNext

HostReplaced ==
  NewHost /\ (\A k \in Ctl : ctl[k] = NoWork) /\ UNCHANGED controller

LEMMA NextScarred ==
  ASSUME [Next]_vars, ~HostReplaced
  PROVE  Scarred
<1>1. CASE UNCHANGED vars
  BY <1>1 DEF vars, node, Scarred
<1>2. CASE \E c \in Cmd : NodeNext(c)
  BY <1>2, ScarsStay
<1>3. CASE ChangeUsers
  BY <1>3 DEF ChangeUsers, Disturbed, Scarred
<1>4. CASE \E k \in Ctl : WorkNext(k)
  BY <1>4, WorkScarred
<1>5. QED
  BY <1>1, <1>2, <1>3, <1>4, NextIs DEF HostReplaced

LEMMA TornInvHolds == Spec => []TornInv
<1>1. Init => TornInv
  BY DEF Init, NodeInit, TornInv
<1>2. TornInv /\ [Next]_vars => TornInv'
  <2>1. SUFFICES ASSUME TornInv, [Next]_vars
                 PROVE  TornInv'
    OBVIOUS
  <2>2. CASE HostReplaced
    BY <2>2 DEF HostReplaced, NewHost, TornInv
  <2>3. CASE ~HostReplaced
    BY <2>1, <2>3, NextScarred DEF Scarred, TornInv
  <2>4. QED
    BY <2>2, <2>3
<1>3. QED
  BY <1>1, <1>2, PTL DEF Spec

-----------------------------------------------------------------------------
(***************************************************************************)
(* WholeInv holds of every state of a host on which nothing ran beside a   *)
(* rollback.                                                               *)
(***************************************************************************)
LEMMA WholeInit == ASSUME Init PROVE WholeInv
<1>1. /\ cmd = [c \in Cmd |-> Idle] /\ ctl = [k \in Ctl |-> NoWork] /\ scars = {}
  BY DEF Init, NodeInit
<1> DEFINE old == Rendered(1, 1, 1, 1, Old)
<1>2. \/ disk = NoFiles /\ svc = Stopped
      \/ disk = Runtime /\ svc = Stopped
      \/ disk = old /\ svc = EnableNow(Stopped, old, Both)
  BY DEF Init, NodeInit
<1>3. /\ old \in Disk /\ Agree(old) /\ old["marker"] = Absent
      /\ old["VERSION"] = <<Old>> /\ old["prog"] = <<Old>>
  BY Constants, RenderedDisk, SMTT(30)
<1> HIDE DEF old
<1>4. AtRest(disk, svc, scars)
  <2>1. CASE disk = NoFiles /\ svc = Stopped
    BY <2>1, NothingRests
  <2>2. CASE disk = Runtime /\ svc = Stopped
    <3>1. \A f \in {"state", "users", "uri", "VERSION"} : Runtime[f] = Absent
      BY RuntimeDisk DEF InstallFiles, Basics
    <3>2. QED
      BY <2>2, <3>1, BareRests DEF Installed
  <2>3. CASE disk = old /\ svc = EnableNow(Stopped, old, Both)
    <3>1. svc = Running(disk)
      BY <1>3, <2>3, EnableStopped
    <3>2. Even(disk)
      BY <1>3, <2>3 DEF Even
    <3>3. Installed(disk) /\ Agree(disk)
      BY <1>3, <2>3, AbsentIsNot DEF Installed
    <3>4. QED
      BY <1>1, <3>1, <3>2, <3>3 DEF AtRest, Settled
  <2>4. QED
    BY <1>2, <2>1, <2>2, <2>3
<1>5. \A c \in Cmd : Ends(cmd[c]) /\ ~Changes(cmd[c])
  <2>1. Ends(Idle)
    BY IdleFields DEF Ends, Final
  <2>2. Ends(Idle) /\ ~Changes(Idle)
    BY <2>1, EndedFits
  <2>3. QED
    BY <1>1, <2>2, Zenon
<1>6. \A k \in Ctl : ctl[k].ck = NoFiles
  BY <1>1, NoWorkFields
<1>7. QED
  BY <1>4, <1>5, <1>6 DEF WholeInv, Whole

LEMMA WholeStep ==
  ASSUME NodeInv, TornInv, "beside" \in scars \/ WholeInv, [Next]_vars
  PROVE  "beside" \in scars' \/ WholeNext
<1>1. CASE HostReplaced
  BY <1>1, NewHostWhole DEF HostReplaced
<1>2. CASE ~HostReplaced /\ "beside" \notin scars'
  <2>1. WholeInv
    BY <1>2, NextScarred DEF Scarred
  <2>2. CASE UNCHANGED vars
    <3>1. cmd' = cmd /\ ctl' = ctl /\ disk' = disk /\ svc' = svc /\ scars' = scars
      BY <2>2 DEF vars, node, controller
    <3>2. QED
      BY <2>1, <3>1 DEF WholeInv, WholeNext
  <2>3. CASE \E c \in Cmd : NodeNext(c) /\ UNCHANGED controller
    BY <1>2, <2>1, <2>3, NodeNextWhole
  <2>4. CASE ChangeUsers /\ UNCHANGED controller
    BY <1>2, <2>1, <2>4, ChangeUsersWhole
  <2>5. CASE \E k \in Ctl : WorkNext(k)
    BY <1>2, <2>1, <2>5, WorkNextWhole
  <2>6. QED
    BY <1>2, <2>2, <2>3, <2>4, <2>5, NextIs DEF HostReplaced
<1>3. QED
  BY <1>1, <1>2

LEMMA WholeInvHolds == Spec => [](TornInv /\ ("beside" \in scars \/ WholeInv))
<1>1. Init => "beside" \in scars \/ WholeInv
  BY WholeInit
<1>2. NodeInv /\ TornInv /\ ("beside" \in scars \/ WholeInv) /\ [Next]_vars
        => ("beside" \in scars \/ WholeInv)'
  <2>1. SUFFICES ASSUME NodeInv, TornInv, "beside" \in scars \/ WholeInv, [Next]_vars
                 PROVE  "beside" \in scars' \/ WholeInv'
    OBVIOUS
  <2>2. "beside" \in scars' \/ WholeNext
    BY <2>1, WholeStep
  <2>3. WholeNext => WholeInv'
    BY DEF WholeInv, WholeNext, Whole, Changes, Ends, Amid, Midway, Backed, ServedBy,
       AtRest, Settled, Running, Even, Good, Installed, Agree
  <2>4. QED
    BY <2>2, <2>3
<1>3. QED
  BY <1>1, <1>2, NodeInvHolds, TornInvHolds, PTL DEF Spec

(* An installed node that no command changes is whole: its files agree and *)
(* both services run with what is on disk.                                 *)
THEOREM InstalledIsWholeHolds == Spec => []InstalledIsWhole
<1>1. TornInv /\ ("beside" \in scars \/ WholeInv) => InstalledIsWhole
  <2>1. SUFFICES ASSUME TornInv, "beside" \in scars \/ WholeInv, Installed(disk), Quiet
                 PROVE  /\ scars \cap {"undo", "beside"} = {} =>
                             Agree(disk) /\ torn = {}
                        /\ scars = {} =>
                             /\ disk["prog"] = disk["VERSION"]
                             /\ disk["marker"] = Absent
                             /\ svc = [on |-> Both, sing |-> disk["config"], acct |-> TRUE]
    BY DEF InstalledIsWhole
  <2>2. \A c \in Cmd : ~Changes(cmd[c])
    BY <2>1, Zenon DEF Quiet, Mutating, Changes, Writing
  <2>3. "beside" \in scars \/ AtRest(disk, svc, scars)
    BY <2>1, <2>2 DEF WholeInv, Whole
  <2>4. scars \cap {"undo", "beside"} = {} => Agree(disk) /\ torn = {}
    <3>1. SUFFICES ASSUME scars \cap {"undo", "beside"} = {}
                   PROVE  Agree(disk) /\ torn = {}
      OBVIOUS
    <3>2. "undo" \notin scars /\ "beside" \notin scars
      BY <3>1
    <3>3. QED
      BY <2>1, <2>3, <3>2 DEF AtRest, TornInv
  <2>5. scars = {} => Even(disk) /\ svc = Running(disk)
    BY <2>1, <2>3 DEF AtRest, Settled
  <2>6. QED
    BY <2>4, <2>5 DEF Even, Running
<1>2. QED
  BY <1>1, WholeInvHolds, PTL

-----------------------------------------------------------------------------
(***************************************************************************)
(* What a rollback leaves.                                                 *)
(***************************************************************************)
Exact(c) ==
  cmd'[c].pc # cmd[c].pc /\ scars' = {} =>
    /\ cmd[c].pc = "rollback" => PutBackExactly(c)
    /\ cmd[c].pc = "commit" /\ cmd[c].kind = "undo" => Undone(c)

(* A controller moves no command that is changing the node.                *)
LEMMA WorkKeepsChanging ==
  ASSUME NodeInv, NEW k \in Ctl, WorkNext(k), NEW c \in Cmd, Changes(cmd[c])
  PROVE  cmd'[c].pc = cmd[c].pc
<1>1. ASSUME NEW b \in Cmd, NEW x, cmd[b] = Idle, cmd' = [cmd EXCEPT ![b] = x]
      PROVE  cmd'[c].pc = cmd[c].pc
  <2>1. ~Changes(Idle)
    BY IdleFields, EndedFits DEF Ends, Final
  <2>2. c # b
    BY <1>1, <2>1
  <2>3. QED
    BY <1>1, <2>2, CommandOf DEF NodeInv
<1>2. CASE \E b \in Cmd : \/ Backup(k, b) \/ InstallUpgrade(k, b) \/ Undo(k, b)
                          \/ InstallProvision(k, b)
  <2>1. PICK b \in Cmd : \/ Backup(k, b) \/ InstallUpgrade(k, b) \/ Undo(k, b)
                         \/ InstallProvision(k, b)
    BY <1>2
  <2>2. cmd[b] = Idle /\ \E x : cmd' = [cmd EXCEPT ![b] = x]
    BY <2>1 DEF Backup, RunBackup, InstallUpgrade, InstallProvision, Install, Undo,
                RunInstaller, RunUndo, Begin
  <2>3. QED
    BY <1>1, <2>2
<1>3. CASE Result(k) \/ Lose(k)
  <2>1. PICK b \in Cmd : b = ctl[k].c
    BY <1>3, WorkFacts DEF Result, Lose, CtlType
  <2>2. CASE c # b
    BY <1>3, <2>1, <2>2 DEF Result, Lose, NodeInv, Shape
  <2>3. CASE c = b
    <3>1. cmd[c].pc \notin {"done", "failed"}
      BY EndedFits DEF Ends, Final
    <3>2. cmd'[c] = [cmd[c] EXCEPT !.by = None]
      BY <1>3, <2>1, <2>3, <3>1 DEF Result, Lose, NodeInv, Shape
    <3>3. QED
      BY <3>2, CmdOf DEF Commands
  <2>4. QED
    BY <2>2, <2>3
<1>4. CASE \/ PlanUpgrade(k) \/ Stage(k) \/ Checkpoint(k) \/ NoUndo(k)
           \/ VerifyUpgrade(k) \/ IdentifyUpgrade(k) \/ CheckFails(k)
  <2>1. cmd' = cmd
    BY <1>4 DEF PlanUpgrade, Stage, Checkpoint, NoUndo, VerifyUpgrade,
                IdentifyUpgrade, CheckFails, node, SameNode
  <2>2. QED
    BY <2>1
<1>5. CASE \/ BeginProvision(k) \/ Payload(k) \/ Preflight(k)
           \/ Bootstrap(k) \/ Reach(k) \/ Target(k)
  <2>1. cmd' = cmd
    BY <1>5 DEF BeginProvision, Payload, Preflight, Bootstrap, Reach, Target,
                OnOrRefused, node
  <2>2. QED
    BY <2>1
<1>6. CASE \/ VerifyProvision(k) \/ IdentifyProvision(k)
           \/ Register(k) \/ SyncProvisioned(k) \/ Adopt(k)
  <2>1. cmd' = cmd
    BY <1>6 DEF VerifyProvision, IdentifyProvision, Register, SyncProvisioned, Adopt,
                node, SameNode
  <2>2. QED
    BY <2>1
<1>7. QED
  BY <1>2, <1>3, <1>4, <1>5, <1>6 DEF WorkNext

(* The steps that end a rollback, or the rollback of an upgrade.           *)
LEMMA EndsRollback ==
  ASSUME NodeInv, NEW c \in Cmd, NodeNext(c), cmd[c].pc = "rollback"
  PROVE  \/ RollbackInstall(c) \/ RollbackMigration(c) \/ RollbackRestore(c)
         \/ RollbackBreaks(c) \/ Kill(c)
<1>1. cmd[c] # Idle
  BY IdleFields
<1>2. CASE \/ \E kind \in {"installer", "runtime"} : RunInstaller(c, kind, None)
           \/ \E a \in arch, secrets \in BOOLEAN : RunRestore(c, a, secrets)
           \/ RunBackup(c, None)
  BY <1>1, <1>2 DEF RunInstaller, RunRestore, RunBackup, Begin
<1>3. CASE \/ Main(c) \/ BackupState(c) \/ BackupRest(c) \/ BackupFails(c)
           \/ Busy(c) \/ ArchiveRefused(c) \/ VerifyExisting(c)
  BY <1>3 DEF Main, BackupState, BackupRest, BackupFails, Busy, ArchiveRefused,
              VerifyExisting, Acquires
<1>4. CASE \/ PrepareRuntime(c) \/ PrepareFresh(c) \/ PrepareMigrate(c)
           \/ PrepareRestore(c) \/ PrepareUndo(c)
  BY <1>4 DEF PrepareRuntime, PrepareFresh, PrepareMigrate, PrepareRestore,
              PrepareUndo, Acquires
<1>5. CASE \/ Write(c) \/ StartService(c) \/ StartRestored(c) \/ StartUndone(c)
           \/ FailInstall(c) \/ FailRestore(c) \/ FailUndo(c)
  BY <1>5 DEF Write, StartService, StartRestored, StartUndone, FailInstall,
              FailRestore, FailUndo
<1>6. CASE CommitInstall(c) \/ CommitRestore(c) \/ CommitUndo(c)
  BY <1>6 DEF CommitInstall, CommitRestore, CommitUndo
<1>7. CASE SaveFiles(c) \/ WaitForService(c) \/ StopAccountd(c) \/ SaveBreaks(c)
  BY <1>7 DEF SaveFiles, WaitForService, StopAccountd, SaveBreaks
<1>8. QED
  BY <1>2, <1>3, <1>4, <1>5, <1>6, <1>7 DEF NodeNext

LEMMA EndsUndo ==
  ASSUME NodeInv, NEW c \in Cmd, NodeNext(c), cmd[c].pc = "commit",
         cmd[c].kind = "undo"
  PROVE  CommitUndo(c) \/ Kill(c) \/ FailUndo(c)
<1>1. cmd[c] # Idle
  BY IdleFields
<1>2. CASE \/ \E kind \in {"installer", "runtime"} : RunInstaller(c, kind, None)
           \/ \E a \in arch, secrets \in BOOLEAN : RunRestore(c, a, secrets)
           \/ RunBackup(c, None)
  BY <1>1, <1>2 DEF RunInstaller, RunRestore, RunBackup, Begin
<1>3. CASE \/ Main(c) \/ BackupState(c) \/ BackupRest(c) \/ BackupFails(c)
           \/ Busy(c) \/ ArchiveRefused(c) \/ VerifyExisting(c)
  BY <1>3 DEF Main, BackupState, BackupRest, BackupFails, Busy, ArchiveRefused,
              VerifyExisting, Acquires
<1>4. CASE \/ PrepareRuntime(c) \/ PrepareFresh(c) \/ PrepareMigrate(c)
           \/ PrepareRestore(c) \/ PrepareUndo(c)
  BY <1>4 DEF PrepareRuntime, PrepareFresh, PrepareMigrate, PrepareRestore,
              PrepareUndo, Acquires
<1>5. CASE \/ Write(c) \/ StartService(c) \/ StartRestored(c) \/ StartUndone(c)
           \/ FailInstall(c) \/ FailRestore(c)
  BY <1>5 DEF Write, StartService, StartRestored, StartUndone, FailInstall, FailRestore
<1>6. CASE \/ CommitInstall(c) \/ CommitRestore(c) \/ RollbackInstall(c)
           \/ RollbackMigration(c) \/ RollbackRestore(c)
  BY <1>6 DEF CommitInstall, CommitRestore, RollbackInstall, RollbackMigration,
              RollbackRestore
<1>7. CASE \/ SaveFiles(c) \/ WaitForService(c) \/ StopAccountd(c) \/ SaveBreaks(c)
           \/ RollbackBreaks(c)
  BY <1>7 DEF SaveFiles, WaitForService, StopAccountd, SaveBreaks, RollbackBreaks,
              Unlocked
<1>8. QED
  BY <1>2, <1>3, <1>4, <1>5, <1>6, <1>7 DEF NodeNext

LEMMA KillScars ==
  ASSUME NEW c \in Cmd, Kill(c) \/ FailUndo(c) \/ RollbackBreaks(c)
  PROVE  scars' # {}
  BY DEF Kill, FailUndo, RollbackBreaks

(* A fresh installation or a runtime that fails leaves nothing, and there  *)
(* was nothing.                                                            *)
LEMMA InstallUndone ==
  ASSUME NodeInv, WholeInv, NEW c \in Cmd, RollbackInstall(c), scars = {}
  PROVE  PutBackExactly(c)
<1>1. /\ cmd[c].pc = "rollback" /\ cmd[c].kind \in {"fresh", "runtime"}
      /\ disk' = NoFiles /\ torn' = {} /\ svc' = Stopped
  BY DEF RollbackInstall
<1>2. Amid(cmd[c], disk, svc, scars) /\ Source(cmd[c]) /\ Changes(cmd[c])
  BY <1>1, ToRollBack
<1>3. cmd[c].found = NoFiles
  BY <1>1, <1>2 DEF Source
<1>4. ~Installed(NoFiles)
  BY NoFilesDisk DEF Installed, File
<1>5. cmd[c].before = Stopped
  BY <1>2, <1>3, <1>4 DEF Amid, AtRest, Settled
<1>6. QED
  BY <1>1, <1>3, <1>5 DEF PutBackExactly

LEMMA UndoneExactly ==
  ASSUME NodeInv, WholeInv, NEW c \in Cmd, NodeNext(c), CommitUndo(c), scars = {}
  PROVE  Undone(c)
<1>1. /\ \A f \in File \ {"marker"} : disk'[f] = cmd[c].new[f]
      /\ disk'["marker"] = Absent /\ cmd[c].new["marker"] = Absent
      /\ svc' = Running(disk')
  BY UndoneFiles
<1>2. disk' \in Disk
  BY NodeNextType
<1>3. PICK d \in Disk : d = disk'
  BY <1>2
<1>4. EnableNow(Stopped, d, Both) = Running(d)
  BY EnableStopped
<1>5. svc' = EnableNow(Stopped, disk', Both)
  BY <1>1, <1>3, <1>4
<1>6. QED
  BY <1>1, <1>5 DEF Undone

LEMMA NodeNextExact ==
  ASSUME NodeInv, TornInv, WholeInv, NEW b \in Cmd, NodeNext(b), NEW c \in Cmd
  PROVE  Exact(c)
<1>1. CASE c # b
  <2>1. cmd'[c] = cmd[c]
    BY <1>1, OthersSame
  <2>2. QED
    BY <2>1 DEF Exact
<1>2. ASSUME c = b, scars' = {}, cmd[c].pc = "rollback"
      PROVE  PutBackExactly(c)
  <2>1. RollbackInstall(c) \/ RollbackMigration(c) \/ RollbackRestore(c)
    BY <1>2, EndsRollback, KillScars
  <2>2. scars = {}
    BY <1>2, ScarsStay DEF Scarred
  <2>3. CASE RollbackInstall(c)
    BY <2>2, <2>3, InstallUndone
  <2>4. CASE RollbackMigration(c)
    <3>1. cmd[c].cut = {}
      BY <1>2, <2>4 DEF RollbackMigration
    <3>2. QED
      BY <2>2, <2>4, <3>1, MigrationUndone DEF PutBackExactly
  <2>5. CASE RollbackRestore(c)
    <3>1. svc' \in Services
      BY <1>2, NodeNextType
    <3>2. /\ \A f \in File \ {"config"} : disk'[f] = cmd[c].found[f]
          /\ svc' = Stopped /\ cmd[c].before = Stopped /\ cmd[c].kind = "restore"
      BY <2>2, <2>5, <3>1, RestoreUndone DEF RollbackRestore
    <3>3. torn' = {}
      BY <2>2, <2>5 DEF RollbackRestore, TornInv
    <3>4. QED
      BY <3>2, <3>3 DEF PutBackExactly
  <2>6. QED
    BY <2>1, <2>3, <2>4, <2>5
<1>3. ASSUME c = b, scars' = {}, cmd[c].pc = "commit", cmd[c].kind = "undo"
      PROVE  Undone(c)
  <2>1. CommitUndo(c)
    BY <1>3, EndsUndo, KillScars
  <2>2. scars = {}
    BY <1>3, <2>1 DEF CommitUndo
  <2>3. QED
    BY <1>3, <2>1, <2>2, UndoneExactly
<1>4. QED
  BY <1>1, <1>2, <1>3 DEF Exact

(* A command that fails and is not killed leaves files and services as it  *)
(* found them, an upgrade rollback those of the checkpoint, unless a       *)
(* backup broke off or another command ran beside the rollback.            *)
THEOREM RollbackIsExactHolds == Spec => RollbackIsExact
<1>1. ASSUME NodeInv, TornInv, WholeInv, [Next]_vars, NEW c \in Cmd
      PROVE  Exact(c)
  <2>1. CASE cmd'[c].pc = cmd[c].pc
    BY <2>1 DEF Exact
  <2>2. CASE UNCHANGED vars
    <3>1. cmd' = cmd
      BY <2>2 DEF vars, node
    <3>2. QED
      BY <3>1 DEF Exact
  <2>3. CASE \E b \in Cmd : NodeNext(b)
    BY <1>1, <2>3, NodeNextExact
  <2>4. CASE ChangeUsers \/ NewHost
    <3>1. cmd' = cmd
      BY <2>4 DEF ChangeUsers, NewHost
    <3>2. QED
      BY <3>1 DEF Exact
  <2>5. CASE \E k \in Ctl : WorkNext(k)
    <3>1. Changes(cmd[c]) => cmd'[c].pc = cmd[c].pc
      BY <1>1, <2>5, WorkKeepsChanging
    <3>2. QED
      BY <3>1 DEF Exact, Changes, Writing
  <2>6. QED
    BY <1>1, <2>2, <2>3, <2>4, <2>5, NextIs
<1>2. ASSUME NodeInv, TornInv, "beside" \in scars \/ WholeInv, [Next]_vars
      PROVE  [\A c \in Cmd : cmd'[c].pc # cmd[c].pc /\ scars' = {} =>
                /\ cmd[c].pc = "rollback" => PutBackExactly(c)
                /\ cmd[c].pc = "commit" /\ cmd[c].kind = "undo" => Undone(c)]_vars
  <2>1. \A c \in Cmd : Exact(c)
    <3>1. CASE HostReplaced
      BY <3>1 DEF HostReplaced, NewHost, Exact
    <3>2. CASE scars' # {}
      BY <3>2 DEF Exact
    <3>3. CASE scars' = {} /\ ~HostReplaced
      <4>1. WholeInv
        BY <1>2, <3>3, NextScarred DEF Scarred
      <4>2. QED
        BY <1>1, <1>2, <4>1
    <3>4. QED
      BY <3>1, <3>2, <3>3
  <2>2. QED
    BY <2>1 DEF Exact
<1>3. QED
  BY <1>2, NodeInvHolds, WholeInvHolds, PTL DEF Spec, RollbackIsExact

-----------------------------------------------------------------------------
(***************************************************************************)
(* What a controller that provisions may rely on.  A node that is          *)
(* installed, is not the one that was there first and is changed by no     *)
(* command stays so: nothing but a change of its users can begin.          *)
(***************************************************************************)
Stable(m, d) == Installed(d) /\ ~Native(d) /\ \A c \in Cmd : ~Changes(m[c])

Installing == {"installer", "fresh", "verify", "migrate"}

(* Below, w is controller k, m the commands, d the disk and h the scars.   *)
OwnCommands(k, m, d, h) ==
  \A c \in Cmd : m[c].by = k =>
    /\ m[c].kind \in Installing
    /\ h = {} /\ m[c].pc = "done" => Stable(m, d)

Provisions(k, w, m, d, h) ==
  /\ w.pc \notin {"payload", "preflight"} => ~Native(d)
  /\ OwnCommands(k, m, d, h)
  /\ h = {} /\ w.pc \in {"verify", "identity", "register", "sync"} => Stable(m, d)
  /\ h = {} /\ w.pc \in {"register", "sync"} => w.seen = Identity(d)

Reported(w, m, d, h) ==
  \A k \in Ctl : w[k].op = "provision" => Provisions(k, w[k], m, d, h)

ReportInv == Reported(ctl, cmd, disk, scars)
ReportNext == Reported(ctl', cmd', disk', scars')

-----------------------------------------------------------------------------
(***************************************************************************)
(* A step of a command.                                                    *)
(***************************************************************************)
LEMMA FinishKept ==
  ASSUME NodeInv, NEW c \in Cmd, NEW r \in {"done", "failed"}, Finish(c, r)
  PROVE  /\ ~Changes(cmd'[c])
         /\ cmd[c].by # None => cmd'[c].kind = cmd[c].kind /\ cmd'[c].pc = r
<1>1. cmd'[c] = Ended(c, r)
  BY CommandOf DEF NodeInv, Finish
<1>2. CmdType(cmd[c])
  BY CmdOf
<1>3. /\ Ends(Ended(c, r))
      /\ cmd[c].by # None => Ended(c, r).kind = cmd[c].kind /\ Ended(c, r).pc = r
  BY <1>2, EndedInv
<1>4. QED
  BY <1>1, <1>3, EndedFits

LEMMA PreparedKept ==
  ASSUME NodeInv, NEW c \in Cmd, NEW p, NEW todo, NEW new, NEW services,
         Prepared(c, p, todo, new, services)
  PROVE  cmd'[c].kind = cmd[c].kind /\ cmd'[c].pc = p
<1>1. cmd = [b \in Cmd |-> cmd[b]] /\ cmd[c] \in Commands
  BY CmdOf DEF NodeInv, Shape
<1>2. cmd' = [cmd EXCEPT ![c].pc = p, ![c].todo = todo, ![c].new = new,
                         ![c].found = disk, ![c].before = svc]
  BY DEF Prepared
<1>3. QED
  BY <1>1, <1>2 DEF Commands

LEMMA PcKept ==
  ASSUME NodeInv, NEW c \in Cmd, NEW p, cmd' = [cmd EXCEPT ![c].pc = p]
  PROVE  cmd'[c].kind = cmd[c].kind /\ cmd'[c].pc = p
<1>1. cmd = [b \in Cmd |-> cmd[b]] /\ cmd[c] \in Commands
  BY CmdOf DEF NodeInv, Shape
<1>2. QED
  BY <1>1 DEF Commands

LEMMA WriteKept ==
  ASSUME NodeInv, NEW c \in Cmd, Write(c)
  PROVE  cmd'[c].kind = cmd[c].kind /\ cmd'[c].pc \in {"write", "start"}
<1> DEFINE f == Head(cmd[c].todo)
           p == IF Tail(cmd[c].todo) = <<>> THEN "start" ELSE "write"
           x == [cmd[c] EXCEPT !.todo = Tail(cmd[c].todo),
                               !.wrote = cmd[c].wrote \cup {f}, !.pc = p]
<1>1. cmd' = [cmd EXCEPT ![c] = x]
  BY DEF Write
<1>2. p \in {"write", "start"}
  OBVIOUS
<1> HIDE DEF p, f
<1>3. x.kind = cmd[c].kind /\ x.pc = p
  BY CmdOf DEF Commands
<1> HIDE DEF x
<1>4. QED
  BY <1>1, <1>2, <1>3, CommandOf DEF NodeInv

LEMMA MainKept ==
  ASSUME NodeInv, NEW c \in Cmd, Main(c)
  PROVE  /\ disk' = disk /\ ~Changes(cmd'[c])
         /\ cmd[c].by # None =>
              /\ cmd'[c].pc # "done"
              /\ cmd[c].kind \in Installing => cmd'[c].kind \in Installing
<1>1. /\ cmd = [b \in Cmd |-> cmd[b]] /\ cmd[c] \in Commands
  BY CmdOf DEF NodeInv, Shape
<1>2. CASE Refuse(c)
  BY <1>2, FinishKept DEF Refuse
<1>3. CASE ~Refuse(c)
  <2>1. PICK kind \in {"runtime", "fresh", "verify", "migrate"}, p \in {"lock", "check"} :
          \/ /\ cmd' = [cmd EXCEPT ![c].kind = kind, ![c].pc = p]
             /\ kind \in {"fresh", "verify", "migrate"}
          \/ cmd' = [cmd EXCEPT ![c].pc = p] /\ cmd[c].kind = kind
    BY <1>1, <1>3, ZenonT(60) DEF Main
  <2>2. /\ cmd'[c].pc = p /\ cmd'[c].kind = kind
        /\ kind = "runtime" => cmd[c].kind = "runtime"
    BY <1>1, <2>1 DEF Commands
  <2>3. disk' = disk
    BY <1>3 DEF Main
  <2>4. QED
    BY <2>2, <2>3 DEF Installing, Changes, Writing
<1>4. QED
  BY <1>2, <1>3

(* A command that a controller waits for keeps its kind; one of the        *)
(* installer is done when it has committed or verified.                    *)
LEMMA OwnedStep ==
  ASSUME NodeInv, NEW c \in Cmd, NodeNext(c), cmd[c].by # None,
         cmd[c].kind \in Installing
  PROVE  /\ cmd'[c].kind \in Installing
         /\ cmd'[c].pc = "done" => CommitInstall(c) \/ VerifyExisting(c)
<1>1. cmd[c] # Idle
  BY IdleFields
<1>2. CASE \/ \E kind \in {"installer", "runtime"} : RunInstaller(c, kind, None)
           \/ \E a \in arch, secrets \in BOOLEAN : RunRestore(c, a, secrets)
           \/ RunBackup(c, None)
  BY <1>1, <1>2 DEF RunInstaller, RunRestore, RunBackup, Begin
<1>3. CASE Main(c)
  BY <1>3, MainKept
<1>4. CASE BackupState(c) \/ BackupRest(c) \/ BackupFails(c)
  <2>1. cmd[c].kind = "backup"
    BY <1>4, CmdOf DEF BackupState, BackupRest, BackupFails, CmdType, KindFits
  <2>2. QED
    BY <2>1 DEF Installing
<1>5. CASE Refuse(c)
  BY <1>5, FinishKept DEF Refuse
<1>6. CASE PrepareFresh(c) \/ PrepareMigrate(c)
  <2>1. CASE Refuse(c)
    BY <1>5, <2>1
  <2>2. CASE ~Refuse(c)
    <3>1. PICK p \in {"write", "save"} :
            \E todo, new, services : Prepared(c, p, todo, new, services)
      BY <1>6, <2>2 DEF PrepareFresh, PrepareMigrate
    <3>2. QED
      BY <3>1, PreparedKept
  <2>3. QED
    BY <2>1, <2>2
<1>7. CASE PrepareRuntime(c) \/ PrepareRestore(c) \/ PrepareUndo(c)
  BY <1>7 DEF PrepareRuntime, PrepareRestore, PrepareUndo, Installing
<1>8. CASE VerifyExisting(c) \/ CommitInstall(c)
  <2>1. \E r \in {"done", "failed"} : Finish(c, r)
    BY <1>8 DEF VerifyExisting, CommitInstall, Refuse
  <2>2. QED
    BY <1>8, <2>1, FinishKept
<1>9. CASE Write(c)
  BY <1>9, WriteKept
<1>10. CASE StartService(c) \/ FailInstall(c) \/ WaitForService(c) \/ StopAccountd(c)
  <2>1. \E p \in {"commit", "rollback", "stage", "write"} : cmd' = [cmd EXCEPT ![c].pc = p]
    BY <1>10 DEF StartService, FailInstall, WaitForService, StopAccountd
  <2>2. QED
    BY <2>1, PcKept
<1>11. CASE \/ StartRestored(c) \/ StartUndone(c) \/ FailRestore(c) \/ FailUndo(c)
            \/ CommitRestore(c) \/ CommitUndo(c) \/ RollbackRestore(c)
  BY <1>11 DEF StartRestored, StartUndone, FailRestore, FailUndo, CommitRestore,
               CommitUndo, RollbackRestore, Installing
<1>12. CASE RollbackInstall(c) \/ RollbackMigration(c) \/ RollbackBreaks(c) \/ Kill(c)
  <2>1. Finish(c, "failed")
    BY <1>12 DEF RollbackInstall, RollbackMigration, RollbackBreaks, Kill
  <2>2. QED
    BY <2>1, FinishKept
<1>13. CASE Busy(c) \/ ArchiveRefused(c)
  BY <1>5, <1>13 DEF Busy, ArchiveRefused
<1>14. CASE SaveFiles(c) \/ SaveBreaks(c)
  <2>1. PICK p \in {"health", "rollback"} : \E saved, cut :
          cmd' = [cmd EXCEPT ![c].pc = p, ![c].saved = saved, ![c].cut = cut]
    BY <1>14 DEF SaveFiles, SaveBreaks
  <2>2. PICK saved, cut :
          cmd' = [cmd EXCEPT ![c].pc = p, ![c].saved = saved, ![c].cut = cut]
    BY <2>1
  <2>3. cmd = [b \in Cmd |-> cmd[b]] /\ cmd[c] \in Commands
    BY CmdOf DEF NodeInv, Shape
  <2>4. cmd'[c].kind = cmd[c].kind /\ cmd'[c].pc = p
    BY <2>2, <2>3 DEF Commands
  <2>5. QED
    BY <2>4
<1>15. QED
  BY <1>2, <1>3, <1>4, <1>6, <1>7, <1>8, <1>9, <1>10, <1>11, <1>12, <1>13, <1>14
     DEF NodeNext

(* Nothing that is under way changes a stable node.                        *)
LEMMA StaysStable ==
  ASSUME NodeInv, NEW c \in Cmd, NodeNext(c), Stable(cmd, disk)
  PROVE  disk' = disk /\ Stable(cmd', disk')
<1>1. disk' = disk /\ ~Changes(cmd'[c])
  <2>1. ~Changes(cmd[c]) /\ Installed(disk) /\ ~Native(disk) /\ NativeFits(cmd[c])
    BY CmdOf DEF Stable
  <2>2. CASE Refuse(c)
    BY <2>2, FinishKept DEF Refuse
  <2>3. CASE \/ \E kind \in {"installer", "runtime"} : RunInstaller(c, kind, None)
             \/ \E a \in arch, secrets \in BOOLEAN : RunRestore(c, a, secrets)
             \/ RunBackup(c, None)
    <3>1. ASSUME NEW kind, NEW p \in {"main", "lock"}, NEW by, NEW new
          PROVE  ~Changes(Command(kind, p, by, new))
      <4>1. Command(kind, p, by, new).pc = p
        BY IdleFields DEF Command, Commands
      <4>2. QED
        BY <4>1 DEF Changes, Writing
    <3>2. CASE \E kind \in {"installer", "runtime"} : RunInstaller(c, kind, None)
      <4>1. PICK kind \in {"installer", "runtime"} : RunInstaller(c, kind, None)
        BY <3>2
      <4>2. /\ cmd' = [cmd EXCEPT ![c] = Command(kind, "main", None, NoFiles)]
            /\ disk' = disk
        BY <4>1 DEF RunInstaller, Begin
      <4>3. QED
        BY <3>1, <4>2, CommandOf DEF NodeInv
    <3>3. CASE \E a \in arch, secrets \in BOOLEAN : RunRestore(c, a, secrets)
      <4>1. PICK a \in arch, secrets \in BOOLEAN : RunRestore(c, a, secrets)
        BY <3>3
      <4>2. PICK new : new = Planned(a, secrets, runs + 1)
        OBVIOUS
      <4>3. /\ cmd' = [cmd EXCEPT ![c] = Command("restore", "lock", None, new)]
            /\ disk' = disk
        BY <4>1, <4>2 DEF RunRestore, Begin
      <4>4. QED
        BY <3>1, <4>3, CommandOf DEF NodeInv
    <3>4. CASE RunBackup(c, None)
      <4> DEFINE x == [Idle EXCEPT !.kind = "backup", !.pc = "state", !.by = None]
      <4>1. x.pc = "state"
        BY IdleFields DEF Commands
      <4>2. cmd' = [cmd EXCEPT ![c] = x] /\ disk' = disk
        BY <3>4 DEF RunBackup
      <4> HIDE DEF x
      <4>3. QED
        BY <4>1, <4>2, CommandOf DEF NodeInv, Changes, Writing
    <3>5. QED
      BY <2>3, <3>2, <3>3, <3>4
  <2>4. CASE Main(c)
    BY <2>4, MainKept
  <2>5. CASE BackupState(c) \/ BackupRest(c)
    <3>1. CASE ~Refuse(c) /\ BackupState(c)
      <4>1. cmd = [b \in Cmd |-> cmd[b]] /\ cmd[c] \in Commands
        BY CmdOf DEF NodeInv, Shape
      <4>2. /\ disk' = disk
            /\ \E new : cmd' = [cmd EXCEPT ![c].pc = "users", ![c].new["state"] = new]
        BY <3>1 DEF BackupState
      <4>3. cmd'[c].pc = "users"
        BY <4>1, <4>2 DEF Commands
      <4>4. QED
        BY <4>2, <4>3 DEF Changes, Writing
    <3>2. CASE ~Refuse(c) /\ BackupRest(c)
      BY <3>2, FinishKept DEF BackupRest
    <3>3. QED
      BY <2>2, <2>5, <3>1, <3>2
  <2>6. CASE Busy(c) \/ ArchiveRefused(c) \/ BackupFails(c)
    BY <2>2, <2>6 DEF Busy, ArchiveRefused, BackupFails
  <2>7. CASE PrepareRuntime(c) \/ PrepareFresh(c) \/ PrepareRestore(c)
    <3>1. disk # NoFiles
      BY <2>1, NoFilesDisk DEF Installed, File
    <3>2. Refuse(c)
      BY <2>1, <2>7, <3>1 DEF PrepareRuntime, PrepareFresh, PrepareRestore, Clean,
                              MayRestore
    <3>3. QED
      BY <2>2, <3>2
  <2>8. CASE PrepareMigrate(c) \/ PrepareUndo(c)
    <3>1. cmd[c].kind \in {"migrate", "undo"} /\ cmd[c].pc \in Early
      BY <2>8, LockPc DEF PrepareMigrate, PrepareUndo, Acquires
    <3>2. QED
      BY <2>1, <3>1, EarlyFacts DEF NativeFits
  <2>9. CASE VerifyExisting(c)
    BY <2>2, <2>9, FinishKept DEF VerifyExisting
  <2>10. CASE \/ Write(c) \/ StartService(c) \/ StartRestored(c) \/ StartUndone(c)
              \/ FailInstall(c) \/ FailRestore(c) \/ FailUndo(c)
             \/ SaveFiles(c) \/ WaitForService(c) \/ StopAccountd(c) \/ SaveBreaks(c)
    BY <2>1, <2>10 DEF Write, StartService, StartRestored, StartUndone, FailInstall,
                       FailRestore, FailUndo, SaveFiles, WaitForService, StopAccountd,
                       SaveBreaks, Changes, Writing
  <2>11. CASE \/ CommitInstall(c) \/ CommitRestore(c) \/ CommitUndo(c)
              \/ RollbackInstall(c) \/ RollbackMigration(c) \/ RollbackRestore(c)
              \/ RollbackBreaks(c) \/ Kill(c)
    BY <2>1, <2>11 DEF CommitInstall, CommitRestore, CommitUndo, RollbackInstall,
                       RollbackMigration, RollbackRestore, RollbackBreaks, Unlocked,
                       Kill, Mutating, Changes, Writing
  <2>12. QED
    BY <2>3, <2>4, <2>5, <2>6, <2>7, <2>8, <2>9, <2>10, <2>11 DEF NodeNext
<1>2. \A b \in Cmd \ {c} : ~Changes(cmd'[b])
  BY OthersSame DEF Stable
<1>3. QED
  BY <1>1, <1>2 DEF Stable

-----------------------------------------------------------------------------
(***************************************************************************)
(* ReportInv is kept by the commands.                                      *)
(***************************************************************************)
LEMMA InstallerDone ==
  ASSUME NodeInv, "beside" \in scars \/ WholeInv, NEW c \in Cmd, NodeNext(c),
         cmd[c].by # None, cmd[c].kind \in Installing, cmd'[c].pc = "done",
         ~Native(disk'), scars' = {}
  PROVE  Stable(cmd', disk')
<1>1. /\ CommitInstall(c) \/ VerifyExisting(c)
      /\ WholeInv
  BY OwnedStep, ScarsStay DEF Scarred
<1>2. ~Changes(cmd'[c])
  <2>1. \E r \in {"done", "failed"} : Finish(c, r)
    BY <1>1 DEF VerifyExisting, CommitInstall, Refuse
  <2>2. QED
    BY <2>1, FinishKept
<1>3. CASE CommitInstall(c)
  <2>1. cmd[c].pc = "commit" /\ cmd[c].kind \in {"fresh", "migrate"}
    BY <1>3 DEF CommitInstall, Installing
  <2>2. Installed(disk')
    BY <1>1, <1>3, <2>1, InstalledRests, NodeNextType
  <2>3. Changes(cmd[c])
    BY <2>1, ChangesFacts DEF Writing
  <2>4. \A b \in Cmd \ {c} : ~Changes(cmd[b])
    BY <1>1, <2>3 DEF WholeInv, Whole
  <2>5. \A b \in Cmd \ {c} : ~Changes(cmd'[b])
    BY <2>4, OthersSame
  <2>6. QED
    BY <1>2, <2>2, <2>5 DEF Stable
<1>4. CASE VerifyExisting(c)
  <2>1. CASE Refuse(c)
    <3>1. cmd'[c].pc = "failed"
      BY <2>1, FinishKept DEF Refuse
    <3>2. QED
      BY <3>1
  <2>2. CASE ~Refuse(c)
    <3>1. /\ Canonical(disk) /\ disk' = disk
          /\ scars' = IF \E b \in Cmd : Mutating(b) THEN scars \cup {"verify"} ELSE scars
      BY <1>4, <2>2 DEF VerifyExisting
    <3>2. scars = {} /\ \A b \in Cmd : ~Mutating(b)
      BY <3>1
    <3>3. \A b \in Cmd : ~Changes(cmd[b])
      BY <3>2 DEF Mutating, Changes, Writing
    <3>4. AtRest(disk, svc, scars)
      BY <1>1, <3>3 DEF WholeInv, Whole
    <3>5. Installed(disk)
      BY <3>1, <3>2, <3>4 DEF AtRest, Settled, Canonical
    <3>6. \A b \in Cmd \ {c} : ~Changes(cmd'[b])
      BY <3>3, OthersSame
    <3>7. QED
      BY <1>2, <3>1, <3>5, <3>6 DEF Stable
  <2>3. QED
    BY <2>1, <2>2
<1>5. QED
  BY <1>1, <1>3, <1>4

LEMMA NodeNextReport ==
  ASSUME NodeInv, "beside" \in scars \/ WholeInv, ReportInv, NEW c \in Cmd,
         NodeNext(c), UNCHANGED controller
  PROVE  ReportNext
<1>1. PICK x : Moves(c, x) /\ SameOwner(c, x)
  BY NodeNextSteps DEF Steps
<1>2. cmd'[c] = x /\ x.by = cmd[c].by /\ (Native(disk') <=> Native(disk))
  BY <1>1, CommandOf DEF NodeInv, Moves, SameOwner, NativeSame
<1>3. ctl' = ctl /\ (scars' = {} => scars = {})
  BY ScarsStay DEF controller, Scarred
<1>4. Stable(cmd, disk) => disk' = disk /\ Stable(cmd', disk')
  BY StaysStable
<1>5. ASSUME NEW k \in Ctl, ctl[k].op = "provision"
      PROVE  Provisions(k, ctl[k], cmd', disk', scars')
  <2>1. Provisions(k, ctl[k], cmd, disk, scars)
    BY <1>5 DEF ReportInv, Reported
  <2>2. ASSUME NEW b \in Cmd, cmd'[b].by = k
        PROVE  /\ cmd'[b].kind \in Installing
               /\ scars' = {} /\ cmd'[b].pc = "done" => Stable(cmd', disk')
    <3>1. CASE b # c
      <4>1. cmd'[b] = cmd[b]
        BY <3>1, OthersSame
      <4>2. QED
        BY <1>3, <1>4, <2>1, <2>2, <4>1 DEF Provisions, OwnCommands
    <3>2. CASE b = c
      <4>1. cmd[c].by = k /\ k # None
        BY <1>2, <2>2, <3>2, Constants
      <4>2. cmd[c].kind \in Installing
        BY <2>1, <4>1 DEF Provisions, OwnCommands
      <4>3. ctl[k].pc = "await"
        BY <4>1 DEF NodeInv, AwaitInv
      <4>4. ~Native(disk')
        BY <1>2, <2>1, <4>3 DEF Provisions
      <4>5. QED
        BY <3>2, <4>1, <4>2, <4>4, OwnedStep, InstallerDone
    <3>3. QED
      BY <3>1, <3>2
  <2>3. OwnCommands(k, cmd', disk', scars')
    BY <2>2 DEF OwnCommands
  <2>4. QED
    BY <1>2, <1>3, <1>4, <2>1, <2>3 DEF Provisions
<1>6. QED
  BY <1>3, <1>5 DEF ReportNext, Reported

LEMMA ChangeUsersReport ==
  ASSUME NodeInv, ReportInv, ChangeUsers, UNCHANGED controller
  PROVE  ReportNext
<1>1. disk = [f \in File |-> disk[f]]
  BY NodeDisk
<1>2. disk'["state"] = disk["state"] /\ disk'["VERSION"] = disk["VERSION"]
  BY <1>1 DEF ChangeUsers, File
<1>3. cmd' = cmd /\ (scars' = {} => scars = {}) /\ ctl' = ctl
  BY DEF ChangeUsers, Disturbed, controller
<1>4. /\ Native(disk') <=> Native(disk)
      /\ Stable(cmd, disk) => Stable(cmd', disk')
      /\ Identity(disk') = Identity(disk)
  BY <1>2, <1>3 DEF Native, Stable, Installed, Identity
<1>5. ASSUME NEW k \in Ctl, ctl[k].op = "provision"
      PROVE  Provisions(k, ctl[k], cmd', disk', scars')
  <2>1. Provisions(k, ctl[k], cmd, disk, scars)
    BY <1>5 DEF ReportInv, Reported
  <2>2. OwnCommands(k, cmd', disk', scars')
    BY <1>3, <1>4, <2>1 DEF Provisions, OwnCommands
  <2>3. QED
    BY <1>3, <1>4, <2>1, <2>2 DEF Provisions
<1>6. QED
  BY <1>3, <1>5 DEF ReportNext, Reported

-----------------------------------------------------------------------------
(***************************************************************************)
(* ReportInv is kept by the controllers.                                   *)
(***************************************************************************)
LEMMA WorkCommands ==
  ASSUME NodeInv, NEW k \in Ctl, WorkNext(k), NEW b \in Cmd
  PROVE  /\ Changes(cmd'[b]) => Changes(cmd[b])
         /\ \A j \in Ctl \ {k} : cmd'[b].by = j => cmd'[b] = cmd[b]
<1>1. ASSUME NEW c \in Cmd, NEW x, cmd' = [cmd EXCEPT ![c] = x], x.by = k,
             x.pc \in Early
      PROVE  /\ Changes(cmd'[b]) => Changes(cmd[b])
             /\ \A j \in Ctl \ {k} : cmd'[b].by = j => cmd'[b] = cmd[b]
  <2>1. cmd'[c] = x /\ \A d \in Cmd \ {c} : cmd'[d] = cmd[d]
    BY <1>1, CommandOf DEF NodeInv
  <2>2. ~Changes(x)
    BY <1>1, EarlyFacts
  <2>3. QED
    BY <1>1, <2>1, <2>2
<1>2. ASSUME NEW kind, NEW p \in {"main", "lock"}, NEW by, NEW new
      PROVE  Command(kind, p, by, new).pc = p /\ Command(kind, p, by, new).by = by
  BY IdleFields DEF Command, Commands
<1>3. CASE \E c \in Cmd : Backup(k, c)
  <2>1. PICK c \in Cmd : Backup(k, c)
    BY <1>3
  <2> DEFINE x == [Idle EXCEPT !.kind = "backup", !.pc = "state", !.by = k]
  <2>2. x.pc = "state" /\ x.by = k
    BY IdleFields DEF Commands
  <2>3. cmd' = [cmd EXCEPT ![c] = x]
    BY <2>1 DEF Backup, RunBackup
  <2> HIDE DEF x
  <2>4. QED
    BY <1>1, <2>2, <2>3 DEF Early
<1>4. CASE \E c \in Cmd : InstallUpgrade(k, c) \/ InstallProvision(k, c)
  <2>1. PICK c \in Cmd : InstallUpgrade(k, c) \/ InstallProvision(k, c)
    BY <1>4
  <2> DEFINE x == Command("installer", "main", k, NoFiles)
  <2>2. x.pc = "main" /\ x.by = k
    BY <1>2
  <2>3. cmd' = [cmd EXCEPT ![c] = x]
    BY <2>1 DEF InstallUpgrade, InstallProvision, Install, RunInstaller, Begin
  <2> HIDE DEF x
  <2>4. QED
    BY <1>1, <2>2, <2>3 DEF Early
<1>5. CASE \E c \in Cmd : Undo(k, c)
  <2>1. PICK c \in Cmd : Undo(k, c)
    BY <1>5
  <2> DEFINE x == Command("undo", "lock", k, ctl[k].ck)
  <2>2. x.pc = "lock" /\ x.by = k
    BY <1>2
  <2>3. cmd' = [cmd EXCEPT ![c] = x]
    BY <2>1 DEF Undo, RunUndo, Begin
  <2> HIDE DEF x
  <2>4. QED
    BY <1>1, <2>2, <2>3 DEF Early
<1>6. CASE Result(k) \/ Lose(k)
  <2>1. PICK c \in Cmd : c = ctl[k].c
    BY <1>6, WorkFacts DEF Result, Lose, CtlType
  <2>2. CASE b # c
    BY <1>6, <2>1, <2>2 DEF Result, Lose, NodeInv, Shape
  <2>3. CASE b = c
    <3>1. cmd'[b] = Idle \/ cmd'[b] = [cmd[b] EXCEPT !.by = None]
      BY <1>6, <2>1, <2>3 DEF Result, Lose, NodeInv, Shape
    <3>2. CASE cmd'[b] = Idle
      <4>1. ~Changes(Idle) /\ Idle.by = None
        BY IdleFields DEF Changes, Writing
      <4>2. QED
        BY <3>2, <4>1, Constants
    <3>3. CASE cmd'[b] = [cmd[b] EXCEPT !.by = None]
      <4>1. cmd'[b].pc = cmd[b].pc /\ cmd'[b].by = None
        BY <3>3, CmdOf DEF Commands
      <4>2. QED
        BY <4>1, Constants DEF Changes
    <3>4. QED
      BY <3>1, <3>2, <3>3
  <2>4. QED
    BY <2>2, <2>3
<1>7. CASE cmd' = cmd
  BY <1>7
<1>8. CASE \/ PlanUpgrade(k) \/ Stage(k) \/ Checkpoint(k) \/ NoUndo(k)
           \/ VerifyUpgrade(k) \/ IdentifyUpgrade(k) \/ CheckFails(k)
  BY <1>7, <1>8 DEF PlanUpgrade, Stage, Checkpoint, NoUndo, VerifyUpgrade,
                    IdentifyUpgrade, CheckFails, node, SameNode
<1>9. CASE \/ BeginProvision(k) \/ Payload(k) \/ Preflight(k)
           \/ Bootstrap(k) \/ Reach(k) \/ Target(k)
  BY <1>7, <1>9 DEF BeginProvision, Payload, Preflight, Bootstrap, Reach, Target,
                    OnOrRefused, node
<1>10. CASE \/ VerifyProvision(k) \/ IdentifyProvision(k)
            \/ Register(k) \/ SyncProvisioned(k) \/ Adopt(k)
  BY <1>7, <1>10 DEF VerifyProvision, IdentifyProvision, Register, SyncProvisioned,
                     Adopt, node, SameNode
<1>11. QED
  BY <1>3, <1>4, <1>5, <1>6, <1>8, <1>9, <1>10 DEF WorkNext

(* A controller leaves the node, and the others, alone.                    *)
LEMMA WorkStill ==
  ASSUME NodeInv, NEW k \in Ctl, WorkNext(k)
  PROVE  /\ disk' = disk /\ (scars' = {} => scars = {})
         /\ Stable(cmd, disk) => Stable(cmd', disk')
         /\ \A j \in Ctl \ {k} : ctl'[j] = ctl[j]
         /\ \A j \in Ctl \ {k} : told'[j] = told[j]
<1>1. disk' = disk
  BY WorkNextKeeps
<1>2. Stable(cmd, disk) => Stable(cmd', disk')
  BY <1>1, WorkCommands DEF Stable
<1>3. ctl = [j \in Ctl |-> ctl[j]] /\ told = [j \in Ctl |-> told[j]]
  BY DEF NodeInv, Shape
<1>4. \A j \in Ctl \ {k} : ctl'[j] = ctl[j] /\ told'[j] = told[j]
  <2>1. CASE PlanUpgrade(k) \/ Stage(k) \/ Checkpoint(k) \/ NoUndo(k)
    BY <1>3, <2>1 DEF PlanUpgrade, Stage, Checkpoint, NoUndo, Step, Report, Start, node,
                      SameNode
  <2>2. CASE VerifyUpgrade(k) \/ IdentifyUpgrade(k) \/ CheckFails(k)
    BY <1>3, <2>2 DEF VerifyUpgrade, IdentifyUpgrade, CheckFails, Step, Report, node,
                      SameNode
  <2>3. CASE Result(k) \/ Lose(k)
    <3>1. (\E p : Step(k, p)) \/ (\E r : Report(k, r))
      BY <2>3 DEF Result, Lose
    <3>2. QED
      BY <1>3, <3>1 DEF Step, Report
  <2>4. CASE \E c \in Cmd : \/ Backup(k, c) \/ InstallUpgrade(k, c) \/ Undo(k, c)
                            \/ InstallProvision(k, c)
    BY <1>3, <2>4 DEF Backup, RunBackup, InstallUpgrade, InstallProvision, Install,
                      RunInstaller, Undo, RunUndo, Await
  <2>5. CASE \/ BeginProvision(k) \/ Payload(k) \/ Preflight(k)
             \/ Bootstrap(k) \/ Reach(k) \/ Target(k)
    BY <1>3, <2>5 DEF BeginProvision, Payload, Preflight, Bootstrap, Reach, Target,
                      OnOrRefused, Step, Report, Start, node
  <2>6. CASE VerifyProvision(k) \/ IdentifyProvision(k)
    BY <1>3, <2>6 DEF VerifyProvision, IdentifyProvision, Step, Report, node
  <2>7. CASE Register(k) \/ SyncProvisioned(k) \/ Adopt(k)
    BY <1>3, <2>7 DEF Register, SyncProvisioned, Adopt, Step, Report, node, SameNode
  <2>8. QED
    BY <2>1, <2>2, <2>3, <2>4, <2>5, <2>6, <2>7 DEF WorkNext
<1>5. QED
  BY <1>1, <1>2, <1>4, WorkScarred DEF Scarred

LEMMA OthersReport ==
  ASSUME NodeInv, ReportInv, NEW k \in Ctl, WorkNext(k), NEW j \in Ctl \ {k},
         ctl'[j].op = "provision"
  PROVE  Provisions(j, ctl'[j], cmd', disk', scars')
<1>1. /\ disk' = disk /\ (scars' = {} => scars = {}) /\ ctl'[j] = ctl[j]
      /\ Stable(cmd, disk) => Stable(cmd', disk')
  BY WorkStill
<1>2. Provisions(j, ctl[j], cmd, disk, scars)
  BY <1>1 DEF ReportInv, Reported
<1>3. \A b \in Cmd : cmd'[b].by = j => cmd'[b] = cmd[b]
  BY WorkCommands
<1>4. OwnCommands(j, cmd', disk', scars')
  BY <1>1, <1>2, <1>3 DEF Provisions, OwnCommands
<1>5. QED
  BY <1>1, <1>2, <1>4 DEF Provisions

(* How a controller goes on.                                               *)
LEMMA StepFields ==
  ASSUME NodeInv, NEW k \in Ctl, NEW p, Step(k, p)
  PROVE  /\ ctl'[k].op = ctl[k].op /\ ctl'[k].pc = p /\ ctl'[k].seen = ctl[k].seen
         /\ told' = told
<1>1. ctl = [j \in Ctl |-> ctl[j]] /\ ctl[k] \in Works
  BY WorkFacts DEF NodeInv, Shape
<1>2. ctl' = [ctl EXCEPT ![k].pc = p] /\ told' = told
  BY DEF Step
<1>3. QED
  BY <1>1, <1>2 DEF Works

LEMMA ReportFields ==
  ASSUME NodeInv, NEW k \in Ctl, NEW r, Report(k, r)
  PROVE  ctl'[k] = NoWork /\ ctl'[k].op = None /\ told'[k] = r
<1>1. ctl = [j \in Ctl |-> ctl[j]] /\ told = [j \in Ctl |-> told[j]]
  BY DEF NodeInv, Shape
<1>2. QED
  BY <1>1, NoWorkFields DEF Report

LEMMA StartFields ==
  ASSUME NodeInv, NEW k \in Ctl, NEW w, Start(k, w)
  PROVE  ctl'[k] = w /\ told'[k] = None
<1>1. ctl = [j \in Ctl |-> ctl[j]] /\ told = [j \in Ctl |-> told[j]]
  BY DEF NodeInv, Shape
<1>2. QED
  BY <1>1 DEF Start

LEMMA AwaitFields ==
  ASSUME NodeInv, NEW k \in Ctl, NEW c, Await(k, c)
  PROVE  ctl'[k].op = ctl[k].op /\ ctl'[k].pc = "await" /\ told' = told
<1>1. ctl = [j \in Ctl |-> ctl[j]] /\ ctl[k] \in Works
  BY WorkFacts DEF NodeInv, Shape
<1> DEFINE w == [ctl[k] EXCEPT !.c = c, !.pc = "await"]
<1>2. ctl' = [ctl EXCEPT ![k] = w] /\ told' = told
  BY <1>1 DEF Await
<1>3. w.op = ctl[k].op /\ w.pc = "await"
  BY <1>1 DEF Works
<1> HIDE DEF w
<1>4. QED
  BY <1>1, <1>2, <1>3

(* A controller that waits for nothing has no command.                     *)
LEMMA NoCommand ==
  ASSUME NodeInv, NEW k \in Ctl, ctl[k].pc # "await"
  PROVE  \A m, d, h : m = cmd => OwnCommands(k, m, d, h)
  BY DEF NodeInv, AwaitInv, OwnCommands

(* An upgrade stays one, or ends.                                          *)
LEMMA UpgradeIsNone ==
  ASSUME NodeInv, NEW k \in Ctl,
         \/ PlanUpgrade(k) \/ Checkpoint(k) \/ NoUndo(k)
         \/ VerifyUpgrade(k) \/ IdentifyUpgrade(k) \/ CheckFails(k)
         \/ \E c \in Cmd : Backup(k, c) \/ InstallUpgrade(k, c) \/ Undo(k, c)
         \/ Lose(k) \/ Adopt(k)
  PROVE  ctl'[k].op # "provision"
<1>1. CASE PlanUpgrade(k)
  <2> DEFINE w == [NoWork EXCEPT !.op = "upgrade", !.pc = "backup",
                                 !.seen = Identity(disk)]
  <2>1. w.op = "upgrade"
    BY NoWorkFields DEF Works
  <2>2. (\E r : Report(k, r)) \/ Start(k, w)
    BY <1>1 DEF PlanUpgrade
  <2> HIDE DEF w
  <2>3. QED
    BY <2>1, <2>2, ReportFields, StartFields DEF None
<1>2. CASE Checkpoint(k)
  <2>1. ctl[k].op = "upgrade" /\ ctl[k] \in Works /\ ctl = [j \in Ctl |-> ctl[j]]
    BY <1>2, WorkFacts DEF Checkpoint, CtlType, Upgrading, NodeInv, Shape
  <2>2. CASE ctl' = [ctl EXCEPT ![k].pc = "install", ![k].ck = disk]
    BY <2>1, <2>2 DEF Works
  <2>3. CASE \E r : Report(k, r)
    BY <2>3, ReportFields DEF None
  <2>4. QED
    BY <1>2, <2>2, <2>3 DEF Checkpoint
<1>3. CASE \/ NoUndo(k) \/ VerifyUpgrade(k) \/ IdentifyUpgrade(k) \/ CheckFails(k)
           \/ Lose(k)
  <2>1. \/ ctl[k].op = "upgrade" /\ \E p : Step(k, p)
        \/ \E r : Report(k, r)
    BY <1>3 DEF NoUndo, VerifyUpgrade, IdentifyUpgrade, CheckFails, Lose
  <2>2. QED
    BY <2>1, StepFields, ReportFields DEF None
<1>4. CASE \E c \in Cmd : Backup(k, c) \/ InstallUpgrade(k, c) \/ Undo(k, c)
  <2>1. ctl[k].op = "upgrade"
    BY <1>4, WorkFacts DEF Backup, InstallUpgrade, Install, Undo, CtlType, Upgrading
  <2>2. \E c \in Cmd : Await(k, c)
    BY <1>4 DEF Backup, InstallUpgrade, Install, Undo
  <2>3. QED
    BY <2>1, <2>2, AwaitFields
<1>5. CASE Adopt(k)
  BY <1>5, NoWorkFields DEF Adopt, None
<1>6. QED
  BY <1>1, <1>2, <1>3, <1>4, <1>5

LEMMA OwnReport ==
  ASSUME NodeInv, ReportInv, NEW k \in Ctl, WorkNext(k), ctl'[k].op = "provision"
  PROVE  Provisions(k, ctl'[k], cmd', disk', scars')
<1>1. /\ disk' = disk /\ (scars' = {} => scars = {})
      /\ Stable(cmd, disk) => Stable(cmd', disk')
  BY WorkStill
<1>2. ctl[k].op = "provision" => Provisions(k, ctl[k], cmd, disk, scars)
  BY DEF ReportInv, Reported
<1>3. CASE BeginProvision(k)
  <2> DEFINE w == [NoWork EXCEPT !.op = "provision", !.pc = "payload"]
  <2>1. Start(k, w) /\ ctl[k] = NoWork /\ cmd' = cmd
    BY <1>3 DEF BeginProvision, node
  <2>2. w.pc = "payload"
    BY NoWorkFields DEF Works
  <2> HIDE DEF w
  <2>3. ctl'[k].pc = "payload"
    BY <2>1, <2>2, StartFields
  <2>4. OwnCommands(k, cmd', disk', scars')
    BY <2>1, NoWorkFields, NoCommand
  <2>5. QED
    BY <2>3, <2>4 DEF Provisions
<1>4. ASSUME NEW p, Step(k, p), ctl[k].pc # "await", cmd' = cmd,
             p \notin {"payload", "preflight"} => ~Native(disk),
             scars = {} /\ p \in {"verify", "identity", "register", "sync"}
               => Stable(cmd, disk),
             scars = {} /\ p \in {"register", "sync"}
               => ctl[k].seen = Identity(disk)
      PROVE  Provisions(k, ctl'[k], cmd', disk', scars')
  <2>1. ctl'[k].pc = p /\ ctl'[k].seen = ctl[k].seen
    BY <1>4, StepFields
  <2>2. OwnCommands(k, cmd', disk', scars')
    BY <1>4, NoCommand
  <2>3. QED
    BY <1>1, <1>4, <2>1, <2>2 DEF Provisions
<1>5. ~(\E r : Report(k, r))
  BY ReportFields DEF None
<1>6. CASE Payload(k)
  <2>1. Step(k, "preflight") /\ ctl[k].pc = "payload" /\ cmd' = cmd
    BY <1>5, <1>6 DEF Payload, OnOrRefused, node
  <2>2. QED
    BY <1>4, <2>1
<1>7. CASE Preflight(k)
  <2>1. Step(k, "bootstrap") /\ ctl[k].pc = "preflight" /\ cmd' = cmd /\ ~Installed(disk)
    BY <1>5, <1>7 DEF Preflight, OnOrRefused, node, Conflict
  <2>2. ~Native(disk)
    BY <2>1, NodeFacts DEF NativeWhole, InstallFiles, Installed
  <2>3. QED
    BY <1>4, <2>1, <2>2
<1>8. CASE Bootstrap(k) \/ Reach(k) \/ Target(k)
  <2>1. PICK p \in {"reach", "target", "stage"} : Step(k, p) /\ cmd' = cmd
    BY <1>5, <1>8 DEF Bootstrap, Reach, Target, OnOrRefused, node
  <2>2. ctl[k].pc \in {"bootstrap", "reach", "target"}
    BY <1>8 DEF Bootstrap, Reach, Target
  <2>3. ctl[k].op = "provision"
    BY <2>1, StepFields
  <2>4. QED
    BY <1>2, <1>4, <2>1, <2>2, <2>3 DEF Provisions
<1>9. CASE Stage(k)
  <2>1. PICK p \in {"checkpoint", "install"} : Step(k, p)
    BY <1>5, <1>9 DEF Stage
  <2>2. ctl[k].pc = "stage" /\ cmd' = cmd
    BY <1>9 DEF Stage, node, SameNode
  <2>3. ctl[k].op = "provision"
    BY <2>1, StepFields
  <2>4. QED
    BY <1>2, <1>4, <2>1, <2>2, <2>3 DEF Provisions
<1>10. CASE VerifyProvision(k)
  <2>1. /\ Step(k, "identity") /\ ctl[k].pc = "verify" /\ cmd' = cmd
        /\ ctl[k].op = "provision"
    BY <1>5, <1>10 DEF VerifyProvision, node
  <2>2. QED
    BY <1>2, <1>4, <2>1 DEF Provisions
<1>11. CASE IdentifyProvision(k)
  <2>1. /\ ctl' = [ctl EXCEPT ![k].pc = "register", ![k].seen = Identity(disk)]
        /\ ctl[k].pc = "identity" /\ cmd' = cmd /\ ctl[k].op = "provision"
    BY <1>5, <1>11 DEF IdentifyProvision, node
  <2>2. ctl = [j \in Ctl |-> ctl[j]] /\ ctl[k] \in Works
    BY WorkFacts DEF NodeInv, Shape
  <2>3. PICK id : id = Identity(disk)
    OBVIOUS
  <2> DEFINE w == [ctl[k] EXCEPT !.pc = "register", !.seen = id]
  <2>4. w.pc = "register" /\ w.seen = id
    BY <2>2 DEF Works
  <2>5. ctl' = [ctl EXCEPT ![k] = w]
    BY <2>1, <2>2, <2>3
  <2> HIDE DEF w
  <2>6. ctl'[k].pc = "register" /\ ctl'[k].seen = Identity(disk)
    BY <2>2, <2>3, <2>4, <2>5
  <2>7. OwnCommands(k, cmd', disk', scars')
    BY <2>1, NoCommand
  <2>8. Identity(disk') = Identity(disk)
    BY <1>1
  <2>9. QED
    BY <1>1, <1>2, <2>1, <2>6, <2>7, <2>8 DEF Provisions
<1>12. CASE Register(k) \/ SyncProvisioned(k)
  <2>1. Step(k, "sync") /\ ctl[k].pc = "register" /\ cmd' = cmd
    BY <1>5, <1>12 DEF Register, SyncProvisioned, node
  <2>2. ctl[k].op = "provision"
    BY <2>1, StepFields
  <2>3. QED
    BY <1>2, <1>4, <2>1, <2>2 DEF Provisions
<1>13. CASE \E c \in Cmd : InstallProvision(k, c)
  <2>1. PICK c \in Cmd : InstallProvision(k, c)
    BY <1>13
  <2> DEFINE x == Command("installer", "main", k, NoFiles)
  <2>2. x.pc = "main" /\ x.kind = "installer"
    BY IdleFields DEF Command, Commands
  <2>3. /\ cmd' = [cmd EXCEPT ![c] = x] /\ Await(k, c)
        /\ ctl[k].pc = "install" /\ ctl[k].op = "provision"
    BY <2>1 DEF InstallProvision, Install, RunInstaller, Begin
  <2> HIDE DEF x
  <2>4. cmd'[c] = x /\ \A b \in Cmd \ {c} : cmd'[b] = cmd[b]
    BY <2>3, CommandOf DEF NodeInv
  <2>5. \A b \in Cmd : cmd[b].by # k
    BY <2>3 DEF NodeInv, AwaitInv
  <2>6. OwnCommands(k, cmd', disk', scars')
    BY <2>2, <2>4, <2>5 DEF OwnCommands, Installing
  <2>7. ctl'[k].pc = "await" /\ ~Native(disk)
    BY <1>2, <2>3, AwaitFields DEF Provisions
  <2>8. QED
    BY <1>1, <2>6, <2>7 DEF Provisions
<1>14. CASE Result(k)
  <2>1. PICK c \in Cmd : c = ctl[k].c
    BY <1>14, WorkFacts DEF Result, CtlType
  <2>2. /\ cmd[c].by = k /\ cmd' = [cmd EXCEPT ![c] = Idle] /\ ctl[k].pc = "await"
    BY <1>14, <2>1 DEF Result
  <2>3. \E p : Step(k, p)
    BY <1>5, <1>14 DEF Result
  <2>4. ctl[k].op = "provision"
    BY <2>3, StepFields
  <2>5. cmd[c].kind \in Installing
    BY <1>2, <2>2, <2>4 DEF Provisions, OwnCommands
  <2>6. cmd[c].pc = "done" /\ Step(k, "verify")
    BY <1>5, <1>14, <2>1, <2>5 DEF Result, Installing
  <2>7. scars = {} => Stable(cmd, disk)
    BY <1>2, <2>2, <2>4, <2>6 DEF Provisions, OwnCommands
  <2>8. cmd'[c] = Idle /\ \A b \in Cmd \ {c} : cmd'[b] = cmd[b]
    BY <2>2, CommandOf DEF NodeInv
  <2>9. \A b \in Cmd \ {c} : cmd[b].by # k
    BY <2>1 DEF NodeInv, AwaitInv
  <2>10. \A b \in Cmd : cmd'[b].by # k
    BY <2>8, <2>9, IdleFields, Constants
  <2>11. ctl'[k].pc = "verify"
    BY <2>6, StepFields
  <2>12. ~Native(disk)
    BY <1>2, <2>2, <2>4 DEF Provisions
  <2>13. QED
    BY <1>1, <2>7, <2>10, <2>11, <2>12 DEF Provisions, OwnCommands
<1>15. QED
  BY <1>3, <1>6, <1>7, <1>8, <1>9, <1>10, <1>11, <1>12, <1>13, <1>14, UpgradeIsNone
     DEF WorkNext

LEMMA ReportInvStep ==
  ASSUME NodeInv, "beside" \in scars \/ WholeInv, ReportInv, [Next]_vars
  PROVE  ReportNext
<1>1. CASE UNCHANGED vars
  <2>1. cmd' = cmd /\ ctl' = ctl /\ disk' = disk /\ scars' = scars
    BY <1>1 DEF vars, node, controller
  <2>2. QED
    BY <2>1 DEF ReportInv, ReportNext
<1>2. CASE \E c \in Cmd : NodeNext(c) /\ UNCHANGED controller
  BY <1>2, NodeNextReport
<1>3. CASE ChangeUsers /\ UNCHANGED controller
  BY <1>3, ChangeUsersReport
<1>4. CASE NewHost /\ (\A k \in Ctl : ctl[k] = NoWork) /\ UNCHANGED controller
  <2>1. ctl' = ctl /\ \A k \in Ctl : ctl[k].op = None
    BY <1>4, NoWorkFields DEF controller
  <2>2. QED
    BY <2>1 DEF ReportNext, Reported, None
<1>5. CASE \E k \in Ctl : WorkNext(k)
  <2>1. PICK k \in Ctl : WorkNext(k)
    BY <1>5
  <2>2. ASSUME NEW j \in Ctl, ctl'[j].op = "provision"
        PROVE  Provisions(j, ctl'[j], cmd', disk', scars')
    BY <2>1, <2>2, OwnReport, OthersReport
  <2>3. QED
    BY <2>2 DEF ReportNext, Reported
<1>6. QED
  BY <1>1, <1>2, <1>3, <1>4, <1>5, NextIs

LEMMA ReportInvHolds == Spec => []ReportInv
<1>1. Init => ReportInv
  <2>1. SUFFICES ASSUME Init
                 PROVE  ReportInv
    OBVIOUS
  <2>2. \A k \in Ctl : ctl[k].op = None
    BY <2>1, NoWorkFields DEF Init
  <2>3. QED
    BY <2>2 DEF ReportInv, Reported, None
<1>2. NodeInv /\ ("beside" \in scars \/ WholeInv) /\ ReportInv /\ [Next]_vars
        => ReportInv'
  <2>1. SUFFICES ASSUME NodeInv, "beside" \in scars \/ WholeInv, ReportInv, [Next]_vars
                 PROVE  ReportInv'
    OBVIOUS
  <2>2. ReportNext
    BY <2>1, ReportInvStep
  <2>3. QED
    BY <2>2 DEF ReportInv, ReportNext, Reported, Provisions, OwnCommands, Stable,
                Installed, Native, Identity, Changes
<1>3. QED
  BY <1>1, <1>2, NodeInvHolds, WholeInvHolds, PTL DEF Spec

-----------------------------------------------------------------------------
(***************************************************************************)
(* What the operator is told.                                              *)
(***************************************************************************)
ToldTruly(k) ==
  /\ Installed(disk)
  /\ disk["prog"] = <<New>> /\ Identity(disk) = ctl[k].seen
  /\ Quiet => Agree(disk) /\ Verified(disk, svc)

(* A node at rest, never killed, is verified.                              *)
LEMMA RestIsVerified ==
  ASSUME NodeInv, TornInv, WholeInv, Installed(disk), scars = {}, Quiet
  PROVE  Agree(disk) /\ Even(disk) /\ Verified(disk, svc)
<1>1. \A c \in Cmd : ~Changes(cmd[c])
  BY Zenon DEF Quiet, Mutating, Changes, Writing
<1>2. AtRest(disk, svc, scars)
  BY <1>1 DEF WholeInv, Whole
<1>3. Agree(disk) /\ Even(disk) /\ svc = Running(disk)
  BY <1>2 DEF AtRest, Settled
<1>4. disk \in Disk
  BY NodeDisk
<1>5. svc.sing = disk["config"] /\ svc.acct
  BY <1>3, <1>4, RunningFields
<1>6. disk["config"] # Absent /\ disk["state"] # Absent /\ disk["prog"] # Absent
  BY <1>3, AbsentIsNot DEF Agree, Even, Installed
<1>7. Readable({"prog", "state"})
  BY DEF TornInv, Readable
<1>8. QED
  BY <1>3, <1>5, <1>6, <1>7 DEF Verified, Answers

(* A provisioning that registers a node has the node it saw.               *)
LEMMA ProvisionedIsTrue ==
  ASSUME NodeInv, TornInv, WholeInv, ReportInv, scars = {}, NEW k \in Ctl,
         ctl[k].pc \in {"register", "sync"}
  PROVE  ToldTruly(k)
<1>1. ctl[k].op = "provision"
  BY WorkFacts DEF CtlType, Provisioning
<1>2. Stable(cmd, disk) /\ ctl[k].seen = Identity(disk)
  BY <1>1 DEF ReportInv, Reported, Provisions
<1>3. Quiet
  BY <1>2, Zenon DEF Stable, Changes, Writing, Quiet, Mutating
<1>4. Installed(disk) /\ ~Native(disk)
  BY <1>2 DEF Stable
<1>5. Agree(disk) /\ Even(disk) /\ Verified(disk, svc)
  BY <1>3, <1>4, RestIsVerified
<1>6. disk["VERSION"] \in {Absent, <<Old>>, <<New>>}
  BY NodeFacts, FilesOf
<1>7. disk["VERSION"] # <<Old>>
  BY <1>4 DEF NodeInv, NativeInv
<1>8. disk["prog"] = <<New>>
  BY <1>4, <1>5, <1>6, <1>7 DEF Installed, Even
<1>9. QED
  BY <1>2, <1>4, <1>5, <1>8 DEF ToldTruly

(* An upgrade that succeeds has the node it began with.                    *)
LEMMA UpgradedIsTrue ==
  ASSUME NodeInv, TornInv, WholeInv, scars = {}, NEW k \in Ctl, ctl[k].op = "upgrade",
         Upgraded(disk, ctl[k].seen)
  PROVE  ToldTruly(k)
<1>1. Native(disk)
  BY WorkFacts DEF CtlInv
<1>2. Installed(disk)
  BY <1>1, NodeFacts DEF NativeWhole, InstallFiles, Installed
<1>3. Quiet => Agree(disk) /\ Verified(disk, svc)
  BY <1>2, RestIsVerified
<1>4. QED
  BY <1>2, <1>3 DEF ToldTruly, Upgraded

Success == {"SUCCESS", "REMOTE_READY_LOCAL_UNCOMMITTED"}

LEMMA WorkTells ==
  ASSUME NodeInv, TornInv, WholeInv, ReportInv, NEW k \in Ctl, WorkNext(k),
         told'[k] # told[k], scars = {}, told'[k] \in Success
  PROVE  ToldTruly(k)
<1>1. ~(\E p : Step(k, p)) /\ told' # told
  BY DEF Step
<1>2. ASSUME NEW r, Report(k, r)
      PROVE  r \in Success
  BY <1>2, ReportFields
<1>3. ~(\E w : Start(k, w))
  BY StartFields DEF Success, None
<1>4. ~(\E c : Await(k, c))
  BY <1>1 DEF Await
<1>5. CASE PlanUpgrade(k) \/ BeginProvision(k)
  BY <1>2, <1>3, <1>5 DEF PlanUpgrade, BeginProvision, Success
<1>6. CASE Stage(k) \/ Checkpoint(k) \/ NoUndo(k) \/ CheckFails(k) \/ VerifyUpgrade(k)
  BY <1>1, <1>2, <1>6 DEF Stage, Checkpoint, NoUndo, CheckFails, VerifyUpgrade, Success
<1>7. CASE Result(k) \/ Lose(k)
  <2>1. CASE Result(k)
    <3>1. \E r \in {"died", "ROLLED_BACK", "PARTIAL"} : Report(k, r)
      BY <1>1, <2>1 DEF Result
    <3>2. QED
      BY <1>2, <3>1 DEF Success
  <2>2. CASE Lose(k)
    <3>1. \E r \in {"died", "PARTIAL"} : Report(k, r)
      BY <2>2 DEF Lose
    <3>2. QED
      BY <1>2, <3>1 DEF Success
  <2>3. QED
    BY <1>7, <2>1, <2>2
<1>8. CASE IdentifyUpgrade(k)
  BY <1>1, <1>8, UpgradedIsTrue DEF IdentifyUpgrade
<1>9. CASE \E c \in Cmd : \/ Backup(k, c) \/ InstallUpgrade(k, c) \/ Undo(k, c)
                          \/ InstallProvision(k, c)
  BY <1>4, <1>9 DEF Backup, InstallUpgrade, InstallProvision, Install, Undo
<1>10. CASE Payload(k) \/ Preflight(k) \/ Bootstrap(k) \/ Reach(k) \/ Target(k)
  BY <1>1, <1>2, <1>10 DEF Payload, Preflight, Bootstrap, Reach, Target, OnOrRefused,
                           Success
<1>11. CASE VerifyProvision(k) \/ IdentifyProvision(k)
  BY <1>1, <1>2, <1>11 DEF VerifyProvision, IdentifyProvision, Success
<1>12. CASE Register(k) \/ SyncProvisioned(k)
  <2>1. ctl[k].pc \in {"register", "sync"}
    BY <1>12 DEF Register, SyncProvisioned
  <2>2. QED
    BY <2>1, ProvisionedIsTrue
<1>13. CASE Adopt(k)
  BY <1>1, <1>13 DEF Adopt
<1>14. QED
  BY <1>5, <1>6, <1>7, <1>8, <1>9, <1>10, <1>11, <1>12, <1>13 DEF WorkNext

(* What the operator is told is so, when nothing was killed and nothing    *)
(* ran beside a rollback: SUCCESS and REMOTE_READY name an installed node  *)
(* with the identity that was seen, at the version of the payload, whole   *)
(* when no command is changing it.                                         *)
THEOREM ReportIsTrueHolds == Spec => ReportIsTrue
<1>1. ASSUME NodeInv, TornInv, WholeInv, ReportInv, [Next]_vars, NEW k \in Ctl,
             told'[k] # told[k], scars = {}, told'[k] \in Success
      PROVE  ToldTruly(k)
  <2>1. told' # told
    BY <1>1
  <2>2. PICK j \in Ctl : WorkNext(j)
    BY <1>1, <2>1, NextIs DEF vars, controller
  <2>3. j = k
    BY <1>1, <2>2, WorkStill
  <2>4. QED
    BY <1>1, <2>2, <2>3, WorkTells
<1>2. ASSUME NodeInv, TornInv, "beside" \in scars \/ WholeInv, ReportInv, [Next]_vars
      PROVE  [\A k \in Ctl :
                /\ told'[k] # told[k] /\ scars = {}
                /\ told'[k] \in {"SUCCESS", "REMOTE_READY_LOCAL_UNCOMMITTED"}
                => /\ Installed(disk)
                   /\ disk["prog"] = <<New>> /\ Identity(disk) = ctl[k].seen
                   /\ Quiet => Agree(disk) /\ Verified(disk, svc)]_vars
  <2>1. \A k \in Ctl : /\ told'[k] # told[k] /\ scars = {} /\ told'[k] \in Success
                       => ToldTruly(k)
    BY <1>1, <1>2
  <2>2. QED
    BY <2>1 DEF ToldTruly, Success
<1>3. QED
  BY <1>2, NodeInvHolds, WholeInvHolds, ReportInvHolds, PTL DEF Spec, ReportIsTrue
=============================================================================
