-------------------------- MODULE NodeUsersProofs --------------------------
(***************************************************************************)
(* The user commands of a node lose no update, put back exactly what they  *)
(* found, bring no revoked credential back and leave sing-box serving the  *)
(* registry when they say so: for any users, any credentials, and any      *)
(* number of commands that fail or die anywhere.                           *)
(*                                                                         *)
(* None of these is inductive.  A command's backup and staged registry are *)
(* taken before it changes the files, so the invariant says that the lock  *)
(* keeps them true: while a process holds it, each of the three files is   *)
(* either the one it saved or the one it staged, and which of the two its  *)
(* program counter tells (HolderInv).  Revoked credentials stay out because*)
(* a credential is never both in use and revoked in one registry, a new    *)
(* one is new to all, and what a backup may put back was sound when it was *)
(* taken (FilesSound); only the holder revokes.                            *)
(***************************************************************************)
EXTENDS NodeUsers, TLAPS

Held == Steps \ {"out", "lock"}

(* config.json may have changed since sing-box was restarted.              *)
Between == {"users", "uri", "restart", "backUsers", "backUri", "backRestart"}

AfterStage == Between \cup {"install", "health", "done", "backConfig"}

(* In a registry nobody's credential is revoked, and no two users share one.*)
RegistrySound(reg, us, gn) ==
  /\ \A u \in User : reg[u].old \subseteq us
  /\ \A u \in User : reg[u].cred \in (us \ gn) \cup {None}
  /\ \A u \in User : reg[u].status # "absent" => reg[u].cred # None
  /\ \A t, u \in User : reg[u].cred \notin reg[t].old
  /\ \A t, u \in User : reg[t].cred = reg[u].cred /\ reg[u].cred # None => t = u

FilesSound(f, us, gn) ==
  /\ RegistrySound(f.users, us, gn)
  /\ f.config \cap gn = {}
  /\ f.uri \notin gn

(* The credentials a command generated are new to a registry.              *)
FreshSound(j, reg, us, gn) ==
  j.op \in {"add", "rotate"} =>
    /\ j.fresh \in [j.tags -> us \ gn]
    /\ \A t, u \in j.tags : j.fresh[t] = j.fresh[u] => t = u
    /\ \A t \in j.tags, u \in User :
         j.fresh[t] # reg[u].cred /\ j.fresh[t] \notin reg[u].old

(* Each file is the saved or the staged one.                               *)
FilesInv(step, sv, st) ==
  /\ files.users  = IF step \in {"install", "users", "backUri", "backRestart"}
                      THEN sv.users ELSE st
  /\ files.config = IF step \in {"install", "backUsers", "backUri", "backRestart"}
                      THEN sv.config ELSE Config(st)
  /\ files.uri    = IF step \in {"install", "users", "uri", "backRestart"}
                      THEN sv.uri ELSE Uri(st)

HolderInv(p) ==
  /\ pc[p] = "stage" => saved[p] = files /\ FreshSound(job[p], files.users, used, gone)
  /\ pc[p] \in AfterStage =>
       /\ staged[p] = Changed(saved[p].users, job[p])
       /\ FilesSound(saved[p], used, gone)
       /\ RegistrySound(staged[p], used, gone)
       /\ FilesInv(pc[p], saved[p], staged[p])

(* sing-box serves config.json, unless a command is changing it, or died   *)
(* while it did.                                                           *)
ServedInv == torn \/ proxy \in {{}, files.config} \/ \E p \in Proc : pc[p] \in Between

UsersInv ==
  /\ TypeOK
  /\ \A p \in Proc : pc[p] \in Held <=> lock = p
  /\ gone \subseteq used
  /\ FilesSound(files, used, gone)
  /\ ServedInv
  /\ \A p \in Proc : HolderInv(p)

-----------------------------------------------------------------------------
(***************************************************************************)
(* Registries.                                                             *)
(***************************************************************************)
LEMMA EntryFields ==
  ASSUME NEW e \in Entry
  PROVE  /\ e = [status |-> e.status, cred |-> e.cred, old |-> e.old, meta |-> e.meta]
         /\ e.status \in {"absent", "on", "off"} /\ e.cred \in Cred \cup {None}
         /\ e.old \subseteq Cred /\ e.meta \in 0 .. 1
BY DEF Entry

LEMMA JobFields ==
  ASSUME NEW j \in Job
  PROVE  /\ j.op \in Ops /\ j.tags \subseteq User /\ j.meta \in 0 .. 1
         /\ j.fresh \in UNION {[tags -> Cred] : tags \in SUBSET User}
BY DEF Job

(* What a command makes of the entry of a user it names.                   *)
LEMMA ChangedEntryFacts ==
  ASSUME NEW reg \in Registry, NEW j \in Job, NEW us \in SUBSET Cred, NEW gn \in SUBSET us,
         Allowed(reg, j), FreshSound(j, reg, us, gn), RegistrySound(reg, us, gn),
         NEW u \in j.tags
  PROVE  LET e == ChangedEntry(reg[u], u, j)
         IN  /\ e \in Entry
             /\ \/ /\ e.cred = reg[u].cred /\ e.old = reg[u].old
                   /\ e.status # "absent" => reg[u].status # "absent"
                \/ /\ j.op \in {"add", "rotate"}
                   /\ e.cred = j.fresh[u]
                   /\ e.old \subseteq reg[u].old \cup ({reg[u].cred} \ {None})
<1>1. u \in User /\ reg[u] \in Entry
  BY JobFields DEF Registry
<1>2. reg[u] = [status |-> reg[u].status, cred |-> reg[u].cred, old |-> reg[u].old,
                meta |-> reg[u].meta]
  BY <1>1, EntryFields
<1>3. /\ reg[u].status \in {"absent", "on", "off"} /\ reg[u].cred \in Cred \cup {None}
      /\ reg[u].old \subseteq Cred /\ reg[u].meta \in 0 .. 1
      /\ j.op \in Ops /\ j.meta \in 0 .. 1
  BY <1>1, EntryFields, JobFields
<1>4. j.op \in {"add", "rotate"} => j.fresh[u] \in Cred
  BY DEF FreshSound
<1>5. CASE j.op = "add"
  <2>1. ChangedEntry(reg[u], u, j) =
          [status |-> "on", cred |-> j.fresh[u], old |-> {}, meta |-> j.meta]
    BY <1>5 DEF ChangedEntry
  <2>2. QED
    BY <1>3, <1>4, <1>5, <2>1 DEF Entry
<1>6. CASE j.op = "set"
  <2>1. ChangedEntry(reg[u], u, j) =
          [status |-> reg[u].status, cred |-> reg[u].cred, old |-> reg[u].old,
           meta |-> j.meta]
    BY <1>2, <1>6 DEF ChangedEntry
  <2>2. QED
    BY <1>3, <2>1 DEF Entry
<1>7. CASE j.op \in {"disable", "enable"}
  <2>1. \E st \in {"on", "off"} :
          ChangedEntry(reg[u], u, j) =
            [status |-> st, cred |-> reg[u].cred, old |-> reg[u].old, meta |-> reg[u].meta]
    BY <1>2, <1>7 DEF ChangedEntry
  <2>2. reg[u].status # "absent"
    BY <1>7 DEF Allowed
  <2>3. QED
    BY <1>3, <2>1, <2>2 DEF Entry
<1>8. CASE j.op = "rotate"
  <2>1. ChangedEntry(reg[u], u, j) =
          [status |-> reg[u].status, cred |-> j.fresh[u],
           old |-> reg[u].old \cup {reg[u].cred}, meta |-> reg[u].meta]
    <3>1. ChangedEntry(reg[u], u, j) =
            [reg[u] EXCEPT !.old = reg[u].old \cup {reg[u].cred}, !.cred = j.fresh[u]]
      BY <1>2, <1>8 DEF ChangedEntry
    <3>2. QED
      BY <1>2, <3>1
  <2>2. reg[u].status # "absent"
    BY <1>8 DEF Allowed
  <2>3. reg[u].cred # None
    BY <1>1, <2>2 DEF RegistrySound
  <2>4. QED
    BY <1>3, <1>4, <1>8, <2>1, <2>3 DEF Entry
<1>9. QED
  BY <1>3, <1>5, <1>6, <1>7, <1>8 DEF Ops

(* A command that is allowed makes a sound registry of a sound one.        *)
LEMMA ChangedSound ==
  ASSUME NEW reg \in Registry, NEW j \in Job, NEW us \in SUBSET Cred, NEW gn \in SUBSET us,
         Allowed(reg, j), FreshSound(j, reg, us, gn), RegistrySound(reg, us, gn)
  PROVE  Changed(reg, j) \in Registry /\ RegistrySound(Changed(reg, j), us, gn)
<1> DEFINE new == Changed(reg, j)
<1>1. j.tags \subseteq User /\ None \notin us
  BY JobFields, ConstantsAssumption DEF None
<1>2. \A u \in User : new[u] = IF u \in j.tags THEN ChangedEntry(reg[u], u, j) ELSE reg[u]
  BY DEF Changed
<1>3. new = [u \in User |-> new[u]]
  BY DEF Changed
<1> HIDE DEF new
<1>4. \A u \in User :
        /\ new[u] \in Entry
        /\ \/ /\ new[u].cred = reg[u].cred /\ new[u].old = reg[u].old
              /\ new[u].status # "absent" => reg[u].status # "absent"
           \/ /\ u \in j.tags /\ j.op \in {"add", "rotate"}
              /\ new[u].cred = j.fresh[u]
              /\ new[u].old \subseteq reg[u].old \cup ({reg[u].cred} \ {None})
  <2> SUFFICES ASSUME NEW u \in User
               PROVE  /\ new[u] \in Entry
                      /\ \/ /\ new[u].cred = reg[u].cred /\ new[u].old = reg[u].old
                            /\ new[u].status # "absent" => reg[u].status # "absent"
                         \/ /\ u \in j.tags /\ j.op \in {"add", "rotate"}
                            /\ new[u].cred = j.fresh[u]
                            /\ new[u].old \subseteq reg[u].old \cup ({reg[u].cred} \ {None})
    OBVIOUS
  <2>1. CASE u \in j.tags
    <3>1. new[u] = ChangedEntry(reg[u], u, j)
      BY <1>2, <2>1
    <3>2. /\ ChangedEntry(reg[u], u, j) \in Entry
          /\ \/ /\ ChangedEntry(reg[u], u, j).cred = reg[u].cred
                /\ ChangedEntry(reg[u], u, j).old = reg[u].old
                /\ ChangedEntry(reg[u], u, j).status # "absent" => reg[u].status # "absent"
             \/ /\ j.op \in {"add", "rotate"}
                /\ ChangedEntry(reg[u], u, j).cred = j.fresh[u]
                /\ ChangedEntry(reg[u], u, j).old
                     \subseteq reg[u].old \cup ({reg[u].cred} \ {None})
      BY <2>1, ChangedEntryFacts
    <3>3. QED
      BY <2>1, <3>1, <3>2
  <2>2. CASE u \notin j.tags
    BY <1>2, <2>2 DEF Registry
  <2>3. QED
    BY <2>1, <2>2
<1>5. new \in Registry
  BY <1>3, <1>4 DEF Registry
<1>old. \A u \in User : reg[u].old \subseteq us /\ reg[u].cred \in (us \ gn) \cup {None}
  BY DEF RegistrySound
<1>fresh. j.op \in {"add", "rotate"} => \A u \in j.tags : j.fresh[u] \in us \ gn
  BY DEF FreshSound
<1>6. ASSUME NEW u \in User PROVE new[u].old \subseteq us
  BY <1>4, <1>old
<1>7. ASSUME NEW u \in User PROVE new[u].cred \in (us \ gn) \cup {None}
  BY <1>4, <1>old, <1>fresh
<1>8. \A u \in User : new[u].status # "absent" => new[u].cred # None
  BY <1>1, <1>4 DEF RegistrySound, FreshSound
<1>9. ASSUME NEW t \in User, NEW u \in User
      PROVE  new[u].cred \notin new[t].old
  <2>1. new[t].old \subseteq reg[t].old \cup ({reg[t].cred} \ {None})
    BY <1>4
  <2>2. CASE u \in j.tags /\ j.op \in {"add", "rotate"} /\ new[u].cred = j.fresh[u]
    BY <2>1, <2>2 DEF FreshSound
  <2>3. CASE new[u].cred = reg[u].cred /\ new[u].old = reg[u].old
    <3>1. reg[u].cred \notin reg[t].old
      BY DEF RegistrySound
    <3>2. CASE new[t].old = reg[t].old
      BY <2>3, <3>1, <3>2
    <3>3. CASE t \in j.tags /\ new[t].cred = j.fresh[t] /\ j.op \in {"add", "rotate"}
      <4>1. reg[u].cred = reg[t].cred /\ reg[u].cred # None => t = u
        BY DEF RegistrySound
      <4>2. t = u => reg[t].cred # new[t].cred
        BY <3>3 DEF FreshSound
      <4>3. QED
        BY <2>1, <2>3, <3>1, <4>1, <4>2
    <3>4. QED
      BY <1>4, <3>2, <3>3
  <2>4. QED
    BY <1>4, <2>2, <2>3
<1>10. ASSUME NEW t \in User, NEW u \in User, new[t].cred = new[u].cred, new[u].cred # None
       PROVE  t = u
  BY <1>4, <1>10 DEF RegistrySound, FreshSound
<1>11. RegistrySound(new, us, gn)
  BY <1>6, <1>7, <1>8, <1>9, <1>10 DEF RegistrySound
<1>12. QED
  BY <1>5, <1>11 DEF new

(* What is rendered from a sound registry.                                 *)
LEMMA RenderedSound ==
  ASSUME NEW reg \in Registry, NEW us \in SUBSET Cred, NEW gn \in SUBSET us,
         RegistrySound(reg, us, gn)
  PROVE  /\ Config(reg) \in SUBSET Cred /\ Config(reg) \cap gn = {}
         /\ Uri(reg) \in Cred \cup {None} /\ Uri(reg) \notin gn
<1>1. None \notin gn /\ Owner \in User
  BY ConstantsAssumption DEF None
<1>2. \A u \in Enabled(reg) : u \in User /\ reg[u].cred \in us \ gn
  BY DEF Enabled, RegistrySound
<1>3. QED
  BY <1>1, <1>2 DEF Config, Uri, RegistrySound

(* Files of which each is the saved or the staged one.                     *)
LEMMA FilesOfHolder ==
  ASSUME NEW sv \in Files, NEW st \in Registry, NEW us \in SUBSET Cred, NEW gn \in SUBSET us,
         NEW f, FilesSound(sv, us, gn), RegistrySound(st, us, gn),
         f.users \in {sv.users, st}, f.config \in {sv.config, Config(st)},
         f.uri \in {sv.uri, Uri(st)}
  PROVE  FilesSound(f, us, gn)
BY RenderedSound DEF FilesSound

-----------------------------------------------------------------------------
(***************************************************************************)
(* What the steps share.                                                   *)
(***************************************************************************)
LEMMA TypeFacts ==
  ASSUME UsersInv, NEW p \in Proc
  PROVE  /\ pc[p] \in Steps /\ job[p] \in Job /\ saved[p] \in Files /\ staged[p] \in Registry
         /\ files \in Files /\ files.users \in Registry
         /\ used \in SUBSET Cred /\ gone \in SUBSET used
         /\ p # None
BY ConstantsAssumption DEF UsersInv, TypeOK, Files, None

(* A record of three files.                                                *)
LEMMA FilesFields ==
  ASSUME NEW f \in Files
  PROVE  /\ f = [users |-> f.users, config |-> f.config, uri |-> f.uri]
         /\ f.users \in Registry /\ f.config \in SUBSET Cred /\ f.uri \in Cred \cup {None}
BY DEF Files

(* The lock keeps everyone else out, so only the holder's part matters.    *)
LEMMA HolderSteps ==
  ASSUME UsersInv, NEW p \in Proc, lock = p, lock' = p, NEW s \in Held,
         pc' = [pc EXCEPT ![p] = s],
         TypeOK', gone' \subseteq used', FilesSound(files, used, gone)', ServedInv',
         HolderInv(p)'
  PROVE  UsersInv'
<1>1. \A q \in Proc : pc'[q] \in Held <=> lock' = q
  BY DEF UsersInv, TypeOK
<1>2. ASSUME NEW q \in Proc PROVE HolderInv(q)'
  <2>1. CASE q = p
    BY <2>1
  <2>2. CASE q # p
    <3>1. pc'[q] \notin Held /\ pc'[q] \in Steps
      BY <1>1, <2>2 DEF TypeOK
    <3>2. QED
      BY <3>1 DEF HolderInv, Held, Steps, AfterStage, Between
  <2>3. QED
    BY <2>1, <2>2
<1>3. QED
  BY <1>1, <1>2 DEF UsersInv

(* Without a holder, what is in the files must be sound by itself.         *)
LEMMA NobodyHolds ==
  ASSUME UsersInv, TypeOK', gone' \subseteq used', FilesSound(files, used, gone)', ServedInv',
         \A q \in Proc : pc'[q] \notin Held /\ lock' # q
  PROVE  UsersInv'
<1>1. ASSUME NEW q \in Proc PROVE HolderInv(q)'
  <2>1. pc'[q] \notin Held /\ pc'[q] \in Steps
    BY DEF TypeOK
  <2>2. QED
    BY <2>1 DEF HolderInv, Held, Steps, AfterStage, Between
<1>2. QED
  BY <1>1 DEF UsersInv

(* Nor does a step of a process that has not got the lock disturb anything.*)
LEMMA OutsiderSteps ==
  ASSUME UsersInv, NEW p \in Proc, pc[p] \notin Held, UNCHANGED <<lock, files, used, gone>>,
         pc' \in [Proc -> Steps], \A q \in Proc \ {p} : pc'[q] = pc[q], pc'[p] \notin Held,
         \A q \in Proc \ {p} : /\ job'[q] = job[q] /\ saved'[q] = saved[q]
                               /\ staged'[q] = staged[q],
         TypeOK', UNCHANGED <<proxy, torn>>
  PROVE  UsersInv'
<1>1. \A q \in Proc : pc'[q] \in Held <=> lock' = q
  BY DEF UsersInv
<1>2. ASSUME NEW q \in Proc PROVE HolderInv(q)'
  <2>1. CASE q = p
    <3>1. pc'[q] \in Steps \ Held
      BY <2>1
    <3>2. QED
      BY <3>1 DEF HolderInv, Held, Steps, AfterStage, Between
  <2>2. CASE q # p
    <3>1. /\ pc'[q] = pc[q] /\ job'[q] = job[q] /\ saved'[q] = saved[q]
          /\ staged'[q] = staged[q]
      BY <2>2
    <3>2. HolderInv(q)
      BY DEF UsersInv
    <3>3. QED
      BY <3>1, <3>2 DEF HolderInv, FilesInv
  <2>3. QED
    BY <2>1, <2>2
<1>3. ServedInv'
  <2>1. CASE \E q \in Proc : pc[q] \in Between
    <3>1. PICK q \in Proc : pc[q] \in Between
      BY <2>1
    <3>2. q # p
      BY <3>1 DEF Between, Held, Steps
    <3>3. QED
      BY <3>1, <3>2 DEF ServedInv
  <2>2. CASE torn \/ proxy \in {{}, files.config}
    BY <2>2 DEF ServedInv
  <2>3. QED
    BY <2>1, <2>2 DEF UsersInv, ServedInv
<1>4. QED
  BY <1>1, <1>2, <1>3 DEF UsersInv

(* What a process has when it has nothing.                                 *)
LEMMA NothingTyped == NoJob \in Job /\ NoUsers \in Registry /\ NoFiles \in Files
<1>1. NoJob \in Job
  <2>1. NoJob.fresh \in [{} -> Cred] /\ {} \in SUBSET User
    BY DEF NoJob
  <2>2. NoJob.fresh \in UNION {[tags -> Cred] : tags \in SUBSET User}
    BY <2>1
  <2>3. QED
    BY <2>2 DEF Job, NoJob, Ops
<1>2. NoUsers \in Registry
  BY DEF NoUsers, Registry, Absent, Entry
<1>3. QED
  BY <1>1, <1>2 DEF NoFiles, Files

(* An exit, by whoever it is.                                              *)
LEMMA ExitType ==
  ASSUME UsersInv, NEW p \in Proc, Exit(p)
  PROVE  /\ lock' \in Proc \cup {None}
         /\ pc' = [pc EXCEPT ![p] = "out"] /\ pc' \in [Proc -> Steps]
         /\ job' \in [Proc -> Job] /\ saved' \in [Proc -> Files]
         /\ staged' \in [Proc -> Registry]
         /\ \A q \in Proc \ {p} : /\ job'[q] = job[q] /\ saved'[q] = saved[q]
                                  /\ staged'[q] = staged[q]
<1>1. "out" \in Steps
  BY DEF Steps
<1>2. QED
  BY <1>1, NothingTyped DEF Exit, UsersInv, TypeOK

(* The holder exits and leaves the files as they are.                      *)
LEMMA HolderExits ==
  ASSUME UsersInv, NEW p \in Proc, pc[p] \in Held, Exit(p), UNCHANGED <<files, proxy, used>>,
         gone' \subseteq used, torn' \in BOOLEAN, FilesSound(files, used, gone'),
         torn => torn', pc[p] \in Between => torn'
  PROVE  UsersInv'
<1>1. lock = p /\ \A q \in Proc \ {p} : pc[q] \notin Held
  BY DEF UsersInv
<1>2. TypeOK'
  BY ExitType, TypeFacts DEF UsersInv, TypeOK
<1>3. /\ lock' = None
      /\ \A q \in Proc : pc'[q] \notin Held /\ lock' # q
  BY <1>1, TypeFacts DEF Exit, UsersInv, TypeOK, Held
<1>4. ServedInv'
  <2>1. \A q \in Proc : pc[q] \in Between => q = p
    BY <1>1 DEF Between, Held, Steps
  <2>2. QED
    BY <2>1 DEF UsersInv, ServedInv
<1>5. QED
  BY <1>2, <1>3, <1>4, NobodyHolds

-----------------------------------------------------------------------------
(***************************************************************************)
(* UsersInv holds initially and is preserved.                              *)
(***************************************************************************)
LEMMA UsersInit == Init => UsersInv
<1> SUFFICES ASSUME Init PROVE UsersInv
  OBVIOUS
<1>1. PICK c \in Cred :
        LET reg == [u \in User |-> IF u = Owner THEN [Absent EXCEPT !.status = "on", !.cred = c]
                                                ELSE Absent]
        IN  /\ files = [users |-> reg, config |-> Config(reg), uri |-> Uri(reg)]
            /\ proxy = Config(reg)
            /\ used = {c}
            /\ lock = None
            /\ pc = [p \in Proc |-> "out"]
            /\ job = [p \in Proc |-> NoJob]
            /\ saved = [p \in Proc |-> NoFiles]
            /\ staged = [p \in Proc |-> NoUsers]
            /\ gone = {}
            /\ torn = FALSE
  BY DEF Init
<1> DEFINE reg == [u \in User |-> IF u = Owner THEN [Absent EXCEPT !.status = "on", !.cred = c]
                                              ELSE Absent]
<1>2. /\ files = [users |-> reg, config |-> Config(reg), uri |-> Uri(reg)]
      /\ proxy = Config(reg) /\ used = {c} /\ lock = None /\ gone = {} /\ torn = FALSE
      /\ pc = [p \in Proc |-> "out"] /\ job = [p \in Proc |-> NoJob]
      /\ saved = [p \in Proc |-> NoFiles] /\ staged = [p \in Proc |-> NoUsers]
  BY <1>1
<1>3. Owner \in User /\ None \notin Cred /\ None \notin Proc
  BY ConstantsAssumption DEF None
<1>4. \A u \in User :
        reg[u] = IF u = Owner THEN [status |-> "on", cred |-> c, old |-> {}, meta |-> 0]
                              ELSE [status |-> "absent", cred |-> None, old |-> {}, meta |-> 0]
  <2>1. [Absent EXCEPT !.status = "on"] =
          [status |-> "on", cred |-> None, old |-> {}, meta |-> 0]
    BY DEF Absent
  <2>2. [[status |-> "on", cred |-> None, old |-> {}, meta |-> 0] EXCEPT !.cred = c] =
          [status |-> "on", cred |-> c, old |-> {}, meta |-> 0]
    OBVIOUS
  <2>3. [Absent EXCEPT !.status = "on", !.cred = c] =
          [status |-> "on", cred |-> c, old |-> {}, meta |-> 0]
    BY <2>1, <2>2
  <2>4. QED
    BY <2>3 DEF Absent
<1>5. reg = [u \in User |-> reg[u]]
  OBVIOUS
<1> HIDE DEF reg
<1>6. reg \in Registry
  <2>1. /\ [status |-> "on", cred |-> c, old |-> {}, meta |-> 0] \in Entry
        /\ [status |-> "absent", cred |-> None, old |-> {}, meta |-> 0] \in Entry
    BY DEF Entry
  <2>2. \A u \in User : reg[u] \in Entry
    BY <1>4, <2>1
  <2>3. QED
    BY <1>5, <2>2 DEF Registry
<1>7. RegistrySound(reg, {c}, {})
  BY <1>3, <1>4 DEF RegistrySound
<1>8. /\ Config(reg) \in SUBSET Cred
      /\ Uri(reg) \in Cred \cup {None}
  BY <1>6, <1>7, RenderedSound
<1>9. files \in Files /\ FilesSound(files, used, gone)
  BY <1>2, <1>6, <1>7, <1>8 DEF Files, FilesSound
<1>10. TypeOK
  BY <1>2, <1>8, <1>9, NothingTyped DEF TypeOK, Steps
<1>11. ServedInv
  BY <1>2 DEF ServedInv
<1>12. \A p \in Proc : ~ (pc[p] \in Held) /\ lock # p /\ HolderInv(p)
  BY <1>2, <1>3 DEF Held, HolderInv, AfterStage, Between
<1>13. QED
  BY <1>2, <1>9, <1>10, <1>11, <1>12 DEF UsersInv

LEMMA OutStep ==
  ASSUME UsersInv, NEW p \in Proc, Want(p) \/ Busy(p) \/ (Die(p) /\ pc[p] = "lock")
  PROVE  UsersInv'
<1>1. pc[p] \in {"out", "lock"} /\ UNCHANGED <<files, proxy, used, gone>>
  BY DEF Want, Busy, Die
<1>2. pc[p] \notin Held /\ lock # p
  BY <1>1 DEF UsersInv, Held
<1>3. UNCHANGED <<lock, torn>> /\ pc'[p] \in {"out", "lock"} /\ TypeOK'
      /\ pc' \in [Proc -> Steps]
      /\ \A q \in Proc \ {p} : pc'[q] = pc[q] /\ job'[q] = job[q] /\ saved'[q] = saved[q]
                               /\ staged'[q] = staged[q]
  <2>1. CASE Want(p)
    BY <2>1 DEF Want, Goto, UsersInv, TypeOK, Steps
  <2>2. CASE Exit(p) /\ UNCHANGED torn
    <3>1. lock' = lock
      BY <1>2, <2>2 DEF Exit
    <3>2. pc' = [pc EXCEPT ![p] = "out"]
      BY <2>2 DEF Exit
    <3>3. QED
      BY <1>1, <2>2, <3>1, <3>2, ExitType DEF UsersInv, TypeOK
  <2>3. QED
    BY <2>1, <2>2 DEF Busy, Die, UsersInv, TypeOK
<1>4. pc'[p] \notin Held
  BY <1>3 DEF Held
<1>5. QED
  BY <1>1, <1>2, <1>3, <1>4, OutsiderSteps

LEMMA LockStep ==
  ASSUME UsersInv, NEW p \in Proc, Lock(p)
  PROVE  UsersInv'
<1>1. /\ pc[p] = "lock" /\ lock = None /\ lock' = p
      /\ pc' = [pc EXCEPT ![p] = "save"]
      /\ UNCHANGED <<saved, staged, files, proxy, used, gone, torn>>
  BY DEF Lock, Goto
<1>2. PICK j \in Commands : job' = [job EXCEPT ![p] = j]
  BY DEF Lock
<1>3. j \in Job
  <2>1. /\ j.op \in Ops /\ j.tags \in SUBSET User /\ j.meta \in 0 .. 1
        /\ j = [op |-> j.op, tags |-> j.tags, meta |-> j.meta, fresh |-> j.fresh]
        /\ j.fresh = NoJob.fresh
    BY DEF Commands
  <2>2. NoJob.fresh \in UNION {[tags -> Cred] : tags \in SUBSET User}
    BY NothingTyped, JobFields
  <2>3. QED
    BY <2>1, <2>2 DEF Job
<1>4. TypeOK' /\ pc' \in [Proc -> Steps]
  BY <1>1, <1>2, <1>3 DEF UsersInv, TypeOK, Steps
<1>5. \A q \in Proc : pc[q] \notin Held
  BY <1>1, ConstantsAssumption DEF UsersInv, None
<1>6. \A q \in Proc : (pc'[q] \in Held <=> lock' = q) /\ pc'[q] \notin AfterStage \cup {"stage"}
  BY <1>1, <1>4, <1>5 DEF UsersInv, TypeOK, Held, Steps, AfterStage, Between
<1>7. ServedInv'
  BY <1>1, <1>5 DEF UsersInv, ServedInv, Held, Between, Steps
<1>8. QED
  BY <1>1, <1>4, <1>6, <1>7 DEF UsersInv, HolderInv

(* The holder may be where its program counter says.                       *)
LEMMA HolderFacts ==
  ASSUME UsersInv, NEW p \in Proc, pc[p] \in Held
  PROVE  /\ lock = p /\ HolderInv(p)
         /\ \A q \in Proc : pc[q] \in Between => q = p
         /\ FilesSound(files, used, gone)
BY DEF UsersInv, Held, Between, Steps

LEMMA SaveStep ==
  ASSUME UsersInv, NEW p \in Proc, Save(p)
  PROVE  UsersInv'
<1>1. /\ pc[p] = "save" /\ pc' = [pc EXCEPT ![p] = "stage"]
      /\ saved' = [saved EXCEPT ![p] = files]
      /\ UNCHANGED <<lock, staged, files, proxy, gone, torn>>
  BY DEF Save, Goto
<1>2. PICK f \in Fresh(job[p]) : /\ job' = [job EXCEPT ![p].fresh = f]
                                 /\ used' = used \cup {f[u] : u \in DOMAIN f}
  BY DEF Save
<1> DEFINE j == job[p]
           new == [op |-> j.op, tags |-> j.tags, meta |-> j.meta, fresh |-> f]
<1>3. /\ j \in Job /\ files \in Files /\ files.users \in Registry
      /\ used \in SUBSET Cred /\ gone \in SUBSET used
  BY TypeFacts
<1>4. lock = p /\ pc[p] \in Held /\ FilesSound(files, used, gone)
      /\ \A q \in Proc : pc[q] \in Between => q = p
  BY <1>1, HolderFacts DEF Held, Steps
<1>5. job' = [job EXCEPT ![p] = new]
  <2>1. j = [op |-> j.op, tags |-> j.tags, meta |-> j.meta, fresh |-> j.fresh]
    BY <1>3 DEF Job
  <2>2. [j EXCEPT !.fresh = f] = new
    BY <2>1
  <2>3. job' = [job EXCEPT ![p] = [j EXCEPT !.fresh = f]]
    BY <1>2
  <2>4. QED
    BY <2>2, <2>3
<1>6. /\ f \in UNION {[tags -> Cred] : tags \in SUBSET User}
      /\ j.op \in {"add", "rotate"} =>
           f \in [j.tags -> Cred \ used] /\ \A t, u \in j.tags : f[t] = f[u] => t = u
  <2>1. CASE j.op \in {"add", "rotate"}
    <3>1. f \in [j.tags -> Cred \ used] /\ \A t, u \in j.tags : f[t] = f[u] => t = u
      BY <1>2, <2>1 DEF Fresh
    <3>2. j.tags \in SUBSET User /\ f \in [j.tags -> Cred]
      BY <1>3, <3>1, JobFields
    <3>3. QED
      BY <3>1, <3>2
  <2>2. CASE j.op \notin {"add", "rotate"}
    <3>1. f = NoJob.fresh
      BY <1>2, <2>2 DEF Fresh
    <3>2. QED
      BY <2>2, <3>1, NothingTyped, JobFields
  <2>3. QED
    BY <2>1, <2>2
<1>7. new \in Job
  BY <1>3, <1>6, JobFields DEF Job
<1>8. used' \in SUBSET Cred /\ used \subseteq used'
  BY <1>2, <1>3, <1>6
<1>9. TypeOK'
  BY <1>1, <1>3, <1>5, <1>7, <1>8 DEF UsersInv, TypeOK, Steps
<1>10. FilesSound(files, used', gone)
  BY <1>4, <1>8 DEF FilesSound, RegistrySound
<1>11. FreshSound(new, files.users, used', gone)
  <2>1. SUFFICES ASSUME j.op \in {"add", "rotate"}
                 PROVE  /\ f \in [j.tags -> used' \ gone]
                        /\ \A t, u \in j.tags : f[t] = f[u] => t = u
                        /\ \A t \in j.tags, u \in User :
                             f[t] # files.users[u].cred /\ f[t] \notin files.users[u].old
    BY DEF FreshSound
  <2>2. f \in [j.tags -> Cred \ used] /\ \A t, u \in j.tags : f[t] = f[u] => t = u
    BY <1>6, <2>1
  <2>3. \A t \in j.tags : f[t] \in used' /\ f[t] \notin used /\ f[t] \in Cred
    BY <1>2, <2>2
  <2>4. \A t \in j.tags : f[t] \in used' \ gone
    BY <1>3, <2>3
  <2>5. f \in [j.tags -> used' \ gone]
    BY <2>2, <2>4
  <2>6. \A u \in User : /\ files.users[u].cred \in used \cup {None}
                        /\ files.users[u].old \subseteq used
    BY <1>4 DEF FilesSound, RegistrySound
  <2>7. None \notin Cred
    BY ConstantsAssumption DEF None
  <2>8. QED
    BY <2>2, <2>3, <2>5, <2>6, <2>7
<1> HIDE DEF new
<1>12. HolderInv(p)'
  <2>1. pc'[p] = "stage" /\ saved'[p] = files /\ job'[p] = new
    BY <1>1, <1>5 DEF UsersInv, TypeOK
  <2>2. QED
    BY <1>1, <1>11, <2>1 DEF HolderInv, AfterStage, Between
<1>13. ServedInv'
  BY <1>1, <1>4 DEF UsersInv, ServedInv, Between
<1>14. QED
  BY <1>1, <1>3, <1>4, <1>8, <1>9, <1>10, <1>12, <1>13, HolderSteps DEF Held, Steps

LEMMA StageStep ==
  ASSUME UsersInv, NEW p \in Proc, Stage(p)
  PROVE  UsersInv'
<1> DEFINE new == Changed(files.users, job[p])
<1>1. /\ pc[p] = "stage" /\ Allowed(files.users, job[p])
      /\ staged' = [staged EXCEPT ![p] = new]
      /\ pc' = [pc EXCEPT ![p] = "install"]
      /\ UNCHANGED <<lock, job, saved, files, proxy, used, gone, torn>>
  BY DEF Stage, Goto
<1>2. /\ lock = p /\ HolderInv(p) /\ FilesSound(files, used, gone)
      /\ \A q \in Proc : pc[q] \in Between => q = p
  BY <1>1, HolderFacts DEF Held, Steps
<1>3. /\ job[p] \in Job /\ files.users \in Registry /\ saved[p] \in Files
      /\ used \in SUBSET Cred /\ gone \in SUBSET used
  BY TypeFacts
<1>4. saved[p] = files /\ FreshSound(job[p], files.users, used, gone)
  BY <1>1, <1>2 DEF HolderInv
<1>5. new \in Registry /\ RegistrySound(new, used, gone)
  BY <1>1, <1>2, <1>3, <1>4, ChangedSound DEF FilesSound
<1> HIDE DEF new
<1>6. TypeOK'
  BY <1>1, <1>5 DEF UsersInv, TypeOK, Steps
<1>7. HolderInv(p)'
  <2>1. /\ pc'[p] = "install" /\ staged'[p] = new /\ saved'[p] = files /\ job'[p] = job[p]
        /\ saved'[p].users = files.users
    BY <1>1, <1>4 DEF UsersInv, TypeOK
  <2>2. FilesInv("install", files, new)
    BY DEF FilesInv
  <2>3. QED
    BY <1>1, <1>2, <1>5, <2>1, <2>2 DEF HolderInv, FilesInv, new
<1>8. ServedInv'
  BY <1>1, <1>2 DEF UsersInv, ServedInv, Between
<1>9. QED
  BY <1>1, <1>2, <1>3, <1>6, <1>7, <1>8, HolderSteps DEF Held, Steps

(* From the staging on: only the files, sing-box and the program counter   *)
(* change, and each file is the saved or the staged one.                   *)
LEMMA CommitStep ==
  ASSUME UsersInv, NEW p \in Proc, pc[p] \in AfterStage, NEW s \in AfterStage,
         pc' = [pc EXCEPT ![p] = s], UNCHANGED <<lock, job, saved, staged, used, gone>>,
         files' \in Files, proxy' \in SUBSET Cred, torn' \in BOOLEAN,
         FilesInv(s, saved[p], staged[p])',
         ServedInv'
  PROVE  UsersInv'
<1>1. /\ s \in Held /\ s \in Steps /\ s # "stage" /\ lock = p /\ HolderInv(p)
  BY HolderFacts DEF AfterStage, Between, Held, Steps
<1>2. /\ saved[p] \in Files /\ staged[p] \in Registry
      /\ used \in SUBSET Cred /\ gone \in SUBSET used
  BY TypeFacts
<1>3. TypeOK'
  BY <1>1 DEF UsersInv, TypeOK
<1>4. /\ pc'[p] = s /\ saved'[p] = saved[p] /\ staged'[p] = staged[p] /\ job'[p] = job[p]
  BY DEF UsersInv, TypeOK
<1>5. /\ FilesSound(saved[p], used, gone) /\ RegistrySound(staged[p], used, gone)
      /\ staged[p] = Changed(saved[p].users, job[p])
  BY <1>1 DEF HolderInv
<1>6. /\ files'.users \in {saved[p].users, staged[p]}
      /\ files'.config \in {saved[p].config, Config(staged[p])}
      /\ files'.uri \in {saved[p].uri, Uri(staged[p])}
  BY <1>4 DEF FilesInv
<1>7. FilesSound(files', used, gone)
  BY <1>2, <1>5, <1>6, FilesOfHolder
<1>8. HolderInv(p)'
  BY <1>1, <1>4, <1>5 DEF HolderInv, FilesInv
<1>9. QED
  BY <1>1, <1>2, <1>3, <1>7, <1>8, HolderSteps

(* One file replaced, from the staged registry or from the backup.         *)
LEMMA FileStep ==
  ASSUME UsersInv, NEW p \in Proc,
         \/ InstallUsersOnly(p) \/ InstallConfig(p) \/ InstallUsers(p) \/ InstallUri(p)
         \/ BackConfig(p) \/ BackUsers(p) \/ BackUri(p)
  PROVE  UsersInv'
<1>1. /\ pc[p] \in AfterStage
      /\ UNCHANGED <<lock, job, saved, staged, proxy, used, gone, torn>>
  BY DEF InstallUsersOnly, InstallConfig, InstallUsers, InstallUri, BackConfig, BackUsers,
         BackUri, AfterStage, Between
<1>2. /\ files = [users |-> files.users, config |-> files.config, uri |-> files.uri]
      /\ files.users \in Registry /\ files.config \in SUBSET Cred
      /\ files.uri \in Cred \cup {None}
  BY TypeFacts, FilesFields
<1>3. /\ saved[p].users \in Registry /\ saved[p].config \in SUBSET Cred
      /\ saved[p].uri \in Cred \cup {None} /\ staged[p] \in Registry
      /\ used \in SUBSET Cred /\ gone \in SUBSET used
  BY TypeFacts, FilesFields
<1>4. /\ RegistrySound(staged[p], used, gone) /\ FilesInv(pc[p], saved[p], staged[p])
      /\ \A q \in Proc : pc[q] \in Between => q = p
  BY <1>1, HolderFacts DEF HolderInv, AfterStage, Between, Held, Steps
<1>5. Config(staged[p]) \in SUBSET Cred /\ Uri(staged[p]) \in Cred \cup {None}
  BY <1>3, <1>4, RenderedSound
<1>6. proxy \in SUBSET Cred /\ torn \in BOOLEAN /\ pc \in [Proc -> Steps]
  BY DEF UsersInv, TypeOK
<1>7. ASSUME NEW s \in AfterStage, pc' = [pc EXCEPT ![p] = s],
             NEW us \in Registry, NEW con \in SUBSET Cred, NEW uri \in Cred \cup {None},
             files' = [users |-> us, config |-> con, uri |-> uri],
             s \in Between \/ (con = files.config /\ pc[p] \notin Between),
             us = IF s \in {"install", "users", "backUri", "backRestart"}
                    THEN saved[p].users ELSE staged[p],
             con = IF s \in {"install", "backUsers", "backUri", "backRestart"}
                     THEN saved[p].config ELSE Config(staged[p]),
             uri = IF s \in {"install", "users", "uri", "backRestart"}
                     THEN saved[p].uri ELSE Uri(staged[p])
      PROVE  UsersInv'
  <2>1. files' \in Files
    BY <1>7 DEF Files
  <2>2. /\ files'.users = us /\ files'.config = con /\ files'.uri = uri
        /\ saved'[p] = saved[p] /\ staged'[p] = staged[p] /\ pc'[p] = s
    BY <1>1, <1>6, <1>7
  <2>3. FilesInv(s, saved[p], staged[p])'
    BY <1>7, <2>2 DEF FilesInv
  <2>4. ServedInv'
    <3>1. CASE s \in Between
      BY <2>2, <3>1 DEF ServedInv
    <3>2. CASE con = files.config /\ pc[p] \notin Between
      <4>1. \A q \in Proc : pc[q] \notin Between
        BY <1>4, <3>2
      <4>2. QED
        BY <1>1, <2>2, <3>2, <4>1 DEF UsersInv, ServedInv
    <3>3. QED
      BY <1>7, <3>1, <3>2
  <2>5. QED
    BY <1>1, <1>6, <1>7, <2>1, <2>3, <2>4, CommitStep
<1>8. CASE InstallUsersOnly(p)
  <2>1. files' = [users |-> staged[p], config |-> files.config, uri |-> files.uri]
    BY <1>2, <1>8 DEF InstallUsersOnly
  <2>2. /\ files.config = Config(staged[p]) /\ files.uri = Uri(staged[p])
        /\ pc' = [pc EXCEPT ![p] = "done"] /\ pc[p] = "install"
    BY <1>8 DEF InstallUsersOnly, SameArtifacts, Goto
  <2>3. QED
    BY <1>2, <1>3, <1>7, <2>1, <2>2 DEF AfterStage, Between
<1>9. CASE InstallConfig(p)
  <2>1. files' = [users |-> files.users, config |-> Config(staged[p]), uri |-> files.uri]
    BY <1>2, <1>9 DEF InstallConfig
  <2>2. pc[p] = "install" /\ pc' = [pc EXCEPT ![p] = "users"]
    BY <1>9 DEF InstallConfig, Goto
  <2>3. QED
    BY <1>2, <1>4, <1>5, <1>7, <2>1, <2>2 DEF FilesInv, AfterStage, Between
<1>10. CASE InstallUsers(p)
  <2>1. files' = [users |-> staged[p], config |-> files.config, uri |-> files.uri]
    BY <1>2, <1>10 DEF InstallUsers
  <2>2. pc[p] = "users" /\ pc' = [pc EXCEPT ![p] = "uri"]
    BY <1>10 DEF InstallUsers, Goto
  <2>3. QED
    BY <1>2, <1>3, <1>4, <1>7, <2>1, <2>2 DEF FilesInv, AfterStage, Between
<1>11. CASE InstallUri(p)
  <2>1. files' = [users |-> files.users, config |-> files.config, uri |-> Uri(staged[p])]
    BY <1>2, <1>11 DEF InstallUri
  <2>2. pc[p] = "uri" /\ pc' = [pc EXCEPT ![p] = "restart"]
    BY <1>11 DEF InstallUri, Goto
  <2>3. QED
    BY <1>2, <1>4, <1>5, <1>7, <2>1, <2>2 DEF FilesInv, AfterStage, Between
<1>12. CASE BackConfig(p)
  <2>1. files' = [users |-> files.users, config |-> saved[p].config, uri |-> files.uri]
    BY <1>2, <1>12 DEF BackConfig
  <2>2. pc[p] = "backConfig" /\ pc' = [pc EXCEPT ![p] = "backUsers"]
    BY <1>12 DEF BackConfig, Goto
  <2>3. QED
    BY <1>2, <1>3, <1>4, <1>7, <2>1, <2>2 DEF FilesInv, AfterStage, Between
<1>13. CASE BackUsers(p)
  <2>1. files' = [users |-> saved[p].users, config |-> files.config, uri |-> files.uri]
    BY <1>2, <1>13 DEF BackUsers
  <2>2. pc[p] = "backUsers" /\ pc' = [pc EXCEPT ![p] = "backUri"]
    BY <1>13 DEF BackUsers, Goto
  <2>3. QED
    BY <1>2, <1>3, <1>4, <1>7, <2>1, <2>2 DEF FilesInv, AfterStage, Between
<1>14. CASE BackUri(p)
  <2>1. files' = [users |-> files.users, config |-> files.config, uri |-> saved[p].uri]
    BY <1>2, <1>14 DEF BackUri
  <2>2. pc[p] = "backUri" /\ pc' = [pc EXCEPT ![p] = "backRestart"]
    BY <1>14 DEF BackUri, Goto
  <2>3. QED
    BY <1>2, <1>3, <1>4, <1>7, <2>1, <2>2 DEF FilesInv, AfterStage, Between
<1>15. QED
  BY <1>8, <1>9, <1>10, <1>11, <1>12, <1>13, <1>14

(* sing-box restarted for good, or found healthy or not: the files stay.   *)
LEMMA ServiceStep ==
  ASSUME UsersInv, NEW p \in Proc, Restart(p) \/ Healthy(p) \/ Unhealthy(p)
  PROVE  UsersInv'
<1>1. /\ UNCHANGED <<lock, job, saved, staged, files, used, gone>>
      /\ pc[p] \in {"restart", "health"}
      /\ \E s \in {"health", "done", "backConfig"} : pc' = [pc EXCEPT ![p] = s]
  BY DEF Restart, Healthy, Unhealthy, Goto
<1>2. PICK s \in {"health", "done", "backConfig"} : pc' = [pc EXCEPT ![p] = s]
  BY <1>1
<1>3. /\ files \in Files /\ files.config \in SUBSET Cred
  BY TypeFacts, FilesFields
<1>4. /\ FilesInv(pc[p], saved[p], staged[p])
      /\ \A q \in Proc : pc[q] \in Between => q = p
  BY <1>1, HolderFacts DEF HolderInv, AfterStage, Between, Held, Steps
<1>5. FilesInv(s, saved[p], staged[p])'
  BY <1>1, <1>2, <1>4 DEF FilesInv
<1>6. /\ proxy' \in SUBSET Cred /\ torn' \in BOOLEAN
      /\ torn' \/ proxy' \in {{}, files.config}
  <2>1. CASE Restart(p)
    BY <1>3, <2>1 DEF Restart
  <2>2. CASE pc[p] = "health" /\ UNCHANGED <<proxy, torn>>
    <3>1. \A q \in Proc : pc[q] \notin Between
      BY <1>4, <2>2 DEF Between
    <3>2. QED
      BY <2>2, <3>1 DEF UsersInv, ServedInv, TypeOK
  <2>3. QED
    BY <2>1, <2>2 DEF Healthy, Unhealthy
<1>7. QED
  BY <1>1, <1>2, <1>3, <1>5, <1>6, CommitStep DEF AfterStage, Between, ServedInv

(* On the way out after a failure: the files are sound as they are.        *)
LEMMA FailingStep ==
  ASSUME UsersInv, NEW p \in Proc, Refuse(p) \/ RestartFails(p) \/ BackRestart(p)
  PROVE  UsersInv'
<1>1. /\ UNCHANGED <<lock, job, saved, staged, files, used, gone>>
      /\ pc[p] \in {"stage", "restart", "backRestart"}
      /\ pc' = [pc EXCEPT ![p] = "failed"]
  BY DEF Refuse, RestartFails, BackRestart, Goto
<1>2. /\ lock = p /\ FilesSound(files, used, gone) /\ gone \in SUBSET used
      /\ \A q \in Proc : pc[q] \in Between => q = p
  BY <1>1, HolderFacts, TypeFacts DEF Held, Steps
<1>3. files.config \in SUBSET Cred
  BY TypeFacts, FilesFields
<1>4. /\ proxy' \in SUBSET Cred /\ torn' \in BOOLEAN
      /\ torn' \/ proxy' \in {{}, files.config}
  <2>1. CASE Refuse(p)
    <3>1. pc[p] = "stage" /\ UNCHANGED <<proxy, torn>>
      BY <2>1 DEF Refuse
    <3>2. \A q \in Proc : pc[q] \notin Between
      BY <1>2, <3>1 DEF Between
    <3>3. QED
      BY <3>1, <3>2 DEF UsersInv, ServedInv, TypeOK
  <2>2. CASE RestartFails(p) \/ BackRestart(p)
    BY <1>3, <2>2 DEF RestartFails, BackRestart
  <2>3. QED
    BY <2>1, <2>2
<1>5. TypeOK'
  BY <1>1, <1>4 DEF UsersInv, TypeOK, Steps
<1>6. pc'[p] = "failed"
  BY <1>1 DEF UsersInv, TypeOK
<1>7. HolderInv(p)'
  BY <1>6 DEF HolderInv, AfterStage, Between
<1>8. QED
  BY <1>1, <1>2, <1>4, <1>5, <1>7, HolderSteps DEF Held, Steps, ServedInv

(* The one step that revokes: what it revokes is in use nowhere.           *)
LEMMA ReportStep ==
  ASSUME UsersInv, NEW p \in Proc, Report(p)
  PROVE  UsersInv'
<1>1. pc[p] = "done" /\ Exit(p) /\ UNCHANGED <<files, proxy, used, torn>>
  BY DEF Report
<1>2. /\ RegistrySound(staged[p], used, gone) /\ FilesInv("done", saved[p], staged[p])
      /\ FilesSound(files, used, gone)
  BY <1>1, HolderFacts DEF HolderInv, AfterStage, Between, Held, Steps
<1>3. /\ files.users = staged[p] /\ files.config = Config(staged[p])
      /\ files.uri = Uri(staged[p])
  BY <1>2 DEF FilesInv
<1>4. /\ job[p].tags \subseteq User /\ staged[p] \in Registry
      /\ used \in SUBSET Cred /\ gone \in SUBSET used
  BY TypeFacts, JobFields
<1>5. \A c \in gone' : c \in gone \/ \E t \in User : c \in staged[p][t].old
  BY <1>4 DEF Report
<1>6. gone' \in SUBSET used
  BY <1>2, <1>4, <1>5 DEF RegistrySound
<1>7. RegistrySound(staged[p], used, gone')
  <2>1. \A t, u \in User : staged[p][u].cred \notin staged[p][t].old
    BY <1>2 DEF RegistrySound
  <2>2. \A u \in User : staged[p][u].cred \in (used \ gone) \cup {None}
    BY <1>2 DEF RegistrySound
  <2>3. \A u \in User : staged[p][u].cred \in (used \ gone') \cup {None}
    BY <1>5, <2>1, <2>2
  <2>4. QED
    BY <1>2, <2>3 DEF RegistrySound
<1>8. FilesSound(files, used, gone')
  BY <1>3, <1>4, <1>6, <1>7, RenderedSound DEF FilesSound
<1>9. pc[p] \in Held /\ pc[p] \notin Between /\ torn \in BOOLEAN
  BY <1>1 DEF Held, Steps, Between, UsersInv, TypeOK
<1>10. QED
  BY <1>1, <1>6, <1>8, <1>9, HolderExits

LEMMA DieStep ==
  ASSUME UsersInv, NEW p \in Proc, Fail(p) \/ (Die(p) /\ pc[p] # "lock")
  PROVE  UsersInv'
<1>1. /\ pc[p] \in Held /\ Exit(p) /\ UNCHANGED <<files, proxy, used, gone>>
      /\ torn => torn'
      /\ pc[p] \in Between => torn'
      /\ torn' \in BOOLEAN
  <2>1. CASE Fail(p)
    BY <2>1 DEF Fail, Held, Steps, Between, UsersInv, TypeOK
  <2>2. CASE Die(p) /\ pc[p] # "lock"
    <3>1. pc[p] \in Steps /\ torn \in BOOLEAN
      BY DEF UsersInv, TypeOK
    <3>2. QED
      BY <2>2, <3>1 DEF Die, Held, Between
  <2>3. QED
    BY <2>1, <2>2
<1>2. FilesSound(files, used, gone) /\ gone \in SUBSET used
  BY TypeFacts DEF UsersInv
<1>3. QED
  BY <1>1, <1>2, HolderExits

(* systemd, or `vcl restart`, at any time.                                 *)
LEMMA ProxyStep ==
  ASSUME UsersInv, ProxyStarts \/ ProxyStops
  PROVE  UsersInv'
<1>1. /\ UNCHANGED <<lock, pc, job, saved, staged, files, used, gone>>
      /\ torn' = FALSE /\ proxy' \in {{}, files.config}
  BY DEF ProxyStarts, ProxyStops
<1>2. files.config \in SUBSET Cred
  BY FilesFields DEF UsersInv, TypeOK
<1>3. TypeOK'
  BY <1>1, <1>2 DEF UsersInv, TypeOK
<1>4. \A p \in Proc : HolderInv(p)'
  BY <1>1 DEF UsersInv, HolderInv, FilesInv
<1>5. QED
  BY <1>1, <1>3, <1>4 DEF UsersInv, ServedInv

LEMMA UsersStep == UsersInv /\ [Next]_vars => UsersInv'
<1> SUFFICES ASSUME UsersInv, [Next]_vars PROVE UsersInv'
  OBVIOUS
<1>1. CASE UNCHANGED vars
  BY <1>1 DEF vars, UsersInv, TypeOK, ServedInv, HolderInv, FilesInv
<1>2. ASSUME NEW p \in Proc, Step(p) PROVE UsersInv'
  BY <1>2, OutStep, LockStep, SaveStep, StageStep, FileStep, ServiceStep, FailingStep,
     ReportStep, DieStep
     DEF Step
<1>3. QED
  BY <1>1, <1>2, ProxyStep DEF Next

-----------------------------------------------------------------------------
(***************************************************************************)
(* The theorems.                                                           *)
(***************************************************************************)
(* While a command holds the lock, each file is the saved or the staged    *)
(* one, and all of them are sound.                                         *)
THEOREM UsersSound == Spec => []UsersInv
BY UsersInit, UsersStep, PTL DEF Spec

(* Every variable keeps its type.                                          *)
THEOREM TypeCorrect == Spec => []TypeOK
BY UsersSound, PTL DEF UsersInv

(* What a rotate revoked never comes back, by no later command, death or   *)
(* restore.                                                                *)
THEOREM RevokedStaysOutHolds == Spec => []RevokedStaysOut
<1>1. UsersInv => RevokedStaysOut
  BY ConstantsAssumption DEF UsersInv, TypeOK, FilesSound, RegistrySound, RevokedStaysOut, None
<1>2. QED
  BY <1>1, UsersSound, PTL

(* A command that reports success leaves the three files agreeing ...      *)
THEOREM SuccessSettlesHolds == Spec => []SuccessSettlesDisk
<1>1. UsersInv => SuccessSettlesDisk
  BY DEF UsersInv, HolderInv, AfterStage, Between, FilesInv, SuccessSettlesDisk
<1>2. QED
  BY <1>1, UsersSound, PTL

(* ... and sing-box serving them, unless it is stopped or an earlier       *)
(* command died before its restart.                                        *)
THEOREM SuccessServedHolds == Spec => []SuccessIsServed
<1>1. UsersInv => SuccessIsServed
  <2> SUFFICES ASSUME UsersInv, NEW p \in Proc, pc[p] = "done", ~ torn
               PROVE  proxy \in {{}, Config(files.users)}
    BY DEF SuccessIsServed
  <2>1. FilesInv("done", saved[p], staged[p]) /\ \A q \in Proc : pc[q] \notin Between
    BY HolderFacts DEF HolderInv, AfterStage, Between, Held, Steps
  <2>2. files.config = Config(files.users)
    BY <2>1 DEF FilesInv
  <2>3. QED
    BY <2>1, <2>2 DEF UsersInv, ServedInv
<1>2. QED
  BY <1>1, UsersSound, PTL

(* When the restore after a failed health check ends, all three files are  *)
(* what they were when the command began.                                  *)
THEOREM RestoreIsExactHolds == Spec => []RestoreIsExact
<1>1. UsersInv => RestoreIsExact
  <2> SUFFICES ASSUME UsersInv, NEW p \in Proc, pc[p] = "backRestart"
               PROVE  files = saved[p]
    BY DEF RestoreIsExact
  <2>1. FilesInv("backRestart", saved[p], staged[p])
    BY DEF UsersInv, HolderInv, AfterStage, Between
  <2>2. files \in Files /\ saved[p] \in Files
    BY TypeFacts
  <2>3. QED
    BY <2>1, <2>2, FilesFields DEF FilesInv
<1>2. QED
  BY <1>1, UsersSound, PTL

(* A command installs its change of the registry that stands at that       *)
(* moment, and puts back that registry, whatever others do.                *)
THEOREM NoLostUpdateHolds == Spec => NoLostUpdate
<1>1. UsersInv /\ [Next]_vars =>
        [\A p \in Proc :
           /\ pc[p] \in {"install", "users"} /\ files'.users # files.users =>
                files'.users = Changed(files.users, job[p])
           /\ pc[p] = "backUsers" /\ pc'[p] = "backUri" =>
                files.users = Changed(files'.users, job[p])]_vars
  <2> SUFFICES ASSUME UsersInv, Next, NEW p \in Proc
               PROVE  /\ pc[p] \in {"install", "users"} /\ files'.users # files.users =>
                           files'.users = Changed(files.users, job[p])
                      /\ pc[p] = "backUsers" /\ pc'[p] = "backUri" =>
                           files.users = Changed(files'.users, job[p])
    OBVIOUS
  <2>1. ASSUME pc[p] \in {"install", "users", "backUsers"}
        PROVE  /\ staged[p] = Changed(saved[p].users, job[p])
               /\ FilesInv(pc[p], saved[p], staged[p])
               /\ \A q \in Proc : pc[q] \in Held => q = p
    BY <2>1 DEF UsersInv, HolderInv, AfterStage, Between, Held, Steps
  <2>2. files \in Files /\ files = [users |-> files.users, config |-> files.config,
                                    uri |-> files.uri]
    BY TypeFacts, FilesFields
  <2>3. ASSUME pc[p] \in {"install", "users"}, files'.users # files.users
        PROVE  files'.users = staged[p]
    <3>1. PICK q \in Proc : Step(q)
      BY <2>3 DEF Next, ProxyStarts, ProxyStops
    <3>2. /\ pc[q] \in {"install", "users", "uri", "backConfig", "backUsers", "backUri"}
          /\ \/ InstallUsersOnly(q) \/ InstallConfig(q) \/ InstallUsers(q) \/ InstallUri(q)
             \/ BackConfig(q) \/ BackUsers(q) \/ BackUri(q)
      BY <2>3, <3>1 DEF Step, Want, Lock, Busy, Save, Stage, Refuse, Restart, RestartFails,
         Healthy, Unhealthy, BackRestart, Report, Fail, Die, InstallUsersOnly,
         InstallConfig, InstallUsers, InstallUri, BackConfig, BackUsers, BackUri
    <3>3. q = p
      BY <2>1, <2>3, <3>2 DEF Held, Steps
    <3>4. InstallUsersOnly(p) \/ InstallUsers(p)
      <4>1. files' = [files EXCEPT !.config = Config(staged[p])] => files'.users = files.users
        BY <2>2
      <4>2. QED
        BY <2>3, <3>2, <3>3, <4>1 DEF InstallConfig, InstallUri, BackConfig, BackUsers, BackUri
    <3>5. QED
      BY <2>2, <3>4 DEF InstallUsersOnly, InstallUsers
  <2>4. ASSUME pc[p] = "backUsers", pc'[p] = "backUri"
        PROVE  files'.users = saved[p].users
    <3>1. PICK q \in Proc : Step(q)
      BY <2>4 DEF Next, ProxyStarts, ProxyStops
    <3>2. BackUsers(p)
      BY <2>1, <2>4, <3>1
         DEF Step, Want, Lock, Busy, Save, Stage, Refuse, Restart, RestartFails, Healthy,
             Unhealthy, BackRestart, Report, Fail, Die, InstallUsersOnly, InstallConfig,
             InstallUsers, InstallUri, BackConfig, BackUsers, BackUri, Goto, Exit,
             UsersInv, TypeOK
    <3>3. QED
      BY <2>2, <3>2 DEF BackUsers
  <2>5. QED
    BY <2>1, <2>3, <2>4 DEF FilesInv
<1>2. QED
  BY <1>1, UsersSound, PTL DEF Spec, NoLostUpdate

=============================================================================
