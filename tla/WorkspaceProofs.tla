--------------------------- MODULE WorkspaceProofs ---------------------------
(***************************************************************************)
(* A workspace whose digest matches is a revision, an archive that import  *)
(* accepts is one, a machine's view only advances, and an import whose     *)
(* write fails leaves the home as it was: for any machines and commands,   *)
(* until an init or an import runs beside another writer (raced).          *)
(*                                                                         *)
(* No command ever sees more than its own home, and archives carry a home  *)
(* away at any moment of its life, so the invariant speaks of every        *)
(* workspace.json there is, in a home, in the memory of a command or in an *)
(* archive (Known): its digest matches nothing but what was committed      *)
(* under its write_id (ManifestSound).  That a commit keeps this rests on  *)
(* one command at a time writing to a home (Exclusion), which therefore    *)
(* finds it as it left it (HomeInv); that `workspace init` does, which     *)
(* completes a revision other commands may already have read, on no digest *)
(* being about for that revision yet (SealInv).                            *)
(*                                                                         *)
(* Init and import take no lock, and beside another writer they break the  *)
(* exclusion: the invariant is kept as long as ~ raced.  The last theorem, *)
(* about types, does not need that: NumberInv counts the commits that the  *)
(* commands have still to make, which is what bounds the write_ids.        *)
(***************************************************************************)
EXTENDS Workspace, FiniteSetTheorems, SequenceTheorems, TLAPS

(* Commands that write to the home of their machine.                       *)
Packing == {"pack man", "pack reg", "pack log"}

Busy(p) == pc[p] \notin Packing \cup {"idle"}

(* Between the check of the home and the commit of its next revision.      *)
Changed == {"reread", "digest", "commit"}

Revising == {"mutate"} \cup Changed

AnyManifest == [fid : Nat, rev : Nat, wid : Nat, sum : SUBSET Files]

AnyArchive == [man : AnyManifest, files : Files]

(* The writes a command may still have before it, as Writes and Members    *)
(* plan them.                                                              *)
Plans ==
  {<< >>, <<"log", "reg">>, <<"reg">>, <<"log">>, <<"bump">>} \cup
  {<<"man", "reg", "log", "bump">>, <<"reg", "log", "bump">>, <<"log", "bump">>,
   <<"man", "reg", "bump">>, <<"reg", "bump">>}

(* The types that the rest needs.  TypeOK also bounds write_ids.           *)
Types ==
  /\ files \in [Machine -> Files]
  /\ man \in [Machine -> AnyManifest]
  /\ view \in [Machine -> [Wid -> [rev : Nat, wid : Nat]]]
  /\ lock = [m \in Machine |-> lock[m]]
  /\ arch \subseteq AnyArchive
  /\ at \in [Proc -> Machine \cup {None}]
  /\ pc \in [Proc -> Step]
  /\ op \in [Proc -> Locked \cup {"init", "export", "import", None}]
  /\ item \in [Proc -> Item \cup {0}]
  /\ todo \in [Proc -> Plans]
  /\ base \in [Proc -> AnyManifest]
  /\ snap \in [Proc -> Files]
  /\ pack \in [Proc -> AnyArchive]
  /\ runs \in Nat
  /\ commits \in Seq(Files)

(* Every workspace.json there is, was, or may yet be put in place.         *)
Known ==
  {man[m] : m \in Machine} \cup {base[p] : p \in Proc} \cup
  {pack[p].man : p \in Proc} \cup {x.man : x \in arch}

(* A digest matches nothing but what was committed under its write_id.     *)
ManifestSound(d) ==
  /\ d.wid <= Len(commits) /\ d.fid <= Len(commits)
  /\ d.wid = 0 => d = NoManifest
  /\ d.sum # {} => d.wid # 0 /\ d.sum = {commits[d.wid]}

(* One command at a time writes to a home.                                 *)
Exclusion ==
  /\ \A p \in Proc :
       /\ op[p] = None <=> pc[p] = "idle"
       /\ op[p] = "export" <=> pc[p] \in Packing
       /\ op[p] # None => at[p] \in Machine
       /\ op[p] \in Locked => lock[at[p]] = p
  /\ \A p, q \in Proc : Busy(p) /\ Busy(q) /\ at[p] = at[q] => p = q

(* What a machine has seen of a fleet.                                     *)
ViewSound ==
  \A m \in Machine, f \in Wid :
    view[m][f] # Unseen => f <= Len(commits) /\ view[m][f].wid # 0

(* A command at a step that writes finds the home as it left it.           *)
HomeInv(p) ==
  LET m == at[p]
      d == base[p]
  IN  /\ pc[p] \in Revising \cup {"see", "seal"} => d = man[m] /\ d.wid # 0
      /\ pc[p] \in Revising \cup {"check"} =>
           todo[p] \in {<<"log", "reg">>, <<"reg">>, <<"log">>, <<"bump">>}
      /\ Busy(p) => item[p] \in Item
      /\ pc[p] = "load" => todo[p] = <<"reg">>
      /\ pc[p] \in {"check", "mutate"} /\ todo[p] = <<"reg">> => snap[p].reg = files[m].reg
      /\ pc[p] \in Revising => d.sum # {}
      /\ pc[p] = "mutate" => files[m] = commits[d.wid]
      /\ pc[p] \in Changed => files[m] = Written(commits[d.wid], todo[p][1], item[p])
      /\ pc[p] = "commit" => snap[p] = files[m]
      /\ pc[p] = "seal" => op[p] = "init" /\ todo[p] = << >>
      /\ pc[p] = "see" =>
           todo[p] \in {<< >>, <<"log", "reg">>, <<"reg">>, <<"log">>, <<"bump">>}

(* ... and what its machine has seen of the fleet is what it was.          *)
SeenInv(p) ==
  \A f \in Wid : f = base[p].fid =>
    LET v == view[at[p]][f]
    IN  /\ pc[p] \in Revising => v = [rev |-> base[p].rev, wid |-> base[p].wid]
        /\ pc[p] = "see"      => v = Unseen \/ v.rev < base[p].rev
        /\ pc[p] = "seal"     => v = Unseen

(* What an import has put in place so far, and what it can put back.       *)
ImportInv(p) ==
  LET m == at[p]
  IN  pc[p] = "install" =>
        /\ todo[p] \in {<<"man", "reg", "log", "bump">>, <<"man", "reg", "bump">>} =>
             man[m] = base[p] /\ files[m] = snap[p]
        /\ todo[p] \in {<<"reg", "log", "bump">>, <<"reg", "bump">>} =>
             man[m] = pack[p].man /\ files[m] = snap[p]
        /\ todo[p] = <<"log", "bump">> =>
             /\ man[m] = pack[p].man
             /\ files[m].log = snap[p].log /\ files[m].logged = snap[p].logged
        /\ todo[p] \in {<<"man", "reg", "log", "bump">>, <<"man", "reg", "bump">>,
                        <<"reg", "log", "bump">>, <<"reg", "bump">>, <<"log", "bump">>}

(* The write_id of a workspace that is being made has no digest anywhere.  *)
SealInv(p) ==
  pc[p] = "seal" =>
    /\ \A d \in Known : d.wid = base[p].wid => d.sum = {}
    /\ \A q \in Proc : pc[q] = "seal" /\ base[q].wid = base[p].wid => p = q

WsInv ==
  /\ Types /\ Exclusion /\ ViewSound
  /\ \A d \in Known : ManifestSound(d)
  /\ \A p \in Proc : HomeInv(p) /\ SeenInv(p) /\ ImportInv(p) /\ SealInv(p)

-----------------------------------------------------------------------------
(***************************************************************************)
(* What a step may do, in the terms of the invariant.                      *)
(***************************************************************************)
(* Nothing of command q changes.                                           *)
Same(q) ==
  /\ at'[q] = at[q] /\ pc'[q] = pc[q] /\ op'[q] = op[q] /\ item'[q] = item[q]
  /\ todo'[q] = todo[q] /\ base'[q] = base[q] /\ snap'[q] = snap[q] /\ pack'[q] = pack[q]

HomeKept(m) == files'[m] = files[m] /\ man'[m] = man[m] /\ view'[m] = view[m]

(* No other command writes to the home of m.                               *)
Owns(p, m) == \A q \in Proc \ {p} : Busy(q) => at[q] # m

(* Revisions are added; only the one that p is making may still change.    *)
CommitsKept(p) ==
  /\ Len(commits') >= Len(commits)
  /\ \A w \in 1 .. Len(commits) :
       commits'[w] # commits[w] => pc[p] = "seal" /\ w = base[p].wid

(* A workspace.json that p makes: with no digest, with the write_id of a   *)
(* new revision, or of the one it was making.                              *)
Minted(p, d) ==
  \/ d = NoManifest
  \/ d.sum = {}
  \/ d.wid > Len(commits)
  \/ pc[p] = "seal" /\ d.wid = base[p].wid /\ pc'[p] # "seal"

LocalTypes ==
  /\ at \in [Proc -> Machine \cup {None}]
  /\ pc \in [Proc -> Step]
  /\ op \in [Proc -> Locked \cup {"init", "export", "import", None}]
  /\ item \in [Proc -> Item \cup {0}]
  /\ todo \in [Proc -> Plans]
  /\ base \in [Proc -> AnyManifest]
  /\ snap \in [Proc -> Files]
  /\ pack \in [Proc -> AnyArchive]

HomeTypes ==
  /\ files \in [Machine -> Files]
  /\ man \in [Machine -> AnyManifest]
  /\ view \in [Machine -> [Wid -> [rev : Nat, wid : Nat]]]
  /\ lock = [m \in Machine |-> lock[m]]
  /\ arch \subseteq AnyArchive
  /\ runs \in Nat
  /\ commits \in Seq(Files)

LEMMA TypesSplit == Types <=> LocalTypes /\ HomeTypes
BY DEF Types, LocalTypes, HomeTypes

LEMMA Constants ==
  /\ None \notin Machine /\ None \notin Proc /\ None \notin Locked
  /\ None \notin {"init", "export", "import"}
BY ConstantsAssumption DEF None, Locked

LEMMA RecordTypes ==
  /\ NoManifest \in AnyManifest /\ NoArchive \in AnyArchive /\ NoFiles \in Files
  /\ NoManifest.sum = {} /\ NoManifest.wid = 0 /\ NoManifest.fid = 0
  /\ NoArchive.man = NoManifest
  /\ \A d \in AnyManifest : d.fid \in Nat /\ d.rev \in Nat /\ d.wid \in Nat
  /\ \A a \in AnyArchive : a.man \in AnyManifest /\ a.files \in Files
BY DEF NoManifest, NoArchive, NoFiles, AnyManifest, AnyArchive, Files

LEMMA PlanFacts ==
  /\ \A t \in Plans : Len(t) > 1 => Tail(t) \in Plans
  /\ \A t \in {<< >>, <<"reg">>, <<"log">>, <<"bump">>} : ~ (Len(t) > 1)
  /\ Len(<<"log", "reg">>) > 1 /\ Tail(<<"log", "reg">>) = <<"reg">>
  /\ <<"log", "reg">>[2] = "reg"
  /\ <<"reg">> # <<"log">> /\ <<"reg">> # <<"bump">> /\ <<"reg">> # <<"log", "reg">>
  /\ <<"log", "reg">>[1] = "log" /\ <<"reg">>[1] = "reg" /\ <<"log">>[1] = "log"
  /\ <<"bump">>[1] = "bump"
<1>1. \A t \in {<< >>, <<"reg">>, <<"log">>, <<"bump">>} : ~ (Len(t) > 1)
  <2> SUFFICES ASSUME NEW t \in {<< >>, <<"reg">>, <<"log">>, <<"bump">>}
               PROVE  ~ (Len(t) > 1)
    OBVIOUS
  <2>1. CASE t = << >>
    BY <2>1, Len(t) = 0
  <2>2. CASE t = <<"reg">>
    BY <2>2, Len(t) = 1
  <2>3. CASE t = <<"log">>
    BY <2>3, Len(t) = 1
  <2>4. CASE t = <<"bump">>
    BY <2>4, Len(t) = 1
  <2>5. QED
    BY <2>1, <2>2, <2>3, <2>4
<1>2. \A t \in Plans : Len(t) > 1 => Tail(t) \in Plans
  <2> SUFFICES ASSUME NEW t \in Plans, Len(t) > 1
               PROVE  Tail(t) \in Plans
    OBVIOUS
  <2>1. CASE t = <<"log", "reg">>
    BY <2>1, Tail(t) = <<"reg">> DEF Plans
  <2>2. CASE t = <<"man", "reg", "log", "bump">>
    BY <2>2, Tail(t) = <<"reg", "log", "bump">> DEF Plans
  <2>3. CASE t = <<"reg", "log", "bump">>
    BY <2>3, Tail(t) = <<"log", "bump">> DEF Plans
  <2>4. CASE t = <<"log", "bump">>
    BY <2>4, Tail(t) = <<"bump">> DEF Plans
  <2>5. CASE t = <<"man", "reg", "bump">>
    BY <2>5, Tail(t) = <<"reg", "bump">> DEF Plans
  <2>6. CASE t = <<"reg", "bump">>
    BY <2>6, Tail(t) = <<"bump">> DEF Plans
  <2>7. CASE t \in {<< >>, <<"reg">>, <<"log">>, <<"bump">>}
    BY <2>7, <1>1
  <2>8. QED
    BY <2>1, <2>2, <2>3, <2>4, <2>5, <2>6, <2>7 DEF Plans
<1>3. /\ Len(<<"log", "reg">>) > 1 /\ Tail(<<"log", "reg">>) = <<"reg">>
      /\ <<"log", "reg">>[2] = "reg"
  OBVIOUS
<1>4. /\ <<"reg">> # <<"log">> /\ <<"reg">> # <<"bump">> /\ <<"reg">> # <<"log", "reg">>
      /\ <<"log", "reg">>[1] = "log" /\ <<"reg">>[1] = "reg" /\ <<"log">>[1] = "log"
      /\ <<"bump">>[1] = "bump"
  OBVIOUS
<1>5. QED
  BY <1>1, <1>2, <1>3, <1>4

(* What a command that does not move keeps true, whatever p does.          *)
LEMMA Bystander ==
  ASSUME WsInv, NEW p \in Proc, NEW q \in Proc \ {p}, Same(q), CommitsKept(p),
         Busy(q) => HomeKept(at[q])
  PROVE  HomeInv(q)' /\ SeenInv(q)' /\ ImportInv(q)'
<1>1. CASE ~ Busy(q)
  BY <1>1 DEF Same, Busy, HomeInv, SeenInv, ImportInv, Packing, Revising, Changed
<1>2. CASE Busy(q)
  <2> DEFINE w == base[q].wid
  <2>1. HomeKept(at[q]) /\ HomeInv(q) /\ SeenInv(q) /\ ImportInv(q) /\ SealInv(p)
    BY <1>2 DEF WsInv
  <2>2. pc[q] \in Revising => commits'[w] = commits[w]
    <3> SUFFICES ASSUME pc[q] \in Revising, commits'[w] # commits[w]
                 PROVE  FALSE
      OBVIOUS
    <3>1. base[q] \in Known /\ ManifestSound(base[q]) /\ base[q].sum # {}
      BY <2>1 DEF WsInv, Known, HomeInv
    <3>2. w \in 1 .. Len(commits)
      BY <3>1, RecordTypes, <2>1 DEF ManifestSound, HomeInv, WsInv, Types
    <3>3. QED
      BY <2>1, <3>1, <3>2 DEF CommitsKept, SealInv
  <2>3. HomeInv(q)'
    BY <2>1, <2>2 DEF Same, HomeKept, HomeInv, Revising, Changed, Busy, Packing
  <2>4. SeenInv(q)'
    BY <2>1 DEF Same, HomeKept, SeenInv
  <2>5. ImportInv(q)'
    BY <2>1 DEF Same, HomeKept, ImportInv
  <2>6. QED
    BY <2>3, <2>4, <2>5
<1>3. QED
  BY <1>1, <1>2

(* A step of p preserves the invariant if it does so for p and for what    *)
(* it writes.                                                              *)
LEMMA StepSound ==
  ASSUME WsInv, NEW p \in Proc, NEW m, NEW d,
         Types', Exclusion', ViewSound', CommitsKept(p),
         \A q \in Proc \ {p} : Same(q),
         Owns(p, m), \A n \in Machine \ {m} : HomeKept(n),
         Known' \subseteq Known \cup {NoManifest, d}, ManifestSound(d)', Minted(p, d),
         HomeInv(p)', SeenInv(p)', ImportInv(p)',
         pc'[p] = "seal" => base'[p].wid > Len(commits) /\ d.sum = {}
  PROVE  WsInv'
<1>1. ASSUME NEW q \in Proc
      PROVE  HomeInv(q)' /\ SeenInv(q)' /\ ImportInv(q)'
  <2>1. CASE q = p
    BY <2>1
  <2>2. CASE q # p
    <3>1. Busy(q) => at[q] \in Machine \ {m}
      BY <2>2 DEF WsInv, Exclusion, Busy, Owns
    <3>2. QED
      BY <2>2, <3>1, Bystander
  <2>3. QED
    BY <2>1, <2>2
<1>2. ASSUME NEW e \in Known'
      PROVE  ManifestSound(e)'
  <2>1. CASE e = d
    BY <2>1
  <2>2. CASE e = NoManifest
    BY <2>2, RecordTypes DEF ManifestSound, Types
  <2>3. CASE e \in Known
    <3>1. ManifestSound(e) /\ SealInv(p) /\ e.wid \in Nat
      BY <2>3, RecordTypes DEF WsInv, Known, Types
    <3>2. e.sum # {} => commits'[e.wid] = commits[e.wid]
      BY <3>1, <2>3 DEF ManifestSound, CommitsKept, SealInv
    <3>3. QED
      BY <3>1, <3>2, RecordTypes DEF ManifestSound, CommitsKept, WsInv, Types, Known
  <2>4. QED
    BY <2>1, <2>2, <2>3
<1>3. ASSUME NEW q \in Proc
      PROVE  SealInv(q)'
  <2> SUFFICES ASSUME pc'[q] = "seal"
               PROVE  /\ \A e \in Known' : e.wid = base'[q].wid => e.sum = {}
                      /\ \A r \in Proc : pc'[r] = "seal" /\ base'[r].wid = base'[q].wid => q = r
    BY DEF SealInv
  <2>1. \A e \in Known : e.wid \in Nat /\ e.wid <= Len(commits)
    BY RecordTypes DEF WsInv, Types, Known, ManifestSound
  <2>2. \A r \in Proc : base[r] \in Known
    BY DEF Known
  <2>3. CASE q # p
    <3>1. pc[q] = "seal" /\ base'[q] = base[q] /\ SealInv(q)
      BY <2>3 DEF Same, WsInv
    <3>2. ASSUME NEW e \in Known', e.wid = base'[q].wid
          PROVE  e.sum = {}
      <4>1. base[q] \in Known /\ base[q].wid <= Len(commits) /\ e.wid = base[q].wid
        BY <2>1, <2>2, <3>1, <3>2
      <4>2. CASE e \in Known
        BY <3>1, <4>1, <4>2 DEF SealInv
      <4>3. CASE e = d
        <5>1. e = NoManifest \/ e.sum = {}
          BY <2>1, <2>3, <3>1, <4>1, <4>3 DEF SealInv, Minted, WsInv, Types
        <5>2. QED
          BY <5>1, RecordTypes
      <4>4. QED
        BY <4>2, <4>3, RecordTypes
    <3>3. ASSUME NEW r \in Proc, pc'[r] = "seal", base'[r].wid = base'[q].wid
          PROVE  q = r
      BY <2>1, <2>2, <2>3, <3>1, <3>3 DEF SealInv, Same
    <3>4. QED
      BY <3>2, <3>3
  <2>4. CASE q = p
    <3>1. base'[p].wid > Len(commits) /\ d.sum = {} /\ Len(commits) \in Nat
      BY <2>4 DEF WsInv, Types
    <3>2. ASSUME NEW e \in Known', e.wid = base'[p].wid
          PROVE  e.sum = {}
      BY <2>1, <3>1, <3>2, RecordTypes
    <3>3. ASSUME NEW r \in Proc, pc'[r] = "seal", base'[r].wid = base'[p].wid
          PROVE  p = r
      BY <2>1, <2>2, <3>1, <3>3 DEF Same
    <3>4. QED
      BY <2>4, <3>2, <3>3
  <2>5. QED
    BY <2>3, <2>4
<1>4. QED
  BY <1>1, <1>2, <1>3 DEF WsInv

(* A step that commits nothing.                                            *)
LEMMA NothingCommitted ==
  ASSUME WsInv, NEW p \in Proc, commits' = commits
  PROVE  ManifestSound(NoManifest)' /\ Minted(p, NoManifest) /\ CommitsKept(p)
<1>1. Len(commits) \in Nat
  BY DEF WsInv, Types
<1>2. ManifestSound(NoManifest)'
  BY <1>1, RecordTypes DEF ManifestSound
<1>3. Minted(p, NoManifest) /\ CommitsKept(p)
  BY <1>1 DEF Minted, CommitsKept
<1>4. QED
  BY <1>2, <1>3

LEMMA BusyFacts ==
  ASSUME WsInv, NEW p \in Proc, Busy(p)
  PROVE  /\ at[p] \in Machine /\ op[p] # None /\ op[p] # "export"
         /\ Owns(p, at[p])
         /\ HomeInv(p) /\ SeenInv(p) /\ ImportInv(p) /\ SealInv(p)
BY DEF WsInv, Exclusion, Busy, Owns

(* p goes on to step s.                                                    *)
LEMMA GoesFacts ==
  ASSUME WsInv, NEW p \in Proc, NEW s \in Step \ {"idle"}, Goes(p, s),
         pc[p] # "idle", s \in Packing <=> pc[p] \in Packing
  PROVE  /\ Exclusion'
         /\ at' = at /\ op' = op /\ lock' = lock /\ pc' \in [Proc -> Step] /\ pc'[p] = s
         /\ \A q \in Proc \ {p} : pc'[q] = pc[q]
<1>1. /\ at' = at /\ op' = op /\ lock' = lock /\ pc' \in [Proc -> Step] /\ pc'[p] = s
      /\ \A q \in Proc \ {p} : pc'[q] = pc[q]
  BY DEF Goes, WsInv, Types
<1>2. \A q \in Proc : pc'[q] = "idle" <=> pc[q] = "idle"
  BY <1>1
<1>3. \A q \in Proc : pc'[q] \in Packing <=> pc[q] \in Packing
  BY <1>1
<1>4. \A q \in Proc : Busy(q)' <=> Busy(q)
  BY <1>2, <1>3 DEF Busy
<1>5. Exclusion'
  BY <1>1, <1>2, <1>3, <1>4 DEF WsInv, Exclusion
<1>6. QED
  BY <1>1, <1>5

(* p is over.                                                              *)
LEMMA EndFacts ==
  ASSUME WsInv, NEW p \in Proc, Ends(p)
  PROVE  /\ LocalTypes' /\ Exclusion'
         /\ lock' = [m \in Machine |-> lock'[m]]
         /\ \A q \in Proc \ {p} : Same(q)
         /\ pc'[p] = "idle" /\ base'[p] = NoManifest /\ pack'[p] = NoArchive
         /\ HomeInv(p)' /\ SeenInv(p)' /\ ImportInv(p)'
<1>1. /\ \A q \in Proc \ {p} : Same(q)
      /\ at'[p] = None /\ pc'[p] = "idle" /\ op'[p] = None
      /\ base'[p] = NoManifest /\ pack'[p] = NoArchive
  BY DEF Ends, Forgotten, Same, WsInv, Types
<1>2. LocalTypes'
  BY RecordTypes DEF Ends, Forgotten, LocalTypes, WsInv, Types, Step, Plans
<1>3. HomeInv(p)' /\ SeenInv(p)' /\ ImportInv(p)'
  BY <1>1 DEF HomeInv, SeenInv, ImportInv, Revising, Changed, Busy
<1>4. lock' = [m \in Machine |-> lock'[m]]
  BY DEF Ends
<1>5. ASSUME NEW q \in Proc
      PROVE  /\ op'[q] = None <=> pc'[q] = "idle"
             /\ op'[q] = "export" <=> pc'[q] \in Packing
             /\ op'[q] # None => at'[q] \in Machine
             /\ op'[q] \in Locked => lock'[at'[q]] = q
  <2>1. CASE q = p
    BY <1>1, <2>1, Constants DEF Packing
  <2>2. CASE q # p
    <3>1. at'[q] = at[q] /\ op'[q] = op[q] /\ pc'[q] = pc[q]
      BY <1>1, <2>2 DEF Same
    <3>2. op[q] \in Locked => at[q] \in Machine /\ lock[at[q]] = q
      BY Constants DEF WsInv, Exclusion
    <3>3. op[q] \in Locked => lock'[at[q]] = q
      BY <2>2, <3>2 DEF Ends
    <3>4. QED
      BY <3>1, <3>3 DEF WsInv, Exclusion
  <2>3. QED
    BY <2>1, <2>2
<1>6. \A q, r \in Proc : Busy(q)' /\ Busy(r)' /\ at'[q] = at'[r] => q = r
  <2>1. \A q \in Proc : Busy(q)' => q # p /\ Busy(q) /\ at'[q] = at[q]
    BY <1>1 DEF Busy, Same
  <2>2. QED
    BY <2>1 DEF WsInv, Exclusion
<1>7. Exclusion'
  BY <1>5, <1>6 DEF Exclusion
<1>8. QED
  BY <1>1, <1>2, <1>3, <1>4, <1>7

(* A command that ends having written what is known already.               *)
LEMMA EndSound ==
  ASSUME WsInv, NEW p \in Proc, Ends(p), NEW m, Owns(p, m),
         \A n \in Machine \ {m} : HomeKept(n),
         files' \in [Machine -> Files], man' \in [Machine -> AnyManifest],
         view' \in [Machine -> [Wid -> [rev : Nat, wid : Nat]]],
         arch' \subseteq AnyArchive, runs' = runs, commits' = commits, ViewSound',
         \A n \in Machine : man'[n] \in Known, \A a \in arch' : a.man \in Known
  PROVE  WsInv'
<1>1. /\ LocalTypes' /\ Exclusion' /\ lock' = [n \in Machine |-> lock'[n]]
      /\ \A q \in Proc \ {p} : Same(q)
      /\ pc'[p] = "idle" /\ base'[p] = NoManifest /\ pack'[p] = NoArchive
      /\ HomeInv(p)' /\ SeenInv(p)' /\ ImportInv(p)'
  BY EndFacts
<1>2. Types'
  BY <1>1, TypesSplit DEF HomeTypes, WsInv, Types, LocalTypes
<1>3. Known' \subseteq Known \cup {NoManifest}
  <2>1. \A q \in Proc : base'[q] \in Known \cup {NoManifest}
    BY <1>1 DEF Known, Same
  <2>2. \A q \in Proc : pack'[q].man \in Known \cup {NoManifest}
    BY <1>1, RecordTypes DEF Known, Same
  <2>3. QED
    BY <2>1, <2>2 DEF Known
<1>4. ManifestSound(NoManifest)'
  BY RecordTypes DEF ManifestSound, WsInv, Types
<1>5. CommitsKept(p)
  BY DEF CommitsKept, WsInv, Types
<1>6. Minted(p, NoManifest) /\ pc'[p] # "seal"
  BY <1>1 DEF Minted
<1>7. QED
  BY <1>1, <1>2, <1>3, <1>4, <1>5, <1>6, StepSound

(* A step that changes no more than the files of the home.                 *)
LEMMA QuietSound ==
  ASSUME WsInv, NEW p \in Proc, Busy(p), NEW s \in Step \ (Packing \cup {"idle", "seal"}),
         Goes(p, s), UNCHANGED <<man, view, arch, item, base, pack, runs, commits>>,
         files' \in [Machine -> Files], \A n \in Machine \ {at[p]} : files'[n] = files[n],
         snap' \in [Proc -> Files], \A q \in Proc \ {p} : snap'[q] = snap[q],
         todo' \in [Proc -> Plans], \A q \in Proc \ {p} : todo'[q] = todo[q],
         HomeInv(p)', SeenInv(p)', ImportInv(p)'
  PROVE  WsInv'
<1>1. /\ Exclusion' /\ at' = at /\ op' = op /\ lock' = lock /\ pc' \in [Proc -> Step]
      /\ pc'[p] = s /\ \A q \in Proc \ {p} : pc'[q] = pc[q]
  BY GoesFacts DEF Busy
<1>2. Types'
  BY <1>1 DEF WsInv, Types
<1>3. \A q \in Proc \ {p} : Same(q)
  BY <1>1 DEF Same
<1>4. Owns(p, at[p]) /\ \A n \in Machine \ {at[p]} : HomeKept(n)
  BY BusyFacts DEF HomeKept
<1>5. Known' = Known
  BY DEF Known
<1>6. ManifestSound(NoManifest)' /\ Minted(p, NoManifest) /\ CommitsKept(p)
  BY RecordTypes DEF ManifestSound, WsInv, Types, Minted, CommitsKept
<1>7. ViewSound'
  BY DEF WsInv, ViewSound
<1>8. QED
  BY <1>1, <1>2, <1>3, <1>4, <1>5, <1>6, <1>7, StepSound

-----------------------------------------------------------------------------
(***************************************************************************)
(* The steps that end a command or leave the manifests alone.              *)
(***************************************************************************)
(* What a write puts in place is the content the home had with its change: *)
(* the registry it read is still the one that is there.                    *)
LEMMA PutFacts ==
  ASSUME WsInv, NEW p \in Proc, pc[p] \in {"check", "mutate"}
  PROVE  /\ Put(p) = Written(files[at[p]], todo[p][1], item[p])
         /\ Put(p) \in Files
<1> DEFINE f == files[at[p]]
<1>1. /\ at[p] \in Machine /\ f \in Files /\ snap[p] \in Files
      /\ todo[p] \in {<<"log", "reg">>, <<"reg">>, <<"log">>, <<"bump">>}
      /\ todo[p] = <<"reg">> => snap[p].reg = f.reg
      /\ item[p] \in Item
  <2>1. Busy(p)
    BY DEF Busy, Packing
  <2>2. QED
    BY <2>1, BusyFacts DEF HomeInv, WsInv, Types, Revising
<1>2. CASE todo[p] = <<"reg">>
  <2>1. Put(p) = [f EXCEPT !.reg = f.reg \cup {item[p]}]
    BY <1>1, <1>2, PlanFacts DEF Put
  <2>2. Written(f, "reg", item[p]) = [f EXCEPT !.reg = f.reg \cup {item[p]}]
    BY DEF Written
  <2>3. QED
    BY <1>1, <1>2, <2>1, <2>2, PlanFacts DEF Files
<1>3. CASE todo[p] # <<"reg">>
  <2>1. todo[p][1] \in {"log", "bump"}
    BY <1>1, <1>3, PlanFacts
  <2>2. Put(p) = Written(f, todo[p][1], item[p])
    BY <2>1 DEF Put
  <2>3. Written(f, todo[p][1], item[p]) \in Files
    BY <1>1, <2>1 DEF Written, Files
  <2>4. QED
    BY <2>2, <2>3
<1>4. QED
  BY <1>2, <1>3

(* A command that ends and changes nothing else.                           *)
LEMMA QuietEndSound ==
  ASSUME WsInv, NEW p \in Proc, Ends(p),
         UNCHANGED <<files, man, view, arch, runs, commits>>
  PROVE  WsInv'
<1>1. Owns(p, None) /\ \A n \in Machine : HomeKept(n)
  BY Constants DEF HomeKept, Owns, WsInv, Exclusion, Busy
<1>2. /\ \A n \in Machine : man'[n] \in Known
      /\ \A a \in arch' : a.man \in Known
  BY DEF Known
<1>3. ViewSound'
  BY DEF WsInv, ViewSound
<1>4. QED
  BY <1>1, <1>2, <1>3, EndSound DEF WsInv, Types

LEMMA LoadRegistrySound ==
  ASSUME WsInv, NEW p \in Proc, LoadRegistry(p)
  PROVE  WsInv'
<1>0. CASE Ends(p)
  BY <1>0, QuietEndSound DEF LoadRegistry
<1> SUFFICES ASSUME ~ Ends(p)
             PROVE  WsInv'
  BY <1>0
<1>1. Busy(p) /\ Goes(p, "check") /\ "check" \in Step \ (Packing \cup {"idle", "seal"})
  BY DEF LoadRegistry, Busy, Packing, Step
<1>2. at[p] \in Machine /\ HomeInv(p) /\ pc[p] = "load"
  BY <1>1, BusyFacts DEF LoadRegistry
<1>3. /\ UNCHANGED <<files, man, view, arch, item, todo, base, pack, runs, commits, at, op>>
      /\ snap' \in [Proc -> Files] /\ \A q \in Proc \ {p} : snap'[q] = snap[q]
      /\ snap'[p] = files[at[p]] /\ pc'[p] = "check"
  <2>1. /\ UNCHANGED <<files, man, view, arch, item, todo, base, pack, runs, commits>>
        /\ snap' = [snap EXCEPT ![p] = files[at[p]]]
    BY DEF LoadRegistry
  <2>2. QED
    BY <1>1, <1>2, <2>1 DEF Goes, WsInv, Types
<1>4. HomeInv(p)' /\ SeenInv(p)' /\ ImportInv(p)'
  BY <1>1, <1>2, <1>3 DEF HomeInv, SeenInv, ImportInv, Busy, Revising, Changed
<1>5. QED
  BY <1>1, <1>3, <1>4, QuietSound DEF WsInv, Types

(* The write at hand is the last, or `node adopt` goes on to its registry. *)
LEMMA ProceedsFacts ==
  ASSUME NEW p \in Proc, Proceeds(p),
         todo[p] \in {<< >>, <<"log", "reg">>, <<"reg">>, <<"log">>, <<"bump">>}
  PROVE  \/ Ends(p)
         \/ /\ todo[p] = <<"log", "reg">> /\ Goes(p, "load")
            /\ todo' = [todo EXCEPT ![p] = <<"reg">>]
            /\ UNCHANGED <<item, base, snap, pack>>
BY PlanFacts DEF Proceeds, FirstStep

LEMMA WriteLegacySound ==
  ASSUME WsInv, NEW p \in Proc, WriteLegacy(p)
  PROVE  WsInv'
<1>1. Busy(p) /\ pc[p] = "check"
  BY DEF WriteLegacy, Busy, Packing
<1>2. at[p] \in Machine /\ HomeInv(p) /\ Owns(p, at[p])
  BY <1>1, BusyFacts
<1>3. /\ UNCHANGED <<man, view, arch, runs, commits>>
      /\ files' \in [Machine -> Files] /\ \A n \in Machine \ {at[p]} : files'[n] = files[n]
  BY <1>1, <1>2, PutFacts DEF WriteLegacy, WsInv, Types
<1>4. CASE Ends(p)
  <2>1. \A n \in Machine \ {at[p]} : HomeKept(n)
    BY <1>3 DEF HomeKept
  <2>2. /\ \A n \in Machine : man'[n] \in Known
        /\ \A a \in arch' : a.man \in Known
    BY <1>3 DEF Known
  <2>3. ViewSound'
    BY <1>3 DEF WsInv, ViewSound
  <2>4. QED
    BY <1>2, <1>3, <1>4, <2>1, <2>2, <2>3, EndSound DEF WsInv, Types
<1>5. CASE /\ todo[p] = <<"log", "reg">> /\ Goes(p, "load")
           /\ todo' = [todo EXCEPT ![p] = <<"reg">>]
           /\ UNCHANGED <<item, base, snap, pack>>
  <2>1. /\ pc'[p] = "load" /\ todo'[p] = <<"reg">> /\ item' = item /\ base' = base
        /\ todo' \in [Proc -> Plans] /\ \A q \in Proc \ {p} : todo'[q] = todo[q]
    BY <1>5 DEF Goes, WsInv, Types, Plans
  <2>2. HomeInv(p)' /\ SeenInv(p)' /\ ImportInv(p)'
    BY <1>1, <1>2, <2>1 DEF HomeInv, SeenInv, ImportInv, Busy, Revising, Changed
  <2>3. "load" \in Step \ (Packing \cup {"idle", "seal"})
    BY DEF Step, Packing
  <2>4. QED
    BY <1>1, <1>3, <1>5, <2>1, <2>2, <2>3, QuietSound DEF WsInv, Types
<1>6. QED
  BY <1>1, <1>2, <1>4, <1>5, ProceedsFacts DEF WriteLegacy, HomeInv

LEMMA CheckFailsSound ==
  ASSUME WsInv, NEW p \in Proc, CheckFails(p)
  PROVE  WsInv'
BY QuietEndSound DEF CheckFails

LEMMA KillSound ==
  ASSUME WsInv, NEW p \in Proc, Kill(p)
  PROVE  WsInv'
BY QuietEndSound DEF Kill

LEMMA MutateSound ==
  ASSUME WsInv, NEW p \in Proc, Mutate(p)
  PROVE  WsInv'
<1>1. Busy(p) /\ Goes(p, "reread") /\ "reread" \in Step \ (Packing \cup {"idle", "seal"})
  BY DEF Mutate, Busy, Packing, Step
<1>2. at[p] \in Machine /\ HomeInv(p) /\ SeenInv(p) /\ pc[p] = "mutate"
  BY <1>1, BusyFacts DEF Mutate
<1>3. /\ UNCHANGED <<man, view, arch, item, todo, base, snap, pack, runs, commits, at, op>>
      /\ files' \in [Machine -> Files] /\ \A n \in Machine \ {at[p]} : files'[n] = files[n]
      /\ files'[at[p]] = Put(p) /\ pc'[p] = "reread"
  BY <1>2, PutFacts DEF Mutate, Goes, WsInv, Types
<1>4. files'[at[p]] = Written(commits[base[p].wid], todo[p][1], item[p])
  BY <1>2, <1>3, PutFacts DEF HomeInv
<1>5. HomeInv(p)' /\ SeenInv(p)' /\ ImportInv(p)'
  BY <1>1, <1>2, <1>3, <1>4 DEF HomeInv, SeenInv, ImportInv, Busy, Revising, Changed
<1>6. QED
  BY <1>1, <1>3, <1>5, QuietSound DEF WsInv, Types

LEMMA DigestSound ==
  ASSUME WsInv, NEW p \in Proc, Digest(p)
  PROVE  WsInv'
<1>1. Busy(p) /\ Goes(p, "commit") /\ "commit" \in Step \ (Packing \cup {"idle", "seal"})
  BY DEF Digest, Busy, Packing, Step
<1>2. at[p] \in Machine /\ HomeInv(p) /\ SeenInv(p) /\ pc[p] = "digest"
  BY <1>1, BusyFacts DEF Digest
<1>3. /\ UNCHANGED <<files, man, view, arch, item, todo, base, pack, runs, commits, at, op>>
      /\ snap' \in [Proc -> Files] /\ \A q \in Proc \ {p} : snap'[q] = snap[q]
      /\ snap'[p] = files[at[p]] /\ pc'[p] = "commit"
  BY <1>2 DEF Digest, Goes, WsInv, Types
<1>4. HomeInv(p)' /\ SeenInv(p)' /\ ImportInv(p)'
  BY <1>1, <1>2, <1>3 DEF HomeInv, SeenInv, ImportInv, Busy, Revising, Changed
<1>5. QED
  BY <1>1, <1>3, <1>4, QuietSound DEF WsInv, Types

(* The revision is still the one that was checked, so the mutation goes on.*)
LEMMA RereadSound ==
  ASSUME WsInv, NEW p \in Proc, Reread(p)
  PROVE  WsInv'
<1>1. Busy(p) /\ pc[p] = "reread" /\ "digest" \in Step \ (Packing \cup {"idle", "seal"})
  BY DEF Reread, Busy, Packing, Step
<1>2. at[p] \in Machine /\ HomeInv(p) /\ SeenInv(p) /\ base[p] = man[at[p]]
  BY <1>1, BusyFacts DEF HomeInv, Revising, Changed
<1>3. /\ Goes(p, "digest")
      /\ UNCHANGED <<files, man, view, arch, item, todo, base, snap, pack, runs, commits, at, op>>
      /\ pc'[p] = "digest"
  <2>1. /\ Goes(p, "digest") /\ base' = [base EXCEPT ![p] = base[p]]
        /\ UNCHANGED <<files, man, view, arch, item, todo, snap, pack, runs, commits>>
    BY <1>2 DEF Reread, SameTip
  <2>2. base' = base
    BY <2>1 DEF WsInv, Types
  <2>3. QED
    BY <2>1, <2>2 DEF Goes, WsInv, Types
<1>4. HomeInv(p)' /\ SeenInv(p)' /\ ImportInv(p)'
  BY <1>1, <1>2, <1>3 DEF HomeInv, SeenInv, ImportInv, Busy, Revising, Changed
<1>5. QED
  BY <1>1, <1>3, <1>4, QuietSound DEF WsInv, Types

-----------------------------------------------------------------------------
(***************************************************************************)
(* The check, the commit and what the machine then has seen.               *)
(***************************************************************************)
(* A manifest is in order, and a clean home holds its revision.            *)
LEMMA HomeFacts ==
  ASSUME WsInv, NEW m \in Machine
  PROVE  /\ man[m] \in AnyManifest /\ man[m] \in Known /\ ManifestSound(man[m])
         /\ ~ Inconsistent(man[m], files[m]) =>
              /\ man[m].sum # {} /\ man[m].wid # 0 /\ files[m] = commits[man[m].wid]
BY DEF WsInv, Types, Known, ManifestSound, Inconsistent

(* Remember changes one entry.                                             *)
LEMMA RememberFacts ==
  ASSUME WsInv, NEW m \in Machine, NEW d \in AnyManifest, Remember(m, d)
  PROVE  /\ view' \in [Machine -> [Wid -> [rev : Nat, wid : Nat]]]
         /\ \A n \in Machine \ {m} : view'[n] = view[n]
         /\ \A f \in Wid : view'[m][f] = IF f = d.fid THEN [rev |-> d.rev, wid |-> d.wid]
                                           ELSE view[m][f]
<1> DEFINE v == [rev |-> d.rev, wid |-> d.wid]
<1>1. v \in [rev : Nat, wid : Nat] /\ view[m] \in [Wid -> [rev : Nat, wid : Nat]]
  BY RecordTypes DEF WsInv, Types
<1>2. view' = [view EXCEPT ![m] = [view[m] EXCEPT ![d.fid] = v]]
  BY DEF Remember
<1> HIDE DEF v
<1>3. [view[m] EXCEPT ![d.fid] = v] \in [Wid -> [rev : Nat, wid : Nat]]
  BY <1>1
<1>4. view'[m] = [view[m] EXCEPT ![d.fid] = v]
  BY <1>2 DEF WsInv, Types
<1>5. view' \in [Machine -> [Wid -> [rev : Nat, wid : Nat]]]
  BY <1>2, <1>3 DEF WsInv, Types
<1>6. QED
  BY <1>1, <1>2, <1>4, <1>5 DEF WsInv, Types, v

(* What a machine comes to know was committed.                             *)
LEMMA RememberSound ==
  ASSUME WsInv, NEW m \in Machine, NEW d \in Known, d.wid # 0, Remember(m, d),
         commits' = commits
  PROVE  ViewSound'
<1>1. d \in AnyManifest /\ d.fid <= Len(commits)
  BY DEF WsInv, Types, Known, ManifestSound, AnyArchive
<1>2. ASSUME NEW n \in Machine, NEW f \in Wid, view'[n][f] # Unseen
      PROVE  f <= Len(commits) /\ view'[n][f].wid # 0
  <2>1. CASE n = m /\ f = d.fid
    <3>1. view'[m][d.fid] = [rev |-> d.rev, wid |-> d.wid]
      BY <1>1, <2>1, RememberFacts
    <3>2. QED
      BY <1>1, <2>1, <3>1
  <2>2. CASE ~ (n = m /\ f = d.fid)
    <3>1. view'[n][f] = view[n][f]
      BY <1>1, <2>2, RememberFacts
    <3>2. QED
      BY <1>2, <3>1 DEF WsInv, ViewSound
  <2>3. QED
    BY <2>1, <2>2
<1>3. QED
  BY <1>2 DEF ViewSound, Unseen

LEMMA CheckSound ==
  ASSUME WsInv, NEW p \in Proc, Check(p)
  PROVE  WsInv'
<1> DEFINE m == at[p]
           d == man[m]
<1>1. Busy(p) /\ pc[p] = "check" /\ "mutate" \in Step \ (Packing \cup {"idle", "seal"})
  BY DEF Check, Busy, Packing, Step
<1>2. m \in Machine /\ HomeInv(p) /\ Owns(p, m)
  BY <1>1, BusyFacts
<1>3. /\ d \in AnyManifest /\ d \in Known /\ ManifestSound(d)
      /\ d.sum # {} /\ d.wid # 0 /\ files[m] = commits[d.wid]
  BY <1>2, HomeFacts DEF Check, Conflict
<1>4. /\ Exclusion' /\ at' = at /\ op' = op /\ lock' = lock /\ pc' \in [Proc -> Step]
      /\ pc'[p] = "mutate" /\ \A q \in Proc \ {p} : pc'[q] = pc[q]
  BY <1>1, GoesFacts DEF Check, Busy
<1>5. /\ base'[p] = d /\ base' \in [Proc -> AnyManifest]
      /\ \A q \in Proc \ {p} : base'[q] = base[q]
      /\ UNCHANGED <<files, man, arch, item, todo, snap, pack, runs, commits>>
  BY <1>3 DEF Check, WsInv, Types
<1>6. /\ view' \in [Machine -> [Wid -> [rev : Nat, wid : Nat]]]
      /\ \A n \in Machine \ {m} : view'[n] = view[n]
      /\ \A f \in Wid : view'[m][f] = IF f = d.fid THEN [rev |-> d.rev, wid |-> d.wid]
                                        ELSE view[m][f]
  BY <1>2, <1>3, RememberFacts DEF Check
<1>7. ViewSound'
  BY <1>2, <1>3, <1>5, RememberSound DEF Check
<1>8. Types'
  BY <1>4, <1>5, <1>6 DEF WsInv, Types
<1>9. (\A q \in Proc \ {p} : Same(q)) /\ \A n \in Machine \ {m} : HomeKept(n)
  BY <1>4, <1>5, <1>6 DEF Same, HomeKept
<1>10. Known' \subseteq Known
  BY <1>3, <1>5 DEF Known
<1>11. HomeInv(p)' /\ SeenInv(p)' /\ ImportInv(p)'
  BY <1>1, <1>2, <1>3, <1>4, <1>5, <1>6
     DEF HomeInv, SeenInv, ImportInv, Busy, Revising, Changed, Packing
<1>12. ManifestSound(NoManifest)' /\ Minted(p, NoManifest) /\ CommitsKept(p)
  BY <1>5, RecordTypes DEF ManifestSound, WsInv, Types, Minted, CommitsKept
<1>13. QED
  BY <1>2, <1>4, <1>7, <1>8, <1>9, <1>10, <1>11, <1>12, StepSound

(* The new revision holds what the home holds, which is the old one with   *)
(* the change.                                                             *)
LEMMA CommitSound ==
  ASSUME WsInv, NEW p \in Proc, Commit(p)
  PROVE  WsInv'
<1> DEFINE m == at[p]
           d == base[p]
           f == Written(commits[d.wid], todo[p][1], item[p])
<1>1. Busy(p) /\ pc[p] = "commit" /\ "see" \in Step \ (Packing \cup {"idle", "seal"})
  BY DEF Commit, Busy, Packing, Step
<1>2. m \in Machine /\ HomeInv(p) /\ SeenInv(p) /\ Owns(p, m)
  BY <1>1, BusyFacts
<1>3. /\ d \in AnyManifest /\ d \in Known /\ ManifestSound(d) /\ d = man[m] /\ d.sum # {}
      /\ snap[p] = files[m] /\ files[m] = f /\ files[m] \in Files
  BY <1>1, <1>2 DEF HomeInv, WsInv, Types, Known, Revising, Changed
<1>4. /\ Exclusion' /\ at' = at /\ op' = op /\ lock' = lock /\ pc' \in [Proc -> Step]
      /\ pc'[p] = "see" /\ \A q \in Proc \ {p} : pc'[q] = pc[q]
  BY <1>1, GoesFacts DEF Commit, Busy
<1> PICK e : e = NextRevision(p)
  OBVIOUS
<1>5. /\ e \in AnyManifest /\ e.fid = d.fid /\ e.rev = d.rev + 1 /\ e.wid = Len(commits) + 1
      /\ e.sum = {files[m]}
  <2>1. e = [fid |-> d.fid, rev |-> d.rev + 1, wid |-> Len(commits) + 1, sum |-> {files[m]}]
    <3>1. d = [fid |-> d.fid, rev |-> d.rev, wid |-> d.wid, sum |-> d.sum]
      BY <1>3 DEF AnyManifest
    <3>2. QED
      BY <1>3, <3>1 DEF NextRevision
  <2>2. d.fid \in Nat /\ d.rev + 1 \in Nat /\ Len(commits) + 1 \in Nat
    BY <1>3, RecordTypes DEF WsInv, Types
  <2>3. QED
    BY <1>3, <2>1, <2>2 DEF AnyManifest
<1>6. /\ commits' = Append(commits, files[m])
      /\ man' = [man EXCEPT ![m] = e] /\ base' = [base EXCEPT ![p] = e]
      /\ UNCHANGED <<files, view, arch, item, todo, snap, pack, runs>>
  BY <1>3 DEF Commit
<1> HIDE DEF f
<1>7. /\ commits' \in Seq(Files) /\ Len(commits') = Len(commits) + 1 /\ Len(commits) \in Nat
      /\ commits'[Len(commits) + 1] = files[m]
      /\ \A w \in 1 .. Len(commits) : commits'[w] = commits[w]
  BY <1>3, <1>6 DEF WsInv, Types
<1>8. /\ man'[m] = e /\ man' \in [Machine -> AnyManifest]
      /\ \A n \in Machine \ {m} : man'[n] = man[n]
      /\ base'[p] = e /\ base' \in [Proc -> AnyManifest]
      /\ \A q \in Proc \ {p} : base'[q] = base[q]
  BY <1>2, <1>5, <1>6 DEF WsInv, Types
<1>9. Types'
  BY <1>4, <1>6, <1>7, <1>8 DEF WsInv, Types
<1>10. (\A q \in Proc \ {p} : Same(q)) /\ \A n \in Machine \ {m} : HomeKept(n)
  BY <1>4, <1>6, <1>8 DEF Same, HomeKept
<1>11. Known' \subseteq Known \cup {NoManifest, e} /\ pc'[p] # "seal"
  BY <1>4, <1>6, <1>8 DEF Known
<1>12. ManifestSound(e)' /\ Minted(p, e) /\ CommitsKept(p)
  <2>1. d.fid \in Nat /\ d.fid <= Len(commits)
    BY <1>3, RecordTypes DEF ManifestSound
  <2>2. ManifestSound(e)'
    BY <1>5, <1>7, <2>1 DEF ManifestSound
  <2>3. QED
    BY <1>5, <1>7, <2>2 DEF Minted, CommitsKept
<1>13. ViewSound'
  <2>1. \A n \in Wid : n \in Nat
    BY DEF Wid
  <2>2. QED
    BY <1>6, <1>7, <2>1 DEF WsInv, ViewSound
<1>14. HomeInv(p)' /\ ImportInv(p)'
  BY <1>1, <1>2, <1>4, <1>5, <1>6, <1>7, <1>8
     DEF HomeInv, ImportInv, Busy, Revising, Changed, Packing
<1>15. SeenInv(p)'
  BY <1>1, <1>2, <1>3, <1>4, <1>5, <1>6, <1>8, RecordTypes DEF SeenInv, Revising, Changed
<1>16. QED
  BY <1>2, <1>4, <1>9, <1>10, <1>11, <1>12, <1>13, <1>14, <1>15, StepSound

LEMMA SeeSound ==
  ASSUME WsInv, NEW p \in Proc, See(p)
  PROVE  WsInv'
<1> DEFINE m == at[p]
           d == base[p]
<1>1. Busy(p) /\ pc[p] = "see" /\ "load" \in Step \ {"idle"} /\ "load" \notin Packing
  BY DEF See, Busy, Packing, Step
<1>2. m \in Machine /\ HomeInv(p) /\ SeenInv(p) /\ Owns(p, m)
  BY <1>1, BusyFacts
<1>3. d \in AnyManifest /\ d \in Known /\ d.wid # 0
  BY <1>1, <1>2 DEF HomeInv, WsInv, Types, Known
<1>4. Remember(m, d) /\ UNCHANGED <<files, man, arch, runs, commits>>
  BY DEF See
<1>5. /\ view' \in [Machine -> [Wid -> [rev : Nat, wid : Nat]]]
      /\ \A n \in Machine \ {m} : view'[n] = view[n]
  BY <1>2, <1>3, <1>4, RememberFacts
<1>6. ViewSound'
  BY <1>2, <1>3, <1>4, RememberSound
<1>7. \A n \in Machine \ {m} : HomeKept(n)
  BY <1>4, <1>5 DEF HomeKept
<1>8. CASE Ends(p)
  <2>1. /\ \A n \in Machine : man'[n] \in Known
        /\ \A a \in arch' : a.man \in Known
    BY <1>4 DEF Known
  <2>2. QED
    BY <1>2, <1>4, <1>5, <1>6, <1>7, <1>8, <2>1, EndSound DEF WsInv, Types
<1>9. CASE /\ todo[p] = <<"log", "reg">> /\ Goes(p, "load")
           /\ todo' = [todo EXCEPT ![p] = <<"reg">>]
           /\ UNCHANGED <<item, base, snap, pack>>
  <2>1. /\ Exclusion' /\ at' = at /\ op' = op /\ lock' = lock /\ pc' \in [Proc -> Step]
        /\ pc'[p] = "load" /\ \A q \in Proc \ {p} : pc'[q] = pc[q]
    BY <1>1, <1>9, GoesFacts DEF Busy
  <2>2. /\ todo'[p] = <<"reg">> /\ item' = item /\ base' = base
        /\ todo' \in [Proc -> Plans] /\ \A q \in Proc \ {p} : todo'[q] = todo[q]
    BY <1>9 DEF WsInv, Types, Plans
  <2>3. HomeInv(p)' /\ SeenInv(p)' /\ ImportInv(p)'
    BY <1>1, <1>2, <2>1, <2>2 DEF HomeInv, SeenInv, ImportInv, Busy, Revising, Changed
  <2>4. Types' /\ \A q \in Proc \ {p} : Same(q)
    BY <1>4, <1>5, <1>9, <2>1, <2>2 DEF WsInv, Types, Same
  <2>5. Known' = Known
    BY <1>4, <1>9 DEF Known
  <2>6. ManifestSound(NoManifest)' /\ Minted(p, NoManifest) /\ CommitsKept(p)
    BY <1>4, RecordTypes DEF ManifestSound, WsInv, Types, Minted, CommitsKept
  <2>7. QED
    BY <1>2, <1>6, <1>7, <2>1, <2>3, <2>4, <2>5, <2>6, StepSound
<1>10. QED
  BY <1>1, <1>2, <1>8, <1>9, ProceedsFacts DEF See, HomeInv

-----------------------------------------------------------------------------
(***************************************************************************)
(* Commands that begin; init, export and import.                           *)
(***************************************************************************)
LEMMA NoneOwned == ASSUME WsInv, NEW p \in Proc PROVE Owns(p, None)
BY Constants DEF WsInv, Exclusion, Owns, Busy

(* A command that writes begins where no other does.                       *)
LEMMA BeginFacts ==
  ASSUME WsInv, ~ raced', NEW p \in Proc, NEW m \in Machine,
         NEW c \in Locked \cup {"init", "export", "import"},
         NEW writes \in Plans, NEW first \in Step \ {"idle"},
         Begins(p, m, c, writes, first), c = "export" <=> first \in Packing,
         c \in Locked => lock[m] = None /\ lock' = [lock EXCEPT ![m] = p],
         c \notin Locked => lock' = lock
  PROVE  /\ Exclusion'
         /\ c # "export" => Owns(p, m)
         /\ at'[p] = m /\ pc'[p] = first /\ op'[p] = c /\ todo'[p] = writes
         /\ item'[p] \in Item /\ runs' \in Nat
         /\ at' \in [Proc -> Machine \cup {None}] /\ pc' \in [Proc -> Step]
         /\ op' \in [Proc -> Locked \cup {"init", "export", "import", None}]
         /\ item' \in [Proc -> Item \cup {0}] /\ todo' \in [Proc -> Plans]
         /\ lock' = [n \in Machine |-> lock'[n]]
         /\ \A q \in Proc \ {p} :
              /\ at'[q] = at[q] /\ pc'[q] = pc[q] /\ op'[q] = op[q] /\ item'[q] = item[q]
              /\ todo'[q] = todo[q]
         /\ op[p] = None
<1>1. runs + 1 \in Item /\ runs + 1 \in Nat
  BY ConstantsAssumption DEF Begins, Item, WsInv, Types
<1>2. /\ at'[p] = m /\ pc'[p] = first /\ op'[p] = c /\ todo'[p] = writes
      /\ item'[p] \in Item /\ runs' \in Nat /\ op[p] = None
      /\ at' \in [Proc -> Machine \cup {None}] /\ pc' \in [Proc -> Step]
      /\ op' \in [Proc -> Locked \cup {"init", "export", "import", None}]
      /\ item' \in [Proc -> Item \cup {0}] /\ todo' \in [Proc -> Plans]
  BY <1>1 DEF Begins, WsInv, Types
<1>3. \A q \in Proc \ {p} :
        /\ at'[q] = at[q] /\ pc'[q] = pc[q] /\ op'[q] = op[q] /\ item'[q] = item[q]
        /\ todo'[q] = todo[q]
  BY DEF Begins, WsInv, Types
<1>4. lock' = [n \in Machine |-> lock'[n]]
  <2>1. lock = [n \in Machine |-> lock[n]]
    BY DEF WsInv, Types
  <2>2. lock' = lock \/ lock' = [lock EXCEPT ![m] = p]
    OBVIOUS
  <2>3. QED
    BY <2>1, <2>2
<1>5. c # "export" => Owns(p, m)
  <2> SUFFICES ASSUME c # "export", NEW q \in Proc \ {p}, Busy(q), at[q] = m
               PROVE  FALSE
    BY DEF Owns
  <2>1. op[q] # "export" /\ op[q] # None
    BY DEF WsInv, Exclusion, Busy
  <2>2. c \in Locked /\ op[q] \in Locked
    <3>1. ~ Beside(p, m, c)
      BY Zenon DEF Begins
    <3>2. q \in Others(p, m)
      BY DEF Others
    <3>3. QED
      BY <2>1, <3>1, <3>2 DEF Beside
  <2>3. QED
    BY <2>2, Constants DEF WsInv, Exclusion
<1>6. \A q \in Proc : op[q] \in Locked => at[q] \in Machine /\ lock[at[q]] = q
  BY Constants DEF WsInv, Exclusion
<1>7. ASSUME NEW q \in Proc
      PROVE  /\ op'[q] = None <=> pc'[q] = "idle"
             /\ op'[q] = "export" <=> pc'[q] \in Packing
             /\ op'[q] # None => at'[q] \in Machine
             /\ op'[q] \in Locked => lock'[at'[q]] = q
  <2>1. CASE q = p
    <3>1. c \in Locked => lock'[m] = p
      BY DEF WsInv, Types
    <3>2. QED
      BY <1>2, <2>1, <3>1, Constants
  <2>2. CASE q # p
    <3>1. op[q] \in Locked => lock'[at[q]] = q
      <4>1. CASE c \in Locked
        <5>1. at[q] \in Machine /\ op[q] \in Locked => at[q] # m
          BY <1>6, <4>1, Constants
        <5>2. QED
          BY <1>6, <4>1, <5>1 DEF WsInv, Types
      <4>2. CASE c \notin Locked
        BY <1>6, <4>2
      <4>3. QED
        BY <4>1, <4>2
    <3>2. QED
      BY <1>3, <2>2, <3>1 DEF WsInv, Exclusion
  <2>3. QED
    BY <2>1, <2>2
<1>8. ASSUME NEW q \in Proc, NEW r \in Proc, Busy(q)', Busy(r)', at'[q] = at'[r]
      PROVE  q = r
  <2>1. Busy(p)' => c # "export"
    BY <1>2 DEF Busy
  <2>2. \A s \in Proc \ {p} : Busy(s)' => Busy(s)
    BY <1>3 DEF Busy
  <2>3. CASE q # p /\ r # p
    BY <1>3, <1>8, <2>2, <2>3 DEF WsInv, Exclusion
  <2>4. CASE q = p /\ r # p
    BY <1>2, <1>3, <1>5, <1>8, <2>1, <2>2, <2>4 DEF Owns
  <2>5. CASE q # p /\ r = p
    BY <1>2, <1>3, <1>5, <1>8, <2>1, <2>2, <2>5 DEF Owns
  <2>6. QED
    BY <2>3, <2>4, <2>5
<1>9. Exclusion'
  BY <1>7, <1>8 DEF Exclusion
<1>10. QED
  BY <1>2, <1>3, <1>4, <1>5, <1>9

LEMMA StartSound ==
  ASSUME WsInv, ~ raced', NEW p \in Proc, NEW m \in Machine, Start(p, m)
  PROVE  WsInv'
<1>1. PICK c \in Locked :
        /\ lock[m] = None
        /\ Begins(p, m, c, Writes(c), FirstStep(Writes(c)[1]))
        /\ lock' = [lock EXCEPT ![m] = p]
        /\ UNCHANGED <<files, man, view, arch, base, snap, pack, faults, commits>>
  BY DEF Start
<1>2. \/ c = "adopt" /\ Writes(c) = <<"log", "reg">> /\ FirstStep(Writes(c)[1]) = "check"
      \/ c = "register" /\ Writes(c) = <<"reg">> /\ FirstStep(Writes(c)[1]) = "load"
      \/ c = "flush" /\ Writes(c) = <<"log">> /\ FirstStep(Writes(c)[1]) = "check"
  BY PlanFacts DEF Locked, Writes, FirstStep
<1>3. /\ Writes(c) \in Plans /\ FirstStep(Writes(c)[1]) \in Step \ {"idle"}
      /\ FirstStep(Writes(c)[1]) \notin Packing /\ c # "export"
  BY <1>2 DEF Plans, Step, Packing
<1> DEFINE first == FirstStep(Writes(c)[1])
           writes == Writes(c)
<1> HIDE DEF first, writes
<1>4. /\ Exclusion'
      /\ at'[p] = m /\ pc'[p] = first /\ op'[p] = c /\ todo'[p] = writes
      /\ item'[p] \in Item /\ runs' \in Nat
      /\ at' \in [Proc -> Machine \cup {None}] /\ pc' \in [Proc -> Step]
      /\ op' \in [Proc -> Locked \cup {"init", "export", "import", None}]
      /\ item' \in [Proc -> Item \cup {0}] /\ todo' \in [Proc -> Plans]
      /\ lock' = [n \in Machine |-> lock'[n]]
      /\ \A q \in Proc \ {p} :
           /\ at'[q] = at[q] /\ pc'[q] = pc[q] /\ op'[q] = op[q] /\ item'[q] = item[q]
           /\ todo'[q] = todo[q]
  <2>1. /\ Begins(p, m, c, writes, first) /\ writes \in Plans /\ first \in Step \ {"idle"}
        /\ c = "export" <=> first \in Packing
        /\ c \in Locked \cup {"init", "export", "import"}
    BY <1>1, <1>3 DEF first, writes
  <2>2. /\ c \in Locked => lock[m] = None /\ lock' = [lock EXCEPT ![m] = p]
        /\ c \notin Locked => lock' = lock
    BY <1>1
  <2>3. QED
    BY <2>1, <2>2, BeginFacts
<1>5. Types' /\ \A q \in Proc \ {p} : Same(q)
  BY <1>1, <1>4 DEF WsInv, Types, Same
<1>6. HomeInv(p)' /\ SeenInv(p)' /\ ImportInv(p)'
  BY <1>2, <1>4, PlanFacts
     DEF HomeInv, SeenInv, ImportInv, Busy, Revising, Changed, first, writes
<1>7. Known' = Known /\ ViewSound'
  BY <1>1 DEF Known, WsInv, ViewSound
<1>8. ManifestSound(NoManifest)' /\ Minted(p, NoManifest) /\ CommitsKept(p)
  BY <1>1, NothingCommitted
<1>9. Owns(p, None) /\ (\A n \in Machine : HomeKept(n)) /\ pc'[p] # "seal"
  BY <1>1, <1>2, <1>4, NoneOwned DEF HomeKept, first
<1>10. QED
  BY <1>4, <1>5, <1>6, <1>7, <1>8, <1>9, StepSound

LEMMA BeginInitSound ==
  ASSUME WsInv, ~ raced', NEW p \in Proc, NEW m \in Machine, BeginInit(p, m)
  PROVE  WsInv'
<1> PICK d : d = [fid |-> Len(commits) + 1, rev |-> 1, wid |-> Len(commits) + 1, sum |-> {}]
  OBVIOUS
<1>1. /\ Begins(p, m, "init", << >>, "seal")
      /\ man' = [man EXCEPT ![m] = d] /\ base' = [base EXCEPT ![p] = d]
      /\ commits' = Append(commits, files[m])
      /\ UNCHANGED <<files, view, lock, arch, snap, pack>>
  BY DEF BeginInit
<1>2. /\ "init" \notin Locked /\ << >> \in Plans /\ "seal" \in Step \ {"idle"}
      /\ "seal" \notin Packing
  BY DEF Locked, Plans, Step, Packing
<1>3. /\ Exclusion' /\ Owns(p, m)
      /\ at'[p] = m /\ pc'[p] = "seal" /\ op'[p] = "init" /\ todo'[p] = << >>
      /\ item'[p] \in Item /\ runs' \in Nat
      /\ at' \in [Proc -> Machine \cup {None}] /\ pc' \in [Proc -> Step]
      /\ op' \in [Proc -> Locked \cup {"init", "export", "import", None}]
      /\ item' \in [Proc -> Item \cup {0}] /\ todo' \in [Proc -> Plans]
      /\ lock' = [n \in Machine |-> lock'[n]]
      /\ \A q \in Proc \ {p} :
           /\ at'[q] = at[q] /\ pc'[q] = pc[q] /\ op'[q] = op[q] /\ item'[q] = item[q]
           /\ todo'[q] = todo[q]
  BY <1>1, <1>2, BeginFacts
<1>4. /\ commits' \in Seq(Files) /\ Len(commits') = Len(commits) + 1 /\ Len(commits) \in Nat
      /\ \A w \in 1 .. Len(commits) : commits'[w] = commits[w]
  BY <1>1 DEF WsInv, Types
<1>5. d \in AnyManifest
  BY <1>4 DEF AnyManifest
<1>6. /\ man'[m] = d /\ man' \in [Machine -> AnyManifest]
      /\ \A n \in Machine \ {m} : man'[n] = man[n]
      /\ base'[p] = d /\ base' \in [Proc -> AnyManifest]
      /\ \A q \in Proc \ {p} : base'[q] = base[q]
  BY <1>1, <1>5 DEF WsInv, Types
<1>7. Types'
  BY <1>1, <1>3, <1>4, <1>6 DEF WsInv, Types
<1>8. (\A q \in Proc \ {p} : Same(q)) /\ \A n \in Machine \ {m} : HomeKept(n)
  BY <1>1, <1>3, <1>6 DEF Same, HomeKept
<1>9. Known' \subseteq Known \cup {d}
  BY <1>1, <1>6 DEF Known
<1>10. ManifestSound(d)' /\ Minted(p, d) /\ CommitsKept(p)
  BY <1>4 DEF ManifestSound, Minted, CommitsKept
<1>11. ViewSound'
  <2>1. \A n \in Wid : n \in Nat
    BY DEF Wid
  <2>2. QED
    BY <1>1, <1>4, <2>1 DEF WsInv, ViewSound
<1>12. HomeInv(p)' /\ ImportInv(p)'
  BY <1>3, <1>4, <1>6 DEF HomeInv, ImportInv, Busy, Revising, Changed
<1>13. SeenInv(p)'
  <2>1. \A f \in Wid : f = d.fid => view[m][f] = Unseen
    BY <1>4 DEF WsInv, ViewSound
  <2>2. QED
    BY <1>1, <1>3, <1>6, <2>1 DEF SeenInv, Revising, Changed
<1>14. base'[p].wid > Len(commits) /\ d.sum = {}
  BY <1>4, <1>6
<1>15. QED
  BY <1>3, <1>7, <1>8, <1>9, <1>10, <1>11, <1>12, <1>13, <1>14, StepSound

(* The digest of a workspace that is being made, which is nowhere else.    *)
LEMMA SealSound ==
  ASSUME WsInv, NEW p \in Proc, Seal(p)
  PROVE  WsInv'
<1> DEFINE m == at[p]
<1>1. Busy(p) /\ pc[p] = "seal" /\ "see" \in Step \ (Packing \cup {"idle", "seal"})
  BY DEF Seal, Busy, Packing, Step
<1>2. m \in Machine /\ HomeInv(p) /\ SeenInv(p) /\ Owns(p, m)
  BY <1>1, BusyFacts
<1>3. /\ base[p] \in AnyManifest /\ base[p] \in Known /\ ManifestSound(base[p])
      /\ base[p] = man[m] /\ base[p].wid # 0 /\ files[m] \in Files
  BY <1>1, <1>2 DEF HomeInv, WsInv, Types, Known
<1> PICK d : d = [base[p] EXCEPT !.sum = {files[m]}]
  OBVIOUS
<1>4. /\ d \in AnyManifest /\ d.fid = base[p].fid /\ d.wid = base[p].wid
      /\ d.rev = base[p].rev /\ d.sum = {files[m]}
  BY <1>3 DEF AnyManifest
<1>5. /\ Exclusion' /\ at' = at /\ op' = op /\ lock' = lock /\ pc' \in [Proc -> Step]
      /\ pc'[p] = "see" /\ \A q \in Proc \ {p} : pc'[q] = pc[q]
  BY <1>1, GoesFacts DEF Seal, Busy
<1>6. /\ man' = [man EXCEPT ![m] = d] /\ base' = [base EXCEPT ![p] = d]
      /\ commits' = [commits EXCEPT ![d.wid] = files[m]]
      /\ UNCHANGED <<files, view, arch, item, todo, snap, pack, runs>>
  BY DEF Seal
<1>7. d.wid \in 1 .. Len(commits) /\ Len(commits) \in Nat
  BY <1>3, <1>4, RecordTypes DEF ManifestSound, WsInv, Types
<1>8. /\ commits' \in Seq(Files) /\ Len(commits') = Len(commits)
      /\ commits'[d.wid] = files[m]
      /\ \A w \in 1 .. Len(commits) : w # d.wid => commits'[w] = commits[w]
  BY <1>3, <1>6, <1>7 DEF WsInv, Types
<1>9. /\ man'[m] = d /\ man' \in [Machine -> AnyManifest]
      /\ \A n \in Machine \ {m} : man'[n] = man[n]
      /\ base'[p] = d /\ base' \in [Proc -> AnyManifest]
      /\ \A q \in Proc \ {p} : base'[q] = base[q]
  BY <1>2, <1>4, <1>6 DEF WsInv, Types
<1>10. Types'
  BY <1>5, <1>6, <1>8, <1>9 DEF WsInv, Types
<1>11. (\A q \in Proc \ {p} : Same(q)) /\ \A n \in Machine \ {m} : HomeKept(n)
  BY <1>5, <1>6, <1>9 DEF Same, HomeKept
<1>12. Known' \subseteq Known \cup {d}
  BY <1>6, <1>9 DEF Known
<1>13. ManifestSound(d)' /\ Minted(p, d) /\ CommitsKept(p)
  <2>1. ManifestSound(d)'
    BY <1>3, <1>4, <1>8 DEF ManifestSound
  <2>2. QED
    BY <1>1, <1>4, <1>5, <1>7, <1>8, <2>1 DEF Minted, CommitsKept
<1>14. ViewSound'
  BY <1>6, <1>8 DEF WsInv, ViewSound
<1>15. HomeInv(p)' /\ ImportInv(p)'
  BY <1>1, <1>2, <1>3, <1>4, <1>5, <1>6, <1>9
     DEF HomeInv, ImportInv, Busy, Revising, Changed, Packing
<1>16. SeenInv(p)'
  BY <1>1, <1>2, <1>4, <1>5, <1>6, <1>9 DEF SeenInv, Revising, Changed
<1>17. QED
  BY <1>2, <1>5, <1>10, <1>11, <1>12, <1>13, <1>14, <1>15, <1>16, StepSound

LEMMA BeginExportSound ==
  ASSUME WsInv, ~ raced', NEW p \in Proc, NEW m \in Machine, BeginExport(p, m)
  PROVE  WsInv'
<1>1. /\ Begins(p, m, "export", << >>, "pack man")
      /\ UNCHANGED <<files, man, view, lock, arch, base, snap, pack, commits>>
  BY DEF BeginExport
<1>2. /\ "export" \notin Locked /\ << >> \in Plans /\ "pack man" \in Step \ {"idle"}
      /\ "pack man" \in Packing
  BY DEF Locked, Plans, Step, Packing
<1>3. /\ Exclusion'
      /\ at'[p] = m /\ pc'[p] = "pack man" /\ op'[p] = "export" /\ todo'[p] = << >>
      /\ item'[p] \in Item /\ runs' \in Nat
      /\ at' \in [Proc -> Machine \cup {None}] /\ pc' \in [Proc -> Step]
      /\ op' \in [Proc -> Locked \cup {"init", "export", "import", None}]
      /\ item' \in [Proc -> Item \cup {0}] /\ todo' \in [Proc -> Plans]
      /\ lock' = [n \in Machine |-> lock'[n]]
      /\ \A q \in Proc \ {p} :
           /\ at'[q] = at[q] /\ pc'[q] = pc[q] /\ op'[q] = op[q] /\ item'[q] = item[q]
           /\ todo'[q] = todo[q]
  <2>0. PICK c, first, writes : c = "export" /\ first = "pack man" /\ writes = << >>
    OBVIOUS
  <2>1. /\ Begins(p, m, c, writes, first) /\ writes \in Plans /\ first \in Step \ {"idle"}
        /\ c \in Locked \cup {"init", "export", "import"}
        /\ c = "export" <=> first \in Packing
        /\ c \notin Locked /\ lock' = lock
    BY <1>1, <1>2, <2>0
  <2>2. /\ Exclusion'
        /\ at'[p] = m /\ pc'[p] = first /\ op'[p] = c /\ todo'[p] = writes
        /\ item'[p] \in Item /\ runs' \in Nat
        /\ at' \in [Proc -> Machine \cup {None}] /\ pc' \in [Proc -> Step]
        /\ op' \in [Proc -> Locked \cup {"init", "export", "import", None}]
        /\ item' \in [Proc -> Item \cup {0}] /\ todo' \in [Proc -> Plans]
        /\ lock' = [n \in Machine |-> lock'[n]]
        /\ \A q \in Proc \ {p} :
             /\ at'[q] = at[q] /\ pc'[q] = pc[q] /\ op'[q] = op[q] /\ item'[q] = item[q]
             /\ todo'[q] = todo[q]
    BY <2>1, BeginFacts
  <2>3. QED
    BY <2>0, <2>2
<1>4. Types' /\ \A q \in Proc \ {p} : Same(q)
  BY <1>1, <1>3 DEF WsInv, Types, Same
<1>5. HomeInv(p)' /\ SeenInv(p)' /\ ImportInv(p)'
  BY <1>3 DEF HomeInv, SeenInv, ImportInv, Busy, Revising, Changed, Packing
<1>6. Known' = Known /\ ViewSound'
  BY <1>1 DEF Known, WsInv, ViewSound
<1>7. ManifestSound(NoManifest)' /\ Minted(p, NoManifest) /\ CommitsKept(p)
  BY <1>1, NothingCommitted
<1>8. Owns(p, None) /\ (\A n \in Machine : HomeKept(n)) /\ pc'[p] # "seal"
  BY <1>1, <1>3, NoneOwned DEF HomeKept
<1>9. QED
  BY <1>3, <1>4, <1>5, <1>6, <1>7, <1>8, StepSound

LEMMA PackSound ==
  ASSUME WsInv, NEW p \in Proc, Pack(p)
  PROVE  WsInv'
<1> DEFINE m == at[p]
<1>1. PICK s \in {"pack reg", "pack log"} :
        /\ pc[p] \in {"pack man", "pack reg"} /\ Goes(p, s)
        /\ \/ pack' = [pack EXCEPT ![p] = [pack[p] EXCEPT !.man = man[m]]]
           \/ pack' = [pack EXCEPT ![p] = [pack[p] EXCEPT !.files.reg = files[m].reg]]
        /\ UNCHANGED <<files, man, view, arch, item, todo, base, snap, runs, commits>>
  BY DEF Pack
<1>2. s \in Step \ {"idle"} /\ s \in Packing /\ pc[p] \in Packing /\ pc[p] # "idle" /\ s # "seal"
  BY <1>1 DEF Step, Packing
<1>3. m \in Machine /\ pack[p] \in AnyArchive /\ man[m] \in AnyManifest /\ files[m] \in Files
  <2>1. m \in Machine
    BY <1>2 DEF WsInv, Exclusion
  <2>2. QED
    BY <2>1 DEF WsInv, Types
<1>4. /\ Exclusion' /\ at' = at /\ op' = op /\ lock' = lock /\ pc' \in [Proc -> Step]
      /\ pc'[p] = s /\ \A q \in Proc \ {p} : pc'[q] = pc[q]
  BY <1>1, <1>2, GoesFacts
<1>5. /\ pack'[p] \in AnyArchive /\ pack'[p].man \in {pack[p].man, man[m]}
      /\ pack' \in [Proc -> AnyArchive] /\ \A q \in Proc \ {p} : pack'[q] = pack[q]
  <2>1. /\ pack \in [Proc -> AnyArchive]
        /\ \/ pack' = [pack EXCEPT ![p] = [pack[p] EXCEPT !.man = man[m]]]
           \/ pack' = [pack EXCEPT ![p] = [pack[p] EXCEPT !.files.reg = files[m].reg]]
    BY <1>1 DEF WsInv, Types
  <2>2. /\ [pack[p] EXCEPT !.man = man[m]] \in AnyArchive
        /\ [pack[p] EXCEPT !.man = man[m]].man = man[m]
    BY <1>3 DEF AnyArchive
  <2>3. /\ [pack[p] EXCEPT !.files.reg = files[m].reg] \in AnyArchive
        /\ [pack[p] EXCEPT !.files.reg = files[m].reg].man = pack[p].man
    BY <1>3 DEF AnyArchive, Files
  <2>4. QED
    BY <2>1, <2>2, <2>3
<1>6. Types' /\ \A q \in Proc \ {p} : Same(q)
  BY <1>1, <1>4, <1>5 DEF WsInv, Types, Same
<1>7. HomeInv(p)' /\ SeenInv(p)' /\ ImportInv(p)'
  BY <1>1, <1>4 DEF HomeInv, SeenInv, ImportInv, Busy, Revising, Changed, Packing
<1>8. Known' \subseteq Known /\ ViewSound'
  <2>1. \A q \in Proc : pack'[q].man \in Known
    BY <1>3, <1>5 DEF Known
  <2>2. QED
    BY <1>1, <2>1 DEF Known, WsInv, ViewSound
<1>9. ManifestSound(NoManifest)' /\ Minted(p, NoManifest) /\ CommitsKept(p)
  BY <1>1, NothingCommitted
<1>10. Owns(p, None) /\ (\A n \in Machine : HomeKept(n)) /\ pc'[p] # "seal"
  BY <1>1, <1>2, <1>4, NoneOwned DEF HomeKept
<1>11. QED
  BY <1>4, <1>6, <1>7, <1>8, <1>9, <1>10, StepSound

LEMMA EndExportSound ==
  ASSUME WsInv, NEW p \in Proc, EndExport(p)
  PROVE  WsInv'
<1> PICK a : a = [pack[p] EXCEPT !.files = WithLog(pack[p].files, files[at[p]])]
  OBVIOUS
<1>1. arch' = arch \cup {a} /\ Ends(p) /\ UNCHANGED <<files, man, view, runs, commits>>
  BY DEF EndExport
<1>2. a \in AnyArchive /\ a.man = pack[p].man
  <2>1. at[p] \in Machine
    BY DEF EndExport, WsInv, Exclusion
  <2>2. pack[p] \in AnyArchive /\ files[at[p]] \in Files
    BY <2>1 DEF WsInv, Types
  <2>3. WithLog(pack[p].files, files[at[p]]) \in Files
    BY <2>2 DEF WithLog, AnyArchive, Files
  <2>4. QED
    BY <2>2, <2>3 DEF AnyArchive
<1>3. Owns(p, None) /\ \A n \in Machine : HomeKept(n)
  BY <1>1, NoneOwned DEF HomeKept
<1>4. /\ \A n \in Machine : man'[n] \in Known
      /\ \A b \in arch' : b.man \in Known
  BY <1>1, <1>2 DEF Known
<1>5. ViewSound' /\ arch' \subseteq AnyArchive
  BY <1>1, <1>2 DEF WsInv, ViewSound, Types
<1>6. QED
  BY <1>1, <1>3, <1>4, <1>5, EndSound DEF WsInv, Types

LEMMA MembersFacts ==
  ASSUME NEW a
  PROVE  Members(a) \o <<"bump">> \in {<<"man", "reg", "log", "bump">>, <<"man", "reg", "bump">>}
<1> DEFINE S == {"man", "reg", "log", "bump"}
<1>1. <<"man", "reg", "log">> \o <<"bump">> = <<"man", "reg", "log", "bump">>
  <2> PICK s : s = <<"man", "reg", "log">>
    OBVIOUS
  <2> PICK t : t = <<"bump">>
    OBVIOUS
  <2> PICK u : u = <<"man", "reg", "log", "bump">>
    OBVIOUS
  <2>1. /\ s \in Seq(S) /\ Len(s) = 3 /\ s[1] = "man" /\ s[2] = "reg" /\ s[3] = "log"
        /\ t \in Seq(S) /\ Len(t) = 1 /\ t[1] = "bump"
    OBVIOUS
  <2>2. /\ u \in Seq(S) /\ Len(u) = 4
        /\ u[1] = "man" /\ u[2] = "reg" /\ u[3] = "log" /\ u[4] = "bump"
    OBVIOUS
  <2>3. /\ s \o t \in Seq(S) /\ Len(s \o t) = 4
        /\ \A i \in 1 .. 4 : (s \o t)[i] = IF i <= 3 THEN s[i] ELSE t[i - 3]
    BY <2>1, ConcatProperties
  <2>4. \A i \in 1 .. 4 : (s \o t)[i] = u[i]
    BY <2>1, <2>2, <2>3
  <2>5. s \o t = u
    BY <2>2, <2>3, <2>4, SeqEqual
  <2>6. QED
    BY <2>5
<1>2. <<"man", "reg">> \o <<"bump">> = <<"man", "reg", "bump">>
  <2> PICK s : s = <<"man", "reg">>
    OBVIOUS
  <2> PICK t : t = <<"bump">>
    OBVIOUS
  <2> PICK u : u = <<"man", "reg", "bump">>
    OBVIOUS
  <2>1. /\ s \in Seq(S) /\ Len(s) = 2 /\ s[1] = "man" /\ s[2] = "reg"
        /\ t \in Seq(S) /\ Len(t) = 1 /\ t[1] = "bump"
    OBVIOUS
  <2>2. /\ u \in Seq(S) /\ Len(u) = 3
        /\ u[1] = "man" /\ u[2] = "reg" /\ u[3] = "bump"
    OBVIOUS
  <2>3. /\ s \o t \in Seq(S) /\ Len(s \o t) = 3
        /\ \A i \in 1 .. 3 : (s \o t)[i] = IF i <= 2 THEN s[i] ELSE t[i - 2]
    BY <2>1, ConcatProperties
  <2>4. \A i \in 1 .. 3 : (s \o t)[i] = u[i]
    BY <2>1, <2>2, <2>3
  <2>5. s \o t = u
    BY <2>2, <2>3, <2>4, SeqEqual
  <2>6. QED
    BY <2>5
<1>3. QED
  BY <1>1, <1>2 DEF Members

(* The plans of an import, told apart by their lengths and first members.  *)
LEMMA ImportPlans ==
  /\ \A t \in {<<"man", "reg", "log", "bump">>, <<"man", "reg", "bump">>} :
       t[1] = "man" /\ t[2] = "reg"
  /\ Tail(<<"man", "reg", "log", "bump">>) = <<"reg", "log", "bump">>
  /\ Tail(<<"man", "reg", "bump">>) = <<"reg", "bump">>
  /\ Tail(<<"reg", "log", "bump">>) = <<"log", "bump">>
  /\ Tail(<<"reg", "bump">>) = <<"bump">>
  /\ Tail(<<"log", "bump">>) = <<"bump">>
  /\ <<"reg", "log", "bump">>[1] = "reg" /\ <<"reg", "log", "bump">>[2] = "log"
  /\ <<"reg", "bump">>[1] = "reg" /\ <<"reg", "bump">>[2] = "bump"
  /\ <<"log", "bump">>[1] = "log" /\ <<"log", "bump">>[2] = "bump"
<1>1. Tail(<<"man", "reg", "log", "bump">>) = <<"reg", "log", "bump">>
  OBVIOUS
<1>2. Tail(<<"man", "reg", "bump">>) = <<"reg", "bump">>
  OBVIOUS
<1>3. Tail(<<"reg", "log", "bump">>) = <<"log", "bump">>
  OBVIOUS
<1>4. Tail(<<"reg", "bump">>) = <<"bump">>
  OBVIOUS
<1>5. Tail(<<"log", "bump">>) = <<"bump">>
  OBVIOUS
<1>6. <<"man", "reg", "log", "bump">>[1] = "man" /\ <<"man", "reg", "log", "bump">>[2] = "reg"
  OBVIOUS
<1>7. <<"man", "reg", "bump">>[1] = "man" /\ <<"man", "reg", "bump">>[2] = "reg"
  OBVIOUS
<1>8. <<"reg", "log", "bump">>[1] = "reg" /\ <<"reg", "log", "bump">>[2] = "log"
  OBVIOUS
<1>9. <<"reg", "bump">>[1] = "reg" /\ <<"reg", "bump">>[2] = "bump"
  OBVIOUS
<1>10. <<"log", "bump">>[1] = "log" /\ <<"log", "bump">>[2] = "bump"
  OBVIOUS
<1>11. QED
  BY <1>1, <1>2, <1>3, <1>4, <1>5, <1>6, <1>7, <1>8, <1>9, <1>10

LEMMA BeginImportSound ==
  ASSUME WsInv, ~ raced', NEW p \in Proc, NEW m \in Machine, BeginImport(p, m)
  PROVE  WsInv'
<1>1. PICK a \in arch :
        /\ Begins(p, m, "import", Members(a) \o <<"bump">>, "install")
        /\ pack' = [pack EXCEPT ![p] = a]
        /\ base' = [base EXCEPT ![p] = man[m]]
        /\ snap' = [snap EXCEPT ![p] = files[m]]
        /\ UNCHANGED <<files, man, view, lock, arch, commits>>
  BY DEF BeginImport
<1> PICK plan : plan = Members(a) \o <<"bump">>
  OBVIOUS
<1>2. /\ "import" \notin Locked /\ "install" \in Step \ {"idle"} /\ "install" \notin Packing
      /\ plan \in {<<"man", "reg", "log", "bump">>, <<"man", "reg", "bump">>}
      /\ plan \in Plans
  BY MembersFacts DEF Locked, Plans, Step, Packing
<1>3. /\ Exclusion'
      /\ at'[p] = m /\ pc'[p] = "install" /\ op'[p] = "import" /\ todo'[p] = plan
      /\ item'[p] \in Item /\ runs' \in Nat
      /\ at' \in [Proc -> Machine \cup {None}] /\ pc' \in [Proc -> Step]
      /\ op' \in [Proc -> Locked \cup {"init", "export", "import", None}]
      /\ item' \in [Proc -> Item \cup {0}] /\ todo' \in [Proc -> Plans]
      /\ lock' = [n \in Machine |-> lock'[n]]
      /\ \A q \in Proc \ {p} :
           /\ at'[q] = at[q] /\ pc'[q] = pc[q] /\ op'[q] = op[q] /\ item'[q] = item[q]
           /\ todo'[q] = todo[q]
  <2>0. PICK c, first, writes : c = "import" /\ first = "install" /\ writes = plan
    OBVIOUS
  <2>1. /\ Begins(p, m, c, writes, first) /\ writes \in Plans /\ first \in Step \ {"idle"}
        /\ c \in Locked \cup {"init", "export", "import"}
        /\ c = "export" <=> first \in Packing
        /\ c \notin Locked /\ lock' = lock
    BY <1>1, <1>2, <2>0
  <2>2. /\ Exclusion'
        /\ at'[p] = m /\ pc'[p] = first /\ op'[p] = c /\ todo'[p] = writes
        /\ item'[p] \in Item /\ runs' \in Nat
        /\ at' \in [Proc -> Machine \cup {None}] /\ pc' \in [Proc -> Step]
        /\ op' \in [Proc -> Locked \cup {"init", "export", "import", None}]
        /\ item' \in [Proc -> Item \cup {0}] /\ todo' \in [Proc -> Plans]
        /\ lock' = [n \in Machine |-> lock'[n]]
        /\ \A q \in Proc \ {p} :
             /\ at'[q] = at[q] /\ pc'[q] = pc[q] /\ op'[q] = op[q] /\ item'[q] = item[q]
             /\ todo'[q] = todo[q]
    BY <2>1, BeginFacts
  <2>3. QED
    BY <2>0, <2>2
<1>4. /\ a \in AnyArchive /\ man[m] \in AnyManifest /\ files[m] \in Files
      /\ pack' \in [Proc -> AnyArchive] /\ base' \in [Proc -> AnyManifest]
      /\ snap' \in [Proc -> Files]
      /\ pack'[p] = a /\ base'[p] = man[m] /\ snap'[p] = files[m]
      /\ \A q \in Proc \ {p} : pack'[q] = pack[q] /\ base'[q] = base[q] /\ snap'[q] = snap[q]
  BY <1>1 DEF WsInv, Types
<1>5. Types' /\ \A q \in Proc \ {p} : Same(q)
  BY <1>1, <1>3, <1>4 DEF WsInv, Types, Same
<1>6. HomeInv(p)' /\ SeenInv(p)'
  BY <1>3 DEF HomeInv, SeenInv, Busy, Revising, Changed
<1>7. ImportInv(p)'
  BY <1>1, <1>2, <1>3, <1>4, ImportPlans DEF ImportInv
<1>8. Known' \subseteq Known /\ ViewSound'
  <2>1. \A q \in Proc : pack'[q].man \in Known /\ base'[q] \in Known
    BY <1>4 DEF Known
  <2>2. QED
    BY <1>1, <2>1 DEF Known, WsInv, ViewSound
<1>9. ManifestSound(NoManifest)' /\ Minted(p, NoManifest) /\ CommitsKept(p)
  BY <1>1, NothingCommitted
<1>10. Owns(p, None) /\ (\A n \in Machine : HomeKept(n)) /\ pc'[p] # "seal"
  BY <1>1, <1>3, NoneOwned DEF HomeKept
<1>11. QED
  BY <1>3, <1>5, <1>6, <1>7, <1>8, <1>9, <1>10, StepSound

(* An import replaces a member, and finds what it has put in place so far. *)
LEMMA InstallSound ==
  ASSUME WsInv, NEW p \in Proc, Install(p)
  PROVE  WsInv'
<1> DEFINE m == at[p]
           next == IF todo[p][2] = "bump" THEN "check" ELSE "install"
<1>1. Busy(p) /\ pc[p] = "install" /\ next \in Step \ {"idle"} /\ next \notin Packing
  BY DEF Install, Busy, Packing, Step
<1>2. m \in Machine /\ HomeInv(p) /\ ImportInv(p) /\ Owns(p, m)
  BY <1>1, BusyFacts
<1>3. /\ files[m] \in Files /\ man[m] \in AnyManifest /\ pack[p] \in AnyArchive
      /\ pack[p].man \in AnyManifest /\ pack[p].files \in Files
  BY <1>2, RecordTypes DEF WsInv, Types
<1>4. /\ Exclusion' /\ at' = at /\ op' = op /\ lock' = lock /\ pc' \in [Proc -> Step]
      /\ pc'[p] = next /\ \A q \in Proc \ {p} : pc'[q] = pc[q]
  BY <1>1, GoesFacts DEF Install, Busy
<1>5. /\ Installed(todo[p][1], m, pack[p]) /\ todo' = [todo EXCEPT ![p] = Tail(todo[p])]
      /\ UNCHANGED <<view, arch, item, base, snap, pack, runs, commits>>
  BY DEF Install
<1>6. todo[p] \in {<<"man", "reg", "log", "bump">>, <<"man", "reg", "bump">>,
                   <<"reg", "log", "bump">>, <<"reg", "bump">>, <<"log", "bump">>}
  BY <1>1, <1>2 DEF ImportInv
<1>7. /\ Tail(todo[p]) \in Plans /\ todo' \in [Proc -> Plans] /\ todo'[p] = Tail(todo[p])
      /\ \A q \in Proc \ {p} : todo'[q] = todo[q]
  <2>1. Tail(todo[p]) \in Plans
    BY <1>6, ImportPlans DEF Plans
  <2>2. QED
    BY <1>5, <2>1 DEF WsInv, Types
<1>8. /\ man' \in [Machine -> AnyManifest] /\ files' \in [Machine -> Files]
      /\ \A n \in Machine \ {m} : man'[n] = man[n] /\ files'[n] = files[n]
      /\ man'[m] = IF todo[p][1] = "man" THEN pack[p].man ELSE man[m]
      /\ todo[p][1] = "man" => files' = files
      /\ todo[p][1] = "reg" =>
           /\ files'[m].log = files[m].log /\ files'[m].logged = files[m].logged
  <2>1. /\ [files[m] EXCEPT !.reg = pack[p].files.reg] \in Files
        /\ [files[m] EXCEPT !.reg = pack[p].files.reg].log = files[m].log
        /\ [files[m] EXCEPT !.reg = pack[p].files.reg].logged = files[m].logged
        /\ WithLog(files[m], pack[p].files) \in Files
    BY <1>3 DEF Files, WithLog
  <2>2. man' = IF todo[p][1] = "man" THEN [man EXCEPT ![m] = pack[p].man] ELSE man
    BY <1>5 DEF Installed
  <2>3. \/ todo[p][1] = "reg" /\ files' = [files EXCEPT ![m] = [files[m] EXCEPT !.reg = pack[p].files.reg]]
        \/ todo[p][1] = "log" /\ files' = [files EXCEPT ![m] = WithLog(files[m], pack[p].files)]
        \/ todo[p][1] \notin {"reg", "log"} /\ files' = files
    BY <1>5 DEF Installed
  <2>4. man \in [Machine -> AnyManifest] /\ files \in [Machine -> Files]
    BY DEF WsInv, Types
  <2>5. /\ man' \in [Machine -> AnyManifest] /\ \A n \in Machine \ {m} : man'[n] = man[n]
        /\ man'[m] = IF todo[p][1] = "man" THEN pack[p].man ELSE man[m]
    BY <1>2, <1>3, <2>2, <2>4
  <2>6. CASE todo[p][1] = "reg"
    <3>1. files' = [files EXCEPT ![m] = [files[m] EXCEPT !.reg = pack[p].files.reg]]
      BY <2>3, <2>6
    <3>2. /\ files' \in [Machine -> Files] /\ \A n \in Machine \ {m} : files'[n] = files[n]
          /\ files'[m] = [files[m] EXCEPT !.reg = pack[p].files.reg]
      BY <1>2, <2>1, <2>4, <3>1
    <3>3. QED
      BY <2>1, <2>5, <2>6, <3>2
  <2>7. CASE todo[p][1] # "reg"
    <3>1. files' \in [Machine -> Files] /\ \A n \in Machine \ {m} : files'[n] = files[n]
      BY <1>2, <2>1, <2>3, <2>4, <2>7
    <3>2. todo[p][1] = "man" => files' = files
      BY <2>3
    <3>3. QED
      BY <2>5, <2>7, <3>1, <3>2
  <2>8. QED
    BY <2>6, <2>7
<1>9. Types' /\ (\A q \in Proc \ {p} : Same(q)) /\ \A n \in Machine \ {m} : HomeKept(n)
  <2>1. Types'
    BY <1>4, <1>5, <1>7, <1>8 DEF WsInv, Types
  <2>2. QED
    BY <1>4, <1>5, <1>7, <1>8, <2>1 DEF Same, HomeKept
<1>10. HomeInv(p)' /\ SeenInv(p)' /\ ImportInv(p)'
  <2>1. HomeInv(p)'
    <3>1. next = "check" => Tail(todo[p]) = <<"bump">>
      BY <1>6, ImportPlans
    <3>2. item[p] \in Item
      BY <1>1, <1>2 DEF HomeInv
    <3>3. pc'[p] \in {"check", "install"} /\ item'[p] = item[p] /\ todo'[p] = Tail(todo[p])
          /\ (pc'[p] = "check" => todo'[p] = <<"bump">>)
      BY <1>4, <1>5, <1>7, <3>1
    <3>4. QED
      BY <3>2, <3>3, PlanFacts DEF HomeInv, Revising, Changed, Busy, Packing
  <2>2. SeenInv(p)'
    BY <1>4 DEF SeenInv, Revising, Changed
  <2>3. ImportInv(p)'
    <3>1. CASE todo[p] \in {<<"man", "reg", "log", "bump">>, <<"man", "reg", "bump">>}
      <4>1. todo[p][1] = "man" /\ files[m] = snap[p]
        BY <1>1, <1>2, <3>1, ImportPlans DEF ImportInv
      <4>2. todo'[p] \in {<<"reg", "log", "bump">>, <<"reg", "bump">>}
        BY <1>7, <3>1, ImportPlans
      <4>3. man'[m] = pack[p].man /\ files'[m] = snap[p]
        BY <1>8, <4>1
      <4>4. /\ todo'[p] # <<"man", "reg", "log", "bump">> /\ todo'[p] # <<"man", "reg", "bump">>
            /\ todo'[p] # <<"log", "bump">>
        BY <4>2, ImportPlans
      <4>5. QED
        BY <1>4, <1>5, <4>2, <4>3, <4>4 DEF ImportInv
    <3>2. CASE todo[p] = <<"reg", "log", "bump">>
      <4>1. todo'[p] = <<"log", "bump">> /\ todo[p][1] = "reg"
        BY <1>7, <3>2, ImportPlans
      <4>2. man[m] = pack[p].man /\ files[m] = snap[p]
        BY <1>1, <1>2, <3>2 DEF ImportInv
      <4>3. /\ man'[m] = pack[p].man
            /\ files'[m].log = snap[p].log /\ files'[m].logged = snap[p].logged
        BY <1>8, <4>1, <4>2
      <4>4. /\ todo'[p] \notin {<<"man", "reg", "log", "bump">>, <<"man", "reg", "bump">>}
            /\ todo'[p] \notin {<<"reg", "log", "bump">>, <<"reg", "bump">>}
        BY <4>1, ImportPlans
      <4>5. QED
        BY <1>4, <1>5, <4>1, <4>3, <4>4 DEF ImportInv
    <3>3. CASE todo[p] \in {<<"reg", "bump">>, <<"log", "bump">>}
      BY <1>4, <3>3, ImportPlans DEF ImportInv
    <3>4. QED
      BY <1>6, <3>1, <3>2, <3>3
  <2>4. QED
    BY <2>1, <2>2, <2>3
<1>11. Known' \subseteq Known /\ ViewSound'
  <2>1. \A n \in Machine : man'[n] \in Known
    BY <1>2, <1>8 DEF Known
  <2>2. QED
    BY <1>5, <2>1 DEF Known, WsInv, ViewSound
<1>12. ManifestSound(NoManifest)' /\ Minted(p, NoManifest) /\ CommitsKept(p)
  BY <1>5, NothingCommitted
<1>13. QED
  BY <1>2, <1>4, <1>9, <1>10, <1>11, <1>12, StepSound

(* What a failed import puts back is what it found.                        *)
LEMMA InstallFailsFacts ==
  ASSUME WsInv, NEW p \in Proc, InstallFails(p)
  PROVE  /\ at[p] \in Machine /\ Owns(p, at[p]) /\ Ends(p)
         /\ UNCHANGED <<view, arch, runs, commits>>
         /\ man' \in [Machine -> AnyManifest] /\ files' \in [Machine -> Files]
         /\ \A n \in Machine \ {at[p]} : man'[n] = man[n] /\ files'[n] = files[n]
         /\ man'[at[p]] = base[p] /\ files'[at[p]] = snap[p]
<1> DEFINE m == at[p]
<1>1. Busy(p) /\ pc[p] = "install" /\ Ends(p) /\ UNCHANGED <<view, arch, runs, commits>>
  BY DEF InstallFails, Busy, Packing
<1>2. m \in Machine /\ ImportInv(p) /\ Owns(p, m)
  BY <1>1, BusyFacts
<1>3. /\ files[m] \in Files /\ man[m] \in AnyManifest /\ base[p] \in AnyManifest
      /\ snap[p] \in Files
      /\ man \in [Machine -> AnyManifest] /\ files \in [Machine -> Files]
  BY <1>2 DEF WsInv, Types
<1>4. /\ man' = IF todo[p][1] = "man" THEN man ELSE [man EXCEPT ![m] = base[p]]
      /\ files' = IF todo[p][1] = "log" THEN [files EXCEPT ![m] = [files[m] EXCEPT !.reg = snap[p].reg]]
                    ELSE files
  BY DEF InstallFails, PutBack
<1>5. [files[m] EXCEPT !.reg = snap[p].reg] \in Files
  BY <1>3 DEF Files
<1>6. /\ man' \in [Machine -> AnyManifest] /\ \A n \in Machine \ {m} : man'[n] = man[n]
      /\ man'[m] = IF todo[p][1] = "man" THEN man[m] ELSE base[p]
  BY <1>2, <1>3, <1>4
<1>7. /\ files' \in [Machine -> Files] /\ \A n \in Machine \ {m} : files'[n] = files[n]
      /\ files'[m] = IF todo[p][1] = "log" THEN [files[m] EXCEPT !.reg = snap[p].reg] ELSE files[m]
  BY <1>2, <1>3, <1>4, <1>5
<1>8. man'[m] = base[p] /\ files'[m] = snap[p]
  <2>1. CASE todo[p] \in {<<"man", "reg", "log", "bump">>, <<"man", "reg", "bump">>}
    BY <1>1, <1>2, <1>6, <1>7, <2>1, ImportPlans DEF ImportInv
  <2>2. CASE todo[p] \in {<<"reg", "log", "bump">>, <<"reg", "bump">>}
    BY <1>1, <1>2, <1>6, <1>7, <2>2, ImportPlans DEF ImportInv
  <2>3. CASE todo[p] = <<"log", "bump">>
    <3>1. files[m].log = snap[p].log /\ files[m].logged = snap[p].logged
      BY <1>1, <1>2, <2>3 DEF ImportInv
    <3>2. [files[m] EXCEPT !.reg = snap[p].reg] = snap[p]
      BY <1>3, <3>1 DEF Files
    <3>3. QED
      BY <1>6, <1>7, <2>3, <3>2, ImportPlans
  <2>4. QED
    BY <1>1, <1>2, <2>1, <2>2, <2>3 DEF ImportInv
<1>9. QED
  BY <1>1, <1>2, <1>6, <1>7, <1>8

LEMMA InstallFailsSound ==
  ASSUME WsInv, NEW p \in Proc, InstallFails(p)
  PROVE  WsInv'
<1>1. /\ at[p] \in Machine /\ Owns(p, at[p]) /\ Ends(p)
      /\ UNCHANGED <<view, arch, runs, commits>>
      /\ man' \in [Machine -> AnyManifest] /\ files' \in [Machine -> Files]
      /\ \A n \in Machine \ {at[p]} : man'[n] = man[n] /\ files'[n] = files[n]
      /\ man'[at[p]] = base[p]
  BY InstallFailsFacts
<1>2. \A n \in Machine \ {at[p]} : HomeKept(n)
  BY <1>1 DEF HomeKept
<1>3. (\A n \in Machine : man'[n] \in Known) /\ \A x \in arch' : x.man \in Known
  BY <1>1 DEF Known
<1>4. /\ ViewSound' /\ view' \in [Machine -> [Wid -> [rev : Nat, wid : Nat]]]
      /\ arch' \subseteq AnyArchive
  BY <1>1 DEF WsInv, ViewSound, Types
<1>5. QED
  BY <1>1, <1>2, <1>3, <1>4, EndSound

(* What stays after a put-back that fails matches what its write_id was    *)
(* committed with, or nothing.                                             *)
LEMMA PutBackFailsSound ==
  ASSUME WsInv, NEW p \in Proc, PutBackFails(p)
  PROVE  WsInv'
<1> DEFINE m == at[p]
           logs == {WithLog(NoFiles, f) : f \in {snap[p], pack[p].files}}
                     \cup {[NoFiles EXCEPT !.logged = TRUE]}
<1>1. Busy(p) /\ Ends(p) /\ UNCHANGED <<view, arch, runs, commits>>
  BY DEF PutBackFails, Busy, Packing
<1>2. m \in Machine /\ Owns(p, m)
  BY <1>1, BusyFacts
<1>3. /\ files[m] \in Files /\ man[m] \in AnyManifest /\ base[p] \in AnyManifest
      /\ snap[p] \in Files /\ pack[p].man \in AnyManifest /\ pack[p].files \in Files
      /\ man \in [Machine -> AnyManifest] /\ files \in [Machine -> Files]
  BY <1>2, RecordTypes DEF WsInv, Types
<1>4. PICK d \in {base[p], pack[p].man, Truncated(base[p])} : man' = [man EXCEPT ![m] = d]
  BY DEF PutBackFails
<1>5. base[p] \in Known /\ pack[p].man \in Known
  BY DEF Known
<1>6. /\ d \in AnyManifest /\ ManifestSound(d)
      /\ d \in Known \/ d.sum = {}
  <2>1. CASE d \in Known
    BY <1>3, <1>4, <2>1 DEF WsInv, Truncated, AnyManifest
  <2>2. CASE d = Truncated(base[p])
    <3>1. /\ d \in AnyManifest /\ d.sum = {} /\ d.wid = base[p].wid /\ d.fid = base[p].fid
          /\ d.rev = base[p].rev
      BY <1>3, <2>2 DEF Truncated, AnyManifest
    <3>2. ManifestSound(base[p])
      BY <1>5 DEF WsInv
    <3>3. base[p].wid = 0 => d = NoManifest
      BY <3>2, <2>2 DEF ManifestSound, Truncated, NoManifest
    <3>4. QED
      BY <3>1, <3>2, <3>3 DEF ManifestSound
  <2>3. QED
    BY <1>4, <1>5, <2>1, <2>2
<1>7. /\ man' \in [Machine -> AnyManifest] /\ \A n \in Machine \ {m} : man'[n] = man[n]
      /\ man'[m] = d
  BY <1>2, <1>3, <1>4, <1>6
<1>8. files' \in [Machine -> Files] /\ \A n \in Machine \ {m} : files'[n] = files[n]
  <2>1. PICK reg \in {snap[p].reg, pack[p].files.reg, {CutShort}}, f \in logs :
          files' = CASE todo[p][1] = "man" -> files
                     [] todo[p][1] = "reg" -> [files EXCEPT ![m].reg = reg]
                     [] OTHER -> [files EXCEPT ![m] = WithLog([files[m] EXCEPT !.reg = reg], f)]
    BY DEF PutBackFails
  <2>2. reg \in SUBSET (Item \cup {CutShort})
    BY <1>3, <2>1 DEF Files
  <2>3. f \in Files
    <3>1. [NoFiles EXCEPT !.logged = TRUE] \in Files
      BY RecordTypes DEF Files
    <3>2. \A g \in Files : WithLog(NoFiles, g) \in Files
      BY RecordTypes DEF WithLog, Files
    <3>3. QED
      BY <1>3, <2>1, <3>1, <3>2
  <2>4. [files[m] EXCEPT !.reg = reg] \in Files
    BY <1>3, <2>2 DEF Files
  <2>5. WithLog([files[m] EXCEPT !.reg = reg], f) \in Files
    BY <2>3, <2>4 DEF WithLog, Files
  <2>6. \/ files' = files
        \/ files' = [files EXCEPT ![m] = [files[m] EXCEPT !.reg = reg]]
        \/ files' = [files EXCEPT ![m] = WithLog([files[m] EXCEPT !.reg = reg], f)]
    BY <2>1
  <2>7. QED
    BY <1>2, <1>3, <2>4, <2>5, <2>6
<1>9. /\ LocalTypes' /\ Exclusion' /\ lock' = [n \in Machine |-> lock'[n]]
      /\ \A q \in Proc \ {p} : Same(q)
      /\ pc'[p] = "idle" /\ base'[p] = NoManifest /\ pack'[p] = NoArchive
      /\ HomeInv(p)' /\ SeenInv(p)' /\ ImportInv(p)'
  BY <1>1, EndFacts
<1>10. Types' /\ ViewSound'
  <2>1. ViewSound'
    BY <1>1 DEF WsInv, ViewSound
  <2>2. HomeTypes'
    BY <1>1, <1>7, <1>8, <1>9 DEF HomeTypes, WsInv, Types
  <2>3. QED
    BY <1>9, <2>1, <2>2 DEF Types, LocalTypes, HomeTypes
<1>11. \A n \in Machine \ {m} : HomeKept(n)
  BY <1>1, <1>7, <1>8 DEF HomeKept
<1>12. Known' \subseteq Known \cup {NoManifest, d}
  <2>1. \A q \in Proc : base'[q] \in Known \cup {NoManifest}
    BY <1>9 DEF Known, Same
  <2>2. \A q \in Proc : pack'[q].man \in Known \cup {NoManifest}
    BY <1>9, RecordTypes DEF Known, Same
  <2>3. \A n \in Machine : man'[n] \in Known \cup {d}
    BY <1>7 DEF Known
  <2>4. QED
    BY <1>1, <2>1, <2>2, <2>3 DEF Known
<1> PICK e : e = IF d \in Known THEN NoManifest ELSE d
  OBVIOUS
<1>13. /\ Known' \subseteq Known \cup {NoManifest, e} /\ Minted(p, e) /\ ManifestSound(e)'
       /\ CommitsKept(p)
  BY <1>1, <1>6, <1>12, NothingCommitted DEF Minted, ManifestSound
<1>14. QED
  BY <1>2, <1>9, <1>10, <1>11, <1>13, StepSound

-----------------------------------------------------------------------------
(***************************************************************************)
(* The invariant, and what the runs check of it.                           *)
(***************************************************************************)
LEMMA WsInit == Init => WsInv
<1> SUFFICES ASSUME NEW W \in {{}, Machine}, InitWith(W)
             PROVE  WsInv
  BY DEF Init
<1>1. /\ files = [m \in Machine |-> NoFiles]
      /\ man = [m \in Machine |-> IF m \in W THEN Genesis ELSE NoManifest]
      /\ view = [m \in Machine |-> [f \in Wid |->
           IF m \in W /\ f = 1 THEN [rev |-> 1, wid |-> 1] ELSE Unseen]]
      /\ commits = IF W = {} THEN << >> ELSE <<NoFiles>>
      /\ lock = [m \in Machine |-> None] /\ arch = {} /\ runs = 0
      /\ at = [p \in Proc |-> None] /\ pc = [p \in Proc |-> "idle"]
      /\ op = [p \in Proc |-> None] /\ item = [p \in Proc |-> 0]
      /\ todo = [p \in Proc |-> << >>]
      /\ base = [p \in Proc |-> NoManifest] /\ snap = [p \in Proc |-> NoFiles]
      /\ pack = [p \in Proc |-> NoArchive]
  BY DEF InitWith
<1>2. Genesis \in AnyManifest /\ Genesis.fid = 1 /\ Genesis.wid = 1 /\ Genesis.sum = {NoFiles}
  BY RecordTypes DEF Genesis, AnyManifest
<1>3. Types
  <2>1. commits \in Seq(Files)
    BY <1>1, RecordTypes
  <2>2. view \in [Machine -> [Wid -> [rev : Nat, wid : Nat]]]
    BY <1>1 DEF Unseen
  <2>3. man \in [Machine -> AnyManifest] /\ files \in [Machine -> Files]
    BY <1>1, <1>2, RecordTypes
  <2>4. /\ at \in [Proc -> Machine \cup {None}] /\ pc \in [Proc -> Step]
        /\ op \in [Proc -> Locked \cup {"init", "export", "import", None}]
        /\ item \in [Proc -> Item \cup {0}] /\ todo \in [Proc -> Plans]
        /\ base \in [Proc -> AnyManifest] /\ snap \in [Proc -> Files]
        /\ pack \in [Proc -> AnyArchive]
    BY <1>1, RecordTypes DEF Step, Plans
  <2>5. lock = [m \in Machine |-> lock[m]] /\ arch \subseteq AnyArchive /\ runs \in Nat
    BY <1>1
  <2>6. QED
    BY <2>1, <2>2, <2>3, <2>4, <2>5 DEF Types
<1>4. Exclusion
  BY <1>1, Constants DEF Exclusion, Packing, Busy
<1>5. W # {} => Len(commits) = 1 /\ commits[1] = NoFiles
  BY <1>1
<1>6. ViewSound
  BY <1>1, <1>5 DEF ViewSound, Unseen
<1>7. \A d \in Known : ManifestSound(d)
  <2>1. \A d \in Known : d = NoManifest \/ (W # {} /\ d = Genesis)
    BY <1>1, RecordTypes DEF Known
  <2>2. Len(commits) \in Nat
    BY <1>3 DEF Types
  <2>3. ManifestSound(NoManifest)
    BY <2>2, RecordTypes DEF ManifestSound
  <2>4. W # {} => ManifestSound(Genesis)
    BY <1>2, <1>5 DEF ManifestSound
  <2>5. QED
    BY <2>1, <2>3, <2>4
<1>8. \A p \in Proc : HomeInv(p) /\ SeenInv(p) /\ ImportInv(p) /\ SealInv(p)
  BY <1>1 DEF HomeInv, SeenInv, ImportInv, SealInv, Revising, Changed, Busy
<1>9. QED
  BY <1>3, <1>4, <1>6, <1>7, <1>8 DEF WsInv

(* A command that begins may race, and no other step changes that.         *)
LEMMA RacedStep ==
  ASSUME [Next]_vars
  PROVE  \/ raced' = raced
         \/ \E p \in Proc, m \in Machine, c \in Locked \cup {"init", "export", "import"} :
              raced' = (raced \/ Beside(p, m, c))
<1>1. ASSUME NEW p, NEW m, NEW c, NEW writes, NEW first, Begins(p, m, c, writes, first)
      PROVE  raced' = (raced \/ Beside(p, m, c))
  BY <1>1, Zenon DEF Begins
<1>2. ASSUME NEW p \in Proc, NEW m \in Machine,
             Start(p, m) \/ BeginInit(p, m) \/ BeginExport(p, m) \/ BeginImport(p, m)
      PROVE  \E c \in Locked \cup {"init", "export", "import"} :
               raced' = (raced \/ Beside(p, m, c))
  BY <1>1, <1>2, Zenon DEF Start, BeginInit, BeginExport, BeginImport
<1>3. ASSUME NEW p \in Proc,
             \/ LoadRegistry(p) \/ WriteLegacy(p) \/ Mutation(p)
             \/ Seal(p) \/ Pack(p) \/ EndExport(p)
             \/ Install(p) \/ InstallFails(p) \/ PutBackFails(p) \/ Kill(p)
      PROVE  raced' = raced
  BY <1>3 DEF LoadRegistry, WriteLegacy, Mutation, CheckFails, Check, Mutate, Reread, Digest,
              Commit, See, Seal, Pack, EndExport, Install, InstallFails, PutBackFails, Kill
<1>4. CASE UNCHANGED vars
  BY <1>4 DEF vars
<1>5. QED
  BY <1>2, <1>3, <1>4, Zenon DEF Next

LEMMA RacedStays == ASSUME [Next]_vars, raced PROVE raced'
BY RacedStep, Zenon

LEMMA RacedIsBoolean == Spec => [](raced \in BOOLEAN)
<1>1. Init => raced \in BOOLEAN
  BY DEF Init, InitWith
<1>2. raced \in BOOLEAN /\ [Next]_vars => (raced \in BOOLEAN)'
  <2> SUFFICES ASSUME raced \in BOOLEAN, [Next]_vars
               PROVE  raced' \in BOOLEAN
    OBVIOUS
  <2>1. \A x, y : (x \/ y) \in BOOLEAN
    OBVIOUS
  <2>2. QED
    BY <2>1, RacedStep, Zenon
<1>3. QED
  BY <1>1, <1>2, PTL DEF Spec

LEMMA WsStep ==
  ASSUME raced \/ WsInv, [Next]_vars
  PROVE  raced' \/ WsInv'
<1> SUFFICES ASSUME ~ raced'
             PROVE  WsInv'
  OBVIOUS
<1>0. WsInv
  BY RacedStays
<1>1. CASE UNCHANGED vars
  <2>1. Types' /\ Exclusion' /\ ViewSound'
    BY <1>0, <1>1 DEF vars, local, WsInv, Types, Exclusion, ViewSound, Busy
  <2>2. Known' = Known
    BY <1>1 DEF vars, local, Known
  <2>3. \A d : ManifestSound(d) => ManifestSound(d)'
    BY <1>1 DEF vars, local, ManifestSound
  <2>4. \A p \in Proc : HomeInv(p)' /\ SeenInv(p)' /\ ImportInv(p)'
    BY <1>0, <1>1 DEF vars, local, WsInv, HomeInv, SeenInv, ImportInv, Busy
  <2>5. \A p \in Proc : SealInv(p)'
    BY <1>0, <1>1, <2>2 DEF vars, local, WsInv, SealInv
  <2>6. QED
    BY <1>0, <2>1, <2>2, <2>3, <2>4, <2>5 DEF WsInv
<1>2. ASSUME NEW p \in Proc, NEW m \in Machine,
             Start(p, m) \/ BeginInit(p, m) \/ BeginExport(p, m) \/ BeginImport(p, m)
      PROVE  WsInv'
  BY <1>0, <1>2, StartSound, BeginInitSound, BeginExportSound, BeginImportSound
<1>3. ASSUME NEW p \in Proc, LoadRegistry(p) \/ WriteLegacy(p)
      PROVE  WsInv'
  BY <1>0, <1>3, LoadRegistrySound, WriteLegacySound
<1>4. ASSUME NEW p \in Proc, Mutation(p)
      PROVE  WsInv'
  BY <1>0, <1>4, CheckFailsSound, CheckSound, MutateSound, RereadSound, DigestSound, CommitSound,
     SeeSound DEF Mutation
<1>5. ASSUME NEW p \in Proc, Seal(p) \/ Pack(p) \/ EndExport(p)
      PROVE  WsInv'
  BY <1>0, <1>5, SealSound, PackSound, EndExportSound
<1>6. ASSUME NEW p \in Proc, Install(p) \/ InstallFails(p) \/ PutBackFails(p) \/ Kill(p)
      PROVE  WsInv'
  BY <1>0, <1>6, InstallSound, InstallFailsSound, PutBackFailsSound, KillSound
<1>7. QED
  BY <1>1, <1>2, <1>3, <1>4, <1>5, <1>6 DEF Next

(* The invariant holds through commands killed, imports broken off and     *)
(* put-backs that fail, until an init or an import, which take no lock,    *)
(* begins beside another command that writes or beside which one begins.   *)
THEOREM WorkspaceSound == Spec => [](raced \/ WsInv)
<1>1. Init => raced \/ WsInv
  BY WsInit
<1>2. (raced \/ WsInv) /\ [Next]_vars => (raced \/ WsInv)'
  BY WsStep
<1>3. QED
  BY <1>1, <1>2, PTL DEF Spec

(* A digest that matches is over what its write_id was committed with.     *)
THEOREM CleanIsCommittedHolds == Spec => []CleanIsCommitted
<1>1. raced \/ WsInv => CleanIsCommitted
  BY HomeFacts DEF CleanIsCommitted, MatchIsCommitted
<1>2. QED
  BY <1>1, WorkspaceSound, PTL

(* An archive that import accepts is one revision, whatever was written    *)
(* while export read its members.                                          *)
THEOREM ArchiveIsARevisionHolds == Spec => []ArchiveIsARevision
<1>1. raced \/ WsInv => ArchiveIsARevision
  BY DEF WsInv, Known, ManifestSound, Importable, ArchiveIsARevision
<1>2. QED
  BY <1>1, WorkspaceSound, PTL

(* A write that fails in an import leaves the home as the import found it, *)
(* when putting back does not fail as well.                                *)
THEOREM FailedWriteRestoresHolds == Spec => FailedWriteRestores
<1>1. (raced \/ WsInv) /\ [Next]_vars
        => [~ raced => \A p \in Proc : InstallFails(p) => AsFound(p)]_vars
  BY InstallFailsFacts DEF AsFound
<1>2. QED
  BY <1>1, WorkspaceSound, PTL DEF Spec, FailedWriteRestores

(* A machine takes note of a revision only of a fleet it has not seen, or  *)
(* of one that is newer than what it has seen: the check refuses the rest, *)
(* and between the check and the commit nobody else writes to the home.    *)
LEMMA ViewStep ==
  ASSUME WsInv, NEW p \in Proc, Check(p) \/ See(p), NEW m \in Machine, NEW f \in Wid,
         view'[m][f] # view[m][f]
  PROVE  view[m][f] = Unseen \/ view'[m][f].rev > view[m][f].rev
<1> DEFINE v == view[m][f]
<1>1. pc[p] \in {"check", "see"} /\ Busy(p) /\ at[p] \in Machine /\ SeenInv(p) /\ HomeInv(p)
  BY BusyFacts DEF Check, See, Busy, Packing
<1>2. v \in [rev : Nat, wid : Nat] /\ (v.wid = 0 => v = Unseen)
  BY DEF WsInv, Types, ViewSound
<1>3. CASE Check(p)
  <2> DEFINE d == man[at[p]]
  <2>1. d \in AnyManifest /\ Remember(at[p], d) /\ ~ Conflict(d, files[at[p]], view[at[p]][d.fid])
    BY <1>1, <1>3, HomeFacts DEF Check
  <2>2. m = at[p] /\ f = d.fid /\ view'[m][f] = [rev |-> d.rev, wid |-> d.wid]
    BY <1>1, <2>1, RememberFacts
  <2>3. ~ RolledBack(d, v) /\ ~ Diverged(d, v)
    BY <2>1, <2>2 DEF Conflict
  <2>4. d.rev \in Nat /\ v.rev \in Nat
    BY <1>2, <2>1, RecordTypes
  <2>5. QED
    BY <1>2, <2>2, <2>3, <2>4 DEF RolledBack, Diverged
<1>4. CASE See(p)
  <2> DEFINE d == base[p]
  <2>1. d \in AnyManifest /\ Remember(at[p], d)
    BY <1>4 DEF See, WsInv, Types
  <2>2. m = at[p] /\ f = d.fid /\ view'[m][f] = [rev |-> d.rev, wid |-> d.wid]
    BY <1>1, <2>1, RememberFacts
  <2>3. v = Unseen \/ v.rev < d.rev
    BY <1>1, <1>4, <2>2 DEF SeenInv, See
  <2>4. QED
    BY <1>2, <2>1, <2>2, <2>3, RecordTypes
<1>5. QED
  BY <1>3, <1>4

(* No other step changes what a machine has seen.                          *)
LEMMA ViewWritten ==
  ASSUME [Next]_vars, view' # view
  PROVE  \E p \in Proc : Check(p) \/ See(p)
BY DEF Next, vars, Start, BeginInit, BeginExport, BeginImport, LoadRegistry, WriteLegacy,
       Mutation, CheckFails, Mutate, Reread, Digest, Commit, Seal, Pack, EndExport, Install,
       InstallFails, PutBackFails, Kill

THEOREM SeenOnlyAdvancesHolds == Spec => SeenOnlyAdvances
<1>1. (raced \/ WsInv) /\ [Next]_vars
        => [~ raced => \A m \in Machine : \A f \in Wid :
              view'[m][f] # view[m][f] =>
                view[m][f] = Unseen \/ view'[m][f].rev > view[m][f].rev]_vars
  BY ViewStep, ViewWritten
<1>2. QED
  BY <1>1, WorkspaceSound, PTL DEF Spec, SeenOnlyAdvances

-----------------------------------------------------------------------------
(***************************************************************************)
(* The types, raced or not: a write_id is the number of a commit,          *)
(* and each command commits at most twice.  Two numbers belong to each     *)
(* run, 2 * item and 2 * item + 1; a command still has the highest ones    *)
(* before it (Reserved), and each commit takes one that is no one's.       *)
(***************************************************************************)
Manifests(n) ==
  {NoManifest} \cup [fid : 1 .. n, rev : Nat, wid : 1 .. n, sum : SUBSET Files]

NamedBy(n) ==
  /\ man \in [Machine -> Manifests(n)]
  /\ view \in [Machine -> [Wid -> [rev : Nat, wid : 0 .. n]]]
  /\ arch \subseteq [man : Manifests(n), files : Files]
  /\ base \in [Proc -> Manifests(n)]
  /\ pack \in [Proc -> [man : Manifests(n), files : Files]]

(* The commits still to come at step s, with the writes t to do.           *)
ComingAt(s, t) ==
  CASE s \in {"load", "check"} \cup Revising -> Len(t)
    [] s = "see" /\ t # << >> -> Len(t) - 1
    [] s = "install" -> 1
    [] OTHER -> 0

Coming(p) == ComingAt(pc[p], todo[p])

Reserved(p) == (2 * item[p] + 2 - Coming(p)) .. (2 * item[p] + 1)

Counted ==
  \E U \in SUBSET (1 .. (2 * runs + 1)) :
    /\ Cardinality(U) = Len(commits)
    /\ \A p \in Proc : U \cap Reserved(p) = {}

Todos == {<<"log", "reg">>, <<"reg">>, <<"log">>, <<"bump">>}

Installing == {<<"man", "reg", "log", "bump">>, <<"man", "reg", "bump">>,
               <<"reg", "log", "bump">>, <<"reg", "bump">>, <<"log", "bump">>}

RunInv(p) ==
  /\ op[p] = None <=> pc[p] = "idle"
  /\ op[p] = None => at[p] = None
  /\ op[p] # None => at[p] \in Machine /\ item[p] # 0
  /\ pc[p] \in Revising \cup {"see", "seal"} => base[p] # NoManifest
  /\ pc[p] \in Revising \cup {"load", "check"} => todo[p] \in Todos
  /\ pc[p] = "see" => todo[p] \in Todos \cup {<< >>}
  /\ pc[p] = "install" => todo[p] \in Installing
  /\ pc[p] = "seal" => todo[p] = << >>

Simple ==
  /\ files \in [Machine -> Files]
  /\ lock \in [Machine -> Proc \cup {None}]
  /\ at \in [Proc -> Machine \cup {None}]
  /\ pc \in [Proc -> Step]
  /\ op \in [Proc -> Locked \cup {"init", "export", "import", None}]
  /\ item \in [Proc -> 0 .. runs]
  /\ todo \in [Proc -> Plans]
  /\ snap \in [Proc -> Files]
  /\ runs \in 0 .. MaxRuns /\ faults \in 0 .. MaxFaults
  /\ commits \in Seq(Files)

RunsApart ==
  \A p, q \in Proc : op[p] # None /\ op[q] # None /\ item[p] = item[q] => p = q

LockLives == \A m \in Machine : lock[m] # None => at[lock[m]] = m

NumberInv ==
  /\ Simple /\ NamedBy(Len(commits)) /\ RunsApart /\ LockLives /\ Counted
  /\ \A p \in Proc : RunInv(p)

LEMMA ManifestsFacts ==
  /\ \A n : NoManifest \in Manifests(n)
  /\ \A n, k \in Nat : n <= k => Manifests(n) \subseteq Manifests(k)
  /\ \A n \in Nat : \A d \in Manifests(n) :
       /\ d.rev \in Nat /\ d.wid \in 0 .. n /\ d.sum \in SUBSET Files
       /\ d # NoManifest => d.wid \in 1 .. n /\ d.fid \in 1 .. n
       /\ d.wid = 0 => d = NoManifest
BY DEF Manifests, NoManifest

(* Names stay names when others are added.                                 *)
LEMMA NamesKept ==
  ASSUME NumberInv, NEW k \in Nat, Len(commits) <= k
  PROVE  NamedBy(k)
<1>1. Len(commits) \in Nat /\ NamedBy(Len(commits))
  BY DEF NumberInv, Simple
<1>2. Manifests(Len(commits)) \subseteq Manifests(k)
  BY <1>1, ManifestsFacts
<1>3. 0 .. Len(commits) \subseteq 0 .. k
  BY <1>1
<1> DEFINE M == Manifests(k)
           N == Manifests(Len(commits))
           Z == 0 .. k
           Y == 0 .. Len(commits)
<1>4. N \subseteq M /\ Y \subseteq Z
  BY <1>2, <1>3
<1>5. /\ man \in [Machine -> N]
      /\ view \in [Machine -> [Wid -> [rev : Nat, wid : Y]]]
      /\ arch \subseteq [man : N, files : Files]
      /\ base \in [Proc -> N]
      /\ pack \in [Proc -> [man : N, files : Files]]
  BY <1>1 DEF NamedBy
<1> HIDE DEF M, N, Y, Z
<1>6. /\ man \in [Machine -> M]
      /\ arch \subseteq [man : M, files : Files]
      /\ base \in [Proc -> M]
  BY <1>4, <1>5
<1>7. view \in [Machine -> [Wid -> [rev : Nat, wid : Z]]]
  <2>1. [rev : Nat, wid : Y] \subseteq [rev : Nat, wid : Z]
    BY <1>4
  <2>2. [Wid -> [rev : Nat, wid : Y]] \subseteq [Wid -> [rev : Nat, wid : Z]]
    BY <2>1
  <2>3. QED
    BY <1>5, <2>2
<1>8. pack \in [Proc -> [man : M, files : Files]]
  <2>1. [man : N, files : Files] \subseteq [man : M, files : Files]
    BY <1>4
  <2>2. QED
    BY <1>5, <2>1
<1>9. QED
  BY <1>6, <1>7, <1>8 DEF NamedBy, M, Z

LEMMA TodosFacts ==
  /\ \A t \in Todos : Len(t) \in 1 .. 2 /\ (Len(t) > 1 => t = <<"log", "reg">>)
  /\ Todos \subseteq Plans /\ << >> \in Plans /\ Installing \subseteq Plans
  /\ Len(<<"log", "reg">>) = 2 /\ Len(<<"reg">>) = 1 /\ Len(<<"bump">>) = 1
  /\ Len(<<"log">>) = 1 /\ << >> \notin Todos
<1>1. /\ Len(<<"log", "reg">>) = 2 /\ Len(<<"reg">>) = 1 /\ Len(<<"bump">>) = 1
      /\ Len(<<"log">>) = 1 /\ Len(<< >>) = 0
  OBVIOUS
<1>2. QED
  BY <1>1 DEF Todos, Plans, Installing

LEMMA ComingAtFacts ==
  /\ \A s \in {"load", "check"} \cup Revising : \A t : ComingAt(s, t) = Len(t)
  /\ \A t : t # << >> => ComingAt("see", t) = Len(t) - 1
  /\ ComingAt("see", << >>) = 0
  /\ \A t : ComingAt("install", t) = 1
  /\ \A s \in {"idle", "seal"} \cup Packing : \A t : ComingAt(s, t) = 0
BY DEF ComingAt, Revising, Changed, Packing

LEMMA NoneComing ==
  /\ \A x : x = 0 => x \in 0 .. 2
  /\ \A x, y : x = 0 /\ y \in 0 .. 2 => x \in 0 .. y
OBVIOUS

LEMMA ComingFacts ==
  ASSUME NumberInv, NEW p \in Proc
  PROVE  /\ Coming(p) \in 0 .. 2
         /\ op[p] = None => Coming(p) = 0
         /\ pc[p] \in {"load", "check"} \cup Revising
              => Coming(p) = Len(todo[p]) /\ Len(todo[p]) \in 1 .. 2
<1>1. RunInv(p) /\ pc[p] \in Step
  BY DEF NumberInv, Simple
<1>2. CASE pc[p] \in {"load", "check"} \cup Revising
  <2>1. todo[p] \in Todos /\ op[p] # None
    BY <1>1, <1>2 DEF RunInv, Revising, Changed
  <2>2. Len(todo[p]) \in 1 .. 2
    BY <2>1, TodosFacts
  <2>3. Coming(p) = Len(todo[p])
    BY <1>2, ComingAtFacts DEF Coming
  <2>4. QED
    BY <2>1, <2>2, <2>3
<1>3. CASE pc[p] = "see"
  <2>1. todo[p] \in Todos \cup {<< >>} /\ op[p] # None
    BY <1>1, <1>3 DEF RunInv
  <2>2. Coming(p) = IF todo[p] = << >> THEN 0 ELSE Len(todo[p]) - 1
    BY <1>3, ComingAtFacts DEF Coming
  <2>3. todo[p] \in Todos => Len(todo[p]) \in 1 .. 2
    BY TodosFacts
  <2>4. Coming(p) \in 0 .. 2
    BY <2>1, <2>2, <2>3
  <2>5. QED
    BY <1>3, <2>1, <2>4 DEF Revising, Changed
<1>4. CASE pc[p] \notin {"load", "check", "see"} \cup Revising
  <2>1. Coming(p) = IF pc[p] = "install" THEN 1 ELSE 0
    BY <1>4 DEF Coming, ComingAt
  <2>2. QED
    BY <1>1, <1>4, <2>1 DEF RunInv
<1>5. QED
  BY <1>2, <1>3, <1>4

(* The numbers of a run that is over, or has no commit left, are no one's. *)
LEMMA ReservedFacts ==
  ASSUME NumberInv, NEW p \in Proc
  PROVE  /\ \A x \in Reserved(p) : x \in {2 * item[p], 2 * item[p] + 1}
         /\ Coming(p) = 0 => Reserved(p) = {}
         /\ Coming(p) # 0 => 2 * item[p] + 2 - Coming(p) \in Reserved(p)
         /\ \A x \in Reserved(p) : x \in 1 .. (2 * runs + 1)
<1>1. Coming(p) \in 0 .. 2 /\ item[p] \in 0 .. runs /\ runs \in Nat
  BY ComingFacts DEF NumberInv, Simple
<1>2. Coming(p) # 0 => item[p] # 0
  BY ComingFacts DEF NumberInv, RunInv
<1>3. QED
  BY <1>1, <1>2 DEF Reserved

LEMMA RunNumbers ==
  \A n, k \in Nat : k >= n =>
    \A U \in SUBSET (1 .. (2 * n + 1)) : \A x \in U :
      x \in 1 .. (2 * k + 1) /\ x <= 2 * n + 1
<1> SUFFICES ASSUME NEW n \in Nat, NEW k \in Nat, k >= n, NEW x \in 1 .. (2 * n + 1)
             PROVE  x \in 1 .. (2 * k + 1) /\ x <= 2 * n + 1
  OBVIOUS
<1>1. QED
  OBVIOUS

LEMMA CountStep ==
  ASSUME NumberInv, runs' \in Nat, runs' >= runs, commits' \in Seq(Files),
         \A q \in Proc : \A x \in Reserved(q)' : x <= 2 * runs + 1 => x \in Reserved(q),
         \/ Len(commits') = Len(commits)
         \/ /\ Len(commits') = Len(commits) + 1
            /\ \E x \in 1 .. (2 * runs' + 1) :
                 /\ \A q \in Proc : x \notin Reserved(q)'
                 /\ x > 2 * runs + 1 \/ \E q \in Proc : x \in Reserved(q)
  PROVE  Counted'
<1>1. PICK U \in SUBSET (1 .. (2 * runs + 1)) :
        Cardinality(U) = Len(commits) /\ \A q \in Proc : U \cap Reserved(q) = {}
  BY DEF NumberInv, Counted
<1>2. runs \in Nat
  BY DEF NumberInv, Simple
<1>3. \A x \in U : x \in 1 .. (2 * runs' + 1) /\ x <= 2 * runs + 1
  BY <1>1, <1>2, RunNumbers
<1>4. \A q \in Proc : U \cap Reserved(q)' = {}
  <2> SUFFICES ASSUME NEW q \in Proc, NEW x \in U, x \in Reserved(q)'
               PROVE  FALSE
    OBVIOUS
  <2>1. x \in Reserved(q)
    BY <1>3
  <2>2. QED
    BY <1>1, <2>1
<1>5. CASE Len(commits') = Len(commits)
  BY <1>1, <1>3, <1>4, <1>5 DEF Counted
<1>6. ASSUME Len(commits') = Len(commits) + 1,
             NEW x \in 1 .. (2 * runs' + 1), \A q \in Proc : x \notin Reserved(q)',
             x > 2 * runs + 1 \/ \E q \in Proc : x \in Reserved(q)
      PROVE  Counted'
  <2>1. x \notin U
    <3>1. CASE x > 2 * runs + 1
      <4>1. x \in U => x <= 2 * runs + 1
        BY <1>3
      <4>2. QED
        BY <1>2, <3>1, <4>1
    <3>2. ASSUME NEW q \in Proc, x \in Reserved(q)
          PROVE  x \notin U
      BY <1>1, <3>2
    <3>3. QED
      BY <1>6, <3>1, <3>2
  <2>2. IsFiniteSet(U)
    <3>1. IsFiniteSet(1 .. (2 * runs + 1))
      BY <1>2, FS_Interval
    <3>2. QED
      BY <3>1, FS_Subset
  <2>3. Cardinality(U \cup {x}) = Len(commits')
    BY <1>1, <1>6, <2>1, <2>2, FS_AddElement
  <2>4. \A q \in Proc : (U \cup {x}) \cap Reserved(q)' = {}
    BY <1>4, <1>6
  <2>5. U \cup {x} \in SUBSET (1 .. (2 * runs' + 1))
    BY <1>3, <1>6
  <2>6. QED
    BY <2>3, <2>4, <2>5 DEF Counted
<1>7. QED
  BY <1>5, <1>6

(* What is counted is bounded.                                             *)
LEMMA CountBound ==
  ASSUME NumberInv
  PROVE  /\ Len(commits) <= 2 * runs + 1
         /\ Len(commits) \in Nat /\ 1 .. Len(commits) \subseteq Wid
<1>1. PICK U \in SUBSET (1 .. (2 * runs + 1)) : Cardinality(U) = Len(commits)
  BY DEF NumberInv, Counted
<1>2. runs \in 0 .. MaxRuns /\ MaxRuns \in Nat /\ Len(commits) \in Nat
  BY ConstantsAssumption DEF NumberInv, Simple
<1>3. /\ IsFiniteSet(1 .. (2 * runs + 1))
      /\ Cardinality(1 .. (2 * runs + 1)) = 2 * runs + 1
  BY <1>2, FS_Interval
<1>4. Cardinality(U) <= 2 * runs + 1
  BY <1>3, FS_Subset
<1>5. QED
  BY <1>1, <1>2, <1>4 DEF Wid

(* Only p moves: it reserves no number it had not, or new ones.            *)
LEMMA CountMoves ==
  ASSUME NumberInv, NEW p \in Proc, \A q \in Proc \ {p} : Same(q),
         runs' = runs, commits' \in Seq(Files), Len(commits') = Len(commits),
         \/ item'[p] = item[p] /\ Coming(p)' \in 0 .. Coming(p)
         \/ Coming(p)' = 0 /\ item'[p] \in Nat
  PROVE  Counted'
<1>1. \A q \in Proc \ {p} : Reserved(q)' = Reserved(q)
  BY DEF Same, Reserved, Coming
<1>2. Coming(p) \in 0 .. 2 /\ item[p] \in Nat /\ runs \in Nat
  BY ComingFacts DEF NumberInv, Simple
<1>3. \A x \in Reserved(p)' : x \in Reserved(p)
  <2>1. CASE item'[p] = item[p] /\ Coming(p)' \in 0 .. Coming(p)
    BY <1>2, <2>1 DEF Reserved
  <2>2. CASE Coming(p)' = 0 /\ item'[p] \in Nat
    BY <2>2 DEF Reserved
  <2>3. QED
    BY <2>1, <2>2
<1>4. QED
  BY <1>1, <1>2, <1>3, CountStep

(* What Same(q) says of the invariant.                                     *)
LEMMA OthersStay ==
  ASSUME NumberInv, NEW q \in Proc, Same(q)
  PROVE  RunInv(q)'
BY DEF NumberInv, RunInv, Same

(* p goes on.                                                              *)
LEMMA NumberGoes ==
  ASSUME NumberInv, NEW p \in Proc, NEW s \in Step \ {"idle"}, Goes(p, s), pc[p] # "idle",
         UNCHANGED <<item, runs, faults>>,
         files' \in [Machine -> Files], snap' \in [Proc -> Files],
         todo' \in [Proc -> Plans], commits' \in Seq(Files), NamedBy(Len(commits))',
         \A q \in Proc \ {p} : /\ todo'[q] = todo[q] /\ base'[q] = base[q]
                               /\ snap'[q] = snap[q] /\ pack'[q] = pack[q],
         s \in Revising \cup {"see", "seal"} => base'[p] # NoManifest,
         s \in Revising \cup {"load", "check"} => todo'[p] \in Todos,
         s = "see" => todo'[p] \in Todos \cup {<< >>},
         s = "install" => todo'[p] \in Installing,
         s # "seal",
         Len(commits') = Len(commits) => Coming(p)' \in 0 .. Coming(p),
         Len(commits') # Len(commits) => Counted'
  PROVE  NumberInv'
<1>1. /\ at' = at /\ op' = op /\ lock' = lock /\ pc' \in [Proc -> Step] /\ pc'[p] = s
      /\ \A q \in Proc \ {p} : pc'[q] = pc[q]
  BY DEF Goes, NumberInv, Simple
<1>2. \A q \in Proc \ {p} : Same(q)
  BY <1>1 DEF Same
<1>3. RunInv(p)'
  BY <1>1 DEF NumberInv, RunInv
<1>4. Simple' /\ RunsApart' /\ LockLives'
  BY <1>1 DEF NumberInv, Simple, RunsApart, LockLives
<1>5. Counted'
  BY <1>2, CountMoves
<1>6. QED
  BY <1>2, <1>3, <1>4, <1>5, OthersStay DEF NumberInv

(* p is over.                                                              *)
LEMMA NumberEnds ==
  ASSUME NumberInv, NEW p \in Proc, Ends(p), UNCHANGED <<runs, commits>>,
         faults' \in 0 .. MaxFaults,
         files' \in [Machine -> Files], man' \in [Machine -> Manifests(Len(commits))],
         view' \in [Machine -> [Wid -> [rev : Nat, wid : 0 .. Len(commits)]]],
         arch' \subseteq [man : Manifests(Len(commits)), files : Files]
  PROVE  NumberInv'
<1>1. /\ \A q \in Proc \ {p} : Same(q)
      /\ at'[p] = None /\ pc'[p] = "idle" /\ op'[p] = None /\ item'[p] = 0
  BY DEF Ends, Forgotten, Same, NumberInv, Simple, NamedBy
<1>11. /\ at' \in [Proc -> Machine \cup {None}] /\ pc' \in [Proc -> Step]
      /\ op' \in [Proc -> Locked \cup {"init", "export", "import", None}]
      /\ item' \in [Proc -> 0 .. runs] /\ todo' \in [Proc -> Plans]
      /\ snap' \in [Proc -> Files]
  <2>1. None \in Machine \cup {None} /\ "idle" \in Step
    BY DEF Step
  <2>4. 0 \in 0 .. runs
    <3>1. runs \in Nat
      BY DEF NumberInv, Simple
    <3>2. QED
      BY <3>1
  <2>2. << >> \in Plans /\ NoFiles \in Files
    BY RecordTypes, TodosFacts
  <2>3. QED
    BY <2>1, <2>2, <2>4 DEF Ends, Forgotten, NumberInv, Simple
<1>2. /\ base' \in [Proc -> Manifests(Len(commits))]
      /\ pack' \in [Proc -> [man : Manifests(Len(commits)), files : Files]]
  BY ManifestsFacts, RecordTypes DEF Ends, Forgotten, NumberInv, NamedBy, NoArchive
<1>3. NamedBy(Len(commits))'
  BY <1>2 DEF NamedBy
<1>4. /\ lock' \in [Machine -> Proc \cup {None}]
      /\ \A m \in Machine : lock'[m] # None => lock'[m] # p /\ lock'[m] = lock[m]
  BY DEF Ends, NumberInv, Simple
<1>5. Simple'
  BY <1>11, <1>4 DEF NumberInv, Simple
<1>6. LockLives'
  BY <1>1, <1>4 DEF NumberInv, Simple, LockLives, Same
<1>7. RunsApart'
  BY <1>1 DEF NumberInv, RunsApart, Same
<1>8. RunInv(p)'
  BY <1>1 DEF RunInv, Revising, Changed
<1>9. Counted'
  <2>1. Coming(p)' = 0
    BY <1>1, ComingAtFacts DEF Coming
  <2>2. commits' \in Seq(Files) /\ Len(commits') = Len(commits) /\ item'[p] \in Nat
    BY <1>1 DEF NumberInv, Simple
  <2>3. QED
    BY <1>1, <2>1, <2>2, CountMoves
<1>10. QED
  BY <1>1, <1>3, <1>5, <1>6, <1>7, <1>8, <1>9, OthersStay DEF NumberInv

-----------------------------------------------------------------------------
(* The steps.                                                              *)
LEMMA RunFacts ==
  ASSUME NumberInv, NEW p \in Proc
  PROVE  /\ RunInv(p) /\ item[p] \in 0 .. runs
         /\ op[p] # None => at[p] \in Machine /\ item[p] \in Item
         /\ base[p] \in Manifests(Len(commits)) /\ files[at[p]] = files[at[p]]
         /\ pack[p] \in [man : Manifests(Len(commits)), files : Files]
         /\ snap[p] \in Files
         /\ at[p] \in Machine => files[at[p]] \in Files
         /\ at[p] \in Machine => man[at[p]] \in Manifests(Len(commits))
<1>1. /\ RunInv(p) /\ item[p] \in 0 .. runs /\ runs \in 0 .. MaxRuns /\ MaxRuns \in Nat
  BY ConstantsAssumption DEF NumberInv, Simple
<1>2. op[p] # None => at[p] \in Machine /\ item[p] # 0
  BY <1>1 DEF RunInv
<1>3. QED
  BY <1>1, <1>2 DEF NumberInv, Simple, NamedBy, Item

(* What a command writes is a registry and a log.                          *)
LEMMA PutIsFiles ==
  ASSUME NumberInv, NEW p \in Proc, pc[p] \in {"check", "mutate"}
  PROVE  Put(p) \in Files
<1>1. op[p] # None /\ todo[p] \in Todos
  BY RunFacts DEF RunInv, Revising
<1>2. /\ files[at[p]] \in Files /\ snap[p] \in Files /\ item[p] \in Item
  BY <1>1, RunFacts
<1>3. todo[p][1] \in {"reg", "log", "bump"}
  BY <1>1, PlanFacts DEF Todos
<1>4. QED
  BY <1>2, <1>3 DEF Put, Written, Files

LEMMA RememberTypes ==
  ASSUME NumberInv, NEW m \in Machine, NEW d \in Manifests(Len(commits)), Remember(m, d)
  PROVE  view' \in [Machine -> [Wid -> [rev : Nat, wid : 0 .. Len(commits)]]]
<1> DEFINE v == [rev |-> d.rev, wid |-> d.wid]
           V == [rev : Nat, wid : 0 .. Len(commits)]
<1>1. Len(commits) \in Nat /\ view \in [Machine -> [Wid -> V]]
  BY DEF NumberInv, Simple, NamedBy
<1>2. v \in V
  BY <1>1, ManifestsFacts
<1>3. view' = [view EXCEPT ![m] = [view[m] EXCEPT ![d.fid] = v]]
  BY DEF Remember
<1> HIDE DEF v, V
<1>4. [view[m] EXCEPT ![d.fid] = v] \in [Wid -> V]
  BY <1>1, <1>2
<1>5. view' \in [Machine -> [Wid -> V]]
  BY <1>1, <1>3, <1>4
<1>6. QED
  BY <1>5 DEF V

(* Nothing is committed and no workspace.json moves.                       *)
LEMMA NamesStay ==
  ASSUME NumberInv, UNCHANGED <<man, arch, base, pack, commits>>,
         view' \in [Machine -> [Wid -> [rev : Nat, wid : 0 .. Len(commits)]]]
  PROVE  NamedBy(Len(commits))'
BY DEF NumberInv, NamedBy

LEMMA ViewTypes ==
  ASSUME NumberInv
  PROVE  view \in [Machine -> [Wid -> [rev : Nat, wid : 0 .. Len(commits)]]]
BY DEF NumberInv, NamedBy

(* The end of a write, in a legacy home or after a commit.                 *)
LEMMA NumberProceeds ==
  ASSUME NumberInv, NEW p \in Proc, Proceeds(p), pc[p] \in {"check", "see"},
         UNCHANGED <<man, arch, runs, faults, commits>>,
         files' \in [Machine -> Files],
         view' \in [Machine -> [Wid -> [rev : Nat, wid : 0 .. Len(commits)]]]
  PROVE  NumberInv'
<1>1. todo[p] \in Todos \cup {<< >>}
  BY RunFacts DEF RunInv
<1>2. CASE Ends(p)
  BY <1>2, NumberEnds DEF NumberInv, Simple, NamedBy
<1>3. CASE /\ todo[p] = <<"log", "reg">> /\ Goes(p, "load")
           /\ todo' = [todo EXCEPT ![p] = <<"reg">>]
           /\ UNCHANGED <<item, base, snap, pack>>
  <2>1. /\ todo' \in [Proc -> Plans] /\ \A q \in Proc \ {p} : todo'[q] = todo[q]
        /\ todo'[p] = <<"reg">> /\ <<"reg">> \in Todos
    BY <1>3 DEF NumberInv, Simple, Plans, Todos
  <2>2. pc'[p] = "load"
    BY <1>3 DEF Goes, NumberInv, Simple
  <2>3. Coming(p)' = 1
    <3>1. ComingAt("load", <<"reg">>) = Len(<<"reg">>)
      BY ComingAtFacts
    <3>2. QED
      BY <2>1, <2>2, <3>1, TodosFacts DEF Coming
  <2>4. Coming(p) \in 1 .. 2
    <3>1. todo[p] # << >> /\ Len(todo[p]) = 2
      BY <1>3, TodosFacts
    <3>2. ComingAt("check", todo[p]) = Len(todo[p])
      BY ComingAtFacts
    <3>3. ComingAt("see", todo[p]) = Len(todo[p]) - 1
      BY <3>1, ComingAtFacts
    <3>4. QED
      BY <3>1, <3>2, <3>3 DEF Coming
  <2>5. NamedBy(Len(commits))'
    BY <1>3, NamesStay
  <2>6. "load" \in Step \ {"idle"} /\ "load" \notin Revising \cup {"see", "seal"}
    BY DEF Step, Revising, Changed
  <2>7. pc[p] # "idle" /\ Coming(p)' \in 0 .. Coming(p)
    BY <2>3, <2>4
  <2>8. QED
    BY <1>3, <2>1, <2>5, <2>6, <2>7, NumberGoes DEF NumberInv, Simple
<1>4. QED
  BY <1>1, <1>2, <1>3, ProceedsFacts DEF Todos

LEMMA NumberWriteLegacy ==
  ASSUME NumberInv, NEW p \in Proc, WriteLegacy(p)
  PROVE  NumberInv'
<1>1. files' \in [Machine -> Files]
  BY PutIsFiles DEF WriteLegacy, NumberInv, Simple
<1>2. QED
  BY <1>1, ViewTypes, NumberProceeds DEF WriteLegacy

LEMMA NumberSee ==
  ASSUME NumberInv, NEW p \in Proc, See(p)
  PROVE  NumberInv'
<1>1. at[p] \in Machine /\ base[p] \in Manifests(Len(commits))
  BY RunFacts DEF RunInv, See
<1>2. view' \in [Machine -> [Wid -> [rev : Nat, wid : 0 .. Len(commits)]]]
  BY <1>1, RememberTypes DEF See
<1>3. QED
  BY <1>2, NumberProceeds DEF See, NumberInv, Simple

LEMMA NumberEndsOnly ==
  ASSUME NumberInv, NEW p \in Proc, Ends(p), faults' \in 0 .. MaxFaults,
         UNCHANGED <<files, man, view, arch, runs, commits>>
  PROVE  NumberInv'
BY NumberEnds DEF NumberInv, Simple, NamedBy

LEMMA NumberLoadRegistry ==
  ASSUME NumberInv, NEW p \in Proc, LoadRegistry(p)
  PROVE  NumberInv'
<1>0. CASE Ends(p)
  <2>1. faults' \in 0 .. MaxFaults
    BY DEF LoadRegistry, NumberInv, Simple
  <2>2. QED
    BY <1>0, <2>1, NumberEndsOnly DEF LoadRegistry
<1> SUFFICES ASSUME ~ Ends(p)
             PROVE  NumberInv'
  BY <1>0
<1>1. /\ pc[p] = "load" /\ Goes(p, "check") /\ snap' = [snap EXCEPT ![p] = files[at[p]]]
      /\ UNCHANGED <<files, man, view, arch, item, todo, base, pack, runs, faults, commits>>
  BY DEF LoadRegistry
<1>2. op[p] # None /\ todo[p] \in Todos
  BY <1>1, RunFacts DEF RunInv
<1>3. /\ snap' \in [Proc -> Files] /\ \A q \in Proc \ {p} : snap'[q] = snap[q]
  BY <1>1, <1>2, RunFacts DEF NumberInv, Simple
<1>4. Coming(p)' = Coming(p) /\ Coming(p) \in 0 .. 2
  <2>1. pc'[p] = "check"
    BY <1>1 DEF Goes, NumberInv, Simple
  <2>2. QED
    BY <1>1, <2>1, ComingAtFacts, ComingFacts DEF Coming
<1>5. NamedBy(Len(commits))'
  BY <1>1, NamesStay, ViewTypes
<1>6. "check" \in Step \ {"idle"} /\ "check" \notin Revising \cup {"see", "seal"}
  BY DEF Step, Revising, Changed
<1>7. /\ files' \in [Machine -> Files] /\ todo' \in [Proc -> Plans]
      /\ commits' \in Seq(Files) /\ Coming(p)' \in 0 .. Coming(p)
  BY <1>1, <1>4 DEF NumberInv, Simple
<1>8. QED
  BY <1>1, <1>2, <1>3, <1>5, <1>6, <1>7, NumberGoes

LEMMA NumberCheck ==
  ASSUME NumberInv, NEW p \in Proc, Check(p)
  PROVE  NumberInv'
<1> DEFINE m == at[p]
<1>1. /\ pc[p] = "check" /\ man[m] # NoManifest /\ base' = [base EXCEPT ![p] = man[m]]
      /\ Remember(m, man[m]) /\ Goes(p, "mutate")
      /\ UNCHANGED <<files, man, arch, item, todo, snap, pack, runs, faults, commits>>
  BY DEF Check
<1>2. op[p] # None /\ todo[p] \in Todos
  BY <1>1, RunFacts DEF RunInv
<1>3. m \in Machine /\ man[m] \in Manifests(Len(commits))
  BY <1>2, RunFacts
<1>4. view' \in [Machine -> [Wid -> [rev : Nat, wid : 0 .. Len(commits)]]]
  BY <1>1, <1>3, RememberTypes
<1>5. /\ base' \in [Proc -> Manifests(Len(commits))] /\ base'[p] # NoManifest
      /\ \A q \in Proc \ {p} : base'[q] = base[q]
  BY <1>1, <1>3 DEF NumberInv, NamedBy
<1>6. NamedBy(Len(commits))'
  BY <1>1, <1>4, <1>5 DEF NumberInv, NamedBy
<1>7. Coming(p)' \in 0 .. Coming(p)
  <2>1. pc'[p] = "mutate" /\ "mutate" \in Revising
    BY <1>1 DEF Goes, NumberInv, Simple, Revising
  <2>2. QED
    BY <1>1, <2>1, ComingAtFacts, ComingFacts DEF Coming
<1>8. "mutate" \in Step \ {"idle"}
  BY DEF Step
<1>9. QED
  BY <1>1, <1>2, <1>5, <1>6, <1>7, <1>8, NumberGoes DEF NumberInv, Simple

LEMMA NumberMutate ==
  ASSUME NumberInv, NEW p \in Proc, Mutate(p)
  PROVE  NumberInv'
<1>1. /\ pc[p] = "mutate" /\ files' = [files EXCEPT ![at[p]] = Put(p)] /\ Goes(p, "reread")
      /\ UNCHANGED <<man, view, arch, item, todo, base, snap, pack, runs, faults, commits>>
  BY DEF Mutate
<1>2. op[p] # None /\ todo[p] \in Todos /\ base[p] # NoManifest
  BY <1>1, RunFacts DEF RunInv, Revising
<1>3. files' \in [Machine -> Files]
  BY <1>1, PutIsFiles DEF NumberInv, Simple
<1>4. NamedBy(Len(commits))'
  BY <1>1, NamesStay, ViewTypes
<1>5. Coming(p)' \in 0 .. Coming(p)
  <2>1. pc'[p] = "reread" /\ {"mutate", "reread"} \subseteq Revising
    BY <1>1 DEF Goes, NumberInv, Simple, Revising, Changed
  <2>2. QED
    BY <1>1, <2>1, ComingAtFacts, ComingFacts DEF Coming
<1>6. "reread" \in Step \ {"idle"}
  BY DEF Step
<1>7. /\ snap' \in [Proc -> Files] /\ todo' \in [Proc -> Plans] /\ commits' \in Seq(Files)
  BY <1>1 DEF NumberInv, Simple
<1>8. QED
  BY <1>1, <1>2, <1>3, <1>4, <1>5, <1>6, <1>7, NumberGoes

LEMMA NumberReread ==
  ASSUME NumberInv, NEW p \in Proc, Reread(p)
  PROVE  NumberInv'
<1> DEFINE d == man[at[p]]
<1>1. /\ pc[p] = "reread" /\ UNCHANGED <<files, man, view, arch, runs, faults, commits>>
  BY DEF Reread
<1>2. op[p] # None /\ todo[p] \in Todos /\ base[p] # NoManifest
  BY <1>1, RunFacts DEF RunInv, Revising, Changed
<1>3. d \in Manifests(Len(commits)) /\ base[p] \in Manifests(Len(commits))
  BY <1>2, RunFacts
<1>4. CASE ~ SameTip(d, base[p])
  <2>1. Ends(p) /\ faults' \in 0 .. MaxFaults
    BY <1>4 DEF Reread, NumberInv, Simple
  <2>2. QED
    BY <1>1, <2>1, NumberEndsOnly
<1>5. CASE SameTip(d, base[p])
  <2>1. /\ base' = [base EXCEPT ![p] = d] /\ Goes(p, "digest")
        /\ UNCHANGED <<item, todo, snap, pack>>
    BY <1>5 DEF Reread
  <2>2. d # NoManifest
    <3>1. Len(commits) \in Nat /\ base[p].wid # 0
      BY <1>2, <1>3, ManifestsFacts DEF NumberInv, Simple
    <3>2. QED
      BY <1>5, <3>1, RecordTypes DEF SameTip
  <2>3. /\ base' \in [Proc -> Manifests(Len(commits))] /\ base'[p] # NoManifest
        /\ \A q \in Proc \ {p} : base'[q] = base[q]
    BY <1>3, <2>1, <2>2 DEF NumberInv, NamedBy
  <2>4. NamedBy(Len(commits))'
    BY <1>1, <2>1, <2>3 DEF NumberInv, NamedBy
  <2>5. Coming(p)' \in 0 .. Coming(p)
    <3>1. pc'[p] = "digest" /\ {"reread", "digest"} \subseteq Revising
      BY <2>1 DEF Goes, NumberInv, Simple, Revising, Changed
    <3>2. QED
      BY <1>1, <2>1, <3>1, ComingAtFacts, ComingFacts DEF Coming
  <2>6. "digest" \in Step \ {"idle"}
    BY DEF Step
  <2>7. /\ files' \in [Machine -> Files] /\ snap' \in [Proc -> Files]
        /\ todo' \in [Proc -> Plans] /\ commits' \in Seq(Files)
    BY <1>1, <2>1 DEF NumberInv, Simple
  <2>8. QED
    BY <1>1, <1>2, <2>1, <2>3, <2>4, <2>5, <2>6, <2>7, NumberGoes
<1>6. QED
  BY <1>4, <1>5

LEMMA NumberDigest ==
  ASSUME NumberInv, NEW p \in Proc, Digest(p)
  PROVE  NumberInv'
<1>1. /\ pc[p] = "digest" /\ Goes(p, "commit") /\ snap' = [snap EXCEPT ![p] = files[at[p]]]
      /\ UNCHANGED <<files, man, view, arch, item, todo, base, pack, runs, faults, commits>>
  BY DEF Digest
<1>2. op[p] # None /\ todo[p] \in Todos /\ base[p] # NoManifest
  BY <1>1, RunFacts DEF RunInv, Revising, Changed
<1>3. /\ snap' \in [Proc -> Files] /\ \A q \in Proc \ {p} : snap'[q] = snap[q]
  BY <1>1, <1>2, RunFacts DEF NumberInv, Simple
<1>4. NamedBy(Len(commits))'
  BY <1>1, NamesStay, ViewTypes
<1>5. Coming(p)' \in 0 .. Coming(p)
  <2>1. pc'[p] = "commit" /\ {"digest", "commit"} \subseteq Revising
    BY <1>1 DEF Goes, NumberInv, Simple, Revising, Changed
  <2>2. QED
    BY <1>1, <2>1, ComingAtFacts, ComingFacts DEF Coming
<1>6. "commit" \in Step \ {"idle"}
  BY DEF Step
<1>7. /\ files' \in [Machine -> Files] /\ todo' \in [Proc -> Plans] /\ commits' \in Seq(Files)
  BY <1>1 DEF NumberInv, Simple
<1>8. QED
  BY <1>1, <1>2, <1>3, <1>4, <1>5, <1>6, <1>7, NumberGoes

(* A commit takes the lowest number that its command has before it.        *)
LEMMA CountCommit ==
  ASSUME NumberInv, NEW p \in Proc, \A q \in Proc \ {p} : Same(q), op[p] # None,
         runs' = runs, commits' \in Seq(Files), Len(commits') = Len(commits) + 1,
         item'[p] = item[p], Coming(p) # 0, Coming(p)' \in 0 .. (Coming(p) - 1)
  PROVE  Counted'
<1> DEFINE x == 2 * item[p] + 2 - Coming(p)
<1>1. \A q \in Proc \ {p} : Reserved(q)' = Reserved(q)
  BY DEF Same, Reserved, Coming
<1>2. Coming(p) \in 0 .. 2 /\ item[p] \in Nat /\ runs \in Nat
  BY ComingFacts DEF NumberInv, Simple
<1>3. /\ x \in Reserved(p) /\ x \in 1 .. (2 * runs' + 1)
      /\ x \in {2 * item[p], 2 * item[p] + 1}
  BY ReservedFacts
<1>4. x \notin Reserved(p)' /\ \A y \in Reserved(p)' : y \in Reserved(p)
  BY <1>2 DEF Reserved
<1>5. ASSUME NEW q \in Proc \ {p}
      PROVE  x \notin Reserved(q)'
  <2>1. CASE op[q] = None
    BY <1>1, <2>1, ReservedFacts, ComingFacts
  <2>2. CASE op[q] # None
    <3>1. item[q] # item[p] /\ item[q] \in Nat
      BY <2>2 DEF NumberInv, RunsApart, Simple
    <3>2. x \notin {2 * item[q], 2 * item[q] + 1}
      BY <1>2, <1>3, <3>1
    <3>3. QED
      BY <1>1, <3>2, ReservedFacts
  <2>3. QED
    BY <2>1, <2>2
<1> HIDE DEF x
<1>6. \A q \in Proc : \A y \in Reserved(q)' : y \in Reserved(q)
  BY <1>1, <1>4
<1>7. QED
  BY <1>2, <1>3, <1>4, <1>5, <1>6, CountStep

LEMMA NumberCommit ==
  ASSUME NumberInv, NEW p \in Proc, Commit(p)
  PROVE  NumberInv'
<1> DEFINE n == Len(commits)
           k == Len(commits) + 1
           d == NextRevision(p)
<1>1. /\ pc[p] = "commit" /\ man' = [man EXCEPT ![at[p]] = d]
      /\ base' = [base EXCEPT ![p] = d]
      /\ commits' = Append(commits, Written(commits[base[p].wid], todo[p][1], item[p]))
      /\ Goes(p, "see")
      /\ UNCHANGED <<files, view, arch, item, todo, snap, pack, runs, faults>>
  BY DEF Commit
<1>2. /\ op[p] # None /\ todo[p] \in Todos /\ base[p] # NoManifest
      /\ base[p] \in Manifests(n) /\ n \in Nat /\ snap[p] \in Files /\ item[p] \in Item
  BY <1>1, RunFacts DEF RunInv, Revising, Changed, NumberInv, Simple
<1>3. base[p] \in [fid : 1 .. n, rev : Nat, wid : 1 .. n, sum : SUBSET Files]
  BY <1>2 DEF Manifests
<1>4. d \in [fid : 1 .. k, rev : Nat, wid : 1 .. k, sum : SUBSET Files]
  <2>1. /\ base[p].fid \in 1 .. k /\ base[p].rev + 1 \in Nat /\ k \in 1 .. k
        /\ {snap[p]} \in SUBSET Files
    BY <1>2, <1>3
  <2>2. d = [base[p] EXCEPT !.rev = base[p].rev + 1, !.wid = k, !.sum = {snap[p]}]
    BY DEF NextRevision
  <2> HIDE DEF d, k
  <2>3. d = [fid |-> base[p].fid, rev |-> base[p].rev + 1, wid |-> k, sum |-> {snap[p]}]
    BY <1>3, <2>2
  <2>4. QED
    BY <2>1, <2>3
<1>5. d \in Manifests(k) /\ d # NoManifest
  BY <1>2, <1>4 DEF Manifests, NoManifest
<1>6. commits' \in Seq(Files) /\ Len(commits') = k
  <2>1. commits[base[p].wid] \in Files
    BY <1>2, <1>3 DEF NumberInv, Simple
  <2>2. todo[p][1] \in {"reg", "log", "bump"}
    BY <1>2, PlanFacts DEF Todos
  <2>3. Written(commits[base[p].wid], todo[p][1], item[p]) \in Files
    BY <1>2, <2>1, <2>2 DEF Written, Files
  <2>4. QED
    BY <1>1, <2>3 DEF NumberInv, Simple
<1>7. NamedBy(k) /\ k \in Nat
  BY <1>2, NamesKept
<1> HIDE DEF d, k
<1>8. /\ man' \in [Machine -> Manifests(k)] /\ base' \in [Proc -> Manifests(k)]
      /\ base'[p] # NoManifest /\ \A q \in Proc \ {p} : base'[q] = base[q]
  BY <1>1, <1>5, <1>7 DEF NamedBy
<1>9. NamedBy(Len(commits))'
  BY <1>1, <1>6, <1>7, <1>8 DEF NamedBy
<1>10. /\ pc'[p] = "see" /\ \A q \in Proc \ {p} : Same(q)
  BY <1>1, <1>8 DEF Goes, Same, NumberInv, Simple
<1>11. Coming(p) = Len(todo[p]) /\ Len(todo[p]) \in 1 .. 2
  BY <1>1, ComingFacts DEF Revising, Changed
<1>12. Coming(p)' = Len(todo[p]) - 1
  <2>1. todo[p] # << >>
    BY <1>2, TodosFacts
  <2>2. QED
    BY <1>1, <1>10, <2>1, ComingAtFacts DEF Coming
<1>13. Counted'
  <2>1. Coming(p) # 0 /\ Coming(p)' \in 0 .. (Coming(p) - 1)
    <3>1. CASE Len(todo[p]) = 1
      BY <1>11, <1>12, <3>1
    <3>2. CASE Len(todo[p]) = 2
      BY <1>11, <1>12, <3>2
    <3>3. QED
      BY <1>11, <3>1, <3>2
  <2>2. QED
    BY <1>1, <1>2, <1>6, <1>10, <2>1, CountCommit DEF k
<1>14. "see" \in Step \ {"idle"} /\ "see" \notin Revising \cup {"load", "check"}
  BY DEF Step, Revising, Changed
<1>15. /\ files' \in [Machine -> Files] /\ snap' \in [Proc -> Files]
       /\ todo' \in [Proc -> Plans]
  BY <1>1 DEF NumberInv, Simple
<1>16. Len(commits') # Len(commits)
  BY <1>2, <1>6 DEF k
<1>17. QED
  BY <1>1, <1>2, <1>6, <1>8, <1>9, <1>13, <1>14, <1>15, <1>16, NumberGoes

-----------------------------------------------------------------------------
(* A command begins with the next two numbers.                             *)
LEMMA CountBegin ==
  ASSUME NumberInv, NEW p \in Proc, \A q \in Proc \ {p} : Reserved(q)' = Reserved(q),
         runs' = runs + 1, item'[p] = runs + 1, commits' \in Seq(Files),
         \/ Len(commits') = Len(commits) /\ Coming(p)' \in 0 .. 2
         \/ Len(commits') = Len(commits) + 1 /\ Coming(p)' = 0
  PROVE  Counted'
<1>1. runs \in Nat /\ runs' >= runs /\ runs' \in Nat
  BY DEF NumberInv, Simple
<1>2. \A y \in Reserved(p)' : y > 2 * runs + 1
  BY <1>1 DEF Reserved
<1>3. \A q \in Proc : \A y \in Reserved(q)' : y <= 2 * runs + 1 => y \in Reserved(q)
  <2> SUFFICES ASSUME NEW q \in Proc, NEW y \in Reserved(q)', y <= 2 * runs + 1
               PROVE  y \in Reserved(q)
    OBVIOUS
  <2>1. CASE q = p
    <3>1. y > 2 * runs + 1 /\ y \in Int
      BY <1>2, <2>1 DEF Reserved
    <3>2. QED
      BY <1>1, <3>1
  <2>2. QED
    BY <2>1
<1>4. CASE Len(commits') = Len(commits) /\ Coming(p)' \in 0 .. 2
  BY <1>1, <1>3, <1>4, CountStep
<1>5. CASE Len(commits') = Len(commits) + 1 /\ Coming(p)' = 0
  <2> DEFINE x == 2 * runs + 3
  <2>1. x \in 1 .. (2 * runs' + 1) /\ x > 2 * runs + 1
    BY <1>1
  <2>2. Reserved(p)' = {}
    BY <1>1, <1>5 DEF Reserved
  <2>3. \A q \in Proc : x \notin Reserved(q)'
    <3> SUFFICES ASSUME NEW q \in Proc \ {p}
                 PROVE  x \notin Reserved(q)
      BY <2>2
    <3>1. \A y \in Reserved(q) : y \in 1 .. (2 * runs + 1)
      BY ReservedFacts
    <3>2. x \notin 1 .. (2 * runs + 1)
      BY <1>1
    <3>3. QED
      BY <3>1, <3>2
  <2> HIDE DEF x
  <2>4. QED
    BY <1>1, <1>3, <1>5, <2>1, <2>3, CountStep
<1>6. QED
  BY <1>4, <1>5

LEMMA NumberBegins ==
  ASSUME NumberInv, NEW p \in Proc, NEW m \in Machine,
         NEW c \in Locked \cup {"init", "export", "import"},
         NEW writes \in Plans, NEW first \in Step \ {"idle"},
         Begins(p, m, c, writes, first), UNCHANGED <<files, faults>>,
         \/ lock' = lock
         \/ lock[m] = None /\ lock' = [lock EXCEPT ![m] = p],
         snap' \in [Proc -> Files], commits' \in Seq(Files), NamedBy(Len(commits))',
         \A q \in Proc \ {p} :
           base'[q] = base[q] /\ snap'[q] = snap[q] /\ pack'[q] = pack[q],
         first \in {"seal"} => base'[p] # NoManifest,
         first \notin Revising \cup {"see"},
         first \in {"load", "check"} => writes \in Todos,
         first = "install" => writes \in Installing,
         first = "seal" => writes = << >>,
         \/ Len(commits') = Len(commits) /\ ComingAt(first, writes) \in 0 .. 2
         \/ Len(commits') = Len(commits) + 1 /\ ComingAt(first, writes) = 0
  PROVE  NumberInv'
<1>1. /\ op[p] = None /\ runs \in 0 .. MaxRuns /\ runs < MaxRuns /\ runs' = runs + 1
      /\ MaxRuns \in Nat /\ c # None
  BY Constants, ConstantsAssumption DEF Begins, NumberInv, Simple
<1>2. runs' \in 0 .. MaxRuns /\ 0 .. runs \subseteq 0 .. runs' /\ runs + 1 \in 0 .. runs'
      /\ runs \in Nat
  BY <1>1
<1>3. /\ at'[p] = m /\ pc'[p] = first /\ op'[p] = c /\ todo'[p] = writes
      /\ item'[p] = runs + 1
      /\ \A q \in Proc \ {p} : Same(q)
      /\ at' \in [Proc -> Machine \cup {None}] /\ pc' \in [Proc -> Step]
      /\ op' \in [Proc -> Locked \cup {"init", "export", "import", None}]
      /\ todo' \in [Proc -> Plans]
  BY DEF Begins, Same, NumberInv, Simple
<1>4. item' \in [Proc -> 0 .. runs']
  <2> DEFINE I == 0 .. runs'
  <2>1. item \in [Proc -> I] /\ runs + 1 \in I
    BY <1>2 DEF NumberInv, Simple
  <2> HIDE DEF I
  <2>2. item' \in [Proc -> I]
    BY <2>1 DEF Begins
  <2>3. QED
    BY <2>2 DEF I
<1>5. lock' \in [Machine -> Proc \cup {None}]
  BY DEF NumberInv, Simple
<1>6. Simple'
  BY <1>2, <1>3, <1>4, <1>5 DEF NumberInv, Simple
<1>7. LockLives'
  <2> SUFFICES ASSUME NEW n \in Machine, lock'[n] # None
               PROVE  at'[lock'[n]] = n
    BY DEF LockLives
  <2>1. CASE n = m /\ lock'[m] = p
    BY <1>3, <2>1
  <2>2. CASE ~ (n = m /\ lock'[m] = p)
    <3>1. lock'[n] = lock[n]
      BY <2>2 DEF NumberInv, Simple
    <3>2. lock[n] \in Proc /\ at[lock[n]] = n
      BY <3>1 DEF NumberInv, Simple, LockLives
    <3>3. lock[n] # p
      BY <1>1, <3>2, Constants DEF NumberInv, RunInv
    <3>4. QED
      BY <1>3, <3>1, <3>2, <3>3 DEF Same
  <2>3. QED
    BY <2>1, <2>2
<1>8. RunsApart'
  <2>1. \A q \in Proc \ {p} : op'[q] = op[q] /\ item'[q] = item[q] /\ item'[q] \in 0 .. runs
    BY <1>3 DEF Same, NumberInv, Simple
  <2>2. runs + 1 \notin 0 .. runs
    BY <1>2
  <2>3. QED
    BY <1>3, <2>1, <2>2 DEF NumberInv, RunsApart
<1>9. RunInv(p)'
  <2>1. runs + 1 # 0 /\ first # "idle" /\ m # None
    BY <1>2, Constants
  <2>2. QED
    BY <1>1, <1>3, <2>1 DEF RunInv
<1>10. Counted'
  <2>1. Coming(p)' = ComingAt(first, writes)
    BY <1>3 DEF Coming
  <2>2. \A q \in Proc \ {p} : Reserved(q)' = Reserved(q)
    BY <1>3 DEF Same, Reserved, Coming
  <2>3. QED
    BY <1>1, <1>3, <2>1, <2>2, CountBegin
<1>11. QED
  BY <1>3, <1>6, <1>7, <1>8, <1>9, <1>10, OthersStay DEF NumberInv

LEMMA NumberStart ==
  ASSUME NumberInv, NEW p \in Proc, NEW m \in Machine, Start(p, m)
  PROVE  NumberInv'
<1>1. PICK c \in Locked :
        /\ lock[m] = None
        /\ Begins(p, m, c, Writes(c), FirstStep(Writes(c)[1]))
        /\ lock' = [lock EXCEPT ![m] = p]
        /\ UNCHANGED <<files, man, view, arch, base, snap, pack, faults, commits>>
  BY DEF Start
<1> DEFINE first == FirstStep(Writes(c)[1])
           writes == Writes(c)
<1>2. first \in {"load", "check"} /\ writes \in Todos
  BY PlanFacts DEF Locked, Writes, FirstStep, Todos
<1> HIDE DEF first, writes
<1>3. /\ first \in Step \ {"idle"} /\ first \notin Revising \cup {"see", "seal", "install"}
      /\ writes \in Plans
  BY <1>2, TodosFacts DEF Step, Revising, Changed
<1>4. ComingAt(first, writes) \in 0 .. 2
  <2>1. ComingAt(first, writes) = Len(writes)
    BY <1>2, ComingAtFacts
  <2>2. Len(writes) \in 1 .. 2
    BY <1>2, TodosFacts
  <2>3. QED
    BY <2>1, <2>2
<1>5. NamedBy(Len(commits))'
  BY <1>1, NamesStay, ViewTypes
<1>6. snap' \in [Proc -> Files] /\ commits' \in Seq(Files) /\ Len(commits') = Len(commits)
  BY <1>1 DEF NumberInv, Simple
<1>7. /\ Begins(p, m, c, writes, first)
      /\ \A q \in Proc \ {p} :
           base'[q] = base[q] /\ snap'[q] = snap[q] /\ pack'[q] = pack[q]
  BY <1>1 DEF first, writes
<1>8. QED
  BY <1>1, <1>2, <1>3, <1>4, <1>5, <1>6, <1>7, NumberBegins

LEMMA NumberBeginInit ==
  ASSUME NumberInv, NEW p \in Proc, NEW m \in Machine, BeginInit(p, m)
  PROVE  NumberInv'
<1> DEFINE k == Len(commits) + 1
<1> PICK d : d = [fid |-> k, rev |-> 1, wid |-> k, sum |-> {}]
  OBVIOUS
<1>1. /\ Begins(p, m, "init", << >>, "seal")
      /\ man' = [man EXCEPT ![m] = d] /\ base' = [base EXCEPT ![p] = d]
      /\ commits' = Append(commits, files[m])
      /\ UNCHANGED <<files, view, lock, arch, snap, pack, faults>>
  BY DEF BeginInit
<1>2. k \in Nat /\ k \in 1 .. k /\ NamedBy(k)
  BY NamesKept DEF NumberInv, Simple
<1>3. d \in Manifests(k) /\ d # NoManifest
  BY <1>2 DEF Manifests, NoManifest
<1>4. commits' \in Seq(Files) /\ Len(commits') = k
  BY <1>1 DEF NumberInv, Simple
<1>5. Len(commits') = Len(commits) + 1
  BY <1>4
<1> HIDE DEF k
<1>6. /\ man' \in [Machine -> Manifests(k)] /\ base' \in [Proc -> Manifests(k)]
      /\ base'[p] # NoManifest /\ \A q \in Proc \ {p} : base'[q] = base[q]
  BY <1>1, <1>2, <1>3 DEF NamedBy
<1>7. NamedBy(Len(commits))'
  BY <1>1, <1>2, <1>4, <1>6 DEF NamedBy
<1>8. /\ "seal" \in Step \ {"idle"} /\ "seal" \notin Revising \cup {"see"}
      /\ << >> \in Plans /\ ComingAt("seal", << >>) = 0
  BY ComingAtFacts, TodosFacts DEF Step, Revising, Changed
<1>9. snap' \in [Proc -> Files]
  BY <1>1 DEF NumberInv, Simple
<1>10. QED
  BY <1>1, <1>4, <1>5, <1>6, <1>7, <1>8, <1>9, NumberBegins

LEMMA NumberBeginExport ==
  ASSUME NumberInv, NEW p \in Proc, NEW m \in Machine, BeginExport(p, m)
  PROVE  NumberInv'
<1>1. /\ Begins(p, m, "export", << >>, "pack man")
      /\ UNCHANGED <<files, man, view, lock, arch, base, snap, pack, faults, commits>>
  BY DEF BeginExport
<1>2. /\ "pack man" \in Step \ {"idle"} /\ "pack man" \notin Revising \cup {"see"}
      /\ << >> \in Plans /\ ComingAt("pack man", << >>) = 0
  BY ComingAtFacts, TodosFacts DEF Step, Revising, Changed, Packing
<1>3. NamedBy(Len(commits))'
  BY <1>1, NamesStay, ViewTypes
<1>4. snap' \in [Proc -> Files] /\ commits' \in Seq(Files) /\ Len(commits') = Len(commits)
  BY <1>1 DEF NumberInv, Simple
<1>5. ComingAt("pack man", << >>) \in 0 .. 2
  BY <1>2, NoneComing, Zenon
<1>6. QED
  BY <1>1, <1>2, <1>3, <1>4, <1>5, NumberBegins

LEMMA NumberBeginImport ==
  ASSUME NumberInv, NEW p \in Proc, NEW m \in Machine, BeginImport(p, m)
  PROVE  NumberInv'
<1>1. PICK a \in arch :
        /\ Begins(p, m, "import", Members(a) \o <<"bump">>, "install")
        /\ pack' = [pack EXCEPT ![p] = a] /\ base' = [base EXCEPT ![p] = man[m]]
        /\ snap' = [snap EXCEPT ![p] = files[m]]
        /\ UNCHANGED <<files, man, view, lock, arch, faults, commits>>
  BY DEF BeginImport
<1> DEFINE writes == Members(a) \o <<"bump">>
<1>2. writes \in Installing
  BY MembersFacts DEF Installing
<1>3. /\ pack' \in [Proc -> [man : Manifests(Len(commits)), files : Files]]
      /\ base' \in [Proc -> Manifests(Len(commits))] /\ snap' \in [Proc -> Files]
      /\ \A q \in Proc \ {p} :
           base'[q] = base[q] /\ snap'[q] = snap[q] /\ pack'[q] = pack[q]
  BY <1>1 DEF NumberInv, Simple, NamedBy
<1>4. NamedBy(Len(commits))'
  BY <1>1, <1>3 DEF NumberInv, NamedBy
<1>5. commits' \in Seq(Files) /\ Len(commits') = Len(commits)
  BY <1>1 DEF NumberInv, Simple
<1> HIDE DEF writes
<1>6. /\ "install" \in Step \ {"idle"}
      /\ "install" \notin Revising \cup {"see", "seal", "load", "check"}
      /\ ComingAt("install", writes) \in 0 .. 2 /\ writes \in Plans
  BY <1>2, ComingAtFacts, TodosFacts DEF Step, Revising, Changed
<1>7. Begins(p, m, "import", writes, "install")
  BY <1>1 DEF writes
<1>8. QED
  BY <1>1, <1>2, <1>3, <1>4, <1>5, <1>6, <1>7, NumberBegins

LEMMA NumberSeal ==
  ASSUME NumberInv, NEW p \in Proc, Seal(p)
  PROVE  NumberInv'
<1> DEFINE n == Len(commits)
           d == [base[p] EXCEPT !.sum = {files[at[p]]}]
<1>1. /\ pc[p] = "seal" /\ man' = [man EXCEPT ![at[p]] = d] /\ base' = [base EXCEPT ![p] = d]
      /\ commits' = [commits EXCEPT ![d.wid] = files[at[p]]] /\ Goes(p, "see")
      /\ UNCHANGED <<files, view, arch, item, todo, snap, pack, runs, faults>>
  BY DEF Seal
<1>2. op[p] # None /\ todo[p] = << >> /\ base[p] # NoManifest
  BY <1>1, RunFacts DEF RunInv
<1>3. files[at[p]] \in Files /\ base[p] \in Manifests(n) /\ n \in Nat
  BY <1>2, RunFacts DEF NumberInv, Simple
<1>4. base[p] \in [fid : 1 .. n, rev : Nat, wid : 1 .. n, sum : SUBSET Files]
  BY <1>2, <1>3 DEF Manifests
<1>5. d \in [fid : 1 .. n, rev : Nat, wid : 1 .. n, sum : SUBSET Files]
  <2> DEFINE I == 1 .. n
             b == base[p]
             f == {files[at[p]]}
  <2>1. f \in SUBSET Files
    BY <1>3
  <2>2. b \in [fid : I, rev : Nat, wid : I, sum : SUBSET Files]
    BY <1>4
  <2>3. d = [b EXCEPT !.sum = f]
    OBVIOUS
  <2> HIDE DEF d, n, I, b, f
  <2>4. d \in [fid : I, rev : Nat, wid : I, sum : SUBSET Files]
    BY <2>1, <2>2, <2>3
  <2>5. QED
    BY <2>4 DEF I
<1> HIDE DEF d
<1>6. d \in Manifests(n) /\ d # NoManifest
  BY <1>3, <1>5 DEF Manifests, NoManifest
<1>7. commits' \in Seq(Files) /\ Len(commits') = n
  BY <1>1, <1>3, <1>5 DEF NumberInv, Simple
<1>8. /\ man' \in [Machine -> Manifests(n)] /\ base' \in [Proc -> Manifests(n)]
      /\ base'[p] # NoManifest /\ \A q \in Proc \ {p} : base'[q] = base[q]
  BY <1>1, <1>6 DEF NumberInv, NamedBy
<1>9. NamedBy(Len(commits))'
  BY <1>1, <1>7, <1>8 DEF NumberInv, NamedBy
<1>10. Coming(p)' = 0 /\ Coming(p) \in 0 .. 2
  <2>1. pc'[p] = "see"
    BY <1>1 DEF Goes, NumberInv, Simple
  <2>2. QED
    BY <1>1, <1>2, <2>1, ComingAtFacts, ComingFacts DEF Coming
<1>11. "see" \in Step \ {"idle"} /\ "see" \notin Revising \cup {"load", "check"}
  BY DEF Step, Revising, Changed
<1>12. /\ files' \in [Machine -> Files] /\ snap' \in [Proc -> Files]
       /\ todo' \in [Proc -> Plans] /\ Coming(p)' \in 0 .. Coming(p)
  BY <1>1, <1>10 DEF NumberInv, Simple
<1>13. QED
  BY <1>1, <1>2, <1>7, <1>8, <1>9, <1>11, <1>12, NumberGoes

LEMMA NumberPack ==
  ASSUME NumberInv, NEW p \in Proc, Pack(p)
  PROVE  NumberInv'
<1> DEFINE A == [man : Manifests(Len(commits)), files : Files]
<1> DEFINE Adds(s, a) ==
             /\ pack' = [pack EXCEPT ![p] = a] /\ Goes(p, s) /\ pc[p] \in Packing
             /\ \/ a = [pack[p] EXCEPT !.man = man[at[p]]]
                \/ a = [pack[p] EXCEPT !.files.reg = files[at[p]].reg]
<1>0. PICK s \in {"pack reg", "pack log"} : \E a : Adds(s, a)
  BY DEF Pack, Packing
<1>1. PICK a : Adds(s, a)
  BY <1>0
<1>2. UNCHANGED <<files, man, view, arch, item, todo, base, snap, runs, faults, commits>>
  BY DEF Pack
<1>3. op[p] # None /\ pc[p] # "idle"
  BY <1>1, RunFacts DEF RunInv, Packing
<1>4. /\ man[at[p]] \in Manifests(Len(commits)) /\ files[at[p]] \in Files /\ pack[p] \in A
  BY <1>3, RunFacts
<1>5. a \in A
  <2>1. CASE a = [pack[p] EXCEPT !.man = man[at[p]]]
    BY <1>4, <2>1
  <2>2. CASE a = [pack[p] EXCEPT !.files.reg = files[at[p]].reg]
    <3> DEFINE g == [pack[p].files EXCEPT !.reg = files[at[p]].reg]
    <3>1. g \in Files
      BY <1>4 DEF Files
    <3>2. a = [pack[p] EXCEPT !.files = g]
      BY <2>2
    <3> HIDE DEF g
    <3>3. QED
      BY <1>4, <3>1, <3>2
  <2>3. QED
    BY <1>1, <2>1, <2>2
<1>6. pack' \in [Proc -> A] /\ \A q \in Proc \ {p} : pack'[q] = pack[q]
  BY <1>1, <1>5 DEF NumberInv, NamedBy
<1>7. NamedBy(Len(commits))'
  BY <1>2, <1>6 DEF NumberInv, NamedBy
<1>8. /\ s \in Step \ {"idle"}
      /\ s \notin Revising \cup {"see", "seal", "load", "check", "install"}
      /\ s \in Packing
  BY DEF Step, Revising, Changed, Packing
<1>9. Coming(p)' = 0 /\ Coming(p) \in 0 .. 2
  <2>1. pc'[p] = s
    BY <1>1 DEF Goes, NumberInv, Simple
  <2>2. QED
    BY <1>8, <2>1, ComingAtFacts, ComingFacts DEF Coming
<1>10. /\ files' \in [Machine -> Files] /\ snap' \in [Proc -> Files]
       /\ todo' \in [Proc -> Plans] /\ commits' \in Seq(Files)
  BY <1>2 DEF NumberInv, Simple
<1>11. Coming(p)' \in 0 .. Coming(p)
  BY <1>9, NoneComing, Zenon
<1>12. QED
  BY <1>1, <1>2, <1>3, <1>6, <1>7, <1>8, <1>10, <1>11, NumberGoes

LEMMA NumberEndExport ==
  ASSUME NumberInv, NEW p \in Proc, EndExport(p)
  PROVE  NumberInv'
<1> DEFINE A == [man : Manifests(Len(commits)), files : Files]
<1> PICK a : a = [pack[p] EXCEPT !.files = WithLog(pack[p].files, files[at[p]])]
  OBVIOUS
<1>1. /\ arch' = arch \cup {a} /\ Ends(p) /\ op[p] # None
      /\ UNCHANGED <<files, man, view, runs, faults, commits>>
  BY RunFacts DEF EndExport, RunInv
<1>2. files[at[p]] \in Files /\ pack[p] \in A
  BY <1>1, RunFacts
<1>3. WithLog(pack[p].files, files[at[p]]) \in Files
  BY <1>2 DEF WithLog, Files
<1>4. a \in A
  BY <1>2, <1>3
<1>5. /\ arch' \subseteq A /\ faults' \in 0 .. MaxFaults
      /\ files' \in [Machine -> Files] /\ man' \in [Machine -> Manifests(Len(commits))]
      /\ view' \in [Machine -> [Wid -> [rev : Nat, wid : 0 .. Len(commits)]]]
  BY <1>1, <1>4 DEF NumberInv, Simple, NamedBy
<1>6. QED
  BY <1>1, <1>5, NumberEnds

LEMMA NumberInstall ==
  ASSUME NumberInv, NEW p \in Proc, Install(p)
  PROVE  NumberInv'
<1> DEFINE s == IF todo[p][2] = "bump" THEN "check" ELSE "install"
<1>1. /\ pc[p] = "install" /\ Installed(todo[p][1], at[p], pack[p])
      /\ todo' = [todo EXCEPT ![p] = Tail(todo[p])] /\ Goes(p, s)
      /\ UNCHANGED <<view, arch, item, base, snap, pack, runs, faults, commits>>
  BY DEF Install
<1>2. op[p] # None /\ todo[p] \in Installing
  BY <1>1, RunFacts DEF RunInv
<1>3. at[p] \in Machine /\ pack[p] \in [man : Manifests(Len(commits)), files : Files]
  BY <1>2, RunFacts
<1>4. files' \in [Machine -> Files] /\ man' \in [Machine -> Manifests(Len(commits))]
  BY <1>1, <1>3 DEF Installed, WithLog, Files, NumberInv, Simple, NamedBy
<1>5. \/ s = "check" /\ Tail(todo[p]) \in Todos
      \/ s = "install" /\ Tail(todo[p]) \in Installing
  BY <1>2, ImportPlans DEF Installing, Todos
<1>6. /\ todo' \in [Proc -> Plans] /\ \A q \in Proc \ {p} : todo'[q] = todo[q]
      /\ todo'[p] = Tail(todo[p])
  BY <1>1, <1>5, TodosFacts DEF NumberInv, Simple
<1>7. Coming(p) = 1
  BY <1>1, ComingAtFacts DEF Coming
<1>8. Coming(p)' = 1
  <2>1. pc'[p] = s
    BY <1>1 DEF Goes, NumberInv, Simple
  <2>2. CASE s = "install"
    BY <2>1, <2>2, ComingAtFacts DEF Coming
  <2>3. CASE s = "check"
    <3>1. Tail(todo[p]) = <<"bump">>
      BY <1>2, <2>3, ImportPlans DEF Installing
    <3>2. ComingAt("check", <<"bump">>) = Len(<<"bump">>)
      BY ComingAtFacts
    <3>3. QED
      BY <1>6, <2>1, <2>3, <3>1, <3>2, TodosFacts DEF Coming
  <2>4. QED
    BY <2>2, <2>3
<1>9. s \in Step \ {"idle"} /\ s \notin Revising \cup {"see", "seal", "load"}
  BY DEF Step, Revising, Changed
<1>10. NamedBy(Len(commits))'
  BY <1>1, <1>4 DEF NumberInv, NamedBy
<1>11. snap' \in [Proc -> Files] /\ commits' \in Seq(Files) /\ Coming(p)' \in 0 .. Coming(p)
  BY <1>1, <1>7, <1>8 DEF NumberInv, Simple
<1> HIDE DEF s
<1>12. QED
  BY <1>1, <1>4, <1>5, <1>6, <1>9, <1>10, <1>11, NumberGoes

LEMMA FaultsFacts ==
  ASSUME NumberInv, faults > 0, faults' = faults - 1
  PROVE  faults' \in 0 .. MaxFaults
<1>1. faults \in 0 .. MaxFaults
  BY DEF NumberInv, Simple
<1>2. MaxFaults \in Nat
  BY ConstantsAssumption
<1>3. QED
  BY <1>1, <1>2

LEMMA NumberInstallFails ==
  ASSUME NumberInv, NEW p \in Proc, InstallFails(p)
  PROVE  NumberInv'
<1>1. /\ pc[p] = "install" /\ faults' = faults - 1 /\ faults > 0 /\ PutBack(p) /\ Ends(p)
      /\ UNCHANGED <<view, arch, runs, commits>>
  BY DEF InstallFails
<1>2. op[p] # None
  BY <1>1, RunFacts DEF RunInv
<1>3. /\ at[p] \in Machine /\ base[p] \in Manifests(Len(commits)) /\ snap[p] \in Files
  BY <1>2, RunFacts
<1>4. files' \in [Machine -> Files] /\ man' \in [Machine -> Manifests(Len(commits))]
  BY <1>1, <1>3 DEF PutBack, Files, NumberInv, Simple, NamedBy
<1>5. faults' \in 0 .. MaxFaults
  BY <1>1, FaultsFacts
<1>6. /\ view' \in [Machine -> [Wid -> [rev : Nat, wid : 0 .. Len(commits)]]]
      /\ arch' \subseteq [man : Manifests(Len(commits)), files : Files]
  BY <1>1 DEF NumberInv, NamedBy
<1>7. QED
  BY <1>1, <1>4, <1>5, <1>6, NumberEnds

LEMMA NumberPutBackFails ==
  ASSUME NumberInv, NEW p \in Proc, PutBackFails(p)
  PROVE  NumberInv'
<1> DEFINE m == at[p]
           N == Manifests(Len(commits))
           logs == {WithLog(NoFiles, f) : f \in {snap[p], pack[p].files}}
                     \cup {[NoFiles EXCEPT !.logged = TRUE]}
<1>1. /\ pc[p] = "install" /\ faults' = faults - 1 /\ faults > 0 /\ Ends(p)
      /\ UNCHANGED <<view, arch, runs, commits>>
  BY DEF PutBackFails
<1>2. op[p] # None
  BY <1>1, RunFacts DEF RunInv
<1>3. /\ m \in Machine /\ base[p] \in N /\ snap[p] \in Files
      /\ pack[p] \in [man : N, files : Files] /\ files[m] \in Files
  BY <1>2, RunFacts
<1>4. PICK d \in {base[p], pack[p].man, Truncated(base[p])} : man' = [man EXCEPT ![m] = d]
  BY DEF PutBackFails
<1>5. Truncated(base[p]) \in N
  <2> DEFINE I == 1 .. Len(commits)
  <2>1. CASE base[p] = NoManifest
    <3>1. Truncated(NoManifest) = NoManifest
      BY DEF Truncated, NoManifest
    <3>2. QED
      BY <2>1, <3>1, ManifestsFacts
  <2>2. CASE base[p] # NoManifest
    <3>1. base[p] \in [fid : I, rev : Nat, wid : I, sum : SUBSET Files]
      BY <1>3, <2>2 DEF Manifests
    <3> HIDE DEF I
    <3>2. Truncated(base[p]) \in [fid : I, rev : Nat, wid : I, sum : SUBSET Files]
      BY <3>1 DEF Truncated
    <3>3. QED
      BY <3>2 DEF Manifests, I
  <2>3. QED
    BY <2>1, <2>2
<1>6. man' \in [Machine -> N]
  <2>1. d \in N
    BY <1>3, <1>4, <1>5
  <2>2. man \in [Machine -> N]
    BY DEF NumberInv, NamedBy
  <2> HIDE DEF N
  <2>3. QED
    BY <1>4, <2>1, <2>2
<1>7. files' \in [Machine -> Files]
  <2>1. PICK reg \in {snap[p].reg, pack[p].files.reg, {CutShort}}, f \in logs :
          files' = CASE todo[p][1] = "man" -> files
                     [] todo[p][1] = "reg" -> [files EXCEPT ![m].reg = reg]
                     [] OTHER -> [files EXCEPT ![m] = WithLog([files[m] EXCEPT !.reg = reg], f)]
    BY DEF PutBackFails
  <2>2. [NoFiles EXCEPT !.logged = TRUE] \in Files
    BY RecordTypes DEF Files
  <2>3. \A g \in Files : WithLog(NoFiles, g) \in Files
    BY RecordTypes DEF WithLog, Files
  <2>4. pack[p].files \in Files
    BY <1>3
  <2>5. f \in Files
    BY <1>3, <2>1, <2>2, <2>3, <2>4
  <2>6. reg \in SUBSET (Item \cup {CutShort})
    BY <1>3, <2>1, <2>4 DEF Files
  <2>7. [files[m] EXCEPT !.reg = reg] \in Files
    BY <1>3, <2>6 DEF Files
  <2>8. WithLog([files[m] EXCEPT !.reg = reg], f) \in Files
    BY <2>5, <2>7 DEF WithLog, Files
  <2>9. \/ files' = files
        \/ files' = [files EXCEPT ![m] = [files[m] EXCEPT !.reg = reg]]
        \/ files' = [files EXCEPT ![m] = WithLog([files[m] EXCEPT !.reg = reg], f)]
    BY <2>1
  <2>10. files \in [Machine -> Files]
    BY DEF NumberInv, Simple
  <2>11. QED
    BY <2>7, <2>8, <2>9, <2>10
<1>8. faults' \in 0 .. MaxFaults
  BY <1>1, FaultsFacts
<1>9. /\ view' \in [Machine -> [Wid -> [rev : Nat, wid : 0 .. Len(commits)]]]
      /\ arch' \subseteq [man : N, files : Files]
  BY <1>1 DEF NumberInv, NamedBy
<1>10. QED
  BY <1>1, <1>6, <1>7, <1>8, <1>9, NumberEnds

LEMMA NumberKill ==
  ASSUME NumberInv, NEW p \in Proc, Kill(p)
  PROVE  NumberInv'
<1>1. faults' \in 0 .. MaxFaults
  BY FaultsFacts DEF Kill
<1>2. QED
  BY <1>1, NumberEndsOnly DEF Kill

LEMMA NumberCheckFails ==
  ASSUME NumberInv, NEW p \in Proc, CheckFails(p)
  PROVE  NumberInv'
<1>1. faults' \in 0 .. MaxFaults
  BY DEF CheckFails, NumberInv, Simple
<1>2. QED
  BY <1>1, NumberEndsOnly DEF CheckFails

LEMMA NumberInit == Init => NumberInv
<1> SUFFICES ASSUME Init
             PROVE  NumberInv
  OBVIOUS
<1>1. PICK W \in {{}, Machine} : InitWith(W)
  BY DEF Init
<1>2. /\ commits = IF W = {} THEN << >> ELSE <<NoFiles>>
      /\ runs = 0 /\ Len(<<NoFiles>>) = 1 /\ Len(<< >>) = 0
      /\ NoFiles \in Files
  BY <1>1, RecordTypes DEF InitWith
<1>3. commits \in Seq(Files) /\ Len(commits) = IF W = {} THEN 0 ELSE 1
  BY <1>2
<1>4. Simple
  BY <1>1, <1>2, <1>3, ConstantsAssumption, TodosFacts DEF InitWith, Simple, Step
<1>5. NamedBy(Len(commits))
  <2>1. W # {} => Genesis \in Manifests(1)
    BY <1>2 DEF Genesis, Manifests
  <2>2. /\ NoManifest \in Manifests(Len(commits)) /\ Len(commits) \in Nat
        /\ W # {} => 1 \in 0 .. Len(commits)
    BY <1>3, ManifestsFacts
  <2>3. /\ man \in [Machine -> Manifests(Len(commits))]
        /\ base \in [Proc -> Manifests(Len(commits))]
    BY <1>1, <1>3, <2>1, <2>2 DEF InitWith
  <2>4. view \in [Machine -> [Wid -> [rev : Nat, wid : 0 .. Len(commits)]]]
    BY <1>1, <2>2 DEF InitWith, Unseen
  <2>5. pack \in [Proc -> [man : Manifests(Len(commits)), files : Files]] /\ arch = {}
    BY <1>1, <1>2, <2>2 DEF InitWith, NoArchive
  <2>6. QED
    BY <2>3, <2>4, <2>5 DEF NamedBy
<1>6. RunsApart /\ LockLives /\ \A p \in Proc : RunInv(p)
  BY <1>1 DEF InitWith, RunsApart, LockLives, RunInv, Revising, Changed
<1>7. Counted
  <2>1. \A p \in Proc : Reserved(p) = {}
    <3> SUFFICES ASSUME NEW p \in Proc
                 PROVE  Reserved(p) = {}
      OBVIOUS
    <3>1. Coming(p) = 0 /\ item[p] = 0
      BY <1>1, ComingAtFacts DEF InitWith, Coming
    <3>2. QED
      BY <3>1 DEF Reserved
  <2>2. Cardinality({}) = 0 /\ Cardinality({1}) = 1
    BY FS_EmptySet, FS_Singleton
  <2>3. {} \in SUBSET (1 .. (2 * runs + 1)) /\ {1} \in SUBSET (1 .. (2 * runs + 1))
    BY <1>2
  <2>4. QED
    BY <1>3, <2>1, <2>2, <2>3 DEF Counted
<1>8. QED
  BY <1>4, <1>5, <1>6, <1>7 DEF NumberInv

LEMMA NumberStep ==
  ASSUME NumberInv, [Next]_vars
  PROVE  NumberInv'
<1>1. CASE UNCHANGED vars
  BY <1>1 DEF vars, local, NumberInv, Simple, NamedBy, RunsApart, LockLives, Counted, RunInv,
              Reserved, Coming
<1>2. ASSUME NEW p \in Proc, NEW m \in Machine,
             Start(p, m) \/ BeginInit(p, m) \/ BeginExport(p, m) \/ BeginImport(p, m)
      PROVE  NumberInv'
  BY <1>2, NumberStart, NumberBeginInit, NumberBeginExport, NumberBeginImport
<1>3. ASSUME NEW p \in Proc, LoadRegistry(p) \/ WriteLegacy(p)
      PROVE  NumberInv'
  BY <1>3, NumberLoadRegistry, NumberWriteLegacy
<1>4. ASSUME NEW p \in Proc, Mutation(p)
      PROVE  NumberInv'
  BY <1>4, NumberCheckFails, NumberCheck, NumberMutate, NumberReread, NumberDigest,
     NumberCommit, NumberSee DEF Mutation
<1>5. ASSUME NEW p \in Proc, Seal(p) \/ Pack(p) \/ EndExport(p)
      PROVE  NumberInv'
  BY <1>5, NumberSeal, NumberPack, NumberEndExport
<1>6. ASSUME NEW p \in Proc, Install(p) \/ InstallFails(p) \/ PutBackFails(p) \/ Kill(p)
      PROVE  NumberInv'
  BY <1>6, NumberInstall, NumberInstallFails, NumberPutBackFails, NumberKill
<1>7. QED
  BY <1>1, <1>2, <1>3, <1>4, <1>5, <1>6 DEF Next

LEMMA NumberSound == Spec => []NumberInv
BY NumberInit, NumberStep, PTL DEF Spec

(* Every variable has its type: a write_id is one of those that the runs   *)
(* can use up, and no lock outlives its command.  Commands may overlap.    *)
THEOREM TypeCorrect == Spec => []TypeOK
<1>1. NumberInv /\ raced \in BOOLEAN => TypeOK
  <2> SUFFICES ASSUME NumberInv, raced \in BOOLEAN
               PROVE  TypeOK
    OBVIOUS
  <2> DEFINE n == Len(commits)
             M == Manifest \cup {NoManifest}
  <2>1. n \in Nat /\ 1 .. n \subseteq Wid /\ 0 .. n \subseteq Wid \cup {0}
    BY CountBound
  <2>2. Manifests(n) \subseteq M
    BY <2>1 DEF Manifests, Manifest
  <2>3. [man : Manifests(n), files : Files] \subseteq Archive
    BY <2>2 DEF Archive
  <2>4. [rev : Nat, wid : 0 .. n] \subseteq View
    BY <2>1 DEF View
  <2>5. [Wid -> [rev : Nat, wid : 0 .. n]] \subseteq [Wid -> View]
    BY <2>4
  <2>6. NamedBy(n) /\ Simple /\ LockLives
    BY DEF NumberInv
  <2> HIDE DEF M, n
  <2>7. /\ man \in [Machine -> M] /\ base \in [Proc -> M]
        /\ pack \in [Proc -> Archive] /\ arch \subseteq Archive
    BY <2>2, <2>3, <2>6 DEF NamedBy
  <2>8. view \in [Machine -> [Wid -> View]]
    BY <2>5, <2>6 DEF NamedBy
  <2>9. item \in [Proc -> Item \cup {0}]
    <3>1. 0 .. runs \subseteq Item \cup {0}
      BY <2>6, ConstantsAssumption DEF Simple, Item
    <3>2. QED
      BY <2>6, <3>1 DEF Simple
  <2>10. todo \in [Proc -> Seq({"man", "reg", "log", "bump"})]
    <3>1. Plans \subseteq Seq({"man", "reg", "log", "bump"})
      BY DEF Plans
    <3>2. QED
      BY <2>6, <3>1 DEF Simple
  <2>11. QED
    BY <2>6, <2>7, <2>8, <2>9, <2>10 DEF TypeOK, Simple, LockLives, M
<1>2. QED
  BY <1>1, NumberSound, RacedIsBoolean, PTL

=============================================================================
