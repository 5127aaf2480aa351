--------------------------- MODULE MigrateProofs ---------------------------
(***************************************************************************)
(* A migration of a legacy home, for any nodes and keys, any number of     *)
(* commands and any number of migrations that break off.                   *)
(*                                                                         *)
(* No step destroys the last copy of an imported row or of the path of a   *)
(* key (MigInv): what a replacement overwrites is either in the copies set *)
(* aside or was never written.  The new fleet_id is that of no earlier     *)
(* command, so its state directory is empty until the migration fills it   *)
(* (Unused), and the lock keeps the home as it was copied until a member's *)
(* turn comes.  The order of the members does not matter here.             *)
(*                                                                         *)
(* A result that is ok is the home that was found (StagedHome, Placed):    *)
(* the members whose turn has passed are those that were staged, and at    *)
(* the end that is all of them.                                            *)
(*                                                                         *)
(* A home left half way is refused or has everything (FirstInv).  Here the *)
(* order does matter: no host is trusted in the new workspace before its   *)
(* database is in place, and the registry that names refs comes before the *)
(* manifest that lets a ref be used.                                       *)
(***************************************************************************)
EXTENDS Migrate, SequenceTheorems, FiniteSetTheorems, TLAPS

Member == {"reg", "man", "db", "drop", "trust", "hist", "bind"}

(* Nothing has been stored under this fleet_id.                            *)
Unused(r) == localdb[r] = None /\ bind[r] = NoBindings

(* The member has yet to be put in place.                                  *)
Awaits(todo, m) == \E i \in 1 .. Len(todo) : todo[i] = m

ManifestShape(m) == m = [fid |-> m.fid, rev |-> m.rev, sum |-> m.sum]

(* What has been staged goes to the fleet_id of this command.              *)
StagedInv ==
  /\ mig.new.man.fid = runs /\ ManifestShape(mig.new.man)
  /\ mig.new.bind[0] = None

PutInv ==
  /\ mig = [pc |-> "put", new |-> mig.new, found |-> mig.found, todo |-> mig.todo]
  /\ mig.todo \in Seq(Member)
  /\ \A i, j \in 1 .. Len(mig.todo) : mig.todo[i] = mig.todo[j] => i = j
  /\ Awaits(mig.todo, "reg")  => \E b \in bak : b.reg = reg
  /\ Awaits(mig.todo, "drop") => \E b \in bak : b.db = homedb
  /\ Awaits(mig.todo, "db")   => localdb[runs] = None
  /\ Awaits(mig.todo, "bind") => bind[runs] = NoBindings

MigInv ==
  /\ runs \in 0 .. MaxRuns
  /\ localdb = [r \in Run |-> localdb[r]] /\ bind = [r \in Run |-> bind[r]]
  /\ ManifestShape(man) /\ man.fid \in 0 .. runs
  /\ \A r \in Run : r > runs => Unused(r)
  /\ mig # None =>
       /\ mig.pc \in {"stage", "copy", "put"} /\ runs \in Run
       /\ mig.pc \in {"stage", "copy"} => man.fid < runs /\ Unused(runs)
       /\ mig.pc \in {"copy", "put"} => StagedInv
       /\ mig.pc = "put" => PutInv

-----------------------------------------------------------------------------
(***************************************************************************)
(* Members, manifests, bindings.                                           *)
(***************************************************************************)
LEMMA MembersFacts ==
  ASSUME NEW new
  PROVE  /\ Members(new) \in Seq(Member)
         /\ \A i, j \in 1 .. Len(Members(new)) :
              Members(new)[i] = Members(new)[j] => i = j
<1>1. \/ Members(new) = <<"reg", "man", "db", "drop", "trust", "hist", "bind">>
      \/ Members(new) = <<"reg", "man", "trust", "hist", "bind">>
  BY DEF Members
<1>2. CASE Members(new) = <<"reg", "man", "db", "drop", "trust", "hist", "bind">>
  BY <1>2 DEF Member
<1>3. CASE Members(new) = <<"reg", "man", "trust", "hist", "bind">>
  BY <1>3 DEF Member
<1>4. QED
  BY <1>1, <1>2, <1>3

(* The member that is put in place is not awaited any more.                *)
LEMMA TailFacts ==
  ASSUME NEW todo \in Seq(Member), todo # << >>,
         \A i, j \in 1 .. Len(todo) : todo[i] = todo[j] => i = j
  PROVE  /\ Tail(todo) \in Seq(Member)
         /\ \A i, j \in 1 .. Len(Tail(todo)) : Tail(todo)[i] = Tail(todo)[j] => i = j
         /\ Awaits(todo, Head(todo))
         /\ \A m : Awaits(Tail(todo), m) => Awaits(todo, m) /\ m # Head(todo)
<1>1. /\ Tail(todo) \in Seq(Member) /\ Len(Tail(todo)) = Len(todo) - 1
      /\ \A i \in 1 .. Len(Tail(todo)) : Tail(todo)[i] = todo[i + 1]
  BY HeadTailProperties
<1>2. /\ Len(todo) \in Nat \ {0} /\ Head(todo) = todo[1]
  BY EmptySeq
<1>3. \A i \in 1 .. Len(Tail(todo)) : i + 1 \in 1 .. Len(todo) /\ i + 1 # 1
  BY <1>1, <1>2
<1>4. 1 \in 1 .. Len(todo)
  BY <1>2
<1>5. ASSUME NEW m, Awaits(Tail(todo), m)
      PROVE  Awaits(todo, m) /\ m # Head(todo)
  <2>1. PICK i \in 1 .. Len(Tail(todo)) : Tail(todo)[i] = m
    BY <1>5 DEF Awaits
  <2>2. todo[i + 1] = m
    BY <1>1, <2>1
  <2>3. QED
    BY <1>2, <1>3, <1>4, <2>2 DEF Awaits
<1>6. ASSUME NEW i \in 1 .. Len(Tail(todo)), NEW j \in 1 .. Len(Tail(todo)),
             Tail(todo)[i] = Tail(todo)[j]
      PROVE  i = j
  <2>1. todo[i + 1] = todo[j + 1]
    BY <1>1, <1>6
  <2>2. i + 1 = j + 1
    BY <1>3, <2>1
  <2>3. QED
    BY <2>2
<1>7. QED
  BY <1>1, <1>2, <1>4, <1>5, <1>6 DEF Awaits

LEMMA AdvancedShape ==
  ASSUME ManifestShape(man), NEW r, NEW t, NEW h
  PROVE  ManifestShape(Advanced(r, t, h)) /\ Advanced(r, t, h).fid = man.fid
<1> DEFINE half == [fid |-> man.fid, rev |-> man.rev + 1, sum |-> man.sum]
           made == [fid |-> man.fid, rev |-> man.rev + 1, sum |-> Sum(r, t, h)]
<1>1. [man EXCEPT !.rev = man.rev + 1] = half
  BY DEF ManifestShape
<1>2. [half EXCEPT !.sum = Sum(r, t, h)] = made
  OBVIOUS
<1>3. Advanced(r, t, h) = [[man EXCEPT !.rev = man.rev + 1] EXCEPT !.sum = Sum(r, t, h)]
  BY DEF Advanced, ManifestShape
<1>4. Advanced(r, t, h) = made
  BY <1>1, <1>2, <1>3
<1>5. QED
  BY <1>4 DEF ManifestShape

LEMMA DefaultIsRef == 0 \in Ref
BY MigrateAssumption, FS_CardinalityType DEF Ref

(* "admin-default" stays unbound in what is staged.                        *)
LEMMA DefaultUnbound ==
  ASSUME NEW f \in Mappings
  PROVE  StagedBindings(f)[0] = None
<1>1. \A k \in KeyFiles : f[k] # 0
  BY DEF Mappings
<1>2. QED
  BY <1>1, DefaultIsRef DEF StagedBindings

-----------------------------------------------------------------------------
(***************************************************************************)
(* MigInv holds initially and is preserved.                                *)
(***************************************************************************)
LEMMA MigInit == Init => MigInv
BY MigrateAssumption
   DEF Init, MigInv, Run, ManifestShape, NoManifest, Unused

(* The other commands write under the fleet_id of the manifest, which some *)
(* earlier command made.                                                   *)
LEMMA OtherStep ==
  ASSUME MigInv, mig = None, mig' = None, runs < MaxRuns, runs' = runs + 1,
         ManifestShape(man'), man'.fid = man.fid,
         localdb' = [r \in Run |-> localdb'[r]], bind' = [r \in Run |-> bind'[r]],
         \A r \in Run : r # man.fid => localdb'[r] = localdb[r] /\ bind'[r] = bind[r]
  PROVE  MigInv'
<1>1. runs \in Nat /\ MaxRuns \in Nat /\ man.fid \in 0 .. runs
  BY MigrateAssumption DEF MigInv
<1>2. \A r \in Run : r \in Nat
  BY DEF Run
<1>3. ASSUME NEW r \in Run, r > runs'
      PROVE  Unused(r)'
  <2>1. r > runs /\ r # man.fid
    BY <1>1, <1>2, <1>3
  <2>2. QED
    BY <2>1 DEF MigInv, Unused
<1>4. QED
  BY <1>1, <1>3 DEF MigInv

LEMMA AdoptStep ==
  ASSUME MigInv, NEW n \in Node, NEW k \in Key \cup {None},
         AdoptLegacy(n, k) \/ AdoptInWorkspace(n, k)
  PROVE  MigInv'
<1>1. mig = None /\ mig' = None /\ runs < MaxRuns /\ runs' = runs + 1 /\ localdb' = localdb
  BY DEF AdoptLegacy, AdoptInWorkspace, Begins, Idle
<1>2. ManifestShape(man') /\ man'.fid = man.fid
  <2>1. man' = man \/ \E r, t, h : man' = Advanced(r, t, h)
    BY DEF AdoptLegacy, AdoptInWorkspace
  <2>2. QED
    BY <2>1, AdvancedShape DEF MigInv
<1>3. /\ bind' = [r \in Run |-> bind'[r]]
      /\ \A r \in Run : r # man.fid => bind'[r] = bind[r]
  <2>1. bind' = bind \/ bind' = [bind EXCEPT ![man.fid][0] = k]
    BY DEF AdoptLegacy, AdoptInWorkspace
  <2>2. QED
    BY <2>1 DEF MigInv
<1>4. QED
  BY <1>1, <1>2, <1>3, OtherStep DEF MigInv

LEMMA SyncStep ==
  ASSUME MigInv, NEW n \in Node, Sync(n)
  PROVE  MigInv'
<1>1. mig = None /\ mig' = None /\ runs < MaxRuns /\ runs' = runs + 1 /\ bind' = bind
  BY DEF Sync, Begins, Idle
<1>2. ManifestShape(man') /\ man'.fid = man.fid
  <2>1. man' = man \/ \E r, t, h : man' = Advanced(r, t, h)
    BY DEF Sync
  <2>2. QED
    BY <2>1, AdvancedShape DEF MigInv
<1>3. /\ localdb' = [r \in Run |-> localdb'[r]]
      /\ \A r \in Run : r # man.fid => localdb'[r] = localdb[r]
  <2>1. localdb' = localdb \/ \E new : localdb' = [localdb EXCEPT ![man.fid] = new]
    BY DEF Sync
  <2>2. QED
    BY <2>1 DEF MigInv
<1>4. QED
  BY <1>1, <1>2, <1>3, OtherStep DEF MigInv

LEMMA BeginStep ==
  ASSUME MigInv, Begin
  PROVE  MigInv'
<1>1. /\ runs' = runs + 1 /\ runs < MaxRuns /\ runs \in Nat /\ MaxRuns \in Nat
      /\ UNCHANGED <<localdb, bind, man>> /\ mig' = [pc |-> "stage"]
  BY MigrateAssumption DEF Begin, Begins, home, MigInv
<1>2. runs' \in Run /\ man.fid < runs' /\ man.fid \in 0 .. runs' /\ runs' \in 0 .. MaxRuns
  BY <1>1 DEF Run, MigInv
<1>3. \A r \in Run : r > runs' => Unused(r)'
  <2>1. \A r \in Run : r > runs' => r > runs
    BY <1>1 DEF Run
  <2>2. QED
    BY <1>1, <2>1 DEF MigInv, Unused
<1>4. localdb'[runs'] = None /\ bind'[runs'] = NoBindings
  <2>1. runs' > runs
    BY <1>1
  <2>2. QED
    BY <1>1, <1>2, <2>1 DEF MigInv, Unused
<1>5. mig'.pc = "stage"
  BY <1>1
<1>6. QED
  BY <1>1, <1>2, <1>3, <1>4, <1>5 DEF MigInv, Unused

LEMMA StageStep ==
  ASSUME MigInv, Stage
  PROVE  MigInv'
<1>1. mig # None /\ mig.pc = "stage" /\ UNCHANGED <<localdb, bind, man, bak, runs>>
  BY DEF Stage, home
<1>2. PICK f \in Mappings : \E was : mig' = [pc |-> "copy", new |-> Staged(f), found |-> was]
  BY DEF Stage
<1>3. /\ Staged(f).man = [fid |-> runs, rev |-> 0,
                          sum |-> Sum(StagedRegistry(f), StagedTrust, StagedHistory)]
      /\ Staged(f).bind = StagedBindings(f)
  BY DEF Staged
<1>4. mig'.pc = "copy" /\ mig'.new = Staged(f)
  BY <1>2
<1>5. StagedInv'
  BY <1>1, <1>3, <1>4, DefaultUnbound DEF StagedInv, ManifestShape
<1>6. QED
  BY <1>1, <1>4, <1>5 DEF MigInv, Unused

LEMMA CopyStep ==
  ASSUME MigInv, Copy
  PROVE  MigInv'
<1>1. /\ mig # None /\ mig.pc = "copy" /\ bak' = SetAside
      /\ UNCHANGED <<reg, homedb, localdb, bind, man, runs>>
      /\ mig' = [pc |-> "put", new |-> mig.new, found |-> mig.found,
                 todo |-> Members(mig.new)]
  BY DEF Copy, home
<1>2. /\ mig'.pc = "put" /\ mig'.new = mig.new /\ mig'.todo = Members(mig.new)
      /\ mig' = [pc |-> "put", new |-> mig'.new, found |-> mig'.found, todo |-> mig'.todo]
  <2> DEFINE todo == Members(mig.new)
  <2> HIDE DEF todo
  <2>1. mig' = [pc |-> "put", new |-> mig.new, found |-> mig.found, todo |-> todo]
    BY <1>1 DEF todo
  <2>2. /\ mig'.pc = "put" /\ mig'.new = mig.new /\ mig'.todo = todo
        /\ mig' = [pc |-> "put", new |-> mig'.new, found |-> mig'.found, todo |-> mig'.todo]
    BY <2>1
  <2>3. QED
    BY <2>2 DEF todo
<1>3. \E b \in bak' : b.reg = reg /\ b.db = homedb
  <2>1. [reg |-> reg, db |-> homedb] \in bak'
    BY <1>1 DEF SetAside
  <2>2. QED
    BY <2>1
<1>4. Unused(runs) /\ StagedInv
  BY <1>1 DEF MigInv
<1>5. PutInv'
  BY <1>1, <1>2, <1>3, <1>4, MembersFacts DEF PutInv, Unused
<1>6. StagedInv'
  BY <1>1, <1>2, <1>4 DEF StagedInv
<1>7. QED
  BY <1>1, <1>2, <1>5, <1>6 DEF MigInv, Unused

(* The record of a migration that is replacing files.                      *)
LEMMA TodoReplaced ==
  ASSUME NEW m, NEW rest,
         m = [pc |-> "put", new |-> m.new, found |-> m.found, todo |-> m.todo]
  PROVE  [m EXCEPT !.todo = rest] =
           [pc |-> "put", new |-> m.new, found |-> m.found, todo |-> rest]
OBVIOUS

(* What one replacement does.                                              *)
LEMMA PutFacts ==
  ASSUME MigInv, Put
  PROVE  /\ mig # None /\ mig.pc = "put" /\ runs \in Run /\ StagedInv /\ PutInv
         /\ mig.todo # << >> /\ Awaits(mig.todo, Head(mig.todo))
         /\ mig' = [pc |-> "put", new |-> mig.new, found |-> mig.found,
                    todo |-> Tail(mig.todo)]
         /\ UNCHANGED <<bak, runs>>
         /\ reg' = IF Head(mig.todo) = "reg" THEN mig.new.reg ELSE reg
         /\ man' = IF Head(mig.todo) = "man" THEN mig.new.man ELSE man
         /\ homedb' = IF Head(mig.todo) = "drop" THEN None ELSE homedb
         /\ localdb' = IF Head(mig.todo) = "db"
                         THEN [localdb EXCEPT ![runs] = mig.new.db] ELSE localdb
         /\ bind' = IF Head(mig.todo) = "bind"
                      THEN [bind EXCEPT ![runs] = mig.new.bind] ELSE bind
<1>1. mig # None /\ mig.pc = "put" /\ mig.todo # << >>
  BY DEF Put, Puts
<1>2. runs \in Run /\ StagedInv /\ PutInv
  BY <1>1 DEF MigInv
<1>3. mig' = [pc |-> "put", new |-> mig.new, found |-> mig.found, todo |-> Tail(mig.todo)]
  <2>1. mig = [pc |-> "put", new |-> mig.new, found |-> mig.found, todo |-> mig.todo]
    BY <1>2 DEF PutInv
  <2>2. mig' = [mig EXCEPT !.todo = Tail(mig.todo)]
    BY DEF Put
  <2>3. [mig EXCEPT !.todo = Tail(mig.todo)] =
          [pc |-> "put", new |-> mig.new, found |-> mig.found, todo |-> Tail(mig.todo)]
    BY <2>1, TodoReplaced
  <2>4. QED
    BY <2>2, <2>3
<1>4. Awaits(mig.todo, Head(mig.todo))
  BY <1>1, <1>2, TailFacts DEF PutInv
<1>5. \A m : Puts(m) <=> Head(mig.todo) = m
  BY <1>1 DEF Puts
<1>6. mig.new.man.fid = runs
  BY <1>2 DEF StagedInv
<1>7. /\ UNCHANGED <<bak, runs>>
      /\ reg' = IF Puts("reg") THEN mig.new.reg ELSE reg
      /\ man' = IF Puts("man") THEN mig.new.man ELSE man
      /\ homedb' = IF Puts("drop") THEN None ELSE homedb
      /\ localdb' = IF Puts("db") THEN [localdb EXCEPT ![mig.new.man.fid] = mig.new.db]
                                 ELSE localdb
      /\ bind' = IF Puts("bind") THEN [bind EXCEPT ![mig.new.man.fid] = mig.new.bind]
                                 ELSE bind
  BY DEF Put
<1>8. QED
  BY <1>1, <1>2, <1>3, <1>4, <1>5, <1>6, <1>7

LEMMA PutStep ==
  ASSUME MigInv, Put
  PROVE  MigInv'
<1> DEFINE m == Head(mig.todo)
<1>1. /\ mig # None /\ runs \in Run /\ StagedInv /\ PutInv /\ mig.todo # << >>
      /\ mig' = [pc |-> "put", new |-> mig.new, found |-> mig.found,
                 todo |-> Tail(mig.todo)]
      /\ UNCHANGED <<bak, runs>>
      /\ m # "reg" => reg' = reg
      /\ man' = IF m = "man" THEN mig.new.man ELSE man
      /\ m # "drop" => homedb' = homedb
      /\ localdb' = IF m = "db" THEN [localdb EXCEPT ![runs] = mig.new.db] ELSE localdb
      /\ bind' = IF m = "bind" THEN [bind EXCEPT ![runs] = mig.new.bind] ELSE bind
  BY PutFacts
<1>2. /\ mig'.pc = "put" /\ mig'.new = mig.new /\ mig'.todo = Tail(mig.todo)
      /\ mig' = [pc |-> "put", new |-> mig'.new, found |-> mig'.found, todo |-> mig'.todo]
  BY <1>1
<1>3. /\ Tail(mig.todo) \in Seq(Member)
      /\ \A i, j \in 1 .. Len(Tail(mig.todo)) :
           Tail(mig.todo)[i] = Tail(mig.todo)[j] => i = j
      /\ \A x : Awaits(Tail(mig.todo), x) => Awaits(mig.todo, x) /\ x # m
  BY <1>1, TailFacts DEF PutInv
<1> HIDE DEF m
<1>4. runs \in Nat /\ \A r \in Run : r \in Nat
  BY <1>1 DEF Run
<1>5. /\ localdb' = [r \in Run |-> localdb'[r]] /\ bind' = [r \in Run |-> bind'[r]]
      /\ \A r \in Run : r # runs => localdb'[r] = localdb[r] /\ bind'[r] = bind[r]
  BY <1>1 DEF MigInv
<1>6. PutInv'
  <2>1. Awaits(mig'.todo, "reg")  => \E b \in bak' : b.reg = reg'
    BY <1>1, <1>2, <1>3 DEF PutInv
  <2>2. Awaits(mig'.todo, "drop") => \E b \in bak' : b.db = homedb'
    BY <1>1, <1>2, <1>3 DEF PutInv
  <2>3. Awaits(mig'.todo, "db") => localdb'[runs'] = None
    BY <1>1, <1>2, <1>3 DEF PutInv
  <2>4. Awaits(mig'.todo, "bind") => bind'[runs'] = NoBindings
    BY <1>1, <1>2, <1>3 DEF PutInv
  <2>5. QED
    BY <1>2, <1>3, <2>1, <2>2, <2>3, <2>4 DEF PutInv
<1>7. StagedInv'
  BY <1>1, <1>2 DEF StagedInv
<1>8. ManifestShape(man') /\ man'.fid \in 0 .. runs
  BY <1>1, <1>4 DEF StagedInv, MigInv
<1>9. \A r \in Run : r > runs => Unused(r)'
  BY <1>4, <1>5 DEF MigInv, Unused
<1>10. QED
  BY <1>1, <1>2, <1>5, <1>6, <1>7, <1>8, <1>9 DEF MigInv

LEMMA EndStep ==
  ASSUME MigInv, Commit \/ BreakOff
  PROVE  MigInv'
<1>1. mig' = None /\ UNCHANGED <<localdb, bind, runs>>
  BY DEF Commit, BreakOff, home
<1>2. man' = man \/ man' = Advanced(reg, trust, hist)
  BY DEF Commit, BreakOff, home
<1>3. ManifestShape(man') /\ man'.fid = man.fid
  BY <1>2, AdvancedShape DEF MigInv
<1>4. QED
  BY <1>1, <1>3 DEF MigInv, Unused

LEMMA MigStep == MigInv /\ [Next]_vars => MigInv'
<1> SUFFICES ASSUME MigInv, [Next]_vars PROVE MigInv'
  OBVIOUS
<1>1. CASE UNCHANGED vars
  BY <1>1 DEF vars, home, MigInv, PutInv, StagedInv, Unused
<1>2. QED
  BY <1>1, AdoptStep, SyncStep, BeginStep, StageStep, CopyStep, PutStep, EndStep
     DEF Next, Migration

-----------------------------------------------------------------------------
(***************************************************************************)
(* What a migration leaves.                                                *)
(***************************************************************************)
(* The order in which the members are put in place.                        *)
Turn == [m \in Member |->
  CASE m = "reg" -> 1 [] m = "man" -> 2 [] m = "db" -> 3 [] m = "drop" -> 4
    [] m = "trust" -> 5 [] m = "hist" -> 6 [] m = "bind" -> 7]

Ordered(todo) ==
  \A i, j \in 1 .. Len(todo) : i < j => Turn[todo[i]] < Turn[todo[j]]

(* No node of a workspace's registry names a key file.                     *)
Registry == [Node -> Cred \cup {None}]

Keyless(r) == \A n \in Node : r[n] # None => r[n].key = None

(* What is staged is the home that was found, with refs for its key files. *)
StagedHome ==
  LET new == mig.new
      was == mig.found
  IN  /\ new.reg \in Registry /\ Keyless(new.reg) /\ was.reg \in Registry
      /\ new.hist \subseteq Node /\ new.db \in Content
      /\ new.bind \in [Ref -> Key \cup {None}]
      /\ new.man = [fid |-> runs, rev |-> 0, sum |-> Sum(new.reg, new.trust, new.hist)]
      /\ new.trust = {n \in Node : was.reg[n] # None} \cap was.known
      /\ Rows(new.db) = was.rows
      /\ \A n \in Node : new.reg[n] = None <=> was.reg[n] = None
      /\ \A n \in Node : was.reg[n] # None =>
           IF was.reg[n].key = None THEN new.reg[n] = was.reg[n]
           ELSE /\ new.reg[n].ref \in Ref \ {0}
                /\ new.bind[new.reg[n].ref] = was.reg[n].key

(* Members whose turn has passed are those that were staged.               *)
Placed ==
  /\ Ordered(mig.todo)
  /\ IF Awaits(mig.todo, "man") THEN man.fid < runs ELSE man = mig.new.man
  /\ ~ Awaits(mig.todo, "reg")   => reg = mig.new.reg
  /\ ~ Awaits(mig.todo, "trust") => trust = mig.new.trust
  /\ ~ Awaits(mig.todo, "hist")  => hist = mig.new.hist
  /\ ~ Awaits(mig.todo, "bind")  => bind[runs] = mig.new.bind
  /\ ~ Awaits(mig.todo, "db")    => localdb[runs] = mig.new.db
  /\ ~ Awaits(mig.todo, "trust") => ~ Awaits(mig.todo, "db")

HomeInv ==
  /\ reg \in Registry /\ (man # NoManifest => Keyless(reg))
  /\ trust \in (SUBSET Node) \cup {None} /\ hist \in (SUBSET Node) \cup {None}
  /\ homedb \in Content /\ localdb \in [Run -> Content]
  /\ bind \in [Run -> [Ref -> Key \cup {None}]]
  /\ own \in [Node -> Key \cup {None}] /\ all \subseteq Node \X Run
  /\ known \subseteq Node /\ faults \in 0 .. MaxFaults /\ tries \in 0 .. runs
  /\ man.fid = 0 => man = NoManifest
  /\ man.rev \in Nat /\ (man # NoManifest => man.fid + man.rev <= runs + 1)
  /\ mig # None /\ mig.pc \in {"copy", "put"} => StagedHome
  /\ mig # None /\ mig.pc = "put" => Placed

(* Up to the end of the first migration; the key of a node is the one it   *)
(* was adopted with, wherever it is named.                                 *)
FirstInv ==
  tries <= 1 =>
    /\ tries = 0 => man = NoManifest /\ mig = None
    /\ tries = 0 \/ (mig # None /\ mig.pc = "stage") =>
         \A n \in Node : reg[n] # None => reg[n].ref = None
    /\ man = NoManifest =>
         /\ \A n \in Node : reg[n] # None /\ reg[n].ref = None => reg[n].key = own[n]
         /\ trust = None /\ all \subseteq Rows(homedb)
    /\ man # NoManifest =>
         /\ \A n \in Node : reg[n] # None =>
              /\ reg[n].ref = None => own[n] = None
              /\ reg[n].ref \notin {None, 0} => bind[man.fid][reg[n].ref] \in {None, own[n]}
         /\ trust = None => man.sum[2] # None
         /\ trust # None => all \subseteq Rows(localdb[man.fid])
    /\ mig # None /\ mig.pc \in {"stage", "copy"} => man = NoManifest
    /\ mig # None /\ mig.pc \in {"copy", "put"} =>
         /\ \A n \in Node : mig.found.reg[n] # None =>
              mig.found.reg[n].ref = None /\ mig.found.reg[n].key = own[n]
         /\ all \subseteq mig.found.rows
    /\ mig # None /\ mig.pc = "put" =>
         /\ Awaits(mig.todo, "man") => man = NoManifest
         /\ Awaits(mig.todo, "trust") => trust = None

WholeInv == MigInv /\ HomeInv /\ FirstInv

-----------------------------------------------------------------------------
(***************************************************************************)
(* Refs, registries, manifests.                                            *)
(***************************************************************************)
LEMMA RefFacts ==
  /\ Ref \subseteq Nat /\ 0 \in Ref /\ Cardinality(Key) \in Nat
  /\ \A r \in Ref : r # None
BY MigrateAssumption, NoneAssumption, FS_CardinalityType, DefaultIsRef DEF Ref

LEMMA CredFacts ==
  /\ OpenSSH \in Cred /\ OpenSSH.key = None /\ OpenSSH.ref = None
  /\ \A k \in Key \cup {None} : File(k) \in Cred /\ File(k).key = k /\ File(k).ref = None
  /\ \A r \in Ref : ByRef(r) \in Cred /\ ByRef(r).key = None /\ ByRef(r).ref = r
  /\ \A c \in Cred : /\ c # None /\ c.key \in Key \cup {None}
                     /\ c.ref \in Ref \cup {None}
<1>1. \A c \in Cred : c # None
  <2> SUFFICES ASSUME NEW c \in Cred PROVE c # None
    OBVIOUS
  <2>1. /\ c = [key |-> c.key, ref |-> c.ref] /\ c.key \in Key \cup {None}
        /\ c.ref \in 0 .. Cardinality(Key) \cup {None}
    BY DEF Cred, Ref
  <2>2. QED
    BY <2>1, NoneAssumption
<1>2. QED
  BY <1>1 DEF OpenSSH, File, ByRef, Cred

LEMMA AdvancedIs ==
  ASSUME ManifestShape(man), NEW r, NEW t, NEW h
  PROVE  Advanced(r, t, h) = [fid |-> man.fid, rev |-> man.rev + 1, sum |-> Sum(r, t, h)]
<1> DEFINE half == [fid |-> man.fid, rev |-> man.rev + 1, sum |-> man.sum]
           made == [fid |-> man.fid, rev |-> man.rev + 1, sum |-> Sum(r, t, h)]
<1>1. [man EXCEPT !.rev = man.rev + 1] = half
  BY DEF ManifestShape
<1>2. [half EXCEPT !.sum = Sum(r, t, h)] = made
  OBVIOUS
<1>3. Advanced(r, t, h) = [[man EXCEPT !.rev = man.rev + 1] EXCEPT !.sum = Sum(r, t, h)]
  BY DEF Advanced, ManifestShape
<1>4. QED
  BY <1>1, <1>2, <1>3

LEMMA ManFacts ==
  ASSUME MigInv, HomeInv
  PROVE  /\ man # NoManifest <=> man.fid # 0
         /\ man # NoManifest => man.fid \in Run
         /\ runs \in Nat /\ MaxRuns \in Nat /\ man.fid \in 0 .. runs
<1>1. runs \in 0 .. MaxRuns /\ man.fid \in 0 .. runs /\ MaxRuns \in Nat
  BY MigrateAssumption DEF MigInv
<1>2. NoManifest.fid = 0 /\ (man.fid = 0 => man = NoManifest)
  BY DEF NoManifest, HomeInv
<1>3. QED
  BY <1>1, <1>2 DEF Run

(* Rows of a database are of nodes and earlier commands.                   *)
LEMMA RowsFacts ==
  /\ \A db \in Content : Rows(db) \subseteq Node \X Run
  /\ \A S \in SUBSET (Node \X Run) : S \in Content /\ S # None /\ Rows(S) = S
  /\ None \in Content /\ Rows(None) = {}
<1>1. \A S \in SUBSET (Node \X Run) : S # None
  BY NoneAssumption DEF Run
<1>2. \A S \in SUBSET (Node \X Run) : S \in Content /\ Rows(S) = S
  BY <1>1 DEF Content, Rows
<1>3. None \in Content /\ Rows(None) = {}
  BY DEF Content, Rows
<1>4. \A db \in Content : Rows(db) \subseteq Node \X Run
  BY DEF Content, Rows
<1>5. QED
  BY <1>1, <1>2, <1>3, <1>4

LEMMA DbFacts ==
  ASSUME MigInv, HomeInv
  PROVE  Db \in Content /\ Rows(Db) \subseteq Node \X Run
<1>1. Db \in Content
  BY ManFacts DEF Db, HomeInv
<1>2. QED
  BY <1>1, RowsFacts

LEMMA StagedFacts ==
  ASSUME MigInv, HomeInv, NEW f \in Mappings
  PROVE  /\ StagedRegistry(f) \in Registry /\ Keyless(StagedRegistry(f))
         /\ StagedBindings(f) \in [Ref -> Key \cup {None}]
         /\ StagedHistory \subseteq Node /\ StagedDb \in Content
         /\ \A n \in Node : StagedRegistry(f)[n] = None <=> reg[n] = None
         /\ \A n \in Node : reg[n] # None =>
              IF reg[n].key = None THEN StagedRegistry(f)[n] = reg[n]
              ELSE /\ StagedRegistry(f)[n].ref \in Ref \ {0}
                   /\ StagedBindings(f)[StagedRegistry(f)[n].ref] = reg[n].key
<1>1. reg \in [Node -> Cred \cup {None}]
  BY DEF HomeInv, Registry
<1>2. \A k : k \in KeyFiles <=> k # None /\ \E n \in Node : reg[n] # None /\ reg[n].key = k
  BY DEF KeyFiles, Registered
<1>3. KeyFiles \subseteq Key
  BY <1>1, <1>2, CredFacts
<1>4. /\ IsFiniteSet(KeyFiles) /\ Cardinality(KeyFiles) \in Nat
      /\ Cardinality(KeyFiles) <= Cardinality(Key) /\ Cardinality(Key) \in Nat
  BY <1>3, MigrateAssumption, FS_Subset, FS_CardinalityType
<1>5. \A k \in KeyFiles : f[k] \in Ref \ {0}
  BY <1>4 DEF Mappings, Ref
<1>6. \A k, j \in KeyFiles : f[k] = f[j] => k = j
  BY DEF Mappings, IsInjective
<1>7. \A k \in KeyFiles : StagedBindings(f)[f[k]] = k
  BY <1>5, <1>6 DEF StagedBindings
<1>8. StagedBindings(f) \in [Ref -> Key \cup {None}]
  BY <1>3 DEF StagedBindings
<1>9. ASSUME NEW n \in Node
      PROVE  /\ StagedRegistry(f)[n] \in Cred \cup {None}
             /\ StagedRegistry(f)[n] # None => StagedRegistry(f)[n].key = None
             /\ StagedRegistry(f)[n] = None <=> reg[n] = None
             /\ reg[n] # None =>
                  IF reg[n].key = None THEN StagedRegistry(f)[n] = reg[n]
                  ELSE /\ StagedRegistry(f)[n].ref \in Ref \ {0}
                       /\ StagedBindings(f)[StagedRegistry(f)[n].ref] = reg[n].key
  <2>1. CASE reg[n] # None /\ reg[n].key # None
    <3>1. reg[n].key \in KeyFiles /\ StagedRegistry(f)[n] = ByRef(f[reg[n].key])
      BY <1>2, <2>1 DEF StagedRegistry, Registered
    <3>2. QED
      BY <1>5, <1>7, <2>1, <3>1, CredFacts
  <2>2. CASE ~ (reg[n] # None /\ reg[n].key # None)
    <3>1. StagedRegistry(f)[n] = reg[n]
      BY <2>2 DEF StagedRegistry, Registered
    <3>2. QED
      BY <1>1, <2>2, <3>1
  <2>3. QED
    BY <2>1, <2>2
<1>10. StagedRegistry(f) \in Registry
  BY <1>9 DEF StagedRegistry, Registry
<1>11. Keyless(StagedRegistry(f))
  BY <1>9 DEF Keyless
<1>12. StagedDb \in Content /\ StagedHistory \subseteq Node
  BY DbFacts DEF StagedDb, StagedHistory, Instances
<1>13. QED
  BY <1>8, <1>9, <1>10, <1>11, <1>12

-----------------------------------------------------------------------------
(***************************************************************************)
(* The other commands.                                                     *)
(***************************************************************************)
LEMMA AdoptLegacyWhole ==
  ASSUME WholeInv, NEW n \in Node, NEW k \in Key \cup {None}, AdoptLegacy(n, k)
  PROVE  HomeInv' /\ FirstInv'
<1> PICK c : c = IF k = None THEN OpenSSH ELSE File(k)
  OBVIOUS
<1>1. /\ man = NoManifest /\ mig = None /\ runs' = runs + 1 /\ n \in Node
      /\ known' = known \cup {n} /\ reg' = [reg EXCEPT ![n] = c] /\ own' = [own EXCEPT ![n] = k]
      /\ UNCHANGED <<man, trust, hist, homedb, localdb, bind, mig, faults, all, tries>>
  BY DEF AdoptLegacy, Begins, Idle
<1>2. c \in Cred /\ c.ref = None /\ c.key = k /\ c # None
  BY CredFacts
<1>3. reg' \in Registry /\ reg'[n] = c /\ \A j \in Node \ {n} : reg'[j] = reg[j]
  BY <1>1, <1>2 DEF WholeInv, HomeInv, Registry
<1>4. runs \in Nat
  BY ManFacts DEF WholeInv
<1>5. HomeInv'
  BY <1>1, <1>3, <1>4 DEF WholeInv, HomeInv
<1>6. FirstInv'
  <2>1. own \in [Node -> Key \cup {None}]
    BY DEF WholeInv, HomeInv
  <2>2. own'[n] = k /\ \A j \in Node \ {n} : own'[j] = own[j]
    BY <1>1, <2>1
  <2>3. QED
    BY <1>1, <1>2, <1>3, <2>2 DEF WholeInv, FirstInv
<1>7. QED
  BY <1>5, <1>6

LEMMA AdoptInWorkspaceWhole ==
  ASSUME WholeInv, NEW n \in Node, NEW k \in Key \cup {None}, AdoptInWorkspace(n, k)
  PROVE  HomeInv' /\ FirstInv'
<1>1. /\ man # NoManifest /\ mig = None /\ mig' = None /\ runs' = runs + 1
      /\ bind' = IF k = None THEN bind ELSE [bind EXCEPT ![man.fid][0] = k]
      /\ UNCHANGED <<hist, homedb, localdb, known, faults, all, tries>>
  BY DEF AdoptInWorkspace, Begins, Idle
<1>2. /\ man.fid \in Run /\ runs \in Nat /\ man.fid \in Nat \ {0} /\ NoManifest.fid = 0
      /\ man.rev \in Nat /\ man.fid + man.rev <= runs + 1
  BY <1>1, ManFacts DEF WholeInv, HomeInv, NoManifest
<1>3. /\ bind' \in [Run -> [Ref -> Key \cup {None}]]
      /\ \A r \in Run, x \in Ref \ {0} : bind'[r][x] = bind[r][x]
  BY <1>1, <1>2, RefFacts DEF WholeInv, HomeInv
<1>4. CASE Inconsistent
  <2>1. UNCHANGED <<reg, man, trust, own>>
    BY <1>4 DEF AdoptInWorkspace
  <2>2. HomeInv'
    BY <1>1, <1>2, <1>3, <2>1 DEF WholeInv, HomeInv, Registry
  <2>3. \A j \in Node : reg[j] # None => reg[j].ref \in Ref \cup {None}
    BY CredFacts DEF WholeInv, HomeInv, Registry
  <2>4. FirstInv'
    BY <1>1, <1>2, <1>3, <2>1, <2>3 DEF WholeInv, FirstInv
  <2>5. QED
    BY <2>2, <2>4
<1>5. CASE ~ Inconsistent
  <2> PICK c : c = IF k = None THEN OpenSSH ELSE ByRef(0)
    OBVIOUS
  <2>1. /\ trust' = Trusted \cup {n} /\ reg' = [reg EXCEPT ![n] = c]
        /\ man' = Advanced(reg', trust', hist) /\ own' = [own EXCEPT ![n] = k]
    BY <1>5 DEF AdoptInWorkspace
  <2>2. c \in Cred /\ c.key = None /\ c # None /\ (c.ref = None => k = None) /\ c.ref \in {None, 0}
    BY CredFacts, RefFacts
  <2>3. reg' \in Registry /\ reg'[n] = c /\ \A j \in Node \ {n} : reg'[j] = reg[j]
    BY <2>1, <2>2 DEF WholeInv, HomeInv, Registry
  <2>4. /\ man' = [fid |-> man.fid, rev |-> man.rev + 1, sum |-> Sum(reg', trust', hist)]
        /\ man'.fid = man.fid /\ man'.rev = man.rev + 1
    <3>1. ManifestShape(man)
      BY DEF WholeInv, MigInv
    <3>2. man' = [fid |-> man.fid, rev |-> man.rev + 1, sum |-> Sum(reg', trust', hist)]
      BY <2>1, <3>1, AdvancedIs
    <3>3. QED
      BY <3>2
  <2>5. trust' \in SUBSET Node /\ trust' # None
    <3>1. Trusted \in SUBSET Node
      BY <1>1 DEF Trusted, WholeInv, HomeInv
    <3>2. QED
      BY <2>1, <3>1, NoneAssumption
  <2>6. man' # NoManifest /\ Keyless(reg)'
    <3>1. Keyless(reg)
      BY <1>1 DEF WholeInv, HomeInv
    <3>2. Keyless(reg)'
      BY <2>2, <2>3, <3>1 DEF Keyless
    <3>3. QED
      BY <1>2, <2>4, <3>2
  <2>7. HomeInv'
    <3>1. man'.rev \in Nat /\ man'.fid + man'.rev <= runs' + 1 /\ man'.fid # 0
      BY <1>1, <1>2, <2>4
    <3>2. tries \in 0 .. runs'
      BY <1>1, <1>2 DEF WholeInv, HomeInv
    <3>3. own' \in [Node -> Key \cup {None}]
      BY <2>1 DEF WholeInv, HomeInv
    <3>4. QED
      BY <1>1, <1>3, <2>3, <2>5, <2>6, <3>1, <3>2, <3>3 DEF WholeInv, HomeInv
  <2>8. FirstInv'
    <3> SUFFICES ASSUME tries' <= 1 PROVE FirstInv'
      BY DEF FirstInv
    <3>1. tries <= 1 /\ tries # 0
      BY <1>1 DEF WholeInv, FirstInv
    <3>2. man.sum = Sum(reg, trust, hist) /\ trust # None /\ all \subseteq Rows(localdb[man.fid])
      <4>1. man.sum = Sum(reg, trust, hist)
        BY <1>1, <1>5 DEF Inconsistent
      <4>2. man.sum[2] = trust
        BY <4>1 DEF Sum
      <4>3. QED
        BY <1>1, <3>1, <4>1, <4>2 DEF WholeInv, FirstInv
    <3>3. own'[n] = k /\ \A j \in Node \ {n} : own'[j] = own[j]
      BY <2>1 DEF WholeInv, HomeInv
    <3>4. ASSUME NEW j \in Node, reg'[j] # None
          PROVE  /\ reg'[j].ref = None => own'[j] = None
                 /\ reg'[j].ref \notin {None, 0} =>
                      bind'[man'.fid][reg'[j].ref] \in {None, own'[j]}
      <4>1. CASE j = n
        BY <2>2, <2>3, <3>3, <4>1
      <4>2. CASE j # n
        <5>1. reg'[j] = reg[j] /\ own'[j] = own[j] /\ reg[j] # None
          BY <2>3, <3>3, <3>4, <4>2
        <5>2. reg[j].ref \in Ref \cup {None}
          BY <5>1, CredFacts DEF WholeInv, HomeInv, Registry
        <5>3. QED
          BY <1>1, <1>2, <1>3, <2>4, <3>1, <5>1, <5>2 DEF WholeInv, FirstInv
      <4>3. QED
        BY <4>1, <4>2
    <3>5. all' \subseteq Rows(localdb'[man'.fid])
      BY <1>1, <2>4, <3>2
    <3>6. QED
      BY <1>1, <2>5, <2>6, <3>1, <3>4, <3>5 DEF FirstInv
  <2>9. QED
    BY <2>7, <2>8
<1>6. QED
  BY <1>4, <1>5

LEMMA SyncWhole ==
  ASSUME WholeInv, NEW n \in Node, Sync(n)
  PROVE  HomeInv' /\ FirstInv'
<1> PICK new : new = Rows(Db) \cup {<<n, runs + 1>>}
  OBVIOUS
<1>1. /\ mig = None /\ mig' = None /\ runs < MaxRuns /\ runs' = runs + 1 /\ Reachable(n)
      /\ IF man = NoManifest THEN homedb' = new /\ localdb' = localdb
           ELSE localdb' = [localdb EXCEPT ![man.fid] = new] /\ homedb' = homedb
      /\ all' = all \cup {<<n, runs + 1>>}
      /\ \/ man' = man /\ hist' = hist
         \/ /\ hist' = (IF hist = None THEN {} ELSE hist) \cup {n}
            /\ man' = IF man = NoManifest THEN man ELSE Advanced(reg, trust, hist')
      /\ UNCHANGED <<reg, trust, bind, known, faults, own, tries>>
  BY DEF Sync, Begins, Idle
<1>2. runs \in Nat /\ runs + 1 \in Run /\ man.rev \in Nat /\ man.fid \in Nat /\ MaxRuns \in Nat
  BY <1>1, ManFacts DEF WholeInv, HomeInv, Run
<1>3. new \in Content /\ Rows(new) = new /\ <<n, runs + 1>> \in Node \X Run
  <2>1. new \in SUBSET (Node \X Run)
    BY <1>2, DbFacts DEF WholeInv
  <2>2. QED
    BY <1>2, <2>1, RowsFacts
<1>4. man # NoManifest =>
        /\ man.fid \in Run /\ man.fid # 0 /\ man.fid + man.rev <= runs + 1
        /\ trust # None
  <2>1. Trusted # {}
    BY <1>1 DEF Reachable
  <2>2. QED
    BY <1>2, <2>1, ManFacts DEF WholeInv, HomeInv, Trusted
<1>5. /\ man'.fid = man.fid /\ man'.rev \in {man.rev, man.rev + 1}
      /\ man = NoManifest => man' = man
  <2>1. \A h : /\ Advanced(reg, trust, h).fid = man.fid
               /\ Advanced(reg, trust, h).rev = man.rev + 1
    <3> TAKE h
    <3>1. Advanced(reg, trust, h) =
            [fid |-> man.fid, rev |-> man.rev + 1, sum |-> Sum(reg, trust, h)]
      BY AdvancedIs DEF WholeInv, MigInv
    <3>2. QED
      BY <3>1
  <2>2. QED
    BY <1>1, <2>1
<1>6. man' # NoManifest <=> man # NoManifest
  BY <1>4, <1>5, NoManifest.fid = 0 DEF NoManifest
<1>7. HomeInv'
  <2>1. hist' \in (SUBSET Node) \cup {None}
    BY <1>1 DEF WholeInv, HomeInv
  <2>2. homedb' \in Content /\ localdb' \in [Run -> Content]
    BY <1>1, <1>3 DEF WholeInv, HomeInv
  <2>3. man'.rev \in Nat /\ (man' # NoManifest => man'.fid + man'.rev <= runs' + 1)
    BY <1>1, <1>2, <1>4, <1>5, <1>6
  <2>4. tries \in 0 .. runs' /\ all' \subseteq Node \X Run
    BY <1>1, <1>2, <1>3 DEF WholeInv, HomeInv
  <2>5. man'.fid = 0 => man' = NoManifest
    BY <1>4, <1>5, <1>6
  <2>6. reg' \in Registry /\ (man' # NoManifest => Keyless(reg)')
    BY <1>1, <1>6 DEF WholeInv, HomeInv, Keyless
  <2>7. QED
    BY <1>1, <2>1, <2>2, <2>3, <2>4, <2>5, <2>6 DEF WholeInv, HomeInv
<1>8. FirstInv'
  <2> SUFFICES ASSUME tries' <= 1 PROVE FirstInv'
    BY DEF FirstInv
  <2>1. tries <= 1
    BY <1>1
  <2>2. CASE man = NoManifest
    <3>1. all \subseteq Rows(homedb) /\ homedb' = new /\ Db = homedb
      BY <1>1, <2>1, <2>2 DEF WholeInv, FirstInv, Db
    <3>2. all' \subseteq Rows(homedb')
      BY <1>1, <1>3, <3>1
    <3>3. QED
      BY <1>1, <1>6, <2>1, <2>2, <3>2 DEF WholeInv, FirstInv
  <2>3. CASE man # NoManifest
    <3>1. all \subseteq Rows(localdb[man.fid]) /\ Db = localdb[man.fid]
      BY <1>4, <2>1, <2>3 DEF WholeInv, FirstInv, Db
    <3>2. localdb'[man'.fid] = new
      BY <1>1, <1>4, <1>5, <2>3 DEF WholeInv, HomeInv
    <3>3. all' \subseteq Rows(localdb'[man'.fid])
      BY <1>1, <1>3, <3>1, <3>2
    <3>4. ASSUME NEW j \in Node, reg'[j] # None
          PROVE  /\ reg'[j].ref = None => own'[j] = None
                 /\ reg'[j].ref \notin {None, 0} =>
                      bind'[man'.fid][reg'[j].ref] \in {None, own'[j]}
      BY <1>1, <1>5, <2>1, <2>3, <3>4 DEF WholeInv, FirstInv
    <3>5. tries # 0
      BY <2>1, <2>3 DEF WholeInv, FirstInv
    <3>6. QED
      BY <1>1, <1>4, <1>6, <2>3, <3>3, <3>4, <3>5 DEF FirstInv
  <2>4. QED
    BY <2>2, <2>3
<1>9. QED
  BY <1>7, <1>8

-----------------------------------------------------------------------------
(***************************************************************************)
(* The migration.                                                          *)
(***************************************************************************)
LEMMA BeginWhole ==
  ASSUME WholeInv, Begin
  PROVE  HomeInv' /\ FirstInv'
<1>1. /\ mig = None /\ mig' = [pc |-> "stage"] /\ mig'.pc = "stage" /\ runs' = runs + 1
      /\ tries' = tries + 1
      /\ UNCHANGED <<reg, man, trust, hist, homedb, localdb, bind, known, faults, own, all>>
  BY DEF Begin, Begins, Idle, home
<1>2. runs \in Nat /\ man.rev \in Nat /\ man.fid \in Nat /\ tries \in 0 .. runs
  BY ManFacts DEF WholeInv, HomeInv
<1>3. man # NoManifest => man.fid + man.rev <= runs' + 1
  BY <1>1, <1>2 DEF WholeInv, HomeInv
<1>4. HomeInv'
  <2>1. tries' \in 0 .. runs'
    BY <1>1, <1>2
  <2>2. man # NoManifest => Keyless(reg)'
    BY <1>1 DEF WholeInv, HomeInv, Keyless
  <2>3. QED
    BY <1>1, <1>2, <1>3, <2>1, <2>2 DEF WholeInv, HomeInv
<1>5. FirstInv'
  <2> SUFFICES ASSUME tries' <= 1 PROVE FirstInv'
    BY DEF FirstInv
  <2>1. tries = 0 /\ tries' = 1
    BY <1>1, <1>2
  <2>2. man = NoManifest /\ \A n \in Node : reg[n] # None => reg[n].ref = None
    BY <2>1 DEF WholeInv, FirstInv
  <2>3. QED
    BY <1>1, <2>1, <2>2 DEF WholeInv, FirstInv
<1>6. QED
  BY <1>4, <1>5

LEMMA StageWhole ==
  ASSUME WholeInv, Stage
  PROVE  HomeInv' /\ FirstInv'
<1>1. /\ mig # None /\ mig.pc = "stage"
      /\ UNCHANGED <<reg, man, trust, hist, homedb, localdb, bind, known, runs, faults,
                     own, all, tries>>
  BY DEF Stage, home, history
<1>2. PICK f \in Mappings :
        mig' = [pc |-> "copy", new |-> Staged(f),
                found |-> [reg |-> reg, rows |-> Rows(Db), fid |-> man.fid, known |-> known]]
  BY DEF Stage
<1>3. /\ mig'.pc = "copy" /\ mig'.new = Staged(f) /\ mig'.found.reg = reg
      /\ mig'.found.rows = Rows(Db) /\ mig'.found.known = known
  BY <1>2
<1> PICK r, t, h, b, d : /\ r = StagedRegistry(f) /\ t = StagedTrust /\ h = StagedHistory
                         /\ b = StagedBindings(f) /\ d = StagedDb
  OBVIOUS
<1>4. Staged(f) = [reg |-> r, trust |-> t, hist |-> h, db |-> d, bind |-> b,
                   man |-> [fid |-> runs, rev |-> 0, sum |-> Sum(r, t, h)]]
  BY DEF Staged
<1>5. /\ mig'.new.reg = r /\ mig'.new.trust = t /\ mig'.new.hist = h /\ mig'.new.db = d
      /\ mig'.new.bind = b
      /\ mig'.new.man = [fid |-> runs, rev |-> 0, sum |-> Sum(r, t, h)]
  BY <1>3, <1>4
<1>6. /\ r \in Registry /\ Keyless(r) /\ b \in [Ref -> Key \cup {None}]
      /\ h \subseteq Node /\ d \in Content
      /\ \A n \in Node : r[n] = None <=> reg[n] = None
      /\ \A n \in Node : reg[n] # None =>
           IF reg[n].key = None THEN r[n] = reg[n]
           ELSE /\ r[n].ref \in Ref \ {0}
                /\ b[r[n].ref] = reg[n].key
  BY StagedFacts DEF WholeInv
<1>7. StagedHome'
  <2>1. Keyless(r)'
    BY <1>6 DEF Keyless
  <2>2. t = {n \in Node : reg[n] # None} \cap known /\ Rows(d) = Rows(Db)
    BY DEF StagedTrust, Registered, StagedDb
  <2>3. reg \in Registry
    BY DEF WholeInv, HomeInv
  <2>4. QED
    BY <1>1, <1>3, <1>5, <1>6, <2>1, <2>2, <2>3 DEF StagedHome, Keyless
<1>8. HomeInv'
  <2>1. man # NoManifest => Keyless(reg)'
    BY <1>1 DEF WholeInv, HomeInv, Keyless
  <2>2. QED
    BY <1>1, <1>3, <1>7, <2>1 DEF WholeInv, HomeInv
<1>9. FirstInv'
  <2> SUFFICES ASSUME tries' <= 1 PROVE FirstInv'
    BY DEF FirstInv
  <2>1. /\ tries # 0 /\ tries <= 1 /\ man = NoManifest
        /\ \A n \in Node : reg[n] # None => reg[n].ref = None
    BY <1>1 DEF WholeInv, FirstInv
  <2>2. /\ \A n \in Node : reg[n] # None => reg[n].key = own[n]
        /\ all \subseteq Rows(Db) /\ trust = None /\ all \subseteq Rows(homedb)
    BY <2>1 DEF WholeInv, FirstInv, Db
  <2>3. QED
    BY <1>1, <1>3, <2>1, <2>2 DEF FirstInv
<1>10. QED
  BY <1>8, <1>9

(* Every member but the database is awaited when nothing is in place yet.  *)
LEMMA AllAwaited ==
  ASSUME NEW new
  PROVE  /\ Ordered(Members(new))
         /\ \A m \in {"reg", "man", "trust", "hist", "bind"} : Awaits(Members(new), m)
         /\ new.db # None => Awaits(Members(new), "db")
<1> DEFINE A == <<"reg", "man", "db", "drop", "trust", "hist", "bind">>
           B == <<"reg", "man", "trust", "hist", "bind">>
<1>1. Members(new) = IF new.db = None THEN B ELSE A
  BY DEF Members
<1>2. /\ Turn["reg"] = 1 /\ Turn["man"] = 2 /\ Turn["db"] = 3 /\ Turn["drop"] = 4
      /\ Turn["trust"] = 5 /\ Turn["hist"] = 6 /\ Turn["bind"] = 7
  BY DEF Turn, Member
<1>3. Ordered(A)
  <2>1. Len(A) = 7 /\ \A i \in 1 .. 7 : Turn[A[i]] = i
    BY <1>2
  <2> HIDE DEF A
  <2>2. QED
    BY <2>1 DEF Ordered
<1>4. Ordered(B)
  <2>1. Len(B) = 5 /\ \A i \in 1 .. 5 : Turn[B[i]] = IF i <= 2 THEN i ELSE i + 2
    BY <1>2
  <2> HIDE DEF B
  <2>2. QED
    BY <2>1 DEF Ordered
<1>5. /\ Awaits(A, "reg") /\ Awaits(A, "man") /\ Awaits(A, "db") /\ Awaits(A, "trust")
      /\ Awaits(A, "hist") /\ Awaits(A, "bind")
  <2>1. /\ Len(A) = 7 /\ A[1] = "reg" /\ A[2] = "man" /\ A[3] = "db" /\ A[5] = "trust"
        /\ A[6] = "hist" /\ A[7] = "bind"
    OBVIOUS
  <2> HIDE DEF A
  <2>2. QED
    BY <2>1 DEF Awaits
<1>6. /\ Awaits(B, "reg") /\ Awaits(B, "man") /\ Awaits(B, "trust")
      /\ Awaits(B, "hist") /\ Awaits(B, "bind")
  <2>1. /\ Len(B) = 5 /\ B[1] = "reg" /\ B[2] = "man" /\ B[3] = "trust"
        /\ B[4] = "hist" /\ B[5] = "bind"
    OBVIOUS
  <2> HIDE DEF B
  <2>2. QED
    BY <2>1 DEF Awaits
<1> HIDE DEF A, B
<1>7. QED
  BY <1>1, <1>3, <1>4, <1>5, <1>6

LEMMA CopyWhole ==
  ASSUME WholeInv, Copy
  PROVE  HomeInv' /\ FirstInv'
<1>1. /\ mig # None /\ mig.pc = "copy" /\ Unused(runs) /\ man.fid < runs
      /\ UNCHANGED <<reg, man, trust, hist, homedb, localdb, bind, known, runs, faults,
                     own, all, tries>>
  BY DEF Copy, home, history, WholeInv, MigInv
<1> PICK todo : todo = Members(mig.new)
  OBVIOUS
<1>2. /\ mig' = [pc |-> "put", new |-> mig.new, found |-> mig.found, todo |-> todo]
      /\ mig'.pc = "put" /\ mig'.new = mig.new /\ mig'.found = mig.found /\ mig'.todo = todo
  BY DEF Copy
<1>3. /\ Ordered(todo) /\ (mig.new.db # None => Awaits(todo, "db"))
      /\ Awaits(todo, "reg") /\ Awaits(todo, "man") /\ Awaits(todo, "trust")
      /\ Awaits(todo, "hist") /\ Awaits(todo, "bind")
  BY AllAwaited
<1>4. StagedHome'
  <2>1. StagedHome
    BY <1>1 DEF WholeInv, HomeInv
  <2>2. QED
    BY <1>1, <1>2, <2>1 DEF StagedHome, Keyless
<1>5. Placed'
  BY <1>1, <1>2, <1>3 DEF Placed, Unused
<1>6. HomeInv'
  <2>1. man # NoManifest => Keyless(reg)'
    BY <1>1 DEF WholeInv, HomeInv, Keyless
  <2>2. QED
    BY <1>1, <1>2, <1>4, <1>5, <2>1 DEF WholeInv, HomeInv
<1>7. FirstInv'
  <2> SUFFICES ASSUME tries' <= 1 PROVE FirstInv'
    BY DEF FirstInv
  <2>1. /\ tries # 0 /\ tries <= 1 /\ man = NoManifest /\ trust = None
        /\ \A n \in Node : reg[n] # None /\ reg[n].ref = None => reg[n].key = own[n]
        /\ all \subseteq Rows(homedb) /\ all \subseteq mig.found.rows
        /\ \A n \in Node : mig.found.reg[n] # None =>
             mig.found.reg[n].ref = None /\ mig.found.reg[n].key = own[n]
    BY <1>1 DEF WholeInv, FirstInv
  <2>2. QED
    BY <1>1, <1>2, <2>1 DEF FirstInv
<1>8. QED
  BY <1>6, <1>7

(* Who is still awaited when a member's turn has come.                     *)
LEMMA TurnFacts ==
  ASSUME NEW todo \in Seq(Member), todo # << >>, Ordered(todo)
  PROVE  /\ Head(todo) \in Member /\ Ordered(Tail(todo))
         /\ \A m \in Member : Awaits(todo, m) <=> m = Head(todo) \/ Awaits(Tail(todo), m)
         /\ \A m \in Member : Turn[m] < Turn[Head(todo)] => ~ Awaits(todo, m)
<1>1. /\ Tail(todo) \in Seq(Member) /\ Len(Tail(todo)) = Len(todo) - 1
      /\ \A i \in 1 .. Len(Tail(todo)) : Tail(todo)[i] = todo[i + 1]
  BY HeadTailProperties
<1>2. /\ Len(todo) \in Nat \ {0} /\ Head(todo) = todo[1] /\ todo[1] \in Member
  BY EmptySeq
<1>3. \A i \in 1 .. Len(Tail(todo)) : i + 1 \in 1 .. Len(todo)
  BY <1>1, <1>2
<1>4. \A i \in 2 .. Len(todo) : i - 1 \in 1 .. Len(Tail(todo)) /\ Tail(todo)[i - 1] = todo[i]
  BY <1>1, <1>2
<1>5. Ordered(Tail(todo))
  BY <1>1, <1>3 DEF Ordered
<1>6. \A m \in Member : Turn[m] \in Nat
  BY DEF Turn, Member
<1>7. ASSUME NEW m \in Member, Awaits(todo, m)
      PROVE  /\ m = Head(todo) \/ Awaits(Tail(todo), m)
             /\ ~ (Turn[m] < Turn[Head(todo)])
  <2>1. PICK i \in 1 .. Len(todo) : todo[i] = m
    BY <1>7 DEF Awaits
  <2>2. CASE i = 1
    BY <1>2, <1>6, <2>1, <2>2
  <2>3. CASE i # 1
    <3>1. i \in 2 .. Len(todo) /\ 1 \in 1 .. Len(todo) /\ 1 < i
      BY <1>2, <2>1, <2>3
    <3>2. Turn[todo[1]] < Turn[m]
      BY <2>1, <3>1 DEF Ordered
    <3>3. Awaits(Tail(todo), m)
      BY <1>4, <2>1, <3>1 DEF Awaits
    <3>4. QED
      BY <1>2, <1>6, <3>2, <3>3
  <2>4. QED
    BY <2>2, <2>3
<1>8. ASSUME NEW m \in Member, m = Head(todo) \/ Awaits(Tail(todo), m)
      PROVE  Awaits(todo, m)
  BY <1>1, <1>2, <1>3, <1>8 DEF Awaits
<1>9. QED
  BY <1>2, <1>5, <1>7, <1>8

(* A member replaced: the rest of the home, and what is awaited from now.  *)
LEMMA PlaceFacts ==
  ASSUME WholeInv, Put
  PROVE  LET new == mig.new
             m == Head(mig.todo)
         IN  /\ mig # None /\ mig.pc = "put" /\ runs \in Run /\ PutInv /\ StagedHome /\ Placed
             /\ m \in Member
             /\ mig' = [pc |-> "put", new |-> new, found |-> mig.found, todo |-> Tail(mig.todo)]
             /\ mig'.pc = "put" /\ mig'.new = new /\ mig'.found = mig.found
             /\ mig'.todo = Tail(mig.todo) /\ Ordered(mig'.todo)
             /\ \A x \in Member : Awaits(mig.todo, x) <=> x = m \/ Awaits(mig'.todo, x)
             /\ \A x \in Member : Turn[x] < Turn[m] => ~ Awaits(mig.todo, x)
             /\ ~ Awaits(mig'.todo, m)
             /\ reg' = IF m = "reg" THEN new.reg ELSE reg
             /\ man' = IF m = "man" THEN new.man ELSE man
             /\ homedb' = IF m = "drop" THEN None ELSE homedb
             /\ localdb' = IF m = "db" THEN [localdb EXCEPT ![runs] = new.db] ELSE localdb
             /\ trust' = IF m = "trust" THEN new.trust ELSE trust
             /\ hist' = IF m = "hist" THEN new.hist ELSE hist
             /\ bind' = IF m = "bind" THEN [bind EXCEPT ![runs] = new.bind] ELSE bind
             /\ UNCHANGED <<known, runs, faults, own, all, tries>>
<1> DEFINE new == mig.new
           m == Head(mig.todo)
<1>1. /\ mig # None /\ mig.pc = "put" /\ runs \in Run /\ PutInv /\ mig.todo # << >>
      /\ mig' = [pc |-> "put", new |-> new, found |-> mig.found, todo |-> Tail(mig.todo)]
      /\ reg' = IF m = "reg" THEN new.reg ELSE reg
      /\ man' = IF m = "man" THEN new.man ELSE man
      /\ homedb' = IF m = "drop" THEN None ELSE homedb
      /\ localdb' = IF m = "db" THEN [localdb EXCEPT ![runs] = new.db] ELSE localdb
      /\ bind' = IF m = "bind" THEN [bind EXCEPT ![runs] = new.bind] ELSE bind
  BY PutFacts DEF WholeInv
<1>2. StagedHome /\ Placed
  BY <1>1 DEF WholeInv, HomeInv
<1>3. /\ trust' = IF m = "trust" THEN new.trust ELSE trust
      /\ hist' = IF m = "hist" THEN new.hist ELSE hist
      /\ UNCHANGED <<known, runs, faults, own, all, tries>>
  BY <1>1 DEF Put, Puts, history
<1>4. mig.todo \in Seq(Member) /\ Ordered(mig.todo)
  BY <1>1, <1>2 DEF PutInv, Placed
<1>5. /\ m \in Member /\ Ordered(Tail(mig.todo))
      /\ \A x \in Member : Awaits(mig.todo, x) <=> x = m \/ Awaits(Tail(mig.todo), x)
      /\ \A x \in Member : Turn[x] < Turn[m] => ~ Awaits(mig.todo, x)
  BY <1>1, <1>4, TurnFacts
<1>6. ~ Awaits(Tail(mig.todo), m)
  BY <1>1, <1>4, TailFacts DEF PutInv
<1>7. /\ mig'.pc = "put" /\ mig'.new = new /\ mig'.found = mig.found
      /\ mig'.todo = Tail(mig.todo)
  BY <1>1
<1>8. QED
  BY <1>1, <1>2, <1>3, <1>5, <1>6, <1>7

LEMMA PutWhole ==
  ASSUME WholeInv, Put
  PROVE  HomeInv' /\ FirstInv'
<1> DEFINE new == mig.new
           m == Head(mig.todo)
           was == mig.found
<1>1. /\ mig # None /\ mig.pc = "put" /\ runs \in Run /\ PutInv /\ StagedHome /\ Placed
      /\ m \in Member
      /\ mig'.pc = "put" /\ mig'.new = new /\ mig'.found = was
      /\ mig'.todo = Tail(mig.todo) /\ Ordered(mig'.todo)
      /\ \A x \in Member : Awaits(mig.todo, x) <=> x = m \/ Awaits(mig'.todo, x)
      /\ \A x \in Member : Turn[x] < Turn[m] => ~ Awaits(mig.todo, x)
      /\ ~ Awaits(mig'.todo, m)
      /\ reg' = IF m = "reg" THEN new.reg ELSE reg
      /\ man' = IF m = "man" THEN new.man ELSE man
      /\ homedb' = IF m = "drop" THEN None ELSE homedb
      /\ localdb' = IF m = "db" THEN [localdb EXCEPT ![runs] = new.db] ELSE localdb
      /\ trust' = IF m = "trust" THEN new.trust ELSE trust
      /\ hist' = IF m = "hist" THEN new.hist ELSE hist
      /\ bind' = IF m = "bind" THEN [bind EXCEPT ![runs] = new.bind] ELSE bind
      /\ UNCHANGED <<known, runs, faults, own, all, tries>>
  BY PlaceFacts
<1> HIDE DEF m
<1>2. /\ Turn["reg"] = 1 /\ Turn["man"] = 2 /\ Turn["db"] = 3 /\ Turn["drop"] = 4
      /\ Turn["trust"] = 5 /\ Turn["hist"] = 6 /\ Turn["bind"] = 7
      /\ Member = {"reg", "man", "db", "drop", "trust", "hist", "bind"}
  BY DEF Turn, Member
<1>3. /\ runs \in Nat \ {0} /\ man.fid \in Nat /\ man.rev \in Nat
      /\ man # NoManifest => man.fid # 0
      /\ man = NoManifest => man.fid = 0
  <2>1. runs \in Nat \ {0}
    BY <1>1 DEF Run
  <2>2. QED
    BY <2>1, ManFacts DEF WholeInv, HomeInv
<1>4. /\ new.reg \in Registry /\ Keyless(new.reg) /\ new.hist \subseteq Node
      /\ new.db \in Content /\ new.bind \in [Ref -> Key \cup {None}]
      /\ new.trust \subseteq Node /\ new.trust # None
      /\ new.man = [fid |-> runs, rev |-> 0, sum |-> Sum(new.reg, new.trust, new.hist)]
      /\ new.man.fid = runs /\ new.man.rev = 0
      /\ new.man.sum = Sum(new.reg, new.trust, new.hist)
      /\ new.man.sum[2] = new.trust /\ new.man # NoManifest
  <2>1. new.trust \subseteq Node /\ new.trust # None
    <3>1. new.trust \subseteq Node
      BY <1>1 DEF StagedHome
    <3>2. QED
      BY <3>1, NoneAssumption
  <2>2. new.man = [fid |-> runs, rev |-> 0, sum |-> Sum(new.reg, new.trust, new.hist)]
    BY <1>1 DEF StagedHome
  <2>3. /\ new.man.fid = runs /\ new.man.rev = 0
        /\ new.man.sum = Sum(new.reg, new.trust, new.hist)
    BY <2>2
  <2>4. new.man.sum[2] = new.trust
    BY <2>3 DEF Sum
  <2>5. new.man # NoManifest
    BY <1>3, <2>3 DEF NoManifest
  <2>6. QED
    BY <1>1, <2>1, <2>2, <2>3, <2>4, <2>5 DEF StagedHome
<1>5. /\ \A r \in Run : r # runs => localdb'[r] = localdb[r] /\ bind'[r] = bind[r]
      /\ m = "db" => localdb'[runs] = new.db
      /\ m = "bind" => bind'[runs] = new.bind
      /\ localdb' \in [Run -> Content] /\ bind' \in [Run -> [Ref -> Key \cup {None}]]
  BY <1>1, <1>4 DEF WholeInv, HomeInv
<1>6. StagedHome'
  BY <1>1 DEF StagedHome, Keyless
<1>7. Placed'
  <2>1. IF Awaits(mig'.todo, "man") THEN man'.fid < runs ELSE man' = new.man
    BY <1>1, <1>2 DEF Placed
  <2>2. /\ ~ Awaits(mig'.todo, "reg")   => reg' = new.reg
        /\ ~ Awaits(mig'.todo, "trust") => trust' = new.trust
        /\ ~ Awaits(mig'.todo, "hist")  => hist' = new.hist
    BY <1>1, <1>2 DEF Placed
  <2>3. ~ Awaits(mig'.todo, "bind") => bind'[runs] = new.bind
    BY <1>1, <1>2, <1>5 DEF Placed
  <2>4. ~ Awaits(mig'.todo, "db") => localdb'[runs] = new.db
    BY <1>1, <1>2, <1>5 DEF Placed
  <2>5. ~ Awaits(mig'.todo, "trust") => ~ Awaits(mig'.todo, "db")
    BY <1>1, <1>2 DEF Placed
  <2>6. QED
    BY <1>1, <2>1, <2>2, <2>3, <2>4, <2>5 DEF Placed
<1>8. HomeInv'
  <2>1. reg' \in Registry /\ (man' # NoManifest => Keyless(reg)')
    <3>1. reg' \in Registry
      BY <1>1, <1>4 DEF WholeInv, HomeInv
    <3>2. ASSUME man' # NoManifest PROVE Keyless(reg)'
      <4>1. CASE m = "reg"
        BY <1>1, <1>4, <4>1 DEF Keyless
      <4>2. CASE m = "man"
        <5>1. reg' = new.reg
          BY <1>1, <1>2, <4>2 DEF Placed
        <5>2. QED
          BY <1>4, <5>1 DEF Keyless
      <4>3. CASE m \notin {"reg", "man"}
        BY <1>1, <3>2, <4>3 DEF WholeInv, HomeInv, Keyless
      <4>4. QED
        BY <4>1, <4>2, <4>3
    <3>3. QED
      BY <3>1, <3>2
  <2>2. /\ trust' \in (SUBSET Node) \cup {None} /\ hist' \in (SUBSET Node) \cup {None}
        /\ homedb' \in Content
    BY <1>1, <1>4, RowsFacts DEF WholeInv, HomeInv
  <2>3. /\ man'.fid = 0 => man' = NoManifest
        /\ man'.rev \in Nat /\ (man' # NoManifest => man'.fid + man'.rev <= runs + 1)
    <3>1. CASE m = "man"
      BY <1>1, <1>3, <1>4, <3>1
    <3>2. CASE m # "man"
      BY <1>1, <3>2 DEF WholeInv, HomeInv
    <3>3. QED
      BY <3>1, <3>2
  <2>4. QED
    BY <1>1, <1>5, <1>6, <1>7, <2>1, <2>2, <2>3 DEF WholeInv, HomeInv
<1>9. FirstInv'
  <2> SUFFICES ASSUME tries' <= 1 PROVE FirstInv'
    BY DEF FirstInv
  <2>1. /\ tries' = tries /\ tries <= 1 /\ tries # 0 /\ all' = all /\ own' = own
        /\ \A n \in Node : was.reg[n] # None => was.reg[n].ref = None /\ was.reg[n].key = own[n]
        /\ all \subseteq was.rows
        /\ Awaits(mig.todo, "man") => man = NoManifest
        /\ Awaits(mig.todo, "trust") => trust = None
    BY <1>1 DEF WholeInv, FirstInv
  <2>2. all \subseteq Rows(new.db)
    BY <1>1, <2>1 DEF StagedHome
  \* what is staged names the key of each node
  <2>3. \A n \in Node : new.reg[n] # None =>
          IF new.reg[n].ref = None THEN own[n] = None /\ new.reg[n].key = own[n]
          ELSE new.reg[n].ref \in Ref \ {0} /\ new.bind[new.reg[n].ref] = own[n]
    <3> SUFFICES ASSUME NEW n \in Node, new.reg[n] # None
                 PROVE  IF new.reg[n].ref = None THEN own[n] = None /\ new.reg[n].key = own[n]
                        ELSE new.reg[n].ref \in Ref \ {0} /\ new.bind[new.reg[n].ref] = own[n]
      OBVIOUS
    <3>1. was.reg[n] # None /\ was.reg[n].ref = None /\ was.reg[n].key = own[n]
      BY <1>1, <2>1 DEF StagedHome
    <3>2. CASE own[n] = None
      BY <1>1, <3>1, <3>2 DEF StagedHome
    <3>3. CASE own[n] # None
      <4>1. new.reg[n].ref \in Ref \ {0} /\ new.bind[new.reg[n].ref] = own[n]
        BY <1>1, <3>1, <3>3 DEF StagedHome
      <4>2. QED
        BY <4>1, RefFacts
    <3>4. QED
      BY <3>2, <3>3
  <2>4. man = NoManifest => m \in {"reg", "man"} /\ Awaits(mig.todo, "man")
    <3>1. ~ Awaits(mig.todo, "man") => man = new.man
      BY <1>1 DEF Placed
    <3>2. m \notin {"reg", "man"} => Turn["man"] < Turn[m]
      BY <1>1, <1>2
    <3>3. QED
      BY <1>1, <1>2, <1>4, <3>1, <3>2
  <2>5. /\ Awaits(mig'.todo, "man") => man' = NoManifest
        /\ Awaits(mig'.todo, "trust") => trust' = None
    BY <1>1, <1>2, <2>1
  <2>6. ASSUME man' = NoManifest
        PROVE  /\ \A n \in Node : reg'[n] # None /\ reg'[n].ref = None => reg'[n].key = own[n]
               /\ trust' = None /\ all \subseteq Rows(homedb')
    <3>1. m # "man" /\ man = NoManifest
      BY <1>1, <1>4, <2>6
    <3>2. m = "reg"
      BY <2>4, <3>1
    <3>3. trust' = None /\ homedb' = homedb /\ all \subseteq Rows(homedb)
      BY <1>1, <2>1, <3>1, <3>2 DEF WholeInv, FirstInv
    <3>4. QED
      BY <1>1, <2>3, <3>2, <3>3
  <2>7. ASSUME man' # NoManifest
        PROVE  /\ \A n \in Node : reg'[n] # None =>
                    /\ reg'[n].ref = None => own[n] = None
                    /\ reg'[n].ref \notin {None, 0} =>
                         bind'[man'.fid][reg'[n].ref] \in {None, own[n]}
               /\ trust' = None => man'.sum[2] # None
               /\ trust' # None => all \subseteq Rows(localdb'[man'.fid])
    <3>1. man' = new.man /\ reg' = new.reg /\ man'.fid = runs
      <4>1. ~ Awaits(mig.todo, "reg") \/ m = "reg"
        BY <1>1, <1>2, <2>1, <2>4, <2>7
      <4>2. ~ Awaits(mig'.todo, "man")
        BY <2>5, <2>7
      <4>3. man' = new.man
        BY <1>1, <1>7, <4>2 DEF Placed
      <4>4. reg' = new.reg
        BY <1>1, <1>2, <4>1 DEF Placed
      <4>5. QED
        BY <1>4, <4>3, <4>4
    <3>2. bind'[runs] = NoBindings \/ bind'[runs] = new.bind
      BY <1>1, <1>2, <1>5 DEF Placed, PutInv
    <3>3. ASSUME NEW n \in Node, reg'[n] # None
          PROVE  /\ reg'[n].ref = None => own[n] = None
                 /\ reg'[n].ref \notin {None, 0} =>
                      bind'[man'.fid][reg'[n].ref] \in {None, own[n]}
      BY <2>3, <3>1, <3>2, <3>3 DEF NoBindings
    <3>4. trust' # None => all \subseteq Rows(localdb'[man'.fid])
      <4> SUFFICES ASSUME trust' # None PROVE all \subseteq Rows(localdb'[runs])
        BY <3>1
      <4>1. ~ Awaits(mig'.todo, "trust")
        BY <2>5
      <4>2. ~ Awaits(mig'.todo, "db")
        BY <1>1, <1>7, <4>1 DEF Placed
      <4>3. localdb'[runs] = new.db
        BY <1>1, <1>7, <4>2 DEF Placed
      <4>4. QED
        BY <2>2, <4>3
    <3>5. trust' = None => man'.sum[2] # None
      BY <1>4, <3>1
    <3>6. QED
      BY <3>3, <3>4, <3>5
  <2>8. /\ tries' # 0 /\ mig'.pc = "put" /\ mig'.found.reg = was.reg
        /\ mig'.found.rows = was.rows
    BY <1>1, <2>1
  <2>9. ~ (tries' = 0) /\ ~ (mig'.pc = "stage") /\ ~ (mig'.pc \in {"stage", "copy"})
    BY <2>8
  <2>10. /\ \A n \in Node : mig'.found.reg[n] # None =>
              mig'.found.reg[n].ref = None /\ mig'.found.reg[n].key = own'[n]
         /\ all' \subseteq mig'.found.rows
    BY <2>1, <2>8
  <2>11. man' = NoManifest =>
           /\ \A n \in Node : reg'[n] # None /\ reg'[n].ref = None => reg'[n].key = own'[n]
           /\ trust' = None /\ all' \subseteq Rows(homedb')
    BY <2>1, <2>6
  <2>12. man' # NoManifest =>
           /\ \A n \in Node : reg'[n] # None =>
                /\ reg'[n].ref = None => own'[n] = None
                /\ reg'[n].ref \notin {None, 0} =>
                     bind'[man'.fid][reg'[n].ref] \in {None, own'[n]}
           /\ trust' = None => man'.sum[2] # None
           /\ trust' # None => all' \subseteq Rows(localdb'[man'.fid])
    BY <2>1, <2>7
  <2>13. QED
    BY <2>5, <2>9, <2>10, <2>11, <2>12 DEF FirstInv, Rows, NoManifest
<1>10. QED
  BY <1>8, <1>9

(* Where every member is in place.                                         *)
LEMMA AllPlaced ==
  ASSUME WholeInv, Committing
  PROVE  /\ mig # None /\ mig.pc = "put" /\ runs \in Run /\ StagedHome
         /\ reg = mig.new.reg /\ trust = mig.new.trust /\ hist = mig.new.hist
         /\ bind[runs] = mig.new.bind /\ localdb[runs] = mig.new.db
         /\ trust # None /\ man.fid = runs /\ man.rev = 0 /\ man # NoManifest
<1>1. /\ mig # None /\ mig.pc = "put" /\ mig.todo = << >> /\ runs \in Run
      /\ StagedHome /\ Placed
  BY DEF Committing, WholeInv, HomeInv, MigInv
<1>2. \A m : ~ Awaits(mig.todo, m)
  BY <1>1 DEF Awaits
<1>3. /\ reg = mig.new.reg /\ trust = mig.new.trust /\ hist = mig.new.hist
      /\ bind[runs] = mig.new.bind /\ localdb[runs] = mig.new.db /\ man = mig.new.man
  BY <1>1, <1>2 DEF Placed
<1>4. mig.new.man = [fid |-> runs, rev |-> 0, sum |-> Sum(reg, trust, hist)]
  BY <1>1, <1>3 DEF StagedHome
<1>5. man.fid = runs /\ man.rev = 0
  BY <1>3, <1>4
<1>6. man # NoManifest
  BY <1>1, <1>5 DEF NoManifest, Run
<1>7. trust # None
  <2>1. trust \subseteq Node
    BY <1>1, <1>3 DEF StagedHome
  <2>2. QED
    BY <2>1, NoneAssumption
<1>8. QED
  BY <1>1, <1>3, <1>5, <1>6, <1>7

LEMMA CommitManifest ==
  ASSUME WholeInv, Commit
  PROVE  /\ man' = [fid |-> runs, rev |-> 1, sum |-> Sum(reg, trust, hist)]
         /\ man'.fid = runs /\ man'.rev = 1 /\ man'.sum = Sum(reg, trust, hist)
         /\ man' # NoManifest
<1>1. Committing /\ man' = Advanced(reg, trust, hist) /\ ManifestShape(man)
  BY DEF Commit, WholeInv, MigInv
<1>2. man.fid = runs /\ man.rev = 0 /\ runs \in Run
  BY <1>1, AllPlaced
<1>3. man' = [fid |-> runs, rev |-> 1, sum |-> Sum(reg, trust, hist)]
  BY <1>1, <1>2, AdvancedIs
<1>4. man'.fid = runs /\ man'.rev = 1 /\ man'.sum = Sum(reg, trust, hist)
  BY <1>3
<1>5. man' # NoManifest
  BY <1>2, <1>4 DEF NoManifest, Run
<1>6. QED
  BY <1>3, <1>4, <1>5

LEMMA CommitWhole ==
  ASSUME WholeInv, Commit
  PROVE  HomeInv' /\ FirstInv'
<1>1. /\ Committing /\ mig' = None
      /\ UNCHANGED <<reg, trust, hist, homedb, localdb, bind, known, runs, faults,
                     own, all, tries>>
  BY DEF Commit, history
<1>2. /\ man'.fid = runs /\ man'.rev = 1 /\ man'.sum = Sum(reg, trust, hist)
      /\ man' # NoManifest
  BY CommitManifest
<1>3. /\ mig # None /\ mig.pc = "put" /\ man.fid = runs /\ man # NoManifest
      /\ trust # None /\ runs \in Nat \ {0} /\ reg = mig.new.reg
      /\ Keyless(mig.new.reg)
  BY <1>1, AllPlaced DEF Run, StagedHome
<1>4. HomeInv'
  <2>1. Keyless(reg)'
    BY <1>1, <1>3 DEF Keyless
  <2>2. man'.rev \in Nat /\ man'.fid + man'.rev <= runs' + 1
    BY <1>1, <1>2, <1>3
  <2>3. QED
    BY <1>1, <1>2, <1>3, <2>1, <2>2 DEF WholeInv, HomeInv
<1>5. FirstInv'
  <2> SUFFICES ASSUME tries <= 1 PROVE FirstInv'
    BY <1>1 DEF FirstInv
  <2>1. /\ tries # 0
        /\ \A n \in Node : reg[n] # None =>
             /\ reg[n].ref = None => own[n] = None
             /\ reg[n].ref \notin {None, 0} => bind[runs][reg[n].ref] \in {None, own[n]}
        /\ all \subseteq Rows(localdb[runs])
    BY <1>3 DEF WholeInv, FirstInv
  <2>2. QED
    BY <1>1, <1>2, <1>3, <2>1 DEF FirstInv
<1>6. QED
  BY <1>4, <1>5

LEMMA BreakOffWhole ==
  ASSUME WholeInv, BreakOff
  PROVE  HomeInv' /\ FirstInv'
<1>1. /\ mig # None /\ mig' = None /\ faults > 0 /\ faults' = faults - 1
      /\ UNCHANGED <<reg, man, trust, hist, homedb, localdb, bind, known, runs,
                     own, all, tries>>
  BY DEF BreakOff, home, history
<1>2. faults' \in 0 .. MaxFaults
  BY <1>1, MigrateAssumption DEF WholeInv, HomeInv
<1>3. HomeInv'
  BY <1>1, <1>2 DEF WholeInv, HomeInv, Keyless
<1>4. FirstInv'
  <2> SUFFICES ASSUME tries <= 1 PROVE FirstInv'
    BY <1>1 DEF FirstInv
  <2>1. tries # 0
    BY <1>1 DEF WholeInv, FirstInv
  <2>2. QED
    BY <1>1, <2>1 DEF WholeInv, FirstInv, Rows
<1>5. QED
  BY <1>3, <1>4

(* Every node of a legacy home is pinned in the operator's own file: what  *)
(* the first clause says of the home as it is, the second says of the home *)
(* that a migration found.                                                 *)
PinnedInv ==
  /\ man = NoManifest => Registered \subseteq known
  /\ mig # None /\ mig.pc \in {"copy", "put"} =>
       /\ mig.found.known = known
       /\ man = NoManifest => mig.found.fid = 0
       /\ mig.found.fid = 0 =>
            {n \in Node : mig.found.reg[n] # None} \subseteq mig.found.known

LEMMA PinnedStep ==
  ASSUME WholeInv, PinnedInv, [Next]_vars
  PROVE  PinnedInv'
<1>1. CASE UNCHANGED vars
  BY <1>1 DEF vars, home, history, PinnedInv, Registered
<1>2. ASSUME NEW n \in Node, NEW k \in Key \cup {None}, AdoptLegacy(n, k) PROVE PinnedInv'
  <2>1. reg \in [Node -> Cred \cup {None}]
    BY DEF WholeInv, HomeInv, Registry
  <2>2. man = NoManifest /\ mig' = None /\ known' = known \cup {n}
    BY <1>2 DEF AdoptLegacy, Begins, Idle
  <2>3. \A j \in Node \ {n} : reg'[j] = reg[j]
    BY <1>2, <2>1 DEF AdoptLegacy
  <2>4. QED
    BY <2>2, <2>3 DEF PinnedInv, Registered
<1>3. ASSUME NEW n \in Node, NEW k \in Key \cup {None}, AdoptInWorkspace(n, k)
      PROVE  PinnedInv'
  <2>1. man # NoManifest /\ mig' = None /\ man.fid # 0
    BY <1>3, ManFacts DEF AdoptInWorkspace, Begins, Idle, WholeInv
  <2>2. man' = man \/ man' = Advanced(reg', trust', hist)
    BY <1>3 DEF AdoptInWorkspace
  <2>3. man'.fid = man.fid
    BY <2>2, AdvancedIs DEF WholeInv, MigInv
  <2>4. man' # NoManifest
    BY <2>1, <2>3 DEF NoManifest
  <2>5. QED
    BY <2>1, <2>4 DEF PinnedInv
<1>4. ASSUME NEW n \in Node, Sync(n) PROVE PinnedInv'
  <2>1. mig' = None /\ UNCHANGED <<reg, known>>
    BY <1>4 DEF Sync, Begins, Idle
  <2>2. man' = NoManifest => man = NoManifest
    <3>1. man' = man \/ (man # NoManifest /\ man' = Advanced(reg, trust, hist'))
      BY <1>4 DEF Sync
    <3>2. man'.fid = man.fid
      BY <3>1, AdvancedIs DEF WholeInv, MigInv
    <3>3. QED
      BY <3>2, ManFacts DEF WholeInv, NoManifest
  <2>3. QED
    BY <2>1, <2>2 DEF PinnedInv, Registered
<1>5. CASE Begin
  BY <1>5 DEF Begin, home, PinnedInv, Registered
<1>6. CASE Stage
  <2>1. /\ mig'.found.reg = reg /\ mig'.found.fid = man.fid /\ mig'.found.known = known
        /\ UNCHANGED <<reg, man, known>>
    BY <1>6 DEF Stage, home
  <2>2. man.fid = 0 <=> man = NoManifest
    BY ManFacts DEF WholeInv
  <2>3. QED
    BY <2>1, <2>2 DEF PinnedInv, Registered
<1>7. CASE Copy
  BY <1>7 DEF Copy, home, PinnedInv, Registered
<1>8. CASE Put
  <2>1. /\ mig # None /\ mig.pc = "put" /\ mig'.found = mig.found /\ StagedHome
        /\ reg' = reg \/ reg' = mig.new.reg
        /\ man' = man \/ man' = mig.new.man
        /\ known' = known
    BY <1>8, PlaceFacts
  <2>2. mig.new.man # NoManifest /\ runs # 0
    <3>1. mig.new.man.fid = runs /\ runs \in Run
      BY <1>8, <2>1, PutFacts DEF StagedHome, WholeInv
    <3>2. QED
      BY <3>1 DEF NoManifest, Run
  <2>3. \A n \in Node : mig.new.reg[n] = None <=> mig.found.reg[n] = None
    BY <2>1 DEF StagedHome
  <2>4. man' = NoManifest => Registered' \subseteq known'
    <3> SUFFICES ASSUME man' = NoManifest, NEW n \in Registered' PROVE n \in known'
      OBVIOUS
    <3>1. man = NoManifest /\ mig.found.fid = 0
      BY <2>1, <2>2 DEF PinnedInv
    <3>2. n \in Node /\ reg'[n] # None
      BY DEF Registered
    <3>3. QED
      BY <2>1, <2>3, <3>1, <3>2 DEF PinnedInv, Registered
  <2>5. QED
    BY <2>1, <2>2, <2>4 DEF PinnedInv
<1>9. CASE Commit
  BY <1>9, CommitManifest DEF Commit, PinnedInv
<1>10. CASE BreakOff
  BY <1>10 DEF BreakOff, home, PinnedInv, Registered
<1>11. QED
  BY <1>1, <1>2, <1>3, <1>4, <1>5, <1>6, <1>7, <1>8, <1>9, <1>10 DEF Next, Migration

LEMMA WholeInit == Init => WholeInv
<1> SUFFICES ASSUME Init PROVE WholeInv
  OBVIOUS
<1>1. /\ reg = Unregistered /\ man = NoManifest /\ trust = None /\ hist = None
      /\ homedb = None /\ localdb = [r \in Run |-> None]
      /\ bind = [r \in Run |-> NoBindings] /\ known = {} /\ mig = None
      /\ runs = 0 /\ faults = MaxFaults
      /\ own = Unregistered /\ all = {} /\ tries = 0
  BY DEF Init
<1>2. NoManifest.fid = 0 /\ NoManifest.rev = 0
  BY DEF NoManifest
<1>3. HomeInv
  BY <1>1, <1>2, RowsFacts, MigrateAssumption
     DEF HomeInv, Registry, Unregistered, NoBindings
<1>4. FirstInv
  BY <1>1 DEF FirstInv, Unregistered
<1>5. QED
  BY <1>3, <1>4, MigInit DEF WholeInv

LEMMA WholeStep == WholeInv /\ [Next]_vars => WholeInv'
<1> SUFFICES ASSUME WholeInv, [Next]_vars PROVE WholeInv'
  OBVIOUS
<1>1. MigInv'
  BY MigStep DEF WholeInv
<1>2. CASE UNCHANGED vars
  <2>1. /\ UNCHANGED <<reg, man, trust, hist, homedb, localdb, bind, known, mig, runs,
                       faults, own, all, tries>>
    BY <1>2 DEF vars, home, history
  <2>2. HomeInv'
    BY <2>1 DEF WholeInv, HomeInv, Keyless, StagedHome, Placed
  <2>3. FirstInv'
    BY <2>1 DEF WholeInv, FirstInv, Rows
  <2>4. QED
    BY <1>1, <2>2, <2>3 DEF WholeInv
<1>3. CASE Next
  <2>1. HomeInv' /\ FirstInv'
    BY <1>3, AdoptLegacyWhole, AdoptInWorkspaceWhole, SyncWhole, BeginWhole, StageWhole,
       CopyWhole, PutWhole, CommitWhole, BreakOffWhole DEF Next, Migration
  <2>2. QED
    BY <1>1, <2>1 DEF WholeInv
<1>4. QED
  BY <1>2, <1>3

-----------------------------------------------------------------------------
(***************************************************************************)
(* The theorems.                                                           *)
(***************************************************************************)
LEMMA LeftFacts ==
  /\ \A x : x \in RowsLeft <=> \/ x \in Rows(homedb)
                               \/ \E r \in Run : x \in Rows(localdb[r])
                               \/ \E b \in bak : x \in Rows(b.db)
  /\ \A k : k \in KeysLeft <=> \/ \E n \in Node : reg[n] # None /\ k = reg[n].key
                               \/ \E b \in bak, n \in Node :
                                    b.reg[n] # None /\ k = b.reg[n].key
                               \/ \E r \in Run, x \in Ref : k = bind[r][x]
<1>1. \A x : x \in RowsLeft <=> \/ x \in Rows(homedb)
                                \/ \E r \in Run : x \in Rows(localdb[r])
                                \/ \E b \in bak : x \in Rows(b.db)
  BY DEF RowsLeft
<1>2. \A k : k \in KeysLeft <=> \/ \E n \in Node : reg[n] # None /\ k = reg[n].key
                                \/ \E b \in bak, n \in Node :
                                     b.reg[n] # None /\ k = b.reg[n].key
                                \/ \E r \in Run, x \in Ref : k = bind[r][x]
  BY DEF KeysLeft
<1>3. QED
  BY <1>1, <1>2

(* Imported rows and the paths of keys outlive every step of a migration.  *)
THEOREM NothingDestroyedHolds == Spec => NothingDestroyed
<1>1. MigInv /\ [Next]_vars =>
        [Migration => RowsLeft \subseteq RowsLeft' /\ KeysLeft \subseteq KeysLeft']_vars
  <2> SUFFICES ASSUME MigInv, Migration
               PROVE  RowsLeft \subseteq RowsLeft' /\ KeysLeft \subseteq KeysLeft'
    OBVIOUS
  <2>1. CASE UNCHANGED <<reg, homedb, localdb, bind>> /\ bak \subseteq bak'
    BY <2>1, LeftFacts DEF RowsLeft, KeysLeft, Rows
  <2>2. CASE Put
    <3>1. /\ runs \in Run /\ bak' = bak /\ StagedInv
          /\ reg' = reg \/ \E b \in bak : b.reg = reg
          /\ homedb' = homedb \/ \E b \in bak : b.db = homedb
          /\ \A r \in Run : localdb'[r] = localdb[r] \/ localdb[r] = None
          /\ \A r \in Run : \/ bind'[r] = bind[r]
                            \/ bind[r] = NoBindings /\ bind'[r] = mig.new.bind
      BY <2>2, PutFacts DEF PutInv, MigInv
    <3>2. RowsLeft \subseteq RowsLeft'
      BY <3>1 DEF RowsLeft, Rows
    <3>3. ASSUME NEW k \in KeysLeft PROVE k \in KeysLeft'
      <4>1. CASE \E n \in Node : reg[n] # None /\ k = reg[n].key
        BY <3>1, <4>1 DEF KeysLeft
      <4>2. CASE \E b \in bak, n \in Node : b.reg[n] # None /\ k = b.reg[n].key
        BY <3>1, <4>2 DEF KeysLeft
      <4>3. ASSUME NEW r \in Run, NEW x \in Ref, k = bind[r][x] PROVE k \in KeysLeft'
        <5>1. CASE bind'[r] = bind[r]
          BY <4>3, <5>1 DEF KeysLeft
        <5>2. CASE bind[r] = NoBindings /\ bind'[r] = mig.new.bind
          <6>1. k = None /\ bind'[r][0] = None
            BY <3>1, <4>3, <5>2 DEF NoBindings, StagedInv
          <6>2. QED
            BY <6>1, DefaultIsRef DEF KeysLeft
        <5>3. QED
          BY <3>1, <5>1, <5>2
      <4>4. QED
        BY <4>1, <4>2, <4>3, LeftFacts
    <3>4. QED
      BY <3>2, <3>3
  <2>3. QED
    BY <2>1, <2>2 DEF Migration, Begin, Stage, Copy, Commit, BreakOff, home, SetAside
<1>2. QED
  BY <1>1, MigInit, MigStep, PTL DEF Spec, NothingDestroyed

(* The files have the shapes they are read as, and the registry of a       *)
(* workspace never names a key file: a revision only counts commands.      *)
THEOREM TypeCorrect == Spec => []TypeOK
<1>1. WholeInv => TypeOK
  <2> SUFFICES ASSUME WholeInv PROVE TypeOK
    OBVIOUS
  <2>1. /\ man.fid \in 0 .. MaxRuns /\ man.rev \in 0 .. MaxRuns
        /\ runs \in 0 .. MaxRuns /\ tries \in 0 .. MaxRuns
    <3>1. /\ runs \in 0 .. MaxRuns /\ man.fid \in 0 .. runs /\ man.rev \in Nat
          /\ MaxRuns \in Nat /\ tries \in 0 .. runs
      BY ManFacts DEF WholeInv, MigInv, HomeInv
    <3>2. CASE man = NoManifest
      BY <3>1, <3>2 DEF NoManifest
    <3>3. CASE man # NoManifest
      BY <3>1, <3>3, ManFacts DEF WholeInv, HomeInv
    <3>4. QED
      BY <3>2, <3>3
  <2>2. man # NoManifest => \A n \in Registered : reg[n].key = None
    BY DEF WholeInv, HomeInv, Keyless, Registered
  <2>3. QED
    BY <2>1, <2>2 DEF WholeInv, HomeInv, Registry, TypeOK
<1>2. QED
  BY <1>1, WholeInit, WholeStep, PTL DEF Spec

(* A first migration that broke off left no home that works on with less.  *)
THEOREM BrokenIsRefusedHolds == Spec => []BrokenIsRefused
<1>1. WholeInv => BrokenIsRefused
  <2> SUFFICES ASSUME WholeInv, tries <= 1, NEW n \in Node, Reachable(n)
               PROVE  /\ reg[n].ref # 0 => KeyOf(reg[n]) = own[n]
                      /\ all \subseteq Rows(Db)
    BY DEF BrokenIsRefused
  <2>1. reg[n] # None /\ n \in Trusted /\ Bound(reg[n])
    BY DEF Reachable, Registered
  <2>2. CASE man = NoManifest
    <3>1. reg[n].ref = None
      BY <2>1, <2>2 DEF Bound
    <3>2. reg[n].key = own[n] /\ all \subseteq Rows(homedb)
      BY <2>1, <2>2, <3>1 DEF WholeInv, FirstInv
    <3>3. QED
      BY <2>2, <3>1, <3>2 DEF KeyOf, Db
  <2>3. CASE man # NoManifest
    <3>1. trust # None
      BY <2>1, <2>3 DEF Trusted
    <3>2. /\ reg[n].ref = None => own[n] = None /\ reg[n].key = None
          /\ reg[n].ref \notin {None, 0} => bind[man.fid][reg[n].ref] \in {None, own[n]}
          /\ all \subseteq Rows(localdb[man.fid])
      BY <2>1, <2>3, <3>1 DEF WholeInv, FirstInv, HomeInv, Keyless
    <3>3. QED
      BY <2>1, <2>3, <3>2 DEF KeyOf, Bound, Db
  <2>4. QED
    BY <2>2, <2>3
<1>2. QED
  BY <1>1, WholeInit, WholeStep, PTL DEF Spec

(* A migration that says ok leaves a workspace with the rows of the home   *)
(* it found, in which a legacy home's nodes are all reached, and one that  *)
(* was named without a ref with the key it was named with.                 *)
THEOREM OkIsWholeHolds == Spec => OkIsWhole
<1>1. WholeInv /\ PinnedInv /\ [Next]_vars =>
        [Committing /\ man'.rev = 1 =>
           /\ ~Inconsistent'
           /\ Rows(Db)' = mig.found.rows
           /\ WasLegacy => \A n \in Registered' : Reachable(n)'
           /\ \A n \in Registered' :
                /\ n \in mig.found.known => n \in Trusted'
                /\ mig.found.reg[n].ref = None =>
                     Bound(reg[n])' /\ KeyOf(reg[n])' = mig.found.reg[n].key]_vars
  <2> SUFFICES ASSUME WholeInv, PinnedInv, Next, Committing, man'.rev = 1
               PROVE  /\ ~Inconsistent'
                      /\ Rows(Db)' = mig.found.rows
                      /\ WasLegacy => \A n \in Registered' : Reachable(n)'
                      /\ \A n \in Registered' :
                           /\ n \in mig.found.known => n \in Trusted'
                           /\ mig.found.reg[n].ref = None =>
                                Bound(reg[n])' /\ KeyOf(reg[n])' = mig.found.reg[n].key
    OBVIOUS
  <2>1. /\ mig # None /\ mig.pc = "put" /\ runs \in Run /\ StagedHome
        /\ reg = mig.new.reg /\ trust = mig.new.trust
        /\ bind[runs] = mig.new.bind /\ localdb[runs] = mig.new.db
        /\ trust # None /\ man.rev = 0
    BY AllPlaced
  <2>2. Commit
    <3>1. ~ BreakOff
      BY <2>1 DEF BreakOff, home
    <3>2. QED
      BY <2>1, <3>1 DEF Next, Migration, AdoptLegacy, AdoptInWorkspace, Sync, Begin, Begins,
                        Idle, Stage, Copy, Put, Puts, Committing
  <2>3. /\ UNCHANGED <<reg, trust, hist, localdb, bind>>
        /\ man'.fid = runs /\ man'.sum = Sum(reg, trust, hist) /\ man' # NoManifest
    BY <2>2, CommitManifest DEF Commit
  <2>4. ~Inconsistent'
    BY <2>3 DEF Inconsistent, Sum
  <2>5. Rows(Db)' = mig.found.rows
    BY <2>1, <2>3 DEF Db, Rows, StagedHome
  <2>6. ASSUME NEW n \in Registered'
        PROVE  /\ n \in mig.found.known => n \in Trusted'
               /\ mig.found.reg[n].ref = None =>
                    Bound(reg[n])' /\ KeyOf(reg[n])' = mig.found.reg[n].key
    <3>1. n \in Node /\ reg' = reg /\ mig.found.reg[n] # None
      BY <2>1, <2>3 DEF Registered, StagedHome
    <3>2. n \in mig.found.known => n \in Trusted'
      BY <2>1, <2>3, <3>1 DEF Trusted, StagedHome
    <3>3. ASSUME mig.found.reg[n].ref = None
          PROVE  Bound(reg[n])' /\ KeyOf(reg[n])' = mig.found.reg[n].key
      <4>1. CASE mig.found.reg[n].key = None
        <5>1. reg'[n].ref = None /\ reg'[n].key = mig.found.reg[n].key
          BY <2>1, <3>1, <3>3, <4>1 DEF StagedHome
        <5>2. QED
          BY <5>1 DEF Bound, KeyOf
      <4>2. CASE mig.found.reg[n].key # None
        <5>1. /\ reg'[n].ref \in Ref \ {0}
              /\ bind'[runs][reg'[n].ref] = mig.found.reg[n].key
          BY <2>1, <2>3, <3>1, <4>2 DEF StagedHome
        <5>2. reg'[n].ref # None
          BY <5>1, RefFacts
        <5>3. QED
          BY <2>3, <4>2, <5>1, <5>2 DEF Bound, KeyOf
      <4>3. QED
        BY <4>1, <4>2
    <3>4. QED
      BY <3>2, <3>3
  <2>7. ASSUME WasLegacy, NEW n \in Registered' PROVE Reachable(n)'
    <3>1. n \in Node /\ mig.found.reg[n] # None
      BY <2>1, <2>3 DEF Registered, StagedHome
    <3>2. n \in mig.found.known /\ mig.found.reg[n].ref = None
      BY <2>1, <2>7, <3>1 DEF WasLegacy, PinnedInv
    <3>3. QED
      BY <2>6, <3>2 DEF Reachable
  <2>8. QED
    BY <2>4, <2>5, <2>6, <2>7
<1>2. Init => PinnedInv
  BY DEF Init, PinnedInv, Registered, Unregistered
<1>3. QED
  BY <1>1, <1>2, WholeInit, WholeStep, PinnedStep, PTL DEF Spec, OkIsWhole

=============================================================================
