------------------------------- MODULE Migrate -------------------------------
(***************************************************************************)
(* vcl-fleet workspace migrate (lib/workspace.py, lib/trust.py,            *)
(* lib/access.py): a legacy home becomes a workspace.  A registry that     *)
(* names the operator's key files becomes one that names credential refs,  *)
(* which the machine binds to the files; the pinned host keys of the fleet *)
(* and its instance history are copied; fleet.db moves to the state        *)
(* directory of the new fleet_id.  Everything is staged, the old files are *)
(* copied aside, and the new ones replace them one by one.                 *)
(*                                                                         *)
(* The fleet operation lock is held throughout, so other commands run only *)
(* before and after; but the migration may die or be killed between any    *)
(* two replacements, and what it has replaced then stays.                  *)
(*                                                                         *)
(* A definition whose comment starts with "Mutant of" is not part of the   *)
(* specification (see Accountd).                                           *)
(***************************************************************************)
EXTENDS Naturals, FiniteSets, Sequences, Functions

CONSTANTS
  Node, Key,
  None,      \* no file, no key, no ref
  MaxRuns,   \* bound: commands ever begun
  MaxFaults  \* bound: migrations that die or are killed

ASSUME MigrateAssumption ==
  /\ IsFiniteSet(Key) /\ MaxRuns \in Nat /\ MaxFaults \in Nat

(* None is no other value of the model: no name, ref, file or registration. *)
ASSUME NoneAssumption ==
  /\ None \notin Node \cup Key \cup Nat
  /\ \A S \in SUBSET Node : S # None
  /\ \A S \in SUBSET (Node \X (1..MaxRuns)) : S # None
  /\ \A k \in Key \cup {None}, r \in 0..Cardinality(Key) \cup {None} :
       [key |-> k, ref |-> r] # None

VARIABLES
  reg,      \* fleet.json
  man,      \* workspace.json
  trust,    \* trust/known_hosts
  hist,     \* history/instances.jsonl
  homedb,   \* fleet.db of the legacy home
  localdb,  \* fleet.db of each fleet_id
  bind,     \* credential-bindings.json of each fleet_id
  known,    \* hosts in ~/.ssh/known_hosts
  bak,      \* the copies set aside
  mig,      \* the migration under way
  runs,     \* commands begun
  faults,   \* faults still to come
  own,      \* history: the key each node was adopted with
  all,      \* history: rows ever imported
  tries     \* history: migrations begun

home == <<reg, man, trust, hist, homedb, localdb, bind, known>>
history == <<own, all, tries>>
vars == <<home, bak, mig, runs, faults, history>>

Run == 1..MaxRuns    \* names fleet_ids and rows by the command that made them

-----------------------------------------------------------------------------
(* "admin-default" is 0, "migrated-key-1" is 1.                            *)
Ref == 0..Cardinality(Key)

(* How a node is reached: with the key of a file, the one a ref is bound   *)
(* to, or OpenSSH's own choice.                                            *)
OpenSSH == [key |-> None, ref |-> None]
File(k) == [key |-> k, ref |-> None]
ByRef(r) == [key |-> None, ref |-> r]

Unregistered == [n \in Node |-> None]
NoBindings == [r \in Ref |-> None]

(* A digest is what it was computed over.                                  *)
NoManifest == [fid |-> 0, rev |-> 0, sum |-> None]
Sum(r, t, h) == <<r, t, h>>

Registered == {n \in Node : reg[n] # None}

Inconsistent == man # NoManifest /\ man.sum # Sum(reg, trust, hist)

(* fleet_db_path                                                           *)
Db == IF man = NoManifest THEN homedb ELSE localdb[man.fid]

Rows(db) == IF db = None THEN {} ELSE db
Instances(db) == {row[1] : row \in Rows(db)}

(* The key of a node; a ref that is not bound is refused.                  *)
Bound(c) == c.ref # None => man # NoManifest /\ bind[man.fid][c.ref] # None
KeyOf(c) == IF c.ref = None THEN c.key ELSE bind[man.fid][c.ref]

(* ssh checks the host key against the file of the workspace, if there is  *)
(* one, and else against the operator's.                                   *)
Trusted == IF man = NoManifest THEN known ELSE IF trust = None THEN {} ELSE trust

Reachable(n) == n \in Registered \cap Trusted /\ Bound(reg[n])

-----------------------------------------------------------------------------
(* The other commands, under the fleet operation lock.                     *)

Idle == mig = None
Begins == Idle /\ runs < MaxRuns /\ runs' = runs + 1

(* One revision: what is written, and its digest.                          *)
Advanced(r, t, h) == [man EXCEPT !.rev = @ + 1, !.sum = Sum(r, t, h)]

AdoptLegacy(n, k) ==
  /\ Begins /\ man = NoManifest /\ n \notin Registered
  /\ known' = known \cup {n}
  /\ reg' = [reg EXCEPT ![n] = IF k = None THEN OpenSSH ELSE File(k)]
  /\ own' = [own EXCEPT ![n] = k]
  /\ UNCHANGED <<man, trust, hist, homedb, localdb, bind, bak, mig, faults, all, tries>>

(* _bind_identity_for_workspace comes first; then the host key is pinned,  *)
(* which an inconsistent workspace refuses.                                *)
AdoptInWorkspace(n, k) ==
  /\ Begins /\ man # NoManifest /\ n \notin Registered
  /\ bind' = IF k = None THEN bind ELSE [bind EXCEPT ![man.fid][0] = k]
  /\ IF Inconsistent THEN UNCHANGED <<reg, man, trust, own>>
     ELSE /\ trust' = Trusted \cup {n}
          /\ reg' = [reg EXCEPT ![n] = IF k = None THEN OpenSSH ELSE ByRef(0)]
          /\ man' = Advanced(reg', trust', hist)
          /\ own' = [own EXCEPT ![n] = k]
  /\ UNCHANGED <<hist, homedb, localdb, known, bak, mig, faults, all, tries>>

(* A sync adds rows to the database, made anew when it is missing; the     *)
(* node keeps no older ones.  The history line of a new instance is not    *)
(* appended to an inconsistent workspace.                                  *)
Sync(n) ==
  /\ Begins /\ Reachable(n)
  /\ LET new == Rows(Db) \cup {<<n, runs + 1>>}
     IN IF man = NoManifest THEN homedb' = new /\ UNCHANGED localdb
        ELSE localdb' = [localdb EXCEPT ![man.fid] = new] /\ UNCHANGED homedb
  /\ all' = all \cup {<<n, runs + 1>>}
  /\ IF Inconsistent \/ n \in Instances(Db) THEN UNCHANGED <<man, hist>>
     ELSE /\ hist' = (IF hist = None THEN {} ELSE hist) \cup {n}
          /\ man' = IF man = NoManifest THEN man ELSE Advanced(reg, trust, hist')
  /\ UNCHANGED <<reg, trust, bind, known, bak, mig, faults, own, tries>>

-----------------------------------------------------------------------------
(* The migration.                                                          *)

(* The key files get refs, in the order the registry names them; a node    *)
(* that has a ref already keeps it.                                        *)
KeyFiles == {c.key : c \in {reg[n] : n \in Registered}} \ {None}

Mappings == {f \in [KeyFiles -> 1..Cardinality(KeyFiles)] : IsInjective(f)}

StagedRegistry(f) ==
  [n \in Node |-> IF n \in Registered /\ reg[n].key # None
                  THEN ByRef(f[reg[n].key]) ELSE reg[n]]

StagedBindings(f) ==
  [r \in Ref |-> IF \E k \in KeyFiles : f[k] = r
                 THEN CHOOSE k \in KeyFiles : f[k] = r ELSE None]

(* extract_fleet_host_trust: no keyscan, and nothing of the workspace's    *)
(* own file.                                                               *)
StagedTrust == Registered \cap known

(* Mutant of StagedDb: the database of the home, whatever home it is.      *)
StagedDbOfHome == homedb

(* _copy_fleet_db_to_staging                                               *)
StagedDb == Db

StagedHistory == Instances(Db)

(* load_registry, the integrity check of the database, a new fleet_id; no  *)
(* workspace is in the way.                                                *)
Begin ==
  /\ Begins /\ mig' = [pc |-> "stage"]
  /\ tries' = tries + 1
  /\ UNCHANGED <<home, bak, faults, own, all>>

Staged(f) ==
  LET r == StagedRegistry(f)
      t == StagedTrust
      h == StagedHistory
  IN  [reg |-> r, trust |-> t, hist |-> h, db |-> StagedDb, bind |-> StagedBindings(f),
       man |-> [fid |-> runs, rev |-> 0, sum |-> Sum(r, t, h)]]

(* What an empty staging directory is filled with, and what was found.     *)
Stage ==
  /\ mig # None /\ mig.pc = "stage"
  /\ \E f \in Mappings :
       mig' = [pc |-> "copy", new |-> Staged(f),
               found |-> [reg |-> reg, rows |-> Rows(Db), fid |-> man.fid,
                          known |-> known]]
  /\ UNCHANGED <<home, bak, runs, faults, history>>

(* Mutant of Members: the manifest before the registry.                    *)
MembersManFirst(new) ==
  <<"man", "reg">> \o (IF new.db = None THEN << >> ELSE <<"db", "drop">>)
    \o <<"trust", "hist", "bind">>

(* Mutant of Members: host keys before the database.                       *)
MembersTrustFirst(new) ==
  <<"reg", "man", "trust", "hist">>
    \o (IF new.db = None THEN << >> ELSE <<"db", "drop">>) \o <<"bind">>

Members(new) ==
  IF new.db = None THEN <<"reg", "man", "trust", "hist", "bind">>
  ELSE <<"reg", "man", "db", "drop", "trust", "hist", "bind">>

(* Mutant of SetAside: fleet.json is not copied.                           *)
SetAsideDb == bak \cup {[reg |-> Unregistered, db |-> homedb]}

(* legacy-pre-workspace-<time>                                             *)
SetAside == bak \cup {[reg |-> reg, db |-> homedb]}

Copy ==
  /\ mig # None /\ mig.pc = "copy"
  /\ bak' = SetAside
  /\ mig' = [pc |-> "put", new |-> mig.new, found |-> mig.found, todo |-> Members(mig.new)]
  /\ UNCHANGED <<home, runs, faults, history>>

Puts(member) == mig # None /\ mig.pc = "put" /\ mig.todo # << >> /\ Head(mig.todo) = member

(* The next member of the staging directory replaces its file, each with   *)
(* one rename.                                                             *)
Put ==
  LET new == mig.new
  IN  /\ \E m \in {"reg", "man", "db", "drop", "trust", "hist", "bind"} : Puts(m)
      /\ mig' = [mig EXCEPT !.todo = Tail(@)]
      /\ reg' = IF Puts("reg") THEN new.reg ELSE reg
      /\ man' = IF Puts("man") THEN new.man ELSE man
      /\ localdb' = IF Puts("db") THEN [localdb EXCEPT ![new.man.fid] = new.db] ELSE localdb
      /\ homedb' = IF Puts("drop") THEN None ELSE homedb
      /\ trust' = IF Puts("trust") THEN new.trust ELSE trust
      /\ hist' = IF Puts("hist") THEN new.hist ELSE hist
      /\ bind' = IF Puts("bind") THEN [bind EXCEPT ![new.man.fid] = new.bind] ELSE bind
      /\ UNCHANGED <<known, bak, runs, faults, history>>

(* The first revision, through workspace_mutation, which finds nothing in  *)
(* conflict; and the result is ok.                                         *)
Committing == mig # None /\ mig.pc = "put" /\ mig.todo = << >> /\ ~Inconsistent

Commit ==
  /\ Committing
  /\ man' = Advanced(reg, trust, hist)
  /\ mig' = None
  /\ UNCHANGED <<reg, trust, hist, homedb, localdb, bind, known, bak, runs, faults, history>>

(* Any step may fail, or the process be killed.  The staging directory is  *)
(* removed, at once or when the next migration begins.                     *)
BreakOff ==
  /\ mig # None /\ faults > 0
  /\ faults' = faults - 1 /\ mig' = None
  /\ UNCHANGED <<home, bak, runs, history>>

-----------------------------------------------------------------------------
Init ==
  /\ reg = Unregistered /\ man = NoManifest /\ trust = None /\ hist = None
  /\ homedb = None /\ localdb = [r \in Run |-> None]
  /\ bind = [r \in Run |-> NoBindings] /\ known = {} /\ bak = {} /\ mig = None
  /\ runs = 0 /\ faults = MaxFaults
  /\ own = Unregistered /\ all = {} /\ tries = 0

Migration == Begin \/ Stage \/ Copy \/ Put \/ Commit \/ BreakOff

Next ==
  \/ \E n \in Node, k \in Key \cup {None} : AdoptLegacy(n, k) \/ AdoptInWorkspace(n, k)
  \/ \E n \in Node : Sync(n)
  \/ Migration

Spec == Init /\ [][Next]_vars

-----------------------------------------------------------------------------
Cred == [key : Key \cup {None}, ref : Ref \cup {None}]
Content == (SUBSET (Node \X Run)) \cup {None}

(* The types; and a workspace's registry never names a key file.           *)
TypeOK ==
  /\ reg \in [Node -> Cred \cup {None}]
  /\ man.fid \in 0..MaxRuns /\ man.rev \in 0..MaxRuns
  /\ trust \in (SUBSET Node) \cup {None} /\ hist \in (SUBSET Node) \cup {None}
  /\ homedb \in Content /\ localdb \in [Run -> Content]
  /\ bind \in [Run -> [Ref -> Key \cup {None}]]
  /\ known \subseteq Node
  /\ runs \in 0..MaxRuns /\ faults \in 0..MaxFaults /\ tries \in 0..MaxRuns
  /\ man # NoManifest => \A n \in Registered : reg[n].key = None

(* What is left somewhere on the machine: rows in a database or in a copy  *)
(* set aside, the key file of a node in a registry, a copy or a binding.   *)
RowsLeft ==
  Rows(homedb) \cup (UNION {Rows(localdb[r]) : r \in Run}) \cup (UNION {Rows(b.db) : b \in bak})

KeysLeft ==
  {c.key : c \in ({reg[n] : n \in Node} \cup (UNION {{b.reg[n] : n \in Node} : b \in bak}))
                   \ {None}}
    \cup (UNION {{bind[r][x] : x \in Ref} : r \in Run})

(* No step of a migration destroys the last copy of an imported row or of  *)
(* the path of a key, wherever it breaks off, however often it is begun    *)
(* again, and on a home that is a workspace already as well.               *)
NothingDestroyed ==
  [][Migration => RowsLeft \subseteq RowsLeft' /\ KeysLeft \subseteq KeysLeft']_vars

(* The home that was found is no workspace, nor half of one.               *)
WasLegacy ==
  /\ mig.found.fid = 0
  /\ \A n \in Node : mig.found.reg[n] # None => mig.found.reg[n].ref = None

(* A migration that says ok leaves a workspace that its digest matches and *)
(* in which the same rows are seen as before.  If the home was a legacy    *)
(* one, every node of it is reached; whatever it was, a node that was      *)
(* named with a key file, or with none, is reached with that one, and a    *)
(* host that the operator's own file pins is trusted.                      *)
OkIsWhole ==
  [][Committing /\ man'.rev = 1 =>
       /\ ~Inconsistent'
       /\ Rows(Db)' = mig.found.rows
       /\ WasLegacy => \A n \in Registered' : Reachable(n)'
       /\ \A n \in Registered' :
            /\ n \in mig.found.known => n \in Trusted'
            /\ mig.found.reg[n].ref = None =>
                 Bound(reg[n])' /\ KeyOf(reg[n])' = mig.found.reg[n].key]_vars

(* What AC-4.0-M04 asks: after a migration that says ok, sync reaches      *)
(* every node of the workspace.  It does not hold for one that is begun    *)
(* again: it makes no binding for a node that has a ref already.           *)
OkIsUsable ==
  [][Committing /\ man'.rev = 1 => \A n \in Registered' : Reachable(n)']_vars

(* What AC-4.0-M03 asks: a migration that fails does not break the legacy  *)
(* fleet.  It does not hold once fleet.json is replaced: the bindings that *)
(* its refs need come last.                                                *)
FailedKeepsFleet ==
  [][BreakOff /\ mig.pc = "put" /\ WasLegacy => \A n \in Registered' : Reachable(n)']_vars

(* A first migration that breaks off somewhere leaves no home that works   *)
(* on with less than it had: a node that is still reached is reached with  *)
(* the key it was adopted with, and the database then in use has all rows. *)
(* (admin-default is one ref for every node that is adopted later.)        *)
BrokenIsRefused ==
  Idle /\ tries <= 1 =>
    \A n \in Node : Reachable(n) =>
      /\ reg[n].ref # 0 => KeyOf(reg[n]) = own[n]
      /\ all \subseteq Rows(Db)
=============================================================================
