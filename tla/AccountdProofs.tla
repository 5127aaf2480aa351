--------------------------- MODULE AccountdProofs ---------------------------
(***************************************************************************)
(* Proofs about Accountd, for any set of connections and any bounds.       *)
(*                                                                         *)
(* The database is sound in every state of every transaction.  The lemmas  *)
(* go by what a write does to the rows: it revises an open row, it gives a *)
(* row its export_seq, it inserts a new latest generation, or it deletes a *)
(* closed row.  Each preserves the parts of DBInv about rows (RowsInv);    *)
(* the baselines are added on top.                                         *)
(*                                                                         *)
(* The daemon implements AuditLog: its database, as the readers of the     *)
(* audit log see it, is an append-only log that loses entries only under   *)
(* its mark.  What a commit makes of the log is decided by the open        *)
(* transaction.  Its distance from the committed database is all that is   *)
(* needed: a poll and a migration only make the log grow (Grows),          *)
(* retention only shrinks it (Shrinks).  Both relations are transitive, so *)
(* one lemma per write is enough, and IndInv says the rest.                *)
(*                                                                         *)
(* Along one generation the account of a connection moves exactly as its   *)
(* counters do.  Again a commit is not compared with the one before it     *)
(* directly: DeltaInv compares the open transaction with the committed     *)
(* database, statement by statement.  A poll touches a connection once,    *)
(* and before it does the transaction still has the committed baseline     *)
(* (Untouched), so the delta it adds is the whole distance.                *)
(*                                                                         *)
(* Over all generations no more is accounted than was carried.  A sum over *)
(* rows is not enough to show it: what counts is the sum together with the *)
(* growth of the counter that the next poll will add (Covered), also while *)
(* the poll works from a snapshot and traffic goes on (Pending).           *)
(***************************************************************************)
EXTENDS Accountd, FiniteSetTheorems, WellFoundedInduction, TLAPS

(* Max of a nonempty set of naturals with an upper bound b is in it and    *)
(* bounds it: the intervals x..b are finite, and strict inclusion is well  *)
(* founded on finite sets.                                                 *)
LEMMA MaxOfNaturals ==
  ASSUME NEW T, T \subseteq Nat, T # {},
         NEW b \in Nat, \A y \in T : y <= b
  PROVE  Max(T) \in T /\ \A y \in T : y <= Max(T)
<1> DEFINE U == {x .. b : x \in T}
<1>1. U \subseteq FiniteSubsetsOf(Nat)
  <2>1. \A x \in T : x .. b \subseteq Nat /\ IsFiniteSet(x .. b)
    BY FS_Interval
  <2>2. QED
    BY <2>1 DEF FiniteSubsetsOf
<1>2. PICK X \in U : \A Y \in U : ~ (<<Y, X>> \in StrictSubsetOrdering(Nat))
  <2>1. IsWellFoundedOn(StrictSubsetOrdering(Nat), FiniteSubsetsOf(Nat))
    BY FS_StrictSubsetOrderingWellFounded
  <2>2. U # {}
    OBVIOUS
  <2> HIDE DEF U
  <2>3. QED
    BY <1>1, <2>1, <2>2, WFMin
<1>3. PICK x \in T : X = x .. b
  OBVIOUS
<1>4. ASSUME NEW y \in T, x < y
      PROVE  FALSE
  <2>1. y .. b \in U
    OBVIOUS
  <2>2. y .. b \subseteq x .. b /\ y .. b # x .. b
    BY <1>4, x \in x .. b, x \notin y .. b
  <2>3. y .. b \in SUBSET Nat /\ x .. b \in SUBSET Nat
    OBVIOUS
  <2>4. <<y .. b, x .. b>> \in StrictSubsetOrdering(Nat)
    BY <2>2, <2>3 DEF StrictSubsetOrdering
  <2>5. QED
    BY <2>1, <2>4, <1>2, <1>3
<1>5. \E m \in T : \A y \in T : m >= y
  BY <1>4
<1>6. QED
  BY <1>5 DEF Max

-----------------------------------------------------------------------------
(***************************************************************************)
(* Sums over finite sets.                                                  *)
(***************************************************************************)
(* g is the sum of w over every subset of S, in whatever order.            *)
IsSum(w, S, g) ==
  /\ g \in [SUBSET S -> Nat]
  /\ g[{}] = 0
  /\ \A s \in SUBSET S : \A y \in s : g[s] = w[y] + g[s \ {y}]

(* f is what the fold of the community modules recurses on.                *)
IsFold(w, S, f) ==
  f = [s \in SUBSET S |-> IF s = {} THEN 0
         ELSE w[CHOOSE x \in s : TRUE] + f[s \ {CHOOSE x \in s : TRUE}]]

(* A nonempty set of subsets of a finite set has a smallest one.           *)
LEMMA SmallestSubset ==
  ASSUME NEW S, IsFiniteSet(S), NEW U, U \subseteq SUBSET S, U # {}
  PROVE  \E s \in U : \A t \in U : t \subseteq s => t = s
<1>1. U \subseteq FiniteSubsetsOf(S)
  BY FS_Subset DEF FiniteSubsetsOf
<1>2. PICK s \in U : \A t \in U : ~ (<<t, s>> \in StrictSubsetOrdering(S))
  BY <1>1, FS_StrictSubsetOrderingWellFounded, WFMin
<1>3. ASSUME NEW t \in U, t \subseteq s, t # s
      PROVE  FALSE
  <2>1. t \in SUBSET S /\ s \in SUBSET S
    OBVIOUS
  <2>2. <<t, s>> \in StrictSubsetOrdering(S)
    BY <1>3, <2>1 DEF StrictSubsetOrdering
  <2>3. QED
    BY <1>2, <2>2
<1>4. QED
  BY <1>3

(* Every finite set of weights has a sum.                                  *)
LEMMA SumExists ==
  ASSUME NEW S, IsFiniteSet(S), NEW w, \A x \in S : w[x] \in Nat
  PROVE  \E g : IsSum(w, S, g)
<1> DEFINE Bad == {s \in SUBSET S : ~ \E g : IsSum(w, s, g)}
<1> SUFFICES ASSUME Bad # {} PROVE FALSE
  OBVIOUS
<1>1. PICK s \in Bad : \A t \in Bad : t \subseteq s => t = s
  <2> HIDE DEF Bad
  <2>1. Bad \subseteq SUBSET S
    BY DEF Bad
  <2>2. QED
    BY <2>1, SmallestSubset
<1>2. CASE s = {}
  <2> DEFINE g == [t \in SUBSET s |-> 0]
  <2>1. g \in [SUBSET s -> Nat] /\ g[{}] = 0
    OBVIOUS
  <2>2. \A t \in SUBSET s : \A y \in t : g[t] = w[y] + g[t \ {y}]
    BY <1>2
  <2> HIDE DEF g
  <2>3. IsSum(w, s, g)
    BY <2>1, <2>2 DEF IsSum
  <2>4. QED
    BY <2>3
<1>3. CASE s # {}
  <2>1. PICK x \in s : TRUE
    BY <1>3
  <2>2. PICK h : IsSum(w, s \ {x}, h)
    BY <1>1
  <2> DEFINE g == [t \in SUBSET s |-> IF x \in t THEN w[x] + h[t \ {x}] ELSE h[t]]
  <2>3. /\ h \in [SUBSET (s \ {x}) -> Nat] /\ h[{}] = 0
        /\ \A t \in SUBSET (s \ {x}) : \A y \in t : h[t] = w[y] + h[t \ {y}]
    BY <2>2 DEF IsSum
  <2>4. /\ \A y \in s : w[y] \in Nat
        /\ \A t \in SUBSET s : t \ {x} \in SUBSET (s \ {x})
        /\ \A t \in SUBSET s : h[t \ {x}] \in Nat
        /\ \A t \in SUBSET s : x \notin t => h[t] \in Nat
    BY <2>3
  <2>5. g \in [SUBSET s -> Nat] /\ g[{}] = 0
    <3>1. \A t \in SUBSET s : (IF x \in t THEN w[x] + h[t \ {x}] ELSE h[t]) \in Nat
      BY <2>4
    <3>2. QED
      BY <2>3, <3>1
  <2>6. ASSUME NEW t \in SUBSET s, NEW y \in t
        PROVE  g[t] = w[y] + g[t \ {y}]
    <3>1. t \ {y} \in SUBSET s
      OBVIOUS
    <3>2. CASE y = x
      <4>1. g[t \ {y}] = h[t \ {x}]
        BY <3>1, <3>2
      <4>2. QED
        BY <3>2, <4>1
    <3>3. CASE y # x /\ x \in t
      <4> DEFINE r == (t \ {x}) \ {y}
      <4>1. h[t \ {x}] = w[y] + h[r]
        BY <2>3, <3>3
      <4>2. (t \ {y}) \ {x} = r /\ x \in t \ {y}
        BY <3>3
      <4>3. g[t \ {y}] = w[x] + h[r]
        BY <3>1, <4>2
      <4>4. g[t] = w[x] + h[t \ {x}]
        BY <3>3
      <4>5. w[x] \in Nat /\ w[y] \in Nat /\ h[r] \in Nat
        BY <2>4, <3>1, <4>2
      <4> HIDE DEF g, r
      <4>6. QED
        BY <4>1, <4>3, <4>4, <4>5
    <3>4. CASE y # x /\ x \notin t
      <4>1. h[t] = w[y] + h[t \ {y}]
        BY <2>3, <3>4
      <4>2. QED
        BY <3>1, <3>4, <4>1
    <3>5. QED
      BY <3>2, <3>3, <3>4
  <2> HIDE DEF g
  <2>7. IsSum(w, s, g)
    BY <2>5, <2>6 DEF IsSum
  <2>8. QED
    BY <2>7
<1>4. QED
  BY <1>2, <1>3

(* Two sums agree where their weights do.                                  *)
LEMMA SumsAgree ==
  ASSUME NEW w, NEW v, NEW S, NEW T, NEW g, NEW h, IsSum(w, S, g), IsSum(v, T, h),
         NEW R, IsFiniteSet(R), R \subseteq S, R \subseteq T, \A x \in R : w[x] = v[x]
  PROVE  g[R] = h[R]
<1> DEFINE Bad == {s \in SUBSET R : g[s] # h[s]}
<1> SUFFICES ASSUME Bad # {} PROVE FALSE
  OBVIOUS
<1>1. PICK s \in Bad : \A t \in Bad : t \subseteq s => t = s
  <2> HIDE DEF Bad
  <2>1. Bad \subseteq SUBSET R
    BY DEF Bad
  <2>2. QED
    BY <2>1, SmallestSubset
<1>2. s # {}
  BY <1>1 DEF IsSum
<1>3. PICK x \in s : TRUE
  BY <1>2
<1>4. g[s \ {x}] = h[s \ {x}]
  BY <1>1
<1>5. g[s] = w[x] + g[s \ {x}] /\ h[s] = v[x] + h[s \ {x}]
  BY <1>1, <1>3 DEF IsSum
<1>6. QED
  BY <1>1, <1>3, <1>4, <1>5

(* What the fold computes, by its recursion, is the sum.                   *)
LEMMA FoldIsSum ==
  ASSUME NEW S, IsFiniteSet(S), NEW w, NEW g, IsSum(w, S, g), NEW h,
         IsFold(w, S, h)
  PROVE  h[S] = g[S]
<1> DEFINE Bad == {s \in SUBSET S : h[s] # g[s]}
<1> SUFFICES ASSUME Bad # {} PROVE FALSE
  OBVIOUS
<1>1. PICK s \in Bad : \A t \in Bad : t \subseteq s => t = s
  <2> HIDE DEF Bad
  <2>1. Bad \subseteq SUBSET S
    BY DEF Bad
  <2>2. QED
    BY <2>1, SmallestSubset
<1>2. s # {}
  BY <1>1 DEF IsSum, IsFold
<1> DEFINE x == CHOOSE x \in s : TRUE
<1>3. x \in s
  BY <1>2
<1>4. h[s] = w[x] + h[s \ {x}]
  BY <1>1, <1>2 DEF IsFold
<1> HIDE DEF x
<1>5. g[s \ {x}] = h[s \ {x}]
  <2>1. s \ {x} \in SUBSET S /\ s \ {x} # s /\ s \ {x} \subseteq s
    BY <1>1, <1>3
  <2>2. QED
    BY <1>1, <2>1
<1>6. g[s] = w[x] + g[s \ {x}]
  BY <1>1, <1>3 DEF IsSum
<1>7. QED
  BY <1>1, <1>4, <1>5, <1>6

(* And a sum satisfies that recursion.                                     *)
LEMMA SumIsFold ==
  ASSUME NEW S, NEW w, NEW g, IsSum(w, S, g)
  PROVE  IsFold(w, S, g)
<1>1. ASSUME NEW s \in SUBSET S
      PROVE  g[s] = IF s = {} THEN 0
                    ELSE w[CHOOSE x \in s : TRUE] + g[s \ {CHOOSE x \in s : TRUE}]
  <2>1. CASE s = {}
    BY <2>1 DEF IsSum
  <2>2. CASE s # {}
    <3>1. (CHOOSE x \in s : TRUE) \in s
      BY <2>2
    <3>2. QED
      BY <2>2, <3>1 DEF IsSum
  <2>3. QED
    BY <2>1, <2>2
<1>2. g = [s \in SUBSET S |-> g[s]]
  BY DEF IsSum
<1>3. [s \in SUBSET S |-> g[s]]
        = [s \in SUBSET S |-> IF s = {} THEN 0
                ELSE w[CHOOSE x \in s : TRUE] + g[s \ {CHOOSE x \in s : TRUE}]]
  BY <1>1
<1>4. QED
  BY <1>2, <1>3 DEF IsFold


-----------------------------------------------------------------------------

(* DBInv without the baselines.                                            *)
RowsInv(db) ==
  /\ DBType(db)
  /\ UniqueGen(db)
  /\ OpenIsLatest(db)
  /\ SeqOfClosed(db)
  /\ Dense(db)
  /\ GenBelowId(db)

(* `new` is db with row e replaced by r.                                   *)
Revised(db, new, e, r) ==
  /\ DOMAIN new.rows = DOMAIN db.rows
  /\ \A f \in DOMAIN db.rows : new.rows[f] = IF f = e THEN r ELSE db.rows[f]

(* `new` is db with the row r under the next event id.                     *)
Inserted(db, new, r) ==
  /\ DOMAIN new.rows = DOMAIN db.rows \cup {db.eid + 1}
  /\ new.rows[db.eid + 1] = r
  /\ \A f \in DOMAIN db.rows : new.rows[f] = db.rows[f]
  /\ new.schema = db.schema /\ new.base = db.base /\ new.seq = db.seq
  /\ new.pruned = db.pruned /\ new.eid = db.eid + 1

-----------------------------------------------------------------------------
(* Revising an open row without closing it keeps the rows sound.           *)
LEMMA ReviseOpenRow ==
  ASSUME NEW db, NEW new, NEW e \in OpenRows(db), NEW r \in Row,
         RowsInv(db), DBType(new), Revised(db, new, e, r),
         r.cid = db.rows[e].cid, r.gen = db.rows[e].gen,
         r.seq = db.rows[e].seq, ~ r.closed,
         new.schema = db.schema, new.seq = db.seq,
         new.pruned = db.pruned, new.eid = db.eid
  PROVE  RowsInv(new)
<1>1. \A f \in DOMAIN db.rows :
        /\ new.rows[f].cid = db.rows[f].cid
        /\ new.rows[f].gen = db.rows[f].gen
        /\ new.rows[f].seq = db.rows[f].seq
        /\ new.rows[f].closed <=> db.rows[f].closed
  BY DEF Revised, OpenRows
<1>2. UniqueGen(new)
  BY <1>1 DEF RowsInv, Revised, UniqueGen
<1>3. OpenIsLatest(new)
  BY <1>1 DEF RowsInv, Revised, OpenIsLatest, OpenRows, RowsOf
<1>4. SeqOfClosed(new)
  BY <1>1 DEF RowsInv, Revised, SeqOfClosed
<1>5. Dense(new)
  BY <1>1 DEF RowsInv, Revised, Dense
<1>6. GenBelowId(new)
  BY <1>1 DEF RowsInv, Revised, GenBelowId
<1>7. QED
  BY <1>2, <1>3, <1>4, <1>5, <1>6 DEF RowsInv

(* A row without export_seq that gets the next one, and is closed, keeps   *)
(* the rows sound.                                                         *)
LEMMA NumberRow ==
  ASSUME NEW db, NEW new, NEW e \in DOMAIN db.rows, NEW r \in Row,
         RowsInv(db), DBType(new), Revised(db, new, e, r),
         r.cid = db.rows[e].cid, r.gen = db.rows[e].gen,
         db.rows[e].seq = 0, r.seq = db.seq + 1, r.closed,
         new.schema = db.schema, new.seq = db.seq + 1,
         new.pruned = db.pruned, new.eid = db.eid
  PROVE  RowsInv(new)
<1>1. \A f \in DOMAIN db.rows :
        /\ new.rows[f].cid = db.rows[f].cid
        /\ new.rows[f].gen = db.rows[f].gen
        /\ f # e => new.rows[f] = db.rows[f]
  BY DEF Revised
<1>2. db.seq \in Nat /\ db.pruned \in 0 .. db.seq
  BY DEF RowsInv, DBType
<1>3. \A f \in DOMAIN db.rows : db.rows[f].seq \in Nat /\ db.rows[f].seq <= db.seq
  BY DEF RowsInv, DBType, SeqOfClosed, Row
<1>4. new.rows[e] = r
  BY DEF Revised
<1>5. UniqueGen(new)
  BY <1>1 DEF RowsInv, Revised, UniqueGen
<1>6. OpenIsLatest(new)
  <2>1. OpenRows(new) \subseteq OpenRows(db)
    BY <1>1, <1>4 DEF Revised, OpenRows
  <2>2. QED
    BY <1>1, <2>1 DEF RowsInv, Revised, OpenIsLatest, OpenRows, RowsOf
<1>7. SeqOfClosed(new)
  <2>1. ASSUME NEW f \in DOMAIN new.rows
        PROVE  /\ new.rows[f].seq <= new.seq
               /\ new.rows[f].seq # 0 => new.rows[f].closed
               /\ new.schema = 4 /\ new.rows[f].closed => new.rows[f].seq # 0
    <3>1. CASE f = e
      BY <3>1, <1>2, <1>4
    <3>2. CASE f # e
      BY <3>2, <1>1, <1>2, <1>3 DEF RowsInv, Revised, SeqOfClosed
    <3>3. QED
      BY <3>1, <3>2
  <2>2. ASSUME NEW f \in DOMAIN new.rows, NEW g \in DOMAIN new.rows,
               new.rows[f].seq = new.rows[g].seq, new.rows[f].seq # 0
        PROVE  f = g
    <3>1. CASE f # e /\ g # e
      BY <3>1, <2>2, <1>1 DEF RowsInv, Revised, SeqOfClosed
    <3>2. CASE f = e \/ g = e
      BY <3>2, <2>2, <1>1, <1>2, <1>3, <1>4 DEF Revised
    <3>3. QED
      BY <3>1, <3>2
  <2>3. QED
    BY <2>1, <2>2 DEF SeqOfClosed
<1>8. Dense(new)
  <2> SUFFICES ASSUME NEW s \in 1 .. new.seq, s > new.pruned
               PROVE  \E f \in DOMAIN new.rows : new.rows[f].seq = s
    BY DEF Dense
  <2>1. CASE s = db.seq + 1
    BY <2>1, <1>4 DEF Revised
  <2>2. CASE s # db.seq + 1
    <3>1. PICK f \in DOMAIN db.rows : db.rows[f].seq = s
      BY <2>2, <1>2 DEF RowsInv, Dense
    <3>2. f # e
      BY <3>1
    <3>3. QED
      BY <3>1, <3>2, <1>1 DEF Revised
  <2>3. QED
    BY <2>1, <2>2
<1>9. GenBelowId(new)
  BY <1>1 DEF RowsInv, Revised, GenBelowId
<1>10. QED
  BY <1>5, <1>6, <1>7, <1>8, <1>9 DEF RowsInv

(* A new open row, later than every generation of a connection that has no *)
(* open one, keeps the rows sound.                                         *)
LEMMA InsertRow ==
  ASSUME NEW db, NEW new, NEW r \in Row, RowsInv(db), DBType(new),
         Inserted(db, new, r),
         r.seq = 0, ~ r.closed, r.gen <= db.eid,
         RowsOf(db, r.cid) \cap OpenRows(db) = {},
         \A f \in RowsOf(db, r.cid) : db.rows[f].gen < r.gen
  PROVE  RowsInv(new)
<1> DEFINE e == db.eid + 1
<1>1. db.eid \in Nat /\ e \notin DOMAIN db.rows
  BY DEF RowsInv, DBType
<1>2. \A f \in DOMAIN db.rows : /\ db.rows[f].gen \in Nat
                                /\ db.rows[f].seq \in Nat
                                /\ db.rows[f].closed \in BOOLEAN
  BY DEF RowsInv, DBType, Row
<1>3. db.seq \in Nat /\ r.gen \in Nat
  BY DEF RowsInv, DBType, Row
<1> HIDE DEF e
<1>4. /\ DOMAIN new.rows = DOMAIN db.rows \cup {e}
      /\ new.rows[e] = r
      /\ \A f \in DOMAIN db.rows : new.rows[f] = db.rows[f]
      /\ new.schema = db.schema /\ new.seq = db.seq
      /\ new.pruned = db.pruned /\ new.eid = db.eid + 1
  BY DEF e, Inserted
<1>5. UniqueGen(new)
  BY <1>1, <1>2, <1>3, <1>4 DEF RowsInv, UniqueGen, RowsOf
<1>6. OpenIsLatest(new)
  <2> SUFFICES ASSUME NEW f \in OpenRows(new), NEW g \in RowsOf(new, new.rows[f].cid)
               PROVE  new.rows[g].gen <= new.rows[f].gen
    BY DEF OpenIsLatest
  <2>1. CASE f = e
    BY <2>1, <1>1, <1>2, <1>3, <1>4 DEF RowsOf
  <2>2. CASE f # e
    <3>1. f \in OpenRows(db)
      BY <2>2, <1>4 DEF OpenRows
    <3>2. g # e
      BY <2>2, <3>1, <1>4 DEF OpenRows, RowsOf
    <3>3. QED
      BY <2>2, <3>1, <3>2, <1>4 DEF RowsInv, OpenIsLatest, OpenRows, RowsOf
  <2>3. QED
    BY <2>1, <2>2
<1>7. SeqOfClosed(new)
  BY <1>1, <1>2, <1>3, <1>4 DEF RowsInv, SeqOfClosed
<1>8. Dense(new)
  BY <1>1, <1>4 DEF RowsInv, Dense
<1>9. GenBelowId(new)
  BY <1>1, <1>2, <1>3, <1>4 DEF RowsInv, GenBelowId
<1>10. QED
  BY <1>5, <1>6, <1>7, <1>8, <1>9 DEF RowsInv

(* Deleting a closed row and raising the mark over it keeps the rows sound.*)
LEMMA DeleteRow ==
  ASSUME NEW db, NEW new, NEW e \in DOMAIN db.rows, RowsInv(db), DBType(new),
         DOMAIN new.rows = DOMAIN db.rows \ {e},
         \A f \in DOMAIN new.rows : new.rows[f] = db.rows[f],
         new.schema = db.schema, new.seq = db.seq, new.eid = db.eid,
         new.pruned >= db.pruned, new.pruned >= db.rows[e].seq
  PROVE  RowsInv(new)
<1>1. UniqueGen(new)
  BY DEF RowsInv, UniqueGen
<1>2. OpenIsLatest(new)
  BY DEF RowsInv, OpenIsLatest, OpenRows, RowsOf
<1>3. SeqOfClosed(new)
  BY DEF RowsInv, SeqOfClosed
<1>4. Dense(new)
  <2> SUFFICES ASSUME NEW s \in 1 .. new.seq, s > new.pruned
               PROVE  \E f \in DOMAIN new.rows : new.rows[f].seq = s
    BY DEF Dense
  <2>1. db.pruned \in Nat /\ new.pruned \in Nat /\ db.rows[e].seq \in Nat /\ db.seq \in Nat
    BY DEF RowsInv, DBType, Row
  <2>2. PICK f \in DOMAIN db.rows : db.rows[f].seq = s
    BY <2>1 DEF RowsInv, Dense
  <2>3. f # e
    BY <2>1, <2>2
  <2>4. QED
    BY <2>2, <2>3
<1>5. GenBelowId(new)
  BY DEF RowsInv, GenBelowId
<1>6. QED
  BY <1>1, <1>2, <1>3, <1>4, <1>5 DEF RowsInv

-----------------------------------------------------------------------------
(***************************************************************************)
(* The writes of the code, field by field.                                 *)
(***************************************************************************)

(* A record with the six fields of a database is one of the right type     *)
(* when its fields are.                                                    *)
LEMMA MakeDB ==
  ASSUME NEW v \in {3, 4}, NEW n \in Nat, NEW p \in 0 .. n, NEW i \in Nat,
         NEW rows, DOMAIN rows \subseteq 1 .. i, rows \in [DOMAIN rows -> Row],
         NEW base, DOMAIN base \subseteq Conn, base \in [DOMAIN base -> Baseline]
  PROVE  DBType([schema |-> v, rows |-> rows, base |-> base,
                 seq |-> n, pruned |-> p, eid |-> i])
<1> DEFINE db == [schema |-> v, rows |-> rows, base |-> base,
                  seq |-> n, pruned |-> p, eid |-> i]
<1>1. /\ db.schema = v /\ db.rows = rows /\ db.base = base
      /\ db.seq = n /\ db.pruned = p /\ db.eid = i
  OBVIOUS
<1>2. db = [schema |-> db.schema, rows |-> db.rows, base |-> db.base,
            seq |-> db.seq, pruned |-> db.pruned, eid |-> db.eid]
  OBVIOUS
<1> HIDE DEF db
<1>3. DBType(db)
  BY <1>1, <1>2 DEF DBType
<1>4. QED
  BY <1>3 DEF db

LEMMA UpdateShape ==
  ASSUME NEW db, DBType(db), NEW e \in DOMAIN db.rows, NEW bytes \in Counters,
         NEW close \in BOOLEAN, NEW now \in Nat
  PROVE  LET r   == [cid |-> db.rows[e].cid, gen |-> db.rows[e].gen, closed |-> close,
                     bytes |-> bytes, seq |-> db.rows[e].seq, seen |-> now]
             new == Update(db, e, bytes, close, now)
         IN  /\ r \in Row /\ DBType(new) /\ Revised(db, new, e, r)
             /\ new.schema = db.schema /\ new.base = db.base /\ new.seq = db.seq
             /\ new.pruned = db.pruned /\ new.eid = db.eid
<1> DEFINE r == [cid |-> db.rows[e].cid, gen |-> db.rows[e].gen, closed |-> close,
                 bytes |-> bytes, seq |-> db.rows[e].seq, seen |-> now]
           rows == [db.rows EXCEPT ![e] = r]
           made == [schema |-> db.schema, rows |-> rows, base |-> db.base,
                    seq |-> db.seq, pruned |-> db.pruned, eid |-> db.eid]
<1>1. r \in Row
  BY DEF DBType, Row
<1>2. Update(db, e, bytes, close, now) = made
  <2>1. Update(db, e, bytes, close, now) = [db EXCEPT !.rows[e] = r]
    BY DEF Update
  <2> HIDE DEF r
  <2>2. QED
    BY <2>1 DEF DBType
<1> HIDE DEF r
<1>3. DOMAIN rows = DOMAIN db.rows /\ rows \in [DOMAIN rows -> Row]
  BY <1>1 DEF DBType
<1>4. DBType(made)
  <2> HIDE DEF rows
  <2>1. QED
    BY <1>3, MakeDB DEF DBType
<1>5. made.rows = rows
  OBVIOUS
<1>6. /\ made.schema = db.schema /\ made.base = db.base /\ made.seq = db.seq
      /\ made.pruned = db.pruned /\ made.eid = db.eid
  OBVIOUS
<1>7. Revised(db, made, e, r)
  <2> HIDE DEF made
  <2>1. QED
    BY <1>3, <1>5 DEF Revised
<1> HIDE DEF made
<1>8. QED
  BY <1>1, <1>2, <1>4, <1>6, <1>7 DEF r

LEMMA AssignSeqShape ==
  ASSUME NEW db, DBType(db), NEW e \in DOMAIN db.rows, db.rows[e].seq = 0
  PROVE  LET r   == [cid |-> db.rows[e].cid, gen |-> db.rows[e].gen,
                     closed |-> db.rows[e].closed, bytes |-> db.rows[e].bytes,
                     seq |-> db.seq + 1, seen |-> db.rows[e].seen]
             new == AssignSeq(db, e)
         IN  /\ r \in Row /\ DBType(new) /\ Revised(db, new, e, r)
             /\ new.schema = db.schema /\ new.base = db.base /\ new.seq = db.seq + 1
             /\ new.pruned = db.pruned /\ new.eid = db.eid
<1> DEFINE r == [cid |-> db.rows[e].cid, gen |-> db.rows[e].gen,
                 closed |-> db.rows[e].closed, bytes |-> db.rows[e].bytes,
                 seq |-> db.seq + 1, seen |-> db.rows[e].seen]
           rows == [db.rows EXCEPT ![e] = r]
           made == [schema |-> db.schema, rows |-> rows, base |-> db.base,
                    seq |-> db.seq + 1, pruned |-> db.pruned, eid |-> db.eid]
<1>1. r \in Row
  BY DEF DBType, Row
<1>2. AssignSeq(db, e) = made
  <2>1. [db.rows[e] EXCEPT !.seq = db.seq + 1] = r
    BY DEF DBType, Row
  <2> HIDE DEF r
  <2>2. QED
    BY <2>1 DEF AssignSeq, DBType
<1> HIDE DEF r
<1>3. DOMAIN rows = DOMAIN db.rows /\ rows \in [DOMAIN rows -> Row]
  BY <1>1 DEF DBType
<1>4. DBType(made)
  <2> HIDE DEF rows
  <2>1. db.seq + 1 \in Nat /\ db.pruned \in 0 .. (db.seq + 1)
    BY DEF DBType
  <2>2. QED
    BY <2>1, <1>3, MakeDB DEF DBType
<1>5. made.rows = rows
  OBVIOUS
<1>6. /\ made.schema = db.schema /\ made.base = db.base /\ made.seq = db.seq + 1
      /\ made.pruned = db.pruned /\ made.eid = db.eid
  OBVIOUS
<1>7. Revised(db, made, e, r)
  <2> HIDE DEF made
  <2>1. QED
    BY <1>3, <1>5 DEF Revised
<1> HIDE DEF made
<1>8. QED
  BY <1>1, <1>2, <1>4, <1>6, <1>7 DEF r

LEMMA InsertShape ==
  ASSUME NEW db, DBType(db), NEW c \in Conn, NEW g \in Nat, NEW bytes \in Counters,
         NEW now \in Nat
  PROVE  LET r   == [cid |-> c, gen |-> g, closed |-> FALSE,
                     bytes |-> bytes, seq |-> 0, seen |-> now]
             new == Insert(db, c, g, bytes, FALSE, now)
         IN  r \in Row /\ DBType(new) /\ Inserted(db, new, r)
<1> DEFINE r == [cid |-> c, gen |-> g, closed |-> FALSE,
                 bytes |-> bytes, seq |-> 0, seen |-> now]
           rows == Put(db.rows, db.eid + 1, r)
           made == [schema |-> db.schema, rows |-> rows, base |-> db.base,
                    seq |-> db.seq, pruned |-> db.pruned, eid |-> db.eid + 1]
<1>1. r \in Row
  BY DEF Row
<1>2. Insert(db, c, g, bytes, FALSE, now) = made
  <2>1. Insert(db, c, g, bytes, FALSE, now)
          = [db EXCEPT !.eid = @ + 1, !.rows = Put(@, db.eid + 1, r)]
    BY DEF Insert
  <2> HIDE DEF r
  <2>2. QED
    BY <2>1 DEF DBType
<1> HIDE DEF r
<1>3. /\ DOMAIN rows = DOMAIN db.rows \cup {db.eid + 1}
      /\ rows[db.eid + 1] = r
      /\ \A f \in DOMAIN db.rows : rows[f] = db.rows[f]
  BY DEF Put, DBType
<1>4. rows \in [DOMAIN rows -> Row] /\ DOMAIN rows \subseteq 1 .. (db.eid + 1)
  BY <1>1 DEF Put, DBType
<1>5. DBType(made)
  <2> HIDE DEF rows
  <2>1. QED
    BY <1>4, MakeDB DEF DBType
<1>6. made.rows = rows
  OBVIOUS
<1>7. /\ made.schema = db.schema /\ made.base = db.base /\ made.seq = db.seq
      /\ made.pruned = db.pruned /\ made.eid = db.eid + 1
  OBVIOUS
<1> HIDE DEF rows, made
<1>8. Inserted(db, made, r)
  BY <1>3, <1>6, <1>7 DEF Inserted
<1>9. QED
  BY <1>1, <1>2, <1>5, <1>8 DEF r

-----------------------------------------------------------------------------
(***************************************************************************)
(* The operations on a sound database.                                     *)
(***************************************************************************)

(* Only the rows matter to RowsInv.                                        *)
LEMMA SameRows ==
  ASSUME NEW db, NEW new, RowsInv(db), DBType(new), new.rows = db.rows,
         new.schema = db.schema, new.seq = db.seq,
         new.pruned = db.pruned, new.eid = db.eid
  PROVE  RowsInv(new)
<1>1. UniqueGen(new) /\ OpenIsLatest(new)
  BY DEF RowsInv, UniqueGen, OpenIsLatest, OpenRows, RowsOf
<1>2. SeqOfClosed(new) /\ Dense(new) /\ GenBelowId(new)
  BY DEF RowsInv, SeqOfClosed, Dense, GenBelowId
<1>3. QED
  BY <1>1, <1>2 DEF RowsInv

(* Replacing the baselines.                                                *)
LEMMA RebaseShape ==
  ASSUME NEW db, DBType(db),
         NEW base, DOMAIN base \subseteq Conn, base \in [DOMAIN base -> Baseline]
  PROVE  LET new == [db EXCEPT !.base = base]
         IN  /\ DBType(new) /\ new.base = base /\ new.rows = db.rows
             /\ new.schema = db.schema /\ new.seq = db.seq
             /\ new.pruned = db.pruned /\ new.eid = db.eid
<1> DEFINE made == [schema |-> db.schema, rows |-> db.rows, base |-> base,
                    seq |-> db.seq, pruned |-> db.pruned, eid |-> db.eid]
<1>1. [db EXCEPT !.base = base] = made
  BY DEF DBType
<1>2. DBType(made)
  BY MakeDB DEF DBType
<1>3. /\ made.base = base /\ made.rows = db.rows
      /\ made.schema = db.schema /\ made.seq = db.seq
      /\ made.pruned = db.pruned /\ made.eid = db.eid
  OBVIOUS
<1> HIDE DEF made
<1>4. QED
  BY <1>1, <1>2, <1>3

(* A baseline for an open generation whose row has the baseline's bytes.   *)
LEMMA SetBaselineSound ==
  ASSUME NEW db, RowsInv(db),
         NEW c \in Conn, NEW g \in Nat, NEW raw \in Counters, NEW acc \in Counters,
         \E e \in OpenGen(db, c, g) : db.rows[e].bytes = acc,
         \A x \in DOMAIN db.base \ {c} :
           \E e \in OpenGen(db, x, db.base[x].gen) : db.rows[e].bytes = db.base[x].acc
  PROVE  LET new == SetBaseline(db, c, g, raw, acc)
         IN  /\ DBInv(new)
             /\ new.base = Put(db.base, c, [gen |-> g, raw |-> raw, acc |-> acc])
             /\ new.schema = db.schema
<1> DEFINE b == [gen |-> g, raw |-> raw, acc |-> acc]
           base == Put(db.base, c, b)
           new == SetBaseline(db, c, g, raw, acc)
<1>1. b \in Baseline
  BY DEF Baseline
<1>2. b.gen = g /\ b.acc = acc
  OBVIOUS
<1>3. new = [db EXCEPT !.base = base]
  BY DEF SetBaseline
<1> HIDE DEF b, new
<1>4. DOMAIN base = DOMAIN db.base \cup {c} /\ base[c] = b
      /\ \A x \in DOMAIN db.base \ {c} : base[x] = db.base[x]
  BY DEF Put
<1>5. DOMAIN base \subseteq Conn /\ base \in [DOMAIN base -> Baseline]
  BY <1>1 DEF Put, RowsInv, DBType
<1> HIDE DEF base
<1>6. /\ DBType(new) /\ new.base = base /\ new.rows = db.rows
      /\ new.schema = db.schema /\ new.seq = db.seq
      /\ new.pruned = db.pruned /\ new.eid = db.eid
  BY <1>3, <1>5, RebaseShape DEF RowsInv
<1>7. RowsInv(new)
  BY <1>6, SameRows
<1>8. \A x, h : OpenGen(new, x, h) = OpenGen(db, x, h)
  BY <1>6 DEF OpenGen, GenRows, RowsOf, OpenRows
<1>9. BaselineOfOpen(new)
  BY <1>2, <1>4, <1>6, <1>8 DEF BaselineOfOpen
<1>10. QED
  BY <1>6, <1>7, <1>9 DEF DBInv, RowsInv, base, b, new

(* Writing an open generation that is there.                               *)
LEMMA WriteOpenExisting ==
  ASSUME NEW db, DBInv(db),
         NEW c \in Conn, NEW g \in Nat, OpenGen(db, c, g) # {},
         NEW raw \in Counters, NEW acc \in Counters, NEW now \in Nat
  PROVE  LET new == WriteOpen(db, c, g, raw, acc, now)
         IN  /\ DBInv(new)
             /\ new.base = Put(db.base, c, [gen |-> g, raw |-> raw, acc |-> acc])
             /\ new.schema = db.schema
<1> DEFINE e == CHOOSE e \in OpenGen(db, c, g) : TRUE
           mid == Update(db, e, acc, FALSE, now)
           r == [cid |-> db.rows[e].cid, gen |-> db.rows[e].gen, closed |-> FALSE,
                 bytes |-> acc, seq |-> db.rows[e].seq, seen |-> now]
<1>1. e \in OpenGen(db, c, g)
  OBVIOUS
<1>2. WriteOpen(db, c, g, raw, acc, now) = SetBaseline(mid, c, g, raw, acc)
  BY DEF WriteOpen, Landed, UpsertOpen
<1> HIDE DEF e
<1>3. e \in OpenRows(db) /\ e \in DOMAIN db.rows /\ db.rows[e].cid = c /\ db.rows[e].gen = g
  BY <1>1 DEF OpenGen, GenRows, RowsOf, OpenRows
<1>4. /\ r \in Row /\ DBType(mid) /\ Revised(db, mid, e, r)
      /\ mid.schema = db.schema /\ mid.base = db.base /\ mid.seq = db.seq
      /\ mid.pruned = db.pruned /\ mid.eid = db.eid
  <2>1. DBType(db)
    BY DEF DBInv
  <2>2. QED
    BY <1>3, <2>1, UpdateShape
<1>5. r.cid = c /\ r.gen = g /\ r.seq = db.rows[e].seq /\ ~ r.closed /\ r.bytes = acc
  BY <1>3
<1> HIDE DEF mid, r
<1>6. RowsInv(mid)
  BY <1>3, <1>4, <1>5, ReviseOpenRow DEF DBInv, RowsInv
<1>7. e \in OpenGen(mid, c, g) /\ mid.rows[e].bytes = acc
  BY <1>3, <1>4, <1>5 DEF Revised, OpenGen, GenRows, RowsOf, OpenRows
<1>8. ASSUME NEW x \in DOMAIN mid.base \ {c}
      PROVE  \E f \in OpenGen(mid, x, mid.base[x].gen) : mid.rows[f].bytes = mid.base[x].acc
  <2>1. PICK f \in OpenGen(db, x, db.base[x].gen) : db.rows[f].bytes = db.base[x].acc
    BY <1>4, <1>8 DEF DBInv, BaselineOfOpen
  <2>2. f # e
    BY <1>3, <1>8, <2>1 DEF OpenGen, GenRows, RowsOf
  <2>3. QED
    BY <1>4, <2>1, <2>2 DEF Revised, OpenGen, GenRows, RowsOf, OpenRows
<1>9. QED
  BY <1>2, <1>4, <1>6, <1>7, <1>8, SetBaselineSound

(* Writing a generation that is later than all others of its connection.   *)
LEMMA WriteOpenNew ==
  ASSUME NEW db, DBInv(db),
         NEW c \in Conn, NEW g \in Nat, g <= db.eid,
         RowsOf(db, c) \cap OpenRows(db) = {},
         \A f \in RowsOf(db, c) : db.rows[f].gen < g,
         NEW raw \in Counters, NEW acc \in Counters, NEW now \in Nat
  PROVE  LET new == WriteOpen(db, c, g, raw, acc, now)
         IN  /\ DBInv(new)
             /\ new.base = Put(db.base, c, [gen |-> g, raw |-> raw, acc |-> acc])
             /\ new.schema = db.schema
<1> DEFINE mid == Insert(db, c, g, acc, FALSE, now)
           r == [cid |-> c, gen |-> g, closed |-> FALSE,
                 bytes |-> acc, seq |-> 0, seen |-> now]
           e == db.eid + 1
<1>0. DBType(db) /\ RowsInv(db)
  BY DEF DBInv, RowsInv
<1>1. GenRows(db, c, g) = {}
  <2>1. \A f \in RowsOf(db, c) : db.rows[f].gen \in Nat
    BY <1>0 DEF DBType, RowsOf, Row
  <2>2. QED
    BY <2>1 DEF GenRows
<1>2. WriteOpen(db, c, g, raw, acc, now) = SetBaseline(mid, c, g, raw, acc)
  <2>1. OpenGen(db, c, g) = {}
    BY <1>1 DEF OpenGen
  <2>2. QED
    BY <1>1, <2>1 DEF WriteOpen, Landed, UpsertOpen
<1>3. r \in Row /\ DBType(mid) /\ Inserted(db, mid, r)
  BY <1>0, InsertShape
<1>4. r.cid = c /\ r.gen = g /\ r.seq = 0 /\ ~ r.closed /\ r.bytes = acc
  OBVIOUS
<1> HIDE DEF mid, r
<1>5. RowsInv(mid)
  BY <1>0, <1>3, <1>4, InsertRow
<1>6. e \in OpenGen(mid, c, g) /\ mid.rows[e].bytes = acc
  BY <1>3, <1>4 DEF Inserted, OpenGen, GenRows, RowsOf, OpenRows
<1>7. ASSUME NEW x \in DOMAIN mid.base \ {c}
      PROVE  \E f \in OpenGen(mid, x, mid.base[x].gen) : mid.rows[f].bytes = mid.base[x].acc
  <2>1. PICK f \in OpenGen(db, x, db.base[x].gen) : db.rows[f].bytes = db.base[x].acc
    BY <1>3 DEF Inserted, DBInv, BaselineOfOpen
  <2>2. QED
    BY <1>3, <2>1 DEF Inserted, OpenGen, GenRows, RowsOf, OpenRows
<1>8. QED
  <2>1. mid.base = db.base /\ mid.schema = db.schema
    BY <1>3 DEF Inserted
  <2>2. QED
    BY <1>2, <1>5, <1>6, <1>7, <2>1, SetBaselineSound


(* Under DBInv the join in reload_known_open_from_db drops nothing, so     *)
(* prune_closed_poll_baselines has nothing to do.                          *)
LEMMA KnownOpenIsBase ==
  ASSUME NEW db, DBInv(db)
  PROVE  KnownOpen(db) = db.base /\ PruneBaselines(db) = db
<1>1. \A c \in DOMAIN db.base : HasPrev(db, c)
  BY DEF DBInv, BaselineOfOpen, HasPrev
<1>2. KnownOpen(db) = db.base
  BY <1>1 DEF KnownOpen, Restrict, DBInv, DBType
<1>3. PruneBaselines(db) = db
  BY <1>2 DEF PruneBaselines, DBInv, DBType
<1>4. QED
  BY <1>2, <1>3

(* The next generation of a connection without an open row is later than   *)
(* all it had, and still below the next event id.                          *)
LEMMA NextGenIsNew ==
  ASSUME NEW db, DBInv(db), NEW c \in Conn
  PROVE  /\ NextGen(db, c) \in Nat
         /\ NextGen(db, c) <= db.eid
         /\ \A f \in RowsOf(db, c) : db.rows[f].gen < NextGen(db, c)
<1> DEFINE gens == {db.rows[e].gen : e \in RowsOf(db, c)}
<1>1. db.eid \in Nat /\ \A f \in RowsOf(db, c) : db.rows[f].gen \in Nat /\ db.rows[f].gen < db.eid
  BY DEF DBInv, DBType, GenBelowId, RowsOf, Row
<1>2. CASE RowsOf(db, c) = {}
  BY <1>1, <1>2 DEF NextGen
<1>3. CASE RowsOf(db, c) # {}
  <2>1. gens \subseteq Nat /\ gens # {} /\ \A g \in gens : g <= db.eid
    BY <1>1, <1>3
  <2>2. Max(gens) \in gens /\ \A g \in gens : g <= Max(gens)
    <3> HIDE DEF gens
    <3>1. QED
      BY <1>1, <2>1, MaxOfNaturals
  <2>3. NextGen(db, c) = Max(gens) + 1
    BY <1>3 DEF NextGen, MaxGen
  <2>4. PICK f \in RowsOf(db, c) : Max(gens) = db.rows[f].gen
    BY <2>2
  <2>5. \A h \in RowsOf(db, c) : db.rows[h].gen <= Max(gens)
    BY <2>2
  <2> HIDE DEF gens
  <2>6. QED
    BY <1>1, <2>3, <2>4, <2>5
<1>4. QED
  BY <1>2, <1>3

(* Closing the open generation e of a connection and dropping its          *)
(* baseline: nothing of the connection is open any more.                   *)
LEMMA CloseRow ==
  ASSUME NEW db, DBInv(db), NEW e \in OpenRows(db),
         NEW bytes \in Counters, NEW now \in Nat
  PROVE  LET new == AssignSeq(Update(db, e, bytes, TRUE, now), e)
         IN  /\ RowsInv(new) /\ new.base = db.base /\ new.schema = db.schema
             /\ new.eid = db.eid
             /\ DOMAIN new.rows = DOMAIN db.rows
             /\ new.rows[e].closed
             /\ \A f \in DOMAIN db.rows : new.rows[f].cid = db.rows[f].cid
             /\ \A f \in DOMAIN db.rows : new.rows[f].gen = db.rows[f].gen
             /\ \A f \in DOMAIN db.rows : f # e => new.rows[f] = db.rows[f]
<1> DEFINE mid == Update(db, e, bytes, TRUE, now)
           new == AssignSeq(mid, e)
           r == [cid |-> db.rows[e].cid, gen |-> db.rows[e].gen, closed |-> TRUE,
                 bytes |-> bytes, seq |-> db.rows[e].seq, seen |-> now]
           q == [cid |-> mid.rows[e].cid, gen |-> mid.rows[e].gen,
                 closed |-> mid.rows[e].closed, bytes |-> mid.rows[e].bytes,
                 seq |-> mid.seq + 1, seen |-> mid.rows[e].seen]
<1>0. DBType(db) /\ e \in DOMAIN db.rows /\ RowsInv(db)
  BY DEF DBInv, RowsInv, OpenRows
<1>1. /\ r \in Row /\ DBType(mid) /\ Revised(db, mid, e, r)
      /\ mid.schema = db.schema /\ mid.base = db.base /\ mid.seq = db.seq
      /\ mid.pruned = db.pruned /\ mid.eid = db.eid
  BY <1>0, UpdateShape
<1>2. r.cid = db.rows[e].cid /\ r.gen = db.rows[e].gen /\ r.closed /\ r.seq = db.rows[e].seq
  OBVIOUS
<1>3. db.rows[e].seq = 0
  BY <1>0 DEF RowsInv, SeqOfClosed, OpenRows
<1> HIDE DEF mid, r
<1>4. e \in DOMAIN mid.rows /\ mid.rows[e] = r
  BY <1>0, <1>1 DEF Revised
<1>5. /\ q \in Row /\ DBType(new) /\ Revised(mid, new, e, q)
      /\ new.schema = mid.schema /\ new.base = mid.base /\ new.seq = mid.seq + 1
      /\ new.pruned = mid.pruned /\ new.eid = mid.eid
  BY <1>1, <1>2, <1>3, <1>4, AssignSeqShape
<1>6. q.cid = db.rows[e].cid /\ q.gen = db.rows[e].gen /\ q.closed /\ q.seq = db.seq + 1
  BY <1>1, <1>2, <1>4
<1> HIDE DEF new, q
<1>7. Revised(db, new, e, q)
  BY <1>1, <1>5 DEF Revised
<1>8. RowsInv(new)
  BY <1>0, <1>1, <1>3, <1>5, <1>6, <1>7, NumberRow
<1>9. QED
  BY <1>0, <1>1, <1>5, <1>6, <1>7, <1>8 DEF Revised, new, mid

LEMMA CloseGenerationSound ==
  ASSUME NEW db, DBInv(db), NEW c \in Conn, NEW st \in Baseline,
         OpenGen(db, c, st.gen) # {}, NEW now \in Nat
  PROVE  LET new == CloseGeneration(db, c, st, now)
         IN  /\ DBInv(new)
             /\ new.base = Drop(db.base, {c})
             /\ new.schema = db.schema /\ new.eid = db.eid
             /\ RowsOf(new, c) \cap OpenRows(new) = {}
             /\ \A f \in RowsOf(new, c) : new.rows[f].gen <= st.gen
<1> DEFINE e == CHOOSE e \in OpenGen(db, c, st.gen) : TRUE
           mid == AssignSeq(Update(db, e, st.acc, TRUE, now), e)
           base == Drop(db.base, {c})
           new == [mid EXCEPT !.base = base]
<1>0. RowsInv(db) /\ DBType(db)
  BY DEF DBInv, RowsInv
<1>1. e \in OpenGen(db, c, st.gen)
  OBVIOUS
<1>2. CloseGeneration(db, c, st, now) = [mid EXCEPT !.base = Drop(@, {c})]
  BY DEF CloseGeneration, UpsertClosed
<1> HIDE DEF e
<1>3. e \in OpenRows(db) /\ e \in DOMAIN db.rows /\ db.rows[e].cid = c /\ db.rows[e].gen = st.gen
  BY <1>1 DEF OpenGen, GenRows, RowsOf, OpenRows
<1>4. st.acc \in Counters /\ st.gen \in Nat
  BY DEF Baseline
<1>5. /\ RowsInv(mid) /\ mid.base = db.base /\ mid.schema = db.schema
      /\ mid.eid = db.eid
      /\ DOMAIN mid.rows = DOMAIN db.rows
      /\ mid.rows[e].closed
      /\ \A f \in DOMAIN db.rows : mid.rows[f].cid = db.rows[f].cid
      /\ \A f \in DOMAIN db.rows : mid.rows[f].gen = db.rows[f].gen
      /\ \A f \in DOMAIN db.rows : f # e => mid.rows[f] = db.rows[f]
  BY <1>3, <1>4, CloseRow
<1> HIDE DEF mid
<1>6. CloseGeneration(db, c, st, now) = new
  BY <1>2, <1>5 DEF RowsInv, DBType
<1>7. /\ DOMAIN base = DOMAIN db.base \ {c}
      /\ \A x \in DOMAIN base : base[x] = db.base[x]
  BY DEF Drop, Restrict
<1>8. DOMAIN base \subseteq Conn /\ base \in [DOMAIN base -> Baseline]
  BY <1>0 DEF Drop, Restrict, DBType
<1> HIDE DEF base
<1>9. /\ DBType(new) /\ new.base = base /\ new.rows = mid.rows
      /\ new.schema = mid.schema /\ new.seq = mid.seq
      /\ new.pruned = mid.pruned /\ new.eid = mid.eid
  BY <1>5, <1>8, RebaseShape DEF RowsInv
<1> HIDE DEF new
<1>10. RowsInv(new)
  BY <1>5, <1>9, SameRows
<1>11. \A f \in RowsOf(db, c) : db.rows[f].gen <= st.gen
  BY <1>0, <1>3 DEF RowsInv, OpenIsLatest
<1>12. ASSUME NEW f \in RowsOf(new, c)
       PROVE  new.rows[f].closed /\ new.rows[f].gen <= st.gen
  <2>1. f \in RowsOf(db, c)
    BY <1>5, <1>9 DEF RowsOf
  <2>2. ASSUME f # e, ~ db.rows[f].closed
        PROVE  FALSE
    <3>1. db.rows[e].gen <= db.rows[f].gen
      BY <1>0, <1>3, <2>1, <2>2 DEF RowsInv, OpenIsLatest, OpenRows, RowsOf
    <3>2. db.rows[f].gen = db.rows[e].gen
      BY <1>0, <1>3, <1>4, <1>11, <2>1, <3>1 DEF DBType, Row, RowsOf
    <3>3. QED
      BY <1>0, <1>3, <2>1, <2>2, <3>2 DEF RowsInv, UniqueGen, RowsOf
  <2>3. QED
    BY <1>3, <1>5, <1>9, <1>11, <2>1, <2>2 DEF RowsOf
<1>13. BaselineOfOpen(new)
  <2> SUFFICES ASSUME NEW x \in DOMAIN new.base
               PROVE  \E f \in OpenGen(new, x, new.base[x].gen) :
                        new.rows[f].bytes = new.base[x].acc
    BY DEF BaselineOfOpen
  <2>1. x \in DOMAIN db.base /\ x # c /\ new.base[x] = db.base[x]
    BY <1>7, <1>9
  <2>2. PICK f \in OpenGen(db, x, db.base[x].gen) : db.rows[f].bytes = db.base[x].acc
    BY <2>1 DEF DBInv, BaselineOfOpen
  <2>3. f # e /\ f \in DOMAIN db.rows
    BY <1>3, <2>1, <2>2 DEF OpenGen, GenRows, RowsOf
  <2>4. QED
    BY <1>5, <1>9, <2>1, <2>2, <2>3 DEF OpenGen, GenRows, RowsOf, OpenRows
<1>14. QED
  BY <1>5, <1>6, <1>9, <1>10, <1>12, <1>13 DEF DBInv, RowsInv, OpenRows, base


(* An open row whose connection has no baseline can be closed as it is.    *)
LEMMA CloseStaleSound ==
  ASSUME NEW db, DBInv(db), NEW e \in OpenRows(db),
         db.rows[e].cid \notin DOMAIN db.base, NEW now \in Nat
  PROVE  LET new == AssignSeq(Update(db, e, db.rows[e].bytes, TRUE, now), e)
         IN  /\ DBInv(new) /\ new.base = db.base /\ new.schema = db.schema
             /\ DOMAIN new.rows = DOMAIN db.rows
             /\ \A f \in DOMAIN db.rows : f # e => new.rows[f] = db.rows[f]
<1> DEFINE bytes == db.rows[e].bytes
           new == AssignSeq(Update(db, e, bytes, TRUE, now), e)
<1>1. bytes \in Counters /\ e \in DOMAIN db.rows
  BY DEF DBInv, DBType, OpenRows, Row
<1> HIDE DEF bytes
<1>2. /\ RowsInv(new) /\ new.base = db.base /\ new.schema = db.schema
      /\ new.eid = db.eid
      /\ DOMAIN new.rows = DOMAIN db.rows
      /\ new.rows[e].closed
      /\ \A f \in DOMAIN db.rows : new.rows[f].cid = db.rows[f].cid
      /\ \A f \in DOMAIN db.rows : new.rows[f].gen = db.rows[f].gen
      /\ \A f \in DOMAIN db.rows : f # e => new.rows[f] = db.rows[f]
  BY <1>1, CloseRow
<1> HIDE DEF new
<1>3. BaselineOfOpen(new)
  <2> SUFFICES ASSUME NEW x \in DOMAIN new.base
               PROVE  \E f \in OpenGen(new, x, new.base[x].gen) :
                        new.rows[f].bytes = new.base[x].acc
    BY DEF BaselineOfOpen
  <2>1. PICK f \in OpenGen(db, x, db.base[x].gen) : db.rows[f].bytes = db.base[x].acc
    BY <1>2 DEF DBInv, BaselineOfOpen
  <2>2. f # e
    BY <1>2, <2>1 DEF OpenGen, GenRows, RowsOf
  <2>3. QED
    BY <1>2, <2>1, <2>2 DEF OpenGen, GenRows, RowsOf, OpenRows
<1>4. QED
  BY <1>2, <1>3 DEF DBInv, RowsInv, new, bytes

(* Giving a closed row without export_seq the next one.                    *)
LEMMA MigrateRowSound ==
  ASSUME NEW db, DBInv(db), NEW e \in Unassigned(db)
  PROVE  LET new == AssignSeq(db, e)
         IN  /\ DBInv(new) /\ new.base = db.base /\ new.schema = db.schema
             /\ Unassigned(new) = Unassigned(db) \ {e}
             /\ DOMAIN new.rows = DOMAIN db.rows
<1> DEFINE new == AssignSeq(db, e)
           r == [cid |-> db.rows[e].cid, gen |-> db.rows[e].gen,
                 closed |-> db.rows[e].closed, bytes |-> db.rows[e].bytes,
                 seq |-> db.seq + 1, seen |-> db.rows[e].seen]
<1>0. /\ RowsInv(db) /\ DBType(db) /\ e \in DOMAIN db.rows
      /\ db.rows[e].seq = 0 /\ db.rows[e].closed
  BY DEF DBInv, RowsInv, Unassigned
<1>1. /\ r \in Row /\ DBType(new) /\ Revised(db, new, e, r)
      /\ new.schema = db.schema /\ new.base = db.base /\ new.seq = db.seq + 1
      /\ new.pruned = db.pruned /\ new.eid = db.eid
  BY <1>0, AssignSeqShape
<1>2. r.cid = db.rows[e].cid /\ r.gen = db.rows[e].gen /\ r.seq = db.seq + 1
  OBVIOUS
<1>3. r.closed
  BY <1>0
<1> HIDE DEF new, r
<1>4. RowsInv(new)
  BY <1>0, <1>1, <1>2, <1>3, NumberRow
<1>5. BaselineOfOpen(new)
  <2> SUFFICES ASSUME NEW x \in DOMAIN new.base
               PROVE  \E f \in OpenGen(new, x, new.base[x].gen) :
                        new.rows[f].bytes = new.base[x].acc
    BY DEF BaselineOfOpen
  <2>1. PICK f \in OpenGen(db, x, db.base[x].gen) : db.rows[f].bytes = db.base[x].acc
    BY <1>1 DEF DBInv, BaselineOfOpen
  <2>2. f # e
    BY <1>0, <2>1 DEF OpenGen, OpenRows
  <2>3. QED
    BY <1>1, <2>1, <2>2 DEF Revised, OpenGen, GenRows, RowsOf, OpenRows
<1>6. Unassigned(new) = Unassigned(db) \ {e}
  <2>1. db.seq + 1 # 0
    BY <1>0 DEF DBType
  <2>2. QED
    BY <1>0, <1>1, <1>2, <2>1 DEF Revised, Unassigned
<1>7. QED
  BY <1>1, <1>4, <1>5, <1>6 DEF DBInv, RowsInv, Revised, new

(* Deleting a closed row under a raised mark.                              *)
Pruned(db, e) ==
  [db EXCEPT !.rows = Drop(@, {e}),
             !.pruned = IF db.rows[e].seq > @ THEN db.rows[e].seq ELSE @]

LEMMA PruneRowSound ==
  ASSUME NEW db, DBInv(db), NEW e \in DOMAIN db.rows, db.rows[e].closed
  PROVE  LET new == Pruned(db, e)
         IN  /\ DBInv(new) /\ new.base = db.base /\ new.schema = db.schema
             /\ DOMAIN new.rows = DOMAIN db.rows \ {e}
             /\ \A f \in DOMAIN new.rows : new.rows[f] = db.rows[f]
<1> DEFINE rows == Drop(db.rows, {e})
           p == IF db.rows[e].seq > db.pruned THEN db.rows[e].seq ELSE db.pruned
           made == [schema |-> db.schema, rows |-> rows, base |-> db.base,
                    seq |-> db.seq, pruned |-> p, eid |-> db.eid]
<1>0. RowsInv(db) /\ DBType(db)
  BY DEF DBInv, RowsInv
<1>1. Pruned(db, e) = made
  <2>1. Pruned(db, e) = [db EXCEPT !.rows = rows, !.pruned = p]
    BY <1>0 DEF Pruned, DBType
  <2> HIDE DEF rows, p
  <2>2. QED
    BY <1>0, <2>1 DEF DBType
<1>2. /\ DOMAIN rows = DOMAIN db.rows \ {e}
      /\ \A f \in DOMAIN rows : rows[f] = db.rows[f]
      /\ rows \in [DOMAIN rows -> Row]
  BY <1>0 DEF Drop, Restrict, DBType
<1>3. p \in 0 .. db.seq /\ p >= db.pruned /\ p >= db.rows[e].seq
  BY <1>0 DEF RowsInv, DBType, SeqOfClosed, Row
<1> HIDE DEF rows, p
<1>4. DBType(made)
  BY <1>0, <1>2, <1>3, MakeDB DEF DBType
<1>5. /\ made.schema = db.schema /\ made.rows = rows /\ made.base = db.base
      /\ made.seq = db.seq /\ made.pruned = p /\ made.eid = db.eid
  OBVIOUS
<1> HIDE DEF made
<1>6. RowsInv(made)
  BY <1>0, <1>2, <1>3, <1>4, <1>5, DeleteRow
<1>7. BaselineOfOpen(made)
  <2> SUFFICES ASSUME NEW x \in DOMAIN made.base
               PROVE  \E f \in OpenGen(made, x, made.base[x].gen) :
                        made.rows[f].bytes = made.base[x].acc
    BY DEF BaselineOfOpen
  <2>1. PICK f \in OpenGen(db, x, db.base[x].gen) : db.rows[f].bytes = db.base[x].acc
    BY <1>5 DEF DBInv, BaselineOfOpen
  <2>2. f # e
    BY <2>1 DEF OpenGen, OpenRows
  <2>3. QED
    BY <1>2, <1>5, <2>1, <2>2 DEF OpenGen, GenRows, RowsOf, OpenRows
<1>8. QED
  BY <1>1, <1>2, <1>5, <1>6, <1>7 DEF DBInv, RowsInv


-----------------------------------------------------------------------------
(***************************************************************************)
(* Every step preserves the inductive invariant: one lemma per action.     *)
(***************************************************************************)

(* A step that leaves the databases, the cache and the transaction alone.  *)
LEMMA EnvironmentStep ==
  ASSUME IndInv, Environment
  PROVE  IndInv'
<1>1. UNCHANGED <<committed, cache, txn>>
  BY DEF Environment, ClashOpens, ClashForgets, ClashCounts, NextDay
<1>2. /\ clash' \in [Conn -> [on : BOOLEAN, count : Counters, starts : Nat]]
      /\ sent' \in [Conn -> Counters]
      /\ day' \in Nat
  <2>1. ASSUME NEW c \in Conn, ClashOpens(c) \/ ClashForgets(c)
        PROVE  <1>2!:
    <3>1. Zero \in Counters
      BY DEF Zero, Counters
    <3>2. clash[c].starts \in Nat
      BY DEF IndInv, TypeOK
    <3>3. CASE ClashOpens(c)
      <4>1. clash' = [clash EXCEPT ![c] =
                        [on |-> TRUE, count |-> Zero, starts |-> clash[c].starts + 1]]
        BY <3>3 DEF ClashOpens
      <4>2. [on |-> TRUE, count |-> Zero, starts |-> clash[c].starts + 1]
              \in [on : BOOLEAN, count : Counters, starts : Nat]
        BY <3>1, <3>2
      <4>3. QED
        BY <3>3, <4>1, <4>2 DEF IndInv, TypeOK, ClashOpens
    <3>4. CASE ClashForgets(c)
      <4>1. clash' = [clash EXCEPT ![c] =
                        [on |-> FALSE, count |-> Zero, starts |-> clash[c].starts]]
        BY <3>4 DEF ClashForgets
      <4>2. [on |-> FALSE, count |-> Zero, starts |-> clash[c].starts]
              \in [on : BOOLEAN, count : Counters, starts : Nat]
        BY <3>1, <3>2
      <4>3. QED
        BY <3>4, <4>1, <4>2 DEF IndInv, TypeOK, ClashForgets
    <3>5. QED
      BY <2>1, <3>3, <3>4
  <2>2. ASSUME NEW c \in Conn, NEW d \in Dir, ClashCounts(c, d)
        PROVE  <1>2!:
    <3>1. /\ clash \in [Conn -> [on : BOOLEAN, count : [Dir -> Nat], starts : Nat]]
          /\ sent \in [Conn -> [Dir -> Nat]]
          /\ day \in Nat
      BY DEF IndInv, TypeOK, Counters
    <3>2. /\ clash' = [clash EXCEPT ![c].count[d] = @ + 1]
          /\ sent' = [sent EXCEPT ![c][d] = @ + 1]
          /\ day' = day
      BY <2>2 DEF ClashCounts
    <3>3. clash' \in [Conn -> [on : BOOLEAN, count : [Dir -> Nat], starts : Nat]]
      <4>1. ASSUME NEW k, NEW f \in [Conn -> [on : BOOLEAN, count : k, starts : Nat]],
                   k = [Dir -> Nat]
            PROVE  [f EXCEPT ![c].count[d] = @ + 1]
                     \in [Conn -> [on : BOOLEAN, count : k, starts : Nat]]
        BY <4>1
      <4>2. QED
        BY <3>1, <3>2, <4>1
    <3>4. sent' \in [Conn -> [Dir -> Nat]]
      BY <3>1, <3>2
    <3>5. QED
      BY <3>1, <3>2, <3>3, <3>4 DEF Counters
  <2>3. CASE NextDay
    BY <2>3 DEF IndInv, TypeOK, NextDay
  <2>4. QED
    BY <2>1, <2>2, <2>3 DEF Environment
<1>3. TypeOK'
  BY <1>1, <1>2 DEF IndInv, TypeOK, txn
<1>4. DBInv(committed)' /\ DBInv(work)'
  BY <1>1 DEF IndInv, txn
<1>5. PhaseInv'
  BY <1>1 DEF IndInv, PhaseInv, Untouched, txn
<1>6. QED
  BY <1>3, <1>4, <1>5 DEF IndInv

LEMMA StartStep ==
  ASSUME IndInv, Start
  PROVE  IndInv'
<1>1. work = committed /\ work' = work /\ committed' = committed
  BY DEF IndInv, PhaseInv, Start
<1>2. CASE committed.schema = 3
  <2>1. phase' = "migrate" /\ todo' = Unassigned(committed) /\ cache' = cache
    BY <1>2 DEF Start
  <2>2. TypeOK'
    BY <1>1, <2>1 DEF Start, IndInv, TypeOK, Phases, Unassigned, env
  <2>3. PhaseInv'
    BY <1>1, <2>1 DEF Start, IndInv, PhaseInv, Untouched
  <2>4. QED
    BY <1>1, <2>2, <2>3 DEF IndInv
<1>3. CASE committed.schema # 3
  <2>1. phase' = "idle" /\ todo' = {} /\ cache' = KnownOpen(committed)
    BY <1>3 DEF Start
  <2>2. cache' = committed.base /\ committed.schema = 4
    BY <1>3, <2>1, KnownOpenIsBase DEF IndInv, DBInv, DBType
  <2>3. TypeOK'
    BY <1>1, <2>1, <2>2 DEF Start, IndInv, TypeOK, Phases, KnownType, DBType, env
  <2>4. PhaseInv'
    BY <1>1, <2>1, <2>2 DEF Start, IndInv, PhaseInv, Untouched
  <2>5. QED
    BY <1>1, <2>3, <2>4 DEF IndInv
<1>4. QED
  BY <1>2, <1>3


LEMMA MigrateRowStep ==
  ASSUME IndInv, NEW e, MigrateRow(e)
  PROVE  IndInv'
<1>1. phase = "migrate" /\ todo = Unassigned(work) /\ e \in Unassigned(work)
  BY DEF IndInv, PhaseInv, MigrateRow
<1>2. /\ DBInv(work') /\ work'.base = work.base /\ work'.schema = work.schema
      /\ Unassigned(work') = Unassigned(work) \ {e}
      /\ DOMAIN work'.rows = DOMAIN work.rows
  BY <1>1, MigrateRowSound DEF IndInv, MigrateRow
<1>3. /\ UNCHANGED <<committed, cache, phase, live, bad, newKnown, env>>
      /\ todo' = todo \ {e}
  BY DEF MigrateRow
<1>4. TypeOK'
  BY <1>1, <1>2, <1>3 DEF IndInv, TypeOK, DBInv, env
<1>5. PhaseInv'
  BY <1>1, <1>2, <1>3 DEF IndInv, PhaseInv
<1>6. QED
  BY <1>2, <1>3, <1>4, <1>5 DEF IndInv

LEMMA FinishMigrationStep ==
  ASSUME IndInv, FinishMigration
  PROVE  IndInv'
<1> DEFINE made == [schema |-> 4, rows |-> work.rows, base |-> work.base,
                    seq |-> work.seq, pruned |-> work.pruned, eid |-> work.eid]
<1>0. DBInv(work) /\ DBType(work)
  BY DEF IndInv, DBInv
<1>1. phase = "migrate" /\ todo = {} /\ Unassigned(work) = {}
  BY DEF IndInv, PhaseInv, FinishMigration
<1>2. work' = made
  BY <1>0 DEF FinishMigration, DBType
<1>3. DBType(made)
  BY <1>0, MakeDB DEF DBType
<1>4. /\ made.schema = 4 /\ made.rows = work.rows /\ made.base = work.base
      /\ made.seq = work.seq /\ made.pruned = work.pruned /\ made.eid = work.eid
  OBVIOUS
<1> HIDE DEF made
<1>5. UniqueGen(made) /\ OpenIsLatest(made) /\ Dense(made) /\ GenBelowId(made)
  BY <1>0, <1>4 DEF DBInv, UniqueGen, OpenIsLatest, OpenRows, RowsOf, Dense, GenBelowId
<1>6. SeqOfClosed(made)
  BY <1>0, <1>1, <1>4 DEF DBInv, SeqOfClosed, Unassigned
<1>7. BaselineOfOpen(made)
  BY <1>0, <1>4 DEF DBInv, BaselineOfOpen, OpenGen, GenRows, RowsOf, OpenRows
<1>8. DBInv(made)
  BY <1>3, <1>5, <1>6, <1>7 DEF DBInv
<1>9. cache' = made.base
  BY <1>2, <1>8, KnownOpenIsBase DEF FinishMigration
<1>10. /\ UNCHANGED <<live, bad, todo, newKnown, env>>
       /\ phase' = "idle" /\ committed' = made
  BY <1>2 DEF FinishMigration
<1>11. TypeOK'
  BY <1>1, <1>2, <1>3, <1>9, <1>10 DEF IndInv, TypeOK, KnownType, DBType, Phases, env
<1>12. PhaseInv'
  BY <1>1, <1>2, <1>4, <1>9, <1>10 DEF IndInv, PhaseInv
<1>13. QED
  BY <1>2, <1>8, <1>10, <1>11, <1>12 DEF IndInv

LEMMA BeginPollStep ==
  ASSUME IndInv, BeginPoll
  PROVE  IndInv'
<1> DEFINE on == {c \in Conn : clash[c].on}
<1>1. /\ phase = "idle" /\ phase' = "live"
      /\ live' = [c \in on |-> clash[c].count] /\ todo' = on /\ bad' \subseteq on
      /\ UNCHANGED <<committed, work, cache, newKnown, env>>
  BY DEF BeginPoll
<1>2. DOMAIN live' = on /\ on \subseteq Conn /\ live' \in [on -> Counters]
  BY <1>1 DEF IndInv, TypeOK
<1>3. work = committed /\ cache = work.base /\ newKnown = Empty /\ committed.schema = 4
  BY <1>1 DEF IndInv, PhaseInv
<1> HIDE DEF on
<1>4. TypeOK'
  BY <1>1, <1>2 DEF IndInv, TypeOK, Phases, env
<1>5. PhaseInv'
  <2>1. newKnown' = Restrict(work'.base, DOMAIN work'.base \cap (DOMAIN live' \ todo'))
    BY <1>1, <1>2, <1>3 DEF Empty, Restrict
  <2>2. \A c : Untouched(c)'
    BY <1>1, <1>3 DEF Untouched
  <2>3. QED
    BY <1>1, <1>3, <2>1, <2>2 DEF PhaseInv
<1>6. QED
  BY <1>1, <1>4, <1>5 DEF IndInv

(* One connection of the snapshot written: db is sound and differs from    *)
(* work in one baseline.                                                   *)
LEMMA AccountStep ==
  ASSUME IndInv, NEW c, NEW db, NEW b, phase = "live", Account(c, db),
         DBInv(db), db.base = Put(work.base, c, b), db.schema = work.schema
  PROVE  IndInv'
<1>1. /\ c \in todo /\ c \in Conn /\ c \in DOMAIN live
      /\ work' = db /\ newKnown' = Put(newKnown, c, db.base[c]) /\ todo' = todo \ {c}
      /\ UNCHANGED <<committed, cache, phase, live, bad, env>>
  BY DEF Account, IndInv, TypeOK
<1>2. /\ DOMAIN db.base = DOMAIN work.base \cup {c}
      /\ db.base[c] = b
      /\ \A x \in DOMAIN work.base : x # c => db.base[x] = work.base[x]
  BY DEF Put
<1>3. DBType(db) /\ b \in Baseline
  BY <1>2 DEF DBInv, DBType
<1>4. /\ committed.schema = 4 /\ work.schema = 4 /\ cache = committed.base
      /\ \A x \in Conn : x \notin DOMAIN live \ todo => Untouched(x)
      /\ newKnown = Restrict(work.base, DOMAIN work.base \cap (DOMAIN live \ todo))
  BY DEF IndInv, PhaseInv
<1>5. KnownType(newKnown)'
  BY <1>1, <1>2, <1>3 DEF IndInv, TypeOK, KnownType, Put
<1>6. TypeOK'
  BY <1>1, <1>3, <1>5 DEF IndInv, TypeOK, env
<1>7. newKnown' = Restrict(work'.base, DOMAIN work'.base \cap (DOMAIN live' \ todo'))
  BY <1>1, <1>2, <1>4 DEF Restrict, Put
<1>8. ASSUME NEW x \in Conn, x \notin DOMAIN live' \ todo'
      PROVE  Untouched(x)'
  <2>1. x # c /\ Untouched(x)
    BY <1>1, <1>4, <1>8
  <2>2. QED
    BY <1>1, <1>2, <2>1 DEF Untouched
<1>9. PhaseInv'
  BY <1>1, <1>4, <1>7, <1>8 DEF PhaseInv
<1>10. QED
  BY <1>1, <1>6, <1>9 DEF IndInv


(* What a step of the live loop starts from.                               *)
LEMMA LiveStart ==
  ASSUME IndInv, NEW c \in todo, phase = "live"
  PROVE  /\ DBInv(work) /\ c \in Conn /\ live[c] \in Counters /\ day \in Nat
         /\ HasPrev(work, c) =>
              /\ c \in DOMAIN work.base /\ work.base[c] \in Baseline
              /\ work.base[c].gen \in Nat /\ work.base[c].raw \in Counters
              /\ work.base[c].acc \in Counters
              /\ OpenGen(work, c, work.base[c].gen) # {}
<1>1. DBInv(work) /\ c \in Conn /\ live[c] \in Counters /\ day \in Nat
  BY DEF IndInv, TypeOK
<1>2. ASSUME HasPrev(work, c)
      PROVE  /\ c \in DOMAIN work.base /\ work.base[c] \in Baseline
             /\ OpenGen(work, c, work.base[c].gen) # {}
  BY <1>1, <1>2 DEF HasPrev, DBInv, DBType
<1>3. \A q \in Baseline : q.gen \in Nat /\ q.raw \in Counters /\ q.acc \in Counters
  BY DEF Baseline
<1>4. QED
  BY <1>1, <1>2, <1>3

LEMMA PollDeltaStep ==
  ASSUME IndInv, NEW c \in todo, PollDelta(c)
  PROVE  IndInv'
<1> DEFINE prev == work.base[c]
           acc == Grown(prev.acc, live[c], prev.raw)
           db == WriteOpen(work, c, prev.gen, live[c], acc, day)
<1>1. phase = "live" /\ HasPrev(work, c) /\ ~ Decreased(live[c], prev.raw) /\ Account(c, db)
  BY DEF PollDelta
<1>2. /\ DBInv(work) /\ c \in Conn /\ live[c] \in Counters /\ day \in Nat
      /\ prev.gen \in Nat /\ prev.raw \in Counters /\ prev.acc \in Counters
      /\ OpenGen(work, c, prev.gen) # {}
  BY <1>1, LiveStart
<1>3. acc \in Counters
  BY <1>1, <1>2 DEF Grown, Decreased, Counters
<1> HIDE DEF acc, prev
<1>4. /\ DBInv(db) /\ db.schema = work.schema
      /\ db.base = Put(work.base, c, [gen |-> prev.gen, raw |-> live[c], acc |-> acc])
  BY <1>2, <1>3, WriteOpenExisting
<1> HIDE DEF db
<1>5. QED
  BY <1>1, <1>4, AccountStep

LEMMA PollResetStep ==
  ASSUME IndInv, NEW c \in todo, PollReset(c)
  PROVE  IndInv'
<1> DEFINE prev == work.base[c]
           mid == CloseGeneration(work, c, prev, day)
           db == WriteOpen(mid, c, prev.gen + 1, live[c], Zero, day)
<1>1. phase = "live" /\ HasPrev(work, c) /\ Account(c, db)
  BY DEF PollReset
<1>2. /\ DBInv(work) /\ c \in Conn /\ live[c] \in Counters /\ day \in Nat
      /\ c \in DOMAIN work.base
      /\ prev \in Baseline /\ prev.gen \in Nat
      /\ OpenGen(work, c, prev.gen) # {}
  BY <1>1, LiveStart
<1>3. prev.gen + 1 \in Nat /\ prev.gen + 1 <= work.eid /\ Zero \in Counters
  BY <1>2 DEF DBInv, DBType, GenBelowId, OpenGen, GenRows, RowsOf, Zero, Counters
<1> HIDE DEF prev
<1>4. /\ DBInv(mid)
      /\ mid.base = Drop(work.base, {c})
      /\ mid.schema = work.schema /\ mid.eid = work.eid
      /\ RowsOf(mid, c) \cap OpenRows(mid) = {}
      /\ \A f \in RowsOf(mid, c) : mid.rows[f].gen <= prev.gen
  BY <1>2, CloseGenerationSound
<1> HIDE DEF mid
<1>5. \A f \in RowsOf(mid, c) : mid.rows[f].gen < prev.gen + 1
  <2>1. \A f \in RowsOf(mid, c) : mid.rows[f].gen \in Nat
    BY <1>4 DEF DBInv, DBType, RowsOf, Row
  <2>2. QED
    BY <1>2, <1>4, <2>1
<1>6. /\ DBInv(db) /\ db.schema = mid.schema
      /\ db.base = Put(mid.base, c, [gen |-> prev.gen + 1, raw |-> live[c], acc |-> Zero])
  BY <1>2, <1>3, <1>4, <1>5, WriteOpenNew
<1> HIDE DEF db
<1>7. db.base = Put(work.base, c, [gen |-> prev.gen + 1, raw |-> live[c], acc |-> Zero])
  BY <1>2, <1>4, <1>6 DEF Put, Drop, Restrict
<1>8. QED
  BY <1>1, <1>4, <1>6, <1>7, AccountStep

LEMMA PollUntrackedStep ==
  ASSUME IndInv, NEW c \in todo, PollUntracked(c)
  PROVE  IndInv'
<1> DEFINE open == RowsOf(work, c) \cap OpenRows(work)
           row == work.rows[LatestOpen(work, c)]
           db == WriteOpen(work, c, row.gen, live[c], row.bytes, day)
<1>1. phase = "live" /\ open # {} /\ Account(c, db)
  BY DEF PollUntracked
<1>2. DBInv(work) /\ c \in Conn /\ live[c] \in Counters /\ day \in Nat
  BY <1>1, LiveStart
<1>3. LatestOpen(work, c) \in open
  <2>1. PICK e \in open : TRUE
    BY <1>1
  <2>2. \A f \in open : work.rows[f].gen <= work.rows[e].gen
    BY <1>2, <2>1 DEF DBInv, OpenIsLatest, RowsOf
  <2>3. QED
    BY <2>1, <2>2 DEF LatestOpen
<1>4. /\ row.gen \in Nat /\ row.bytes \in Counters
      /\ LatestOpen(work, c) \in OpenGen(work, c, row.gen)
  BY <1>2, <1>3 DEF DBInv, DBType, Row, RowsOf, OpenGen, GenRows
<1> HIDE DEF row
<1>5. /\ DBInv(db) /\ db.schema = work.schema
      /\ db.base = Put(work.base, c, [gen |-> row.gen, raw |-> live[c], acc |-> row.bytes])
  BY <1>2, <1>4, WriteOpenExisting
<1> HIDE DEF db
<1>6. QED
  BY <1>1, <1>5, AccountStep

LEMMA PollUnknownStep ==
  ASSUME IndInv, NEW c \in todo, PollUnknown(c)
  PROVE  IndInv'
<1> DEFINE g == NextGen(work, c)
           db == WriteOpen(work, c, g, live[c], Zero, day)
<1>1. phase = "live" /\ RowsOf(work, c) \cap OpenRows(work) = {} /\ Account(c, db)
  BY DEF PollUnknown
<1>2. DBInv(work) /\ c \in Conn /\ live[c] \in Counters /\ day \in Nat
  BY <1>1, LiveStart
<1>3. g \in Nat /\ g <= work.eid /\ \A f \in RowsOf(work, c) : work.rows[f].gen < g
  BY <1>2, NextGenIsNew
<1>4. Zero \in Counters
  BY DEF Zero, Counters
<1> HIDE DEF g
<1>5. /\ DBInv(db) /\ db.schema = work.schema
      /\ db.base = Put(work.base, c, [gen |-> g, raw |-> live[c], acc |-> Zero])
  BY <1>1, <1>2, <1>3, <1>4, WriteOpenNew
<1> HIDE DEF db
<1>6. QED
  BY <1>1, <1>5, AccountStep

(* In a sound database every baseline counts.                              *)
LEMMA BasedHasPrev ==
  ASSUME NEW db, DBInv(db), NEW c \in DOMAIN db.base
  PROVE  /\ HasPrev(db, c) /\ c \in Conn /\ db.base[c] \in Baseline
         /\ OpenGen(db, c, db.base[c].gen) # {}
<1>1. OpenGen(db, c, db.base[c].gen) # {}
  BY DEF DBInv, BaselineOfOpen
<1>2. QED
  BY <1>1 DEF HasPrev, DBInv, DBType

LEMMA PollInvalidStep ==
  ASSUME IndInv, NEW c \in todo, PollInvalid(c)
  PROVE  IndInv'
<1>1. /\ phase = "live" /\ todo' = todo \ {c}
      /\ UNCHANGED <<committed, work, cache, phase, live, bad, env>>
  BY DEF PollInvalid
<1>2. /\ c \in Conn /\ c \in DOMAIN live /\ DBInv(work)
      /\ KnownType(newKnown)
  BY <1>1 DEF IndInv, TypeOK
<1>3. /\ committed.schema = 4 /\ work.schema = 4 /\ cache = committed.base
      /\ \A x \in Conn : x \notin DOMAIN live \ todo => Untouched(x)
      /\ newKnown = Restrict(work.base, DOMAIN work.base \cap (DOMAIN live \ todo))
  BY <1>1 DEF IndInv, PhaseInv
<1>4. c \in DOMAIN work.base => work.base[c] \in Baseline
  BY <1>2, BasedHasPrev
<1>5. newKnown' = IF c \in DOMAIN work.base THEN Put(newKnown, c, work.base[c]) ELSE newKnown
  <2>1. HasPrev(work, c) <=> c \in DOMAIN work.base
    BY <1>2, BasedHasPrev DEF HasPrev
  <2>2. c \in DOMAIN work.base <=> c \in DOMAIN cache
    BY <1>2, <1>3 DEF Untouched
  <2>3. QED
    BY <2>1, <2>2 DEF PollInvalid
<1>6. KnownType(newKnown)'
  BY <1>2, <1>4, <1>5 DEF KnownType, Put
<1>7. TypeOK'
  BY <1>1, <1>6 DEF IndInv, TypeOK, env
<1>8. newKnown' = Restrict(work'.base, DOMAIN work'.base \cap (DOMAIN live' \ todo'))
  <2>1. CASE c \in DOMAIN work.base
    BY <1>1, <1>2, <1>3, <1>5, <2>1 DEF Restrict, Put
  <2>2. CASE c \notin DOMAIN work.base
    <3>1. DOMAIN work.base \cap (DOMAIN live \ todo) = DOMAIN work.base \cap (DOMAIN live \ todo')
      BY <1>1, <2>2
    <3>2. QED
      BY <1>1, <1>3, <1>5, <2>2, <3>1
  <2>3. QED
    BY <2>1, <2>2
<1>9. ASSUME NEW x \in Conn, x \notin DOMAIN live' \ todo'
      PROVE  Untouched(x)'
  <2>1. Untouched(x)
    BY <1>1, <1>3, <1>9
  <2>2. QED
    BY <1>1, <2>1 DEF Untouched
<1>10. PhaseInv'
  BY <1>1, <1>3, <1>8, <1>9 DEF PhaseInv
<1>11. QED
  BY <1>1, <1>7, <1>10 DEF IndInv

-----------------------------------------------------------------------------
(* The rest of a poll: what the snapshot does not list is closed.          *)
LEMMA EndLiveStep ==
  ASSUME IndInv, EndLive
  PROVE  IndInv'
<1>1. /\ phase = "live" /\ todo = {} /\ phase' = "tracked"
      /\ todo' = (DOMAIN cache \cup DOMAIN work.base) \ DOMAIN live
      /\ UNCHANGED <<committed, work, cache, live, bad, newKnown, env>>
  BY DEF EndLive
<1>2. /\ committed.schema = 4 /\ work.schema = 4 /\ cache = committed.base
      /\ \A x \in Conn : x \notin DOMAIN live => Untouched(x)
      /\ newKnown = Restrict(work.base, DOMAIN work.base \cap DOMAIN live)
  <2>1. DOMAIN live \ todo = DOMAIN live
    BY <1>1
  <2>2. QED
    BY <1>1, <2>1 DEF IndInv, PhaseInv
<1>3. DOMAIN cache \subseteq Conn /\ DOMAIN work.base \subseteq Conn
  BY DEF IndInv, TypeOK, KnownType, DBInv, DBType
<1>4. TypeOK'
  BY <1>1, <1>3 DEF IndInv, TypeOK, Phases, env
<1>5. \A x \in todo' : Untouched(x)'
  <2>1. \A x \in todo' : Untouched(x)
    BY <1>1, <1>2, <1>3
  <2>2. QED
    BY <1>1, <2>1 DEF Untouched
<1>6. /\ DOMAIN work'.base \subseteq DOMAIN live' \cup todo'
      /\ todo' \cap DOMAIN live' = {}
      /\ newKnown' = Restrict(work'.base, DOMAIN work'.base \cap DOMAIN live')
  BY <1>1, <1>2
<1>7. PhaseInv'
  BY <1>1, <1>2, <1>5, <1>6 DEF PhaseInv
<1>8. QED
  BY <1>1, <1>4, <1>7 DEF IndInv

LEMMA PollGoneStep ==
  ASSUME IndInv, NEW c \in todo, PollGone(c)
  PROVE  IndInv'
<1> DEFINE db == CloseGeneration(work, c, work.base[c], day)
<1>1. /\ phase = "tracked" /\ todo' = todo \ {c}
      /\ work' = CloseTracked(work, cache, c, day)
      /\ UNCHANGED <<committed, cache, phase, live, bad, newKnown, env>>
  BY DEF PollGone
<1>2. /\ committed.schema = 4 /\ work.schema = 4 /\ cache = committed.base
      /\ \A x \in todo : Untouched(x)
      /\ DOMAIN work.base \subseteq DOMAIN live \cup todo
      /\ todo \cap DOMAIN live = {}
      /\ newKnown = Restrict(work.base, DOMAIN work.base \cap DOMAIN live)
  BY <1>1 DEF IndInv, PhaseInv
<1>3. DBInv(work) /\ c \in Conn /\ day \in Nat
  BY <1>1 DEF IndInv, TypeOK
<1>4. /\ DBInv(work') /\ work'.schema = work.schema
      /\ work'.base = Drop(work.base, {c})
  <2>1. CASE c \in DOMAIN work.base
    <3>1. /\ HasPrev(work, c) /\ work.base[c] \in Baseline
          /\ OpenGen(work, c, work.base[c].gen) # {}
      BY <1>3, <2>1, BasedHasPrev
    <3>2. work' = db
      BY <1>1, <3>1 DEF CloseTracked
    <3>3. DBInv(db) /\ db.schema = work.schema /\ db.base = Drop(work.base, {c})
      BY <1>3, <3>1, CloseGenerationSound
    <3>4. QED
      BY <3>2, <3>3
  <2>2. CASE c \notin DOMAIN work.base
    <3> DEFINE base == Drop(work.base, {c})
    <3>1. c \notin DOMAIN cache /\ ~ HasPrev(work, c)
      BY <1>2, <2>2 DEF Untouched, HasPrev
    <3>2. DOMAIN work.base \ {c} = DOMAIN work.base
      BY <2>2
    <3>3. work.base = [x \in DOMAIN work.base |-> work.base[x]]
      BY <1>3 DEF DBInv, DBType
    <3>4. base = work.base
      BY <3>2, <3>3 DEF Drop, Restrict
    <3>5. work' = [work EXCEPT !.base = base]
      BY <1>1, <2>2, <3>1 DEF CloseTracked
    <3> HIDE DEF base
    <3>6. [work EXCEPT !.base = work.base] = work
      BY <1>3 DEF DBInv, DBType
    <3>7. work' = work
      BY <3>4, <3>5, <3>6
    <3>8. QED
      BY <1>3, <3>4, <3>7 DEF base
  <2>3. QED
    BY <2>1, <2>2
<1> HIDE DEF db
<1>5. /\ DOMAIN work'.base = DOMAIN work.base \ {c}
      /\ \A x \in DOMAIN work'.base : work'.base[x] = work.base[x]
  BY <1>4 DEF Drop, Restrict
<1>6. DBType(work')
  BY <1>4 DEF DBInv
<1>7. TypeOK'
  BY <1>1, <1>6 DEF IndInv, TypeOK, env
<1>8. \A x \in todo' : Untouched(x)'
  BY <1>1, <1>2, <1>5 DEF Untouched
<1>9. /\ DOMAIN work'.base \subseteq DOMAIN live' \cup todo'
      /\ todo' \cap DOMAIN live' = {}
  BY <1>1, <1>2, <1>5
<1>10. newKnown' = Restrict(work'.base, DOMAIN work'.base \cap DOMAIN live')
  <2>1. DOMAIN work'.base \cap DOMAIN live' = DOMAIN work.base \cap DOMAIN live
    BY <1>1, <1>2, <1>5
  <2>2. QED
    BY <1>1, <1>2, <1>5, <2>1 DEF Restrict
<1>11. PhaseInv'
  BY <1>1, <1>2, <1>4, <1>8, <1>9, <1>10 DEF PhaseInv
<1>12. QED
  BY <1>1, <1>4, <1>7, <1>11 DEF IndInv

LEMMA EndTrackedStep ==
  ASSUME IndInv, EndTracked
  PROVE  IndInv'
<1>1. /\ phase = "tracked" /\ todo = {} /\ phase' = "stale"
      /\ work' = PruneBaselines(work)
      /\ todo' = {e \in OpenRows(work) : work.rows[e].cid \notin DOMAIN live}
      /\ UNCHANGED <<committed, cache, live, bad, newKnown, env>>
  BY DEF EndTracked
<1>2. /\ committed.schema = 4 /\ work.schema = 4 /\ cache = committed.base
      /\ DOMAIN work.base \subseteq DOMAIN live
      /\ newKnown = Restrict(work.base, DOMAIN work.base \cap DOMAIN live)
  BY <1>1 DEF IndInv, PhaseInv
<1>3. DBInv(work)
  BY DEF IndInv
<1>4. work' = work
  BY <1>1, <1>3, KnownOpenIsBase
<1>5. newKnown = work.base
  <2>1. DOMAIN work.base \cap DOMAIN live = DOMAIN work.base
    BY <1>2
  <2>2. work.base = [x \in DOMAIN work.base |-> work.base[x]]
    BY <1>3 DEF DBInv, DBType
  <2>3. QED
    BY <1>2, <2>1, <2>2 DEF Restrict
<1>6. TypeOK'
  BY <1>1, <1>4 DEF IndInv, TypeOK, Phases, OpenRows, env
<1>7. PhaseInv'
  BY <1>1, <1>2, <1>4, <1>5 DEF PhaseInv, OpenRows
<1>8. QED
  BY <1>1, <1>3, <1>4, <1>6, <1>7 DEF IndInv

LEMMA CloseStaleStep ==
  ASSUME IndInv, NEW e \in todo, CloseStale(e)
  PROVE  IndInv'
<1> DEFINE db == AssignSeq(Update(work, e, work.rows[e].bytes, TRUE, day), e)
<1>1. /\ phase = "stale" /\ todo' = todo \ {e} /\ work' = db
      /\ UNCHANGED <<committed, cache, phase, live, bad, newKnown, env>>
  BY DEF CloseStale
<1>2. /\ committed.schema = 4 /\ work.schema = 4 /\ cache = committed.base
      /\ \A f \in todo : ~ work.rows[f].closed /\ work.rows[f].cid \notin DOMAIN live
      /\ DOMAIN work.base \subseteq DOMAIN live
      /\ newKnown = work.base
  BY <1>1 DEF IndInv, PhaseInv
<1>3. DBInv(work) /\ todo \subseteq DOMAIN work.rows /\ day \in Nat
  BY <1>1 DEF IndInv, TypeOK
<1>4. e \in OpenRows(work) /\ work.rows[e].cid \notin DOMAIN work.base
  BY <1>2, <1>3 DEF OpenRows
<1>5. /\ DBInv(db) /\ db.base = work.base /\ db.schema = work.schema
      /\ DOMAIN db.rows = DOMAIN work.rows
      /\ \A f \in DOMAIN work.rows : f # e => db.rows[f] = work.rows[f]
  BY <1>3, <1>4, CloseStaleSound
<1> HIDE DEF db
<1>6. DBType(db)
  BY <1>5 DEF DBInv
<1>7. TypeOK'
  BY <1>1, <1>3, <1>5, <1>6 DEF IndInv, TypeOK, env
<1>8. \A f \in todo' : ~ work'.rows[f].closed /\ work'.rows[f].cid \notin DOMAIN live'
  BY <1>1, <1>2, <1>3, <1>5
<1>9. PhaseInv'
  BY <1>1, <1>2, <1>5, <1>8 DEF PhaseInv
<1>10. QED
  BY <1>1, <1>5, <1>7, <1>9 DEF IndInv

LEMMA EndStaleStep ==
  ASSUME IndInv, EndStale
  PROVE  IndInv'
<1>1. /\ phase = "stale" /\ todo = {} /\ phase' = "commit"
      /\ work' = PruneBaselines(work)
      /\ UNCHANGED <<committed, cache, live, bad, todo, newKnown, env>>
  BY DEF EndStale
<1>2. /\ committed.schema = 4 /\ work.schema = 4 /\ cache = committed.base
      /\ newKnown = work.base
  BY <1>1 DEF IndInv, PhaseInv
<1>3. DBInv(work)
  BY DEF IndInv
<1>4. work' = work
  BY <1>1, <1>3, KnownOpenIsBase
<1>5. TypeOK'
  BY <1>1, <1>4 DEF IndInv, TypeOK, Phases, env
<1>6. PhaseInv'
  BY <1>1, <1>2, <1>4 DEF PhaseInv
<1>7. QED
  BY <1>1, <1>3, <1>4, <1>5, <1>6 DEF IndInv

-----------------------------------------------------------------------------
(* The end of a poll, of a failed one, and of the process.                 *)
LEMMA CommitPollStep ==
  ASSUME IndInv, CommitPoll
  PROVE  IndInv'
<1>1. /\ phase = "commit" /\ phase' = "idle" /\ committed' = work /\ cache' = newKnown
      /\ live' = Empty /\ bad' = {} /\ todo' = {} /\ newKnown' = Empty
      /\ UNCHANGED <<work, env>>
  BY DEF CommitPoll, Forget
<1>2. work.schema = 4 /\ newKnown = work.base /\ DBInv(work)
  BY <1>1 DEF IndInv, PhaseInv
<1>3. TypeOK'
  BY <1>1 DEF IndInv, TypeOK, KnownType, Empty, Phases, env
<1>4. PhaseInv'
  BY <1>1, <1>2 DEF PhaseInv
<1>5. QED
  BY <1>1, <1>2, <1>3, <1>4 DEF IndInv

(* Rolling back to the committed database.                                 *)
LEMMA RollbackStep ==
  ASSUME IndInv, work' = committed, committed' = committed, UNCHANGED env, Forget,
         \/ phase' = "idle" /\ cache' = committed.base /\ committed.schema = 4
         \/ phase' = "down" /\ cache' = Empty
  PROVE  IndInv'
<1>1. live' = Empty /\ bad' = {} /\ todo' = {} /\ newKnown' = Empty
  BY DEF Forget
<1>2. DBInv(committed) /\ DBType(committed)
  BY DEF IndInv, DBInv
<1>3. KnownType(Empty) /\ KnownType(committed.base)
  BY <1>2 DEF KnownType, Empty, DBType
<1>4. TypeOK'
  BY <1>1, <1>2, <1>3 DEF IndInv, TypeOK, KnownType, Empty, Phases, env
<1>5. PhaseInv'
  BY <1>1 DEF PhaseInv
<1>6. QED
  BY <1>2, <1>4, <1>5 DEF IndInv

LEMMA CommitFailsStep ==
  ASSUME IndInv, CommitFails
  PROVE  IndInv'
<1>1. committed.schema = 4 /\ KnownOpen(committed) = committed.base
  BY KnownOpenIsBase DEF IndInv, PhaseInv, CommitFails
<1>2. QED
  BY <1>1, RollbackStep DEF CommitFails

LEMMA TickFailsStep ==
  ASSUME IndInv, TickFails
  PROVE  IndInv'
<1>1. committed.schema = 4 /\ cache = committed.base
  BY DEF IndInv, PhaseInv, TickFails
<1>2. QED
  BY <1>1, RollbackStep DEF TickFails

LEMMA CrashStep ==
  ASSUME IndInv, Crash
  PROVE  IndInv'
BY RollbackStep DEF Crash

-----------------------------------------------------------------------------
(* Retention.                                                              *)
LEMMA BeginRetentionStep ==
  ASSUME IndInv, BeginRetention
  PROVE  IndInv'
<1>1. /\ phase = "idle" /\ phase' = "retain"
      /\ todo' \subseteq Expired(committed, day)
      /\ UNCHANGED <<committed, work, cache, live, bad, newKnown, env>>
  BY DEF BeginRetention, Oldest
<1>2. work = committed
  BY <1>1 DEF IndInv, PhaseInv
<1>3. todo' \subseteq DOMAIN work.rows /\ \A e \in todo' : work.rows[e].closed
  BY <1>1, <1>2 DEF Expired
<1>4. TypeOK'
  BY <1>1, <1>3 DEF IndInv, TypeOK, Phases, env
<1>5. PhaseInv'
  BY <1>1, <1>2, <1>3 DEF IndInv, PhaseInv
<1>6. QED
  BY <1>1, <1>4, <1>5 DEF IndInv

LEMMA PruneRowStep ==
  ASSUME IndInv, NEW e \in todo, PruneRow(e)
  PROVE  IndInv'
<1>1. /\ phase = "retain" /\ todo' = todo \ {e} /\ work' = Pruned(work, e)
      /\ UNCHANGED <<committed, cache, phase, live, bad, newKnown, env>>
  BY DEF PruneRow, Pruned
<1>2. DBInv(work) /\ todo \subseteq DOMAIN work.rows /\ \A f \in todo : work.rows[f].closed
  BY <1>1 DEF IndInv, TypeOK, PhaseInv
<1>3. /\ DBInv(work') /\ work'.base = work.base /\ work'.schema = work.schema
      /\ DOMAIN work'.rows = DOMAIN work.rows \ {e}
      /\ \A f \in DOMAIN work'.rows : work'.rows[f] = work.rows[f]
  BY <1>1, <1>2, PruneRowSound
<1>4. DBType(work')
  BY <1>3 DEF DBInv
<1>5. TypeOK'
  BY <1>1, <1>2, <1>3, <1>4 DEF IndInv, TypeOK, env
<1>6. PhaseInv'
  BY <1>1, <1>2, <1>3 DEF IndInv, PhaseInv
<1>7. QED
  BY <1>1, <1>3, <1>5, <1>6 DEF IndInv

LEMMA CommitRetentionStep ==
  ASSUME IndInv, CommitRetention
  PROVE  IndInv'
<1>1. /\ phase = "retain" /\ todo = {} /\ phase' = "idle" /\ committed' = work
      /\ UNCHANGED <<work, cache, live, bad, todo, newKnown, env>>
  BY DEF CommitRetention
<1>2. /\ work.schema = 4 /\ cache = work.base /\ DBInv(work)
      /\ live = Empty /\ newKnown = Empty
  BY <1>1 DEF IndInv, PhaseInv
<1>3. TypeOK'
  BY <1>1 DEF IndInv, TypeOK, Phases, env
<1>4. PhaseInv'
  BY <1>1, <1>2 DEF PhaseInv
<1>5. QED
  BY <1>1, <1>2, <1>3, <1>4 DEF IndInv

-----------------------------------------------------------------------------
(* Both kinds of database the daemon may find are sound.                   *)
LEMMA NewDBSound == DBInv(NewDB) /\ NewDB.schema = 4
<1>1. /\ DOMAIN Empty = {}
      /\ Empty \in [{} -> Row] /\ Empty \in [{} -> Baseline]
  BY DEF Empty
<1>2. 4 \in {3, 4} /\ 0 \in Nat /\ 0 \in 0 .. 0 /\ {} \subseteq 1 .. 0
  OBVIOUS
<1>3. DBType([schema |-> 4, rows |-> Empty, base |-> Empty,
              seq |-> 0, pruned |-> 0, eid |-> 0])
  BY <1>1, <1>2, MakeDB
<1>4. DBType(NewDB)
  BY <1>3 DEF NewDB
<1>5. QED
  BY <1>4 DEF DBInv, NewDB, Empty, UniqueGen, OpenIsLatest, OpenRows, RowsOf,
              SeqOfClosed, Dense, BaselineOfOpen, GenBelowId

LEMMA LegacyDBSound ==
  ASSUME NEW n \in Nat \ {0}, NEW owner \in Injection(1 .. n, Conn),
         NEW bytes \in Counters, NEW shut \in SUBSET Range(owner),
         NEW tracked \in SUBSET (Range(owner) \ shut)
  PROVE  DBInv(LegacyDB(owner, shut, tracked, bytes))
<1> DEFINE rows == [e \in 1 .. n |->
                     [cid |-> owner[e], gen |-> 0, closed |-> owner[e] \in shut,
                      bytes |-> bytes, seq |-> 0, seen |-> 0]]
           base == [c \in tracked |-> [gen |-> 0, raw |-> bytes, acc |-> bytes]]
           db == LegacyDB(owner, shut, tracked, bytes)
<1>1. /\ owner \in [1 .. n -> Conn]
      /\ \A e, f \in 1 .. n : owner[e] = owner[f] => e = f
      /\ Range(owner) \subseteq Conn
      /\ \A c \in Range(owner) : \E e \in 1 .. n : owner[e] = c
  BY DEF Injection, IsInjective, Range
<1>2. Cardinality(1 .. n) = n
  BY FS_Interval
<1>3. db = [schema |-> 3, rows |-> rows, base |-> base,
            seq |-> 0, pruned |-> 0, eid |-> n]
  <2>1. DOMAIN owner = 1 .. n
    BY <1>1
  <2>2. QED
    BY <1>2, <2>1 DEF LegacyDB
<1>4. DOMAIN rows = 1 .. n /\ rows \in [1 .. n -> Row]
  BY <1>1 DEF Row
<1>5. DOMAIN base \subseteq Conn /\ base \in [DOMAIN base -> Baseline]
  BY <1>1 DEF Baseline
<1>6. /\ \A e \in 1 .. n : /\ rows[e].cid = owner[e] /\ rows[e].gen = 0
                           /\ rows[e].seq = 0 /\ rows[e].bytes = bytes
                           /\ rows[e].closed <=> owner[e] \in shut
      /\ DOMAIN base = tracked
      /\ \A c \in tracked : base[c].gen = 0 /\ base[c].acc = bytes
  OBVIOUS
<1> HIDE DEF rows, base
<1>7. DBType(db)
  BY <1>3, <1>4, <1>5, MakeDB
<1>8. /\ db.schema = 3 /\ db.rows = rows /\ db.base = base
      /\ db.seq = 0 /\ db.pruned = 0 /\ db.eid = n
  BY <1>3
<1> HIDE DEF db
<1>9. UniqueGen(db) /\ OpenIsLatest(db) /\ GenBelowId(db)
  BY <1>1, <1>4, <1>6, <1>8 DEF UniqueGen, OpenIsLatest, OpenRows, RowsOf, GenBelowId
<1>10. SeqOfClosed(db) /\ Dense(db)
  BY <1>4, <1>6, <1>8 DEF SeqOfClosed, Dense
<1>11. BaselineOfOpen(db)
  <2> SUFFICES ASSUME NEW c \in tracked
               PROVE  \E e \in OpenGen(db, c, 0) : db.rows[e].bytes = bytes
    BY <1>6, <1>8 DEF BaselineOfOpen
  <2>1. PICK e \in 1 .. n : owner[e] = c
    BY <1>1
  <2>2. e \in OpenGen(db, c, 0) /\ db.rows[e].bytes = bytes
    BY <1>4, <1>6, <1>8, <2>1 DEF OpenGen, GenRows, RowsOf, OpenRows
  <2>3. QED
    BY <2>2
<1>12. QED
  BY <1>7, <1>9, <1>10, <1>11 DEF DBInv, db

LEMMA InitSound == Init => IndInv
<1> SUFFICES ASSUME Init PROVE IndInv
  OBVIOUS
<1>1. /\ work = committed /\ cache = Empty /\ phase = "down" /\ live = Empty
      /\ bad = {} /\ todo = {} /\ newKnown = Empty /\ day = 0
  BY DEF Init
<1>2. Zero \in Counters
  BY DEF Zero, Counters
<1>3. /\ DBInv(committed)
      /\ sent \in [Conn -> Counters]
      /\ clash \in [Conn -> [on : BOOLEAN, count : Counters, starts : Nat]]
  <2>1. CASE /\ committed = NewDB
             /\ sent = [c \in Conn |-> Zero]
             /\ clash = [c \in Conn |-> [on |-> FALSE, count |-> Zero, starts |-> 0]]
    BY <1>2, <2>1, NewDBSound
  <2>2. CASE \E n \in 1 .. Cardinality(Conn) : Legacy(n)
    <3>1. PICK n \in 1 .. Cardinality(Conn) : Legacy(n)
      BY <2>2
    <3>2. n \in Nat \ {0}
      BY ConstantsAssumption, FS_CardinalityType
    <3>3. PICK owner \in Injection(1 .. n, Conn), bytes \in [Dir -> 0 .. MaxTraffic] :
            \E shut \in SUBSET Range(owner) :
              \E tracked \in SUBSET (Range(owner) \ shut) :
                /\ committed = LegacyDB(owner, shut, tracked, bytes)
                /\ sent = [c \in Conn |-> IF c \in Range(owner) THEN bytes ELSE Zero]
                /\ clash \in [Conn -> {[on |-> FALSE, count |-> Zero, starts |-> 0]}
                                     \cup {[on |-> TRUE, count |-> bytes, starts |-> 0]}]
      BY <3>1 DEF Legacy
    <3>4. bytes \in Counters
      BY ConstantsAssumption, <3>3 DEF Counters
    <3>5. DBInv(committed)
      BY <3>2, <3>3, <3>4, LegacyDBSound
    <3>6. sent \in [Conn -> Counters]
      BY <1>2, <3>3, <3>4
    <3>7. clash \in [Conn -> [on : BOOLEAN, count : Counters, starts : Nat]]
      <4> DEFINE idle == [on |-> FALSE, count |-> Zero, starts |-> 0]
                 busy == [on |-> TRUE, count |-> bytes, starts |-> 0]
                 State == [on : BOOLEAN, count : Counters, starts : Nat]
      <4>1. idle \in State /\ busy \in State
        BY <1>2, <3>4
      <4>2. clash \in [Conn -> {idle} \cup {busy}]
        BY <3>3
      <4> HIDE DEF idle, busy, State
      <4>3. clash \in [Conn -> State]
        BY <4>1, <4>2
      <4>4. QED
        BY <4>3 DEF State
    <3>8. QED
      BY <3>5, <3>6, <3>7
  <2>3. QED
    BY <2>1, <2>2 DEF Init
<1>4. DBType(committed)
  BY <1>3 DEF DBInv
<1>5. TypeOK
  BY <1>1, <1>3, <1>4 DEF TypeOK, KnownType, Empty, Phases
<1>6. PhaseInv
  BY <1>1 DEF PhaseInv
<1>7. QED
  BY <1>1, <1>3, <1>5, <1>6 DEF IndInv

-----------------------------------------------------------------------------
(***************************************************************************)
(* The theorems.                                                           *)
(***************************************************************************)

(* The invariant is inductive.                                             *)
LEMMA NextSound == IndInv /\ [Next]_vars => IndInv'
<1> SUFFICES ASSUME IndInv, [Next]_vars PROVE IndInv'
  OBVIOUS
<1>1. CASE UNCHANGED vars
  <2>1. UNCHANGED <<committed, work, cache, phase, live, bad, todo, newKnown, clash, sent, day>>
    BY <1>1 DEF vars, txn, env
  <2>2. QED
    BY <2>1 DEF IndInv, TypeOK, PhaseInv, Untouched
<1>2. CASE Poll
  <2>1. CASE BeginPoll
    BY <2>1, BeginPollStep
  <2>2. ASSUME NEW c \in todo, PollDelta(c) PROVE IndInv'
    BY <2>2, PollDeltaStep
  <2>3. ASSUME NEW c \in todo, PollReset(c) PROVE IndInv'
    BY <2>3, PollResetStep
  <2>4. ASSUME NEW c \in todo, PollUntracked(c) PROVE IndInv'
    BY <2>4, PollUntrackedStep
  <2>5. ASSUME NEW c \in todo, PollUnknown(c) PROVE IndInv'
    BY <2>5, PollUnknownStep
  <2>6. ASSUME NEW c \in todo, PollInvalid(c) PROVE IndInv'
    BY <2>6, PollInvalidStep
  <2>7. ASSUME NEW c \in todo, PollGone(c) PROVE IndInv'
    BY <2>7, PollGoneStep
  <2>8. ASSUME NEW e \in todo, CloseStale(e) PROVE IndInv'
    BY <2>8, CloseStaleStep
  <2>9. CASE EndLive \/ EndTracked \/ EndStale
    BY <2>9, EndLiveStep, EndTrackedStep, EndStaleStep
  <2>10. CASE CommitPoll \/ CommitFails
    BY <2>10, CommitPollStep, CommitFailsStep
  <2>11. QED
    BY <1>2, <2>1, <2>2, <2>3, <2>4, <2>5, <2>6, <2>7, <2>8, <2>9, <2>10 DEF Poll
<1>3. CASE Retention
  BY <1>3, BeginRetentionStep, PruneRowStep, CommitRetentionStep DEF Retention
<1>4. CASE Start \/ FinishMigration \/ TickFails \/ Crash
  BY <1>4, StartStep, FinishMigrationStep, TickFailsStep, CrashStep
<1>5. CASE \E e \in todo : MigrateRow(e)
  BY <1>5, MigrateRowStep
<1>6. CASE Environment
  BY <1>6, EnvironmentStep
<1>7. QED
  BY <1>1, <1>2, <1>3, <1>4, <1>5, <1>6 DEF Next, Daemon

(* In every state of every execution, whatever sing-box counts, whenever   *)
(* polls, commits or the process fail: the committed database and the open *)
(* transaction are sound, and each phase has what it needs of them.        *)
THEOREM Soundness == Spec => []IndInv
<1>1. QED
  BY InitSound, NextSound, PTL DEF Spec

(* No byte count goes negative and no event_id is reused.                  *)
THEOREM TypeCorrect == Spec => []TypeOK
<1>1. IndInv => TypeOK
  BY DEF IndInv
<1>2. QED
  BY <1>1, Soundness, PTL

(* At most one open generation per connection, and it is the latest.       *)
THEOREM GenerationsCorrect == Spec => []GenerationsSound
<1>1. IndInv => GenerationsSound
  BY DEF IndInv, DBInv, GenerationsSound
<1>2. QED
  BY <1>1, Soundness, PTL

(* The export_seq of closed rows are unique, and none is missing above the *)
(* pruned mark: what the audit cursor protocol stands on.                  *)
THEOREM ExportSeqCorrect == Spec => []ExportSeqSound
<1>1. IndInv => ExportSeqSound
  BY DEF IndInv, DBInv, ExportSeqSound
<1>2. QED
  BY <1>1, Soundness, PTL

(* Every baseline agrees with an open row, so deltas go where they belong. *)
THEOREM BaselineCorrect == Spec => []BaselineSound
<1>1. IndInv => BaselineSound
  BY DEF IndInv, DBInv, BaselineSound
<1>2. QED
  BY <1>1, Soundness, PTL

(* Between ticks the cache is what a restart would read back.              *)
THEOREM CacheCorrect == Spec => []CacheIsDurable
<1>1. IndInv => CacheIsDurable
  BY KnownOpenIsBase DEF IndInv, PhaseInv, CacheIsDurable
<1>2. QED
  BY <1>1, Soundness, PTL

-----------------------------------------------------------------------------
(***************************************************************************)
(* The daemon implements AuditLog.                                         *)
(***************************************************************************)
(* `new` has the numbered rows of `old` as they were, and no others that   *)
(* bear a number of that time.                                             *)
Grows(old, new) ==
  /\ new.seq >= old.seq /\ new.pruned = old.pruned
  /\ \A e \in DOMAIN old.rows :
       old.rows[e].seq # 0 => e \in DOMAIN new.rows /\ new.rows[e] = old.rows[e]
  /\ \A e \in DOMAIN new.rows :
       new.rows[e].seq # 0 /\ new.rows[e].seq <= old.seq =>
         e \in DOMAIN old.rows /\ old.rows[e].seq = new.rows[e].seq

(* `new` is `old` without some rows, all at or below its mark.             *)
Shrinks(old, new) ==
  /\ new.seq = old.seq /\ new.pruned >= old.pruned
  /\ DOMAIN new.rows \subseteq DOMAIN old.rows
  /\ \A e \in DOMAIN new.rows : new.rows[e] = old.rows[e]
  /\ \A e \in DOMAIN old.rows \ DOMAIN new.rows : old.rows[e].seq <= new.pruned

(* What the open transaction has done so far.                              *)
LogInv ==
  /\ phase \in {"migrate", "live", "tracked", "stale", "commit"} => Grows(committed, work)
  /\ phase = "retain" => Shrinks(committed, work)

-----------------------------------------------------------------------------
(***************************************************************************)
(* The two relations.                                                      *)
(***************************************************************************)
(* The numbers of a database, as the arithmetic below needs them.          *)
LEMMA RowFacts ==
  ASSUME NEW db, DBType(db)
  PROVE  /\ db.seq \in Nat /\ db.pruned \in Nat /\ db.pruned <= db.seq /\ db.eid \in Nat
         /\ \A e \in DOMAIN db.rows :
              db.rows[e].seq \in Nat /\ e \in 1 .. db.eid
BY DEF DBType, Row

(* A database grows by nothing.                                            *)
LEMMA GrowsReflexive == ASSUME NEW db, DBType(db) PROVE Grows(db, db)
BY RowFacts DEF Grows

(* Two writes that make the log grow do so together.                       *)
LEMMA GrowsTransitive ==
  ASSUME NEW a, NEW b, NEW c, DBType(a), DBType(b), DBType(c), Grows(a, b), Grows(b, c)
  PROVE  Grows(a, c)
<1>1. c.seq >= a.seq /\ c.pruned = a.pruned
  BY RowFacts DEF Grows
<1>2. \A e \in DOMAIN a.rows :
        a.rows[e].seq # 0 => e \in DOMAIN c.rows /\ c.rows[e] = a.rows[e]
  BY DEF Grows
<1>3. ASSUME NEW e \in DOMAIN c.rows, c.rows[e].seq # 0, c.rows[e].seq <= a.seq
      PROVE  e \in DOMAIN a.rows /\ a.rows[e].seq = c.rows[e].seq
  <2>1. c.rows[e].seq <= b.seq
    BY <1>3, RowFacts DEF Grows
  <2>2. e \in DOMAIN b.rows /\ b.rows[e].seq = c.rows[e].seq
    BY <1>3, <2>1 DEF Grows
  <2>3. QED
    BY <1>3, <2>2 DEF Grows
<1>4. QED
  BY <1>1, <1>2, <1>3 DEF Grows

(* A row without a number is revised, or gets the next number.             *)
LEMMA ReviseGrows ==
  ASSUME NEW db, NEW new, NEW e \in DOMAIN db.rows, NEW r, DBType(db), DBType(new),
         Revised(db, new, e, r), db.rows[e].seq = 0, new.pruned = db.pruned,
         \/ r.seq = 0 /\ new.seq = db.seq
         \/ r.seq = db.seq + 1 /\ new.seq = db.seq + 1
  PROVE  Grows(db, new)
<1>1. new.seq >= db.seq
  BY RowFacts
<1>2. \A f \in DOMAIN db.rows :
        db.rows[f].seq # 0 => f \in DOMAIN new.rows /\ new.rows[f] = db.rows[f]
  BY DEF Revised
<1>3. ASSUME NEW f \in DOMAIN new.rows, new.rows[f].seq # 0, new.rows[f].seq <= db.seq
      PROVE  f \in DOMAIN db.rows /\ db.rows[f].seq = new.rows[f].seq
  <2>1. f \in DOMAIN db.rows /\ new.rows[f] = IF f = e THEN r ELSE db.rows[f]
    BY <1>3 DEF Revised
  <2>2. f # e
    BY <1>3, <2>1, RowFacts
  <2>3. QED
    BY <2>1, <2>2
<1>4. QED
  BY <1>1, <1>2, <1>3 DEF Grows

(* A row inserted without a number is not in the log.                      *)
LEMMA InsertGrows ==
  ASSUME NEW db, NEW new, NEW r, DBType(db), DBType(new), Inserted(db, new, r), r.seq = 0
  PROVE  Grows(db, new)
<1>1. db.eid + 1 \notin DOMAIN db.rows
  BY RowFacts
<1>2. QED
  BY <1>1, RowFacts DEF Inserted, Grows

(* What leaves the rows and both counters alone leaves the log alone.      *)
LEMMA SameRowsGrow ==
  ASSUME NEW db, NEW new, DBType(db), new.rows = db.rows, new.seq = db.seq,
         new.pruned = db.pruned
  PROVE  Grows(db, new)
BY RowFacts DEF Grows

(* Two deletions under the mark are one.                                   *)
LEMMA ShrinksTransitive ==
  ASSUME NEW a, NEW b, NEW c, DBType(a), DBType(b), DBType(c), Shrinks(a, b), Shrinks(b, c)
  PROVE  Shrinks(a, c)
<1>1. c.seq = a.seq /\ c.pruned >= a.pruned
  BY RowFacts DEF Shrinks
<1>2. DOMAIN c.rows \subseteq DOMAIN a.rows /\ \A e \in DOMAIN c.rows : c.rows[e] = a.rows[e]
  BY DEF Shrinks
<1>3. ASSUME NEW e \in DOMAIN a.rows \ DOMAIN c.rows
      PROVE  a.rows[e].seq <= c.pruned
  <2>1. CASE e \in DOMAIN b.rows
    BY <1>3, <2>1 DEF Shrinks
  <2>2. CASE e \notin DOMAIN b.rows
    BY <1>3, <2>2, RowFacts DEF Shrinks
  <2>3. QED
    BY <2>1, <2>2
<1>4. QED
  BY <1>1, <1>2, <1>3 DEF Shrinks

-----------------------------------------------------------------------------
(***************************************************************************)
(* The writes of a poll and of a migration make the log grow.              *)
(***************************************************************************)
(* Baselines are not in the log.                                           *)
LEMMA SetBaselineGrows ==
  ASSUME NEW db, DBType(db), NEW c \in Conn, NEW g \in Nat,
         NEW raw \in Counters, NEW acc \in Counters
  PROVE  LET new == SetBaseline(db, c, g, raw, acc)
         IN  DBType(new) /\ Grows(db, new)
<1> DEFINE b == [gen |-> g, raw |-> raw, acc |-> acc]
           base == Put(db.base, c, b)
           new == SetBaseline(db, c, g, raw, acc)
<1>1. b \in Baseline
  BY DEF Baseline
<1>2. new = [db EXCEPT !.base = base]
  BY DEF SetBaseline
<1> HIDE DEF b, new
<1>3. DOMAIN base \subseteq Conn /\ base \in [DOMAIN base -> Baseline]
  BY <1>1 DEF Put, DBType
<1> HIDE DEF base
<1>4. /\ DBType(new) /\ new.rows = db.rows /\ new.seq = db.seq
      /\ new.pruned = db.pruned
  BY <1>2, <1>3, RebaseShape
<1>5. Grows(db, new)
  BY <1>4, SameRowsGrow
<1>6. QED
  BY <1>4, <1>5 DEF new

(* Writing an open generation: its row has no number.                      *)
LEMMA WriteOpenExistingGrows ==
  ASSUME NEW db, DBInv(db),
         NEW c \in Conn, NEW g \in Nat, OpenGen(db, c, g) # {},
         NEW raw \in Counters, NEW acc \in Counters, NEW now \in Nat
  PROVE  LET new == WriteOpen(db, c, g, raw, acc, now)
         IN  DBType(new) /\ Grows(db, new)
<1> DEFINE e == CHOOSE e \in OpenGen(db, c, g) : TRUE
           mid == Update(db, e, acc, FALSE, now)
           new == SetBaseline(mid, c, g, raw, acc)
           r == [cid |-> db.rows[e].cid, gen |-> db.rows[e].gen, closed |-> FALSE,
                 bytes |-> acc, seq |-> db.rows[e].seq, seen |-> now]
<1>1. e \in OpenGen(db, c, g)
  OBVIOUS
<1>2. WriteOpen(db, c, g, raw, acc, now) = new
  BY DEF WriteOpen, Landed, UpsertOpen
<1> HIDE DEF e
<1>3. e \in DOMAIN db.rows /\ db.rows[e].seq = 0 /\ DBType(db)
  BY <1>1 DEF OpenGen, OpenRows, DBInv, SeqOfClosed
<1>4. /\ DBType(mid) /\ Revised(db, mid, e, r) /\ mid.seq = db.seq
      /\ mid.pruned = db.pruned
  BY <1>3, UpdateShape
<1>5. r.seq = 0
  BY <1>3
<1> HIDE DEF mid, r
<1>6. Grows(db, mid)
  BY <1>3, <1>4, <1>5, ReviseGrows
<1>7. DBType(new) /\ Grows(mid, new)
  BY <1>4, SetBaselineGrows
<1> HIDE DEF new
<1>8. Grows(db, new)
  BY <1>3, <1>4, <1>6, <1>7, GrowsTransitive
<1>9. QED
  BY <1>2, <1>7, <1>8

(* Writing a generation that has no row yet.                               *)
LEMMA WriteOpenNewGrows ==
  ASSUME NEW db, DBType(db),
         NEW c \in Conn, NEW g \in Nat, \A f \in RowsOf(db, c) : db.rows[f].gen # g,
         NEW raw \in Counters, NEW acc \in Counters, NEW now \in Nat
  PROVE  LET new == WriteOpen(db, c, g, raw, acc, now)
         IN  DBType(new) /\ Grows(db, new)
<1> DEFINE mid == Insert(db, c, g, acc, FALSE, now)
           new == SetBaseline(mid, c, g, raw, acc)
           r == [cid |-> c, gen |-> g, closed |-> FALSE,
                 bytes |-> acc, seq |-> 0, seen |-> now]
<1>1. GenRows(db, c, g) = {} /\ OpenGen(db, c, g) = {}
  BY DEF GenRows, OpenGen
<1>2. WriteOpen(db, c, g, raw, acc, now) = new
  BY <1>1 DEF WriteOpen, Landed, UpsertOpen
<1>3. DBType(mid) /\ Inserted(db, mid, r)
  BY InsertShape
<1>4. r.seq = 0
  OBVIOUS
<1> HIDE DEF mid, r
<1>5. Grows(db, mid)
  BY <1>3, <1>4, InsertGrows
<1>6. DBType(new) /\ Grows(mid, new)
  BY <1>3, SetBaselineGrows
<1> HIDE DEF new
<1>7. Grows(db, new)
  BY <1>3, <1>5, <1>6, GrowsTransitive
<1>8. QED
  BY <1>2, <1>6, <1>7

(* Closing an open row gives it the next number.                           *)
LEMMA CloseRowGrows ==
  ASSUME NEW db, DBInv(db), NEW e \in OpenRows(db),
         NEW bytes \in Counters, NEW now \in Nat
  PROVE  LET new == AssignSeq(Update(db, e, bytes, TRUE, now), e)
         IN  DBType(new) /\ Grows(db, new)
<1> DEFINE mid == Update(db, e, bytes, TRUE, now)
           new == AssignSeq(mid, e)
           r == [cid |-> db.rows[e].cid, gen |-> db.rows[e].gen, closed |-> TRUE,
                 bytes |-> bytes, seq |-> db.rows[e].seq, seen |-> now]
           q == [cid |-> mid.rows[e].cid, gen |-> mid.rows[e].gen,
                 closed |-> mid.rows[e].closed, bytes |-> mid.rows[e].bytes,
                 seq |-> mid.seq + 1, seen |-> mid.rows[e].seen]
<1>1. DBType(db) /\ e \in DOMAIN db.rows /\ db.rows[e].seq = 0
  BY DEF DBInv, OpenRows, SeqOfClosed
<1>2. /\ DBType(mid) /\ Revised(db, mid, e, r) /\ mid.seq = db.seq
      /\ mid.pruned = db.pruned
  BY <1>1, UpdateShape
<1>3. r.seq = 0
  BY <1>1
<1> HIDE DEF mid, r
<1>4. Grows(db, mid) /\ e \in DOMAIN mid.rows /\ mid.rows[e].seq = 0
  <2>1. Grows(db, mid)
    BY <1>1, <1>2, <1>3, ReviseGrows
  <2>2. QED
    BY <1>1, <1>2, <1>3, <2>1 DEF Revised
<1>5. /\ DBType(new) /\ Revised(mid, new, e, q) /\ new.seq = mid.seq + 1
      /\ new.pruned = mid.pruned
  BY <1>2, <1>4, AssignSeqShape
<1>6. q.seq = mid.seq + 1
  OBVIOUS
<1> HIDE DEF new, q
<1>7. Grows(mid, new)
  BY <1>2, <1>4, <1>5, <1>6, ReviseGrows
<1>8. Grows(db, new)
  BY <1>1, <1>2, <1>4, <1>5, <1>7, GrowsTransitive
<1>9. QED
  BY <1>5, <1>8 DEF new, mid

(* The same through _close_generation.                                     *)
LEMMA CloseGenerationGrows ==
  ASSUME NEW db, DBInv(db), NEW c \in Conn, NEW st \in Baseline,
         OpenGen(db, c, st.gen) # {}, NEW now \in Nat
  PROVE  Grows(db, CloseGeneration(db, c, st, now))
<1> DEFINE e == CHOOSE e \in OpenGen(db, c, st.gen) : TRUE
           mid == AssignSeq(Update(db, e, st.acc, TRUE, now), e)
           base == Drop(db.base, {c})
           new == [mid EXCEPT !.base = Drop(@, {c})]
<1>1. e \in OpenGen(db, c, st.gen)
  OBVIOUS
<1>2. CloseGeneration(db, c, st, now) = new
  BY DEF CloseGeneration, UpsertClosed
<1> HIDE DEF e
<1>3. e \in OpenRows(db) /\ st.acc \in Counters
  BY <1>1 DEF OpenGen, Baseline
<1>4. DBType(mid) /\ Grows(db, mid)
  BY <1>3, CloseRowGrows
<1> HIDE DEF mid
<1>5. /\ DOMAIN Drop(mid.base, {c}) \subseteq Conn
      /\ Drop(mid.base, {c}) \in [DOMAIN Drop(mid.base, {c}) -> Baseline]
  BY <1>4 DEF Drop, Restrict, DBType
<1>6. new = [mid EXCEPT !.base = Drop(mid.base, {c})]
  BY <1>4 DEF DBType
<1>7. /\ DBType(new) /\ new.rows = mid.rows /\ new.seq = mid.seq
      /\ new.pruned = mid.pruned
  <2> DEFINE dropped == Drop(mid.base, {c})
  <2>1. DOMAIN dropped \subseteq Conn /\ dropped \in [DOMAIN dropped -> Baseline]
    BY <1>5
  <2>2. new = [mid EXCEPT !.base = dropped]
    BY <1>6
  <2> HIDE DEF dropped, new
  <2>3. QED
    BY <1>4, <2>1, <2>2, RebaseShape
<1> HIDE DEF new
<1>8. Grows(mid, new)
  BY <1>4, <1>7, SameRowsGrow
<1>9. Grows(db, new)
  <2>1. DBType(db)
    BY DEF DBInv
  <2>2. QED
    BY <1>4, <1>7, <1>8, <2>1, GrowsTransitive
<1>10. QED
  BY <1>2, <1>9

(* Migration gives a closed row its number.                                *)
LEMMA AssignSeqGrows ==
  ASSUME NEW db, DBInv(db), NEW e \in Unassigned(db)
  PROVE  Grows(db, AssignSeq(db, e))
<1> DEFINE new == AssignSeq(db, e)
           r == [cid |-> db.rows[e].cid, gen |-> db.rows[e].gen,
                 closed |-> db.rows[e].closed, bytes |-> db.rows[e].bytes,
                 seq |-> db.seq + 1, seen |-> db.rows[e].seen]
<1>1. DBType(db) /\ e \in DOMAIN db.rows /\ db.rows[e].seq = 0
  BY DEF DBInv, Unassigned
<1>2. /\ DBType(new) /\ Revised(db, new, e, r) /\ new.seq = db.seq + 1
      /\ new.pruned = db.pruned
  BY <1>1, AssignSeqShape
<1>3. r.seq = db.seq + 1
  OBVIOUS
<1> HIDE DEF new, r
<1>4. Grows(db, new)
  BY <1>1, <1>2, <1>3, ReviseGrows
<1>5. QED
  BY <1>4 DEF new

(* Deleting a closed row under a raised mark.                              *)
LEMMA PruneRowShrinks ==
  ASSUME NEW db, DBInv(db), NEW e \in DOMAIN db.rows
  PROVE  Shrinks(db, Pruned(db, e))
<1> DEFINE rows == Drop(db.rows, {e})
           p == IF db.rows[e].seq > db.pruned THEN db.rows[e].seq ELSE db.pruned
           new == Pruned(db, e)
<1>1. DBType(db) /\ db.seq \in Nat /\ db.pruned \in Nat
      /\ db.rows[e].seq \in Nat
  <2>1. DBType(db)
    BY DEF DBInv
  <2>2. QED
    BY <2>1, RowFacts
<1>2. new = [db EXCEPT !.rows = rows, !.pruned = p]
  BY <1>1 DEF Pruned, DBType
<1>3. p >= db.pruned /\ p >= db.rows[e].seq
  BY <1>1
<1>4. /\ DOMAIN rows = DOMAIN db.rows \ {e}
      /\ \A f \in DOMAIN rows : rows[f] = db.rows[f]
  BY DEF Drop, Restrict
<1> HIDE DEF rows, p, new
<1>5. new.rows = rows /\ new.pruned = p /\ new.seq = db.seq
  BY <1>1, <1>2 DEF DBType
<1>6. Shrinks(db, new)
  BY <1>3, <1>4, <1>5 DEF Shrinks
<1>7. QED
  BY <1>6 DEF new

-----------------------------------------------------------------------------
(***************************************************************************)
(* What each step of the daemon makes of the open transaction.             *)
(***************************************************************************)
(* The counters moved forward: an open row is revised.                     *)
LEMMA PollDeltaGrows ==
  ASSUME IndInv, NEW c \in todo, PollDelta(c)
  PROVE  Grows(work, work')
<1> DEFINE prev == work.base[c]
           acc == Grown(prev.acc, live[c], prev.raw)
           db == WriteOpen(work, c, prev.gen, live[c], acc, day)
<1>1. phase = "live" /\ HasPrev(work, c) /\ ~ Decreased(live[c], prev.raw) /\ work' = db
  BY DEF PollDelta, Account
<1>2. /\ DBInv(work) /\ c \in Conn /\ live[c] \in Counters /\ day \in Nat
      /\ prev.gen \in Nat /\ prev.raw \in Counters /\ prev.acc \in Counters
      /\ OpenGen(work, c, prev.gen) # {}
  BY <1>1, LiveStart
<1>3. acc \in Counters
  BY <1>1, <1>2 DEF Grown, Decreased, Counters
<1> HIDE DEF acc, prev
<1>4. Grows(work, db)
  BY <1>2, <1>3, WriteOpenExistingGrows
<1> HIDE DEF db
<1>5. QED
  BY <1>1, <1>4

(* A counter went back: one row is closed, the next one opened.            *)
LEMMA PollResetGrows ==
  ASSUME IndInv, NEW c \in todo, PollReset(c)
  PROVE  Grows(work, work')
<1> DEFINE prev == work.base[c]
           mid == CloseGeneration(work, c, prev, day)
           db == WriteOpen(mid, c, prev.gen + 1, live[c], Zero, day)
<1>1. phase = "live" /\ HasPrev(work, c) /\ work' = db
  BY DEF PollReset, Account
<1>2. /\ DBInv(work) /\ c \in Conn /\ live[c] \in Counters /\ day \in Nat
      /\ prev \in Baseline /\ prev.gen \in Nat
      /\ OpenGen(work, c, prev.gen) # {}
  BY <1>1, LiveStart
<1>3. prev.gen + 1 \in Nat /\ Zero \in Counters
  BY <1>2 DEF Zero, Counters
<1> HIDE DEF prev
<1>4. DBInv(mid) /\ \A f \in RowsOf(mid, c) : mid.rows[f].gen <= prev.gen
  BY <1>2, CloseGenerationSound
<1>5. Grows(work, mid)
  BY <1>2, CloseGenerationGrows
<1> HIDE DEF mid
<1>6. \A f \in RowsOf(mid, c) : mid.rows[f].gen # prev.gen + 1
  <2>1. \A f \in RowsOf(mid, c) : mid.rows[f].gen \in Nat
    BY <1>4 DEF DBInv, DBType, RowsOf, Row
  <2>2. QED
    BY <1>2, <1>4, <2>1
<1>7. DBType(mid) /\ DBType(work)
  BY <1>2, <1>4 DEF DBInv
<1>8. DBType(db) /\ Grows(mid, db)
  BY <1>2, <1>3, <1>6, <1>7, WriteOpenNewGrows
<1> HIDE DEF db
<1>9. QED
  BY <1>1, <1>5, <1>7, <1>8, GrowsTransitive

(* An open row without a baseline is taken over.                           *)
LEMMA PollUntrackedGrows ==
  ASSUME IndInv, NEW c \in todo, PollUntracked(c)
  PROVE  Grows(work, work')
<1> DEFINE open == RowsOf(work, c) \cap OpenRows(work)
           row == work.rows[LatestOpen(work, c)]
           db == WriteOpen(work, c, row.gen, live[c], row.bytes, day)
<1>1. phase = "live" /\ open # {} /\ work' = db
  BY DEF PollUntracked, Account
<1>2. DBInv(work) /\ c \in Conn /\ live[c] \in Counters /\ day \in Nat
  BY <1>1, LiveStart
<1>3. LatestOpen(work, c) \in open
  <2>1. PICK e \in open : TRUE
    BY <1>1
  <2>2. \A f \in open : work.rows[f].gen <= work.rows[e].gen
    BY <1>2, <2>1 DEF DBInv, OpenIsLatest, RowsOf
  <2>3. QED
    BY <2>1, <2>2 DEF LatestOpen
<1>4. /\ row.gen \in Nat /\ row.bytes \in Counters
      /\ LatestOpen(work, c) \in OpenGen(work, c, row.gen)
  BY <1>2, <1>3 DEF DBInv, DBType, Row, RowsOf, OpenGen, GenRows
<1> HIDE DEF row
<1>5. Grows(work, db)
  BY <1>2, <1>4, WriteOpenExistingGrows
<1> HIDE DEF db
<1>6. QED
  BY <1>1, <1>5

(* A connection without an open row gets a new generation.                 *)
LEMMA PollUnknownGrows ==
  ASSUME IndInv, NEW c \in todo, PollUnknown(c)
  PROVE  Grows(work, work')
<1> DEFINE g == NextGen(work, c)
           db == WriteOpen(work, c, g, live[c], Zero, day)
<1>1. phase = "live" /\ work' = db
  BY DEF PollUnknown, Account
<1>2. DBInv(work) /\ c \in Conn /\ live[c] \in Counters /\ day \in Nat
  BY <1>1, LiveStart
<1>3. g \in Nat /\ \A f \in RowsOf(work, c) : work.rows[f].gen < g
  BY <1>2, NextGenIsNew
<1>4. Zero \in Counters
  BY DEF Zero, Counters
<1> HIDE DEF g
<1>5. \A f \in RowsOf(work, c) : work.rows[f].gen # g
  <2>1. \A f \in RowsOf(work, c) : work.rows[f].gen \in Nat
    BY <1>2 DEF DBInv, DBType, RowsOf, Row
  <2>2. QED
    BY <1>3, <2>1
<1>6. DBType(work)
  BY <1>2 DEF DBInv
<1>7. Grows(work, db)
  BY <1>2, <1>3, <1>4, <1>5, <1>6, WriteOpenNewGrows
<1> HIDE DEF db
<1>8. QED
  BY <1>1, <1>7

(* A tracked connection that is gone is closed.                            *)
LEMMA PollGoneGrows ==
  ASSUME IndInv, NEW c \in todo, PollGone(c)
  PROVE  Grows(work, work')
<1>1. phase = "tracked" /\ work' = CloseTracked(work, cache, c, day)
  BY DEF PollGone
<1>2. DBInv(work) /\ DBType(work) /\ c \in Conn /\ day \in Nat /\ Untouched(c)
  BY <1>1 DEF IndInv, TypeOK, PhaseInv
<1>3. CASE c \in DOMAIN work.base
  <2>1. /\ HasPrev(work, c) /\ work.base[c] \in Baseline
        /\ OpenGen(work, c, work.base[c].gen) # {}
    BY <1>2, <1>3, BasedHasPrev
  <2>2. work' = CloseGeneration(work, c, work.base[c], day)
    BY <1>1, <2>1 DEF CloseTracked
  <2>3. QED
    BY <1>2, <2>1, <2>2, CloseGenerationGrows
<1>4. CASE c \notin DOMAIN work.base
  <2> DEFINE base == Drop(work.base, {c})
  <2>1. c \notin DOMAIN cache /\ ~ HasPrev(work, c)
    BY <1>2, <1>4 DEF Untouched, HasPrev
  <2>2. work' = [work EXCEPT !.base = base]
    BY <1>1, <1>2, <2>1 DEF CloseTracked, DBType
  <2> HIDE DEF base
  <2>3. work'.rows = work.rows /\ work'.seq = work.seq /\ work'.pruned = work.pruned
    BY <1>2, <2>2 DEF DBType
  <2>4. QED
    BY <1>2, <2>3, SameRowsGrow
<1>5. QED
  BY <1>3, <1>4

(* An open row that nothing tracks is closed.                              *)
LEMMA CloseStaleGrows ==
  ASSUME IndInv, NEW e \in todo, CloseStale(e)
  PROVE  Grows(work, work')
<1>1. /\ phase = "stale"
      /\ work' = AssignSeq(Update(work, e, work.rows[e].bytes, TRUE, day), e)
  BY DEF CloseStale
<1>2. DBInv(work) /\ DBType(work) /\ day \in Nat /\ e \in OpenRows(work)
  BY <1>1 DEF IndInv, TypeOK, PhaseInv, OpenRows
<1>3. work.rows[e].bytes \in Counters
  BY <1>2 DEF OpenRows, DBType, Row
<1>4. QED
  BY <1>1, <1>2, <1>3, CloseRowGrows

(* A row of an older database is numbered.                                 *)
LEMMA MigrateRowGrows ==
  ASSUME IndInv, NEW e \in todo, MigrateRow(e)
  PROVE  Grows(work, work')
<1>1. DBInv(work) /\ e \in Unassigned(work) /\ work' = AssignSeq(work, e)
  BY DEF IndInv, PhaseInv, MigrateRow
<1>2. QED
  BY <1>1, AssignSeqGrows

-----------------------------------------------------------------------------
(***************************************************************************)
(* LogInv is preserved.                                                    *)
(***************************************************************************)
(* The phases whose transaction only adds to the log.                      *)
Growing == {"migrate", "live", "tracked", "stale", "commit"}

(* A step of a poll or of a migration that makes the log grow.             *)
LEMMA StepGrows ==
  ASSUME IndInv, IndInv', LogInv, phase \in Growing, phase' \in Growing,
         committed' = committed, Grows(work, work')
  PROVE  LogInv'
<1>1. DBType(committed) /\ DBType(work) /\ DBType(work')
  BY DEF IndInv, TypeOK
<1>2. Grows(committed, work)
  BY DEF LogInv, Growing
<1>3. Grows(committed, work')
  BY <1>1, <1>2, GrowsTransitive
<1>4. QED
  BY <1>3 DEF LogInv, Growing

(* A step that leaves the transaction as it is.                            *)
LEMMA StepIdles ==
  ASSUME IndInv, IndInv', LogInv, phase \in Growing, phase' \in Growing,
         committed' = committed, work' = work
  PROVE  LogInv'
BY StepGrows, GrowsReflexive DEF IndInv, TypeOK

(* Every step keeps LogInv: polls and migrations grow the log, retention   *)
(* shrinks it, and a commit or a rollback starts afresh.                   *)
LEMMA LogStep == IndInv /\ IndInv' /\ LogInv /\ [Next]_vars => LogInv'
<1> SUFFICES ASSUME IndInv, IndInv', LogInv, [Next]_vars PROVE LogInv'
  OBVIOUS
<1>0. DBInv(work) /\ DBType(committed) /\ DBType(work) /\ DBType(work')
  BY DEF IndInv, TypeOK
<1>1. CASE UNCHANGED vars \/ Environment
  <2>1. UNCHANGED <<committed, work, phase>>
    BY <1>1 DEF vars, txn, Environment, ClashOpens, ClashForgets, ClashCounts, NextDay
  <2>2. QED
    BY <2>1 DEF LogInv
<1>2. ASSUME NEW c \in todo,
             PollDelta(c) \/ PollReset(c) \/ PollUntracked(c) \/ PollUnknown(c)
      PROVE  LogInv'
  <2>1. Grows(work, work')
    BY <1>2, PollDeltaGrows, PollResetGrows, PollUntrackedGrows, PollUnknownGrows
  <2>2. phase = "live" /\ phase' = phase /\ committed' = committed
    BY <1>2 DEF PollDelta, PollReset, PollUntracked, PollUnknown, Account
  <2>3. QED
    BY <2>1, <2>2, StepGrows DEF Growing
<1>3. ASSUME NEW c \in todo, PollGone(c) \/ CloseStale(c) \/ MigrateRow(c)
      PROVE  LogInv'
  <2>1. Grows(work, work')
    BY <1>3, PollGoneGrows, CloseStaleGrows, MigrateRowGrows
  <2>2. phase \in {"tracked", "stale", "migrate"} /\ phase' = phase /\ committed' = committed
    BY <1>3 DEF PollGone, CloseStale, MigrateRow
  <2>3. QED
    BY <2>1, <2>2, StepGrows DEF Growing
<1>4. CASE (\E c \in todo : PollInvalid(c)) \/ EndLive
  <2>1. /\ phase = "live" /\ phase' \in {"live", "tracked"}
        /\ UNCHANGED <<committed, work>>
    BY <1>4 DEF PollInvalid, EndLive
  <2>2. QED
    BY <2>1, StepIdles DEF Growing
<1>5. CASE EndTracked \/ EndStale
  <2>1. work' = PruneBaselines(work)
    BY <1>5 DEF EndTracked, EndStale
  <2>2. work' = work
    BY <1>0, <2>1, KnownOpenIsBase
  <2>3. phase \in Growing /\ phase' \in Growing /\ committed' = committed
    BY <1>5 DEF EndTracked, EndStale, Growing
  <2>4. QED
    BY <2>2, <2>3, StepIdles
<1>6. CASE BeginPoll \/ Start
  <2>1. work = committed /\ UNCHANGED <<committed, work>> /\ phase' # "retain"
    BY <1>6 DEF IndInv, PhaseInv, BeginPoll, Start
  <2>2. QED
    BY <1>0, <2>1, GrowsReflexive DEF LogInv
<1>7. CASE BeginRetention
  <2>1. work = committed /\ UNCHANGED <<committed, work>> /\ phase' = "retain"
    BY <1>7 DEF IndInv, PhaseInv, BeginRetention
  <2>2. Shrinks(committed, committed)
    BY <1>0, RowFacts DEF Shrinks
  <2>3. QED
    BY <2>1, <2>2 DEF LogInv
<1>8. ASSUME NEW e \in todo, PruneRow(e)
      PROVE  LogInv'
  <2>1. /\ phase = "retain" /\ phase' = phase /\ committed' = committed
        /\ work' = Pruned(work, e)
    BY <1>8 DEF PruneRow, Pruned
  <2>2. e \in DOMAIN work.rows
    BY <2>1 DEF IndInv, TypeOK
  <2>3. Shrinks(work, work')
    BY <1>0, <2>1, <2>2, PruneRowShrinks
  <2>4. Shrinks(committed, work')
    BY <1>0, <2>1, <2>3, ShrinksTransitive DEF LogInv
  <2>5. QED
    BY <2>1, <2>4 DEF LogInv
<1>9. CASE CommitPoll \/ CommitFails \/ CommitRetention \/ FinishMigration \/ TickFails \/ Crash
  <2>1. phase' \in {"idle", "down"}
    BY <1>9 DEF CommitPoll, CommitFails, CommitRetention, FinishMigration, TickFails, Crash
  <2>2. QED
    BY <2>1 DEF LogInv
<1>10. QED
  BY <1>1, <1>2, <1>3, <1>4, <1>5, <1>6, <1>7, <1>8, <1>9
     DEF Next, Daemon, Poll, Retention

-----------------------------------------------------------------------------
(***************************************************************************)
(* The log that is read off a database.                                    *)
(***************************************************************************)

(* A number has one row, and the log shows that row under it.              *)
LEMMA LogEntry ==
  ASSUME NEW db, DBInv(db), NEW e \in DOMAIN db.rows, db.rows[e].seq # 0
  PROVE  /\ db.rows[e].seq \in Seqs(db)
         /\ LogOf(db)[db.rows[e].seq] = [id |-> e, row |-> db.rows[e]]
<1> DEFINE s == db.rows[e].seq
           f == CHOOSE f \in DOMAIN db.rows : db.rows[f].seq = s
<1>1. s \in Seqs(db)
  BY DEF Seqs
<1>2. f \in DOMAIN db.rows /\ db.rows[f].seq = s
  OBVIOUS
<1>3. \A x, y \in DOMAIN db.rows :
        db.rows[x].seq = db.rows[y].seq /\ db.rows[x].seq # 0 => x = y
  BY DEF DBInv, SeqOfClosed
<1>4. LogOf(db)[s] = [id |-> f, row |-> db.rows[f]]
  BY <1>1 DEF LogOf
<1> HIDE DEF f
<1>5. f = e
  BY <1>2, <1>3
<1>6. QED
  BY <1>1, <1>4, <1>5

(* The numbers of the log, between the two counters.                       *)
LEMMA SeqsBounded ==
  ASSUME NEW db, DBInv(db)
  PROVE  /\ Seqs(db) \subseteq 1 .. db.seq
         /\ \A s \in 1 .. db.seq : s > db.pruned => s \in Seqs(db)
         /\ \A s \in Seqs(db) : \E e \in DOMAIN db.rows : db.rows[e].seq = s /\ s # 0
<1>1. DBType(db)
  BY DEF DBInv
<1>2. \A e \in DOMAIN db.rows : db.rows[e].seq \in Nat /\ db.rows[e].seq <= db.seq
  BY <1>1, RowFacts DEF DBInv, SeqOfClosed
<1>3. Seqs(db) \subseteq 1 .. db.seq
  BY <1>1, <1>2, RowFacts DEF Seqs
<1>4. \A s \in 1 .. db.seq : s > db.pruned => s \in Seqs(db)
  BY <1>1, RowFacts DEF DBInv, Dense, Seqs
<1>5. \A s \in Seqs(db) : \E e \in DOMAIN db.rows : db.rows[e].seq = s /\ s # 0
  BY DEF Seqs
<1>6. QED
  BY <1>3, <1>4, <1>5

(* Numbers at the head are new, and every one of them is there.            *)
LEMMA GrowsNumbers ==
  ASSUME NEW old, NEW new, DBInv(old), DBInv(new), Grows(old, new)
  PROVE  Seqs(new) = Seqs(old) \cup (old.seq + 1) .. new.seq
<1>1. /\ old.seq \in Nat /\ new.seq \in Nat /\ old.seq <= new.seq
      /\ new.pruned <= old.seq /\ new.pruned \in Nat
  BY RowFacts DEF DBInv, Grows
<1>2. ASSUME NEW s \in Seqs(new) PROVE s \in Seqs(old) \cup (old.seq + 1) .. new.seq
  <2>1. PICK e \in DOMAIN new.rows : new.rows[e].seq = s /\ s # 0
    BY SeqsBounded
  <2>2. s \in 1 .. new.seq
    BY SeqsBounded
  <2>3. CASE s <= old.seq
    <3>1. e \in DOMAIN old.rows /\ old.rows[e].seq = s
      BY <2>1, <2>3 DEF Grows
    <3>2. QED
      BY <2>1, <3>1 DEF Seqs
  <2>4. CASE s > old.seq
    BY <1>1, <2>2, <2>4
  <2>5. QED
    BY <1>1, <2>2, <2>3, <2>4
<1>3. ASSUME NEW s \in Seqs(old) PROVE s \in Seqs(new)
  <2>1. PICK e \in DOMAIN old.rows : old.rows[e].seq = s /\ s # 0
    BY SeqsBounded
  <2>2. e \in DOMAIN new.rows /\ new.rows[e] = old.rows[e]
    BY <2>1 DEF Grows
  <2>3. QED
    BY <2>1, <2>2 DEF Seqs
<1>4. ASSUME NEW s \in (old.seq + 1) .. new.seq PROVE s \in Seqs(new)
  <2>1. s \in 1 .. new.seq /\ s > new.pruned
    BY <1>1
  <2>2. QED
    BY <2>1, SeqsBounded
<1>5. QED
  BY <1>2, <1>3, <1>4

(* What the log shows is an event.                                         *)
LEMMA LogEntryType ==
  ASSUME NEW db, DBInv(db), NEW s \in Seqs(db)
  PROVE  LogOf(db)[s] \in [id : Nat, row : Row]
<1>1. PICK e \in DOMAIN db.rows : db.rows[e].seq = s /\ s # 0
  BY SeqsBounded
<1>2. LogOf(db)[s] = [id |-> e, row |-> db.rows[e]]
  BY <1>1, LogEntry
<1>3. e \in Nat /\ db.rows[e] \in Row
  BY DEF DBInv, DBType
<1>4. QED
  BY <1>2, <1>3

(* A function with the domain of the log is determined by its values.      *)
LEMMA LogIsFunction ==
  ASSUME NEW db
  PROVE  DOMAIN LogOf(db) = Seqs(db) /\ LogOf(db) = [s \in Seqs(db) |-> LogOf(db)[s]]
BY DEF LogOf

(* What was in the log stays in it as it was.                              *)
LEMMA GrowsKeeps ==
  ASSUME NEW old, NEW new, DBInv(old), DBInv(new), Grows(old, new), NEW s \in Seqs(old)
  PROVE  LogOf(new)[s] = LogOf(old)[s]
<1>1. PICK e \in DOMAIN old.rows : old.rows[e].seq = s /\ s # 0
  BY SeqsBounded
<1>2. e \in DOMAIN new.rows /\ new.rows[e] = old.rows[e]
  BY <1>1 DEF Grows
<1>3. LogOf(old)[s] = [id |-> e, row |-> old.rows[e]]
  BY <1>1, LogEntry
<1>4. LogOf(new)[s] = [id |-> e, row |-> new.rows[e]]
  BY <1>1, <1>2, LogEntry
<1>5. QED
  BY <1>2, <1>3, <1>4

(* A transaction that made the log grow commits as an Append.              *)
LEMMA CommitAppends ==
  ASSUME DBInv(committed), DBInv(committed'), Grows(committed, committed')
  PROVE  Log!Append
<1>1. /\ committed.seq \in Nat /\ committed'.seq \in Nat
      /\ committed'.seq >= committed.seq /\ committed'.pruned = committed.pruned
  BY RowFacts DEF DBInv, Grows
<1>2. /\ DOMAIN LogOf(committed') = Seqs(committed')
      /\ DOMAIN LogOf(committed) = Seqs(committed)
      /\ LogOf(committed') = [s \in Seqs(committed') |-> LogOf(committed')[s]]
  BY LogIsFunction
<1>3. Seqs(committed') = Seqs(committed) \cup (committed.seq + 1) .. committed'.seq
  BY GrowsNumbers
<1>4. \A s \in Seqs(committed) : LogOf(committed')[s] = LogOf(committed)[s]
  BY GrowsKeeps
<1>5. \A s \in (committed.seq + 1) .. committed'.seq :
        LogOf(committed')[s] \in [id : Nat, row : Row]
  BY <1>3, LogEntryType
<1>6. QED
  BY <1>1, <1>2, <1>3, <1>4, <1>5 DEF Log!Append

(* A transaction that shrank it commits as a Prune.                        *)
LEMMA CommitPrunes ==
  ASSUME DBInv(committed), DBInv(committed'), Shrinks(committed, committed')
  PROVE  Log!Prune
<1> DEFINE gone == Seqs(committed) \ Seqs(committed')
<1>1. /\ committed'.seq = committed.seq /\ committed'.pruned >= committed.pruned
      /\ committed'.pruned \in 0 .. committed.seq
  BY RowFacts DEF DBInv, Shrinks
<1>2. ASSUME NEW s \in Seqs(committed')
      PROVE  s \in Seqs(committed) /\ LogOf(committed')[s] = LogOf(committed)[s]
  <2>1. PICK e \in DOMAIN committed'.rows : committed'.rows[e].seq = s /\ s # 0
    BY SeqsBounded
  <2>2. e \in DOMAIN committed.rows /\ committed'.rows[e] = committed.rows[e]
    BY <2>1 DEF Shrinks
  <2>3. LogOf(committed')[s] = [id |-> e, row |-> committed'.rows[e]]
    BY <2>1, LogEntry
  <2>4. s \in Seqs(committed) /\ LogOf(committed)[s] = [id |-> e, row |-> committed.rows[e]]
    BY <2>1, <2>2, LogEntry
  <2>5. QED
    BY <2>2, <2>3, <2>4
<1>3. ASSUME NEW s \in gone
      PROVE  s <= committed'.pruned
  <2>1. PICK e \in DOMAIN committed.rows : committed.rows[e].seq = s /\ s # 0
    BY SeqsBounded
  <2>2. e \notin DOMAIN committed'.rows
    BY <2>1 DEF Shrinks, Seqs
  <2>3. QED
    BY <2>1, <2>2 DEF Shrinks
<1>4. DOMAIN LogOf(committed) = Seqs(committed)
  BY LogIsFunction
<1>5. Seqs(committed) \ gone = Seqs(committed')
  BY <1>2
<1>6. LogOf(committed') = [s \in Seqs(committed') |-> LogOf(committed)[s]]
  <2>1. LogOf(committed') = [s \in Seqs(committed') |-> LogOf(committed')[s]]
    BY LogIsFunction
  <2>2. QED
    BY <1>2, <2>1
<1>7. gone \in SUBSET Seqs(committed)
  OBVIOUS
<1> HIDE DEF gone
<1>8. LogOf(committed') = Log!Restrict(LogOf(committed), DOMAIN LogOf(committed) \ gone)
  BY <1>4, <1>5, <1>6 DEF Log!Restrict
<1>9. QED
  BY <1>1, <1>3, <1>4, <1>7, <1>8 DEF Log!Prune

-----------------------------------------------------------------------------
(***************************************************************************)
(* The refinement.                                                         *)
(***************************************************************************)

(* Neither database the daemon may find has numbered rows.                 *)
LEMMA InitMaps == Init => LogInv /\ Log!Init
<1> SUFFICES ASSUME Init PROVE LogInv /\ Log!Init
  OBVIOUS
<1>1. /\ committed.seq = 0 /\ committed.pruned = 0
      /\ \A e \in DOMAIN committed.rows : committed.rows[e].seq = 0
  <2>1. CASE committed = NewDB
    BY <2>1 DEF NewDB, Empty
  <2>2. CASE \E n \in 1 .. Cardinality(Conn) : Legacy(n)
    <3>1. PICK owner, shut, tracked, bytes : committed = LegacyDB(owner, shut, tracked, bytes)
      BY <2>2 DEF Legacy
    <3>2. QED
      BY <3>1 DEF LegacyDB
  <2>3. QED
    BY <2>1, <2>2 DEF Init
<1>2. Seqs(committed) = {}
  BY <1>1 DEF Seqs
<1>3. LogOf(committed) = Log!Nothing
  BY <1>2 DEF LogOf, Log!Nothing
<1>4. LogInv
  BY DEF Init, LogInv
<1>5. QED
  BY <1>1, <1>3, <1>4 DEF Log!Init

(* A step commits what the transaction did to the log, or leaves the log.  *)
LEMMA StepMaps == IndInv /\ IndInv' /\ LogInv /\ [Next]_vars => [Log!Next]_(Log!vars)
<1> SUFFICES ASSUME IndInv, IndInv', LogInv, [Next]_vars PROVE [Log!Next]_(Log!vars)
  OBVIOUS
<1>1. DBInv(committed) /\ DBInv(committed')
  BY DEF IndInv
<1>2. CASE CommitPoll
  <2>1. Grows(committed, committed')
    BY <1>2 DEF CommitPoll, LogInv
  <2>2. QED
    BY <1>1, <2>1, CommitAppends DEF Log!Next
<1>3. CASE FinishMigration
  <2>1. phase = "migrate" /\ committed' = [work EXCEPT !.schema = 4] /\ DBType(work)
    BY <1>3 DEF FinishMigration, IndInv, TypeOK
  <2>2. /\ committed'.rows = work.rows /\ committed'.seq = work.seq
        /\ committed'.pruned = work.pruned
    BY <2>1 DEF DBType
  <2>3. Grows(committed, committed')
    BY <2>1, <2>2 DEF LogInv, Grows
  <2>4. QED
    BY <1>1, <2>3, CommitAppends DEF Log!Next
<1>4. CASE CommitRetention
  <2>1. Shrinks(committed, committed')
    BY <1>4 DEF CommitRetention, LogInv
  <2>2. QED
    BY <1>1, <2>1, CommitPrunes DEF Log!Next
<1>5. CASE committed' = committed
  BY <1>5 DEF Log!vars
<1>6. CASE Environment \/ UNCHANGED vars
  <2>1. committed' = committed
    BY <1>6 DEF vars, Environment, ClashOpens, ClashForgets, ClashCounts, NextDay
  <2>2. QED
    BY <1>5, <2>1
<1>7. CASE Poll \/ Retention \/ Start \/ (\E e \in todo : MigrateRow(e)) \/ TickFails \/ Crash
  <2>1. committed' = committed \/ CommitPoll \/ CommitRetention
    BY <1>7 DEF Poll, BeginPoll, PollDelta, PollReset, PollUntracked, PollUnknown,
                PollInvalid, PollGone, Account, CloseStale, EndLive, EndTracked, EndStale,
                CommitFails, Retention, BeginRetention, PruneRow,
                Start, MigrateRow, TickFails, Crash
  <2>2. QED
    BY <1>2, <1>4, <1>5, <2>1
<1>8. QED
  BY <1>3, <1>6, <1>7 DEF Next, Daemon

(* Whatever sing-box counts and wherever polls, commits, retention or the  *)
(* process fail, the readers of the database see an append-only audit log: *)
(* no entry is ever rewritten, none appears at or below a number already   *)
(* given out, and none disappears but under the pruned mark.               *)
THEOREM Refinement == Spec => ImplementsAuditLog
<1>1. QED
  BY InitMaps, LogStep, StepMaps, Soundness, PTL DEF Spec, ImplementsAuditLog, Log!Spec

-----------------------------------------------------------------------------
(***************************************************************************)
(* Accounts and counters.                                                  *)
(***************************************************************************)
(* The account of q moved as far from that of p as the counters did.       *)
SameDelta(p, q) ==
  p.gen = q.gen => \A d \in Dir : q.acc[d] - p.acc[d] = q.raw[d] - p.raw[d]

SameDeltas(old, new) ==
  \A c \in DOMAIN old \cap DOMAIN new : SameDelta(old[c], new[c])

DeltaInv == SameDeltas(committed.base, work.base)

-----------------------------------------------------------------------------
(* The baselines of a database are those of open generations.              *)
LEMMA BaseFacts ==
  ASSUME NEW db, DBInv(db), NEW c \in DOMAIN db.base
  PROVE  /\ db.base[c].gen \in Nat
         /\ \A d \in Dir : db.base[c].raw[d] \in Nat /\ db.base[c].acc[d] \in Nat
         /\ RowsOf(db, c) \cap OpenRows(db) # {}
<1>1. db.base[c] \in Baseline /\ OpenGen(db, c, db.base[c].gen) # {}
  BY BasedHasPrev
<1>2. RowsOf(db, c) \cap OpenRows(db) # {}
  BY <1>1 DEF OpenGen, GenRows
<1>3. \A q \in Baseline : /\ q.gen \in Nat
                          /\ \A d \in Dir : q.raw[d] \in Nat /\ q.acc[d] \in Nat
  BY DEF Baseline, Counters
<1>4. QED
  BY <1>1, <1>2, <1>3

LEMMA SameDeltasReflexive == ASSUME NEW db, DBInv(db) PROVE SameDeltas(db.base, db.base)
BY BaseFacts DEF SameDeltas, SameDelta

(* Until the live loop reaches a connection, the transaction has the       *)
(* committed baseline of it.                                               *)
LEMMA BeforeAccount ==
  ASSUME IndInv, NEW c \in todo, phase = "live"
  PROVE  /\ c \in DOMAIN work.base <=> c \in DOMAIN committed.base
         /\ c \in DOMAIN work.base => work.base[c] = committed.base[c]
<1>1. cache = committed.base /\ c \in Conn /\ Untouched(c)
  BY DEF IndInv, TypeOK, PhaseInv
<1>2. QED
  BY <1>1 DEF Untouched

(* One connection of the snapshot written.                                 *)
LEMMA AccountDeltas ==
  ASSUME DeltaInv, NEW c, NEW b, committed' = committed,
         work'.base = Put(work.base, c, b),
         c \in DOMAIN committed.base => SameDelta(committed.base[c], b)
  PROVE  DeltaInv'
BY DEF DeltaInv, SameDeltas, Put

(* Baselines only dropped, or none touched.                                *)
LEMMA DropDeltas ==
  ASSUME DeltaInv, committed' = committed, DOMAIN work'.base \subseteq DOMAIN work.base,
         \A c \in DOMAIN work'.base : work'.base[c] = work.base[c]
  PROVE  DeltaInv'
BY DEF DeltaInv, SameDeltas

-----------------------------------------------------------------------------
(***************************************************************************)
(* The steps of the live loop.                                             *)
(***************************************************************************)
LEMMA PollDeltaDeltas ==
  ASSUME IndInv, DeltaInv, NEW c \in todo, PollDelta(c)
  PROVE  DeltaInv'
<1> DEFINE prev == work.base[c]
           acc == Grown(prev.acc, live[c], prev.raw)
           b == [gen |-> prev.gen, raw |-> live[c], acc |-> acc]
           db == WriteOpen(work, c, prev.gen, live[c], acc, day)
<1>1. /\ phase = "live" /\ HasPrev(work, c) /\ ~ Decreased(live[c], prev.raw)
      /\ work' = db /\ committed' = committed
  BY DEF PollDelta, Account
<1>2. /\ DBInv(work) /\ c \in Conn /\ live[c] \in Counters /\ day \in Nat
      /\ prev.gen \in Nat /\ prev.raw \in Counters /\ prev.acc \in Counters
      /\ c \in DOMAIN work.base
      /\ OpenGen(work, c, prev.gen) # {}
  BY <1>1, LiveStart
<1>3. prev = committed.base[c]
  BY <1>1, <1>2, BeforeAccount
<1> HIDE DEF prev
<1>4. acc \in Counters
  BY <1>1, <1>2 DEF Grown, Decreased, Counters
<1>5. SameDelta(prev, b)
  BY <1>2 DEF SameDelta, Grown, Counters
<1> HIDE DEF acc
<1>6. db.base = Put(work.base, c, b)
  BY <1>2, <1>4, WriteOpenExisting
<1> HIDE DEF db, b
<1>7. QED
  BY <1>1, <1>3, <1>5, <1>6, AccountDeltas

LEMMA PollResetDeltas ==
  ASSUME IndInv, DeltaInv, NEW c \in todo, PollReset(c)
  PROVE  DeltaInv'
<1> DEFINE prev == work.base[c]
           mid == CloseGeneration(work, c, prev, day)
           b == [gen |-> prev.gen + 1, raw |-> live[c], acc |-> Zero]
           db == WriteOpen(mid, c, prev.gen + 1, live[c], Zero, day)
<1>1. phase = "live" /\ HasPrev(work, c) /\ work' = db /\ committed' = committed
  BY DEF PollReset, Account
<1>2. /\ DBInv(work) /\ c \in Conn /\ live[c] \in Counters /\ day \in Nat
      /\ c \in DOMAIN work.base
      /\ prev \in Baseline /\ prev.gen \in Nat
      /\ OpenGen(work, c, prev.gen) # {}
  BY <1>1, LiveStart
<1>3. prev.gen + 1 \in Nat /\ prev.gen + 1 <= work.eid /\ Zero \in Counters
  BY <1>2 DEF DBInv, DBType, GenBelowId, OpenGen, GenRows, RowsOf, Zero, Counters
<1>4. prev = committed.base[c]
  BY <1>1, <1>2, BeforeAccount
<1> HIDE DEF prev
<1>5. /\ DBInv(mid)
      /\ mid.base = Drop(work.base, {c})
      /\ mid.schema = work.schema /\ mid.eid = work.eid
      /\ RowsOf(mid, c) \cap OpenRows(mid) = {}
      /\ \A f \in RowsOf(mid, c) : mid.rows[f].gen <= prev.gen
  BY <1>2, CloseGenerationSound
<1> HIDE DEF mid
<1>6. \A f \in RowsOf(mid, c) : mid.rows[f].gen < prev.gen + 1
  <2>1. \A f \in RowsOf(mid, c) : mid.rows[f].gen \in Nat
    BY <1>5 DEF DBInv, DBType, RowsOf, Row
  <2>2. QED
    BY <1>2, <1>5, <2>1
<1>7. db.base = Put(mid.base, c, b)
  BY <1>2, <1>3, <1>5, <1>6, WriteOpenNew
<1>8. b.gen = prev.gen + 1
  OBVIOUS
<1> HIDE DEF db, b
<1>9. work'.base = Put(work.base, c, b)
  BY <1>1, <1>2, <1>5, <1>7 DEF Put, Drop, Restrict
<1>10. SameDelta(prev, b)
  BY <1>2, <1>8 DEF SameDelta
<1>11. QED
  BY <1>1, <1>4, <1>9, <1>10, AccountDeltas

(* A connection without a baseline has none in the committed database.     *)
LEMMA NoPrevNoBase ==
  ASSUME IndInv, NEW c \in todo, phase = "live", ~ HasPrev(work, c)
  PROVE  c \notin DOMAIN committed.base
<1>1. c \notin DOMAIN work.base
  BY BasedHasPrev DEF IndInv
<1>2. QED
  BY <1>1, BeforeAccount

LEMMA PollUntrackedDeltas ==
  ASSUME IndInv, DeltaInv, NEW c \in todo, PollUntracked(c)
  PROVE  DeltaInv'
<1> DEFINE open == RowsOf(work, c) \cap OpenRows(work)
           row == work.rows[LatestOpen(work, c)]
           b == [gen |-> row.gen, raw |-> live[c], acc |-> row.bytes]
           db == WriteOpen(work, c, row.gen, live[c], row.bytes, day)
<1>1. /\ phase = "live" /\ ~ HasPrev(work, c) /\ open # {}
      /\ work' = db /\ committed' = committed
  BY DEF PollUntracked, Account
<1>2. DBInv(work) /\ c \in Conn /\ live[c] \in Counters /\ day \in Nat
  BY <1>1, LiveStart
<1>3. LatestOpen(work, c) \in open
  <2>1. PICK e \in open : TRUE
    BY <1>1
  <2>2. \A f \in open : work.rows[f].gen <= work.rows[e].gen
    BY <1>2, <2>1 DEF DBInv, OpenIsLatest, RowsOf
  <2>3. QED
    BY <2>1, <2>2 DEF LatestOpen
<1>4. /\ row.gen \in Nat /\ row.bytes \in Counters
      /\ LatestOpen(work, c) \in OpenGen(work, c, row.gen)
  BY <1>2, <1>3 DEF DBInv, DBType, Row, RowsOf, OpenGen, GenRows
<1> HIDE DEF row
<1>5. db.base = Put(work.base, c, b)
  BY <1>2, <1>4, WriteOpenExisting
<1> HIDE DEF db, b
<1>6. QED
  BY <1>1, <1>5, NoPrevNoBase, AccountDeltas

LEMMA PollUnknownDeltas ==
  ASSUME IndInv, DeltaInv, NEW c \in todo, PollUnknown(c)
  PROVE  DeltaInv'
<1> DEFINE g == NextGen(work, c)
           b == [gen |-> g, raw |-> live[c], acc |-> Zero]
           db == WriteOpen(work, c, g, live[c], Zero, day)
<1>1. /\ phase = "live" /\ ~ HasPrev(work, c)
      /\ RowsOf(work, c) \cap OpenRows(work) = {}
      /\ work' = db /\ committed' = committed
  BY DEF PollUnknown, Account
<1>2. DBInv(work) /\ c \in Conn /\ live[c] \in Counters /\ day \in Nat
  BY <1>1, LiveStart
<1>3. g \in Nat /\ g <= work.eid /\ \A f \in RowsOf(work, c) : work.rows[f].gen < g
  BY <1>2, NextGenIsNew
<1>4. Zero \in Counters
  BY DEF Zero, Counters
<1> HIDE DEF g
<1>5. db.base = Put(work.base, c, b)
  BY <1>1, <1>2, <1>3, <1>4, WriteOpenNew
<1> HIDE DEF db, b
<1>6. QED
  BY <1>1, <1>5, NoPrevNoBase, AccountDeltas

-----------------------------------------------------------------------------
(***************************************************************************)
(* The steps that close connections.                                       *)
(***************************************************************************)
LEMMA PollGoneDeltas ==
  ASSUME IndInv, DeltaInv, NEW c \in todo, PollGone(c)
  PROVE  DeltaInv'
<1>1. /\ phase = "tracked" /\ work' = CloseTracked(work, cache, c, day)
      /\ committed' = committed
  BY DEF PollGone
<1>2. DBInv(work) /\ DBType(work) /\ c \in Conn /\ day \in Nat /\ Untouched(c)
  BY <1>1 DEF IndInv, TypeOK, PhaseInv
<1>3. work'.base = Drop(work.base, {c})
  <2>1. CASE c \in DOMAIN work.base
    <3>1. /\ HasPrev(work, c) /\ work.base[c] \in Baseline
          /\ OpenGen(work, c, work.base[c].gen) # {}
      BY <1>2, <2>1, BasedHasPrev
    <3>2. work' = CloseGeneration(work, c, work.base[c], day)
      BY <1>1, <3>1 DEF CloseTracked
    <3>3. QED
      BY <1>2, <3>1, <3>2, CloseGenerationSound
  <2>2. CASE c \notin DOMAIN work.base
    <3> DEFINE base == Drop(work.base, {c})
    <3>1. c \notin DOMAIN cache /\ ~ HasPrev(work, c)
      BY <1>2, <2>2 DEF Untouched, HasPrev
    <3>2. work' = [work EXCEPT !.base = base]
      BY <1>1, <1>2, <3>1 DEF CloseTracked, DBType
    <3> HIDE DEF base
    <3>3. work'.base = base
      BY <1>2, <3>2 DEF DBType
    <3>4. QED
      BY <3>3 DEF base
  <2>3. QED
    BY <2>1, <2>2
<1>4. /\ DOMAIN work'.base \subseteq DOMAIN work.base
      /\ \A x \in DOMAIN work'.base : work'.base[x] = work.base[x]
  BY <1>3 DEF Drop, Restrict
<1>5. QED
  BY <1>1, <1>4, DropDeltas

LEMMA CloseStaleDeltas ==
  ASSUME IndInv, DeltaInv, NEW e \in todo, CloseStale(e)
  PROVE  DeltaInv'
<1>1. /\ phase = "stale" /\ committed' = committed
      /\ work' = AssignSeq(Update(work, e, work.rows[e].bytes, TRUE, day), e)
  BY DEF CloseStale
<1>2. DBInv(work) /\ day \in Nat /\ e \in OpenRows(work)
  BY <1>1 DEF IndInv, TypeOK, PhaseInv, OpenRows
<1>3. work.rows[e].cid \notin DOMAIN work.base
  BY <1>1 DEF IndInv, PhaseInv
<1>4. work'.base = work.base
  BY <1>1, <1>2, <1>3, CloseStaleSound
<1>5. QED
  BY <1>1, <1>4, DropDeltas

(* Numbering, pruning and the no-op clean-ups leave the baselines alone.   *)
LEMMA SameBaseDeltas ==
  ASSUME IndInv, DeltaInv,
         \/ \E e \in todo : MigrateRow(e) \/ PruneRow(e)
         \/ EndTracked \/ EndStale
  PROVE  DeltaInv'
<1>1. DBInv(work)
  BY DEF IndInv
<1>2. CASE \E e \in todo : MigrateRow(e)
  <2>1. PICK e \in todo : MigrateRow(e)
    BY <1>2
  <2>2. e \in Unassigned(work) /\ work' = AssignSeq(work, e) /\ committed' = committed
    BY <2>1 DEF IndInv, PhaseInv, MigrateRow
  <2>3. work'.base = work.base
    BY <1>1, <2>2, MigrateRowSound
  <2>4. QED
    BY <2>2, <2>3, DropDeltas
<1>3. CASE \E e \in todo : PruneRow(e)
  <2>1. PICK e \in todo : PruneRow(e)
    BY <1>3
  <2>2. /\ work' = Pruned(work, e) /\ committed' = committed
        /\ e \in DOMAIN work.rows /\ work.rows[e].closed
    BY <2>1 DEF IndInv, TypeOK, PhaseInv, PruneRow, Pruned
  <2>3. work'.base = work.base
    BY <1>1, <2>2, PruneRowSound
  <2>4. QED
    BY <2>2, <2>3, DropDeltas
<1>4. CASE EndTracked \/ EndStale
  <2>1. work' = PruneBaselines(work) /\ committed' = committed
    BY <1>4 DEF EndTracked, EndStale
  <2>2. work' = work
    BY <1>1, <2>1, KnownOpenIsBase
  <2>3. QED
    BY <2>1, <2>2, DropDeltas
<1>5. QED
  BY <1>2, <1>3, <1>4

-----------------------------------------------------------------------------
(***************************************************************************)
(* The invariant, and the property of commits.                             *)
(***************************************************************************)
LEMMA DeltaStep == IndInv /\ IndInv' /\ DeltaInv /\ [Next]_vars => DeltaInv'
<1> SUFFICES ASSUME IndInv, IndInv', DeltaInv, [Next]_vars PROVE DeltaInv'
  OBVIOUS
<1>1. ASSUME work' = committed' PROVE DeltaInv'
  <2>1. DBInv(committed')
    BY DEF IndInv
  <2>2. QED
    BY <1>1, <2>1, SameDeltasReflexive DEF DeltaInv
<1>2. ASSUME UNCHANGED <<committed, work>> PROVE DeltaInv'
  BY <1>2 DEF DeltaInv
<1>3. CASE UNCHANGED vars \/ Environment \/ Start
  <2>1. UNCHANGED <<committed, work>>
    BY <1>3 DEF vars, txn, Environment, ClashOpens, ClashForgets, ClashCounts, NextDay,
           Start
  <2>2. QED
    BY <1>2, <2>1
<1>4. CASE Poll
  <2>1. CASE BeginPoll \/ (\E c \in todo : PollInvalid(c)) \/ EndLive
    BY <1>2, <2>1 DEF BeginPoll, PollInvalid, EndLive
  <2>2. CASE \E c \in todo : PollDelta(c) \/ PollReset(c)
                            \/ PollUntracked(c) \/ PollUnknown(c)
    BY <2>2, PollDeltaDeltas, PollResetDeltas, PollUntrackedDeltas, PollUnknownDeltas
  <2>3. CASE \E c \in todo : PollGone(c) \/ CloseStale(c)
    BY <2>3, PollGoneDeltas, CloseStaleDeltas
  <2>4. CASE EndTracked \/ EndStale
    BY <2>4, SameBaseDeltas
  <2>5. CASE CommitPoll \/ CommitFails
    BY <1>1, <2>5 DEF CommitPoll, CommitFails
  <2>6. QED
    BY <1>4, <2>1, <2>2, <2>3, <2>4, <2>5 DEF Poll
<1>5. CASE Retention
  <2>1. CASE BeginRetention
    BY <1>2, <2>1 DEF BeginRetention
  <2>2. CASE \E e \in todo : PruneRow(e)
    BY <2>2, SameBaseDeltas
  <2>3. CASE CommitRetention
    BY <1>1, <2>3 DEF CommitRetention
  <2>4. QED
    BY <1>5, <2>1, <2>2, <2>3 DEF Retention
<1>6. CASE \E e \in todo : MigrateRow(e)
  BY <1>6, SameBaseDeltas
<1>7. CASE FinishMigration \/ TickFails \/ Crash
  BY <1>1, <1>7 DEF FinishMigration, TickFails, Crash
<1>8. QED
  BY <1>3, <1>4, <1>5, <1>6, <1>7 DEF Next, Daemon

(* A commit makes the transaction's baselines the committed ones.          *)
LEMMA CommitDeltas ==
  IndInv /\ DeltaInv /\ [Next]_vars =>
    [SameDeltas(committed.base, committed'.base)]_committed
<1> SUFFICES ASSUME IndInv, DeltaInv, [Next]_vars
             PROVE  [SameDeltas(committed.base, committed'.base)]_committed
  OBVIOUS
<1>1. \/ committed' = committed
      \/ committed' = work
      \/ committed' = [work EXCEPT !.schema = 4]
  BY DEF vars, Next, Daemon, Environment, ClashOpens, ClashForgets, ClashCounts,
         NextDay,
         Poll, BeginPoll, PollDelta, PollReset, PollUntracked, PollUnknown,
         PollInvalid, PollGone, Account, CloseStale, EndLive, EndTracked, EndStale,
         CommitPoll, CommitFails, Retention, BeginRetention, PruneRow, CommitRetention,
         Start, MigrateRow, FinishMigration, TickFails, Crash
<1>2. DBType(work)
  BY DEF IndInv, TypeOK
<1>3. committed' = committed \/ committed'.base = work.base
  BY <1>1, <1>2 DEF DBType
<1>4. QED
  BY <1>3 DEF DeltaInv

(* A poll that failed, was rolled back or was cut by a crash neither       *)
(* repeats nor drops a delta: whatever lies between two commits, the       *)
(* account of a generation moves by what its counters moved.               *)
THEOREM DeltaOnceHolds == Spec => DeltaOnce
<1>1. Init => DeltaInv
  BY InitSound, SameDeltasReflexive DEF Init, IndInv, DeltaInv
<1>2. SameDeltas(committed.base, committed'.base) =>
        \A c \in DOMAIN committed.base \cap DOMAIN committed'.base :
          LET old == committed.base[c]
              new == committed'.base[c]
          IN  old.gen = new.gen =>
                \A d \in Dir : new.acc[d] - old.acc[d] = new.raw[d] - old.raw[d]
  BY DEF SameDeltas, SameDelta
<1>3. QED
  BY <1>1, <1>2, DeltaStep, CommitDeltas, Soundness, PTL DEF Spec, DeltaOnce

-----------------------------------------------------------------------------
(***************************************************************************)
(* What is on record of a connection.                                      *)
(***************************************************************************)
Weights(db, d) == [e \in DOMAIN db.rows |-> db.rows[e].bytes[d]]

(* The part of the account of c that is on row e.                          *)
Share(db, c, e, d) == IF e \in RowsOf(db, c) THEN db.rows[e].bytes[d] ELSE 0

(* Rows are finitely many, and their bytes are naturals.                   *)
LEMMA RowsFinite ==
  ASSUME NEW db, DBType(db), NEW c
  PROVE  /\ IsFiniteSet(RowsOf(db, c)) /\ RowsOf(db, c) \subseteq DOMAIN db.rows
         /\ \A e \in DOMAIN db.rows, d \in Dir : db.rows[e].bytes[d] \in Nat
<1>1. RowsOf(db, c) \subseteq 1 .. db.eid /\ db.eid \in Nat
  BY DEF DBType, RowsOf
<1>2. IsFiniteSet(RowsOf(db, c))
  <2>1. IsFiniteSet(1 .. db.eid)
    BY <1>1, FS_Interval
  <2>2. QED
    BY <1>1, <2>1, FS_Subset
<1>3. \A e \in DOMAIN db.rows : db.rows[e].bytes \in Counters
  BY DEF DBType, Row
<1>4. QED
  BY <1>2, <1>3 DEF RowsOf, Counters

(* Accounted is a sum in the sense above.                                  *)
LEMMA AccountedIsSum ==
  ASSUME NEW db, DBType(db), NEW c, NEW d \in Dir
  PROVE  \E g : /\ IsSum(Weights(db, d), RowsOf(db, c), g)
                /\ Accounted(db, c, d) = g[RowsOf(db, c)]
<1> DEFINE S == RowsOf(db, c)
           w == Weights(db, d)
<1>1. IsFiniteSet(S) /\ \A x \in S : w[x] \in Nat /\ w[x] = db.rows[x].bytes[d]
  BY RowsFinite DEF Weights
<1> HIDE DEF w
<1>2. PICK g : IsSum(w, S, g)
  BY <1>1, SumExists
<1>3. IsFold(w, S, g)
  BY <1>2, SumIsFold
<1>4. \A f : [s \in SUBSET S |-> IF s = {} THEN 0
                ELSE w[CHOOSE x \in s : TRUE] + f[s \ {CHOOSE x \in s : TRUE}]]
           = [s \in SUBSET S |-> IF s = {} THEN 0
                ELSE db.rows[CHOOSE x \in s : TRUE].bytes[d]
                       + f[s \ {CHOOSE x \in s : TRUE}]]
  <2>1. ASSUME NEW s \in SUBSET S, s # {}
        PROVE  w[CHOOSE x \in s : TRUE] = db.rows[CHOOSE x \in s : TRUE].bytes[d]
    BY <1>1, <2>1
  <2>2. QED
    BY <2>1
<1>5. \E h : IsFold(w, S, h) /\ Accounted(db, c, d) = h[S]
  <2>1. g = [s \in SUBSET S |-> IF s = {} THEN 0
               ELSE db.rows[CHOOSE x \in s : TRUE].bytes[d]
                      + g[s \ {CHOOSE x \in s : TRUE}]]
    BY <1>3, <1>4 DEF IsFold
  <2> HIDE DEF S
  <2>2. S = RowsOf(db, c)
    BY DEF S
  <2> DEFINE fold == CHOOSE h : h = [s \in SUBSET S |-> IF s = {} THEN 0
                       ELSE db.rows[CHOOSE x \in s : TRUE].bytes[d]
                              + h[s \ {CHOOSE x \in s : TRUE}]]
  <2>3. Accounted(db, c, d) = fold[S]
    BY <2>2, Zenon DEF Accounted, MapThenSumSet, MapThenFoldSet
  <2>4. fold = [s \in SUBSET S |-> IF s = {} THEN 0
                  ELSE db.rows[CHOOSE x \in s : TRUE].bytes[d]
                         + fold[s \ {CHOOSE x \in s : TRUE}]]
    BY <2>1, Zenon
  <2> HIDE DEF fold
  <2>5. IsFold(w, S, fold)
    <3>1. [s \in SUBSET S |-> IF s = {} THEN 0
             ELSE w[CHOOSE x \in s : TRUE] + fold[s \ {CHOOSE x \in s : TRUE}]]
          = [s \in SUBSET S |-> IF s = {} THEN 0
               ELSE db.rows[CHOOSE x \in s : TRUE].bytes[d]
                      + fold[s \ {CHOOSE x \in s : TRUE}]]
      BY <1>4, Zenon
    <3>2. QED
      BY <2>4, <3>1, Zenon DEF IsFold
  <2>6. QED
    BY <2>3, <2>5, Zenon
<1> HIDE DEF S
<1>6. PICK h : IsFold(w, S, h) /\ Accounted(db, c, d) = h[S]
  BY <1>5
<1>7. h[S] = g[S]
  BY <1>1, <1>2, <1>6, FoldIsSum
<1>8. QED
  BY <1>2, <1>6, <1>7 DEF w, S

(* When only row e changes, the account changes by what is on it.          *)
LEMMA AccountedChange ==
  ASSUME NEW db, NEW new, DBType(db), DBType(new), NEW c, NEW d \in Dir, NEW e,
         RowsOf(new, c) \ {e} = RowsOf(db, c) \ {e},
         \A f \in RowsOf(db, c) \ {e} : new.rows[f].bytes = db.rows[f].bytes
  PROVE  /\ Accounted(new, c, d) + Share(db, c, e, d)
              = Accounted(db, c, d) + Share(new, c, e, d)
         /\ Accounted(db, c, d) \in Nat /\ Accounted(new, c, d) \in Nat
         /\ Share(db, c, e, d) \in Nat /\ Share(new, c, e, d) \in Nat
<1> DEFINE R == RowsOf(db, c) \ {e}
<1>1. ASSUME NEW x, DBType(x), RowsOf(x, c) \ {e} = R, NEW g,
             IsSum(Weights(x, d), RowsOf(x, c), g)
      PROVE  /\ g[RowsOf(x, c)] = Share(x, c, e, d) + g[R]
             /\ g[R] \in Nat /\ Share(x, c, e, d) \in Nat
  <2> HIDE DEF R
  <2>1. R \in SUBSET RowsOf(x, c) /\ RowsOf(x, c) \in SUBSET RowsOf(x, c)
    BY <1>1
  <2>2. g[R] \in Nat
    BY <1>1, <2>1 DEF IsSum
  <2>3. CASE e \in RowsOf(x, c)
    <3>1. Share(x, c, e, d) = Weights(x, d)[e] /\ Share(x, c, e, d) \in Nat
      BY <1>1, <2>3, RowsFinite DEF Share, Weights
    <3>2. g[RowsOf(x, c)] = Weights(x, d)[e] + g[RowsOf(x, c) \ {e}]
      BY <1>1, <2>1, <2>3 DEF IsSum
    <3>3. QED
      BY <1>1, <2>2, <3>1, <3>2
  <2>4. CASE e \notin RowsOf(x, c)
    <3>1. R = RowsOf(x, c) /\ Share(x, c, e, d) = 0
      BY <1>1, <2>4 DEF Share
    <3>2. QED
      BY <2>2, <3>1
  <2>5. QED
    BY <2>3, <2>4
<1>2. PICK g : /\ IsSum(Weights(db, d), RowsOf(db, c), g)
               /\ Accounted(db, c, d) = g[RowsOf(db, c)]
  BY AccountedIsSum
<1>3. PICK h : /\ IsSum(Weights(new, d), RowsOf(new, c), h)
               /\ Accounted(new, c, d) = h[RowsOf(new, c)]
  BY AccountedIsSum
<1>4. /\ g[RowsOf(db, c)] = Share(db, c, e, d) + g[R]
      /\ g[R] \in Nat /\ Share(db, c, e, d) \in Nat
  BY <1>1, <1>2
<1>5. /\ h[RowsOf(new, c)] = Share(new, c, e, d) + h[R]
      /\ h[R] \in Nat /\ Share(new, c, e, d) \in Nat
  BY <1>1, <1>3
<1>6. h[R] = g[R]
  <2>1. IsFiniteSet(R) /\ R \subseteq RowsOf(db, c) /\ R \subseteq RowsOf(new, c)
    BY RowsFinite, FS_Subset
  <2>2. \A x \in R : Weights(new, d)[x] = Weights(db, d)[x]
    BY <2>1, RowsFinite DEF Weights
  <2> HIDE DEF R
  <2>3. QED
    BY <1>2, <1>3, <2>1, <2>2, SumsAgree
<1> HIDE DEF R
<1>7. QED
  BY <1>2, <1>3, <1>4, <1>5, <1>6

-----------------------------------------------------------------------------
(***************************************************************************)
(* What a write does to the accounts.                                      *)
(***************************************************************************)
(* No account differs.                                                     *)
SameSums(db, new) ==
  \A c \in Conn, d \in Dir : Accounted(new, c, d) = Accounted(db, c, d)

(* The account of c moves as far as some bytes on record of it do.         *)
Moves(db, new, c, d, old, bytes) ==
  Accounted(new, c, d) + old = Accounted(db, c, d) + bytes

LEMMA SameSumsReflexive == ASSUME NEW db PROVE SameSums(db, db)
BY DEF SameSums

LEMMA SameSumsTransitive ==
  ASSUME NEW a, NEW b, NEW c, SameSums(a, b), SameSums(b, c)
  PROVE  SameSums(a, c)
BY DEF SameSums

(* An account is a natural number.                                         *)
LEMMA AccountedNat ==
  ASSUME NEW db, DBType(db), NEW c, NEW d \in Dir
  PROVE  Accounted(db, c, d) \in Nat
BY AccountedChange

(* Only rows count.                                                        *)
LEMMA SameRowsSums ==
  ASSUME NEW db, NEW new, new.rows = db.rows
  PROVE  SameSums(db, new)
BY DEF SameSums, Accounted, RowsOf

(* A revised row: only the account of its connection moves, by what the    *)
(* row's bytes move.                                                       *)
LEMMA RevisedSums ==
  ASSUME NEW db, NEW new, NEW e \in DOMAIN db.rows, NEW r, DBType(db), DBType(new),
         Revised(db, new, e, r), r.cid = db.rows[e].cid,
         NEW c \in Conn, NEW d \in Dir
  PROVE  /\ c # db.rows[e].cid => Accounted(new, c, d) = Accounted(db, c, d)
         /\ c = db.rows[e].cid => Moves(db, new, c, d, db.rows[e].bytes[d], r.bytes[d])
<1>1. RowsOf(new, c) = RowsOf(db, c)
  BY DEF Revised, RowsOf
<1>2. \A f \in RowsOf(db, c) \ {e} : new.rows[f].bytes = db.rows[f].bytes
  BY DEF Revised, RowsOf
<1>3. /\ Accounted(new, c, d) + Share(db, c, e, d) = Accounted(db, c, d) + Share(new, c, e, d)
      /\ Accounted(db, c, d) \in Nat /\ Accounted(new, c, d) \in Nat
      /\ Share(db, c, e, d) \in Nat /\ Share(new, c, e, d) \in Nat
  BY <1>1, <1>2, AccountedChange
<1>4. CASE c = db.rows[e].cid
  <2>1. e \in RowsOf(db, c) /\ new.rows[e] = r
    BY <1>4 DEF RowsOf, Revised
  <2>2. Share(db, c, e, d) = db.rows[e].bytes[d] /\ Share(new, c, e, d) = r.bytes[d]
    BY <1>1, <2>1 DEF Share
  <2>3. QED
    BY <1>3, <1>4, <2>2 DEF Moves
<1>5. CASE c # db.rows[e].cid
  <2>1. Share(db, c, e, d) = 0 /\ Share(new, c, e, d) = 0
    BY <1>1, <1>5 DEF Share, RowsOf
  <2>2. QED
    BY <1>3, <1>5, <2>1
<1>6. QED
  BY <1>4, <1>5

(* A row revised without its bytes leaves the accounts alone.              *)
LEMMA RevisedSame ==
  ASSUME NEW db, NEW new, NEW e \in DOMAIN db.rows, NEW r, DBType(db), DBType(new),
         Revised(db, new, e, r), r.cid = db.rows[e].cid, r.bytes = db.rows[e].bytes
  PROVE  SameSums(db, new)
<1>1. ASSUME NEW c \in Conn, NEW d \in Dir
      PROVE  Accounted(new, c, d) = Accounted(db, c, d)
  <2>1. /\ Accounted(db, c, d) \in Nat /\ Accounted(new, c, d) \in Nat
        /\ db.rows[e].bytes[d] \in Nat
    BY AccountedNat, RowsFinite
  <2>2. /\ c # db.rows[e].cid => Accounted(new, c, d) = Accounted(db, c, d)
        /\ c = db.rows[e].cid => Moves(db, new, c, d, db.rows[e].bytes[d], r.bytes[d])
    BY RevisedSums
  <2>3. QED
    BY <2>1, <2>2 DEF Moves
<1>2. QED
  BY <1>1 DEF SameSums

(* So does a row inserted with nothing on it.                              *)
LEMMA InsertedSame ==
  ASSUME NEW db, NEW new, NEW r, DBType(db), DBType(new), Inserted(db, new, r),
         r.bytes = Zero
  PROVE  SameSums(db, new)
<1> DEFINE e == db.eid + 1
<1>1. e \notin DOMAIN db.rows
  BY RowFacts
<1> HIDE DEF e
<1>2. /\ DOMAIN new.rows = DOMAIN db.rows \cup {e} /\ new.rows[e] = r
      /\ \A f \in DOMAIN db.rows : new.rows[f] = db.rows[f]
  BY DEF Inserted, e
<1>3. ASSUME NEW c \in Conn, NEW d \in Dir
      PROVE  Accounted(new, c, d) = Accounted(db, c, d)
  <2>1. RowsOf(new, c) \ {e} = RowsOf(db, c) \ {e}
    BY <1>1, <1>2 DEF RowsOf
  <2>2. \A f \in RowsOf(db, c) \ {e} : new.rows[f].bytes = db.rows[f].bytes
    BY <1>2 DEF RowsOf
  <2>3. Share(db, c, e, d) = 0 /\ Share(new, c, e, d) = 0
    BY <1>1, <1>2 DEF Share, RowsOf, Zero
  <2>4. /\ Accounted(new, c, d) + Share(db, c, e, d) = Accounted(db, c, d) + Share(new, c, e, d)
        /\ Accounted(db, c, d) \in Nat /\ Accounted(new, c, d) \in Nat
    BY <2>1, <2>2, AccountedChange
  <2>5. QED
    BY <2>3, <2>4
<1>4. QED
  BY <1>3 DEF SameSums

(* Writing the open generation g of c moves the account of c from the      *)
(* bytes of its row to the new ones, and no other.                         *)
LEMMA WriteOpenExistingSums ==
  ASSUME NEW db, DBInv(db),
         NEW c \in Conn, NEW g \in Nat, NEW e \in OpenGen(db, c, g),
         NEW raw \in Counters, NEW acc \in Counters, NEW now \in Nat
  PROVE  LET new == WriteOpen(db, c, g, raw, acc, now)
         IN  \A x \in Conn, d \in Dir :
               /\ x # c => Accounted(new, x, d) = Accounted(db, x, d)
               /\ x = c => Moves(db, new, x, d, db.rows[e].bytes[d], acc[d])
<1> DEFINE f == CHOOSE f \in OpenGen(db, c, g) : TRUE
           mid == Update(db, f, acc, FALSE, now)
           new == SetBaseline(mid, c, g, raw, acc)
           r == [cid |-> db.rows[f].cid, gen |-> db.rows[f].gen, closed |-> FALSE,
                 bytes |-> acc, seq |-> db.rows[f].seq, seen |-> now]
<1>1. f \in OpenGen(db, c, g)
  OBVIOUS
<1>2. WriteOpen(db, c, g, raw, acc, now) = new
  BY DEF WriteOpen, Landed, UpsertOpen
<1>3. f = e
  <2> HIDE DEF f
  <2>1. QED
    BY <1>1 DEF OpenGen, GenRows, RowsOf, DBInv, UniqueGen
<1> HIDE DEF f
<1>4. DBType(db) /\ e \in DOMAIN db.rows /\ db.rows[e].cid = c
  BY DEF OpenGen, GenRows, RowsOf, DBInv
<1>5. DBType(mid) /\ Revised(db, mid, e, r)
  BY <1>3, <1>4, UpdateShape
<1>6. r.cid = db.rows[e].cid /\ r.bytes = acc
  BY <1>3
<1> HIDE DEF r
<1>7. new.rows = mid.rows
  <2> HIDE DEF mid
  <2>1. QED
    BY <1>5 DEF SetBaseline, DBType
<1> HIDE DEF mid, new
<1>8. SameSums(mid, new)
  BY <1>7, SameRowsSums
<1>9. ASSUME NEW x \in Conn, NEW d \in Dir
      PROVE  /\ x # c => Accounted(new, x, d) = Accounted(db, x, d)
             /\ x = c => Moves(db, new, x, d, db.rows[e].bytes[d], acc[d])
  <2>1. Accounted(new, x, d) = Accounted(mid, x, d)
    BY <1>8 DEF SameSums
  <2>2. /\ x # db.rows[e].cid => Accounted(mid, x, d) = Accounted(db, x, d)
        /\ x = db.rows[e].cid => Moves(db, mid, x, d, db.rows[e].bytes[d], r.bytes[d])
    BY <1>4, <1>5, <1>6, RevisedSums
  <2>3. QED
    BY <1>4, <1>6, <2>1, <2>2 DEF Moves
<1>10. QED
  BY <1>2, <1>9

(* A new generation starts from nothing.                                   *)
LEMMA WriteOpenNewSums ==
  ASSUME NEW db, DBType(db),
         NEW c \in Conn, NEW g \in Nat, \A f \in RowsOf(db, c) : db.rows[f].gen # g,
         NEW raw \in Counters, NEW now \in Nat
  PROVE  SameSums(db, WriteOpen(db, c, g, raw, Zero, now))
<1> DEFINE mid == Insert(db, c, g, Zero, FALSE, now)
           new == SetBaseline(mid, c, g, raw, Zero)
           r == [cid |-> c, gen |-> g, closed |-> FALSE,
                 bytes |-> Zero, seq |-> 0, seen |-> now]
<1>1. GenRows(db, c, g) = {} /\ OpenGen(db, c, g) = {}
  BY DEF GenRows, OpenGen
<1>2. WriteOpen(db, c, g, raw, Zero, now) = new
  BY <1>1 DEF WriteOpen, Landed, UpsertOpen
<1>3. DBType(mid) /\ Inserted(db, mid, r)
  <2>1. Zero \in Counters
    BY DEF Zero, Counters
  <2>2. QED
    BY <2>1, InsertShape
<1>4. r.bytes = Zero
  OBVIOUS
<1> HIDE DEF mid, r
<1>5. SameSums(db, mid)
  BY <1>3, <1>4, InsertedSame
<1>6. new.rows = mid.rows
  BY <1>3 DEF SetBaseline, DBType
<1> HIDE DEF new
<1>7. SameSums(mid, new)
  BY <1>6, SameRowsSums
<1>8. QED
  BY <1>2, <1>5, <1>7, SameSumsTransitive

(* A row closed with the bytes it has.                                     *)
LEMMA CloseRowSums ==
  ASSUME NEW db, DBInv(db), NEW e \in OpenRows(db), NEW now \in Nat
  PROVE  SameSums(db, AssignSeq(Update(db, e, db.rows[e].bytes, TRUE, now), e))
<1> DEFINE bytes == db.rows[e].bytes
           mid == Update(db, e, bytes, TRUE, now)
           new == AssignSeq(mid, e)
           r == [cid |-> db.rows[e].cid, gen |-> db.rows[e].gen, closed |-> TRUE,
                 bytes |-> bytes, seq |-> db.rows[e].seq, seen |-> now]
           q == [cid |-> mid.rows[e].cid, gen |-> mid.rows[e].gen,
                 closed |-> mid.rows[e].closed, bytes |-> mid.rows[e].bytes,
                 seq |-> mid.seq + 1, seen |-> mid.rows[e].seen]
<1>1. DBType(db) /\ e \in DOMAIN db.rows /\ db.rows[e].seq = 0 /\ bytes \in Counters
  BY DEF DBInv, DBType, Row, OpenRows, SeqOfClosed
<1> HIDE DEF bytes
<1>2. DBType(mid) /\ Revised(db, mid, e, r)
  BY <1>1, UpdateShape
<1>3. r.cid = db.rows[e].cid /\ r.bytes = bytes /\ r.seq = 0
  BY <1>1
<1> HIDE DEF mid, r
<1>4. SameSums(db, mid) /\ e \in DOMAIN mid.rows /\ mid.rows[e].seq = 0
  <2>1. SameSums(db, mid)
    BY <1>1, <1>2, <1>3, RevisedSame DEF bytes
  <2>2. QED
    BY <1>1, <1>2, <1>3, <2>1 DEF Revised
<1>5. DBType(new) /\ Revised(mid, new, e, q)
  BY <1>2, <1>4, AssignSeqShape
<1>6. q.cid = mid.rows[e].cid /\ q.bytes = mid.rows[e].bytes
  OBVIOUS
<1> HIDE DEF new, q
<1>7. SameSums(mid, new)
  BY <1>2, <1>4, <1>5, <1>6, RevisedSame
<1>8. SameSums(db, new)
  BY <1>4, <1>7, SameSumsTransitive
<1>9. QED
  BY <1>8 DEF new, mid, bytes

(* The same through _close_generation: the baseline agrees with the row.   *)
LEMMA CloseGenerationSums ==
  ASSUME NEW db, DBInv(db), NEW c \in DOMAIN db.base, NEW now \in Nat
  PROVE  SameSums(db, CloseGeneration(db, c, db.base[c], now))
<1> DEFINE st == db.base[c]
           e == CHOOSE e \in OpenGen(db, c, st.gen) : TRUE
           mid == AssignSeq(Update(db, e, st.acc, TRUE, now), e)
           new == [mid EXCEPT !.base = Drop(@, {c})]
<1>1. OpenGen(db, c, st.gen) # {}
  BY BasedHasPrev
<1>2. e \in OpenGen(db, c, st.gen)
  BY <1>1
<1>3. CloseGeneration(db, c, st, now) = new
  BY <1>1 DEF CloseGeneration, UpsertClosed
<1> HIDE DEF e
<1>4. e \in OpenRows(db)
  BY <1>2 DEF OpenGen
<1>5. st.acc = db.rows[e].bytes
  <2>1. PICK f \in OpenGen(db, c, st.gen) : db.rows[f].bytes = st.acc
    BY DEF DBInv, BaselineOfOpen
  <2>2. f = e
    BY <1>2, <2>1 DEF OpenGen, GenRows, RowsOf, DBInv, UniqueGen
  <2>3. QED
    BY <2>1, <2>2
<1>6. SameSums(db, mid)
  BY <1>4, <1>5, CloseRowSums
<1>7. DBType(mid)
  <2>1. st.acc \in Counters
    BY BasedHasPrev DEF Baseline
  <2>2. QED
    BY <1>4, <2>1, CloseRowGrows
<1> HIDE DEF mid
<1>8. new.rows = mid.rows
  BY <1>7 DEF DBType
<1> HIDE DEF new
<1>9. SameSums(mid, new)
  BY <1>8, SameRowsSums
<1>10. SameSums(db, new)
  BY <1>6, <1>9, SameSumsTransitive
<1>11. QED
  BY <1>3, <1>10

(* Numbering a row does not count it again.                                *)
LEMMA AssignSeqSums ==
  ASSUME NEW db, DBType(db), NEW e \in Unassigned(db)
  PROVE  SameSums(db, AssignSeq(db, e))
<1> DEFINE new == AssignSeq(db, e)
           r == [cid |-> db.rows[e].cid, gen |-> db.rows[e].gen,
                 closed |-> db.rows[e].closed, bytes |-> db.rows[e].bytes,
                 seq |-> db.seq + 1, seen |-> db.rows[e].seen]
<1>1. e \in DOMAIN db.rows /\ db.rows[e].seq = 0
  BY DEF Unassigned
<1>2. DBType(new) /\ Revised(db, new, e, r)
  BY <1>1, AssignSeqShape
<1>3. r.cid = db.rows[e].cid /\ r.bytes = db.rows[e].bytes
  OBVIOUS
<1> HIDE DEF new, r
<1>4. SameSums(db, new)
  BY <1>1, <1>2, <1>3, RevisedSame
<1>5. QED
  BY <1>4 DEF new

(* Deleting a row only lowers the accounts.                                *)
LEMMA PrunedSums ==
  ASSUME NEW db, DBInv(db), NEW e \in DOMAIN db.rows, db.rows[e].closed,
         NEW c \in Conn, NEW d \in Dir
  PROVE  Accounted(Pruned(db, e), c, d) <= Accounted(db, c, d)
<1> DEFINE new == Pruned(db, e)
<1>1. /\ DBInv(new) /\ DOMAIN new.rows = DOMAIN db.rows \ {e}
      /\ \A f \in DOMAIN new.rows : new.rows[f] = db.rows[f]
  BY PruneRowSound
<1> HIDE DEF new
<1>2. RowsOf(new, c) \ {e} = RowsOf(db, c) \ {e} /\ e \notin RowsOf(new, c)
  BY <1>1 DEF RowsOf
<1>3. \A f \in RowsOf(db, c) \ {e} : new.rows[f].bytes = db.rows[f].bytes
  BY <1>1 DEF RowsOf
<1>4. DBType(db) /\ DBType(new)
  BY <1>1 DEF DBInv
<1>5. Share(new, c, e, d) = 0
  BY <1>2 DEF Share
<1>6. /\ Accounted(new, c, d) + Share(db, c, e, d) = Accounted(db, c, d) + Share(new, c, e, d)
      /\ Accounted(db, c, d) \in Nat /\ Accounted(new, c, d) \in Nat
      /\ Share(db, c, e, d) \in Nat
  BY <1>2, <1>3, <1>4, AccountedChange
<1>7. QED
  BY <1>5, <1>6 DEF new

-----------------------------------------------------------------------------
(***************************************************************************)
(* Accounts and traffic.                                                   *)
(***************************************************************************)
(* What is on record of c, and what it will be once the growth of its      *)
(* counter since the baseline is added, is no more than c carried.         *)
Covered(db) ==
  \A c \in Conn, d \in Dir :
    /\ Accounted(db, c, d) <= sent[c][d]
    /\ c \in DOMAIN db.base =>
         Accounted(db, c, d) + clash[c].count[d] - db.base[c].raw[d] <= sent[c][d]

(* The same of the snapshot, for what the live loop has not reached: what  *)
(* the counter grew by after the snapshot is for the next poll.            *)
Pending ==
  phase = "live" =>
    \A c \in todo, d \in Dir :
      /\ Accounted(work, c, d) + clash[c].count[d] - live[c][d] <= sent[c][d]
      /\ c \in DOMAIN work.base =>
           Accounted(work, c, d) + live[c][d] - work.base[c].raw[d] <= sent[c][d]

SentInv == Covered(committed) /\ Covered(work) /\ Pending

(* The numbers these are about.                                            *)
LEMMA SentFacts ==
  ASSUME IndInv, NEW c \in Conn, NEW d \in Dir
  PROVE  /\ sent[c][d] \in Nat /\ clash[c].count[d] \in Nat
         /\ phase = "live" /\ c \in todo => live[c][d] \in Nat
         /\ \A db \in {committed, work} :
              /\ Accounted(db, c, d) \in Nat
              /\ c \in DOMAIN db.base => db.base[c].raw[d] \in Nat
<1>1. sent[c] \in Counters /\ clash[c].count \in Counters
  BY DEF IndInv, TypeOK
<1>2. phase = "live" /\ c \in todo => live[c] \in Counters
  BY DEF IndInv, TypeOK
<1>3. ASSUME NEW db \in {committed, work}
      PROVE  /\ Accounted(db, c, d) \in Nat
             /\ c \in DOMAIN db.base => db.base[c].raw[d] \in Nat
  <2>1. DBInv(db) /\ DBType(db)
    BY DEF IndInv, DBInv
  <2>2. QED
    BY <2>1, AccountedNat, BaseFacts
<1>4. QED
  BY <1>1, <1>2, <1>3 DEF Counters

(* Only rows and baselines count.                                          *)
LEMMA CoveredSame ==
  ASSUME NEW db, NEW new, Covered(db), new.rows = db.rows, new.base = db.base
  PROVE  Covered(new)
BY SameRowsSums DEF Covered, SameSums

(* A write of the live loop: the baseline of c is now the snapshot, and    *)
(* its account is what it was, or has grown by what the counter grew.      *)
LEMMA AccountCovers ==
  ASSUME IndInv, IndInv', SentInv, NEW c \in todo, phase = "live", phase' = "live",
         UNCHANGED <<committed, live, clash, sent>>, todo' = todo \ {c},
         NEW b, work'.base = Put(work.base, c, b), b.raw = live[c],
         \A x \in Conn, d \in Dir :
           x # c => Accounted(work', x, d) = Accounted(work, x, d),
         \A d \in Dir :
           \/ Accounted(work', c, d) = Accounted(work, c, d)
           \/ /\ c \in DOMAIN work.base
              /\ Accounted(work', c, d)
                   = Accounted(work, c, d) + live[c][d] - work.base[c].raw[d]
  PROVE  SentInv'
<1>1. /\ DOMAIN work'.base = DOMAIN work.base \cup {c} /\ work'.base[c] = b
      /\ \A x \in DOMAIN work.base : x # c => work'.base[x] = work.base[x]
  BY DEF Put
<1>2. Covered(committed)'
  BY DEF SentInv, Covered
<1>3. ASSUME NEW x \in Conn, NEW d \in Dir
      PROVE  /\ Accounted(work', x, d) <= sent[x][d]
             /\ x \in DOMAIN work'.base =>
                  Accounted(work', x, d) + clash[x].count[d] - work'.base[x].raw[d]
                    <= sent[x][d]
  <2>1. /\ sent[x][d] \in Nat /\ clash[x].count[d] \in Nat
        /\ Accounted(work, x, d) \in Nat
        /\ x \in DOMAIN work.base => work.base[x].raw[d] \in Nat
        /\ x \in todo => live[x][d] \in Nat
    BY SentFacts
  <2>2. /\ Accounted(work, x, d) <= sent[x][d]
        /\ x \in DOMAIN work.base =>
             Accounted(work, x, d) + clash[x].count[d] - work.base[x].raw[d] <= sent[x][d]
    BY DEF SentInv, Covered
  <2>3. CASE x # c
    BY <1>1, <2>2, <2>3
  <2>4. CASE x = c
    <3>1. /\ Accounted(work, c, d) + clash[c].count[d] - live[c][d] <= sent[c][d]
          /\ c \in DOMAIN work.base =>
               Accounted(work, c, d) + live[c][d] - work.base[c].raw[d] <= sent[c][d]
      BY DEF SentInv, Pending
    <3>2. work'.base[c].raw[d] = live[c][d]
      BY <1>1
    <3>3. CASE Accounted(work', c, d) = Accounted(work, c, d)
      BY <2>1, <2>2, <2>4, <3>1, <3>2, <3>3
    <3>4. CASE /\ c \in DOMAIN work.base
               /\ Accounted(work', c, d)
                    = Accounted(work, c, d) + live[c][d] - work.base[c].raw[d]
      BY <2>1, <2>2, <2>4, <3>1, <3>2, <3>4
    <3>5. QED
      BY <3>3, <3>4
  <2>5. QED
    BY <2>3, <2>4
<1>4. Covered(work)'
  BY <1>3 DEF Covered
<1>5. Pending'
  <2> SUFFICES ASSUME NEW x \in todo', NEW d \in Dir
               PROVE  /\ Accounted(work', x, d) + clash[x].count[d] - live[x][d]
                           <= sent[x][d]
                      /\ x \in DOMAIN work'.base =>
                           Accounted(work', x, d) + live[x][d] - work'.base[x].raw[d]
                             <= sent[x][d]
    BY DEF Pending
  <2>1. x \in todo /\ x # c /\ x \in Conn
    BY DEF IndInv, TypeOK
  <2>2. QED
    BY <1>1, <2>1 DEF SentInv, Pending
<1>6. QED
  BY <1>2, <1>4, <1>5 DEF SentInv

(* A write outside the live loop: no account grows, no baseline moves.     *)
LEMMA LowerCovers ==
  ASSUME IndInv, IndInv', SentInv, phase' # "live", UNCHANGED <<committed, clash, sent>>,
         DOMAIN work'.base \subseteq DOMAIN work.base,
         \A x \in DOMAIN work'.base : work'.base[x] = work.base[x],
         \A x \in Conn, d \in Dir : Accounted(work', x, d) <= Accounted(work, x, d)
  PROVE  SentInv'
<1>1. Covered(committed)'
  BY DEF SentInv, Covered
<1>2. ASSUME NEW x \in Conn, NEW d \in Dir
      PROVE  /\ Accounted(work', x, d) <= sent[x][d]
             /\ x \in DOMAIN work'.base =>
                  Accounted(work', x, d) + clash[x].count[d] - work'.base[x].raw[d]
                    <= sent[x][d]
  <2>1. /\ sent[x][d] \in Nat /\ clash[x].count[d] \in Nat
        /\ Accounted(work, x, d) \in Nat
        /\ x \in DOMAIN work.base => work.base[x].raw[d] \in Nat
    BY SentFacts
  <2>2. /\ Accounted(work, x, d) <= sent[x][d]
        /\ x \in DOMAIN work.base =>
             Accounted(work, x, d) + clash[x].count[d] - work.base[x].raw[d] <= sent[x][d]
    BY DEF SentInv, Covered
  <2>3. Accounted(work', x, d) \in Nat /\ Accounted(work', x, d) <= Accounted(work, x, d)
    <3>1. DBType(work')
      BY DEF IndInv, DBInv
    <3>2. QED
      BY <3>1, AccountedNat
  <2>4. QED
    BY <2>1, <2>2, <2>3
<1>3. Covered(work)'
  BY <1>2 DEF Covered
<1>4. QED
  BY <1>1, <1>3 DEF SentInv, Pending

(* A write that keeps every account.                                       *)
LEMMA SameCovers ==
  ASSUME IndInv, IndInv', SentInv, phase' # "live", UNCHANGED <<committed, clash, sent>>,
         DOMAIN work'.base \subseteq DOMAIN work.base,
         \A x \in DOMAIN work'.base : work'.base[x] = work.base[x],
         SameSums(work, work')
  PROVE  SentInv'
<1>1. ASSUME NEW x \in Conn, NEW d \in Dir
      PROVE  Accounted(work', x, d) <= Accounted(work, x, d)
  <2>1. Accounted(work, x, d) \in Nat /\ Accounted(work', x, d) = Accounted(work, x, d)
    BY SentFacts DEF SameSums
  <2>2. QED
    BY <2>1
<1>2. QED
  BY <1>1, LowerCovers

-----------------------------------------------------------------------------
(***************************************************************************)
(* The steps.                                                              *)
(***************************************************************************)
LEMMA PollDeltaCovers ==
  ASSUME IndInv, IndInv', SentInv, NEW c \in todo, PollDelta(c)
  PROVE  SentInv'
<1> DEFINE prev == work.base[c]
           acc == Grown(prev.acc, live[c], prev.raw)
           b == [gen |-> prev.gen, raw |-> live[c], acc |-> acc]
           db == WriteOpen(work, c, prev.gen, live[c], acc, day)
<1>1. /\ phase = "live" /\ HasPrev(work, c) /\ ~ Decreased(live[c], prev.raw)
      /\ work' = db /\ todo' = todo \ {c}
      /\ phase' = "live" /\ UNCHANGED <<committed, live, clash, sent>>
  BY DEF PollDelta, Account, env
<1>2. /\ DBInv(work) /\ c \in Conn /\ live[c] \in Counters /\ day \in Nat
      /\ prev.gen \in Nat /\ prev.raw \in Counters /\ prev.acc \in Counters
      /\ c \in DOMAIN work.base
  BY <1>1, LiveStart
<1>3. PICK e \in OpenGen(work, c, prev.gen) : work.rows[e].bytes = prev.acc
  BY <1>2 DEF DBInv, BaselineOfOpen
<1> HIDE DEF prev
<1>4. acc \in Counters
  BY <1>1, <1>2 DEF Grown, Decreased, Counters
<1>5. \A d \in Dir : acc[d] = prev.acc[d] + (live[c][d] - prev.raw[d])
  BY DEF Grown
<1>6. b.raw = live[c]
  OBVIOUS
<1> HIDE DEF acc
<1>7. db.base = Put(work.base, c, b)
  BY <1>2, <1>3, <1>4, WriteOpenExisting
<1>8. \A x \in Conn, d \in Dir :
        /\ x # c => Accounted(db, x, d) = Accounted(work, x, d)
        /\ x = c => Moves(work, db, x, d, prev.acc[d], acc[d])
  BY <1>2, <1>3, <1>4, WriteOpenExistingSums
<1> HIDE DEF db, b
<1>9. ASSUME NEW d \in Dir
      PROVE  Accounted(work', c, d) = Accounted(work, c, d) + live[c][d] - work.base[c].raw[d]
  <2>1. Accounted(db, c, d) + prev.acc[d] = Accounted(work, c, d) + acc[d]
    BY <1>2, <1>8 DEF Moves
  <2>2. /\ prev.acc[d] \in Nat /\ live[c][d] \in Nat /\ prev.raw[d] \in Nat
        /\ Accounted(work, c, d) \in Nat
    BY <1>1, <1>2, SentFacts DEF Counters
  <2>3. Accounted(db, c, d) \in Nat
    <3>1. DBType(work')
      BY DEF IndInv, DBInv
    <3>2. QED
      BY <1>1, <3>1, AccountedNat
  <2>4. acc[d] = prev.acc[d] + (live[c][d] - prev.raw[d])
    BY <1>5
  <2>5. Accounted(db, c, d) = Accounted(work, c, d) + live[c][d] - prev.raw[d]
    BY <2>1, <2>2, <2>3, <2>4
  <2>6. QED
    BY <1>1, <2>5 DEF prev
<1>10. \A x \in Conn, d \in Dir :
         x # c => Accounted(work', x, d) = Accounted(work, x, d)
  BY <1>1, <1>8
<1>11. work'.base = Put(work.base, c, b)
  BY <1>1, <1>7
<1>12. QED
  BY <1>1, <1>2, <1>6, <1>9, <1>10, <1>11, AccountCovers

(* The other writes of the live loop keep every account.                   *)
LEMMA AccountSameCovers ==
  ASSUME IndInv, IndInv', SentInv, NEW c \in todo, phase = "live", NEW db, Account(c, db),
         NEW b, db.base = Put(work.base, c, b), b.raw = live[c], SameSums(work, db)
  PROVE  SentInv'
<1>1. /\ work' = db /\ todo' = todo \ {c}
      /\ phase' = "live" /\ UNCHANGED <<committed, live, clash, sent>>
  BY DEF Account, env
<1>2. c \in Conn
  BY DEF IndInv, TypeOK
<1>3. \A x \in Conn, d \in Dir : Accounted(work', x, d) = Accounted(work, x, d)
  BY <1>1 DEF SameSums
<1>4. QED
  BY <1>1, <1>2, <1>3, AccountCovers

LEMMA PollResetCovers ==
  ASSUME IndInv, IndInv', SentInv, NEW c \in todo, PollReset(c)
  PROVE  SentInv'
<1> DEFINE prev == work.base[c]
           mid == CloseGeneration(work, c, prev, day)
           b == [gen |-> prev.gen + 1, raw |-> live[c], acc |-> Zero]
           db == WriteOpen(mid, c, prev.gen + 1, live[c], Zero, day)
<1>1. phase = "live" /\ HasPrev(work, c) /\ Account(c, db)
  BY DEF PollReset
<1>2. /\ DBInv(work) /\ c \in Conn /\ live[c] \in Counters /\ day \in Nat
      /\ c \in DOMAIN work.base
      /\ prev \in Baseline /\ prev.gen \in Nat
      /\ OpenGen(work, c, prev.gen) # {}
  BY <1>1, LiveStart
<1>3. prev.gen + 1 \in Nat /\ prev.gen + 1 <= work.eid /\ Zero \in Counters
  BY <1>2 DEF DBInv, DBType, GenBelowId, OpenGen, GenRows, RowsOf, Zero, Counters
<1>4. SameSums(work, mid)
  BY <1>2, CloseGenerationSums
<1> HIDE DEF prev
<1>5. /\ DBInv(mid)
      /\ mid.base = Drop(work.base, {c})
      /\ mid.schema = work.schema /\ mid.eid = work.eid
      /\ RowsOf(mid, c) \cap OpenRows(mid) = {}
      /\ \A f \in RowsOf(mid, c) : mid.rows[f].gen <= prev.gen
  BY <1>2, CloseGenerationSound
<1> HIDE DEF mid
<1>6. /\ DBType(mid)
      /\ \A f \in RowsOf(mid, c) : mid.rows[f].gen < prev.gen + 1
                                   /\ mid.rows[f].gen # prev.gen + 1
  <2>1. DBType(mid)
    BY <1>5 DEF DBInv
  <2>2. \A f \in RowsOf(mid, c) : mid.rows[f].gen \in Nat
    BY <2>1 DEF DBType, RowsOf, Row
  <2>3. QED
    BY <1>2, <1>5, <2>1, <2>2
<1>7. db.base = Put(mid.base, c, b)
  BY <1>2, <1>3, <1>5, <1>6, WriteOpenNew
<1>8. SameSums(mid, db)
  BY <1>2, <1>3, <1>5, <1>6, WriteOpenNewSums
<1>9. b.raw = live[c]
  OBVIOUS
<1> HIDE DEF db, b
<1>10. db.base = Put(work.base, c, b)
  BY <1>2, <1>5, <1>7 DEF Put, Drop, Restrict
<1>11. SameSums(work, db)
  BY <1>4, <1>8, SameSumsTransitive
<1>12. QED
  BY <1>1, <1>9, <1>10, <1>11, AccountSameCovers

LEMMA PollUntrackedCovers ==
  ASSUME IndInv, IndInv', SentInv, NEW c \in todo, PollUntracked(c)
  PROVE  SentInv'
<1> DEFINE open == RowsOf(work, c) \cap OpenRows(work)
           e == LatestOpen(work, c)
           row == work.rows[e]
           b == [gen |-> row.gen, raw |-> live[c], acc |-> row.bytes]
           db == WriteOpen(work, c, row.gen, live[c], row.bytes, day)
<1>1. phase = "live" /\ open # {} /\ Account(c, db)
  BY DEF PollUntracked
<1>2. DBInv(work) /\ DBType(work) /\ c \in Conn /\ live[c] \in Counters /\ day \in Nat
  BY <1>1, LiveStart DEF DBInv
<1>3. e \in open
  <2>1. PICK f \in open : TRUE
    BY <1>1
  <2>2. \A h \in open : work.rows[h].gen <= work.rows[f].gen
    BY <1>2, <2>1 DEF DBInv, OpenIsLatest, RowsOf
  <2>3. QED
    BY <2>1, <2>2 DEF LatestOpen
<1> HIDE DEF e
<1>4. /\ row.gen \in Nat /\ row.bytes \in Counters
      /\ e \in OpenGen(work, c, row.gen)
  BY <1>2, <1>3 DEF DBType, Row, RowsOf, OpenGen, GenRows
<1>5. db.base = Put(work.base, c, b)
  <2> HIDE DEF row
  <2>1. QED
    BY <1>2, <1>4, WriteOpenExisting
<1>6. \A x \in Conn, d \in Dir :
        /\ x # c => Accounted(db, x, d) = Accounted(work, x, d)
        /\ x = c => Moves(work, db, x, d, row.bytes[d], row.bytes[d])
  <2> DEFINE g == row.gen
             acc == row.bytes
  <2>1. \A x \in Conn, d \in Dir :
          /\ x # c => Accounted(WriteOpen(work, c, g, live[c], acc, day), x, d)
                        = Accounted(work, x, d)
          /\ x = c => Moves(work, WriteOpen(work, c, g, live[c], acc, day), x, d,
                            work.rows[e].bytes[d], acc[d])
    <3>1. g \in Nat /\ acc \in Counters /\ e \in OpenGen(work, c, g)
      BY <1>4
    <3> HIDE DEF g, acc
    <3>2. QED
      BY <1>2, <3>1, WriteOpenExistingSums
  <2>2. QED
    BY <2>1
<1>7. DBType(db)
  BY <1>1 DEF Account, IndInv, DBInv
<1>8. b.raw = live[c]
  OBVIOUS
<1> HIDE DEF db, b
<1>9. ASSUME NEW x \in Conn, NEW d \in Dir
      PROVE  Accounted(db, x, d) = Accounted(work, x, d)
  <2>1. Accounted(db, x, d) \in Nat /\ Accounted(work, x, d) \in Nat
    BY <1>2, <1>7, AccountedNat
  <2>2. row.bytes[d] \in Nat
    BY <1>4 DEF Counters
  <2> HIDE DEF row
  <2>3. QED
    BY <1>6, <2>1, <2>2 DEF Moves
<1>10. SameSums(work, db)
  BY <1>9 DEF SameSums
<1>11. QED
  BY <1>1, <1>5, <1>8, <1>10, AccountSameCovers

LEMMA PollUnknownCovers ==
  ASSUME IndInv, IndInv', SentInv, NEW c \in todo, PollUnknown(c)
  PROVE  SentInv'
<1> DEFINE g == NextGen(work, c)
           b == [gen |-> g, raw |-> live[c], acc |-> Zero]
           db == WriteOpen(work, c, g, live[c], Zero, day)
<1>1. /\ phase = "live" /\ RowsOf(work, c) \cap OpenRows(work) = {}
      /\ Account(c, db)
  BY DEF PollUnknown
<1>2. DBInv(work) /\ DBType(work) /\ c \in Conn /\ live[c] \in Counters /\ day \in Nat
  BY <1>1, LiveStart DEF DBInv
<1>3. g \in Nat /\ g <= work.eid /\ \A f \in RowsOf(work, c) : work.rows[f].gen < g
  BY <1>2, NextGenIsNew
<1>4. Zero \in Counters
  BY DEF Zero, Counters
<1> HIDE DEF g
<1>5. \A f \in RowsOf(work, c) : work.rows[f].gen # g
  <2>1. \A f \in RowsOf(work, c) : work.rows[f].gen \in Nat
    BY <1>2 DEF DBType, RowsOf, Row
  <2>2. QED
    BY <1>3, <2>1
<1>6. db.base = Put(work.base, c, b)
  BY <1>1, <1>2, <1>3, <1>4, WriteOpenNew
<1>7. SameSums(work, db)
  BY <1>2, <1>3, <1>5, WriteOpenNewSums
<1>8. b.raw = live[c]
  OBVIOUS
<1> HIDE DEF db, b
<1>9. QED
  BY <1>1, <1>6, <1>7, <1>8, AccountSameCovers

LEMMA PollGoneCovers ==
  ASSUME IndInv, IndInv', SentInv, NEW c \in todo, PollGone(c)
  PROVE  SentInv'
<1>1. /\ phase' = "tracked" /\ work' = CloseTracked(work, cache, c, day)
      /\ UNCHANGED <<committed, clash, sent>>
  BY DEF PollGone, env
<1>2. DBInv(work) /\ DBType(work) /\ c \in Conn /\ day \in Nat /\ Untouched(c)
  BY DEF PollGone, IndInv, TypeOK, PhaseInv, DBInv
<1>3. work'.base = Drop(work.base, {c}) /\ SameSums(work, work')
  <2>1. CASE c \in DOMAIN work.base
    <3>1. /\ HasPrev(work, c) /\ work.base[c] \in Baseline
          /\ OpenGen(work, c, work.base[c].gen) # {}
      BY <1>2, <2>1, BasedHasPrev
    <3>2. work' = CloseGeneration(work, c, work.base[c], day)
      BY <1>1, <3>1 DEF CloseTracked
    <3>3. work'.base = Drop(work.base, {c})
      BY <1>2, <3>1, <3>2, CloseGenerationSound
    <3>4. QED
      BY <1>2, <2>1, <3>2, <3>3, CloseGenerationSums
  <2>2. CASE c \notin DOMAIN work.base
    <3> DEFINE base == Drop(work.base, {c})
    <3>1. c \notin DOMAIN cache /\ ~ HasPrev(work, c)
      BY <1>2, <2>2 DEF Untouched, HasPrev
    <3>2. work' = [work EXCEPT !.base = base]
      BY <1>1, <1>2, <3>1 DEF CloseTracked, DBType
    <3> HIDE DEF base
    <3>3. work'.base = base /\ work'.rows = work.rows
      BY <1>2, <3>2 DEF DBType
    <3>4. QED
      BY <3>3, SameRowsSums DEF base
  <2>3. QED
    BY <2>1, <2>2
<1>4. /\ DOMAIN work'.base \subseteq DOMAIN work.base
      /\ \A x \in DOMAIN work'.base : work'.base[x] = work.base[x]
  BY <1>3 DEF Drop, Restrict
<1>5. QED
  BY <1>1, <1>3, <1>4, SameCovers

LEMMA CloseStaleCovers ==
  ASSUME IndInv, IndInv', SentInv, NEW e \in todo, CloseStale(e)
  PROVE  SentInv'
<1>1. /\ phase = "stale" /\ phase' = "stale" /\ UNCHANGED <<committed, clash, sent>>
      /\ work' = AssignSeq(Update(work, e, work.rows[e].bytes, TRUE, day), e)
  BY DEF CloseStale, env
<1>2. DBInv(work) /\ day \in Nat /\ e \in OpenRows(work)
  BY <1>1 DEF IndInv, TypeOK, PhaseInv, OpenRows
<1>3. work.rows[e].cid \notin DOMAIN work.base
  BY <1>1 DEF IndInv, PhaseInv
<1>4. work'.base = work.base
  BY <1>1, <1>2, <1>3, CloseStaleSound
<1>5. SameSums(work, work')
  BY <1>1, <1>2, CloseRowSums
<1>6. QED
  BY <1>1, <1>4, <1>5, SameCovers

LEMMA MigrateRowCovers ==
  ASSUME IndInv, IndInv', SentInv, NEW e \in todo, MigrateRow(e)
  PROVE  SentInv'
<1>1. /\ e \in Unassigned(work) /\ work' = AssignSeq(work, e)
      /\ phase' = "migrate" /\ UNCHANGED <<committed, clash, sent>>
  BY DEF IndInv, PhaseInv, MigrateRow, env
<1>2. DBInv(work) /\ DBType(work)
  BY DEF IndInv, DBInv
<1>3. work'.base = work.base
  BY <1>1, <1>2, MigrateRowSound
<1>4. SameSums(work, work')
  BY <1>1, <1>2, AssignSeqSums
<1>5. QED
  BY <1>1, <1>3, <1>4, SameCovers

LEMMA PruneRowCovers ==
  ASSUME IndInv, IndInv', SentInv, NEW e \in todo, PruneRow(e)
  PROVE  SentInv'
<1>1. /\ work' = Pruned(work, e) /\ phase' = "retain" /\ UNCHANGED <<committed, clash, sent>>
      /\ e \in DOMAIN work.rows /\ work.rows[e].closed
  BY DEF IndInv, TypeOK, PhaseInv, PruneRow, Pruned, env
<1>2. DBInv(work)
  BY DEF IndInv
<1>3. work'.base = work.base
  BY <1>1, <1>2, PruneRowSound
<1>4. \A x \in Conn, d \in Dir : Accounted(work', x, d) <= Accounted(work, x, d)
  BY <1>1, <1>2, PrunedSums
<1>5. QED
  BY <1>1, <1>3, <1>4, LowerCovers

(* Between two requests the snapshot is what Clash counts.                 *)
LEMMA BeginPollCovers ==
  ASSUME IndInv, SentInv, BeginPoll
  PROVE  SentInv'
<1>1. /\ UNCHANGED <<committed, work, clash, sent>>
      /\ todo' = {c \in Conn : clash[c].on}
      /\ live' = [c \in {x \in Conn : clash[x].on} |-> clash[c].count]
  BY DEF BeginPoll, env
<1>2. ASSUME NEW c \in todo', NEW d \in Dir
      PROVE  /\ Accounted(work, c, d) + clash[c].count[d] - live'[c][d] <= sent[c][d]
             /\ c \in DOMAIN work.base =>
                  Accounted(work, c, d) + live'[c][d] - work.base[c].raw[d] <= sent[c][d]
  <2>1. c \in Conn /\ live'[c] = clash[c].count
    BY <1>1
  <2>2. /\ sent[c][d] \in Nat /\ clash[c].count[d] \in Nat
        /\ Accounted(work, c, d) \in Nat
    BY <2>1, SentFacts
  <2>3. /\ Accounted(work, c, d) <= sent[c][d]
        /\ c \in DOMAIN work.base =>
             Accounted(work, c, d) + clash[c].count[d] - work.base[c].raw[d] <= sent[c][d]
    BY <2>1 DEF SentInv, Covered
  <2>4. QED
    BY <2>1, <2>2, <2>3
<1>3. Pending'
  BY <1>1, <1>2 DEF Pending
<1>4. Covered(committed)' /\ Covered(work)'
  BY <1>1 DEF SentInv, Covered
<1>5. QED
  BY <1>3, <1>4 DEF SentInv

(* A counter that starts over only lowers what is still to come; a byte    *)
(* counted is a byte carried.                                              *)
LEMMA EnvironmentCovers ==
  ASSUME IndInv, SentInv, Environment
  PROVE  SentInv'
<1>1. UNCHANGED <<committed, work, phase, live, todo>>
  BY DEF Environment, ClashOpens, ClashForgets, ClashCounts, NextDay, txn
<1> DEFINE Moved(c, d) ==
             \/ sent'[c][d] = sent[c][d] /\ clash'[c].count[d] = clash[c].count[d]
             \/ sent'[c][d] = sent[c][d] /\ clash'[c].count[d] = 0
             \/ /\ sent'[c][d] = sent[c][d] + 1
                /\ clash'[c].count[d] = clash[c].count[d] + 1
<1>2. \A c \in Conn, d \in Dir : Moved(c, d)
  <2>1. /\ sent \in [Conn -> [Dir -> Nat]]
        /\ clash \in [Conn -> [on : BOOLEAN, count : [Dir -> Nat], starts : Nat]]
    BY DEF IndInv, TypeOK, Counters
  <2>2. ASSUME NEW x \in Conn, ClashOpens(x) \/ ClashForgets(x), NEW c \in Conn, NEW d \in Dir
        PROVE  Moved(c, d)
    <3>1. sent' = sent
      BY <2>2 DEF ClashOpens, ClashForgets
    <3>2. PICK on \in BOOLEAN, n \in Nat :
            clash' = [clash EXCEPT ![x] = [on |-> on, count |-> Zero, starts |-> n]]
      <4>1. clash[x].starts \in Nat /\ clash[x].starts + 1 \in Nat
        BY <2>1
      <4>2. CASE ClashOpens(x)
        BY <4>1, <4>2 DEF ClashOpens
      <4>3. CASE ClashForgets(x)
        BY <4>1, <4>3 DEF ClashForgets
      <4>4. QED
        BY <2>2, <4>2, <4>3
    <3>3. CASE c = x
      <4>1. clash'[c].count = Zero
        BY <2>1, <3>2, <3>3
      <4>2. QED
        BY <3>1, <4>1 DEF Zero
    <3>4. CASE c # x
      BY <2>1, <3>1, <3>2, <3>4
    <3>5. QED
      BY <3>3, <3>4
  <2>3. ASSUME NEW x \in Conn, NEW k \in Dir, ClashCounts(x, k),
               NEW c \in Conn, NEW d \in Dir
        PROVE  Moved(c, d)
    <3>1. /\ clash' = [clash EXCEPT ![x].count[k] = @ + 1]
          /\ sent' = [sent EXCEPT ![x][k] = @ + 1]
      BY <2>3 DEF ClashCounts
    <3>2. sent'[c][d] = IF c = x /\ d = k THEN sent[c][d] + 1 ELSE sent[c][d]
      BY <2>1, <3>1
    <3>3. clash'[c].count[d]
            = IF c = x /\ d = k THEN clash[c].count[d] + 1 ELSE clash[c].count[d]
      BY <2>1, <3>1
    <3>4. QED
      BY <3>2, <3>3
  <2>4. CASE NextDay
    BY <2>4 DEF NextDay
  <2> HIDE DEF Moved
  <2>5. QED
    BY <2>2, <2>3, <2>4 DEF Environment
<1>3. ASSUME NEW db \in {committed, work}, Covered(db), NEW c \in Conn, NEW d \in Dir
      PROVE  /\ Accounted(db, c, d) <= sent'[c][d]
             /\ c \in DOMAIN db.base =>
                  Accounted(db, c, d) + clash'[c].count[d] - db.base[c].raw[d]
                    <= sent'[c][d]
  <2>1. /\ sent[c][d] \in Nat /\ clash[c].count[d] \in Nat
        /\ Accounted(db, c, d) \in Nat
        /\ c \in DOMAIN db.base => db.base[c].raw[d] \in Nat
    BY SentFacts
  <2>2. /\ Accounted(db, c, d) <= sent[c][d]
        /\ c \in DOMAIN db.base =>
             Accounted(db, c, d) + clash[c].count[d] - db.base[c].raw[d] <= sent[c][d]
    BY <1>3 DEF Covered
  <2>3. QED
    BY <1>2, <2>1, <2>2
<1>4. Covered(committed)'
  BY <1>1, <1>3 DEF SentInv, Covered
<1>5. Covered(work)'
  BY <1>1, <1>3 DEF SentInv, Covered
<1>6. Pending'
  <2> SUFFICES ASSUME phase = "live", NEW c \in todo, NEW d \in Dir
               PROVE  /\ Accounted(work, c, d) + clash'[c].count[d] - live[c][d]
                           <= sent'[c][d]
                      /\ c \in DOMAIN work.base =>
                           Accounted(work, c, d) + live[c][d] - work.base[c].raw[d]
                             <= sent'[c][d]
    BY <1>1 DEF Pending
  <2>1. c \in Conn
    BY DEF IndInv, TypeOK
  <2>2. /\ sent[c][d] \in Nat /\ clash[c].count[d] \in Nat /\ live[c][d] \in Nat
        /\ Accounted(work, c, d) \in Nat
        /\ c \in DOMAIN work.base => work.base[c].raw[d] \in Nat
    BY <2>1, SentFacts
  <2>3. /\ Accounted(work, c, d) <= sent[c][d]
        /\ Accounted(work, c, d) + clash[c].count[d] - live[c][d] <= sent[c][d]
        /\ c \in DOMAIN work.base =>
             Accounted(work, c, d) + live[c][d] - work.base[c].raw[d] <= sent[c][d]
    BY <2>1 DEF SentInv, Covered, Pending
  <2>4. QED
    BY <1>2, <2>1, <2>2, <2>3
<1>7. QED
  BY <1>4, <1>5, <1>6 DEF SentInv

-----------------------------------------------------------------------------
(***************************************************************************)
(* The invariant, and accounting never in excess.                          *)
(***************************************************************************)
(* The account of a connection with at most one row is what is on it.      *)
LEMMA AccountedSingle ==
  ASSUME NEW db, DBType(db), NEW c, NEW d \in Dir, NEW e, RowsOf(db, c) \subseteq {e}
  PROVE  Accounted(db, c, d) = Share(db, c, e, d)
<1>1. PICK g : /\ IsSum(Weights(db, d), RowsOf(db, c), g)
               /\ Accounted(db, c, d) = g[RowsOf(db, c)]
  BY AccountedIsSum
<1>2. CASE RowsOf(db, c) = {}
  BY <1>1, <1>2 DEF IsSum, Share
<1>3. CASE RowsOf(db, c) = {e}
  <2>1. Weights(db, d)[e] = Share(db, c, e, d) /\ Share(db, c, e, d) \in Nat
    BY <1>3, RowsFinite DEF Weights, Share
  <2>2. g[{e}] = Weights(db, d)[e] + g[{}]
    <3>1. {e} \in SUBSET {e} /\ e \in {e} /\ {e} \ {e} = {}
      OBVIOUS
    <3>2. QED
      BY <1>1, <1>3, <3>1 DEF IsSum
  <2>3. g[{}] = 0
    BY <1>1 DEF IsSum
  <2>4. QED
    BY <1>1, <1>3, <2>1, <2>2, <2>3
<1>4. QED
  BY <1>2, <1>3

(* A database an older version left has what the daemon of that time knew. *)
LEMMA LegacyCovered ==
  ASSUME NEW n \in Nat \ {0}, NEW owner \in Injection(1 .. n, Conn),
         NEW bytes \in Counters, NEW shut \in SUBSET Range(owner),
         NEW tracked \in SUBSET (Range(owner) \ shut),
         sent = [c \in Conn |-> IF c \in Range(owner) THEN bytes ELSE Zero],
         clash \in [Conn -> {[on |-> FALSE, count |-> Zero, starts |-> 0]}
                           \cup {[on |-> TRUE, count |-> bytes, starts |-> 0]}]
  PROVE  Covered(LegacyDB(owner, shut, tracked, bytes))
<1> DEFINE rows == [e \in DOMAIN owner |->
                     [cid |-> owner[e], gen |-> 0, closed |-> owner[e] \in shut,
                      bytes |-> bytes, seq |-> 0, seen |-> 0]]
           base == [c \in tracked |-> [gen |-> 0, raw |-> bytes, acc |-> bytes]]
           db == LegacyDB(owner, shut, tracked, bytes)
<1>1. /\ owner \in [1 .. n -> Conn]
      /\ \A e, f \in 1 .. n : owner[e] = owner[f] => e = f
      /\ \A c \in Range(owner) : \E e \in 1 .. n : owner[e] = c
      /\ \A e \in 1 .. n : owner[e] \in Range(owner)
  BY DEF Injection, IsInjective, Range
<1>2. DBType(db)
  BY LegacyDBSound DEF DBInv
<1>3. db.rows = rows /\ db.base = base
  BY DEF LegacyDB
<1>4. /\ DOMAIN rows = 1 .. n
      /\ \A e \in 1 .. n : rows[e].cid = owner[e] /\ rows[e].bytes = bytes
      /\ DOMAIN base = tracked
      /\ \A c \in tracked : base[c].raw = bytes
  BY <1>1
<1> HIDE DEF rows, base, db
<1>5. ASSUME NEW c \in Conn, NEW d \in Dir
      PROVE  /\ Accounted(db, c, d) <= sent[c][d]
             /\ c \in DOMAIN db.base =>
                  Accounted(db, c, d) + clash[c].count[d] - db.base[c].raw[d] <= sent[c][d]
  <2>1. bytes[d] \in Nat
    BY DEF Counters
  <2>2. CASE c \in Range(owner)
    <3>1. PICK e \in 1 .. n : owner[e] = c
      BY <1>1, <2>2
    <3>2. RowsOf(db, c) = {e}
      BY <1>1, <1>3, <1>4, <3>1 DEF RowsOf
    <3>3. Accounted(db, c, d) = Share(db, c, e, d)
      BY <1>2, <3>2, AccountedSingle
    <3>4. Share(db, c, e, d) = bytes[d]
      BY <1>3, <1>4, <3>2 DEF Share
    <3>5. sent[c][d] = bytes[d]
      BY <2>2
    <3>6. clash[c].count[d] \in {0, bytes[d]}
      <4>1. clash[c] = [on |-> FALSE, count |-> Zero, starts |-> 0]
            \/ clash[c] = [on |-> TRUE, count |-> bytes, starts |-> 0]
        OBVIOUS
      <4>2. clash[c].count = Zero \/ clash[c].count = bytes
        BY <4>1
      <4>3. QED
        BY <4>2 DEF Zero
    <3>7. c \in DOMAIN db.base => db.base[c].raw[d] = bytes[d]
      BY <1>3, <1>4
    <3>8. QED
      BY <2>1, <3>3, <3>4, <3>5, <3>6, <3>7
  <2>3. CASE c \notin Range(owner)
    <3>1. RowsOf(db, c) \subseteq {0} /\ 0 \notin RowsOf(db, c)
      BY <1>1, <1>3, <1>4, <2>3 DEF RowsOf
    <3>2. Accounted(db, c, d) = 0
      BY <1>2, <3>1, AccountedSingle DEF Share
    <3>3. sent[c][d] = 0
      BY <2>3 DEF Zero
    <3>4. c \notin DOMAIN db.base
      BY <1>3, <1>4, <2>3
    <3>5. QED
      BY <3>2, <3>3, <3>4
  <2>4. QED
    BY <2>2, <2>3
<1>6. QED
  BY <1>5 DEF Covered, db

LEMMA SentInit == Init => SentInv
<1> SUFFICES ASSUME Init PROVE SentInv
  OBVIOUS
<1>1. work = committed /\ phase = "down"
  BY DEF Init
<1>2. Covered(committed)
  <2>1. CASE committed = NewDB /\ sent = [c \in Conn |-> Zero]
    <3>1. DBType(NewDB)
      BY NewDBSound DEF DBInv
    <3>2. DOMAIN NewDB.rows = {} /\ DOMAIN NewDB.base = {}
      BY DEF NewDB, Empty
    <3>3. ASSUME NEW c \in Conn, NEW d \in Dir
          PROVE  Accounted(NewDB, c, d) <= sent[c][d]
      <4>1. RowsOf(NewDB, c) \subseteq {0} /\ 0 \notin RowsOf(NewDB, c)
        BY <3>2 DEF RowsOf
      <4>2. Accounted(NewDB, c, d) = 0
        BY <3>1, <4>1, AccountedSingle DEF Share
      <4>3. QED
        BY <2>1, <4>2 DEF Zero
    <3>4. QED
      BY <2>1, <3>2, <3>3 DEF Covered
  <2>2. CASE \E n \in 1 .. Cardinality(Conn) : Legacy(n)
    <3>1. PICK n \in 1 .. Cardinality(Conn) : Legacy(n)
      BY <2>2
    <3>2. n \in Nat \ {0}
      BY ConstantsAssumption, FS_CardinalityType
    <3>3. PICK owner \in Injection(1 .. n, Conn), bytes \in [Dir -> 0 .. MaxTraffic] :
            \E shut \in SUBSET Range(owner) :
              \E tracked \in SUBSET (Range(owner) \ shut) :
                /\ committed = LegacyDB(owner, shut, tracked, bytes)
                /\ sent = [c \in Conn |-> IF c \in Range(owner) THEN bytes ELSE Zero]
                /\ clash \in [Conn -> {[on |-> FALSE, count |-> Zero, starts |-> 0]}
                                     \cup {[on |-> TRUE, count |-> bytes, starts |-> 0]}]
      BY <3>1 DEF Legacy
    <3>4. bytes \in Counters
      BY ConstantsAssumption, <3>3 DEF Counters
    <3>5. QED
      BY <3>2, <3>3, <3>4, LegacyCovered
  <2>3. QED
    BY <2>1, <2>2 DEF Init
<1>3. QED
  BY <1>1, <1>2 DEF SentInv, Pending

LEMMA SentStep == IndInv /\ IndInv' /\ SentInv /\ [Next]_vars => SentInv'
<1> SUFFICES ASSUME IndInv, IndInv', SentInv, [Next]_vars PROVE SentInv'
  OBVIOUS
<1>1. ASSUME UNCHANGED <<committed, work, clash, sent>>, phase' # "live"
      PROVE  SentInv'
  BY <1>1 DEF SentInv, Covered, Pending
<1>2. ASSUME UNCHANGED <<clash, sent>>, phase' # "live", committed' = work', work' \in {committed, work}
      PROVE  SentInv'
  <2>1. Covered(work)'
    BY <1>2 DEF SentInv, Covered
  <2>2. Covered(committed)'
    BY <1>2, <2>1 DEF Covered
  <2>3. QED
    BY <1>2, <2>1, <2>2 DEF SentInv, Pending
<1>3. CASE UNCHANGED vars
  BY <1>3 DEF vars, txn, env, SentInv, Covered, Pending
<1>4. CASE Environment
  BY <1>4, EnvironmentCovers
<1>5. CASE Start \/ EndLive \/ BeginRetention
  BY <1>1, <1>5 DEF Start, EndLive, BeginRetention, env
<1>6. CASE \E c \in todo : PollInvalid(c)
  <2>1. /\ UNCHANGED <<committed, work, live, clash, sent, phase>>
        /\ todo' \subseteq todo
    BY <1>6 DEF PollInvalid, env
  <2>2. QED
    BY <2>1 DEF SentInv, Covered, Pending
<1>7. CASE BeginPoll
  BY <1>7, BeginPollCovers
<1>8. CASE \E c \in todo : PollDelta(c) \/ PollReset(c) \/ PollUntracked(c) \/ PollUnknown(c)
  BY <1>8, PollDeltaCovers, PollResetCovers, PollUntrackedCovers, PollUnknownCovers
<1>9. CASE \E c \in todo : PollGone(c) \/ CloseStale(c) \/ MigrateRow(c) \/ PruneRow(c)
  BY <1>9, PollGoneCovers, CloseStaleCovers, MigrateRowCovers, PruneRowCovers
<1>10. CASE EndTracked \/ EndStale
  <2>1. /\ work' = PruneBaselines(work) /\ UNCHANGED <<committed, clash, sent>>
        /\ phase' # "live"
    BY <1>10 DEF EndTracked, EndStale, env
  <2>2. work' = work
    BY <2>1, KnownOpenIsBase DEF IndInv
  <2>3. QED
    BY <1>1, <2>1, <2>2
<1>11. CASE CommitPoll \/ CommitRetention \/ CommitFails \/ TickFails \/ Crash
  BY <1>2, <1>11 DEF CommitPoll, CommitRetention, CommitFails, TickFails, Crash, env
<1>12. CASE FinishMigration
  <2>1. /\ work' = [work EXCEPT !.schema = 4] /\ committed' = work'
        /\ phase' # "live" /\ UNCHANGED <<clash, sent>>
    BY <1>12 DEF FinishMigration, env
  <2>2. DBType(work)
    BY DEF IndInv, TypeOK
  <2>3. work'.rows = work.rows /\ work'.base = work.base
    BY <2>1, <2>2 DEF DBType
  <2>4. \A db : Covered(work) /\ db.rows = work.rows /\ db.base = work.base => Covered(db)
    BY CoveredSame
  <2>5. \A c \in Conn, d \in Dir :
          /\ Accounted(work', c, d) <= sent[c][d]
          /\ c \in DOMAIN work'.base =>
               Accounted(work', c, d) + clash[c].count[d] - work'.base[c].raw[d] <= sent[c][d]
    BY <2>3, <2>4 DEF SentInv, Covered
  <2>6. Covered(work)' /\ Covered(committed)'
    BY <2>1, <2>5 DEF Covered
  <2>7. QED
    BY <2>1, <2>6 DEF SentInv, Pending
<1>13. QED
  BY <1>3, <1>4, <1>5, <1>6, <1>7, <1>8, <1>9, <1>10, <1>11, <1>12
     DEF Next, Daemon, Poll, Retention

(* Accounting is never in excess: however often counters start over, polls *)
(* fail, the process dies or retention deletes, and also for a database    *)
(* an older version left, no more bytes are on record of a connection than *)
(* it carried.                                                             *)
THEOREM NoOvercountHolds == Spec => []NoOvercount
<1>1. SentInv => NoOvercount
  BY DEF SentInv, Covered, NoOvercount
<1>2. QED
  BY <1>1, SentInit, SentStep, Soundness, PTL DEF Spec

=============================================================================
