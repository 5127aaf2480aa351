--------------------------- MODULE FleetSyncProofs ---------------------------
(***************************************************************************)
(* Proofs about FleetSync, for any hosts and any number of events: every   *)
(* host's log is as AuditLog promises and the history of instances is      *)
(* sound, and as long as no older backup is used, the fleet's copy of the  *)
(* audit log has no holes, imported events stay what they are, and         *)
(* retiring or moving the node loses nothing.                              *)
(*                                                                         *)
(* Why no hole: the host that serves the node, the backup a move restores  *)
(* and the new host until the registry names it are all fit to serve the   *)
(* node (Serves): they have reached the cursor, what they still have up to *)
(* it was imported, and the event ids they have yet to use are new to the  *)
(* fleet.  A host remains fit whatever it closes or deletes, and an answer *)
(* that was read statement by statement has every number between the       *)
(* cursor and its last one that the host still has (AnswerSound).          *)
(***************************************************************************)
EXTENDS FleetSync, FiniteSetTheorems, WellFoundedInduction, TLAPS

(* Max of a nonempty set of naturals with an upper bound b is in it and    *)
(* bounds it: the intervals x..b are finite, and strict inclusion is well  *)
(* founded on finite sets.                                                 *)
LEMMA MaxOfNaturals ==
  ASSUME NEW T, T \subseteq Nat, T # {},
         NEW b \in Nat, \A y \in T : y <= b
  PROVE  Max(T) \in T /\ \A y \in T : y <= Max(T)
<1> DEFINE U == {x .. b : x \in T}
<1>1. U \subseteq FiniteSubsetsOf(Nat)
  <2>1. \A x \in T : x .. b \subseteq Nat /\ IsFiniteSet(x .. b)
    BY FS_Interval
  <2>2. QED
    BY <2>1 DEF FiniteSubsetsOf
<1>2. PICK X \in U : \A Y \in U : ~ (<<Y, X>> \in StrictSubsetOrdering(Nat))
  <2>1. IsWellFoundedOn(StrictSubsetOrdering(Nat), FiniteSubsetsOf(Nat))
    BY FS_StrictSubsetOrderingWellFounded
  <2>2. U # {}
    OBVIOUS
  <2> HIDE DEF U
  <2>3. QED
    BY <1>1, <2>1, <2>2, WFMin
<1>3. PICK x \in T : X = x .. b
  OBVIOUS
<1>4. ASSUME NEW y \in T, x < y
      PROVE  FALSE
  <2>1. y .. b \in U
    OBVIOUS
  <2>2. y .. b \subseteq x .. b /\ y .. b # x .. b
    BY <1>4, x \in x .. b, x \notin y .. b
  <2>3. y .. b \in SUBSET Nat /\ x .. b \in SUBSET Nat
    OBVIOUS
  <2>4. <<y .. b, x .. b>> \in StrictSubsetOrdering(Nat)
    BY <2>2, <2>3 DEF StrictSubsetOrdering
  <2>5. QED
    BY <2>1, <2>4, <1>2, <1>3
<1>5. \E m \in T : \A y \in T : m >= y
  BY <1>4
<1>6. QED
  BY <1>5 DEF Max

(* Host record n has event s of its log in the events ev of fleet.db.      *)
ImportedAs(n, ev, s) ==
  /\ n.log[s].id \in DOMAIN ev
  /\ ev[n.log[s].id] = [seq |-> s, origin |-> n.log[s].origin]

(* Numbers up to the counter, event ids used once.                         *)
HostSound(n) ==
  /\ n = [up |-> n.up, log |-> n.log, high |-> n.high, pruned |-> n.pruned,
          free |-> n.free]
  /\ n.high \in Nat
  /\ DOMAIN n.log \subseteq 1 .. n.high
  /\ n.free \subseteq EventId
  /\ \A s \in DOMAIN n.log : n.log[s] \in Event /\ n.log[s].id \notin n.free
  /\ \A s, t \in DOMAIN n.log : n.log[s].id = n.log[t].id => s = t

(* Host record n may serve the node whose copy has events ev up to cur.    *)
Serves(n, ev, cur) ==
  /\ n.up = TRUE
  /\ HostSound(n)
  /\ cur <= n.high
  /\ \A id \in DOMAIN ev : id \notin n.free
  /\ \A s \in DOMAIN n.log : s <= cur => ImportedAs(n, ev, s)
  /\ \A s \in DOMAIN n.log :
       n.log[s].id \in DOMAIN ev => ev[n.log[s].id].origin = n.log[s].origin

(* Rows that were read from n after number a, by a command that began when *)
(* the last number was o.                                                  *)
AnswerSound(n, ev, rows, a, o) ==
  /\ rows = [s \in DOMAIN rows |-> rows[s]]
  /\ DOMAIN rows \subseteq (a + 1) .. n.high
  /\ \A s \in DOMAIN rows : rows[s] \in Event /\ rows[s].id \notin n.free
  /\ \A s, t \in DOMAIN rows : rows[s].id = rows[t].id => s = t
  /\ \A s \in DOMAIN rows :
       rows[s].id \in DOMAIN ev => ev[rows[s].id].origin = rows[s].origin
  /\ \A s \in DOMAIN rows, t \in DOMAIN n.log : rows[s].id = n.log[t].id => s = t
  /\ \A s \in DOMAIN rows \cap DOMAIN n.log : rows[s] = n.log[s]
  /\ \A s \in DOMAIN n.log \ DOMAIN rows :
       s > a => s > o /\ \A t \in DOMAIN rows : t < s

(* What n still has of the numbers up to o was imported.                   *)
Settled(n, ev, o) == \A s \in DOMAIN n.log : s <= o => ImportedAs(n, ev, s)

(* fleet.db is a record of these fields ...                                *)
DbShape(d) ==
  /\ d = [events |-> d.events, cursor |-> d.cursor, past |-> d.past]
  /\ d.cursor = [seq |-> d.cursor.seq, inst |-> d.cursor.inst,
                 kind |-> d.cursor.kind, status |-> d.cursor.status]

(* ... of these values, and so is an answer.                               *)
CopyType(d) ==
  /\ DbShape(d)
  /\ d.cursor.seq \in Nat
  /\ DOMAIN d.events \subseteq EventId

AnswerType(a) == a = [max |-> a.max, rows |-> a.rows]

Reading   == {"identity", "record", "max", "pruned", "rows"}
Restored  == {"verify", "insert", "cursor", "save"}
FinalDone == {"retire", "backup", "restore"} \cup Restored

(* The strengthening of NothingSkipped, EventsKept and HandsOver.          *)
CopyInv ==
  /\ node = [h \in Host |-> node[h]]
  /\ reg \in Host
  /\ CopyType(db) /\ AnswerType(answer)
  /\ Serves(node[reg], db.events, db.cursor.seq)
  /\ pc \in Reading \cup {"idle", "import"} \cup FinalDone
  /\ pc # "idle" => owed \in Nat /\ owed <= node[reg].high
  /\ pc \in Reading \cup {"import"} => after = db.cursor.seq
  /\ pc = "import" => AnswerSound(node[reg], db.events, answer.rows, after, owed)
  /\ pc \in FinalDone => Settled(node[reg], db.events, owed)
  /\ pc = "restore" => Serves(image, db.events, db.cursor.seq)
  /\ pc \in Restored => target \in Host /\ Serves(node[target], db.events, db.cursor.seq)

-----------------------------------------------------------------------------
(***************************************************************************)
(* What a host does to its log.                                            *)
(***************************************************************************)

(* m is n after it closed or deleted some events.                          *)
Went(n, m) ==
  /\ HostSound(m) /\ m.up = n.up /\ m.high >= n.high /\ m.free \subseteq n.free
  /\ \A s \in DOMAIN m.log :
       \/ s \in DOMAIN n.log /\ m.log[s] = n.log[s]
       \/ s > n.high /\ m.log[s].id \in n.free

(* A host that may serve the node still may.                               *)
LEMMA WentServes ==
  ASSUME NEW n, NEW m, NEW ev, NEW cur \in Nat, Serves(n, ev, cur), Went(n, m)
  PROVE  Serves(m, ev, cur)
<1>1. n.high \in Nat /\ m.high \in Nat /\ cur <= n.high /\ m.high >= n.high
      /\ DOMAIN m.log \subseteq Nat
  BY DEF Serves, HostSound, Went
<1>2. m.up = TRUE /\ HostSound(m) /\ cur <= m.high
  BY <1>1 DEF Serves, Went
<1>3. \A id \in DOMAIN ev : id \notin n.free
  BY DEF Serves
<1>4. \A id \in DOMAIN ev : id \notin m.free
  BY <1>3 DEF Went
<1>5. ASSUME NEW s \in DOMAIN m.log, s <= cur
      PROVE  ImportedAs(m, ev, s)
  <2>1. s \in DOMAIN n.log /\ m.log[s] = n.log[s]
    BY <1>1, <1>5 DEF Went
  <2>2. QED
    BY <1>5, <2>1 DEF Serves, ImportedAs
<1>6. ASSUME NEW s \in DOMAIN m.log, m.log[s].id \in DOMAIN ev
      PROVE  ev[m.log[s].id].origin = m.log[s].origin
  <2>1. s \in DOMAIN n.log /\ m.log[s] = n.log[s]
    BY <1>3, <1>6 DEF Went
  <2>2. QED
    BY <1>6, <2>1 DEF Serves
<1>7. QED
  BY <1>2, <1>4, <1>5, <1>6 DEF Serves

(* What it had up to a number stays imported.                              *)
LEMMA WentSettled ==
  ASSUME NEW n, NEW m, NEW ev, NEW o \in Nat, HostSound(n), o <= n.high,
         Settled(n, ev, o), Went(n, m)
  PROVE  Settled(m, ev, o)
<1> SUFFICES ASSUME NEW s \in DOMAIN m.log, s <= o
             PROVE  ImportedAs(m, ev, s)
  BY DEF Settled
<1>1. n.high \in Nat /\ s \in Nat
  BY DEF HostSound, Went
<1>2. s \in DOMAIN n.log /\ m.log[s] = n.log[s]
  BY <1>1 DEF Went
<1>3. QED
  BY <1>2 DEF Settled, ImportedAs

(* An answer that was read before is as good as before.                    *)
LEMMA WentAnswer ==
  ASSUME NEW n, NEW m, NEW ev, NEW rows, NEW a \in Nat, NEW o \in Nat,
         HostSound(n), o <= n.high, Went(n, m), AnswerSound(n, ev, rows, a, o)
  PROVE  AnswerSound(m, ev, rows, a, o)
<1>1. n.high \in Nat /\ m.high \in Nat /\ n.high <= m.high /\ DOMAIN m.log \subseteq Nat
      /\ m.free \subseteq n.free
  BY DEF HostSound, Went
<1>2. \A s \in DOMAIN rows : s \in (a + 1) .. n.high /\ s <= n.high /\ s \in Nat
  BY <1>1 DEF AnswerSound
<1>3. DOMAIN rows \subseteq (a + 1) .. m.high
  BY <1>1, <1>2
<1>4. \A s \in DOMAIN rows : rows[s] \in Event /\ rows[s].id \notin m.free
  BY <1>1 DEF AnswerSound
<1>5. ASSUME NEW s \in DOMAIN rows, NEW t \in DOMAIN m.log, rows[s].id = m.log[t].id
      PROVE  s = t
  <2>1. rows[s].id \notin n.free
    BY DEF AnswerSound
  <2>2. t \in DOMAIN n.log /\ m.log[t] = n.log[t]
    BY <1>5, <2>1 DEF Went
  <2>3. QED
    BY <1>5, <2>2 DEF AnswerSound
<1>6. ASSUME NEW s \in DOMAIN rows \cap DOMAIN m.log
      PROVE  rows[s] = m.log[s]
  <2>1. s \in DOMAIN n.log /\ m.log[s] = n.log[s]
    BY <1>1, <1>2 DEF Went
  <2>2. QED
    BY <2>1 DEF AnswerSound
<1>7. ASSUME NEW s \in DOMAIN m.log \ DOMAIN rows, s > a
      PROVE  s > o /\ \A t \in DOMAIN rows : t < s
  <2>1. CASE s \in DOMAIN n.log
    BY <1>7, <2>1 DEF AnswerSound
  <2>2. CASE s \notin DOMAIN n.log
    <3>1. s > n.high
      BY <2>2 DEF Went
    <3>2. QED
      BY <1>1, <1>2, <3>1
  <2>3. QED
    BY <2>1, <2>2
<1>8. /\ rows = [s \in DOMAIN rows |-> rows[s]]
      /\ \A s, t \in DOMAIN rows : rows[s].id = rows[t].id => s = t
      /\ \A s \in DOMAIN rows :
           rows[s].id \in DOMAIN ev => ev[rows[s].id].origin = rows[s].origin
  BY DEF AnswerSound
<1>9. QED
  BY <1>3, <1>4, <1>5, <1>6, <1>7, <1>8 DEF AnswerSound

LEMMA WentNowhere == ASSUME NEW n, HostSound(n) PROVE Went(n, n)
BY DEF Went, HostSound

(* The two steps of a host.                                                *)
LEMMA HostClosesWent ==
  ASSUME node = [g \in Host |-> node[g]], NEW h \in Host, NEW id \in EventId,
         HostCloses(h, id)
  PROVE  /\ node' = [g \in Host |-> node'[g]]
         /\ \A g \in Host : HostSound(node[g]) => Went(node[g], node'[g])
<1> DEFINE s == node[h].high + 1
           e == [id |-> id, origin |-> h]
           n == node[h]
           l == [t \in DOMAIN n.log \cup {s} |-> IF t = s THEN e ELSE n.log[t]]
           m == [up |-> n.up, log |-> l, high |-> s, pruned |-> n.pruned,
                 free |-> n.free \ {id}]
<1>0. id \in n.free
  BY DEF HostCloses
<1>1. node' = [node EXCEPT
        ![h].log  = [t \in DOMAIN @ \cup {s} |-> IF t = s THEN e ELSE @[t]],
        ![h].high = s,
        ![h].free = @ \ {id}]
  BY DEF HostCloses
<1>2. node' = [g \in Host |-> node'[g]] /\ \A g \in Host : g # h => node'[g] = node[g]
  BY <1>1
<1>3. ASSUME HostSound(n) PROVE node'[h] = m
  <2> HIDE DEF s, e
  <2>1. n = [up |-> n.up, log |-> n.log, high |-> n.high, pruned |-> n.pruned,
             free |-> n.free]
    BY <1>3 DEF HostSound
  <2>2. QED
    BY <1>1, <2>1
<1>4. ASSUME HostSound(n) PROVE Went(n, m)
  <2>1. /\ m.up = n.up /\ m.log = l /\ m.high = s /\ m.pruned = n.pruned
        /\ m.free = n.free \ {id}
    OBVIOUS
  <2>2. m = [up |-> m.up, log |-> m.log, high |-> m.high, pruned |-> m.pruned,
             free |-> m.free]
    OBVIOUS
  <2>3. e \in Event /\ e.id = id
    BY DEF Event
  <2>4. s \in Nat /\ s > n.high /\ s \notin DOMAIN n.log /\ n.high \in Nat
    BY <1>4 DEF HostSound
  <2>5. /\ DOMAIN l = DOMAIN n.log \cup {s}
        /\ l[s] = e /\ \A t \in DOMAIN n.log : l[t] = n.log[t]
    BY <2>4
  <2> HIDE DEF m, l, e
  <2>6. DOMAIN l \subseteq 1 .. s
    BY <1>4, <2>4, <2>5 DEF HostSound
  <2> HIDE DEF s, n
  <2>7. \A t \in DOMAIN l : l[t] \in Event /\ l[t].id \notin m.free
    BY <1>4, <2>1, <2>3, <2>5 DEF HostSound
  <2>8. \A t, u \in DOMAIN l : l[t].id = l[u].id => t = u
    BY <1>0, <1>4, <2>3, <2>5 DEF HostSound
  <2>9. m.free \subseteq EventId
    BY <1>4, <2>1 DEF HostSound
  <2>10. HostSound(m)
    BY <2>1, <2>2, <2>4, <2>6, <2>7, <2>8, <2>9 DEF HostSound
  <2>11. ASSUME NEW t \in DOMAIN l
         PROVE  \/ t \in DOMAIN n.log /\ l[t] = n.log[t]
                \/ t > n.high /\ l[t].id \in n.free
    BY <1>0, <2>3, <2>4, <2>5
  <2>12. m.high >= n.high
    BY <2>1, <2>4
  <2>13. QED
    BY <2>1, <2>10, <2>11, <2>12 DEF Went
<1>5. QED
  BY <1>2, <1>3, <1>4, WentNowhere

LEMMA HostExpiresWent ==
  ASSUME node = [g \in Host |-> node[g]], NEW h \in Host, NEW s, HostExpires(h, s)
  PROVE  /\ node' = [g \in Host |-> node'[g]]
         /\ \A g \in Host : HostSound(node[g]) => Went(node[g], node'[g])
<1> DEFINE n == node[h]
           l == Restrict(n.log, DOMAIN n.log \ {s})
           p == Max({n.pruned, s})
           m == [up |-> n.up, log |-> l, high |-> n.high, pruned |-> p, free |-> n.free]
<1>1. node' = [node EXCEPT ![h].log    = Restrict(@, DOMAIN @ \ {s}),
                           ![h].pruned = Max({@, s})]
  BY DEF HostExpires
<1>2. node' = [g \in Host |-> node'[g]] /\ \A g \in Host : g # h => node'[g] = node[g]
  BY <1>1
<1>3. ASSUME HostSound(n) PROVE node'[h] = m
  <2>1. n = [up |-> n.up, log |-> n.log, high |-> n.high, pruned |-> n.pruned,
             free |-> n.free]
    BY <1>3 DEF HostSound
  <2>2. QED
    BY <1>1, <2>1
<1>4. ASSUME HostSound(n) PROVE Went(n, m)
  <2>1. /\ m.up = n.up /\ m.log = l /\ m.high = n.high /\ m.free = n.free
        /\ m = [up |-> m.up, log |-> m.log, high |-> m.high, pruned |-> m.pruned,
                free |-> m.free]
    OBVIOUS
  <2>2. DOMAIN l \subseteq DOMAIN n.log /\ \A t \in DOMAIN l : l[t] = n.log[t]
    BY DEF Restrict
  <2> HIDE DEF m, l, n
  <2>3. HostSound(m)
    BY <1>4, <2>1, <2>2 DEF HostSound
  <2>4. QED
    BY <1>4, <2>1, <2>2, <2>3 DEF Went, HostSound
<1>5. QED
  BY <1>2, <1>3, <1>4, WentNowhere

-----------------------------------------------------------------------------
(***************************************************************************)
(* What the controller does to fleet.db.                                   *)
(***************************************************************************)

(* An upsert of rows with distinct ids: theirs are the new values, the     *)
(* other events stay.                                                      *)
LEMMA UpsertedFacts ==
  ASSUME NEW ev, NEW rows, \A s, t \in DOMAIN rows : rows[s].id = rows[t].id => s = t
  PROVE  LET new == Upserted(ev, rows)
         IN  /\ DOMAIN new = DOMAIN ev \cup {rows[s].id : s \in DOMAIN rows}
             /\ \A s \in DOMAIN rows :
                  new[rows[s].id] = [seq |-> s, origin |-> rows[s].origin]
             /\ \A id \in DOMAIN ev :
                  (\A s \in DOMAIN rows : rows[s].id # id) => new[id] = ev[id]
<1> DEFINE new == Upserted(ev, rows)
<1>1. DOMAIN new = DOMAIN ev \cup {rows[s].id : s \in DOMAIN rows}
  BY DEF Upserted
<1>2. ASSUME NEW s \in DOMAIN rows
      PROVE  new[rows[s].id] = [seq |-> s, origin |-> rows[s].origin]
  <2> DEFINE t == CHOOSE t \in DOMAIN rows : rows[t].id = rows[s].id
  <2>1. new[rows[s].id] = [seq |-> t, origin |-> rows[t].origin]
    BY DEF Upserted
  <2>2. t \in DOMAIN rows /\ rows[t].id = rows[s].id
    OBVIOUS
  <2>3. t = s
    BY <2>2
  <2>4. QED
    BY <2>1, <2>3
<1>3. ASSUME NEW id \in DOMAIN ev, \A s \in DOMAIN rows : rows[s].id # id
      PROVE  new[id] = ev[id]
  BY <1>3 DEF Upserted
<1>4. QED
  BY <1>1, <1>2, <1>3

(* Importing a sound answer moves the cursor over nothing that the host    *)
(* has and the fleet has not.                                              *)
LEMMA ImportSound ==
  ASSUME NEW n, NEW ev, NEW rows, NEW cur \in Nat, NEW o \in Nat, NEW next,
         Serves(n, ev, cur), AnswerSound(n, ev, rows, cur, o), DOMAIN ev \subseteq EventId,
         next = IF rows = Nothing THEN cur ELSE Max(DOMAIN rows)
  PROVE  LET new == Upserted(ev, rows)
         IN  /\ next \in Nat /\ DOMAIN new \subseteq EventId
             /\ Serves(n, new, next) /\ Settled(n, new, o)
             /\ \A id \in DOMAIN ev : id \in DOMAIN new /\ new[id].origin = ev[id].origin
<1> DEFINE new == Upserted(ev, rows)
<1>0. \A s, t \in DOMAIN rows : rows[s].id = rows[t].id => s = t
  BY DEF AnswerSound
<1>1. /\ DOMAIN new = DOMAIN ev \cup {rows[s].id : s \in DOMAIN rows}
      /\ \A s \in DOMAIN rows : new[rows[s].id] = [seq |-> s, origin |-> rows[s].origin]
      /\ \A id \in DOMAIN ev :
           (\A s \in DOMAIN rows : rows[s].id # id) => new[id] = ev[id]
  BY <1>0, UpsertedFacts
<1> HIDE DEF new
<1>2. /\ n.high \in Nat /\ cur <= n.high /\ DOMAIN n.log \subseteq Nat
      /\ n.up = TRUE /\ HostSound(n)
  BY DEF Serves, HostSound
<1>3. \A s \in DOMAIN rows : s \in Nat /\ s > cur /\ s <= n.high
  BY <1>2 DEF AnswerSound
<1>4. /\ next \in Nat /\ next <= n.high
      /\ next >= cur /\ \A s \in DOMAIN rows : s <= next
      /\ next = cur \/ next \in DOMAIN rows
  <2>1. CASE rows = Nothing
    BY <1>2, <2>1 DEF Nothing
  <2>2. CASE rows # Nothing
    <3>1. DOMAIN rows # {}
      BY <2>2 DEF AnswerSound, Nothing
    <3>2. Max(DOMAIN rows) \in DOMAIN rows /\ \A s \in DOMAIN rows : s <= Max(DOMAIN rows)
      <4>1. DOMAIN rows \subseteq Nat
        BY <1>3
      <4>2. QED
        BY <1>2, <1>3, <3>1, <4>1, MaxOfNaturals
    <3>3. QED
      BY <1>2, <1>3, <2>2, <3>2
  <2>3. QED
    BY <2>1, <2>2
<1>5. DOMAIN new \subseteq EventId
  BY <1>1 DEF AnswerSound, Event
<1>6. ASSUME NEW id \in DOMAIN ev
      PROVE  id \in DOMAIN new /\ new[id].origin = ev[id].origin
  <2>1. CASE \E s \in DOMAIN rows : rows[s].id = id
    <3>1. PICK s \in DOMAIN rows : rows[s].id = id
      BY <2>1
    <3>2. new[id] = [seq |-> s, origin |-> rows[s].origin]
      BY <1>1, <3>1
    <3>3. ev[id].origin = rows[s].origin
      BY <3>1 DEF AnswerSound
    <3>4. QED
      BY <1>1, <3>2, <3>3
  <2>2. CASE \A s \in DOMAIN rows : rows[s].id # id
    BY <1>1, <2>2
  <2>3. QED
    BY <2>1, <2>2
<1>7. ASSUME NEW s \in DOMAIN n.log, s <= cur \/ s \in DOMAIN rows
      PROVE  ImportedAs(n, new, s)
  <2>1. CASE s \in DOMAIN rows
    <3>1. rows[s] = n.log[s]
      BY <2>1 DEF AnswerSound
    <3>2. QED
      BY <1>1, <2>1, <3>1 DEF ImportedAs
  <2>2. CASE s <= cur
    <3>1. ImportedAs(n, ev, s)
      BY <2>2 DEF Serves
    <3>2. \A t \in DOMAIN rows : rows[t].id # n.log[s].id
      <4> SUFFICES ASSUME NEW t \in DOMAIN rows, rows[t].id = n.log[s].id
                   PROVE  FALSE
        OBVIOUS
      <4>1. t = s
        BY DEF AnswerSound
      <4>2. QED
        BY <1>3, <2>2, <4>1
    <3>3. QED
      BY <1>1, <3>1, <3>2 DEF ImportedAs
  <2>3. QED
    BY <1>7, <2>1, <2>2
<1>8. ASSUME NEW s \in DOMAIN n.log, s <= next
      PROVE  ImportedAs(n, new, s)
  <2>1. s \in Nat
    BY <1>2
  <2>2. s <= cur \/ s \in DOMAIN rows
    BY <1>2, <1>3, <1>4, <1>8, <2>1 DEF AnswerSound
  <2>3. QED
    BY <1>7, <2>2
<1>9. Settled(n, new, o)
  <2> SUFFICES ASSUME NEW s \in DOMAIN n.log, s <= o
               PROVE  ImportedAs(n, new, s)
    BY DEF Settled
  <2>1. s \in Nat
    BY <1>2
  <2>2. s <= cur \/ s \in DOMAIN rows
    BY <2>1 DEF AnswerSound
  <2>3. QED
    BY <1>7, <2>2
<1>10. \A id \in DOMAIN new : id \notin n.free
  BY <1>1 DEF Serves, AnswerSound
<1>11. ASSUME NEW s \in DOMAIN n.log, n.log[s].id \in DOMAIN new
       PROVE  new[n.log[s].id].origin = n.log[s].origin
  <2>1. CASE \E t \in DOMAIN rows : rows[t].id = n.log[s].id
    <3>1. PICK t \in DOMAIN rows : rows[t].id = n.log[s].id
      BY <2>1
    <3>2. t = s
      BY <3>1 DEF AnswerSound
    <3>3. ImportedAs(n, new, s)
      BY <1>7, <3>2
    <3>4. QED
      BY <3>3 DEF ImportedAs
  <2>2. CASE \A t \in DOMAIN rows : rows[t].id # n.log[s].id
    <3>1. n.log[s].id \in DOMAIN ev
      BY <1>1, <1>11, <2>2
    <3>2. QED
      BY <1>6, <3>1 DEF Serves
  <2>3. QED
    BY <2>1, <2>2
<1>12. Serves(n, new, next)
  BY <1>2, <1>4, <1>8, <1>10, <1>11 DEF Serves
<1>13. QED
  BY <1>4, <1>5, <1>6, <1>9, <1>12 DEF new

(* The other writes touch the cursor's marks or the history.               *)
LEMMA MarkedShape ==
  ASSUME DbShape(db), NEW inst, NEW st
  PROVE  LET new == Marked(inst, st)
         IN  /\ DbShape(new) /\ new.events = db.events /\ new.past = db.past
             /\ new.cursor.seq = db.cursor.seq /\ new.cursor.inst = inst
             /\ new.cursor.status = st
<1> DEFINE cursor == [seq |-> db.cursor.seq, inst |-> inst,
                      kind |-> db.cursor.kind, status |-> st]
           made == [events |-> db.events, cursor |-> cursor, past |-> db.past]
<1>1. Marked(inst, st) = made
  <2> DEFINE half == [seq |-> db.cursor.seq, inst |-> inst,
                      kind |-> db.cursor.kind, status |-> db.cursor.status]
             mid == [events |-> db.events, cursor |-> half, past |-> db.past]
  <2>1. [db.cursor EXCEPT !.inst = inst] = half
    BY DEF DbShape
  <2>2. [half EXCEPT !.status = st] = cursor
    OBVIOUS
  <2> HIDE DEF half, cursor
  <2>3. [db EXCEPT !.cursor = half] = mid
    BY DEF DbShape
  <2>4. [mid EXCEPT !.cursor = cursor] = made
    OBVIOUS
  <2>5. Marked(inst, st) = [[db EXCEPT !.cursor.inst = inst] EXCEPT !.cursor.status = st]
    BY DEF Marked, DbShape
  <2>6. [db EXCEPT !.cursor.inst = inst] = mid
    BY <2>1, <2>3 DEF DbShape
  <2>7. mid.cursor = half
    OBVIOUS
  <2> HIDE DEF mid, made
  <2>8. QED
    BY <2>2, <2>4, <2>5, <2>6, <2>7
<1>2. DbShape(made)
  BY DEF DbShape
<1>3. QED
  BY <1>1, <1>2

LEMMA PastShape ==
  ASSUME DbShape(db), NEW past
  PROVE  LET new == [db EXCEPT !.past = past]
         IN  /\ DbShape(new) /\ new.events = db.events /\ new.past = past
             /\ new.cursor = db.cursor
<1> DEFINE made == [events |-> db.events, cursor |-> db.cursor, past |-> past]
<1>1. [db EXCEPT !.past = past] = made
  BY DEF DbShape
<1>2. DbShape(made)
  BY DEF DbShape
<1>3. QED
  BY <1>1, <1>2

LEMMA CursorShape ==
  ASSUME DbShape(db), NEW inst
  PROVE  LET new == [db EXCEPT !.cursor.inst = inst]
         IN  /\ DbShape(new) /\ new.events = db.events /\ new.past = db.past
             /\ new.cursor.seq = db.cursor.seq /\ new.cursor.inst = inst
<1> DEFINE cursor == [seq |-> db.cursor.seq, inst |-> inst,
                      kind |-> db.cursor.kind, status |-> db.cursor.status]
           made == [events |-> db.events, cursor |-> cursor, past |-> db.past]
<1>1. [db EXCEPT !.cursor.inst = inst] = made
  <2>1. [db.cursor EXCEPT !.inst = inst] = cursor
    BY DEF DbShape
  <2> HIDE DEF cursor
  <2>2. QED
    BY <2>1 DEF DbShape
<1>2. DbShape(made)
  BY DEF DbShape
<1>3. QED
  BY <1>1, <1>2

-----------------------------------------------------------------------------
(***************************************************************************)
(* CopyInv holds initially and is preserved.                               *)
(***************************************************************************)
LEMMA CopyInit == Init => CopyInv
<1> SUFFICES ASSUME Init PROVE CopyInv
  OBVIOUS
<1>1. reg = First /\ First \in Host /\ pc = "idle" /\ AnswerType(answer)
  BY ConstantsAssumption DEF Init, NoAnswer, AnswerType
<1>2. CASE /\ node = [h \in Host |->
                       IF h = First THEN [Absent EXCEPT !.up = TRUE, !.free = EventId]
                                    ELSE Absent]
           /\ db = [events |-> Nothing, cursor |-> NewCursor,
                    past |-> [h \in Host |-> None]]
  <2> DEFINE n == [up |-> TRUE, log |-> Nothing, high |-> 0, pruned |-> 0, free |-> EventId]
  <2>1. node[First] = n /\ node = [h \in Host |-> node[h]]
    BY <1>1, <1>2 DEF Absent
  <2>2. CopyType(db) /\ db.events = Nothing /\ db.cursor.seq = 0
    BY <1>2 DEF CopyType, DbShape, NewCursor, Nothing
  <2>3. Serves(n, Nothing, 0)
    BY DEF Serves, HostSound, Nothing
  <2> HIDE DEF n
  <2>4. QED
    BY <1>1, <2>1, <2>2, <2>3 DEF CopyInv, Reading, FinalDone, Restored
<1>3. ASSUME NEW id \in EventId, NEW S \in SUBSET EventId, S \subseteq {id},
             node = [h \in Host |->
                       IF h = First
                         THEN [up |-> TRUE, log |-> [s \in {1} |-> [id |-> id, origin |-> h]],
                               high |-> 1, pruned |-> 0, free |-> EventId \ {id}]
                         ELSE Absent],
             db = [events |-> [i \in S |-> [seq |-> 0, origin |-> First]],
                   cursor |-> [NewCursor EXCEPT !.inst = First, !.kind = "event_id"],
                   past   |-> [h \in Host |-> IF h = First THEN "active" ELSE None]]
      PROVE  CopyInv
  <2> DEFINE log == [s \in {1} |-> [id |-> id, origin |-> First]]
             ev == [i \in S |-> [seq |-> 0, origin |-> First]]
             n == [up |-> TRUE, log |-> log, high |-> 1, pruned |-> 0,
                   free |-> EventId \ {id}]
  <2>1. node[First] = n /\ node = [h \in Host |-> node[h]]
    BY <1>1, <1>3
  <2>2. db.events = ev /\ db.cursor.seq = 0
    BY <1>3 DEF NewCursor
  <2>3. CopyType(db)
    BY <1>3 DEF CopyType, DbShape, NewCursor
  <2>4. /\ DOMAIN log = {1} /\ log[1] = [id |-> id, origin |-> First]
        /\ log[1] \in Event /\ log[1].id = id /\ log[1].origin = First
    BY <1>1 DEF Event
  <2>5. DOMAIN ev = S /\ \A i \in S : ev[i].origin = First
    OBVIOUS
  <2> HIDE DEF log, ev
  <2>6. HostSound(n)
    BY <2>4 DEF HostSound
  <2>7. Serves(n, ev, 0)
    BY <1>3, <2>4, <2>5, <2>6 DEF Serves
  <2> HIDE DEF n
  <2>8. QED
    BY <1>1, <2>1, <2>2, <2>3, <2>7 DEF CopyInv, Reading, FinalDone, Restored
<1>4. QED
  BY <1>2, <1>3 DEF Init

(* A step that reads, records or gives up: hosts, events and position stay.*)
LEMMA QuietStep ==
  ASSUME CopyInv, UNCHANGED <<node, reg>>, CopyType(db'), AnswerType(answer'),
         db'.events = db.events,
         db'.cursor.seq = db.cursor.seq,
         pc' \in Reading \cup {"idle"} \cup Restored,
         pc' # "idle" => pc # "idle" /\ owed' = owed,
         pc' \in Reading => pc \in Reading /\ after' = after,
         pc' \in Restored => pc \in Restored /\ target' = target
  PROVE  CopyInv'
<1>1. pc' \notin {"import", "retire", "backup", "restore"}
  BY DEF Reading, Restored
<1>2. pc' \in FinalDone => pc' \in Restored /\ pc \in FinalDone /\ pc' # "idle"
  BY <1>1 DEF FinalDone, Restored
<1>3. QED
  BY <1>1, <1>2 DEF CopyInv, Settled, FinalDone

(* Back to idle, whatever happened: what matters there is the serving host.*)
LEMMA RestStep ==
  ASSUME pc' = "idle", node' = [h \in Host |-> node'[h]], reg' \in Host, CopyType(db'),
         AnswerType(answer'),
         Serves(node'[reg'], db'.events, db'.cursor.seq)
  PROVE  CopyInv'
BY DEF CopyInv, Reading, FinalDone, Restored

LEMMA HostStep ==
  ASSUME CopyInv, UNCHANGED <<reg, db, command, history>>,
         node' = [h \in Host |-> node'[h]],
         \A h \in Host : HostSound(node[h]) => Went(node[h], node'[h])
  PROVE  CopyInv'
<1>1. UNCHANGED <<reg, db, pc, after, answer, image, target, owed>>
  BY DEF command, history
<1>2. /\ reg \in Host /\ db.cursor.seq \in Nat
      /\ Serves(node[reg], db.events, db.cursor.seq)
      /\ HostSound(node[reg]) /\ node[reg].high \in Nat
  BY DEF CopyInv, CopyType, DbShape, Serves, HostSound
<1>3. Went(node[reg], node'[reg])
  BY <1>2
<1>4. Serves(node'[reg], db.events, db.cursor.seq)
  BY <1>2, <1>3, WentServes
<1>5. pc # "idle" => owed \in Nat /\ owed <= node[reg].high /\ owed <= node'[reg].high
  <2>1. node'[reg].high \in Nat /\ node'[reg].high >= node[reg].high
    BY <1>3 DEF Went, HostSound
  <2>2. QED
    BY <1>2, <2>1 DEF CopyInv
<1>6. pc = "import" => AnswerSound(node'[reg], db.events, answer.rows, after, owed)
  <2> SUFFICES ASSUME pc = "import"
               PROVE  AnswerSound(node'[reg], db.events, answer.rows, after, owed)
    OBVIOUS
  <2>1. after \in Nat /\ AnswerSound(node[reg], db.events, answer.rows, after, owed)
    BY <1>2 DEF CopyInv
  <2>2. QED
    BY <1>2, <1>3, <1>5, <2>1, WentAnswer
<1>7. pc \in FinalDone => Settled(node'[reg], db.events, owed)
  <2> SUFFICES ASSUME pc \in FinalDone
               PROVE  Settled(node'[reg], db.events, owed)
    OBVIOUS
  <2>1. Settled(node[reg], db.events, owed) /\ pc # "idle"
    BY DEF CopyInv, FinalDone, Restored
  <2>2. QED
    BY <1>2, <1>3, <1>5, <2>1, WentSettled
<1>8. pc \in Restored => target \in Host /\ Serves(node'[target], db.events, db.cursor.seq)
  <2> SUFFICES ASSUME pc \in Restored
               PROVE  target \in Host /\ Serves(node'[target], db.events, db.cursor.seq)
    OBVIOUS
  <2>1. target \in Host /\ Serves(node[target], db.events, db.cursor.seq)
    BY DEF CopyInv
  <2>2. Went(node[target], node'[target])
    BY <2>1 DEF Serves
  <2>3. QED
    BY <1>2, <2>1, <2>2, WentServes
<1>9. QED
  BY <1>1, <1>4, <1>5, <1>6, <1>7, <1>8 DEF CopyInv

LEMMA BeginStep ==
  ASSUME CopyInv, NEW o, Begin(o)
  PROVE  CopyInv'
<1>1. /\ UNCHANGED <<node, reg, db, answer>> /\ after' = db.cursor.seq
      /\ pc' = "identity" /\ owed' = node[reg].high
  BY DEF Begin
<1>2. node[reg].high \in Nat /\ node[reg].high <= node[reg].high
  BY DEF CopyInv, Serves, HostSound
<1>3. QED
  BY <1>1, <1>2 DEF CopyInv, Reading, FinalDone, Restored

LEMMA ReseedStep ==
  ASSUME CopyInv, Reseed
  PROVE  CopyInv'
<1> DEFINE made == [events |-> Nothing, cursor |-> NewCursor, past |-> db.past]
<1>1. /\ UNCHANGED <<node, reg, answer>> /\ after' = 0 /\ pc' = "identity"
      /\ owed' = node[reg].high
      /\ db' = [db EXCEPT !.events = Nothing, !.cursor = NewCursor]
  BY DEF Reseed
<1>2. db' = made
  BY <1>1 DEF CopyInv, CopyType, DbShape
<1>3. CopyType(db') /\ db'.events = Nothing /\ db'.cursor.seq = 0
  BY <1>2 DEF CopyType, DbShape, Nothing, NewCursor
<1>4. Serves(node[reg], Nothing, 0) /\ node[reg].high \in Nat
  BY DEF CopyInv, Serves, HostSound, Nothing
<1>5. QED
  BY <1>1, <1>3, <1>4 DEF CopyInv, Reading, FinalDone, Restored

LEMMA ReadRowsStep ==
  ASSUME CopyInv, ReadRows
  PROVE  CopyInv'
<1> DEFINE n == node[reg]
           rows == Restrict(n.log, {s \in DOMAIN n.log : s > after})
<1>1. /\ UNCHANGED <<node, reg, db, after, owed>> /\ pc = "rows" /\ pc' = "import"
      /\ answer' = [answer EXCEPT !.rows = rows]
  BY DEF ReadRows, history
<1>2. answer'.rows = rows /\ AnswerType(answer')
  <2>1. answer' = [max |-> answer.max, rows |-> rows]
    BY <1>1 DEF CopyInv, AnswerType
  <2>2. QED
    BY <2>1 DEF AnswerType
<1>3. /\ Serves(n, db.events, db.cursor.seq) /\ after = db.cursor.seq /\ after \in Nat
      /\ owed \in Nat /\ owed <= n.high
  BY <1>1 DEF CopyInv, CopyType, DbShape, Reading
<1> HIDE DEF n
<1>4. /\ DOMAIN rows = {s \in DOMAIN n.log : s > after}
      /\ \A s \in DOMAIN rows : rows[s] = n.log[s]
      /\ rows = [s \in DOMAIN rows |-> rows[s]]
  BY DEF Restrict
<1> HIDE DEF rows
<1>5. AnswerSound(n, db.events, rows, after, owed)
  BY <1>3, <1>4 DEF AnswerSound, Serves, HostSound
<1>6. QED
  BY <1>1, <1>2, <1>3, <1>5 DEF CopyInv, Reading, FinalDone, Restored, n

(* The shape of what Import writes, and that it may be imported.           *)
LEMMA ImportFacts ==
  ASSUME CopyInv, Import
  PROVE  /\ CopyType(db') /\ db'.events = Upserted(db.events, answer.rows)
         /\ Serves(node[reg], db'.events, db'.cursor.seq)
         /\ Settled(node[reg], db'.events, owed)
         /\ \A id \in DOMAIN db.events :
              id \in DOMAIN db'.events /\ db'.events[id].origin = db.events[id].origin
<1> DEFINE n == node[reg]
           events == db.events
           rows == answer.rows
           cur == db.cursor.seq
           ev == Upserted(events, rows)
           next == NextCursor(rows)
           cursor == [seq |-> next, inst |-> reg, kind |-> "export_seq", status |-> "ok"]
<1>1. /\ pc = "import"
      /\ \E past : db' = [events |-> ev, cursor |-> cursor, past |-> past]
  BY DEF Import
<1>2. /\ Serves(n, events, cur) /\ AnswerSound(n, events, rows, cur, owed)
      /\ owed \in Nat /\ cur \in Nat /\ after = cur /\ DOMAIN events \subseteq EventId
  BY <1>1 DEF CopyInv, CopyType, DbShape
<1>3. next = IF rows = Nothing THEN cur ELSE Max(DOMAIN rows)
  BY <1>2 DEF NextCursor
<1>4. /\ next \in Nat /\ DOMAIN ev \subseteq EventId
      /\ Serves(n, ev, next) /\ Settled(n, ev, owed)
      /\ \A id \in DOMAIN events : id \in DOMAIN ev /\ ev[id].origin = events[id].origin
  <2> HIDE DEF n, events, rows, cur, next
  <2>1. QED
    BY ONLY <1>2, <1>3, ImportSound
<1> HIDE DEF ev, next
<1>5. db'.events = ev /\ db'.cursor = cursor /\ db'.cursor.seq = next
  BY <1>1
<1>6. db' = [events |-> db'.events, cursor |-> db'.cursor, past |-> db'.past]
  BY <1>1
<1>7. CopyType(db')
  BY <1>4, <1>5, <1>6 DEF CopyType, DbShape
<1>8. QED
  BY <1>4, <1>5, <1>7 DEF ev

LEMMA ImportStep ==
  ASSUME CopyInv, Import
  PROVE  CopyInv'
<1>1. UNCHANGED <<node, reg, owed>> /\ pc = "import"
  BY DEF Import
<1>2. /\ CopyType(db') /\ Serves(node[reg], db'.events, db'.cursor.seq)
      /\ Settled(node[reg], db'.events, owed)
  BY ImportFacts
<1>3. CASE op \in {"sync", "full"}
  <2>1. pc' = "idle" /\ answer' = NoAnswer
    BY <1>3 DEF Import, Idle
  <2>2. AnswerType(answer')
    BY <2>1 DEF AnswerType, NoAnswer
  <2>3. QED
    BY <1>1, <1>2, <2>1, <2>2, RestStep DEF CopyInv
<1>4. CASE op \notin {"sync", "full"}
  <2>1. pc' \in {"retire", "backup"} /\ answer' = NoAnswer
    BY <1>4 DEF Import
  <2>2. AnswerType(answer')
    BY <2>1 DEF AnswerType, NoAnswer
  <2>3. QED
    BY <1>1, <1>2, <2>1, <2>2 DEF CopyInv, Reading, FinalDone, Restored
<1>5. QED
  BY <1>3, <1>4

LEMMA BackupStep ==
  ASSUME CopyInv, Backup
  PROVE  CopyInv'
<1>1. /\ UNCHANGED <<node, reg, db, answer, owed>> /\ pc = "backup" /\ pc' = "restore"
      /\ image' = node[reg]
  BY DEF Backup, history
<1>2. QED
  BY <1>1 DEF CopyInv, Reading, FinalDone, Restored

LEMMA RestoreStep ==
  ASSUME CopyInv, NEW h \in Host, Restore(h)
  PROVE  CopyInv'
<1>1. /\ UNCHANGED <<reg, db, owed>> /\ pc = "restore" /\ ~ node[h].up
      /\ node' = [node EXCEPT ![h] = image]
  BY DEF Restore, history
<1>2. /\ reg \in Host /\ node = [g \in Host |-> node[g]]
      /\ Serves(node[reg], db.events, db.cursor.seq)
      /\ Serves(image, db.events, db.cursor.seq)
      /\ Settled(node[reg], db.events, owed)
      /\ owed \in Nat /\ owed <= node[reg].high
  BY <1>1 DEF CopyInv, FinalDone
<1>3. h # reg
  BY <1>1, <1>2 DEF Serves
<1>4. node' = [g \in Host |-> node'[g]] /\ node'[h] = image /\ node'[reg] = node[reg]
  BY <1>1, <1>2, <1>3
<1>5. CASE Idle
  <2>1. pc' = "idle" /\ AnswerType(answer')
    BY <1>5 DEF Idle, AnswerType, NoAnswer
  <2>2. QED
    BY <1>1, <1>2, <1>4, <2>1, RestStep DEF CopyInv
<1>6. CASE pc' = "verify" /\ target' = h /\ UNCHANGED answer
  BY <1>1, <1>2, <1>4, <1>6 DEF CopyInv, Reading, FinalDone, Restored
<1>7. QED
  BY <1>5, <1>6 DEF Restore

LEMMA SaveRegistryStep ==
  ASSUME CopyInv, SaveRegistry
  PROVE  CopyInv'
<1>1. /\ UNCHANGED <<node, db>> /\ pc = "save" /\ reg' = target /\ Idle
  BY DEF SaveRegistry
<1>2. pc' = "idle" /\ AnswerType(answer')
  BY <1>1 DEF Idle, AnswerType, NoAnswer
<1>3. target \in Host /\ Serves(node[target], db.events, db.cursor.seq)
  BY <1>1 DEF CopyInv, Restored
<1>4. QED
  BY <1>1, <1>2, <1>3, RestStep DEF CopyInv

(* Giving up, with or without a mark on the cursor.                        *)
LEMMA GiveUpStep ==
  ASSUME CopyInv, IdentityFails \/ Refused \/ SyncFails \/ Abort \/ MarkRetired
  PROVE  CopyInv'
<1>1. UNCHANGED <<node, reg>> /\ Idle
  BY DEF IdentityFails, Refused, SyncFails, Abort, MarkRetired
<1>2. db' = db \/ \E inst, st : db' = Marked(inst, st)
  BY DEF IdentityFails, Refused, SyncFails, Abort, MarkRetired
<1>3. CopyType(db') /\ db'.events = db.events /\ db'.cursor.seq = db.cursor.seq
  BY <1>2, MarkedShape DEF CopyInv, CopyType
<1>4. pc' = "idle" /\ AnswerType(answer')
  BY <1>1 DEF Idle, AnswerType, NoAnswer
<1>5. QED
  BY <1>1, <1>3, <1>4, RestStep DEF CopyInv

(* Requests that read, and commits to the history and the cursor's owner.  *)
LEMMA ProceedStep ==
  ASSUME CopyInv, \/ IdentityOK \/ RecordInstance \/ ReadMax \/ ReadPruned
                  \/ Verified \/ InsertTarget \/ MoveCursor
  PROVE  CopyInv'
<1>0. CopyType(db) /\ AnswerType(answer)
  BY DEF CopyInv
<1>1. UNCHANGED <<node, reg, owed>>
  BY DEF IdentityOK, RecordInstance, ReadMax, ReadPruned, Verified, InsertTarget,
         MoveCursor, history
<1>2. \/ db' = db
      \/ \E past : db' = [db EXCEPT !.past = past]
      \/ \E inst : db' = [db EXCEPT !.cursor.inst = inst]
  <2>1. CASE IdentityOK
    <3>1. db' \in {db, [db EXCEPT !.past = Retired(db.past)]}
      BY <1>0, <2>1 DEF IdentityOK, CopyType, DbShape
    <3>2. QED
      BY <3>1
  <2>2. CASE RecordInstance
    <3>1. db' = [db EXCEPT !.past = Inserted(db.past, reg)]
      BY <1>0, <2>2 DEF RecordInstance, CopyType, DbShape
    <3>2. QED
      BY <3>1
  <2>3. CASE ReadMax \/ ReadPruned
    BY <2>3 DEF ReadMax, ReadPruned
  <2>4. CASE Verified
    <3>1. db' = [db EXCEPT !.past = Retired(db.past)]
      BY <1>0, <2>4 DEF Verified, CopyType, DbShape
    <3>2. QED
      BY <3>1
  <2>5. CASE InsertTarget
    <3>1. db' = [db EXCEPT !.past = Inserted(db.past, target)]
      BY <1>0, <2>5 DEF InsertTarget, CopyType, DbShape
    <3>2. QED
      BY <3>1
  <2>6. CASE MoveCursor
    BY <2>6 DEF MoveCursor
  <2>7. QED
    BY <2>1, <2>2, <2>3, <2>4, <2>5, <2>6
<1>3. CopyType(db') /\ db'.events = db.events /\ db'.cursor.seq = db.cursor.seq
  <2>1. CASE db' = db
    BY <1>0, <2>1
  <2>2. CASE \E past : db' = [db EXCEPT !.past = past]
    <3>1. PICK past : db' = [db EXCEPT !.past = past]
      BY <2>2
    <3>2. QED
      BY <1>0, <3>1, PastShape DEF CopyType
  <2>3. CASE \E inst : db' = [db EXCEPT !.cursor.inst = inst]
    <3>1. PICK inst : db' = [db EXCEPT !.cursor.inst = inst]
      BY <2>3
    <3>2. QED
      BY <1>0, <3>1, CursorShape DEF CopyType
  <2>4. QED
    BY <1>2, <2>1, <2>2, <2>3
<1>4. AnswerType(answer')
  <2>1. CASE ReadMax
    <3>1. answer' = [max |-> node[reg].high, rows |-> answer.rows]
      BY <1>0, <2>1 DEF ReadMax, AnswerType
    <3>2. QED
      BY <3>1 DEF AnswerType
  <2>2. CASE UNCHANGED answer
    BY <1>0, <2>2
  <2>3. QED
    BY <2>1, <2>2 DEF IdentityOK, RecordInstance, ReadPruned, Verified, InsertTarget,
                      MoveCursor
<1>5. \/ pc \in Reading /\ pc' \in Reading /\ after' = after
      \/ pc \in Restored /\ pc' \in Restored /\ target' = target
  BY DEF IdentityOK, RecordInstance, ReadMax, ReadPruned, Verified, InsertTarget,
         MoveCursor, Reading, Restored
<1>6. QED
  BY <1>1, <1>3, <1>4, <1>5, QuietStep DEF Reading, Restored

(* Without older backups, the invariant is inductive.                      *)
LEMMA CopyStep == ~ FromBackup /\ CopyInv /\ [Next]_vars => CopyInv'
<1> SUFFICES ASSUME ~ FromBackup, CopyInv, [Next]_vars PROVE CopyInv'
  OBVIOUS
<1>1. CASE UNCHANGED vars
  BY <1>1 DEF CopyInv, vars, command, history
<1>2. CASE Hosts
  <2>1. PICK h \in Host : \/ \E id \in EventId : HostCloses(h, id)
                         \/ \E s \in DOMAIN node[h].log : HostExpires(h, s)
    BY <1>2 DEF Hosts
  <2>2. node = [g \in Host |-> node[g]]
    BY DEF CopyInv
  <2>3. /\ node' = [g \in Host |-> node'[g]]
        /\ \A g \in Host : HostSound(node[g]) => Went(node[g], node'[g])
    BY <2>1, <2>2, HostClosesWent, HostExpiresWent
  <2>4. UNCHANGED <<reg, db, command, history>>
    BY <2>1 DEF HostCloses, HostExpires
  <2>5. QED
    BY <2>3, <2>4, HostStep
<1>3. CASE Sync
  BY <1>3, ProceedStep, ReadRowsStep, ImportStep, GiveUpStep DEF Sync
<1>4. CASE Move
  BY <1>4, GiveUpStep, BackupStep, RestoreStep, ProceedStep, SaveRegistryStep DEF Move
<1>5. CASE \E o \in {"sync", "full", "retire", "replace"} : Begin(o)
  BY <1>5, BeginStep
<1>6. CASE Reseed \/ IdentityFails \/ SyncFails \/ Abort
  BY <1>6, ReseedStep, GiveUpStep
<1>7. CASE BeginFromBackup \/ KeepBackup
  BY <1>7 DEF BeginFromBackup, KeepBackup
<1>8. QED
  BY <1>1, <1>2, <1>3, <1>4, <1>5, <1>6, <1>7 DEF Next, Controller

-----------------------------------------------------------------------------
(***************************************************************************)
(* The theorems.  NoOlderBackup says that node replace is used without     *)
(* --from-backup: with it, the cursor may be ahead of the restored host,   *)
(* whose next events get numbers below it and are never asked for.         *)
(***************************************************************************)
NoOlderBackup == ~ FromBackup

(* The serving host, and every host that may come to serve, fits the copy. *)
THEOREM CopySound == ASSUME NoOlderBackup PROVE Spec => []CopyInv
<1>1. CopyInv /\ [Next]_vars => CopyInv'
  BY CopyStep DEF NoOlderBackup
<1>2. QED
  BY <1>1, CopyInit, PTL DEF Spec

(* Whatever the serving host still has at or below the cursor is in        *)
(* fleet.db, wherever syncs, reseeds and moves of the node break off.      *)
THEOREM NothingSkippedHolds == ASSUME NoOlderBackup PROVE Spec => []NothingSkipped
<1>1. CopyInv => NothingSkipped
  BY DEF CopyInv, Serves, ImportedAs, NothingSkipped, Imported
<1>2. QED
  BY <1>1, CopySound, PTL

(* An event that was imported stays, and stays the same event, until a     *)
(* reseed.                                                                 *)
THEOREM EventsKeptHolds == ASSUME NoOlderBackup PROVE Spec => EventsKept
<1>1. CopyInv /\ [Next]_vars =>
        [\/ db'.cursor = NewCursor
         \/ \A id \in DOMAIN db.events :
              /\ id \in DOMAIN db'.events
              /\ db'.events[id].origin = db.events[id].origin]_vars
  <2> SUFFICES ASSUME CopyInv, Next
               PROVE  \/ db'.cursor = NewCursor
                      \/ \A id \in DOMAIN db.events :
                           /\ id \in DOMAIN db'.events
                           /\ db'.events[id].origin = db.events[id].origin
    OBVIOUS
  <2>0. CopyType(db)
    BY DEF CopyInv
  <2>1. CASE Import
    BY <2>1, ImportFacts
  <2>2. CASE Reseed
    <3>1. db' = [db EXCEPT !.events = Nothing, !.cursor = NewCursor]
      BY <2>2 DEF Reseed
    <3>2. db' = [events |-> Nothing, cursor |-> NewCursor, past |-> db.past]
      BY <2>0, <3>1 DEF CopyType, DbShape
    <3>3. QED
      BY <3>2
  <2>3. CASE \/ IdentityFails \/ Refused \/ SyncFails \/ Abort \/ MarkRetired
    <3>1. db' = db \/ \E inst, st : db' = Marked(inst, st)
      BY <2>3 DEF IdentityFails, Refused, SyncFails, Abort, MarkRetired
    <3>2. QED
      BY <2>0, <3>1, MarkedShape DEF CopyType
  <2>4. CASE \/ IdentityOK \/ RecordInstance \/ Verified \/ InsertTarget \/ MoveCursor
    <3>1. db'.events = db.events
      BY <2>0, <2>4 DEF IdentityOK, RecordInstance, Verified, InsertTarget, MoveCursor,
                        CopyType, DbShape
    <3>2. QED
      BY <3>1
  <2>5. CASE db' = db
    BY <2>5
  <2>6. QED
    BY <2>1, <2>2, <2>3, <2>4, <2>5
       DEF Next, Controller, Hosts, HostCloses, HostExpires, Sync, Move, Begin,
           BeginFromBackup, KeepBackup, ReadMax, ReadPruned, ReadRows, Backup, Restore,
           SaveRegistry
<1>2. QED
  BY <1>1, CopySound, PTL DEF Spec, EventsKept

(* Retiring or moving the node loses nothing it had closed when the        *)
(* command began: all that was left of it by then is imported.             *)
THEOREM HandsOverHolds == ASSUME NoOlderBackup PROVE Spec => HandsOver
<1>1. CopyInv /\ [Next]_vars =>
        [life' # life \/ reg' # reg =>
           \A s \in DOMAIN node[reg].log :
             s <= owed =>
               \/ Imported(reg, s)
               \/ /\ s \in DOMAIN node[reg'].log
                  /\ node[reg'].log[s] = node[reg].log[s]]_vars
  <2> SUFFICES ASSUME CopyInv, Next, life' # life \/ reg' # reg,
                      NEW s \in DOMAIN node[reg].log, s <= owed
               PROVE  Imported(reg, s)
    OBVIOUS
  <2>1. MarkRetired \/ SaveRegistry
    BY DEF Next, Controller, Hosts, HostCloses, HostExpires, Sync, Move, Begin, Reseed,
           BeginFromBackup, KeepBackup, IdentityOK, RecordInstance, ReadMax, ReadPruned,
           ReadRows, Import, Refused, Backup, Restore, Verified, InsertTarget, MoveCursor,
           IdentityFails, SyncFails, Abort
  <2>2. pc \in FinalDone
    BY <2>1 DEF MarkRetired, SaveRegistry, FinalDone, Restored
  <2>3. QED
    BY <2>2 DEF CopyInv, Settled, ImportedAs, Imported
<1>2. QED
  BY <1>1, CopySound, PTL DEF Spec, HandsOver

-----------------------------------------------------------------------------
(***************************************************************************)
(* The history of instances.  It is written row by row, so it is sound     *)
(* because nobody is active between the commit that retires one instance   *)
(* and the commit that inserts the next, and because whatever the cursor   *)
(* is about to name has its row by then.  Older backups do no harm here.   *)
(***************************************************************************)
Recording == {None, "active", "retired"}

Nobody(past) == \A h \in Host : past[h] # "active"

(* What the cursor may name.                                               *)
CursorNames(d) ==
  /\ d.cursor.inst \in Host \cup {None, Foreign}
  /\ d.cursor.inst \in Host => d.past[d.cursor.inst] # None
  /\ d.cursor.inst = Foreign => d.cursor.status = "error"

HistInv ==
  /\ DbShape(db)
  /\ db.past \in [Host -> Recording]
  /\ reg \in Host
  /\ pc \in Restored => target \in Host
  /\ \A g, h \in Host : db.past[g] = "active" /\ db.past[h] = "active" => g = h
  /\ CursorNames(db)
  /\ pc \in {"record", "insert"} => Nobody(db.past)
  /\ pc = "record" => op # "full"
  /\ pc \in {"max", "pruned", "rows", "import"} /\ op # "full" => db.past[reg] # None
  /\ pc \in {"cursor", "save"} => db.past[target] # None

LEMMA RetiredFacts ==
  ASSUME NEW past \in [Host -> Recording]
  PROVE  /\ Retired(past) \in [Host -> Recording]
         /\ Nobody(Retired(past))
         /\ \A h \in Host : past[h] # None => Retired(past)[h] # None
BY DEF Retired, Recording, None, Nobody

LEMMA InsertedFacts ==
  ASSUME NEW past \in [Host -> Recording], NEW h \in Host, Nobody(past)
  PROVE  /\ Inserted(past, h) \in [Host -> Recording]
         /\ Inserted(past, h)[h] # None
         /\ \A g \in Host : Inserted(past, h)[g] = "active" => g = h
         /\ \A g \in Host : past[g] # None => Inserted(past, h)[g] # None
BY DEF Inserted, Recording, None, Nobody

LEMMA HistInit == Init => HistInv
<1> SUFFICES ASSUME Init PROVE HistInv
  OBVIOUS
<1>1. reg = First /\ First \in Host /\ pc = "idle"
  BY ConstantsAssumption DEF Init
<1>2. \/ db = [events |-> Nothing, cursor |-> NewCursor, past |-> [h \in Host |-> None]]
      \/ \E ev : db = [events |-> ev,
                      cursor |-> [NewCursor EXCEPT !.inst = First, !.kind = "event_id"],
                      past   |-> [h \in Host |-> IF h = First THEN "active" ELSE None]]
  <2> DEFINE old == [NewCursor EXCEPT !.inst = First, !.kind = "event_id"]
             past == [h \in Host |-> IF h = First THEN "active" ELSE None]
  <2>1. \/ db = [events |-> Nothing, cursor |-> NewCursor, past |-> [h \in Host |-> None]]
        \/ \E S \in SUBSET EventId :
             db = [events |-> [i \in S |-> [seq |-> 0, origin |-> First]],
                   cursor |-> old, past |-> past]
    BY Zenon DEF Init
  <2> HIDE DEF old, past
  <2>2. \/ db = [events |-> Nothing, cursor |-> NewCursor, past |-> [h \in Host |-> None]]
        \/ \E ev : db = [events |-> ev, cursor |-> old, past |-> past]
    BY <2>1
  <2>3. QED
    BY <2>2 DEF old, past
<1>3. [NewCursor EXCEPT !.inst = First, !.kind = "event_id"] =
        [seq |-> 0, inst |-> First, kind |-> "event_id", status |-> "ok"]
  <2>1. [NewCursor EXCEPT !.inst = First] =
          [seq |-> 0, inst |-> First, kind |-> "export_seq", status |-> "ok"]
    BY DEF NewCursor
  <2>2. [[seq |-> 0, inst |-> First, kind |-> "export_seq", status |-> "ok"]
           EXCEPT !.kind = "event_id"] =
          [seq |-> 0, inst |-> First, kind |-> "event_id", status |-> "ok"]
    OBVIOUS
  <2>3. QED
    BY <2>1, <2>2
<1>4. DbShape(db)
  BY <1>2, <1>3 DEF DbShape, NewCursor
<1>5. \/ db.past = [h \in Host |-> None] /\ db.cursor.inst = None
      \/ /\ db.past = [h \in Host |-> IF h = First THEN "active" ELSE None]
         /\ db.cursor.inst = First
  BY <1>2, <1>3 DEF NewCursor
<1>6. QED
  BY <1>1, <1>4, <1>5, ConstantsAssumption
  DEF HistInv, CursorNames, Recording, None, Foreign, Nobody, Restored

(* A step that leaves the history alone and does not proceed past a commit.*)
LEMMA HistRest ==
  ASSUME HistInv, DbShape(db'), db'.past = db.past,
         reg' \in Host, pc' \in {"idle", "identity", "retire", "backup", "restore"},
         \/ db'.cursor = db.cursor
         \/ db'.cursor.inst \in {db.cursor.inst, None, Foreign} /\ db'.cursor.status = "error"
         \/ db'.cursor.inst = None
         \/ db'.cursor.inst \in Host /\ db.past[db'.cursor.inst] # None
  PROVE  HistInv'
BY ConstantsAssumption DEF HistInv, CursorNames, Nobody, Restored, None, Foreign

LEMMA HistStep == HistInv /\ [Next]_vars => HistInv'
<1> SUFFICES ASSUME HistInv, [Next]_vars PROVE HistInv'
  OBVIOUS
<1>0. /\ DbShape(db) /\ db.past \in [Host -> Recording] /\ reg \in Host
      /\ CursorNames(db)
  BY DEF HistInv
<1>1. CASE UNCHANGED <<reg, db, op, pc, target>>
  BY <1>1 DEF HistInv, Nobody
<1>2. CASE \/ \E o \in {"sync", "full", "retire", "replace"} : Begin(o)
           \/ BeginFromBackup \/ Abort \/ MarkRetired \/ Backup
  <2>1. /\ UNCHANGED <<reg, db>>
        /\ pc' \in {"idle", "identity", "retire", "backup", "restore"}
    BY <1>2 DEF Begin, BeginFromBackup, Abort, MarkRetired, Backup, Idle
  <2>2. QED
    BY <1>0, <2>1, HistRest
<1>3. CASE Reseed
  <2>1. db' = [events |-> Nothing, cursor |-> NewCursor, past |-> db.past]
    BY <1>0, <1>3 DEF Reseed, DbShape
  <2>2. DbShape(db') /\ db'.past = db.past /\ db'.cursor.inst = None
    BY <2>1 DEF DbShape, NewCursor
  <2>3. QED
    BY <1>0, <1>3, <2>2, HistRest DEF Reseed
<1>4. CASE IdentityFails \/ Refused \/ SyncFails
  <2>1. pc' = "idle" /\ reg' = reg
    BY <1>4 DEF IdentityFails, Refused, SyncFails, Idle
  <2>2. \/ db' = db
        \/ \E inst \in {db.cursor.inst, Foreign} : db' = Marked(inst, "error")
        \/ db.past[reg] # None /\ \E st : db' = Marked(reg, st)
    BY <1>4 DEF IdentityFails, Refused, SyncFails, HistInv
  <2>3. QED
    BY <1>0, <2>1, <2>2, MarkedShape, HistRest
<1>5. CASE ReadMax \/ ReadPruned \/ ReadRows
  <2>1. /\ pc \in {"max", "pruned", "rows"} /\ pc' \in {"pruned", "rows", "import"}
        /\ UNCHANGED <<reg, db, op, target>>
    BY <1>5 DEF ReadMax, ReadPruned, ReadRows
  <2>2. QED
    BY <2>1 DEF HistInv, Nobody, Restored
<1>6. CASE IdentityOK
  <2>1. pc = "identity" /\ UNCHANGED <<reg, op, target>>
    BY <1>6 DEF IdentityOK
  <2>2. CASE op # "full" /\ db.past[reg] = None
    <3>1. db' = [db EXCEPT !.past = Retired(db.past)] /\ pc' = "record"
      BY <1>0, <1>6, <2>2 DEF IdentityOK, DbShape
    <3>2. DbShape(db') /\ db'.past = Retired(db.past) /\ db'.cursor = db.cursor
      BY <1>0, <3>1, PastShape
    <3>3. QED
      BY <1>0, <2>1, <2>2, <3>1, <3>2, RetiredFacts, ConstantsAssumption
      DEF CursorNames, Foreign, HistInv, Nobody, Restored
  <2>3. CASE ~ (op # "full" /\ db.past[reg] = None)
    <3>1. db' = db /\ pc' = "max"
      BY <1>6, <2>3 DEF IdentityOK
    <3>2. QED
      BY <2>1, <2>3, <3>1 DEF HistInv, Nobody, Restored
  <2>4. QED
    BY <2>2, <2>3
<1>7. CASE RecordInstance
  <2>1. /\ pc = "record" /\ pc' = "max" /\ UNCHANGED <<reg, op, target>>
        /\ db' = [db EXCEPT !.past = Inserted(db.past, reg)]
    BY <1>0, <1>7 DEF RecordInstance, DbShape
  <2>2. DbShape(db') /\ db'.past = Inserted(db.past, reg) /\ db'.cursor = db.cursor
    BY <1>0, <2>1, PastShape
  <2>3. Nobody(db.past)
    BY <2>1 DEF HistInv
  <2>4. QED
    BY <1>0, <2>1, <2>2, <2>3, InsertedFacts, ConstantsAssumption
    DEF CursorNames, Foreign, HistInv, Nobody, Restored
<1>8. CASE Import
  <2>1. /\ pc = "import" /\ UNCHANGED reg
        /\ pc' \in {"idle", "retire", "backup"}
    BY <1>8 DEF Import, Idle
  <2>2. DbShape(db') /\ db'.cursor.inst = reg
    BY <1>8 DEF Import, DbShape
  <2>3. db'.past = IF op = "full" THEN Recorded(db.past, reg) ELSE db.past
    BY <1>8 DEF Import
  <2>4. CASE op = "full" /\ db.past[reg] = None
    <3>1. db'.past = Inserted(Retired(db.past), reg)
      BY <2>3, <2>4 DEF Recorded
    <3>2. /\ Retired(db.past) \in [Host -> Recording] /\ Nobody(Retired(db.past))
          /\ \A h \in Host : db.past[h] # None => Retired(db.past)[h] # None
      BY <1>0, RetiredFacts
    <3>3. /\ db'.past \in [Host -> Recording] /\ db'.past[reg] # None
          /\ \A g \in Host : db'.past[g] = "active" => g = reg
      BY <1>0, <3>1, <3>2, InsertedFacts
    <3>4. QED
      BY <1>0, <2>1, <2>2, <3>3, ConstantsAssumption
      DEF CursorNames, Foreign, HistInv, Restored
  <2>5. CASE ~ (op = "full" /\ db.past[reg] = None)
    <3>1. db'.past = db.past /\ db.past[reg] # None
      BY <2>1, <2>3, <2>5 DEF Recorded, HistInv
    <3>2. QED
      BY <1>0, <2>1, <2>2, <3>1, HistRest
  <2>6. QED
    BY <2>4, <2>5
<1>9. CASE \E h \in Host : Restore(h)
  <2>1. UNCHANGED <<reg, db>>
        /\ (pc' = "idle" \/ (pc' = "verify" /\ target' \in Host))
    <3>1. PICK h \in Host : Restore(h)
      BY <1>9
    <3>2. (pc' = "verify" /\ target' = h) \/ Idle
      BY <3>1 DEF Restore
    <3>3. UNCHANGED <<reg, db>>
      BY <3>1 DEF Restore
    <3>4. QED
      BY <3>2, <3>3 DEF Idle
  <2>2. QED
    BY <2>1 DEF HistInv, Nobody, Restored
<1>10. CASE Verified
  <2>1. /\ pc = "verify" /\ pc' = "insert" /\ UNCHANGED <<reg, op, target>>
        /\ db' = [db EXCEPT !.past = Retired(db.past)]
    BY <1>0, <1>10 DEF Verified, DbShape
  <2>2. DbShape(db') /\ db'.past = Retired(db.past) /\ db'.cursor = db.cursor
    BY <1>0, <2>1, PastShape
  <2>3. QED
    BY <1>0, <2>1, <2>2, RetiredFacts, ConstantsAssumption
    DEF CursorNames, Foreign, HistInv, Nobody, Restored
<1>11. CASE InsertTarget
  <2>1. /\ pc = "insert" /\ pc' = "cursor" /\ UNCHANGED <<reg, op, target>>
        /\ db' = [db EXCEPT !.past = Inserted(db.past, target)]
    BY <1>0, <1>11 DEF InsertTarget, DbShape
  <2>2. DbShape(db') /\ db'.past = Inserted(db.past, target) /\ db'.cursor = db.cursor
    BY <1>0, <2>1, PastShape
  <2>3. Nobody(db.past) /\ target \in Host
    BY <2>1 DEF HistInv, Restored
  <2>4. QED
    BY <1>0, <2>1, <2>2, <2>3, InsertedFacts, ConstantsAssumption
    DEF CursorNames, Foreign, HistInv, Nobody, Restored
<1>12. CASE MoveCursor
  <2>1. /\ pc = "cursor" /\ pc' = "save" /\ UNCHANGED <<reg, op, target>>
        /\ db' = [db EXCEPT !.cursor.inst = target]
    BY <1>12 DEF MoveCursor
  <2>2. DbShape(db') /\ db'.past = db.past /\ db'.cursor.inst = target
    BY <1>0, <2>1, CursorShape
  <2>3. QED
    BY <2>1, <2>2, ConstantsAssumption
    DEF CursorNames, Foreign, HistInv, Nobody, Restored
<1>13. CASE SaveRegistry
  <2>1. pc = "save" /\ pc' = "idle" /\ reg' = target /\ UNCHANGED db
    BY <1>13 DEF SaveRegistry, Idle
  <2>2. target \in Host
    BY <2>1 DEF HistInv, Restored
  <2>3. QED
    BY <1>0, <2>1, <2>2, HistRest
<1>14. CASE Hosts \/ KeepBackup
  BY <1>1, <1>14 DEF Hosts, HostCloses, HostExpires, KeepBackup, command
<1>15. CASE UNCHANGED vars
  BY <1>1, <1>15 DEF vars, command
<1>16. QED
  BY <1>2, <1>3, <1>4, <1>5, <1>6, <1>7, <1>8, <1>9, <1>10, <1>11, <1>12, <1>13, <1>14,
     <1>15
     DEF Next, Controller, Sync, Move

(* At most one instance is active, and the cursor names one that has been  *)
(* recorded, wherever a sync or a move breaks off between its commits.     *)
THEOREM HistorySoundHolds == Spec => []HistorySound
<1>1. HistInv => HistorySound
  BY DEF HistInv, CursorNames, HistorySound
<1>2. QED
  BY <1>1, HistInit, HistStep, PTL DEF Spec

-----------------------------------------------------------------------------
(***************************************************************************)
(* The types, of the hosts' logs and of fleet.db; with older backups too.  *)
(***************************************************************************)
(* What a host or a backup holds: AuditLog's promises, and the event ids   *)
(* it has yet to use.                                                      *)
HostType(n) ==
  /\ n = [up |-> n.up, log |-> n.log, high |-> n.high, pruned |-> n.pruned,
          free |-> n.free]
  /\ n.up \in BOOLEAN /\ n.free \subseteq EventId
  /\ n.high \in Nat /\ n.pruned \in 0 .. n.high
  /\ n.log = [s \in DOMAIN n.log |-> n.log[s]]
  /\ DOMAIN n.log \subseteq 1 .. n.high
  /\ \A s \in DOMAIN n.log : n.log[s] \in Event
  /\ \A s \in 1 .. n.high : s > n.pruned => s \in DOMAIN n.log

RowsType(rows) ==
  /\ rows = [s \in DOMAIN rows |-> rows[s]]
  /\ \E b \in Nat : DOMAIN rows \subseteq 0 .. b
  /\ \A s \in DOMAIN rows : rows[s] \in Event

EventsType(ev) ==
  /\ DOMAIN ev \subseteq EventId
  /\ \A id \in DOMAIN ev : ev[id] \in [seq : Nat, origin : Host]

(* Whoever serves the node is up, and is about to.                         *)
HostSide ==
  /\ node = [h \in Host |-> node[h]]
  /\ \A h \in Host : HostType(node[h])
  /\ HostType(image) /\ HostType(kept)
  /\ reg \in Host /\ node[reg].up
  /\ pc = "restore" => image.up
  /\ pc \in Restored => target \in Host /\ node[target].up

CursorType(c) ==
  /\ c.seq \in Nat
  /\ c.kind \in {"export_seq", "event_id"} /\ c.status \in {"ok", "error", "expired"}

CopySide ==
  /\ life \in {"active", "retired"} /\ op \in Commands \cup {None}
  /\ target \in Host \cup {None} /\ after \in Nat
  /\ AnswerType(answer) /\ RowsType(answer.rows)
  /\ EventsType(db.events) /\ CursorType(db.cursor)

LEMMA AbsentType == HostType(Absent) /\ ~ Absent.up
BY DEF HostType, Absent, Nothing

LEMMA NoAnswerType == AnswerType(NoAnswer) /\ RowsType(NoAnswer.rows)
<1>1. NoAnswer.rows = Nothing /\ AnswerType(NoAnswer)
  BY DEF NoAnswer, AnswerType
<1>2. DOMAIN Nothing = {} /\ 0 \in Nat
  BY DEF Nothing
<1>3. RowsType(Nothing)
  BY <1>2 DEF RowsType, Nothing
<1>4. QED
  BY <1>1, <1>3

LEMMA ClosesType ==
  ASSUME HostSide, NEW h \in Host, NEW id \in EventId, HostCloses(h, id)
  PROVE  /\ node' = [g \in Host |-> node'[g]]
         /\ \A g \in Host : HostType(node'[g]) /\ node'[g].up = node[g].up
<1> DEFINE s == node[h].high + 1
           e == [id |-> id, origin |-> h]
           n == node[h]
           l == [t \in DOMAIN n.log \cup {s} |-> IF t = s THEN e ELSE n.log[t]]
           m == [up |-> n.up, log |-> l, high |-> s, pruned |-> n.pruned,
                 free |-> n.free \ {id}]
<1>1. node' = [node EXCEPT
        ![h].log  = [t \in DOMAIN @ \cup {s} |-> IF t = s THEN e ELSE @[t]],
        ![h].high = s,
        ![h].free = @ \ {id}]
  BY DEF HostCloses
<1>2. node' = [g \in Host |-> node'[g]] /\ \A g \in Host : g # h => node'[g] = node[g]
  BY <1>1 DEF HostSide
<1>3. node'[h] = m
  <2>1. n = [up |-> n.up, log |-> n.log, high |-> n.high, pruned |-> n.pruned,
             free |-> n.free]
    BY DEF HostSide, HostType
  <2>2. node = [g \in Host |-> node[g]]
    BY DEF HostSide
  <2> HIDE DEF s, e
  <2>3. QED
    BY <1>1, <2>1, <2>2
<1>4. HostType(m) /\ m.up = n.up
  <2>1. /\ m.up = n.up /\ m.log = l /\ m.high = s /\ m.pruned = n.pruned
        /\ m.free = n.free \ {id}
        /\ m = [up |-> m.up, log |-> m.log, high |-> m.high, pruned |-> m.pruned,
                free |-> m.free]
    OBVIOUS
  <2>2. HostType(n)
    BY DEF HostSide
  <2>3. e \in Event
    BY DEF Event
  <2>4. /\ DOMAIN l = DOMAIN n.log \cup {s} /\ l = [t \in DOMAIN l |-> l[t]]
        /\ l[s] = e /\ \A t \in DOMAIN n.log : t # s => l[t] = n.log[t]
    OBVIOUS
  <2> HIDE DEF m, l, e
  <2>5. /\ m.high \in Nat /\ m.pruned \in 0 .. m.high /\ DOMAIN m.log \subseteq 1 .. m.high
        /\ \A t \in 1 .. m.high : t > m.pruned => t \in DOMAIN m.log
    BY <2>1, <2>2, <2>4 DEF HostType
  <2> HIDE DEF s, n
  <2>6. \A t \in DOMAIN l : l[t] \in Event
    BY <2>2, <2>3, <2>4 DEF HostType
  <2>7. m.up \in BOOLEAN /\ m.free \subseteq EventId
    BY <2>1, <2>2 DEF HostType
  <2>8. QED
    BY <2>1, <2>4, <2>5, <2>6, <2>7 DEF HostType
<1>5. QED
  BY <1>2, <1>3, <1>4 DEF HostSide

LEMMA ExpiresType ==
  ASSUME HostSide, NEW h \in Host, NEW s \in DOMAIN node[h].log, HostExpires(h, s)
  PROVE  /\ node' = [g \in Host |-> node'[g]]
         /\ \A g \in Host : HostType(node'[g]) /\ node'[g].up = node[g].up
<1> DEFINE n == node[h]
           l == Restrict(n.log, DOMAIN n.log \ {s})
           p == Max({n.pruned, s})
           m == [up |-> n.up, log |-> l, high |-> n.high, pruned |-> p, free |-> n.free]
<1>1. node' = [node EXCEPT ![h].log    = Restrict(@, DOMAIN @ \ {s}),
                           ![h].pruned = Max({@, s})]
  BY DEF HostExpires
<1>2. node' = [g \in Host |-> node'[g]] /\ \A g \in Host : g # h => node'[g] = node[g]
  BY <1>1 DEF HostSide
<1>3. node'[h] = m
  <2>1. n = [up |-> n.up, log |-> n.log, high |-> n.high, pruned |-> n.pruned,
             free |-> n.free]
    BY DEF HostSide, HostType
  <2>2. node = [g \in Host |-> node[g]]
    BY DEF HostSide
  <2>3. QED
    BY <1>1, <2>1, <2>2
<1>4. HostType(n) /\ s \in DOMAIN n.log
  BY DEF HostSide
<1>5. /\ m.up = n.up /\ m.log = l /\ m.high = n.high /\ m.free = n.free /\ m.pruned = p
      /\ m = [up |-> m.up, log |-> m.log, high |-> m.high, pruned |-> m.pruned,
              free |-> m.free]
  OBVIOUS
<1>6. /\ DOMAIN l = DOMAIN n.log \ {s} /\ \A t \in DOMAIN l : l[t] = n.log[t]
      /\ l = [t \in DOMAIN l |-> l[t]]
  BY DEF Restrict
<1> HIDE DEF m, l, n
<1>7. n.pruned \in Nat /\ s \in Nat /\ n.high \in Nat /\ s <= n.high /\ n.pruned <= n.high
  BY <1>4 DEF HostType
<1>8. p \in {n.pruned, s} /\ n.pruned <= p /\ s <= p
  <2> DEFINE T == {n.pruned, s}
  <2>1. T \subseteq Nat /\ T # {} /\ \A y \in T : y <= n.high
    BY <1>7
  <2> HIDE DEF T
  <2>2. Max(T) \in T /\ \A y \in T : y <= Max(T)
    BY <1>7, <2>1, MaxOfNaturals
  <2>3. QED
    BY <2>2 DEF T
<1> HIDE DEF p
<1>9. /\ m.pruned \in 0 .. m.high /\ DOMAIN m.log \subseteq 1 .. m.high
      /\ \A t \in 1 .. m.high : t > m.pruned => t \in DOMAIN m.log
  BY <1>4, <1>5, <1>6, <1>7, <1>8 DEF HostType
<1>10. HostType(m)
  BY <1>4, <1>5, <1>6, <1>9 DEF HostType
<1>11. QED
  BY <1>2, <1>3, <1>5, <1>10, n = node[h] DEF HostSide, n

(* The hosts, and the backups.                                             *)
LEMMA HostSideStep ==
  ASSUME HostSide, HistInv', Next
  PROVE  HostSide'
<1>0. reg' \in Host /\ (pc' \in Restored => target' \in Host)
  BY DEF HistInv
<1>1. CASE Hosts
  <2>1. PICK h \in Host : \/ \E id \in EventId : HostCloses(h, id)
                         \/ \E s \in DOMAIN node[h].log : HostExpires(h, s)
    BY <1>1 DEF Hosts
  <2>2. UNCHANGED <<reg, pc, target, image, kept>>
    BY <2>1 DEF HostCloses, HostExpires, command
  <2>3. /\ node' = [g \in Host |-> node'[g]]
        /\ \A g \in Host : HostType(node'[g]) /\ node'[g].up = node[g].up
    BY <2>1, ClosesType, ExpiresType
  <2>4. QED
    BY <2>2, <2>3 DEF HostSide
<1>2. CASE \E h \in Host : Restore(h)
  <2>1. PICK h \in Host : Restore(h)
    BY <1>2
  <2>2. /\ pc = "restore" /\ ~ node[h].up /\ node' = [node EXCEPT ![h] = image]
        /\ reg' = reg /\ kept' = kept
        /\ \/ pc' = "verify" /\ target' = h /\ image' = image
           \/ pc' = "idle" /\ image' = Absent
    BY <2>1 DEF Restore, Idle
  <2>3. h # reg
    BY <2>2 DEF HostSide
  <2>4. /\ node' = [g \in Host |-> node'[g]] /\ node'[h] = image
        /\ \A g \in Host \ {h} : node'[g] = node[g]
    BY <2>2 DEF HostSide
  <2>5. QED
    BY <2>2, <2>3, <2>4, AbsentType DEF HostSide, Restored
<1>3. CASE SaveRegistry
  <2>1. /\ pc = "save" /\ reg' = target /\ pc' = "idle" /\ image' = Absent
        /\ UNCHANGED <<node, kept>>
    BY <1>3 DEF SaveRegistry, Idle
  <2>2. QED
    BY <2>1, AbsentType DEF HostSide, Restored
<1>4. CASE Backup \/ KeepBackup \/ BeginFromBackup
  <2>1. /\ UNCHANGED <<node, reg, target>>
        /\ \/ pc' = "restore" /\ image' = node[reg] /\ kept' = kept
           \/ pc' = pc /\ image' = image /\ kept' = node[reg]
           \/ pc' = "restore" /\ image' = kept /\ kept' = kept /\ kept.up
    BY <1>4 DEF Backup, KeepBackup, BeginFromBackup, command
  <2>2. QED
    BY <2>1 DEF HostSide, Restored
<1>5. CASE /\ UNCHANGED <<node, reg, kept>> /\ image' \in {image, Absent}
           /\ pc' # "restore"
           /\ pc' \in Restored => pc \in Restored /\ target' = target
  BY <1>5, AbsentType DEF HostSide
<1>6. CASE Verified \/ InsertTarget \/ MoveCursor
  BY <1>5, <1>6 DEF Verified, InsertTarget, MoveCursor, Restored
<1>7. CASE IdentityFails \/ SyncFails \/ Refused \/ Abort \/ MarkRetired
  BY <1>5, <1>7 DEF IdentityFails, SyncFails, Refused, Abort, MarkRetired, Idle, Restored
<1>8. CASE Import
  BY <1>5, <1>8 DEF Import, Idle, Restored
<1>9. CASE IdentityOK \/ RecordInstance \/ ReadMax \/ ReadPruned \/ ReadRows
  BY <1>5, <1>9 DEF IdentityOK, RecordInstance, ReadMax, ReadPruned, ReadRows, Restored
<1>10. CASE Reseed \/ \E o \in {"sync", "full", "retire", "replace"} : Begin(o)
  BY <1>5, <1>10 DEF Reseed, Begin, Restored
<1>11. QED
  BY <1>1, <1>2, <1>3, <1>4, <1>6, <1>7, <1>8, <1>9, <1>10
     DEF Next, Controller, Sync, Move

(* What an import writes.                                                  *)
LEMMA ImportType ==
  ASSUME NEW ev, NEW rows, EventsType(ev), RowsType(rows), after \in Nat
  PROVE  EventsType(Upserted(ev, rows)) /\ NextCursor(rows) \in Nat
<1>1. PICK b \in Nat : DOMAIN rows \subseteq 0 .. b
  BY DEF RowsType
<1>2. \A s \in DOMAIN rows : /\ s \in Nat /\ s <= b /\ rows[s].id \in EventId
                             /\ rows[s].origin \in Host
  BY <1>1 DEF RowsType, Event
<1>3. NextCursor(rows) \in Nat
  <2>1. CASE DOMAIN rows = {}
    BY <2>1 DEF RowsType, NextCursor, Nothing
  <2>2. CASE DOMAIN rows # {}
    <3>1. DOMAIN rows \subseteq Nat
      BY <1>2
    <3>2. Max(DOMAIN rows) \in DOMAIN rows
      BY <1>2, <2>2, <3>1, MaxOfNaturals
    <3>3. QED
      BY <1>2, <2>2, <3>2 DEF NextCursor, Nothing
  <2>3. QED
    BY <2>1, <2>2
<1>4. DOMAIN Upserted(ev, rows) \subseteq EventId
  BY <1>2 DEF Upserted, EventsType
<1>5. ASSUME NEW id \in DOMAIN Upserted(ev, rows)
      PROVE  Upserted(ev, rows)[id] \in [seq : Nat, origin : Host]
  <2>1. CASE \E s \in DOMAIN rows : rows[s].id = id
    <3> DEFINE s == CHOOSE s \in DOMAIN rows : rows[s].id = id
    <3>1. Upserted(ev, rows)[id] = [seq |-> s, origin |-> rows[s].origin]
      BY <2>1 DEF Upserted
    <3>2. s \in DOMAIN rows
      BY <2>1
    <3> HIDE DEF s
    <3>3. QED
      BY <1>2, <3>1, <3>2
  <2>2. CASE ~ \E s \in DOMAIN rows : rows[s].id = id
    BY <2>2 DEF Upserted, EventsType
  <2>3. QED
    BY <2>1, <2>2
<1>6. QED
  BY <1>3, <1>4, <1>5 DEF EventsType

(* The controller's side.                                                  *)
LEMMA CopySideStep ==
  ASSUME HostSide, HistInv, CopySide, Next
  PROVE  CopySide'
<1>0. /\ DbShape(db) /\ reg \in Host /\ (pc \in Restored => target \in Host)
      /\ EventsType(db.events) /\ CursorType(db.cursor)
  BY DEF HistInv, CopySide
<1>1. /\ life' \in {"active", "retired"} /\ op' \in Commands \cup {None}
      /\ target' \in Host \cup {None}
  <2>1. life' \in {"active", "retired"}
    BY DEF CopySide, Next, Controller, Hosts, Sync, Move, Idle, Commands, Begin,
           BeginFromBackup, Reseed, IdentityOK, RecordInstance, ReadMax, ReadPruned,
           ReadRows, Import, Refused, MarkRetired, Backup, Restore, Verified,
           InsertTarget, MoveCursor, SaveRegistry, IdentityFails, SyncFails, Abort,
           KeepBackup, HostCloses, HostExpires, command
  <2>2. op' \in Commands \cup {None}
    BY DEF CopySide, Next, Controller, Hosts, Sync, Move, Idle, Commands, Begin,
           BeginFromBackup, Reseed, IdentityOK, RecordInstance, ReadMax, ReadPruned,
           ReadRows, Import, Refused, MarkRetired, Backup, Restore, Verified,
           InsertTarget, MoveCursor, SaveRegistry, IdentityFails, SyncFails, Abort,
           KeepBackup, HostCloses, HostExpires, command
  <2>3. target' \in Host \cup {None}
    BY DEF CopySide, Next, Controller, Hosts, Sync, Move, Idle, Commands, Begin,
           BeginFromBackup, Reseed, IdentityOK, RecordInstance, ReadMax, ReadPruned,
           ReadRows, Import, Refused, MarkRetired, Backup, Restore, Verified,
           InsertTarget, MoveCursor, SaveRegistry, IdentityFails, SyncFails, Abort,
           KeepBackup, HostCloses, HostExpires, command
  <2>4. QED
    BY <2>1, <2>2, <2>3
<1>2. after' \in Nat
  <2>1. after' \in {after, 0, db.cursor.seq}
    BY DEF Next, Controller, Hosts, Sync, Move, Idle, Begin, BeginFromBackup,
         Reseed, IdentityOK, RecordInstance, ReadMax, ReadPruned, ReadRows, Import, Refused,
         MarkRetired, Backup, Restore, Verified, InsertTarget, MoveCursor, SaveRegistry,
         IdentityFails, SyncFails, Abort, KeepBackup, HostCloses, HostExpires, command
  <2>2. QED
    BY <1>0, <2>1 DEF CopySide, CursorType
<1>3. AnswerType(answer') /\ RowsType(answer'.rows)
  <2>1. CASE ReadMax
    <3>1. answer' = [max |-> node[reg].high, rows |-> answer.rows]
      BY <2>1 DEF ReadMax, CopySide, AnswerType
    <3>2. answer'.rows = answer.rows
      BY <3>1
    <3>3. QED
      BY <3>1, <3>2 DEF AnswerType, CopySide
  <2>2. CASE ReadRows
    <3> DEFINE n == node[reg]
               rows == Restrict(n.log, {s \in DOMAIN n.log : s > after})
    <3>1. answer' = [max |-> answer.max, rows |-> rows]
      BY <2>2 DEF ReadRows, CopySide, AnswerType
    <3>2. HostType(n)
      BY <1>0 DEF HostSide
    <3>3. /\ DOMAIN rows \subseteq DOMAIN n.log /\ \A s \in DOMAIN rows : rows[s] = n.log[s]
          /\ rows = [s \in DOMAIN rows |-> rows[s]]
      BY DEF Restrict
    <3> HIDE DEF rows, n
    <3>4. n.high \in Nat /\ DOMAIN rows \subseteq 0 .. n.high
          /\ \A s \in DOMAIN rows : rows[s] \in Event
      BY <3>2, <3>3 DEF HostType
    <3>5. RowsType(rows)
      BY <3>3, <3>4 DEF RowsType
    <3>6. answer'.rows = rows /\ AnswerType(answer')
      BY <3>1 DEF AnswerType
    <3>7. QED
      BY <3>5, <3>6
  <2>3. CASE ~ ReadMax /\ ~ ReadRows
    <3>1. answer' \in {answer, NoAnswer}
      BY <2>3 DEF Next, Controller, Hosts, Sync, Move, Idle, Begin, BeginFromBackup,
         Reseed, IdentityOK, RecordInstance, ReadPruned, Import, Refused,
         MarkRetired, Backup, Restore, Verified, InsertTarget, MoveCursor, SaveRegistry,
         IdentityFails, SyncFails, Abort, KeepBackup, HostCloses, HostExpires, command
    <3>2. QED
      BY <3>1, NoAnswerType DEF CopySide
  <2>4. QED
    BY <2>1, <2>2, <2>3
<1>4. EventsType(db'.events) /\ CursorType(db'.cursor)
  <2>1. CASE Import
    <3>1. /\ db'.events = Upserted(db.events, answer.rows)
          /\ db'.cursor = [seq |-> NextCursor(answer.rows), inst |-> reg,
                           kind |-> "export_seq", status |-> "ok"]
      BY <2>1 DEF Import
    <3>2. EventsType(Upserted(db.events, answer.rows)) /\ NextCursor(answer.rows) \in Nat
      BY ImportType DEF CopySide
    <3>3. QED
      BY <3>1, <3>2 DEF CursorType
  <2>2. CASE Reseed
    <3>1. db' = [events |-> Nothing, cursor |-> NewCursor, past |-> db.past]
      BY <1>0, <2>2 DEF Reseed, DbShape
    <3>2. QED
      BY <3>1 DEF EventsType, CursorType, Nothing, NewCursor
  <2>3. CASE IdentityFails \/ Refused \/ SyncFails
    <3>1. \/ db' = db
          \/ \E inst : \E st \in {"error", "expired"} : db' = Marked(inst, st)
      BY <2>3 DEF IdentityFails, Refused, SyncFails
    <3>2. ASSUME NEW inst, NEW st \in {"error", "expired"}, db' = Marked(inst, st)
          PROVE  EventsType(db'.events) /\ CursorType(db'.cursor)
      <4>1. /\ db'.events = db.events /\ db'.cursor.seq = db.cursor.seq
            /\ db'.cursor.kind = db.cursor.kind /\ db'.cursor.status = st
        BY <1>0, <3>2 DEF Marked, DbShape
      <4>2. QED
        BY <1>0, <4>1 DEF CursorType
    <3>3. QED
      BY <1>0, <3>1, <3>2
  <2>4. CASE IdentityOK \/ RecordInstance \/ Verified \/ InsertTarget
    <3>1. db' = db \/ \E past : db' = [db EXCEPT !.past = past]
      <4>1. CASE IdentityOK
        <5>1. db' \in {db, [db EXCEPT !.past = Retired(db.past)]}
          BY <1>0, <4>1 DEF IdentityOK, DbShape
        <5>2. QED
          BY <5>1
      <4>2. CASE RecordInstance
        <5>1. db' = [db EXCEPT !.past = Inserted(db.past, reg)]
          BY <1>0, <4>2 DEF RecordInstance, DbShape
        <5>2. QED
          BY <5>1
      <4>3. CASE Verified
        <5>1. db' = [db EXCEPT !.past = Retired(db.past)]
          BY <1>0, <4>3 DEF Verified, DbShape
        <5>2. QED
          BY <5>1
      <4>4. CASE InsertTarget
        <5>1. db' = [db EXCEPT !.past = Inserted(db.past, target)]
          BY <1>0, <4>4 DEF InsertTarget, DbShape
        <5>2. QED
          BY <5>1
      <4>5. QED
        BY <2>4, <4>1, <4>2, <4>3, <4>4
    <3>2. db'.events = db.events /\ db'.cursor = db.cursor
      BY <1>0, <3>1, PastShape
    <3>3. QED
      BY <1>0, <3>2
  <2>5. CASE MoveCursor
    <3>1. db' = [db EXCEPT !.cursor.inst = target]
      BY <2>5 DEF MoveCursor
    <3>2. QED
      BY <1>0, <3>1 DEF DbShape, CursorType
  <2>6. CASE db' = db
    BY <1>0, <2>6
  <2>7. QED
    BY <2>1, <2>2, <2>3, <2>4, <2>5, <2>6
    DEF Next, Controller, Hosts, Sync, Move, Begin, BeginFromBackup, ReadMax, ReadPruned,
        ReadRows, MarkRetired, Backup, Restore, SaveRegistry, Abort, KeepBackup, HostCloses,
        HostExpires
<1>5. QED
  BY <1>1, <1>2, <1>3, <1>4 DEF CopySide

LEMMA TypeInit == Init => HostSide /\ CopySide
<1> SUFFICES ASSUME Init PROVE HostSide /\ CopySide
  OBVIOUS
<1>1. /\ reg = First /\ First \in Host /\ pc = "idle" /\ life = "active" /\ op = None
      /\ after = 0 /\ answer = NoAnswer /\ image = Absent /\ target = None /\ kept = Absent
  BY ConstantsAssumption DEF Init
<1>2. CASE /\ node = [h \in Host |->
                       IF h = First THEN [Absent EXCEPT !.up = TRUE, !.free = EventId]
                                    ELSE Absent]
           /\ db = [events |-> Nothing, cursor |-> NewCursor,
                    past |-> [h \in Host |-> None]]
  <2> DEFINE n == [up |-> TRUE, log |-> Nothing, high |-> 0, pruned |-> 0, free |-> EventId]
  <2>1. node[First] = n /\ node = [h \in Host |-> node[h]]
    BY <1>1, <1>2 DEF Absent
  <2>2. HostType(n) /\ n.up
    BY DEF HostType, Nothing
  <2> HIDE DEF n
  <2>3. HostSide
    BY <1>1, <1>2, <2>1, <2>2, AbsentType DEF HostSide, Restored
  <2>4. EventsType(db.events) /\ CursorType(db.cursor)
    BY <1>2 DEF EventsType, CursorType, Nothing, NewCursor
  <2>5. QED
    BY <1>1, <2>3, <2>4, NoAnswerType DEF CopySide
<1>3. ASSUME NEW id \in EventId, NEW S \in SUBSET EventId,
             node = [h \in Host |->
                       IF h = First
                         THEN [up |-> TRUE, log |-> [s \in {1} |-> [id |-> id, origin |-> h]],
                               high |-> 1, pruned |-> 0, free |-> EventId \ {id}]
                         ELSE Absent],
             db = [events |-> [i \in S |-> [seq |-> 0, origin |-> First]],
                   cursor |-> [NewCursor EXCEPT !.inst = First, !.kind = "event_id"],
                   past   |-> [h \in Host |-> IF h = First THEN "active" ELSE None]]
      PROVE  HostSide /\ CopySide
  <2> DEFINE log == [s \in {1} |-> [id |-> id, origin |-> First]]
             n == [up |-> TRUE, log |-> log, high |-> 1, pruned |-> 0,
                   free |-> EventId \ {id}]
  <2>1. node[First] = n /\ node = [h \in Host |-> node[h]]
    BY <1>1, <1>3
  <2>2. DOMAIN log = {1} /\ log[1] \in Event /\ log = [s \in DOMAIN log |-> log[s]]
    BY <1>1 DEF Event
  <2> HIDE DEF log
  <2>3. HostType(n) /\ n.up
    BY <2>2 DEF HostType
  <2> HIDE DEF n
  <2>4. HostSide
    BY <1>1, <1>3, <2>1, <2>3, AbsentType DEF HostSide, Restored
  <2>5. EventsType(db.events) /\ CursorType(db.cursor)
    BY <1>1, <1>3 DEF EventsType, CursorType, NewCursor
  <2>6. QED
    BY <1>1, <2>4, <2>5, NoAnswerType DEF CopySide
<1>4. QED
  BY <1>2, <1>3 DEF Init

LEMMA TypeStep ==
  HistInv /\ HistInv' /\ HostSide /\ CopySide /\ [Next]_vars => HostSide' /\ CopySide'
<1>1. CASE UNCHANGED vars
  BY <1>1 DEF vars, command, HostSide, CopySide
<1>2. QED
  BY <1>1, HostSideStep, CopySideStep

(* Every host's log keeps the promises of AuditLog and the node is always  *)
(* served by a host that is up, whatever moves break off and whatever      *)
(* backups are restored.                                                   *)
THEOREM TypeCorrect == Spec => []TypeOK
<1>1. HistInv /\ HostSide /\ CopySide => TypeOK
  <2> SUFFICES ASSUME HistInv, HostSide, CopySide PROVE TypeOK
    OBVIOUS
  <2>1. ASSUME NEW h \in Host
        PROVE  node[h].up \in BOOLEAN /\ node[h].free \subseteq EventId /\ Log(h)!LogInv
    BY DEF HostSide, HostType, Log!LogInv, Log!TypeOK, Log!NoSilentHole
  <2>2. db.cursor \in [seq : Nat, inst : Host \cup {None, Foreign},
                       kind : {"export_seq", "event_id"}, status : {"ok", "error", "expired"}]
    BY DEF HistInv, CursorNames, DbShape, CopySide, CursorType
  <2>3. DOMAIN node = Host /\ reg \in Host /\ node[reg].up
    BY DEF HostSide
  <2>4. pc \in {"insert", "cursor", "save"} => target \in Host
    BY DEF HistInv, Restored
  <2>5. QED
    BY <2>1, <2>2, <2>3, <2>4 DEF TypeOK, CopySide, EventsType, HistInv, Recording
<1>2. QED
  BY <1>1, HistInit, HistStep, TypeInit, TypeStep, PTL DEF Spec

=============================================================================
