-------------------------- MODULE FleetUsersProofs --------------------------
(***************************************************************************)
(* What the controller says of a user on a node stays true: a user keeps   *)
(* his user_id, SUCCESS is never taken back, a disabled user stays off -   *)
(* for any nodes, users and runs, whatever commands are lost, race or die. *)
(*                                                                         *)
(* A node's lock makes its holder the only writer, so that a command's     *)
(* change and its undoing are exact (HeldInv).  A run waits for one        *)
(* command at a time, the one that does its next task (WaitInv), so that   *)
(* an "ok" is about that task.  What is firm stays so: an add never        *)
(* replaces a user, and a registry without him is put back only by the     *)
(* command that added him (FirmInv).  What is settled stays off, since     *)
(* nothing that would put him on is under way (SettledInv).                *)
(***************************************************************************)
EXTENDS FleetUsers, FiniteSetTheorems, SequenceTheorems,
        WellFoundedInduction, TLAPS

(* A nonempty set of naturals has a least element: the initial segments    *)
(* 0..n are finite sets, and strict inclusion is well founded on those.    *)
LEMMA LeastNatural ==
  ASSUME NEW T, T \subseteq Nat, T # {}
  PROVE  \E x \in T : \A y \in T : x <= y
<1> DEFINE U == {0 .. n : n \in T}
<1>1. U \subseteq FiniteSubsetsOf(Nat)
  <2>1. \A n \in T : 0 .. n \subseteq Nat /\ IsFiniteSet(0 .. n)
    BY FS_Interval
  <2>2. QED
    BY <2>1 DEF FiniteSubsetsOf
<1>2. PICK X \in U : \A Y \in U : ~ (<<Y, X>> \in StrictSubsetOrdering(Nat))
  <2>1. IsWellFoundedOn(StrictSubsetOrdering(Nat), FiniteSubsetsOf(Nat))
    BY FS_StrictSubsetOrderingWellFounded
  <2>2. U # {}
    OBVIOUS
  <2> HIDE DEF U
  <2>3. QED
    BY <1>1, <2>1, <2>2, WFMin
<1>3. PICK n \in T : X = 0 .. n
  OBVIOUS
<1>4. ASSUME NEW m \in T, m < n
      PROVE  FALSE
  <2>1. 0 .. m \in U
    OBVIOUS
  <2>2. 0 .. m \subseteq 0 .. n /\ 0 .. m # 0 .. n
    BY <1>4, n \in 0 .. n, n \notin 0 .. m
  <2>3. 0 .. m \in SUBSET Nat /\ 0 .. n \in SUBSET Nat
    OBVIOUS
  <2>4. <<0 .. m, 0 .. n>> \in StrictSubsetOrdering(Nat)
    BY <2>2, <2>3 DEF StrictSubsetOrdering
  <2>5. QED
    BY <2>1, <2>4, <1>2, <1>3
<1>5. QED
  BY <1>4

(* A user of a registry is there under a user_id, or not at all.           *)
Sound(reg) == \A t \in Tag : reg[t] = Absent \/ reg[t].uid \in Uid

(* What a command with the lock has staged is its change of what it saved; *)
(* nobody else writes the registry meanwhile.                              *)
Held(n, s) ==
  LET c == remote[n][s]
  IN  /\ c.phase # "free" => c.tag \in Tag /\ (c.op = "add" => c.uid \in Uid)
      /\ c.phase \in {"staged", "installed"} =>
           /\ Sound(c.saved) /\ Allowed(c.saved, c) /\ c.staged = Changed(c.saved, c)
           /\ users[n] = IF c.phase = "staged" THEN c.saved ELSE c.staged

HeldInv ==
  /\ \A n \in Node : Sound(users[n])
  /\ \A n \in Node, s \in Slot : Held(n, s)

(* A run has results for the first tasks of its plan, and a next task      *)
(* until it reports.                                                       *)
PlanInv ==
  \A r \in Run :
    /\ pc[r] = "idle" => row[r] = << >>
    /\ Len(row[r]) <= Len(plan[r])
    /\ pc[r] \in {"show", "send", "wait"} => Len(row[r]) < Len(plan[r])

(* A command that a run waits for is the one command it waits for, and     *)
(* does its next task.                                                     *)
Asked(n, s) ==
  LET c == remote[n][s]
      k == TaskOf(c.by)
  IN  c.by # None =>
        /\ pc[c.by] = "wait" /\ c.phase # "free"
        /\ n = k.node /\ c.tag = k.tag /\ c.op = op[c.by]
        /\ c.op = "add" => c.uid = k.uid
        /\ \A z \in Slot : remote[n][z].by = c.by => z = s

WaitInv == \A n \in Node, s \in Slot : Asked(n, s)

(* The user is there, and no command under way can take him away again.    *)
Firm(n, t, u) ==
  /\ users[n][t].uid = u
  /\ \A s \in Slot : remote[n][s].phase = "installed" => remote[n][s].saved[t] # Absent

FirmCommand(n, s) ==
  LET c == remote[n][s]
  IN  c.phase = "ok" /\ c.op = "add" => Firm(n, c.tag, c.uid)

FirmRow(r, i) ==
  row[r][i].ok /\ row[r][i].firm => Firm(plan[r][i].node, plan[r][i].tag, plan[r][i].uid)

FirmInv ==
  /\ \A n \in Node, s \in Slot : FirmCommand(n, s)
  /\ \A r \in Run : op[r] = "add" => \A i \in DOMAIN row[r] : FirmRow(r, i)
  /\ \A w \in told : w.firm => Firm(w.task.node, w.task.tag, w.task.uid)

(* He is there but off.                                                    *)
Off(reg, t) == reg[t].uid \in Uid /\ ~ reg[t].on

Enables(c, t) == Running(c) /\ c.op = "enable" /\ c.tag = t

(* A settled user is there and off, nothing under way puts him back on.    *)
Calm(n, t) ==
  /\ Off(users[n], t)
  /\ \A s \in Slot :
       /\ remote[n][s].phase = "installed" => Off(remote[n][s].saved, t)
       /\ ~ Enables(remote[n][s], t)

SettledInv == \A n \in Node, t \in Tag : <<n, t>> \in settled => Calm(n, t)

IndInv ==
  /\ TypeOK
  /\ HeldInv
  /\ PlanInv
  /\ WaitInv
  /\ FirmInv
  /\ SettledInv

-----------------------------------------------------------------------------
(***************************************************************************)
(* Registries and commands.                                                *)
(***************************************************************************)
LEMMA NoneIsNew ==
  None \notin Run /\ None \notin Slot /\ None \notin Uid /\ None \notin Tag
  BY ConstantsAssumption DEF None

LEMMA NoUsersSound == NoUsers \in [Tag -> Entry] /\ Sound(NoUsers)
  BY DEF NoUsers, Absent, Entry, Sound

LEMMA FreeIsCommand == Free \in Command
  BY NoUsersSound DEF Free, Command

LEMMA ChangedSound ==
  ASSUME NEW reg \in [Tag -> Entry], Sound(reg), NEW c \in Command,
         c.tag \in Tag, c.op = "add" => c.uid \in Uid, Allowed(reg, c)
  PROVE  Changed(reg, c) \in [Tag -> Entry] /\ Sound(Changed(reg, c))
<1>1. CASE c.op = "add"
  <2>1. [uid |-> c.uid, on |-> TRUE] \in Entry
    BY <1>1 DEF Entry
  <2>2. Changed(reg, c) = [reg EXCEPT ![c.tag] = [uid |-> c.uid, on |-> TRUE]]
    BY <1>1 DEF Changed
  <2>3. QED
    BY <1>1, <2>1, <2>2 DEF Sound
<1>2. CASE c.op # "add"
  <2> DEFINE e == [reg[c.tag] EXCEPT !.on = (c.op = "enable")]
  <2>1. Changed(reg, c) = [reg EXCEPT ![c.tag] = e]
    BY <1>2 DEF Changed
  <2>2. reg[c.tag] \in Entry /\ reg[c.tag].uid \in Uid
    BY <1>2 DEF Allowed, Sound
  <2>3. e \in Entry /\ e.uid \in Uid
    BY <2>2 DEF Entry
  <2> HIDE DEF e
  <2>4. QED
    BY <2>1, <2>3 DEF Sound
<1>3. QED
  BY <1>1, <1>2

(* No change takes a user away or gives him another user_id.               *)
LEMMA ChangedKeeps ==
  ASSUME NEW reg \in [Tag -> Entry], Sound(reg), NEW c \in Command,
         c.tag \in Tag, c.op = "add" => c.uid \in Uid, Allowed(reg, c),
         NEW t \in Tag, reg[t] # Absent
  PROVE  Changed(reg, c)[t].uid = reg[t].uid /\ Changed(reg, c)[t] # Absent
<1>1. reg[t] \in Entry /\ reg[t].uid \in Uid
  BY DEF Sound
<1>2. CASE t # c.tag
  <2>1. Changed(reg, c)[t] = reg[t]
    BY <1>2 DEF Changed
  <2>2. QED
    BY <2>1
<1>3. CASE t = c.tag
  <2>1. c.op # "add"
    BY <1>3 DEF Allowed
  <2> DEFINE e == [reg[t] EXCEPT !.on = (c.op = "enable")]
  <2>2. Changed(reg, c)[t] = e
    BY <1>3, <2>1 DEF Changed
  <2>3. e.uid = reg[t].uid
    BY <1>1 DEF Entry
  <2>4. e # Absent
    BY <2>3, <1>1, NoneIsNew DEF Absent
  <2> HIDE DEF e
  <2>5. QED
    BY <2>2, <2>3, <2>4
<1>4. QED
  BY <1>2, <1>3

(* Only an enable turns a user on who is off.                              *)
LEMMA ChangedKeepsOff ==
  ASSUME NEW reg \in [Tag -> Entry], Sound(reg), NEW c \in Command,
         c.tag \in Tag, c.op = "add" => c.uid \in Uid, Allowed(reg, c),
         NEW t \in Tag, Off(reg, t), ~ (c.op = "enable" /\ c.tag = t)
  PROVE  Off(Changed(reg, c), t)
<1>1. reg[t] \in Entry /\ reg[t].uid \in Uid /\ reg[t] # Absent
  BY NoneIsNew DEF Off, Absent
<1>2. CASE t # c.tag
  <2>1. Changed(reg, c)[t] = reg[t]
    BY <1>2 DEF Changed
  <2>2. QED
    BY <2>1 DEF Off
<1>3. CASE t = c.tag
  <2>1. c.op = "disable"
    BY <1>1, <1>3 DEF Allowed, Command
  <2> DEFINE e == [reg[t] EXCEPT !.on = (c.op = "enable")]
  <2>2. Changed(reg, c)[t] = e
    BY <1>3, <2>1 DEF Changed
  <2>3. e.uid = reg[t].uid /\ e.on = FALSE
    BY <1>1, <2>1 DEF Entry
  <2> HIDE DEF e
  <2>4. QED
    BY <1>1, <2>2, <2>3 DEF Off
<1>4. QED
  BY <1>2, <1>3

(* What a disable leaves, and what an add does.                            *)
LEMMA DisabledIsOff ==
  ASSUME NEW reg \in [Tag -> Entry], Sound(reg), NEW c \in Command,
         c.tag \in Tag, c.op = "disable", Allowed(reg, c)
  PROVE  Off(Changed(reg, c), c.tag)
<1> DEFINE e == [reg[c.tag] EXCEPT !.on = (c.op = "enable")]
<1>1. reg[c.tag] \in Entry /\ reg[c.tag].uid \in Uid
  BY DEF Sound, Allowed
<1>2. Changed(reg, c)[c.tag] = e
  BY DEF Changed
<1>3. e.uid = reg[c.tag].uid /\ e.on = FALSE
  BY <1>1 DEF Entry
<1> HIDE DEF e
<1>4. QED
  BY <1>1, <1>2, <1>3 DEF Off

LEMMA AddedIsThere ==
  ASSUME NEW reg \in [Tag -> Entry], NEW c \in Command,
         c.tag \in Tag, c.op = "add", c.uid \in Uid, Allowed(reg, c)
  PROVE  Changed(reg, c)[c.tag].uid = c.uid /\ Changed(reg, c) # reg
<1>1. Changed(reg, c)[c.tag] = [uid |-> c.uid, on |-> TRUE]
  BY DEF Changed
<1>2. reg[c.tag] = Absent
  BY DEF Allowed
<1>3. QED
  BY <1>1, <1>2, NoneIsNew DEF Absent

-----------------------------------------------------------------------------
(***************************************************************************)
(* Plans.                                                                  *)
(***************************************************************************)
Tasks == {p \in Seq(Task) : Len(p) > 0}

LEMMA ListsAreSequences ==
  ASSUME NEW S, IsFiniteSet(S), NEW s \in Lists(S)
  PROVE  s \in Seq(S) /\ Len(s) > 0
<1>1. Cardinality(S) \in Nat
  BY FS_CardinalityType
<1>2. PICK k \in 1 .. Cardinality(S) : s \in [1 .. k -> S]
  BY DEF Lists
<1>3. k \in Nat /\ k > 0
  BY <1>1, <1>2
<1>4. QED
  BY <1>2, <1>3

LEMMA AddPlanTasks ==
  ASSUME NEW t \in Tag, NEW u \in Uid, NEW ns \in Seq(Node), Len(ns) > 0
  PROVE  AddPlan(t, u, ns) \in Tasks
<1>1. \A i \in 1 .. Len(ns) : [tag |-> t, node |-> ns[i], uid |-> u] \in Task
  BY DEF Task
<1>2. AddPlan(t, u, ns) \in [1 .. Len(ns) -> Task]
  BY <1>1 DEF AddPlan
<1>3. QED
  BY <1>2 DEF Tasks

LEMMA TwoPlans ==
  ASSUME NEW p \in Tasks, NEW q \in Tasks
  PROVE  p \o q \in Tasks
<1>1. p \in Seq(Task) /\ q \in Seq(Task) /\ Len(p) > 0 /\ Len(q) > 0
  BY DEF Tasks
<1>2. p \o q \in Seq(Task) /\ Len(p \o q) = Len(p) + Len(q)
  BY <1>1, ConcatProperties
<1>3. QED
  BY <1>1, <1>2 DEF Tasks

(* f is what FlattenSeq recurses on, up to n.                              *)
IsFlatten(q, n, f) ==
  f = [i \in 1 .. n |-> IF i = 1 THEN q[i] ELSE f[i - 1] \o q[i]]

LEMMA FlattenExists ==
  ASSUME NEW q, NEW N \in Nat, \A i \in 1 .. N : q[i] \in Tasks
  PROVE  \A n \in 1 .. N : \E f : IsFlatten(q, n, f) /\ f \in [1 .. n -> Tasks]
<1> DEFINE Good(n) == \E f : IsFlatten(q, n, f) /\ f \in [1 .. n -> Tasks]
           Bad == {n \in 1 .. N : ~ Good(n)}
<1> SUFFICES ASSUME Bad # {} PROVE FALSE
  OBVIOUS
<1>1. PICK n \in Bad : \A m \in Bad : n <= m
  <2> HIDE DEF Bad
  <2>1. Bad \subseteq Nat
    BY DEF Bad
  <2>2. QED
    BY <2>1, LeastNatural
<1>2. CASE n = 1
  <2> DEFINE f == [i \in 1 .. n |-> q[i]]
  <2>1. IsFlatten(q, n, f) /\ f \in [1 .. n -> Tasks]
    BY <1>2 DEF IsFlatten
  <2>2. QED
    BY <2>1
<1>3. CASE n # 1
  <2>1. n \in 1 .. N /\ n - 1 \in 1 .. N /\ n - 1 \notin Bad
    BY <1>1, <1>3
  <2>2. PICK g : IsFlatten(q, n - 1, g) /\ g \in [1 .. n - 1 -> Tasks]
    BY <2>1
  <2> DEFINE v == g[n - 1] \o q[n]
             f == [i \in 1 .. n |-> IF i = n THEN v ELSE g[i]]
  <2>3. v \in Tasks
    <3>1. g[n - 1] \in Tasks /\ q[n] \in Tasks
      BY <2>1, <2>2
    <3> HIDE DEF Bad
    <3>2. QED
      BY <3>1, TwoPlans
  <2>4. f \in [1 .. n -> Tasks]
    BY <2>1, <2>2, <2>3
  <2>5. ASSUME NEW i \in 1 .. n
        PROVE  f[i] = IF i = 1 THEN q[i] ELSE f[i - 1] \o q[i]
    <3>1. CASE i = n
      <4>1. f[n] = g[n - 1] \o q[n]
        <5>1. v = g[n - 1] \o q[n]
          OBVIOUS
        <5> HIDE DEF v, Bad
        <5>2. f[n] = v
          BY <2>1
        <5>3. QED
          BY <5>1, <5>2
      <4>2. n - 1 \in 1 .. n /\ n - 1 # n
        BY <1>3, <2>1
      <4>3. f[n - 1] = g[n - 1]
        BY <4>2
      <4> HIDE DEF f, Bad
      <4>4. f[n] = f[n - 1] \o q[n]
        BY <4>1, <4>3
      <4>5. f[i] = f[i - 1] \o q[i]
        BY <3>1, <4>4
      <4>6. i # 1
        BY <1>3, <3>1
      <4>7. QED
        BY <4>5, <4>6
    <3>2. CASE i # n
      <4>1. i \in 1 .. n - 1 /\ (i # 1 => i - 1 \in 1 .. n - 1)
        BY <2>1, <3>2
      <4>2. g[i] = IF i = 1 THEN q[i] ELSE g[i - 1] \o q[i]
        BY <2>2, <4>1 DEF IsFlatten
      <4>3. QED
        BY <2>1, <3>2, <4>1, <4>2
    <3>3. QED
      BY <3>1, <3>2
  <2>6. IsFlatten(q, n, f)
    <3>1. f = [i \in 1 .. n |-> f[i]]
      OBVIOUS
    <3> HIDE DEF f
    <3>2. QED
      BY <2>5, <3>1 DEF IsFlatten
  <2>7. QED
    BY <2>4, <2>6
<1>4. QED
  BY <1>2, <1>3

(* Nonempty plans one after the other are a nonempty plan.                 *)
LEMMA FlattenTasks ==
  ASSUME NEW N \in Nat, N > 0, NEW q \in [1 .. N -> Tasks]
  PROVE  FlattenSeq(q) \in Tasks
<1> DEFINE f == CHOOSE f : IsFlatten(q, N, f)
<1>1. N \in 1 .. N /\ Len(q) = N
  OBVIOUS
<1>2. \E g : IsFlatten(q, N, g)
  BY <1>1, FlattenExists
<1>3. IsFlatten(q, N, f)
  BY <1>2
<1>4. FlattenSeq(q) = f[N]
  BY <1>1 DEF FlattenSeq, IsFlatten
<1>5. PICK g : IsFlatten(q, N, g) /\ g \in [1 .. N -> Tasks]
  BY <1>1, FlattenExists
<1> HIDE DEF f
<1>6. \A i \in 1 .. N : f[i] \in Tasks
  <2> DEFINE Bad == {i \in 1 .. N : f[i] \notin Tasks}
  <2> SUFFICES ASSUME Bad # {} PROVE FALSE
    OBVIOUS
  <2>1. PICK n \in Bad : \A m \in Bad : n <= m
    <3> HIDE DEF Bad
    <3>1. Bad \subseteq Nat
      BY DEF Bad
    <3>2. QED
      BY <3>1, LeastNatural
  <2>2. f[n] = IF n = 1 THEN q[n] ELSE f[n - 1] \o q[n]
    BY <1>3, <2>1 DEF IsFlatten
  <2>3. n # 1 => f[n - 1] \in Tasks
    BY <2>1
  <2>4. f[n] \in Tasks
    <3>1. q[n] \in Tasks
      BY <2>1
    <3> HIDE DEF Bad
    <3>2. QED
      BY <2>2, <2>3, <3>1, TwoPlans
  <2>5. QED
    BY <2>1, <2>4
<1>7. QED
  BY <1>1, <1>4, <1>6

-----------------------------------------------------------------------------
(***************************************************************************)
(* What a step does to the commands.                                       *)
(***************************************************************************)
Holds(c) == c.phase \in {"staged", "installed"}

LEMMA Types ==
  ASSUME TypeOK, NEW n \in Node, NEW s \in Slot
  PROVE  /\ users[n] \in [Tag -> Entry]
         /\ remote[n][s] \in Command
         /\ lock[n] \in Slot \cup {None}
         /\ lock[n] = s <=> Holds(remote[n][s])
  BY DEF TypeOK, Holds

LEMMA OneHolder ==
  ASSUME TypeOK, NEW n \in Node, NEW s \in Slot, NEW z \in Slot,
         Holds(remote[n][s]), Holds(remote[n][z])
  PROVE  s = z
  BY Types

Remotes == [Node -> [Slot -> Command]]

Only(n, s, d) ==
  \A m \in Node, z \in Slot :
    remote'[m][z] = IF m = n /\ z = s THEN d ELSE remote[m][z]

LEMMA RemoteWrite ==
  ASSUME TypeOK, NEW n \in Node, NEW s \in Slot, NEW d \in Command,
         remote' = [remote EXCEPT ![n][s] = d]
  PROVE  remote' \in Remotes /\ Only(n, s, d)
<1>1. remote \in [Node -> [Slot -> Command]]
  BY DEF TypeOK
<1>2. QED
  BY <1>1 DEF Remotes, Only

End(c, answer) ==
  IF c.by = None THEN Free
  ELSE [c EXCEPT !.phase = answer, !.saved = NoUsers, !.staged = NoUsers]

(* A command goes on as it is, is done with, is given up, or ends.         *)
Fades(c, d) ==
  \/ d = c
  \/ d = Free
  \/ Running(c) /\ d = [c EXCEPT !.by = None]
  \/ \E answer \in {"ok", "failed"} : Running(c) /\ d = End(c, answer)

LEMMA FreeFields ==
  /\ Free.phase = "free" /\ Free.by = None /\ Free.op = "add"
  /\ Free.tag = None /\ Free.uid = None
  BY DEF Free

LEMMA EndFields ==
  ASSUME NEW c \in Command, NEW answer \in {"ok", "failed"}
  PROVE  /\ End(c, answer) \in Command
         /\ End(c, answer).by = c.by
         /\ c.by # None =>
              /\ End(c, answer).phase = answer /\ End(c, answer).op = c.op
              /\ End(c, answer).tag = c.tag /\ End(c, answer).uid = c.uid
         /\ c.by = None => End(c, answer) = Free
<1>1. CASE c.by = None
  BY <1>1, FreeIsCommand, FreeFields DEF End
<1>2. CASE c.by # None
  <2>1. End(c, answer) = [c EXCEPT !.phase = answer, !.saved = NoUsers, !.staged = NoUsers]
    BY <1>2 DEF End
  <2>2. QED
    BY <1>2, <2>1, NoUsersSound DEF Command
<1>3. QED
  BY <1>1, <1>2

LEMMA FadesFields ==
  ASSUME NEW c \in Command, NEW d, Fades(c, d)
  PROVE  /\ d \in Command
         /\ d.phase # "free" =>
              c.phase # "free" /\ d.op = c.op /\ d.tag = c.tag /\ d.uid = c.uid
         /\ Holds(d) => d.phase = c.phase /\ d.saved = c.saved /\ d.staged = c.staged
         /\ Running(d) => Running(c)
         /\ d.by # None => d.by = c.by /\ (c.phase # "free" => d.phase # "free")
<1>1. CASE d = c
  BY <1>1
<1>2. CASE d = Free
  BY <1>2, FreeFields, FreeIsCommand DEF Holds, Running
<1>3. CASE Running(c) /\ d = [c EXCEPT !.by = None]
  BY <1>3 DEF Running, Holds, Command
<1>4. ASSUME NEW answer \in {"ok", "failed"}, Running(c), d = End(c, answer)
      PROVE  /\ d \in Command
             /\ d.phase # "free" =>
                  c.phase # "free" /\ d.op = c.op /\ d.tag = c.tag /\ d.uid = c.uid
             /\ ~ Holds(d) /\ ~ Running(d)
             /\ d.by # None => d.by = c.by /\ (c.phase # "free" => d.phase # "free")
  <2>1. CASE c.by = None
    BY <1>4, <2>1, EndFields, FreeFields DEF Holds, Running
  <2>2. CASE c.by # None
    BY <1>4, <2>2, EndFields DEF Holds, Running
  <2>3. QED
    BY <2>1, <2>2
<1>5. QED
  BY <1>1, <1>2, <1>3, <1>4 DEF Fades

Fading == \A n \in Node, s \in Slot : Fades(remote[n][s], remote'[n][s])

LEMMA OnlyFades ==
  ASSUME NEW n \in Node, NEW s \in Slot, NEW d, Only(n, s, d), Fades(remote[n][s], d)
  PROVE  Fading
<1>1. ASSUME NEW m \in Node, NEW z \in Slot
      PROVE  Fades(remote[m][z], remote'[m][z])
  <2>1. CASE m = n /\ z = s
    BY <2>1 DEF Only
  <2>2. CASE ~ (m = n /\ z = s)
    <3>1. remote'[m][z] = remote[m][z]
      BY <2>2 DEF Only
    <3>2. QED
      BY <3>1 DEF Fades
  <2>3. QED
    BY <2>1, <2>2
<1>2. QED
  BY <1>1 DEF Fading

(* Where no command starts, installs or is undone, what holds of the       *)
(* registries and the commands goes on holding.                            *)
LEMMA FadingHeld ==
  ASSUME TypeOK, HeldInv, Fading, users' = users
  PROVE  HeldInv'
<1>1. ASSUME NEW n \in Node, NEW s \in Slot
      PROVE  Held(n, s)'
  <2> DEFINE c == remote[n][s]
             d == remote'[n][s]
  <2>1. c \in Command /\ Fades(c, d) /\ Held(n, s)
    BY Types DEF Fading, HeldInv
  <2>2. d.phase # "free" => d.tag \in Tag /\ (d.op = "add" => d.uid \in Uid)
    <3> HIDE DEF d
    <3>1. QED
      BY <2>1, FadesFields DEF Held
  <2>3. ASSUME d.phase \in {"staged", "installed"}
        PROVE  /\ Sound(d.saved) /\ Allowed(d.saved, d) /\ d.staged = Changed(d.saved, d)
               /\ users[n] = IF d.phase = "staged" THEN d.saved ELSE d.staged
    <3>1. /\ d.phase = c.phase /\ d.saved = c.saved /\ d.staged = c.staged
          /\ d.op = c.op /\ d.tag = c.tag /\ d.uid = c.uid
      <4> HIDE DEF c, d
      <4>1. QED
        BY <2>1, <2>3, FadesFields DEF Holds
    <3>2. /\ Sound(c.saved) /\ Allowed(c.saved, c) /\ c.staged = Changed(c.saved, c)
          /\ users[n] = IF c.phase = "staged" THEN c.saved ELSE c.staged
      BY <2>1, <2>3, <3>1 DEF Held
    <3> HIDE DEF c, d
    <3>3. QED
      BY <3>1, <3>2 DEF Allowed, Changed
  <2>4. QED
    BY <2>2, <2>3 DEF Held
<1>2. QED
  BY <1>1 DEF HeldInv

LEMMA FadingFirm ==
  ASSUME TypeOK, Fading, users' = users, NEW n \in Node, NEW t, NEW u, Firm(n, t, u)
  PROVE  Firm(n, t, u)'
<1>1. ASSUME NEW s \in Slot, remote'[n][s].phase = "installed"
      PROVE  remote'[n][s].saved[t] # Absent
  <2>1. Fades(remote[n][s], remote'[n][s]) /\ remote[n][s] \in Command
    BY Types DEF Fading
  <2>2. remote[n][s].phase = "installed" /\ remote'[n][s].saved = remote[n][s].saved
    BY <1>1, <2>1, FadesFields DEF Holds
  <2>3. QED
    BY <2>2 DEF Firm
<1>2. QED
  BY <1>1 DEF Firm

LEMMA FadingCalm ==
  ASSUME TypeOK, Fading, users' = users, NEW n \in Node, NEW t, Calm(n, t)
  PROVE  Calm(n, t)'
<1>1. ASSUME NEW s \in Slot
      PROVE  /\ remote'[n][s].phase = "installed" => Off(remote'[n][s].saved, t)
             /\ ~ Enables(remote'[n][s], t)
  <2>1. Fades(remote[n][s], remote'[n][s]) /\ remote[n][s] \in Command
    BY Types DEF Fading
  <2>2. remote'[n][s].phase = "installed" =>
          remote[n][s].phase = "installed" /\ remote'[n][s].saved = remote[n][s].saved
    BY <2>1, FadesFields DEF Holds
  <2>3. Enables(remote'[n][s], t) => Enables(remote[n][s], t)
    BY <2>1, FadesFields DEF Enables, Running
  <2>4. QED
    BY <2>2, <2>3 DEF Calm
<1>2. QED
  BY <1>1 DEF Calm

(* The runs that are still waited for by a command do not move.            *)
Awaited(r) == \E n \in Node, s \in Slot : remote[n][s].by = r

LEMMA FadingWait ==
  ASSUME TypeOK, WaitInv, Fading,
         \A r \in Run : Awaited(r)' =>
           pc'[r] = pc[r] /\ op'[r] = op[r] /\ plan'[r] = plan[r] /\ row'[r] = row[r]
  PROVE  WaitInv'
<1>1. ASSUME NEW n \in Node, NEW s \in Slot
      PROVE  Asked(n, s)'
  <2> DEFINE c == remote[n][s]
             d == remote'[n][s]
  <2> SUFFICES ASSUME d.by # None
               PROVE  Asked(n, s)'
    BY DEF Asked
  <2>1. c \in Command /\ d \in Command /\ Fades(c, d) /\ Asked(n, s)
    BY Types, FadesFields DEF Fading, WaitInv
  <2>2. PICK r \in Run : c.by = r /\ d.by = r /\ r # None
    <3>1. d.by = c.by /\ c.by \in Run
      <4> HIDE DEF c, d
      <4>1. d.by = c.by
        BY <2>1, FadesFields
      <4>2. QED
        BY <2>1, <4>1 DEF Command
    <3>2. QED
      BY <3>1
  <2>3. /\ pc[r] = "wait" /\ c.phase # "free"
        /\ n = TaskOf(r).node /\ c.tag = TaskOf(r).tag /\ c.op = op[r]
        /\ c.op = "add" => c.uid = TaskOf(r).uid
        /\ \A z \in Slot : remote[n][z].by = r => z = s
    BY <2>1, <2>2 DEF Asked
  <2>4. d.phase # "free" /\ d.op = c.op /\ d.tag = c.tag /\ d.uid = c.uid
    <3> HIDE DEF c, d
    <3>1. QED
      BY <2>1, <2>2, <2>3, FadesFields
  <2>6. Awaited(r)'
    BY <2>2 DEF Awaited
  <2>7. pc'[r] = pc[r] /\ op'[r] = op[r] /\ plan'[r] = plan[r] /\ row'[r] = row[r]
    BY <2>6
  <2>8. TaskOf(r)' = TaskOf(r)
    BY <2>7 DEF TaskOf
  <2>9. ASSUME NEW z \in Slot, remote'[n][z].by = d.by
        PROVE  z = s
    <3>1. remote[n][z] \in Command /\ Fades(remote[n][z], remote'[n][z])
      BY Types DEF Fading
    <3>2. remote[n][z].by = r
      <4> HIDE DEF c, d
      <4>1. QED
        BY <2>2, <2>9, <3>1, FadesFields
    <3>3. QED
      BY <2>3, <3>2
  <2>10. QED
    BY <2>2, <2>3, <2>4, <2>7, <2>8, <2>9 DEF Asked
<1>2. QED
  BY <1>1 DEF WaitInv

-----------------------------------------------------------------------------
(***************************************************************************)
(* The commands on the nodes.                                              *)
(***************************************************************************)
FirmStays ==
  \A n \in Node, t \in Tag, u \in Uid : Firm(n, t, u) => Firm(n, t, u)'

CalmStays == \A n \in Node, t \in Tag : Calm(n, t) => Calm(n, t)'

OneLock ==
  /\ lock \in [Node -> Slot \cup {None}]
  /\ \A n \in Node, s \in Slot : lock[n] = s <=> Holds(remote[n][s])

LEMMA RowTask ==
  ASSUME TypeOK, PlanInv, NEW r \in Run, NEW i \in DOMAIN row[r]
  PROVE  plan[r][i] \in Task /\ row[r][i] \in [ok : BOOLEAN, firm : BOOLEAN]
<1>1. /\ plan[r] \in Seq(Task) /\ row[r] \in Seq([ok : BOOLEAN, firm : BOOLEAN])
      /\ Len(row[r]) <= Len(plan[r])
  BY DEF TypeOK, PlanInv
<1>2. i \in 1 .. Len(row[r]) /\ i \in 1 .. Len(plan[r])
  BY <1>1
<1>3. plan[r][i] \in Task
  BY <1>1, <1>2, ElementOfSeq
<1>4. row[r][i] \in [ok : BOOLEAN, firm : BOOLEAN]
  BY <1>1, <1>2, ElementOfSeq
<1>5. QED
  BY <1>3, <1>4

LEMMA NodeTypes ==
  ASSUME TypeOK, users' \in [Node -> [Tag -> Entry]], remote' \in Remotes, OneLock',
         UNCHANGED <<op, plan, row, pc, left, minted, told>>,
         settled' \in SUBSET (Node \X Tag)
  PROVE  TypeOK'
  BY DEF TypeOK, Remotes, OneLock, Holds

LEMMA NodeFirm ==
  ASSUME TypeOK, PlanInv, FirmInv, FirmStays, UNCHANGED <<op, plan, row, told>>,
         \A n \in Node, s \in Slot : FirmCommand(n, s)'
  PROVE  FirmInv'
<1>1. ASSUME NEW r \in Run, op[r] = "add", NEW i \in DOMAIN row[r]
      PROVE  FirmRow(r, i)'
  <2>1. plan[r][i] \in Task /\ FirmRow(r, i)
    BY <1>1, RowTask DEF FirmInv
  <2>2. /\ plan[r][i].node \in Node /\ plan[r][i].tag \in Tag /\ plan[r][i].uid \in Uid
        /\ plan'[r] = plan[r] /\ row'[r] = row[r]
    BY <2>1 DEF Task
  <2>3. ASSUME row[r][i].ok /\ row[r][i].firm
        PROVE  Firm(plan[r][i].node, plan[r][i].tag, plan[r][i].uid)'
    <3>1. PICK k \in Task : k = plan[r][i]
      BY <2>1
    <3>2. Firm(k.node, k.tag, k.uid)
      BY <2>1, <2>3, <3>1 DEF FirmRow
    <3>3. Firm(k.node, k.tag, k.uid)'
      BY <2>2, <3>1, <3>2 DEF FirmStays
    <3>4. plan'[r][i] = k
      BY <2>2, <3>1
    <3>5. QED
      BY <3>3, <3>4 DEF Firm
  <2>4. QED
    BY <2>2, <2>3 DEF FirmRow
<1>2. ASSUME NEW w \in told, w.firm
      PROVE  Firm(w.task.node, w.task.tag, w.task.uid)'
  <2>1. w.task \in Task
    BY DEF TypeOK
  <2>2. w.task.node \in Node /\ w.task.tag \in Tag /\ w.task.uid \in Uid
    BY <2>1 DEF Task
  <2>3. Firm(w.task.node, w.task.tag, w.task.uid)
    BY <1>2 DEF FirmInv
  <2>4. QED
    BY <2>2, <2>3 DEF FirmStays
<1>3. \A r \in Run : op'[r] = "add" => \A i \in DOMAIN row'[r] : FirmRow(r, i)'
  BY <1>1
<1>4. \A w \in told' : w.firm => Firm(w.task.node, w.task.tag, w.task.uid)'
  BY <1>2
<1>5. QED
  BY <1>3, <1>4 DEF FirmInv

LEMMA OnlyFirmCommand ==
  ASSUME TypeOK, HeldInv, FirmInv, FirmStays,
         NEW n \in Node, NEW s \in Slot, NEW d, Only(n, s, d),
         d.phase = "ok" /\ d.op = "add" => Firm(n, d.tag, d.uid)'
  PROVE  \A m \in Node, z \in Slot : FirmCommand(m, z)'
<1> SUFFICES ASSUME NEW m \in Node, NEW z \in Slot
             PROVE  FirmCommand(m, z)'
  OBVIOUS
<1>1. CASE m = n /\ z = s
  <2>1. remote'[m][z] = d
    BY <1>1 DEF Only
  <2>2. QED
    BY <1>1, <2>1 DEF FirmCommand, Firm
<1>2. CASE ~ (m = n /\ z = s)
  <2>1. remote'[m][z] = remote[m][z]
    BY <1>2 DEF Only
  <2>2. PICK c \in Command : c = remote[m][z]
    BY Types
  <2>3. ASSUME c.phase = "ok", c.op = "add"
        PROVE  Firm(m, c.tag, c.uid)'
    <3>1. c.tag \in Tag /\ c.uid \in Uid
      BY <2>2, <2>3 DEF HeldInv, Held
    <3>2. Firm(m, c.tag, c.uid)
      BY <2>2, <2>3 DEF FirmInv, FirmCommand
    <3>3. QED
      BY <3>1, <3>2 DEF FirmStays
  <2>4. QED
    BY <2>1, <2>2, <2>3 DEF FirmCommand, Firm
<1>3. QED
  BY <1>1, <1>2

LEMMA SettledStays ==
  ASSUME SettledInv, CalmStays,
         \A n \in Node, t \in Tag : <<n, t>> \in settled' /\ <<n, t>> \notin settled
           => Calm(n, t)'
  PROVE  SettledInv'
  BY DEF SettledInv, CalmStays

LEMMA EndsStep ==
  ASSUME TypeOK, NEW n \in Node, NEW s \in Slot, NEW answer \in {"ok", "failed"},
         Running(remote[n][s]), Ends(n, s, answer)
  PROVE  /\ remote' \in Remotes /\ OneLock' /\ Fading
         /\ Only(n, s, End(remote[n][s], answer))
<1>1. PICK c \in Command : c = remote[n][s]
  BY Types
<1>2. PICK d : d = End(c, answer)
  OBVIOUS
<1>3. d \in Command /\ Fades(c, d) /\ ~ Holds(d)
  <2>1. d \in Command /\ (c.by = None => d = Free) /\ (c.by # None => d.phase = answer)
    BY <1>2, EndFields
  <2>2. ~ Holds(d)
    BY <2>1, FreeFields DEF Holds
  <2>3. QED
    BY <1>1, <1>2, <2>1, <2>2 DEF Fades
<1>4. remote' = [remote EXCEPT ![n][s] = d]
  BY <1>1, <1>2 DEF Ends, End
<1>5. remote' \in Remotes /\ Only(n, s, d)
  BY <1>3, <1>4, RemoteWrite
<1>6. Fading
  BY <1>1, <1>3, <1>5, OnlyFades
<1>7. OneLock'
  <2>1. lock \in [Node -> Slot \cup {None}]
    BY DEF TypeOK
  <2>2. lock' = [lock EXCEPT ![n] = IF lock[n] = s THEN None ELSE lock[n]]
    BY DEF Ends
  <2>3. lock' \in [Node -> Slot \cup {None}]
    BY <2>1, <2>2
  <2>4. ASSUME NEW m \in Node, NEW z \in Slot
        PROVE  lock'[m] = z <=> Holds(remote'[m][z])
    <3>1. lock[m] = z <=> Holds(remote[m][z])
      BY Types
    <3>2. CASE m = n /\ z = s
      <4>1. ~ Holds(remote'[m][z])
        BY <1>3, <1>5, <3>2 DEF Only
      <4>2. lock'[m] # z
        BY <2>1, <2>2, <3>2, NoneIsNew
      <4>3. QED
        BY <4>1, <4>2
    <3>3. CASE ~ (m = n /\ z = s)
      <4>1. remote'[m][z] = remote[m][z]
        BY <1>5, <3>3 DEF Only
      <4>2. lock'[m] = z <=> lock[m] = z
        BY <2>1, <2>2, <3>3, NoneIsNew
      <4>3. QED
        BY <3>1, <4>1, <4>2
    <3>4. QED
      BY <3>2, <3>3
  <2>5. QED
    BY <2>3, <2>4 DEF OneLock
<1>8. QED
  BY <1>1, <1>2, <1>5, <1>6, <1>7

(* The run that waits goes on waiting.                                     *)
LEMMA NodeWait ==
  ASSUME TypeOK, PlanInv, WaitInv, Fading, UNCHANGED <<op, plan, row, pc>>
  PROVE  WaitInv' /\ PlanInv'
<1>1. \A r \in Run :
        pc'[r] = pc[r] /\ op'[r] = op[r] /\ plan'[r] = plan[r] /\ row'[r] = row[r]
  OBVIOUS
<1>2. WaitInv'
  BY <1>1, FadingWait
<1>3. QED
  BY <1>1, <1>2 DEF PlanInv

(* The command ends in failure, or dies, and leaves the registry.          *)
LEMMA QuietEnd ==
  ASSUME IndInv, NEW n \in Node, NEW s \in Slot,
         Running(remote[n][s]), Ends(n, s, "failed"),
         UNCHANGED <<users, op, plan, row, pc, left, minted, told, settled>>
  PROVE  IndInv'
<1>1. TypeOK /\ HeldInv /\ PlanInv /\ WaitInv /\ FirmInv /\ SettledInv
  BY DEF IndInv
<1>2. /\ remote' \in Remotes /\ OneLock' /\ Fading
      /\ Only(n, s, End(remote[n][s], "failed"))
  BY <1>1, EndsStep
<1>3. FirmStays /\ CalmStays
  BY <1>1, <1>2, FadingFirm, FadingCalm DEF FirmStays, CalmStays
<1>4. TypeOK'
  <2>1. users' \in [Node -> [Tag -> Entry]] /\ settled' \in SUBSET (Node \X Tag)
    BY <1>1 DEF TypeOK
  <2>2. QED
    BY <1>1, <1>2, <2>1, NodeTypes
<1>5. FirmInv'
  <2>1. PICK d : d = End(remote[n][s], "failed")
    OBVIOUS
  <2>2. d.phase # "ok"
    <3>1. remote[n][s] \in Command
      BY <1>1, Types
    <3>2. QED
      BY <2>1, <3>1, EndFields, FreeFields
  <2>3. \A m \in Node, z \in Slot : FirmCommand(m, z)'
    BY <1>1, <1>2, <1>3, <2>1, <2>2, OnlyFirmCommand
  <2>4. QED
    BY <1>1, <1>3, <2>3, NodeFirm
<1>6. HeldInv'
  BY <1>1, <1>2, FadingHeld
<1>7. WaitInv' /\ PlanInv'
  BY <1>1, <1>2, NodeWait
<1>8. SettledInv'
  BY <1>1, <1>3, SettledStays
<1>9. QED
  BY <1>4, <1>5, <1>6, <1>7, <1>8 DEF IndInv

(* The command succeeds, with the registry it staged in place.             *)
LEMMA OkEnd ==
  ASSUME IndInv, NEW n \in Node, NEW s \in Slot,
         Holds(remote[n][s]), users[n] = remote[n][s].staged,
         Ends(n, s, "ok"), Settles(n, s),
         UNCHANGED <<users, op, plan, row, pc, left, minted, told>>
  PROVE  IndInv'
<1>1. TypeOK /\ HeldInv /\ PlanInv /\ WaitInv /\ FirmInv /\ SettledInv
  BY DEF IndInv
<1>2. PICK c \in Command : c = remote[n][s]
  BY <1>1, Types
<1>3. PICK d : d = End(c, "ok")
  OBVIOUS
<1>4. Running(remote[n][s])
  BY DEF Holds, Running
<1>5. remote' \in Remotes /\ OneLock' /\ Fading /\ Only(n, s, d)
  <2>1. /\ remote' \in Remotes /\ OneLock' /\ Fading
        /\ Only(n, s, End(remote[n][s], "ok"))
    BY <1>1, <1>4, EndsStep
  <2>2. QED
    BY <2>1, <1>2, <1>3
<1>6. FirmStays /\ CalmStays
  BY <1>1, <1>5, FadingFirm, FadingCalm DEF FirmStays, CalmStays
<1>7. /\ c.tag \in Tag /\ (c.op = "add" => c.uid \in Uid)
      /\ Sound(c.saved) /\ Allowed(c.saved, c) /\ users[n] = Changed(c.saved, c)
      /\ c.saved \in [Tag -> Entry]
  <2>1. Held(n, s)
    BY <1>1 DEF HeldInv
  <2>2. c.phase # "free" /\ c.phase \in {"staged", "installed"}
    BY <1>2 DEF Holds
  <2>3. QED
    BY <1>2, <2>1, <2>2 DEF Held, Command
<1>8. ASSUME NEW z \in Slot
      PROVE  remote'[n][z].phase # "installed"
  <2> SUFFICES ASSUME remote'[n][z].phase = "installed" PROVE FALSE
    OBVIOUS
  <2>1. Fades(remote[n][z], remote'[n][z]) /\ remote[n][z] \in Command
    BY <1>1, <1>5, Types DEF Fading
  <2>2. Holds(remote[n][z])
    BY <2>1, FadesFields DEF Holds
  <2>3. z = s
    BY <1>1, <2>2, OneHolder
  <2>4. remote'[n][z] = d
    BY <1>5, <2>3 DEF Only
  <2>5. QED
    BY <1>2, <1>3, <2>4, EndFields, FreeFields
<1>9. TypeOK'
  <2>1. users' \in [Node -> [Tag -> Entry]]
    BY <1>1 DEF TypeOK
  <2>2. settled' \in SUBSET (Node \X Tag)
    <3>1. settled \in SUBSET (Node \X Tag)
      BY <1>1 DEF TypeOK
    <3>2. <<n, c.tag>> \in Node \X Tag
      BY <1>7
    <3>3. settled' = settled \cup {<<n, c.tag>>} \/ settled' = settled
      BY <1>2 DEF Settles
    <3>4. QED
      BY <3>1, <3>2, <3>3
  <2>3. QED
    BY <1>1, <1>5, <2>1, <2>2, NodeTypes
<1>10. FirmInv'
  <2>1. ASSUME d.phase = "ok", d.op = "add"
        PROVE  Firm(n, d.tag, d.uid)'
    <3>1. c.by # None
      BY <1>2, <1>3, <2>1, EndFields, FreeFields
    <3>2. d.op = c.op /\ d.tag = c.tag /\ d.uid = c.uid
      BY <1>3, <3>1, EndFields
    <3>3. Changed(c.saved, c)[c.tag].uid = c.uid
      BY <1>7, <2>1, <3>2, AddedIsThere
    <3>4. users'[n][d.tag].uid = d.uid
      BY <1>7, <3>2, <3>3
    <3>5. QED
      BY <1>8, <3>4 DEF Firm
  <2>2. \A m \in Node, z \in Slot : FirmCommand(m, z)'
    BY <1>1, <1>5, <1>6, <2>1, OnlyFirmCommand
  <2>3. QED
    BY <1>1, <1>6, <2>2, NodeFirm
<1>11. HeldInv'
  BY <1>1, <1>5, FadingHeld
<1>12. WaitInv' /\ PlanInv'
  BY <1>1, <1>5, NodeWait
<1>13. SettledInv'
  <2>1. ASSUME NEW m \in Node, NEW t \in Tag, <<m, t>> \in settled', <<m, t>> \notin settled
        PROVE  Calm(m, t)'
    <3>1. /\ c.op = "disable" /\ m = n /\ t = c.tag
          /\ \A z \in Slot \ {s} : ~ Enables(remote[n][z], c.tag)
      BY <1>2, <2>1 DEF Settles, Enables
    <3>2. Off(users[n], t)
      BY <1>7, <3>1, DisabledIsOff
    <3>3. ASSUME NEW z \in Slot
          PROVE  ~ Enables(remote'[n][z], t)
      <4>1. CASE z = s
        <5>1. remote'[n][z] = d
          BY <1>5, <4>1 DEF Only
        <5>2. QED
          BY <1>3, <5>1, EndFields, FreeFields DEF Enables, Running
      <4>2. CASE z # s
        <5>1. remote'[n][z] = remote[n][z]
          BY <1>5, <4>2 DEF Only
        <5>2. QED
          BY <3>1, <4>2, <5>1
      <4>3. QED
        BY <4>1, <4>2
    <3>4. QED
      BY <1>8, <3>1, <3>2, <3>3 DEF Calm
  <2>2. QED
    BY <1>1, <1>6, <2>1, SettledStays
<1>14. QED
  BY <1>9, <1>10, <1>11, <1>12, <1>13 DEF IndInv

(* A command that gets on is waited for as before.                         *)
LEMMA PhaseWait ==
  ASSUME WaitInv, NEW n \in Node, NEW s \in Slot, NEW d, Only(n, s, d),
         d.phase # "free", d.by = remote[n][s].by, d.op = remote[n][s].op,
         d.tag = remote[n][s].tag, d.uid = remote[n][s].uid,
         UNCHANGED <<op, plan, row, pc>>
  PROVE  WaitInv'
<1>1. ASSUME NEW m \in Node, NEW z \in Slot
      PROVE  /\ remote'[m][z].by = remote[m][z].by
             /\ remote'[m][z].phase = "free" => remote[m][z].phase = "free"
             /\ remote'[m][z].op = remote[m][z].op
             /\ remote'[m][z].tag = remote[m][z].tag
             /\ remote'[m][z].uid = remote[m][z].uid
  BY DEF Only
<1>2. ASSUME NEW m \in Node, NEW z \in Slot
      PROVE  Asked(m, z)'
  <2>1. Asked(m, z)
    BY DEF WaitInv
  <2>2. pc' = pc /\ op' = op /\ plan' = plan /\ row' = row
    OBVIOUS
  <2>3. QED
    BY <1>1, <2>1, <2>2 DEF Asked, TaskOf
<1>3. QED
  BY <1>2 DEF WaitInv

LEMMA StagesStep ==
  ASSUME IndInv, NEW n \in Node, NEW s \in Slot, NodeStages(n, s)
  PROVE  IndInv'
<1>1. TypeOK /\ HeldInv /\ PlanInv /\ WaitInv /\ FirmInv /\ SettledInv
  BY DEF IndInv
<1>2. PICK c \in Command : c = remote[n][s]
  BY <1>1, Types
<1>3. PICK d : d = [c EXCEPT !.phase = "staged", !.saved = users[n],
                             !.staged = Changed(users[n], c)]
  OBVIOUS
<1>4. /\ c.phase = "lock" /\ lock[n] = None /\ Allowed(users[n], c)
      /\ lock' = [lock EXCEPT ![n] = s]
      /\ remote' = [remote EXCEPT ![n][s] = d]
      /\ UNCHANGED <<users, op, plan, row, pc, left, minted, told, settled>>
  BY <1>2, <1>3 DEF NodeStages
<1>5. /\ c.tag \in Tag /\ (c.op = "add" => c.uid \in Uid)
      /\ users[n] \in [Tag -> Entry] /\ Sound(users[n])
  BY <1>1, <1>2, <1>4, Types DEF HeldInv, Held
<1>6. Changed(users[n], c) \in [Tag -> Entry]
  BY <1>4, <1>5, ChangedSound
<1>7. /\ d \in Command /\ d.phase = "staged" /\ d.op = c.op /\ d.tag = c.tag
      /\ d.uid = c.uid /\ d.by = c.by /\ d.saved = users[n]
      /\ d.staged = Changed(users[n], c)
  BY <1>3, <1>5, <1>6 DEF Command
<1>8. remote' \in Remotes /\ Only(n, s, d)
  BY <1>1, <1>4, <1>7, RemoteWrite
<1>9. OneLock'
  <2>1. lock' \in [Node -> Slot \cup {None}]
    BY <1>1, <1>4 DEF TypeOK
  <2>2. ASSUME NEW m \in Node, NEW z \in Slot
        PROVE  lock'[m] = z <=> Holds(remote'[m][z])
    <3>1. /\ lock[m] = z <=> Holds(remote[m][z])
          /\ lock'[m] = IF m = n THEN s ELSE lock[m]
          /\ remote'[m][z] = IF m = n /\ z = s THEN d ELSE remote[m][z]
      BY <1>1, <1>4, <1>8, Types DEF TypeOK, Only
    <3>2. CASE m = n /\ z = s
      BY <1>7, <3>1, <3>2 DEF Holds
    <3>3. CASE ~ (m = n /\ z = s)
      BY <1>4, <3>1, <3>3, NoneIsNew
    <3>4. QED
      BY <3>2, <3>3
  <2>3. QED
    BY <2>1, <2>2 DEF OneLock
<1>10. ASSUME NEW m \in Node, NEW z \in Slot
       PROVE  /\ remote'[m][z].phase = "installed" => remote'[m][z] = remote[m][z]
              /\ \A t : Enables(remote'[m][z], t) => Enables(remote[m][z], t)
  <2>1. CASE m = n /\ z = s
    <3>1. remote'[m][z] = d /\ remote[m][z] = c
      BY <1>2, <1>8, <2>1 DEF Only
    <3>2. QED
      BY <1>4, <1>7, <3>1 DEF Enables, Running
  <2>2. CASE ~ (m = n /\ z = s)
    BY <1>8, <2>2 DEF Only
  <2>3. QED
    BY <2>1, <2>2
<1>11. FirmStays
  BY <1>4, <1>10 DEF FirmStays, Firm
<1>12. CalmStays
  BY <1>4, <1>10 DEF CalmStays, Calm
<1>13. TypeOK'
  <2>1. users' \in [Node -> [Tag -> Entry]] /\ settled' \in SUBSET (Node \X Tag)
    BY <1>1, <1>4 DEF TypeOK
  <2>2. QED
    BY <1>1, <1>4, <1>8, <1>9, <2>1, NodeTypes
<1>14. HeldInv'
  <2>1. \A m \in Node : Sound(users'[m])
    BY <1>1, <1>4 DEF HeldInv
  <2>2. ASSUME NEW m \in Node, NEW z \in Slot
        PROVE  Held(m, z)'
    <3>1. CASE m = n /\ z = s
      <4>1. remote'[m][z] = d /\ users'[m] = users[n]
        BY <1>4, <1>8, <3>1 DEF Only
      <4>2. Allowed(users[n], d) /\ Changed(users[n], d) = Changed(users[n], c)
        BY <1>4, <1>7 DEF Allowed, Changed
      <4>3. QED
        BY <1>5, <1>7, <4>1, <4>2 DEF Held
    <3>2. CASE ~ (m = n /\ z = s)
      <4>1. remote'[m][z] = remote[m][z] /\ users'[m] = users[m]
        BY <1>4, <1>8, <3>2 DEF Only
      <4>2. Held(m, z)
        BY <1>1 DEF HeldInv
      <4>3. QED
        BY <4>1, <4>2 DEF Held
    <3>3. QED
      BY <3>1, <3>2
  <2>3. QED
    BY <2>1, <2>2 DEF HeldInv
<1>15. PlanInv'
  BY <1>1, <1>4 DEF PlanInv
<1>16. WaitInv'
  BY <1>1, <1>2, <1>4, <1>7, <1>8, PhaseWait
<1>17. FirmInv'
  <2>1. \A m \in Node, z \in Slot : FirmCommand(m, z)'
    BY <1>1, <1>7, <1>8, <1>11, OnlyFirmCommand
  <2>2. QED
    BY <1>1, <1>4, <1>11, <2>1, NodeFirm
<1>18. SettledInv'
  BY <1>1, <1>4, <1>12, SettledStays
<1>19. QED
  BY <1>13, <1>14, <1>15, <1>16, <1>17, <1>18 DEF IndInv

LEMMA InstallsStep ==
  ASSUME IndInv, NEW n \in Node, NEW s \in Slot, NodeInstalls(n, s)
  PROVE  IndInv'
<1>1. TypeOK /\ HeldInv /\ PlanInv /\ WaitInv /\ FirmInv /\ SettledInv
  BY DEF IndInv
<1>2. PICK c \in Command : c = remote[n][s]
  BY <1>1, Types
<1>3. PICK d : d = [c EXCEPT !.phase = "installed"]
  OBVIOUS
<1>4. /\ c.phase = "staged"
      /\ users' = [users EXCEPT ![n] = c.staged]
      /\ remote' = [remote EXCEPT ![n][s] = d]
      /\ UNCHANGED <<lock, op, plan, row, pc, left, minted, told, settled>>
  BY <1>2, <1>3 DEF NodeInstalls
<1>5. /\ c.tag \in Tag /\ (c.op = "add" => c.uid \in Uid)
      /\ c.saved \in [Tag -> Entry] /\ Sound(c.saved) /\ Allowed(c.saved, c)
      /\ c.staged = Changed(c.saved, c) /\ users[n] = c.saved
  <2>1. Held(n, s)
    BY <1>1 DEF HeldInv
  <2>2. QED
    BY <1>2, <1>4, <2>1 DEF Held, Command
<1>6. c.staged \in [Tag -> Entry] /\ Sound(c.staged)
  BY <1>5, ChangedSound
<1>7. /\ d \in Command /\ d.phase = "installed" /\ d.op = c.op /\ d.tag = c.tag
      /\ d.uid = c.uid /\ d.by = c.by /\ d.saved = c.saved /\ d.staged = c.staged
  BY <1>3 DEF Command
<1>8. remote' \in Remotes /\ Only(n, s, d)
  BY <1>1, <1>4, <1>7, RemoteWrite
<1>9. \A m \in Node : users'[m] = IF m = n THEN c.staged ELSE users[m]
  BY <1>1, <1>4 DEF TypeOK
<1>10. ASSUME NEW m \in Node, NEW z \in Slot, ~ (m = n /\ z = s)
       PROVE  remote'[m][z] = remote[m][z] /\ (m = n => ~ Holds(remote[m][z]))
  <2>1. remote'[m][z] = remote[m][z]
    BY <1>8, <1>10 DEF Only
  <2>2. Holds(remote[n][s])
    BY <1>2, <1>4 DEF Holds
  <2>3. m = n => ~ Holds(remote[m][z])
    BY <1>1, <1>10, <2>2, OneHolder
  <2>4. QED
    BY <2>1, <2>3
<1>11. remote'[n][s] = d /\ remote[n][s] = c
  BY <1>2, <1>8 DEF Only
<1>12. OneLock'
  <2>1. lock' \in [Node -> Slot \cup {None}]
    BY <1>1, <1>4 DEF TypeOK
  <2>2. ASSUME NEW m \in Node, NEW z \in Slot
        PROVE  lock'[m] = z <=> Holds(remote'[m][z])
    <3>1. (lock[m] = z <=> Holds(remote[m][z])) /\ lock' = lock
      BY <1>1, <1>4, Types
    <3>2. CASE m = n /\ z = s
      BY <1>4, <1>7, <1>11, <3>1, <3>2 DEF Holds
    <3>3. CASE ~ (m = n /\ z = s)
      BY <1>10, <3>1, <3>3
    <3>4. QED
      BY <3>2, <3>3
  <2>3. QED
    BY <2>1, <2>2 DEF OneLock
<1>13. FirmStays
  <2>1. ASSUME NEW m \in Node, NEW t \in Tag, NEW u \in Uid, Firm(m, t, u)
        PROVE  Firm(m, t, u)'
    <3>1. CASE m # n
      BY <1>9, <1>10, <2>1, <3>1 DEF Firm
    <3>2. CASE m = n
      <4>1. c.saved[t].uid = u
        BY <1>5, <2>1, <3>2 DEF Firm
      <4>2. c.saved[t] # Absent
        BY <4>1, NoneIsNew DEF Absent
      <4>3. users'[n][t].uid = u
        BY <1>5, <1>9, <4>1, <4>2, ChangedKeeps
      <4>4. ASSUME NEW z \in Slot, remote'[n][z].phase = "installed"
            PROVE  remote'[n][z].saved[t] # Absent
        BY <1>7, <1>10, <1>11, <4>2, <4>4 DEF Holds
      <4>5. QED
        BY <3>2, <4>3, <4>4 DEF Firm
    <3>3. QED
      BY <3>1, <3>2
  <2>2. QED
    BY <2>1 DEF FirmStays
<1>14. CalmStays
  <2>1. ASSUME NEW m \in Node, NEW t \in Tag, Calm(m, t)
        PROVE  Calm(m, t)'
    <3>1. CASE m # n
      BY <1>9, <1>10, <2>1, <3>1 DEF Calm
    <3>2. CASE m = n
      <4>1. Off(c.saved, t) /\ ~ (c.op = "enable" /\ c.tag = t)
        BY <1>4, <1>5, <1>11, <2>1, <3>2 DEF Calm, Enables, Running
      <4>2. Off(users'[n], t)
        BY <1>5, <1>9, <4>1, ChangedKeepsOff
      <4>3. ASSUME NEW z \in Slot
            PROVE  /\ remote'[n][z].phase = "installed" => Off(remote'[n][z].saved, t)
                   /\ ~ Enables(remote'[n][z], t)
        <5>1. CASE z = s
          BY <1>7, <1>11, <4>1, <5>1 DEF Enables
        <5>2. CASE z # s
          BY <1>10, <2>1, <3>2, <5>2 DEF Calm
        <5>3. QED
          BY <5>1, <5>2
      <4>4. QED
        BY <3>2, <4>2, <4>3 DEF Calm
    <3>3. QED
      BY <3>1, <3>2
  <2>2. QED
    BY <2>1 DEF CalmStays
<1>15. TypeOK'
  <2>1. users' \in [Node -> [Tag -> Entry]] /\ settled' \in SUBSET (Node \X Tag)
    BY <1>1, <1>4, <1>6 DEF TypeOK
  <2>2. QED
    BY <1>1, <1>4, <1>8, <1>12, <2>1, NodeTypes
<1>16. HeldInv'
  <2>1. \A m \in Node : Sound(users'[m])
    BY <1>1, <1>6, <1>9 DEF HeldInv
  <2>2. ASSUME NEW m \in Node, NEW z \in Slot
        PROVE  Held(m, z)'
    <3>1. CASE m = n /\ z = s
      <4>1. Allowed(c.saved, d) /\ Changed(c.saved, d) = Changed(c.saved, c)
        BY <1>5, <1>7 DEF Allowed, Changed
      <4>2. QED
        BY <1>5, <1>7, <1>9, <1>11, <3>1, <4>1 DEF Held
    <3>2. CASE ~ (m = n /\ z = s)
      <4>1. Held(m, z)
        BY <1>1 DEF HeldInv
      <4>2. QED
        BY <1>9, <1>10, <3>2, <4>1 DEF Held, Holds
    <3>3. QED
      BY <3>1, <3>2
  <2>3. QED
    BY <2>1, <2>2 DEF HeldInv
<1>17. PlanInv'
  BY <1>1, <1>4 DEF PlanInv
<1>18. WaitInv'
  BY <1>1, <1>2, <1>4, <1>7, <1>8, PhaseWait
<1>19. FirmInv'
  <2>1. \A m \in Node, z \in Slot : FirmCommand(m, z)'
    BY <1>1, <1>7, <1>8, <1>13, OnlyFirmCommand
  <2>2. QED
    BY <1>1, <1>4, <1>13, <2>1, NodeFirm
<1>20. SettledInv'
  BY <1>1, <1>4, <1>14, SettledStays
<1>21. QED
  BY <1>15, <1>16, <1>17, <1>18, <1>19, <1>20 DEF IndInv

LEMMA UnhealthyStep ==
  ASSUME IndInv, NEW n \in Node, NEW s \in Slot, NodeUnhealthy(n, s)
  PROVE  IndInv'
<1>1. TypeOK /\ HeldInv /\ PlanInv /\ WaitInv /\ FirmInv /\ SettledInv
  BY DEF IndInv
<1>2. PICK c \in Command : c = remote[n][s]
  BY <1>1, Types
<1>3. PICK d : d = End(c, "failed")
  OBVIOUS
<1>4. /\ c.phase = "installed" /\ Ends(n, s, "failed")
      /\ users' = [users EXCEPT ![n] = c.saved]
      /\ UNCHANGED <<op, plan, row, pc, left, minted, told, settled>>
  BY <1>2 DEF NodeUnhealthy
<1>5. /\ c.tag \in Tag /\ (c.op = "add" => c.uid \in Uid)
      /\ c.saved \in [Tag -> Entry] /\ Sound(c.saved) /\ Allowed(c.saved, c)
      /\ users[n] = Changed(c.saved, c)
  <2>1. Held(n, s)
    BY <1>1 DEF HeldInv
  <2>2. QED
    BY <1>2, <1>4, <2>1 DEF Held, Command
<1>6. Running(remote[n][s]) /\ Holds(remote[n][s])
  BY <1>2, <1>4 DEF Running, Holds
<1>7. remote' \in Remotes /\ OneLock' /\ Fading /\ Only(n, s, d)
  <2>1. /\ remote' \in Remotes /\ OneLock' /\ Fading
        /\ Only(n, s, End(remote[n][s], "failed"))
    BY <1>1, <1>4, <1>6, EndsStep
  <2>2. QED
    BY <2>1, <1>2, <1>3
<1>8. d.phase \in {"failed", "free"}
  BY <1>3, EndFields, FreeFields
<1>9. \A m \in Node : users'[m] = IF m = n THEN c.saved ELSE users[m]
  BY <1>1, <1>4 DEF TypeOK
<1>10. ASSUME NEW m \in Node, NEW z \in Slot, ~ (m = n /\ z = s)
       PROVE  remote'[m][z] = remote[m][z] /\ (m = n => ~ Holds(remote[m][z]))
  <2>1. remote'[m][z] = remote[m][z]
    BY <1>7, <1>10 DEF Only
  <2>2. m = n => ~ Holds(remote[m][z])
    BY <1>1, <1>6, <1>10, OneHolder
  <2>3. QED
    BY <2>1, <2>2
<1>11. remote'[n][s] = d /\ remote[n][s] = c
  BY <1>2, <1>7 DEF Only
<1>12. \A z \in Slot : remote'[n][z].phase # "installed"
  BY <1>8, <1>10, <1>11 DEF Holds
<1>13. FirmStays
  <2>1. ASSUME NEW m \in Node, NEW t \in Tag, NEW u \in Uid, Firm(m, t, u)
        PROVE  Firm(m, t, u)'
    <3>1. CASE m # n
      BY <1>9, <1>10, <2>1, <3>1 DEF Firm
    <3>2. CASE m = n
      <4>1. c.saved[t] # Absent
        BY <1>4, <1>11, <2>1, <3>2 DEF Firm
      <4>2. c.saved[t].uid = users[n][t].uid
        BY <1>5, <4>1, ChangedKeeps
      <4>3. users'[n][t].uid = u
        BY <1>9, <2>1, <3>2, <4>2 DEF Firm
      <4>4. QED
        BY <1>12, <3>2, <4>3 DEF Firm
    <3>3. QED
      BY <3>1, <3>2
  <2>2. QED
    BY <2>1 DEF FirmStays
<1>14. CalmStays
  <2>1. ASSUME NEW m \in Node, NEW t \in Tag, Calm(m, t)
        PROVE  Calm(m, t)'
    <3>1. CASE m # n
      BY <1>9, <1>10, <2>1, <3>1 DEF Calm
    <3>2. CASE m = n
      <4>1. Off(users'[n], t)
        BY <1>4, <1>9, <1>11, <2>1, <3>2 DEF Calm
      <4>2. ASSUME NEW z \in Slot
            PROVE  ~ Enables(remote'[n][z], t)
        <5>1. CASE z = s
          BY <1>8, <1>11, <5>1 DEF Enables, Running
        <5>2. CASE z # s
          BY <1>10, <2>1, <3>2, <5>2 DEF Calm
        <5>3. QED
          BY <5>1, <5>2
      <4>3. QED
        BY <1>12, <3>2, <4>1, <4>2 DEF Calm
    <3>3. QED
      BY <3>1, <3>2
  <2>2. QED
    BY <2>1 DEF CalmStays
<1>15. TypeOK'
  <2>1. users' \in [Node -> [Tag -> Entry]] /\ settled' \in SUBSET (Node \X Tag)
    BY <1>1, <1>4, <1>5 DEF TypeOK
  <2>2. QED
    BY <1>1, <1>4, <1>7, <2>1, NodeTypes
<1>16. HeldInv'
  <2>1. \A m \in Node : Sound(users'[m])
    BY <1>1, <1>5, <1>9 DEF HeldInv
  <2>2. ASSUME NEW m \in Node, NEW z \in Slot
        PROVE  Held(m, z)'
    <3>1. CASE m = n /\ z = s
      <4>1. d.phase # "free" => d.tag = c.tag /\ d.op = c.op /\ d.uid = c.uid
        BY <1>3, EndFields, FreeFields
      <4>2. QED
        BY <1>5, <1>8, <1>11, <3>1, <4>1 DEF Held
    <3>2. CASE ~ (m = n /\ z = s)
      <4>1. Held(m, z)
        BY <1>1 DEF HeldInv
      <4>2. QED
        BY <1>9, <1>10, <3>2, <4>1 DEF Held, Holds
    <3>3. QED
      BY <3>1, <3>2
  <2>3. QED
    BY <2>1, <2>2 DEF HeldInv
<1>17. WaitInv' /\ PlanInv'
  BY <1>1, <1>4, <1>7, NodeWait
<1>18. FirmInv'
  <2>1. \A m \in Node, z \in Slot : FirmCommand(m, z)'
    BY <1>1, <1>7, <1>8, <1>13, OnlyFirmCommand
  <2>2. QED
    BY <1>1, <1>4, <1>13, <2>1, NodeFirm
<1>19. SettledInv'
  BY <1>1, <1>4, <1>14, SettledStays
<1>20. QED
  BY <1>15, <1>16, <1>17, <1>18, <1>19 DEF IndInv

LEMMA NodeStep ==
  ASSUME IndInv, NEW n \in Node, NEW s \in Slot, OnNode(n, s)
  PROVE  IndInv'
<1>1. CASE NodeStages(n, s)
  BY <1>1, StagesStep
<1>2. CASE NodeRefuses(n, s)
  <2>1. Running(remote[n][s]) /\ Ends(n, s, "failed")
    BY <1>2 DEF NodeRefuses, Running
  <2>2. UNCHANGED <<users, op, plan, row, pc, left, minted, told, settled>>
    BY <1>2 DEF NodeRefuses
  <2>3. QED
    BY <2>1, <2>2, QuietEnd
<1>3. CASE NodeBusy(n, s)
  <2>1. Running(remote[n][s]) /\ Ends(n, s, "failed")
    BY <1>3 DEF NodeBusy, Running
  <2>2. UNCHANGED <<users, op, plan, row, pc, left, minted, told, settled>>
    BY <1>3 DEF NodeBusy
  <2>3. QED
    BY <2>1, <2>2, QuietEnd
<1>4. CASE NodeInstallsSame(n, s)
  <2>1. /\ Holds(remote[n][s]) /\ users[n] = remote[n][s].staged
        /\ Ends(n, s, "ok") /\ Settles(n, s)
        /\ UNCHANGED <<users, op, plan, row, pc, left, minted, told>>
    BY <1>4 DEF NodeInstallsSame, Holds
  <2>2. QED
    BY <2>1, OkEnd
<1>5. CASE NodeInstalls(n, s)
  BY <1>5, InstallsStep
<1>6. CASE NodeHealthy(n, s)
  <2>1. /\ Holds(remote[n][s]) /\ Ends(n, s, "ok") /\ Settles(n, s)
        /\ UNCHANGED <<users, op, plan, row, pc, left, minted, told>>
    BY <1>6 DEF NodeHealthy, Holds
  <2>2. users[n] = remote[n][s].staged
    BY <1>6 DEF NodeHealthy, IndInv, HeldInv, Held
  <2>3. QED
    BY <2>1, <2>2, OkEnd
<1>7. CASE NodeUnhealthy(n, s)
  BY <1>7, UnhealthyStep
<1>8. CASE NodeDies(n, s)
  <2>1. Running(remote[n][s]) /\ Ends(n, s, "failed")
    BY <1>8 DEF NodeDies
  <2>2. UNCHANGED <<users, op, plan, row, pc, left, minted, told, settled>>
    BY <1>8 DEF NodeDies
  <2>3. QED
    BY <2>1, <2>2, QuietEnd
<1>9. QED
  BY <1>1, <1>2, <1>3, <1>4, <1>5, <1>6, <1>7, <1>8 DEF OnNode

-----------------------------------------------------------------------------
(***************************************************************************)
(* The controller.                                                         *)
(***************************************************************************)
OkSame ==
  \A n \in Node, s \in Slot :
    remote'[n][s].phase = "ok" => remote'[n][s] = remote[n][s]

LEMMA SameRemote ==
  ASSUME TypeOK, UNCHANGED <<lock, remote>>
  PROVE  remote' \in Remotes /\ OneLock' /\ Fading /\ OkSame
<1>1. remote' \in Remotes
  BY DEF TypeOK, Remotes
<1>2. OneLock'
  BY DEF TypeOK, OneLock, Holds
<1>3. Fading /\ OkSame
  BY DEF Fading, Fades, OkSame
<1>4. QED
  BY <1>1, <1>2, <1>3

LEMMA NotAwaited ==
  ASSUME TypeOK, WaitInv, NEW r \in Run, pc[r] # "wait"
  PROVE  ~ Awaited(r)
  BY NoneIsNew DEF WaitInv, Asked, Awaited

LEMMA OkFirmCommand ==
  ASSUME TypeOK, HeldInv, FirmInv, FirmStays, OkSame
  PROVE  \A n \in Node, s \in Slot : FirmCommand(n, s)'
<1> SUFFICES ASSUME NEW n \in Node, NEW s \in Slot
             PROVE  FirmCommand(n, s)'
  OBVIOUS
<1>1. PICK c \in Command : c = remote[n][s]
  BY Types
<1>2. ASSUME remote'[n][s].phase = "ok", remote'[n][s].op = "add"
      PROVE  Firm(n, c.tag, c.uid)' /\ remote'[n][s] = c
  <2>1. remote'[n][s] = c
    BY <1>1, <1>2 DEF OkSame
  <2>2. c.tag \in Tag /\ c.uid \in Uid
    BY <1>1, <1>2, <2>1 DEF HeldInv, Held
  <2>3. Firm(n, c.tag, c.uid)
    BY <1>1, <1>2, <2>1 DEF FirmInv, FirmCommand
  <2>4. QED
    BY <2>1, <2>2, <2>3 DEF FirmStays
<1>3. QED
  BY <1>2 DEF FirmCommand, Firm

OthersStay(r) ==
  \A q \in Run \ {r} :
    op'[q] = op[q] /\ plan'[q] = plan[q] /\ row'[q] = row[q] /\ pc'[q] = pc[q]

RunTypes ==
  /\ op \in [Run -> {"add", "enable", "disable"}]
  /\ plan \in [Run -> Seq(Task)]
  /\ row \in [Run -> Seq([ok : BOOLEAN, firm : BOOLEAN])]
  /\ pc \in [Run -> {"idle", "show", "send", "wait", "report"}]

RunPlan(r) ==
  /\ pc[r] = "idle" => row[r] = << >>
  /\ Len(row[r]) <= Len(plan[r])
  /\ pc[r] \in {"show", "send", "wait"} => Len(row[r]) < Len(plan[r])

(* A step of a run that starts no command, and has none under way after it.*)
LEMMA ControlStep ==
  ASSUME IndInv, NEW r \in Run, users' = users, settled' = settled,
         remote' \in Remotes, OneLock', Fading, OkSame, ~ Awaited(r)',
         OthersStay(r), RunTypes', RunPlan(r)',
         left' \in 0 .. MaxRuns, minted' \in [Uid -> Tag \cup {None}],
         told' \in SUBSET [task : Task, firm : BOOLEAN],
         op'[r] = "add" => \A i \in DOMAIN row'[r] : FirmRow(r, i)',
         \A w \in told' : w.firm => Firm(w.task.node, w.task.tag, w.task.uid)'
  PROVE  IndInv'
<1>1. TypeOK /\ HeldInv /\ PlanInv /\ WaitInv /\ FirmInv /\ SettledInv
  BY DEF IndInv
<1>2. FirmStays /\ CalmStays
  BY <1>1, FadingFirm, FadingCalm DEF FirmStays, CalmStays
<1>3. TypeOK'
  BY <1>1 DEF TypeOK, Remotes, OneLock, RunTypes, Holds
<1>4. HeldInv'
  BY <1>1, FadingHeld
<1>5. PlanInv'
  <2>1. ASSUME NEW q \in Run
        PROVE  RunPlan(q)'
    <3>1. CASE q = r
      BY <3>1
    <3>2. CASE q # r
      <4>1. op'[q] = op[q] /\ plan'[q] = plan[q] /\ row'[q] = row[q] /\ pc'[q] = pc[q]
        BY <3>2 DEF OthersStay
      <4>2. RunPlan(q)
        BY <1>1 DEF PlanInv, RunPlan
      <4>3. QED
        BY <4>1, <4>2 DEF RunPlan
    <3>3. QED
      BY <3>1, <3>2
  <2>2. QED
    BY <2>1 DEF PlanInv, RunPlan
<1>6. WaitInv'
  <2>1. ASSUME NEW q \in Run, Awaited(q)'
        PROVE  pc'[q] = pc[q] /\ op'[q] = op[q] /\ plan'[q] = plan[q] /\ row'[q] = row[q]
    <3>1. q # r
      BY <2>1
    <3>2. QED
      BY <3>1 DEF OthersStay
  <2>2. QED
    BY <1>1, <2>1, FadingWait
<1>7. FirmInv'
  <2>1. \A n \in Node, s \in Slot : FirmCommand(n, s)'
    BY <1>1, <1>2, OkFirmCommand
  <2>2. ASSUME NEW q \in Run, q # r, op'[q] = "add", NEW i \in DOMAIN row'[q]
        PROVE  FirmRow(q, i)'
    <3>1. op'[q] = op[q] /\ plan'[q] = plan[q] /\ row'[q] = row[q]
      BY <2>2 DEF OthersStay
    <3>2. PICK k \in Task : k = plan[q][i]
      BY <1>1, <2>2, <3>1, RowTask
    <3>3. FirmRow(q, i)
      BY <1>1, <2>2, <3>1 DEF FirmInv
    <3>4. k.node \in Node /\ k.tag \in Tag /\ k.uid \in Uid
      BY <3>2 DEF Task
    <3>5. ASSUME row[q][i].ok, row[q][i].firm
          PROVE  Firm(k.node, k.tag, k.uid)'
      <4>1. Firm(k.node, k.tag, k.uid)
        BY <3>2, <3>3, <3>5 DEF FirmRow
      <4>2. QED
        BY <1>2, <3>4, <4>1 DEF FirmStays
    <3>6. QED
      BY <3>1, <3>2, <3>5 DEF FirmRow, Firm
  <2>3. \A q \in Run : op'[q] = "add" => \A i \in DOMAIN row'[q] : FirmRow(q, i)'
    BY <2>2
  <2>4. QED
    BY <2>1, <2>3 DEF FirmInv
<1>8. SettledInv'
  BY <1>1, <1>2, SettledStays
<1>9. QED
  BY <1>3, <1>4, <1>5, <1>6, <1>7, <1>8 DEF IndInv

(* What was told stays so.                                                 *)
LEMMA ToldStays ==
  ASSUME IndInv, Fading, users' = users
  PROVE  \A w \in told : w.firm => Firm(w.task.node, w.task.tag, w.task.uid)'
<1>1. TypeOK /\ FirmInv
  BY DEF IndInv
<1>2. ASSUME NEW w \in told, w.firm
      PROVE  Firm(w.task.node, w.task.tag, w.task.uid)'
  <2>1. w.task \in Task
    BY <1>1 DEF TypeOK
  <2>2. PICK k \in Task : k = w.task
    BY <2>1
  <2>3. k.node \in Node /\ Firm(k.node, k.tag, k.uid)
    BY <1>1, <1>2, <2>2 DEF FirmInv, Task
  <2>4. Firm(k.node, k.tag, k.uid)'
    BY <1>1, <2>3, FadingFirm
  <2>5. QED
    BY <2>2, <2>4
<1>3. QED
  BY <1>2

LEMMA NextTask ==
  ASSUME TypeOK, PlanInv, NEW r \in Run, pc[r] \in {"show", "send", "wait"}
  PROVE  /\ TaskOf(r) \in Task
         /\ plan[r] \in Seq(Task) /\ row[r] \in Seq([ok : BOOLEAN, firm : BOOLEAN])
         /\ Len(row[r]) \in Nat /\ Len(plan[r]) \in Nat /\ Len(row[r]) < Len(plan[r])
<1>1. /\ plan[r] \in Seq(Task) /\ row[r] \in Seq([ok : BOOLEAN, firm : BOOLEAN])
      /\ Len(row[r]) < Len(plan[r])
  BY DEF TypeOK, PlanInv
<1>2. Len(row[r]) \in Nat /\ Len(plan[r]) \in Nat
  BY <1>1
<1>3. Len(row[r]) + 1 \in 1 .. Len(plan[r])
  BY <1>1, <1>2
<1>4. TaskOf(r) \in Task
  BY <1>1, <1>3, ElementOfSeq DEF TaskOf
<1>5. QED
  BY <1>1, <1>2, <1>4

(* A result: firm if it says so.                                           *)
LEMMA ResultStep ==
  ASSUME IndInv, NEW r \in Run, pc[r] \in {"show", "send", "wait"},
         NEW ok \in BOOLEAN, NEW firm \in BOOLEAN, Result(r, ok, firm),
         remote' \in Remotes, OneLock', Fading, OkSame, ~ Awaited(r)',
         ok /\ firm /\ op[r] = "add" =>
           Firm(TaskOf(r).node, TaskOf(r).tag, TaskOf(r).uid),
         UNCHANGED <<users, op, plan, left, minted, told, settled>>
  PROVE  IndInv'
<1>1. TypeOK /\ HeldInv /\ PlanInv /\ WaitInv /\ FirmInv /\ SettledInv
  BY DEF IndInv
<1> DEFINE e == [ok |-> ok, firm |-> firm]
<1>2. PICK k \in Task : k = TaskOf(r)
  BY <1>1, NextTask
<1>3. /\ plan[r] \in Seq(Task) /\ row[r] \in Seq([ok : BOOLEAN, firm : BOOLEAN])
      /\ Len(row[r]) \in Nat /\ Len(plan[r]) \in Nat /\ Len(row[r]) < Len(plan[r])
  BY <1>1, NextTask
<1>4. e \in [ok : BOOLEAN, firm : BOOLEAN] /\ e.ok = ok /\ e.firm = firm
  OBVIOUS
<1>5. row' = [row EXCEPT ![r] = Append(row[r], e)]
  BY DEF Result
<1> HIDE DEF e
<1>6. pc' = [pc EXCEPT ![r] = IF Len(row[r]) + 1 = Len(plan[r]) THEN "report" ELSE "show"]
  BY DEF Result
<1>7. /\ Append(row[r], e) \in Seq([ok : BOOLEAN, firm : BOOLEAN])
      /\ Len(Append(row[r], e)) = Len(row[r]) + 1
      /\ \A i \in 1 .. Len(row[r]) : Append(row[r], e)[i] = row[r][i]
      /\ Append(row[r], e)[Len(row[r]) + 1] = e
  BY <1>3, <1>4, AppendProperties
<1>8. row'[r] = Append(row[r], e) /\ plan'[r] = plan[r] /\ op'[r] = op[r]
  BY <1>1, <1>5 DEF TypeOK
<1>9. pc'[r] = IF Len(row[r]) + 1 = Len(plan[r]) THEN "report" ELSE "show"
  BY <1>1, <1>6 DEF TypeOK
<1>10. RunTypes'
  <2>1. row' \in [Run -> Seq([ok : BOOLEAN, firm : BOOLEAN])]
    BY <1>1, <1>5, <1>7 DEF TypeOK
  <2>2. pc' \in [Run -> {"idle", "show", "send", "wait", "report"}]
    BY <1>1, <1>6 DEF TypeOK
  <2>3. QED
    BY <1>1, <2>1, <2>2 DEF TypeOK, RunTypes
<1>11. OthersStay(r)
  BY <1>1, <1>5, <1>6 DEF OthersStay, TypeOK
<1>12. RunPlan(r)'
  <2>1. Len(row'[r]) = Len(row[r]) + 1
    BY <1>7, <1>8
  <2>2. QED
    BY <1>3, <1>8, <1>9, <2>1 DEF RunPlan
<1>13. ASSUME op'[r] = "add", NEW i \in DOMAIN row'[r]
       PROVE  FirmRow(r, i)'
  <2>1. op[r] = "add"
    BY <1>8, <1>13
  <2>2. i \in 1 .. Len(row[r]) + 1
    BY <1>7, <1>8, <1>13
  <2>3. CASE i = Len(row[r]) + 1
    <3>1. row'[r][i] = e /\ plan'[r][i] = k
      BY <1>2, <1>7, <1>8, <2>3 DEF TaskOf
    <3>2. ASSUME ok, firm
          PROVE  Firm(k.node, k.tag, k.uid)'
      <4>1. Firm(k.node, k.tag, k.uid)
        BY <1>2, <2>1, <3>2
      <4>2. k.node \in Node
        BY DEF Task
      <4>3. QED
        BY <1>1, <4>1, <4>2, FadingFirm
    <3>3. QED
      BY <1>4, <3>1, <3>2 DEF FirmRow, Firm
  <2>4. CASE i # Len(row[r]) + 1
    <3>1. i \in 1 .. Len(row[r])
      BY <1>3, <2>2, <2>4
    <3>2. row'[r][i] = row[r][i] /\ plan'[r][i] = plan[r][i] /\ i \in DOMAIN row[r]
      BY <1>3, <1>7, <1>8, <3>1
    <3>3. PICK h \in Task : h = plan[r][i]
      BY <1>1, <3>2, RowTask
    <3>4. FirmRow(r, i)
      BY <1>1, <2>1, <3>2 DEF FirmInv
    <3>5. ASSUME row[r][i].ok, row[r][i].firm
          PROVE  Firm(h.node, h.tag, h.uid)'
      <4>1. h.node \in Node /\ Firm(h.node, h.tag, h.uid)
        BY <3>3, <3>4, <3>5 DEF FirmRow, Task
      <4>2. QED
        BY <1>1, <4>1, FadingFirm
    <3>6. QED
      BY <3>2, <3>3, <3>5 DEF FirmRow, Firm
  <2>5. QED
    BY <2>3, <2>4
<1>14. \A w \in told' : w.firm => Firm(w.task.node, w.task.tag, w.task.uid)'
  BY ToldStays
<1>15. /\ left' \in 0 .. MaxRuns /\ minted' \in [Uid -> Tag \cup {None}]
       /\ told' \in SUBSET [task : Task, firm : BOOLEAN]
  BY <1>1 DEF TypeOK
<1>16. QED
  BY <1>10, <1>11, <1>12, <1>13, <1>14, <1>15, ControlStep

(* A new plan.                                                             *)
LEMMA BeginStep ==
  ASSUME IndInv, NEW r \in Run, NEW o \in {"add", "enable", "disable"}, NEW p \in Tasks,
         NEW step \in {"show", "send"}, Begin(r, o, p, step),
         minted' \in [Uid -> Tag \cup {None}],
         UNCHANGED <<users, lock, remote, row, told, settled>>
  PROVE  IndInv'
<1>1. TypeOK /\ HeldInv /\ PlanInv /\ WaitInv /\ FirmInv /\ SettledInv
  BY DEF IndInv
<1>2. /\ pc[r] = "idle" /\ left > 0 /\ left' = left - 1
      /\ op' = [op EXCEPT ![r] = o] /\ plan' = [plan EXCEPT ![r] = p]
      /\ pc' = [pc EXCEPT ![r] = step]
  BY DEF Begin
<1>3. p \in Seq(Task) /\ Len(p) > 0
  BY DEF Tasks
<1>4. /\ op'[r] = o /\ plan'[r] = p /\ pc'[r] = step /\ row'[r] = << >>
  BY <1>1, <1>2 DEF TypeOK, PlanInv
<1>5. RunTypes'
  BY <1>1, <1>2, <1>3 DEF TypeOK, RunTypes
<1>6. OthersStay(r)
  BY <1>1, <1>2 DEF TypeOK, OthersStay
<1>7. RunPlan(r)'
  BY <1>3, <1>4 DEF RunPlan
<1>8. remote' \in Remotes /\ OneLock' /\ Fading /\ OkSame
  BY <1>1, SameRemote
<1>9. ~ Awaited(r)'
  <2>1. ~ Awaited(r)
    BY <1>1, <1>2, NotAwaited
  <2>2. QED
    BY <2>1 DEF Awaited
<1>10. left' \in 0 .. MaxRuns /\ told' \in SUBSET [task : Task, firm : BOOLEAN]
  BY <1>1, <1>2, ConstantsAssumption DEF TypeOK
<1>11. \A i \in DOMAIN row'[r] : FirmRow(r, i)'
  BY <1>4
<1>12. \A w \in told' : w.firm => Firm(w.task.node, w.task.tag, w.task.uid)'
  BY <1>8, ToldStays
<1>13. QED
  BY <1>5, <1>6, <1>7, <1>8, <1>9, <1>10, <1>11, <1>12, ControlStep

LEMMA UserAddStep ==
  ASSUME IndInv, NEW r \in Run, UserAdd(r)
  PROVE  IndInv'
<1>1. PICK t \in Tag, u \in Uid, ns \in Lists(Node) :
        /\ Begin(r, "add", AddPlan(t, u, ns), "show")
        /\ minted' = [minted EXCEPT ![u] = t]
        /\ UNCHANGED <<users, lock, remote, row, told, settled>>
  BY DEF UserAdd
<1>2. AddPlan(t, u, ns) \in Tasks
  BY ConstantsAssumption, ListsAreSequences, AddPlanTasks
<1>3. minted' \in [Uid -> Tag \cup {None}]
  BY <1>1 DEF IndInv, TypeOK
<1>4. QED
  BY <1>1, <1>2, <1>3, BeginStep

LEMMA UserImportStep ==
  ASSUME IndInv, NEW r \in Run, UserImport(r)
  PROVE  IndInv'
<1>1. PICK tags \in Lists(Tag), uids \in Lists(Uid) :
        \E nodes \in [DOMAIN tags -> Lists(Node)] :
          /\ Len(uids) = Len(tags)
          /\ Begin(r, "add",
               FlattenSeq([i \in DOMAIN tags |-> AddPlan(tags[i], uids[i], nodes[i])]), "show")
          /\ minted' = [u \in Uid |->
                      IF \E i \in DOMAIN uids : uids[i] = u
                        THEN tags[CHOOSE i \in DOMAIN uids : uids[i] = u] ELSE minted[u]]
          /\ UNCHANGED <<users, lock, remote, row, told, settled>>
  BY DEF UserImport
<1>2. PICK nodes \in [DOMAIN tags -> Lists(Node)] :
          /\ Len(uids) = Len(tags)
          /\ Begin(r, "add",
               FlattenSeq([i \in DOMAIN tags |-> AddPlan(tags[i], uids[i], nodes[i])]), "show")
          /\ minted' = [u \in Uid |->
                      IF \E i \in DOMAIN uids : uids[i] = u
                        THEN tags[CHOOSE i \in DOMAIN uids : uids[i] = u] ELSE minted[u]]
          /\ UNCHANGED <<users, lock, remote, row, told, settled>>
  BY <1>1
<1>3. /\ tags \in Seq(Tag) /\ uids \in Seq(Uid) /\ Len(tags) > 0
      /\ Len(uids) = Len(tags) /\ Len(tags) \in Nat
      /\ DOMAIN tags = 1 .. Len(tags) /\ DOMAIN uids = 1 .. Len(tags)
  <2>1. tags \in Seq(Tag) /\ uids \in Seq(Uid) /\ Len(tags) > 0
    BY ConstantsAssumption, ListsAreSequences
  <2>2. QED
    BY <1>2, <2>1, LenProperties
<1> DEFINE q == [i \in DOMAIN tags |-> AddPlan(tags[i], uids[i], nodes[i])]
<1>4. q \in [1 .. Len(tags) -> Tasks]
  <2>1. ASSUME NEW i \in 1 .. Len(tags)
        PROVE  AddPlan(tags[i], uids[i], nodes[i]) \in Tasks
    <3>1. tags[i] \in Tag /\ uids[i] \in Uid
      BY <1>3, ElementOfSeq
    <3>2. nodes[i] \in Lists(Node)
      BY <1>3
    <3>3. nodes[i] \in Seq(Node) /\ Len(nodes[i]) > 0
      BY <3>2, ConstantsAssumption, ListsAreSequences
    <3>4. QED
      BY <3>1, <3>3, AddPlanTasks
  <2>2. QED
    BY <1>3, <2>1
<1>5. Begin(r, "add", FlattenSeq(q), "show")
  BY <1>2
<1> HIDE DEF q
<1>6. FlattenSeq(q) \in Tasks
  BY <1>3, <1>4, FlattenTasks
<1>7. minted' \in [Uid -> Tag \cup {None}]
  <2>1. minted \in [Uid -> Tag \cup {None}]
    BY DEF IndInv, TypeOK
  <2>2. ASSUME NEW u \in Uid, \E i \in DOMAIN uids : uids[i] = u
        PROVE  tags[CHOOSE i \in DOMAIN uids : uids[i] = u] \in Tag
    <3>1. PICK j : j = CHOOSE i \in DOMAIN uids : uids[i] = u
      OBVIOUS
    <3>2. j \in 1 .. Len(tags)
      BY <1>3, <2>2, <3>1
    <3>3. QED
      BY <1>3, <3>1, <3>2, ElementOfSeq
  <2>3. QED
    BY <1>2, <2>1, <2>2
<1>8. QED
  BY <1>2, <1>5, <1>6, <1>7, BeginStep

LEMMA UserSwitchStep ==
  ASSUME IndInv, NEW r \in Run, UserSwitch(r)
  PROVE  IndInv'
<1>1. PICK o \in {"enable", "disable"}, t \in Tag, n \in Node, u \in Uid :
        /\ Begin(r, o, AddPlan(t, u, <<n>>), "send")
        /\ UNCHANGED <<users, lock, remote, row, minted, told, settled>>
  BY DEF UserSwitch
<1>2. AddPlan(t, u, <<n>>) \in Tasks
  <2>1. <<n>> \in Seq(Node) /\ Len(<<n>>) > 0
    OBVIOUS
  <2>2. QED
    BY <2>1, AddPlanTasks
<1>3. minted' \in [Uid -> Tag \cup {None}]
  BY <1>1 DEF IndInv, TypeOK
<1>4. QED
  BY <1>1, <1>2, <1>3, BeginStep

LEMMA ShowMissingStep ==
  ASSUME IndInv, NEW r \in Run, ShowMissing(r)
  PROVE  IndInv'
<1>1. TypeOK /\ HeldInv /\ PlanInv /\ WaitInv /\ FirmInv /\ SettledInv
  BY DEF IndInv
<1>2. /\ pc[r] = "show" /\ pc' = [pc EXCEPT ![r] = "send"]
      /\ UNCHANGED <<users, lock, remote, op, plan, row, left, minted, told, settled>>
  BY DEF ShowMissing
<1>3. remote' \in Remotes /\ OneLock' /\ Fading /\ OkSame
  BY <1>1, <1>2, SameRemote
<1>4. ~ Awaited(r)'
  <2>1. ~ Awaited(r)
    BY <1>1, <1>2, NotAwaited
  <2>2. QED
    BY <1>2, <2>1 DEF Awaited
<1>5. RunTypes'
  BY <1>1, <1>2 DEF TypeOK, RunTypes
<1>6. OthersStay(r)
  BY <1>1, <1>2 DEF TypeOK, OthersStay
<1>7. RunPlan(r)'
  <2>1. pc'[r] = "send" /\ row'[r] = row[r] /\ plan'[r] = plan[r]
    BY <1>1, <1>2 DEF TypeOK
  <2>2. QED
    BY <1>1, <1>2, <2>1 DEF PlanInv, RunPlan
<1>8. /\ left' \in 0 .. MaxRuns /\ minted' \in [Uid -> Tag \cup {None}]
      /\ told' \in SUBSET [task : Task, firm : BOOLEAN]
  BY <1>1, <1>2 DEF TypeOK
<1>9. \A w \in told' : w.firm => Firm(w.task.node, w.task.tag, w.task.uid)'
  BY <1>2, <1>3, ToldStays
<1>10. ASSUME op'[r] = "add", NEW i \in DOMAIN row'[r]
       PROVE  FirmRow(r, i)'
  <2>1. FirmRow(r, i)
    BY <1>1, <1>2, <1>10 DEF FirmInv
  <2>2. QED
    BY <1>2, <2>1 DEF FirmRow, Firm
<1>11. QED
  BY <1>2, <1>3, <1>4, <1>5, <1>6, <1>7, <1>8, <1>9, <1>10, ControlStep

(* What `vcl user show` finds.                                             *)
LEMMA ShowStep ==
  ASSUME IndInv, NEW r \in Run,
         ShowConflict(r) \/ ShowSame(r) \/ Unreachable(r)
  PROVE  IndInv'
<1>1. TypeOK /\ HeldInv /\ PlanInv /\ WaitInv /\ FirmInv /\ SettledInv
  BY DEF IndInv
<1>2. /\ pc[r] \in {"show", "send"}
      /\ UNCHANGED <<users, lock, remote, op, plan, left, minted, told, settled>>
  BY DEF ShowConflict, ShowSame, Unreachable
<1>3. remote' \in Remotes /\ OneLock' /\ Fading /\ OkSame
  BY <1>1, <1>2, SameRemote
<1>4. ~ Awaited(r)'
  <2>1. ~ Awaited(r)
    BY <1>1, <1>2, NotAwaited
  <2>2. QED
    BY <1>2, <2>1 DEF Awaited
<1>5. CASE ShowConflict(r) \/ Unreachable(r)
  <2>1. Result(r, FALSE, TRUE)
    BY <1>5 DEF ShowConflict, Unreachable
  <2>2. QED
    BY <1>2, <1>3, <1>4, <2>1, ResultStep
<1>6. CASE ShowSame(r)
  <2>1. PICK k \in Task : k = TaskOf(r)
    BY <1>1, <1>2, NextTask
  <2>2. /\ users[k.node][k.tag].uid = k.uid
        /\ Result(r, TRUE, ~ Tentative(TaskOf(r)))
    BY <1>6, <2>1 DEF ShowSame, Shown
  <2>3. PICK firm \in BOOLEAN : firm = ~ Tentative(TaskOf(r))
    OBVIOUS
  <2>4. firm => Firm(k.node, k.tag, k.uid)
    BY <2>1, <2>2, <2>3 DEF Firm, Tentative
  <2>5. firm => Firm(TaskOf(r).node, TaskOf(r).tag, TaskOf(r).uid)
    BY <2>1, <2>4
  <2>6. Result(r, TRUE, firm)
    BY <2>2, <2>3
  <2>7. QED
    BY <1>2, <1>3, <1>4, <2>5, <2>6, ResultStep
<1>7. QED
  BY <1>5, <1>6

LEMMA AnswerStep ==
  ASSUME IndInv, NEW r \in Run, Answer(r)
  PROVE  IndInv'
<1>1. TypeOK /\ HeldInv /\ PlanInv /\ WaitInv /\ FirmInv /\ SettledInv
  BY DEF IndInv
<1>2. PICK s \in Slot :
        /\ pc[r] = "wait"
        /\ remote[TaskOf(r).node][s].by = r
        /\ remote[TaskOf(r).node][s].phase \in {"ok", "failed"}
        /\ Result(r, remote[TaskOf(r).node][s].phase = "ok", TRUE)
        /\ remote' = [remote EXCEPT ![TaskOf(r).node][s] = Free]
        /\ UNCHANGED <<users, lock, op, plan, left, minted, told, settled>>
  BY DEF Answer
<1>3. PICK k \in Task : k = TaskOf(r)
  BY <1>1, <1>2, NextTask
<1>4. PICK n \in Node : n = k.node
  BY DEF Task
<1>5. PICK c \in Command : c = remote[n][s]
  BY <1>1, Types
<1>6. /\ c.by = r /\ c.phase \in {"ok", "failed"} /\ remote' = [remote EXCEPT ![n][s] = Free]
  BY <1>2, <1>3, <1>4, <1>5
<1>7. PICK ok \in BOOLEAN : ok = (c.phase = "ok")
  OBVIOUS
<1>8. Result(r, ok, TRUE)
  BY <1>2, <1>3, <1>4, <1>5, <1>7
<1>9. remote' \in Remotes /\ Only(n, s, Free)
  BY <1>1, <1>6, FreeIsCommand, RemoteWrite
<1>10. Fading
  BY <1>9, OnlyFades DEF Fades
<1>11. OkSame
  <2>1. ASSUME NEW m \in Node, NEW z \in Slot
        PROVE  remote'[m][z] = Free \/ remote'[m][z] = remote[m][z]
    BY <1>9 DEF Only
  <2>2. QED
    BY <2>1, FreeFields DEF OkSame
<1>12. OneLock'
  <2>1. lock' \in [Node -> Slot \cup {None}]
    BY <1>1, <1>2 DEF TypeOK
  <2>2. ASSUME NEW m \in Node, NEW z \in Slot
        PROVE  lock'[m] = z <=> Holds(remote'[m][z])
    <3>1. (lock[m] = z <=> Holds(remote[m][z])) /\ lock' = lock
      BY <1>1, <1>2, Types
    <3>2. CASE m = n /\ z = s
      <4>1. ~ Holds(remote[m][z])
        BY <1>5, <1>6, <3>2 DEF Holds
      <4>2. ~ Holds(remote'[m][z])
        BY <1>9, <3>2, FreeFields DEF Only, Holds
      <4>3. QED
        BY <3>1, <4>1, <4>2
    <3>3. CASE ~ (m = n /\ z = s)
      <4>1. remote'[m][z] = remote[m][z]
        BY <1>9, <3>3 DEF Only
      <4>2. QED
        BY <3>1, <4>1
    <3>4. QED
      BY <3>2, <3>3
  <2>3. QED
    BY <2>1, <2>2 DEF OneLock
<1>13. c.by # None /\ Asked(n, s)
  BY <1>1, <1>6, NoneIsNew DEF WaitInv
<1>14. /\ c.tag = k.tag /\ c.op = op[r] /\ (c.op = "add" => c.uid = k.uid)
       /\ \A z \in Slot : remote[n][z].by = r => z = s
  BY <1>3, <1>5, <1>6, <1>13 DEF Asked
<1>15. ~ Awaited(r)'
  <2> SUFFICES ASSUME NEW m \in Node, NEW z \in Slot, remote'[m][z].by = r
               PROVE  FALSE
    BY DEF Awaited
  <2>1. remote'[m][z] # Free
    BY FreeFields, NoneIsNew
  <2>2. remote'[m][z] = remote[m][z] /\ ~ (m = n /\ z = s)
    BY <1>9, <2>1 DEF Only
  <2>3. remote[m][z].by = r /\ r # None
    BY <2>2, NoneIsNew
  <2>4. Asked(m, z)
    BY <1>1 DEF WaitInv
  <2>5. m = TaskOf(r).node
    BY <2>3, <2>4 DEF Asked
  <2>6. m = n
    BY <1>3, <1>4, <2>5
  <2>7. QED
    BY <1>14, <2>2, <2>3, <2>6
<1>16. ok /\ op[r] = "add" => Firm(TaskOf(r).node, TaskOf(r).tag, TaskOf(r).uid)
  <2>1. ASSUME ok, op[r] = "add"
        PROVE  Firm(n, c.tag, c.uid)
    BY <1>1, <1>5, <1>7, <1>14, <2>1 DEF FirmInv, FirmCommand
  <2>2. QED
    BY <1>3, <1>4, <1>14, <2>1
<1>17. QED
  BY <1>2, <1>8, <1>9, <1>10, <1>11, <1>12, <1>15, <1>16, ResultStep

(* Commands that are given up go on, and hold their locks.                 *)
LEMMA AbandonedStep ==
  ASSUME TypeOK, NEW r \in Run, remote' = Abandoned(r), lock' = lock
  PROVE  remote' \in Remotes /\ OneLock' /\ Fading /\ OkSame /\ ~ Awaited(r)'
<1>1. ASSUME NEW n \in Node, NEW s \in Slot
      PROVE  /\ remote'[n][s] \in Command
             /\ Fades(remote[n][s], remote'[n][s])
             /\ Holds(remote'[n][s]) <=> Holds(remote[n][s])
             /\ remote'[n][s].phase = "ok" => remote'[n][s] = remote[n][s]
             /\ remote'[n][s].by # r
  <2>1. PICK c \in Command : c = remote[n][s]
    BY Types
  <2>2. PICK d : d = IF c.by # r THEN c
                     ELSE IF Running(c) THEN [c EXCEPT !.by = None] ELSE Free
    OBVIOUS
  <2>3. remote'[n][s] = d
    BY <2>1, <2>2 DEF Abandoned
  <2>4. Fades(c, d)
    BY <2>2 DEF Fades
  <2>5. d \in Command
    BY <2>4, FadesFields
  <2>6. (Holds(d) <=> Holds(c)) /\ (d.phase = "ok" => d = c) /\ d.by # r
    <3>1. CASE c.by # r
      BY <2>2, <3>1
    <3>2. CASE c.by = r /\ Running(c)
      <4>1. d = [c EXCEPT !.by = None]
        BY <2>2, <3>2
      <4>2. d.phase = c.phase /\ d.by = None
        BY <4>1 DEF Command
      <4>3. QED
        BY <3>2, <4>2, NoneIsNew DEF Holds, Running
    <3>3. CASE c.by = r /\ ~ Running(c)
      <4>1. d = Free
        BY <2>2, <3>3
      <4>2. QED
        BY <3>3, <4>1, FreeFields, NoneIsNew DEF Holds, Running
    <3>4. QED
      BY <3>1, <3>2, <3>3
  <2>7. QED
    BY <2>1, <2>3, <2>4, <2>5, <2>6
<1>2. remote' \in Remotes
  <2>1. remote' = [n \in Node |-> [s \in Slot |-> remote'[n][s]]]
    BY DEF Abandoned
  <2>2. QED
    BY <1>1, <2>1 DEF Remotes
<1>3. OneLock'
  <2>1. lock' \in [Node -> Slot \cup {None}]
    BY DEF TypeOK
  <2>2. \A n \in Node, s \in Slot : lock'[n] = s <=> Holds(remote'[n][s])
    BY <1>1, Types
  <2>3. QED
    BY <2>1, <2>2 DEF OneLock
<1>4. Fading /\ OkSame /\ ~ Awaited(r)'
  BY <1>1 DEF Fading, OkSame, Awaited
<1>5. QED
  BY <1>2, <1>3, <1>4

LEMMA LoseStep ==
  ASSUME IndInv, NEW r \in Run, Lose(r)
  PROVE  IndInv'
<1>1. /\ pc[r] = "wait" /\ Result(r, FALSE, TRUE)
      /\ remote' = Abandoned(r) /\ lock' = lock
      /\ UNCHANGED <<users, op, plan, left, minted, told, settled>>
  BY DEF Lose
<1>2. remote' \in Remotes /\ OneLock' /\ Fading /\ OkSame /\ ~ Awaited(r)'
  BY <1>1, AbandonedStep DEF IndInv
<1>3. QED
  BY <1>1, <1>2, ResultStep

(* A run ends, having told only what is firm.                              *)
LEMMA StopStep ==
  ASSUME IndInv, NEW r \in Run, Stop(r),
         remote' \in Remotes, OneLock', Fading, OkSame, ~ Awaited(r)',
         told' \in SUBSET [task : Task, firm : BOOLEAN],
         \A w \in told' : w.firm => Firm(w.task.node, w.task.tag, w.task.uid)',
         UNCHANGED <<users, left, minted, settled>>
  PROVE  IndInv'
<1>1. TypeOK
  BY DEF IndInv
<1>2. /\ op' = [op EXCEPT ![r] = "add"] /\ plan' = [plan EXCEPT ![r] = << >>]
      /\ row' = [row EXCEPT ![r] = << >>] /\ pc' = [pc EXCEPT ![r] = "idle"]
  BY DEF Stop
<1>3. RunTypes'
  BY <1>1, <1>2, EmptySeq DEF TypeOK, RunTypes
<1>4. OthersStay(r)
  BY <1>1, <1>2 DEF TypeOK, OthersStay
<1>5. row'[r] = << >> /\ plan'[r] = << >> /\ pc'[r] = "idle"
  BY <1>1, <1>2 DEF TypeOK
<1>6. RunPlan(r)'
  BY <1>5 DEF RunPlan
<1>7. \A i \in DOMAIN row'[r] : FirmRow(r, i)'
  BY <1>5
<1>8. left' \in 0 .. MaxRuns /\ minted' \in [Uid -> Tag \cup {None}]
  BY <1>1 DEF TypeOK
<1>9. QED
  BY <1>3, <1>4, <1>6, <1>7, <1>8, ControlStep

LEMMA ReportStep ==
  ASSUME IndInv, NEW r \in Run, Report(r)
  PROVE  IndInv'
<1>1. TypeOK /\ HeldInv /\ PlanInv /\ WaitInv /\ FirmInv /\ SettledInv
  BY DEF IndInv
<1>2. /\ pc[r] = "report" /\ Stop(r)
      /\ UNCHANGED <<users, lock, remote, left, minted, settled>>
  BY DEF Report
<1>3. remote' \in Remotes /\ OneLock' /\ Fading /\ OkSame
  BY <1>1, <1>2, SameRemote
<1>4. ~ Awaited(r)'
  <2>1. ~ Awaited(r)
    BY <1>1, <1>2, NotAwaited
  <2>2. QED
    BY <1>2, <2>1 DEF Awaited
<1>5. ASSUME NEW w \in told', w \notin told
      PROVE  \E i \in DOMAIN row[r] :
               /\ w = [task |-> plan[r][i], firm |-> row[r][i].firm]
               /\ op[r] = "add" /\ row[r][i].ok
  BY <1>5 DEF Report, State
<1>6. ASSUME NEW w \in told', w \notin told
      PROVE  /\ w \in [task : Task, firm : BOOLEAN]
             /\ w.firm => Firm(w.task.node, w.task.tag, w.task.uid)'
  <2>1. PICK i \in DOMAIN row[r] :
               /\ w = [task |-> plan[r][i], firm |-> row[r][i].firm]
               /\ op[r] = "add" /\ row[r][i].ok
    BY <1>5, <1>6
  <2>2. PICK k \in Task, b \in BOOLEAN : k = plan[r][i] /\ b = row[r][i].firm
    <3>1. plan[r][i] \in Task /\ row[r][i] \in [ok : BOOLEAN, firm : BOOLEAN]
      BY <1>1, RowTask
    <3>2. QED
      BY <3>1
  <2>3. w = [task |-> k, firm |-> b]
    BY <2>1, <2>2
  <2>4. FirmRow(r, i)
    BY <1>1, <2>1 DEF FirmInv
  <2>5. ASSUME b
        PROVE  Firm(k.node, k.tag, k.uid)'
    <3>1. k.node \in Node /\ Firm(k.node, k.tag, k.uid)
      BY <2>1, <2>2, <2>4, <2>5 DEF FirmRow, Task
    <3>2. QED
      BY <1>1, <1>2, <1>3, <3>1, FadingFirm
  <2>6. w \in [task : Task, firm : BOOLEAN] /\ w.task = k /\ w.firm = b
    BY <2>3
  <2>7. QED
    BY <2>5, <2>6
<1>7. told' \in SUBSET [task : Task, firm : BOOLEAN]
  BY <1>1, <1>6 DEF TypeOK
<1>8. \A w \in told : w.firm => Firm(w.task.node, w.task.tag, w.task.uid)'
  BY <1>2, <1>3, ToldStays
<1>9. \A w \in told' : w.firm => Firm(w.task.node, w.task.tag, w.task.uid)'
  BY <1>6, <1>8
<1>10. QED
  BY <1>2, <1>3, <1>4, <1>7, <1>9, StopStep

LEMMA KillStep ==
  ASSUME IndInv, NEW r \in Run, Kill(r)
  PROVE  IndInv'
<1>1. /\ Stop(r) /\ remote' = Abandoned(r) /\ lock' = lock
      /\ UNCHANGED <<users, left, minted, told, settled>>
  BY DEF Kill
<1>2. remote' \in Remotes /\ OneLock' /\ Fading /\ OkSame /\ ~ Awaited(r)'
  BY <1>1, AbandonedStep DEF IndInv
<1>3. told' \in SUBSET [task : Task, firm : BOOLEAN]
  BY <1>1 DEF IndInv, TypeOK
<1>4. \A w \in told' : w.firm => Firm(w.task.node, w.task.tag, w.task.uid)'
  BY <1>1, <1>2, ToldStays
<1>5. QED
  BY <1>1, <1>2, <1>3, <1>4, StopStep

(* A command is sent: nothing waited for the run before.                   *)
LEMMA SendStep ==
  ASSUME IndInv, NEW r \in Run, Send(r)
  PROVE  IndInv'
<1>1. TypeOK /\ HeldInv /\ PlanInv /\ WaitInv /\ FirmInv /\ SettledInv
  BY DEF IndInv
<1>2. pc[r] = "send"
  BY DEF Send
<1>3. PICK k \in Task : k = TaskOf(r)
  BY <1>1, <1>2, NextTask
<1>4. PICK n \in Node, t \in Tag, o \in {"add", "enable", "disable"} :
        n = k.node /\ t = k.tag /\ o = op[r]
  BY <1>1 DEF Task, TypeOK
<1>5. PICK u \in Uid \cup {None} : u = IF o = "add" THEN k.uid ELSE None
  BY DEF Task
<1>6. PICK d : d = [Free EXCEPT !.phase = "lock", !.op = o, !.tag = t, !.uid = u, !.by = r]
  OBVIOUS
<1>7. PICK s \in Slot :
        /\ remote[n][s] = Free
        /\ remote' = [remote EXCEPT ![n][s] = d]
        /\ pc' = [pc EXCEPT ![r] = "wait"]
        /\ settled' = IF o = "enable" THEN settled \ {<<n, t>>} ELSE settled
        /\ UNCHANGED <<users, lock, op, plan, row, left, minted, told>>
  BY <1>3, <1>4, <1>5, <1>6 DEF Send
<1>8. /\ d \in Command /\ d.phase = "lock" /\ d.op = o /\ d.tag = t /\ d.uid = u
      /\ d.by = r
  BY <1>6, FreeIsCommand DEF Command
<1>9. remote' \in Remotes /\ Only(n, s, d)
  BY <1>1, <1>7, <1>8, RemoteWrite
<1>10. ~ Awaited(r) /\ r # None
  BY <1>1, <1>2, NotAwaited, NoneIsNew
<1>11. ASSUME NEW m \in Node, NEW z \in Slot
       PROVE  remote'[m][z] = IF m = n /\ z = s THEN d ELSE remote[m][z]
  BY <1>9 DEF Only
<1>12. OneLock'
  <2>1. lock' \in [Node -> Slot \cup {None}]
    BY <1>1, <1>7 DEF TypeOK
  <2>2. ASSUME NEW m \in Node, NEW z \in Slot
        PROVE  lock'[m] = z <=> Holds(remote'[m][z])
    <3>1. (lock[m] = z <=> Holds(remote[m][z])) /\ lock' = lock
      BY <1>1, <1>7, Types
    <3>2. CASE m = n /\ z = s
      BY <1>7, <1>8, <1>11, <3>1, <3>2, FreeFields DEF Holds
    <3>3. CASE ~ (m = n /\ z = s)
      BY <1>11, <3>1, <3>3
    <3>4. QED
      BY <3>2, <3>3
  <2>3. QED
    BY <2>1, <2>2 DEF OneLock
<1>13. \A m \in Node, z \in Slot :
         remote'[m][z].phase = "installed" => remote'[m][z] = remote[m][z]
  BY <1>8, <1>11
<1>14. FirmStays
  BY <1>7, <1>13 DEF FirmStays, Firm
<1>15. TypeOK'
  <2>1. settled' \in SUBSET (Node \X Tag)
    BY <1>1, <1>7 DEF TypeOK
  <2>2. pc' \in [Run -> {"idle", "show", "send", "wait", "report"}]
    BY <1>1, <1>7 DEF TypeOK
  <2>3. QED
    BY <1>1, <1>7, <1>9, <1>12, <2>1, <2>2 DEF TypeOK, Remotes, OneLock, Holds
<1>16. HeldInv'
  <2>1. \A m \in Node : Sound(users'[m])
    BY <1>1, <1>7 DEF HeldInv
  <2>2. ASSUME NEW m \in Node, NEW z \in Slot
        PROVE  Held(m, z)'
    <3>1. CASE m = n /\ z = s
      <4>1. remote'[m][z] = d
        BY <1>11, <3>1
      <4>2. o = "add" => u \in Uid
        BY <1>5 DEF Task
      <4>3. QED
        BY <1>8, <4>1, <4>2 DEF Held
    <3>2. CASE ~ (m = n /\ z = s)
      <4>1. remote'[m][z] = remote[m][z] /\ users'[m] = users[m]
        BY <1>7, <1>11, <3>2
      <4>2. Held(m, z)
        BY <1>1 DEF HeldInv
      <4>3. QED
        BY <4>1, <4>2 DEF Held
    <3>3. QED
      BY <3>1, <3>2
  <2>3. QED
    BY <2>1, <2>2 DEF HeldInv
<1>17. PlanInv'
  <2>1. ASSUME NEW q \in Run
        PROVE  RunPlan(q)'
    <3>1. RunPlan(q) /\ row'[q] = row[q] /\ plan'[q] = plan[q]
      BY <1>1, <1>7 DEF PlanInv, RunPlan
    <3>2. pc'[q] = IF q = r THEN "wait" ELSE pc[q]
      BY <1>1, <1>7 DEF TypeOK
    <3>3. QED
      BY <1>2, <3>1, <3>2 DEF RunPlan
  <2>2. QED
    BY <2>1 DEF PlanInv, RunPlan
<1>18. WaitInv'
  <2>1. ASSUME NEW m \in Node, NEW z \in Slot, remote'[m][z].by # None
        PROVE  Asked(m, z)'
    <3>1. CASE m = n /\ z = s
      <4>1. remote'[m][z] = d
        BY <1>11, <3>1
      <4>2. TaskOf(r)' = k
        BY <1>3, <1>7 DEF TaskOf
      <4>3. pc'[r] = "wait" /\ op'[r] = o
        BY <1>1, <1>4, <1>7 DEF TypeOK
      <4>4. \A y \in Slot : remote'[m][y].by = r => y = z
        BY <1>10, <1>11, <3>1 DEF Awaited
      <4>5. u = k.uid \/ o # "add"
        BY <1>5
      <4>6. QED
        BY <1>4, <1>8, <3>1, <4>1, <4>2, <4>3, <4>4, <4>5 DEF Asked
    <3>2. CASE ~ (m = n /\ z = s)
      <4>1. PICK c \in Command : c = remote[m][z] /\ c = remote'[m][z]
        BY <1>1, <1>11, <3>2, Types
      <4>2. PICK q \in Run : q = c.by
        BY <2>1, <4>1 DEF Command
      <4>3. q # r
        BY <1>10, <4>1, <4>2 DEF Awaited
      <4>4. /\ pc[q] = "wait" /\ c.phase # "free"
            /\ m = TaskOf(q).node /\ c.tag = TaskOf(q).tag /\ c.op = op[q]
            /\ c.op = "add" => c.uid = TaskOf(q).uid
            /\ \A y \in Slot : remote[m][y].by = q => y = z
        <5>1. Asked(m, z)
          BY <1>1 DEF WaitInv
        <5>2. remote[m][z].by = q /\ q # None
          BY <2>1, <4>1, <4>2
        <5>3. QED
          BY <4>1, <5>1, <5>2 DEF Asked
      <4>5. /\ pc'[q] = "wait" /\ op'[q] = op[q] /\ TaskOf(q)' = TaskOf(q)
        BY <1>1, <1>7, <4>3, <4>4 DEF TypeOK, TaskOf
      <4>6. \A y \in Slot : remote'[m][y].by = q => y = z
        BY <1>8, <1>11, <4>3, <4>4
      <4>7. QED
        BY <4>1, <4>2, <4>4, <4>5, <4>6 DEF Asked
    <3>3. QED
      BY <3>1, <3>2
  <2>2. QED
    BY <2>1 DEF WaitInv, Asked
<1>19. FirmInv'
  <2>1. OkSame
    BY <1>8, <1>11 DEF OkSame
  <2>2. \A m \in Node, z \in Slot : FirmCommand(m, z)'
    BY <1>1, <1>14, <2>1, OkFirmCommand
  <2>3. QED
    <3>1. \A q \in Run : op'[q] = "add" => \A i \in DOMAIN row'[q] : FirmRow(q, i)'
      <4>1. ASSUME NEW q \in Run, op'[q] = "add", NEW i \in DOMAIN row'[q]
            PROVE  FirmRow(q, i)'
        <5>1. op' = op /\ plan' = plan /\ row' = row
          BY <1>7
        <5>2. PICK h \in Task : h = plan[q][i]
          BY <1>1, <4>1, <5>1, RowTask
        <5>3. FirmRow(q, i)
          BY <1>1, <4>1, <5>1 DEF FirmInv
        <5>4. h.node \in Node /\ h.tag \in Tag /\ h.uid \in Uid
          BY DEF Task
        <5>5. ASSUME row[q][i].ok, row[q][i].firm
              PROVE  Firm(h.node, h.tag, h.uid)'
          <6>1. Firm(h.node, h.tag, h.uid)
            BY <5>2, <5>3, <5>5 DEF FirmRow
          <6>2. QED
            BY <1>14, <5>4, <6>1 DEF FirmStays
        <5>6. QED
          BY <5>1, <5>2, <5>5 DEF FirmRow, Firm
      <4>2. QED
        BY <4>1
    <3>2. ASSUME NEW w \in told, w.firm
          PROVE  Firm(w.task.node, w.task.tag, w.task.uid)'
      <4>1. PICK h \in Task : h = w.task
        BY <1>1 DEF TypeOK
      <4>2. h.node \in Node /\ h.tag \in Tag /\ h.uid \in Uid
        BY DEF Task
      <4>3. Firm(h.node, h.tag, h.uid)
        BY <1>1, <3>2, <4>1 DEF FirmInv
      <4>4. QED
        BY <1>14, <4>1, <4>2, <4>3 DEF FirmStays
    <3>3. told' = told
      BY <1>7
    <3>4. QED
      BY <2>2, <3>1, <3>2, <3>3 DEF FirmInv
<1>20. SettledInv'
  <2>1. ASSUME NEW m \in Node, NEW v \in Tag, <<m, v>> \in settled'
        PROVE  Calm(m, v)'
    <3>1. <<m, v>> \in settled /\ ~ (o = "enable" /\ m = n /\ v = t)
      BY <1>7, <2>1
    <3>2. Calm(m, v)
      BY <1>1, <3>1 DEF SettledInv
    <3>3. ASSUME NEW z \in Slot
          PROVE  ~ Enables(remote'[m][z], v)
      <4>1. CASE m = n /\ z = s
        <5>1. remote'[m][z] = d
          BY <1>11, <4>1
        <5>2. QED
          BY <1>8, <3>1, <4>1, <5>1 DEF Enables
      <4>2. CASE ~ (m = n /\ z = s)
        <5>1. remote'[m][z] = remote[m][z]
          BY <1>11, <4>2
        <5>2. QED
          BY <3>2, <5>1 DEF Calm
      <4>3. QED
        BY <4>1, <4>2
    <3>4. users' = users
      BY <1>7
    <3>5. QED
      BY <1>13, <3>2, <3>3, <3>4 DEF Calm
  <2>2. QED
    BY <2>1 DEF SettledInv
<1>21. QED
  BY <1>15, <1>16, <1>17, <1>18, <1>19, <1>20 DEF IndInv

LEMMA ControllerStep ==
  ASSUME IndInv, NEW r \in Run, OnController(r)
  PROVE  IndInv'
<1>1. CASE UserAdd(r) \/ UserImport(r) \/ UserSwitch(r)
  BY <1>1, UserAddStep, UserImportStep, UserSwitchStep
<1>2. CASE ShowMissing(r) \/ ShowConflict(r) \/ ShowSame(r) \/ Unreachable(r)
  BY <1>2, ShowMissingStep, ShowStep
<1>3. CASE Send(r)
  BY <1>3, SendStep
<1>4. CASE Answer(r) \/ Lose(r)
  BY <1>4, AnswerStep, LoseStep
<1>5. CASE Report(r) \/ Kill(r)
  BY <1>5, ReportStep, KillStep
<1>6. QED
  BY <1>1, <1>2, <1>3, <1>4, <1>5 DEF OnController

-----------------------------------------------------------------------------
(***************************************************************************)
(* The invariant, and what it shows.                                       *)
(***************************************************************************)
LEMMA InitInv ==
  ASSUME Init
  PROVE  IndInv
<1>1. \A n \in Node, s \in Slot : remote[n][s] = Free
  BY DEF Init
<1>2. TypeOK
  <2>1. /\ users \in [Node -> [Tag -> Entry]]
        /\ lock \in [Node -> Slot \cup {None}]
        /\ remote \in [Node -> [Slot -> Command]]
    BY NoUsersSound, FreeIsCommand DEF Init
  <2>2. \A n \in Node, s \in Slot :
          lock[n] = s <=> remote[n][s].phase \in {"staged", "installed"}
    BY <1>1, FreeFields, NoneIsNew DEF Init
  <2>3. plan \in [Run -> Seq(Task)] /\ row \in [Run -> Seq([ok : BOOLEAN, firm : BOOLEAN])]
    BY EmptySeq DEF Init
  <2>4. left \in 0 .. MaxRuns
    BY ConstantsAssumption DEF Init
  <2>5. QED
    BY <2>1, <2>2, <2>3, <2>4 DEF Init, TypeOK
<1>3. HeldInv
  BY <1>1, FreeFields, NoUsersSound DEF Init, HeldInv, Held
<1>4. PlanInv
  BY DEF Init, PlanInv
<1>5. WaitInv
  BY <1>1, FreeFields DEF WaitInv, Asked
<1>6. FirmInv
  <2>1. \A n \in Node, s \in Slot : FirmCommand(n, s)
    BY <1>1, FreeFields DEF FirmCommand
  <2>2. \A r \in Run : DOMAIN row[r] = {}
    BY DEF Init
  <2>3. QED
    BY <2>1, <2>2 DEF Init, FirmInv
<1>7. SettledInv
  BY DEF Init, SettledInv
<1>8. QED
  BY <1>2, <1>3, <1>4, <1>5, <1>6, <1>7 DEF IndInv

LEMMA StutterInv ==
  ASSUME IndInv, UNCHANGED vars
  PROVE  IndInv'
<1>1. TypeOK'
  BY DEF IndInv, vars, TypeOK
<1>2. HeldInv'
  BY DEF IndInv, vars, HeldInv, Held
<1>3. PlanInv' /\ WaitInv'
  BY DEF IndInv, vars, PlanInv, WaitInv, Asked, TaskOf
<1>4. FirmInv'
  BY DEF IndInv, vars, FirmInv, FirmCommand, FirmRow, Firm
<1>5. SettledInv'
  BY DEF IndInv, vars, SettledInv, Calm
<1>6. QED
  BY <1>1, <1>2, <1>3, <1>4, <1>5 DEF IndInv

THEOREM Invariance == Spec => []IndInv
<1>1. Init => IndInv
  BY InitInv
<1>2. IndInv /\ [Next]_vars => IndInv'
  <2>1. ASSUME IndInv, Next
        PROVE  IndInv'
    BY <2>1, NodeStep, ControllerStep DEF Next
  <2>2. QED
    BY <2>1, StutterInv
<1>3. QED
  BY <1>1, <1>2, PTL DEF Spec

(* The types of the registries, of the commands, and of the runs and their *)
(* plans; a node's lock is held by the one command that staged a change.   *)
THEOREM TypeCorrect == Spec => []TypeOK
<1>1. IndInv => TypeOK
  BY DEF IndInv
<1>2. QED
  BY <1>1, Invariance, PTL

(* What a run that ended in SUCCESS said of a node is true, and stays true,*)
(* if no unfinished command could still put back what it read.             *)
THEOREM SuccessIsTrueHolds == Spec => []SuccessIsTrue
<1>1. IndInv => SuccessIsTrue
  BY DEF IndInv, FirmInv, Firm, SuccessIsTrue
<1>2. QED
  BY <1>1, Invariance, PTL

(* A user whose disable succeeded, with no enable under way, is off until  *)
(* an enable is sent: no late add and no undone command turns him on.      *)
THEOREM DisableSticksHolds == Spec => []DisableSticks
<1>1. ASSUME IndInv, NEW s \in settled
      PROVE  ~ users[s[1]][s[2]].on
  <2>1. PICK n \in Node, t \in Tag : s = <<n, t>>
    BY <1>1 DEF IndInv, TypeOK
  <2>2. Calm(n, t)
    BY <1>1, <2>1 DEF IndInv, SettledInv
  <2>3. QED
    BY <2>1, <2>2 DEF Calm, Off
<1>2. IndInv => DisableSticks
  BY <1>1 DEF DisableSticks
<1>3. QED
  BY <1>2, Invariance, PTL

Identity(n, t) ==
  users[n][t] # Absent /\ users'[n][t] # Absent => users'[n][t].uid = users[n][t].uid

(* A step that writes a registry puts in place the holder's change of what *)
(* is there, or puts back what that change was made of.                    *)
LEMMA IdentityStep ==
  ASSUME IndInv, NEW n \in Node, NEW s \in Slot, NodeInstalls(n, s) \/ NodeUnhealthy(n, s),
         NEW m \in Node, NEW t \in Tag
  PROVE  Identity(m, t)
<1>1. TypeOK /\ HeldInv
  BY DEF IndInv
<1>2. PICK c \in Command : c = remote[n][s]
  BY <1>1, Types
<1>3. /\ c.tag \in Tag /\ (c.op = "add" => c.uid \in Uid)
      /\ c.saved \in [Tag -> Entry] /\ Sound(c.saved) /\ Allowed(c.saved, c)
      /\ c.staged = Changed(c.saved, c)
      /\ users[n] = IF c.phase = "staged" THEN c.saved ELSE c.staged
  BY <1>1, <1>2 DEF NodeInstalls, NodeUnhealthy, HeldInv, Held, Command
<1>4. c.saved[t] # Absent => c.staged[t].uid = c.saved[t].uid
  BY <1>3, ChangedKeeps
<1>5. CASE NodeInstalls(n, s)
  <2>1. users[n] = c.saved /\ users'[m] = IF m = n THEN c.staged ELSE users[m]
    BY <1>1, <1>2, <1>3, <1>5 DEF NodeInstalls, TypeOK
  <2>2. QED
    BY <1>4, <2>1 DEF Identity
<1>6. CASE NodeUnhealthy(n, s)
  <2>1. users[n] = c.staged /\ users'[m] = IF m = n THEN c.saved ELSE users[m]
    BY <1>1, <1>2, <1>3, <1>6 DEF NodeUnhealthy, TypeOK
  <2>2. QED
    BY <1>4, <2>1 DEF Identity
<1>7. QED
  BY <1>5, <1>6

(* A user that a node has under one user_id never gets another one there.  *)
THEOREM IdentityIsStableHolds == Spec => IdentityIsStable
<1>1. ASSUME IndInv, Next, NEW m \in Node, NEW t \in Tag
      PROVE  Identity(m, t)
  <2>1. ASSUME NEW n \in Node, NEW s \in Slot, OnNode(n, s)
        PROVE  Identity(m, t)
    <3>1. CASE NodeInstalls(n, s) \/ NodeUnhealthy(n, s)
      BY <1>1, <3>1, IdentityStep
    <3>2. CASE ~ (NodeInstalls(n, s) \/ NodeUnhealthy(n, s))
      <4>1. users' = users
        BY <2>1, <3>2 DEF OnNode, NodeStages, NodeRefuses, NodeBusy, NodeInstallsSame,
                          NodeHealthy, NodeDies
      <4>2. QED
        BY <4>1 DEF Identity
    <3>3. QED
      BY <3>1, <3>2
  <2>2. ASSUME NEW r \in Run, OnController(r)
        PROVE  Identity(m, t)
    <3>1. users' = users
      BY <2>2 DEF OnController, UserAdd, UserImport, UserSwitch, ShowMissing, ShowConflict,
                  ShowSame, Unreachable, Send, Answer, Lose, Report, Kill
    <3>2. QED
      BY <3>1 DEF Identity
  <2>3. QED
    BY <1>1, <2>1, <2>2 DEF Next
<1>2. IndInv /\ [Next]_vars =>
        [\A n \in Node, t \in Tag :
           users[n][t] # Absent /\ users'[n][t] # Absent
             => users'[n][t].uid = users[n][t].uid]_vars
  BY <1>1 DEF Identity
<1>3. QED
  BY <1>2, Invariance, PTL DEF Spec, IdentityIsStable

=============================================================================
