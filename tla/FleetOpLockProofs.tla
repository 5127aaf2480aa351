------------------------- MODULE FleetOpLockProofs -------------------------
(***************************************************************************)
(* fleet_op_lock excludes and leaks nothing, for any number of processes   *)
(* and threads and any depth of nesting.                                   *)
(***************************************************************************)
EXTENDS FleetOpLock, TLAPS

LEMMA InitHolds == Init => LockInv
  BY ConstantsAssumption
  DEF Init, LockInv, TypeOK, ThreadInv, ProcessInv, Steps, None, Inside, Holding, Holds

(* The invariant, at one thread and its process.                           *)
LEMMA ThreadFacts ==
  ASSUME LockInv, NEW t \in Thread
  PROVE  /\ Home[t] \in Process
         /\ pc[t] \in Steps
         /\ depth[t] \in Nat
         /\ owner[Home[t]] \in Thread \cup {None}
         /\ count[Home[t]] \in Nat
         /\ ThreadInv(t)
         /\ ProcessInv(Home[t])
<1>1. Home[t] \in Process
  BY ConstantsAssumption
<1> QED
  BY <1>1 DEF LockInv, TypeOK

LEMMA WantPreserves ==
  ASSUME LockInv, NEW t \in Thread, Want(t)
  PROVE  LockInv'
<1> USE ConstantsAssumption DEF Want, None
<1>1. TypeOK'
  BY SMT DEF LockInv, TypeOK, Steps, ThreadInv, Inside, Holding, Holds
<1>2. ASSUME NEW u \in Thread PROVE ThreadInv(u)'
  BY SMT DEF LockInv, TypeOK, ThreadInv, ProcessInv, Inside, Holding, Holds
<1>3. ASSUME NEW p \in Process PROVE ProcessInv(p)'
  BY SMT DEF LockInv, TypeOK, ThreadInv, ProcessInv, Inside, Holding, Holds
<1> QED BY <1>1, <1>2, <1>3 DEF LockInv

LEMMA EnterThreadPreserves ==
  ASSUME LockInv, NEW t \in Thread, EnterThread(t)
  PROVE  LockInv'
<1> USE ConstantsAssumption DEF EnterThread, None
<1>0. /\ Home[t] \in Process /\ depth[t] \in Nat
      /\ count[Home[t]] = depth[t]
      /\ owner[Home[t]] = None => depth[t] = 0
  BY ThreadFacts, SMT DEF ThreadInv, ProcessInv, Inside, Holding, Holds
<1>1. TypeOK'
  BY <1>0, SMT DEF LockInv, TypeOK, Steps
<1>2. ASSUME NEW u \in Thread PROVE ThreadInv(u)'
  <2>1. CASE u = t
    BY <1>0, <2>1, SMT DEF LockInv, TypeOK, ThreadInv, ProcessInv, Inside, Holding, Holds
  <2>2. CASE u # t /\ Home[u] = Home[t]
    <3>1. ~ Holding(u)
      BY <1>0, <2>2, SMT DEF LockInv, TypeOK, ThreadInv, ProcessInv, Inside, Holding, Holds
    <3> QED
      BY <1>0, <2>2, <3>1, SMT DEF LockInv, TypeOK, ThreadInv, ProcessInv, Inside, Holding, Holds
  <2>3. CASE Home[u] # Home[t]
    BY <1>0, <2>3, SMT DEF LockInv, TypeOK, ThreadInv, ProcessInv, Inside, Holding, Holds
  <2> QED BY <2>1, <2>2, <2>3
<1>3. ASSUME NEW p \in Process PROVE ProcessInv(p)'
  BY SMT DEF LockInv, TypeOK, ThreadInv, ProcessInv, Inside, Holding, Holds
<1> QED BY <1>1, <1>2, <1>3 DEF LockInv

LEMMA BusyThreadPreserves ==
  ASSUME LockInv, NEW t \in Thread, BusyThread(t)
  PROVE  LockInv'
<1> USE ConstantsAssumption DEF BusyThread, None
<1>1. TypeOK'
  BY SMT DEF LockInv, TypeOK, Steps, ThreadInv, Inside, Holding, Holds
<1>2. ASSUME NEW u \in Thread PROVE ThreadInv(u)'
  BY SMT DEF LockInv, TypeOK, ThreadInv, ProcessInv, Inside, Holding, Holds
<1>3. ASSUME NEW p \in Process PROVE ProcessInv(p)'
  BY SMT DEF LockInv, TypeOK, ThreadInv, ProcessInv, Inside, Holding, Holds
<1> QED BY <1>1, <1>2, <1>3 DEF LockInv

LEMMA NestPreserves ==
  ASSUME LockInv, NEW t \in Thread, Nest(t)
  PROVE  LockInv'
<1> USE ConstantsAssumption DEF Nest, None
<1>1. TypeOK'
  BY SMT DEF LockInv, TypeOK, Steps, ThreadInv, Inside, Holding, Holds
<1>2. ASSUME NEW u \in Thread PROVE ThreadInv(u)'
  BY SMT DEF LockInv, TypeOK, ThreadInv, ProcessInv, Inside, Holding, Holds
<1>3. ASSUME NEW p \in Process PROVE ProcessInv(p)'
  BY SMT DEF LockInv, TypeOK, ThreadInv, ProcessInv, Inside, Holding, Holds
<1> QED BY <1>1, <1>2, <1>3 DEF LockInv

LEMMA LockFilePreserves ==
  ASSUME LockInv, NEW t \in Thread, LockFile(t)
  PROVE  LockInv'
<1> USE ConstantsAssumption DEF LockFile, None
<1>1. TypeOK'
  BY SMT DEF LockInv, TypeOK, Steps, ThreadInv, Inside, Holding, Holds
<1>2. ASSUME NEW u \in Thread PROVE ThreadInv(u)'
  BY SMT DEF LockInv, TypeOK, ThreadInv, ProcessInv, Inside, Holding, Holds
<1>3. ASSUME NEW p \in Process PROVE ProcessInv(p)'
  BY SMT DEF LockInv, TypeOK, ThreadInv, ProcessInv, Inside, Holding, Holds
<1> QED BY <1>1, <1>2, <1>3 DEF LockInv

LEMMA LockFailsPreserves ==
  ASSUME LockInv, NEW t \in Thread, LockFails(t)
  PROVE  LockInv'
<1> USE ConstantsAssumption DEF LockFails, None
<1>1. TypeOK'
  BY SMT DEF LockInv, TypeOK, Steps, ThreadInv, Inside, Holding, Holds
<1>2. ASSUME NEW u \in Thread PROVE ThreadInv(u)'
  BY SMT DEF LockInv, TypeOK, ThreadInv, ProcessInv, Inside, Holding, Holds
<1>3. ASSUME NEW p \in Process PROVE ProcessInv(p)'
  BY SMT DEF LockInv, TypeOK, ThreadInv, ProcessInv, Inside, Holding, Holds
<1> QED BY <1>1, <1>2, <1>3 DEF LockInv

LEMMA GiveUpPreserves ==
  ASSUME LockInv, NEW t \in Thread, GiveUp(t)
  PROVE  LockInv'
<1> USE ConstantsAssumption DEF GiveUp, Unlocked, None
<1>0. /\ t \in Thread /\ Home[t] \in Process
      /\ owner[Home[t]] = t
      /\ count[Home[t]] \in Nat /\ count[Home[t]] = 1
      /\ depth[t] \in Nat
  BY ThreadFacts, SMT DEF ThreadInv, ProcessInv, Inside, Holding, Holds
<1>1. TypeOK'
  BY <1>0, SMT DEF LockInv, TypeOK, Steps
<1>2. ASSUME NEW u \in Thread PROVE ThreadInv(u)'
  BY SMT DEF LockInv, TypeOK, ThreadInv, ProcessInv, Inside, Holding, Holds
<1>3. ASSUME NEW p \in Process PROVE ProcessInv(p)'
  BY SMT DEF LockInv, TypeOK, ThreadInv, ProcessInv, Inside, Holding, Holds
<1> QED BY <1>1, <1>2, <1>3 DEF LockInv

LEMMA PublishPreserves ==
  ASSUME LockInv, NEW t \in Thread, Publish(t)
  PROVE  LockInv'
<1> USE ConstantsAssumption DEF Publish, None
<1>0. /\ Home[t] \in Process
      /\ owner[Home[t]] = t /\ flock = t
  BY ThreadFacts, SMT DEF ThreadInv, ProcessInv, Inside, Holding, Holds
<1>1. TypeOK'
  BY <1>0, SMT DEF LockInv, TypeOK, Steps
<1>2. ASSUME NEW u \in Thread PROVE ThreadInv(u)'
  <2>1. CASE u = t
    BY <1>0, <2>1, SMT DEF LockInv, TypeOK, ThreadInv, ProcessInv, Inside, Holding, Holds
  <2>2. CASE u # t /\ Home[u] = Home[t]
    <3>1. ~ Holding(u)
      BY <1>0, <2>2, SMT DEF LockInv, TypeOK, ThreadInv, ProcessInv, Inside, Holding, Holds
    <3> QED
      BY <1>0, <2>2, <3>1, SMT DEF LockInv, TypeOK, ThreadInv, ProcessInv, Inside, Holding, Holds
  <2>3. CASE Home[u] # Home[t]
    BY <1>0, <2>3, SMT DEF LockInv, TypeOK, ThreadInv, ProcessInv, Inside, Holding, Holds
  <2> QED BY <2>1, <2>2, <2>3
<1>3. ASSUME NEW p \in Process PROVE ProcessInv(p)'
  BY SMT DEF LockInv, TypeOK, ThreadInv, ProcessInv, Inside, Holding, Holds
<1> QED BY <1>1, <1>2, <1>3 DEF LockInv

LEMMA UnnestPreserves ==
  ASSUME LockInv, NEW t \in Thread, Unnest(t)
  PROVE  LockInv'
<1> USE ConstantsAssumption DEF Unnest, Unlocked, None
<1>0. /\ t \in Thread /\ Home[t] \in Process
      /\ owner[Home[t]] = t
      /\ count[Home[t]] \in Nat /\ count[Home[t]] = depth[t]
      /\ depth[t] \in Nat
  BY ThreadFacts, SMT DEF ThreadInv, ProcessInv, Inside, Holding, Holds
<1>1. TypeOK'
  BY <1>0, SMT DEF LockInv, TypeOK, Steps
<1>2. ASSUME NEW u \in Thread PROVE ThreadInv(u)'
  <2>1. CASE u = t
    BY <1>0, <2>1, SMT DEF LockInv, TypeOK, ThreadInv, ProcessInv, Inside, Holding, Holds
  <2>2. CASE u # t /\ Home[u] = Home[t]
    <3>1. ~ Holding(u)
      BY <1>0, <2>2, SMT DEF LockInv, TypeOK, ThreadInv, ProcessInv, Inside, Holding, Holds
    <3> QED
      BY <1>0, <2>2, <3>1, SMT DEF LockInv, TypeOK, ThreadInv, ProcessInv, Inside, Holding, Holds
  <2>3. CASE Home[u] # Home[t]
    BY <1>0, <2>3, SMT DEF LockInv, TypeOK, ThreadInv, ProcessInv, Inside, Holding, Holds
  <2> QED BY <2>1, <2>2, <2>3
<1>3. ASSUME NEW p \in Process PROVE ProcessInv(p)'
  BY SMT DEF LockInv, TypeOK, ThreadInv, ProcessInv, Inside, Holding, Holds
<1> QED BY <1>1, <1>2, <1>3 DEF LockInv

LEMMA LastReleasePreserves ==
  ASSUME LockInv, NEW t \in Thread, LastRelease(t)
  PROVE  LockInv'
<1> USE ConstantsAssumption DEF LastRelease, None
<1>1. TypeOK'
  BY SMT DEF LockInv, TypeOK, Steps, ThreadInv, Inside, Holding, Holds
<1>2. ASSUME NEW u \in Thread PROVE ThreadInv(u)'
  BY SMT DEF LockInv, TypeOK, ThreadInv, ProcessInv, Inside, Holding, Holds
<1>3. ASSUME NEW p \in Process PROVE ProcessInv(p)'
  BY SMT DEF LockInv, TypeOK, ThreadInv, ProcessInv, Inside, Holding, Holds
<1> QED BY <1>1, <1>2, <1>3 DEF LockInv

LEMMA ForgetFilePreserves ==
  ASSUME LockInv, NEW t \in Thread, ForgetFile(t)
  PROVE  LockInv'
<1> USE ConstantsAssumption DEF ForgetFile, None
<1>0. /\ Home[t] \in Process
      /\ owner[Home[t]] = t /\ flock = t
  BY ThreadFacts, SMT DEF ThreadInv, ProcessInv, Inside, Holding, Holds
<1>1. TypeOK'
  BY <1>0, SMT DEF LockInv, TypeOK, Steps
<1>2. ASSUME NEW u \in Thread PROVE ThreadInv(u)'
  <2>1. CASE u = t
    BY <1>0, <2>1, SMT DEF LockInv, TypeOK, ThreadInv, ProcessInv, Inside, Holding, Holds
  <2>2. CASE u # t /\ Home[u] = Home[t]
    <3>1. ~ Holding(u)
      BY <1>0, <2>2, SMT DEF LockInv, TypeOK, ThreadInv, ProcessInv, Inside, Holding, Holds
    <3> QED
      BY <1>0, <2>2, <3>1, SMT DEF LockInv, TypeOK, ThreadInv, ProcessInv, Inside, Holding, Holds
  <2>3. CASE Home[u] # Home[t]
    BY <1>0, <2>3, SMT DEF LockInv, TypeOK, ThreadInv, ProcessInv, Inside, Holding, Holds
  <2> QED BY <2>1, <2>2, <2>3
<1>3. ASSUME NEW p \in Process PROVE ProcessInv(p)'
  BY SMT DEF LockInv, TypeOK, ThreadInv, ProcessInv, Inside, Holding, Holds
<1> QED BY <1>1, <1>2, <1>3 DEF LockInv

LEMMA UnlockFilePreserves ==
  ASSUME LockInv, NEW t \in Thread, UnlockFile(t)
  PROVE  LockInv'
<1> USE ConstantsAssumption DEF UnlockFile, None
<1>1. TypeOK'
  BY SMT DEF LockInv, TypeOK, Steps, ThreadInv, Inside, Holding, Holds
<1>2. ASSUME NEW u \in Thread PROVE ThreadInv(u)'
  BY SMT DEF LockInv, TypeOK, ThreadInv, ProcessInv, Inside, Holding, Holds
<1>3. ASSUME NEW p \in Process PROVE ProcessInv(p)'
  BY SMT DEF LockInv, TypeOK, ThreadInv, ProcessInv, Inside, Holding, Holds
<1> QED BY <1>1, <1>2, <1>3 DEF LockInv

LEMMA CloseFilePreserves ==
  ASSUME LockInv, NEW t \in Thread, CloseFile(t)
  PROVE  LockInv'
<1> USE ConstantsAssumption DEF CloseFile, None
<1>1. TypeOK'
  BY SMT DEF LockInv, TypeOK, Steps, ThreadInv, Inside, Holding, Holds
<1>2. ASSUME NEW u \in Thread PROVE ThreadInv(u)'
  BY SMT DEF LockInv, TypeOK, ThreadInv, ProcessInv, Inside, Holding, Holds
<1>3. ASSUME NEW p \in Process PROVE ProcessInv(p)'
  BY SMT DEF LockInv, TypeOK, ThreadInv, ProcessInv, Inside, Holding, Holds
<1> QED BY <1>1, <1>2, <1>3 DEF LockInv

LEMMA LeaveThreadPreserves ==
  ASSUME LockInv, NEW t \in Thread, LeaveThread(t)
  PROVE  LockInv'
<1> USE ConstantsAssumption DEF LeaveThread, Unlocked, None
<1>0. /\ t \in Thread /\ Home[t] \in Process
      /\ owner[Home[t]] = t
      /\ count[Home[t]] \in Nat /\ count[Home[t]] = 1
      /\ depth[t] \in Nat
  BY ThreadFacts, SMT DEF ThreadInv, ProcessInv, Inside, Holding, Holds
<1>1. TypeOK'
  BY <1>0, SMT DEF LockInv, TypeOK, Steps
<1>2. ASSUME NEW u \in Thread PROVE ThreadInv(u)'
  BY SMT DEF LockInv, TypeOK, ThreadInv, ProcessInv, Inside, Holding, Holds
<1>3. ASSUME NEW p \in Process PROVE ProcessInv(p)'
  BY SMT DEF LockInv, TypeOK, ThreadInv, ProcessInv, Inside, Holding, Holds
<1> QED BY <1>1, <1>2, <1>3 DEF LockInv

LEMMA DiePreserves ==
  ASSUME LockInv, NEW q \in Process, Die(q)
  PROVE  LockInv'
<1> USE ConstantsAssumption DEF Die, None
<1>1. TypeOK'
  BY SMT DEF LockInv, TypeOK, Steps
<1>2. ASSUME NEW u \in Thread PROVE ThreadInv(u)'
  BY SMT DEF LockInv, TypeOK, ThreadInv, ProcessInv, Inside, Holding, Holds
<1>3. ASSUME NEW p \in Process PROVE ProcessInv(p)'
  BY SMT DEF LockInv, TypeOK, ThreadInv, ProcessInv, Inside, Holding, Holds
<1> QED BY <1>1, <1>2, <1>3 DEF LockInv

(***************************************************************************)
(* The invariant holds in every reachable state.                           *)
(***************************************************************************)
THEOREM LockSound == Spec => []LockInv
<1>1. Init => LockInv
  BY InitHolds
<1>2. ASSUME LockInv, [Next]_vars PROVE LockInv'
  <2>1. CASE UNCHANGED vars
    BY <1>2, <2>1
    DEF vars, LockInv, TypeOK, ThreadInv, ProcessInv, Inside, Holding, Holds
  <2>2. ASSUME NEW t \in Thread, Want(t) \/ Acquire(t) \/ Release(t) PROVE LockInv'
    <3>1. CASE Want(t)
      BY <1>2, <3>1, WantPreserves
    <3>2. CASE EnterThread(t)
      BY <1>2, <3>2, EnterThreadPreserves
    <3>3. CASE BusyThread(t)
      BY <1>2, <3>3, BusyThreadPreserves
    <3>4. CASE Nest(t)
      BY <1>2, <3>4, NestPreserves
    <3>5. CASE LockFile(t)
      BY <1>2, <3>5, LockFilePreserves
    <3>6. CASE LockFails(t)
      BY <1>2, <3>6, LockFailsPreserves
    <3>7. CASE GiveUp(t)
      BY <1>2, <3>7, GiveUpPreserves
    <3>8. CASE Publish(t)
      BY <1>2, <3>8, PublishPreserves
    <3>9. CASE Unnest(t)
      BY <1>2, <3>9, UnnestPreserves
    <3>10. CASE LastRelease(t)
      BY <1>2, <3>10, LastReleasePreserves
    <3>11. CASE ForgetFile(t)
      BY <1>2, <3>11, ForgetFilePreserves
    <3>12. CASE UnlockFile(t)
      BY <1>2, <3>12, UnlockFilePreserves
    <3>13. CASE CloseFile(t)
      BY <1>2, <3>13, CloseFilePreserves
    <3>14. CASE LeaveThread(t)
      BY <1>2, <3>14, LeaveThreadPreserves
    <3> QED
      BY <2>2, <3>1, <3>2, <3>3, <3>4, <3>5, <3>6, <3>7, <3>8, <3>9, <3>10, <3>11, <3>12, <3>13, <3>14 DEF Acquire, Release
  <2>3. ASSUME NEW p \in Process, Die(p) PROVE LockInv'
    BY <1>2, <2>3, DiePreserves
  <2> QED
    BY <1>2, <2>1, <2>2, <2>3 DEF Next
<1> QED
  BY <1>1, <1>2, PTL DEF Spec

(* At most one thread of one process is inside at any time: the commands   *)
(* that hold fleet_op_lock are sequential, which FleetSync takes for       *)
(* granted.                                                                *)
THEOREM MutexHolds == Spec => []Mutex
<1>1. LockInv => Mutex
  <2> SUFFICES ASSUME LockInv, NEW t \in Thread, NEW u \in Thread,
                      Inside(t), Inside(u)
               PROVE  t = u
    BY DEF Mutex
  <2>1. flock = t /\ flock = u
    BY ThreadFacts DEF ThreadInv
  <2> QED
    BY <2>1
<1> QED
  BY <1>1, LockSound, PTL

(* No order of failures, timeouts and releases leaves a lock behind in a   *)
(* process none of whose threads is using it.                              *)
THEOREM NothingLeakedHolds == Spec => []NothingLeaked
<1>1. LockInv => NothingLeaked
  <2> SUFFICES ASSUME LockInv, NEW p \in Process,
                      \A t \in Thread : Home[t] = p => pc[t] = "out"
               PROVE  /\ owner[p] = None /\ count[p] = 0 /\ global[p] = None
                      /\ flock \in Thread => Home[flock] # p
    BY DEF NothingLeaked
  <2>1. ASSUME NEW t \in Thread, Home[t] = p
        PROVE  ~ Holding(t) /\ pc[t] = "out" /\ ~ Inside(t) /\ flock # t
    BY <2>1, ThreadFacts DEF ThreadInv, Holding
  <2>2. /\ ProcessInv(p)
        /\ owner[p] \in Thread \cup {None} /\ global[p] \in Thread \cup {None}
    BY DEF LockInv, TypeOK
  <2>3. owner[p] = None /\ count[p] = 0
    BY <2>1, <2>2 DEF ProcessInv
  <2>4. global[p] = None
    BY <2>1, <2>2 DEF ProcessInv
  <2> QED
    BY <2>1, <2>3, <2>4
<1> QED
  BY <1>1, LockSound, PTL

(* A command that nests is never refused by its own lock: whoever is       *)
(* inside owns the thread lock, so the only answer to it is a deeper hold. *)
THEOREM NestedIsGrantedHolds == Spec => NestedIsGranted
<1>1. ASSUME LockInv, [Next]_vars, NEW t \in Thread,
             Inside(t), pc[t] # "in", pc'[t] = "in"
      PROVE  depth'[t] = depth[t] + 1
  <2>0. TypeOK /\ ThreadInv(t)
    BY <1>1 DEF LockInv
  <2>1. owner[Home[t]] = t
    BY <1>1, <2>0 DEF ThreadInv, Holding
  <2>2. pc[t] \in {"thread", "entered"}
    BY <1>1, <2>0 DEF ThreadInv
  <2>3. PICK u \in Thread : Want(u) \/ Acquire(u) \/ Release(u)
    BY <1>1, <2>0 DEF Next, vars, Die, TypeOK
  <2>4. u = t
    BY <1>1, <2>0, <2>3 DEF TypeOK, Acquire, Release, Want, EnterThread, BusyThread, Nest,
       LockFile, LockFails, GiveUp, Publish, Unnest, LastRelease, ForgetFile, UnlockFile,
       CloseFile, LeaveThread
  <2>5. Nest(t)
    BY <1>1, <2>0, <2>1, <2>2, <2>3, <2>4 DEF TypeOK, Acquire, Release, Want, EnterThread,
       BusyThread, LockFile, LockFails, GiveUp, Publish, Unnest, LastRelease, ForgetFile,
       UnlockFile, CloseFile, LeaveThread
  <2> QED
    BY <1>1, <2>0, <2>5 DEF Nest, TypeOK, Inside
<1>2. LockInv /\ [Next]_vars =>
        [\A t \in Thread :
           Inside(t) /\ pc[t] # "in" /\ pc'[t] = "in" => depth'[t] = depth[t] + 1]_vars
  BY <1>1
<1> QED
  BY <1>2, LockSound, PTL DEF Spec, NestedIsGranted

=============================================================================
