---------------------------- MODULE FleetOpLock ----------------------------
(***************************************************************************)
(* fleet_op_lock (lib/vincula-fleet.py): every command that changes the    *)
(* registry or fleet.db holds it, whether it runs in a vcl-fleet process or*)
(* in a request thread of the local UI.  It is two locks, taken in order:  *)
(* an RLock between the threads of a process, and an exclusive flock on    *)
(* $FLEET_HOME/.lock between processes.  A thread may nest it.             *)
(*                                                                         *)
(* The open file lives in a variable that is global to the process, the    *)
(* nesting depth in one that is local to the thread; no step of a release  *)
(* is atomic with the next.                                                *)
(***************************************************************************)
EXTENDS Integers

CONSTANTS
  Thread,
  Process,
  Home,        \* the process of a thread
  MaxDepth     \* bound: how deep commands nest

ASSUME ConstantsAssumption ==
  /\ Home \in [Thread -> Process]
  /\ "none" \notin Thread
  /\ MaxDepth \in Nat

VARIABLES
  pc,      \* where the thread is in acquire or release
  depth,   \* _FLEET_LOCK_STATE.depth, per thread
  owner,   \* _FLEET_THREAD_LOCK: its owner, per process ...
  count,   \* ... and how often it is held
  global,  \* _FLEET_LOCK_FH: the thread that opened the file, per process
  file,    \* `fh` in release_fleet_op_lock, per thread
  flock    \* the thread whose open file holds the lock on .lock

vars == <<pc, depth, owner, count, global, file, flock>>

None == "none"

Steps == {"out", "thread", "entered", "open", "locked", "failed", "in",
          "forget", "unlock", "close", "leave"}

-----------------------------------------------------------------------------
(***************************************************************************)
(* acquire_fleet_op_lock.  Timeouts may expire whenever the lock is not    *)
(* free; with a timeout of zero they expire at once.                       *)
(***************************************************************************)
Want(t) ==
  /\ pc[t] \in {"out", "in"}
  /\ depth[t] < MaxDepth
  /\ pc' = [pc EXCEPT ![t] = "thread"]
  /\ UNCHANGED <<depth, owner, count, global, file, flock>>

EnterThread(t) ==
  /\ pc[t] = "thread"
  /\ owner[Home[t]] \in {None, t}
  /\ owner' = [owner EXCEPT ![Home[t]] = t]
  /\ count' = [count EXCEPT ![Home[t]] = @ + 1]
  /\ pc' = [pc EXCEPT ![t] = "entered"]
  /\ UNCHANGED <<depth, global, file, flock>>

(* Mutant of BusyThread: a plain Lock, which its own holder waits for.     *)
BusyPlain(t) ==
  /\ pc[t] = "thread"
  /\ owner[Home[t]] # None
  /\ pc' = [pc EXCEPT ![t] = IF depth[t] > 0 THEN "in" ELSE "out"]
  /\ UNCHANGED <<depth, owner, count, global, file, flock>>

(* busy: the thread goes back to where it was.                             *)
BusyThread(t) ==
  /\ pc[t] = "thread"
  /\ owner[Home[t]] # None
  /\ owner[Home[t]] # t
  /\ pc' = [pc EXCEPT ![t] = IF depth[t] > 0 THEN "in" ELSE "out"]
  /\ UNCHANGED <<depth, owner, count, global, file, flock>>

Nest(t) ==
  /\ pc[t] = "entered"
  /\ IF depth[t] > 0
       THEN /\ depth' = [depth EXCEPT ![t] = @ + 1]
            /\ pc' = [pc EXCEPT ![t] = "in"]
       ELSE /\ depth' = depth
            /\ pc' = [pc EXCEPT ![t] = "open"]
  /\ UNCHANGED <<owner, count, global, file, flock>>

(* Mutant of LockFile: a shared lock.                                      *)
LockShared(t) ==
  /\ pc[t] = "open"
  /\ flock' = t
  /\ pc' = [pc EXCEPT ![t] = "locked"]
  /\ UNCHANGED <<depth, owner, count, global, file>>

(* open and _flock_exclusive.                                              *)
LockFile(t) ==
  /\ pc[t] = "open"
  /\ flock = None
  /\ flock' = t
  /\ pc' = [pc EXCEPT ![t] = "locked"]
  /\ UNCHANGED <<depth, owner, count, global, file>>

(* The file cannot be opened (at any time) or locked (busy): it is closed, *)
(* and the handler of acquire runs.                                        *)
LockFails(t) ==
  /\ pc[t] = "open"
  /\ pc' = [pc EXCEPT ![t] = "failed"]
  /\ UNCHANGED <<depth, owner, count, global, file, flock>>

Unlocked(t) ==
  /\ count' = [count EXCEPT ![Home[t]] = @ - 1]
  /\ owner' = [owner EXCEPT ![Home[t]] = IF count[Home[t]] = 1 THEN None ELSE @]

GiveUp(t) ==
  /\ pc[t] = "failed"
  /\ Unlocked(t)
  /\ pc' = [pc EXCEPT ![t] = "out"]
  /\ UNCHANGED <<depth, global, file, flock>>

Publish(t) ==
  /\ pc[t] = "locked"
  /\ global' = [global EXCEPT ![Home[t]] = t]
  /\ depth' = [depth EXCEPT ![t] = 1]
  /\ pc' = [pc EXCEPT ![t] = "in"]
  /\ UNCHANGED <<owner, count, file, flock>>

-----------------------------------------------------------------------------
(***************************************************************************)
(* release_fleet_op_lock.                                                  *)
(***************************************************************************)
Unnest(t) ==
  /\ pc[t] = "in"
  /\ depth[t] > 1
  /\ depth' = [depth EXCEPT ![t] = @ - 1]
  /\ Unlocked(t)
  /\ UNCHANGED <<pc, global, file, flock>>

LastRelease(t) ==
  /\ pc[t] = "in"
  /\ depth[t] = 1
  /\ depth' = [depth EXCEPT ![t] = 0]
  /\ file' = [file EXCEPT ![t] = global[Home[t]]]
  /\ pc' = [pc EXCEPT ![t] = "forget"]
  /\ UNCHANGED <<owner, count, global, flock>>

ForgetFile(t) ==
  /\ pc[t] = "forget"
  /\ global' = [global EXCEPT ![Home[t]] = None]
  /\ pc' = [pc EXCEPT ![t] = IF file[t] = None THEN "leave" ELSE "unlock"]
  /\ UNCHANGED <<depth, owner, count, file, flock>>

(* LOCK_UN; an OSError is passed over.                                     *)
UnlockFile(t) ==
  /\ pc[t] = "unlock"
  /\ flock' \in {flock, IF flock = file[t] THEN None ELSE flock}
  /\ pc' = [pc EXCEPT ![t] = "close"]
  /\ UNCHANGED <<depth, owner, count, global, file>>

(* Mutant of CloseFile: closing is left to the garbage collector.          *)
KeepFile(t) ==
  /\ pc[t] = "close"
  /\ file' = [file EXCEPT ![t] = None]
  /\ pc' = [pc EXCEPT ![t] = "leave"]
  /\ UNCHANGED <<depth, owner, count, global, flock>>

(* Closing a file releases its lock.                                       *)
CloseFile(t) ==
  /\ pc[t] = "close"
  /\ flock' = IF flock = file[t] THEN None ELSE flock
  /\ file' = [file EXCEPT ![t] = None]
  /\ pc' = [pc EXCEPT ![t] = "leave"]
  /\ UNCHANGED <<depth, owner, count, global>>

LeaveThread(t) ==
  /\ pc[t] = "leave"
  /\ Unlocked(t)
  /\ pc' = [pc EXCEPT ![t] = "out"]
  /\ UNCHANGED <<depth, global, file, flock>>

-----------------------------------------------------------------------------
(* A process dies: its files are closed, its next run starts afresh.       *)
Die(p) ==
  LET gone(t) == Home[t] = p
  IN  /\ pc' = [t \in Thread |-> IF gone(t) THEN "out" ELSE pc[t]]
      /\ depth' = [t \in Thread |-> IF gone(t) THEN 0 ELSE depth[t]]
      /\ file' = [t \in Thread |-> IF gone(t) THEN None ELSE file[t]]
      /\ owner' = [owner EXCEPT ![p] = None]
      /\ count' = [count EXCEPT ![p] = 0]
      /\ global' = [global EXCEPT ![p] = None]
      /\ flock' = IF flock \in Thread /\ gone(flock) THEN None ELSE flock

Init ==
  /\ pc = [t \in Thread |-> "out"]
  /\ depth = [t \in Thread |-> 0]
  /\ file = [t \in Thread |-> None]
  /\ owner = [p \in Process |-> None]
  /\ count = [p \in Process |-> 0]
  /\ global = [p \in Process |-> None]
  /\ flock = None

Acquire(t) ==
  \/ EnterThread(t) \/ BusyThread(t) \/ Nest(t)
  \/ LockFile(t) \/ LockFails(t) \/ GiveUp(t) \/ Publish(t)

Release(t) ==
  \/ Unnest(t) \/ LastRelease(t) \/ ForgetFile(t)
  \/ UnlockFile(t) \/ CloseFile(t) \/ LeaveThread(t)

Next ==
  \/ \E t \in Thread : Want(t) \/ Acquire(t) \/ Release(t)
  \/ \E p \in Process : Die(p)

Spec == Init /\ [][Next]_vars

-----------------------------------------------------------------------------
TypeOK ==
  /\ pc \in [Thread -> Steps]
  /\ depth \in [Thread -> Nat]
  /\ file \in [Thread -> Thread \cup {None}]
  /\ owner \in [Process -> Thread \cup {None}]
  /\ count \in [Process -> Nat]
  /\ global \in [Process -> Thread \cup {None}]
  /\ flock \in Thread \cup {None}

(* Between acquire and release, at every depth.                            *)
Inside(t) == depth[t] > 0

(* One command at a time, over all threads of all processes.               *)
Mutex == \A t, u \in Thread : Inside(t) /\ Inside(u) => t = u

(* Whatever failed on the way, a process that has no thread in acquire or  *)
(* release and none inside holds neither lock.                             *)
NothingLeaked ==
  \A p \in Process :
    (\A t \in Thread : Home[t] = p => pc[t] = "out") =>
      /\ owner[p] = None /\ count[p] = 0 /\ global[p] = None
      /\ flock \in Thread => Home[flock] # p

-----------------------------------------------------------------------------
(* The inductive invariant: what each thread and each process hold.  A     *)
(* thread that is inside has the lock on the file to the very end, under   *)
(* the handle that its process will release.                               *)
Holding(t) == pc[t] \in {"entered", "open", "locked", "failed", "forget", "unlock",
                         "close", "leave"} \/ Inside(t)

(* How often the thread holds the RLock.                                   *)
Holds(t) ==
  IF pc[t] = "entered" THEN depth[t] + 1
  ELSE IF pc[t] \in {"in", "thread"} THEN depth[t] ELSE 1

ThreadInv(t) ==
  /\ pc[t] = "in" => Inside(t)
  /\ pc[t] \notin {"in", "thread", "entered"} => ~ Inside(t)
  /\ Holding(t) => owner[Home[t]] = t /\ count[Home[t]] = Holds(t)
  /\ Inside(t) \/ pc[t] = "forget" => global[Home[t]] = t
  /\ Inside(t) \/ pc[t] \in {"locked", "forget", "unlock"} => flock = t
  /\ flock = t => Inside(t) \/ pc[t] \in {"locked", "forget", "unlock", "close"}
  /\ file[t] = IF pc[t] \in {"forget", "unlock", "close"} THEN t ELSE None

ProcessInv(p) ==
  /\ owner[p] # None => Home[owner[p]] = p /\ Holding(owner[p])
  /\ owner[p] = None => count[p] = 0
  /\ global[p] # None =>
       /\ Home[global[p]] = p
       /\ Inside(global[p]) \/ pc[global[p]] = "forget"

LockInv ==
  /\ TypeOK
  /\ \A t \in Thread : ThreadInv(t)
  /\ \A p \in Process : ProcessInv(p)

(* A thread that is inside and asks again gets in one level deeper: it is  *)
(* neither told busy by itself, after whatever it and the others have been *)
(* through, nor sent to lock a file that it has locked.                    *)
NestedIsGranted ==
  [][\A t \in Thread :
       Inside(t) /\ pc[t] # "in" /\ pc'[t] = "in" => depth'[t] = depth[t] + 1]_vars

=============================================================================
