------------------------------ MODULE AuditLog ------------------------------
(***************************************************************************)
(* What the node promises to everyone who reads its audit log: a sequence  *)
(* of closed connections numbered by export_seq, that only grows at its    *)
(* head, never changes an entry, and loses entries only to retention, which*)
(* leaves behind the mark "everything I deleted is at or below this".      *)
(*                                                                         *)
(* The fleet's cursor protocol is sound on top of these promises and only  *)
(* on top of them: a reader that has consumed up to `after` has missed an  *)
(* event exactly when something above `after` is at or below the mark.     *)
(*                                                                         *)
(* Accountd implements this specification (see Accountd!Log); FleetSync    *)
(* uses its actions as the node it reads from.                             *)
(***************************************************************************)
EXTENDS Integers, Functions

CONSTANT
  Event       \* what is recorded of one closed generation

VARIABLES
  log,        \* export_seq -> event, for the closed rows still in the database
  high,       \* meta.audit_export_seq, the last number given out
  pruned      \* meta.audit_pruned_max_export_seq

vars == <<log, high, pruned>>

Nothing == [s \in {} |-> s]

Init ==
  /\ log = Nothing
  /\ high = 0
  /\ pruned = 0

(***************************************************************************)
(* Some connections closed: they get the next numbers, in one transaction. *)
(***************************************************************************)
Append ==
  /\ high' \in Nat
  /\ high' >= high
  /\ DOMAIN log' = DOMAIN log \cup (high + 1) .. high'
  /\ log' = [s \in DOMAIN log' |-> log'[s]]
  /\ \A s \in DOMAIN log : log'[s] = log[s]
  /\ \A s \in (high + 1) .. high' : log'[s] \in Event
  /\ UNCHANGED pruned

(***************************************************************************)
(* Retention deletes the entries in `gone` (which need not be the oldest)  *)
(* and raises the mark to cover them.                                      *)
(***************************************************************************)
Prune ==
  \E gone \in SUBSET DOMAIN log :
    /\ log' = Restrict(log, DOMAIN log \ gone)
    /\ pruned' \in 0 .. high
    /\ pruned' >= pruned
    /\ \A s \in gone : s <= pruned'
    /\ UNCHANGED high

Next == Append \/ Prune

Spec == Init /\ [][Next]_vars

-----------------------------------------------------------------------------
TypeOK ==
  /\ high \in Nat
  /\ pruned \in 0 .. high
  /\ DOMAIN log \subseteq 1 .. high
  /\ log \in [DOMAIN log -> Event]

(***************************************************************************)
(* Every number above the mark that was given out still has its event: a   *)
(* reader that is at or past the mark can be told everything it has not    *)
(* seen.                                                                   *)
(***************************************************************************)
NoSilentHole ==
  \A s \in 1 .. high : s > pruned => s \in DOMAIN log

LogInv == TypeOK /\ NoSilentHole

=============================================================================
