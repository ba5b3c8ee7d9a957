--------------------------- MODULE AtomicReplace ---------------------------
(***************************************************************************)
(* What Stage II of the bootstrap promises for every ledger subtree s      *)
(* (blocks, chainstate, zerocoin), stated without crashes or intermediate *)
(* file operations: the staged copy replaces the live directory in one    *)
(* step, and the directory it replaces becomes the backup <s>.bak.  A     *)
(* stale backup may be discarded beforehand, but only while a staged copy *)
(* is waiting to replace a live directory.                                *)
(***************************************************************************)
CONSTANTS
  Subtrees,   \* names of the ledger subtrees
  Absent      \* "this directory does not exist"

VARIABLES
  live,       \* live[s]:   content of datadir/<s>
  bak,        \* bak[s]:    content of datadir/<s>.bak
  staged      \* staged[s]: content of datadir/bootstrap/<s>

vars == <<live, bak, staged>>

\* A stale backup goes away only when it is about to be superseded.
DropStaleBackup(s) ==
  /\ staged[s] # Absent
  /\ live[s] # Absent
  /\ bak[s] # Absent
  /\ bak' = [bak EXCEPT ![s] = Absent]
  /\ UNCHANGED <<live, staged>>

\* The staged copy becomes live; the replaced live content (if any) is kept
\* as the backup, so no backup is overwritten.
Replace(s) ==
  /\ staged[s] # Absent
  /\ live[s] = Absent \/ bak[s] = Absent
  /\ live' = [live EXCEPT ![s] = staged[s]]
  /\ bak' = [bak EXCEPT ![s] = IF live[s] # Absent THEN live[s] ELSE @]
  /\ staged' = [staged EXCEPT ![s] = Absent]

Next == \E s \in Subtrees : DropStaleBackup(s) \/ Replace(s)

\* The abstract specification has no initial condition of its own: the
\* refinement is checked from whatever file system the detailed model starts in.
Spec == [][Next]_vars

=============================================================================
