----------------------------- MODULE LeaseTable -----------------------------
(***************************************************************************)
(* One row of the single-writer lease table, as the transactional stores   *)
(* keep it: InMemoryStore and ServerStore of the vault, and the two ledger *)
(* stores of the bus, which carry "the same semantics".  Every operation   *)
(* below is one critical section (the mutex plus, in sqlite, one           *)
(* transaction), so a caller sees it as a single atomic step.              *)
(*                                                                         *)
(* A row is NoLease or a record of the holder id and the instant the lease *)
(* runs out.  The store never reads a clock: "now" is what the caller      *)
(* read, possibly some time ago.                                           *)
(***************************************************************************)
EXTENDS Naturals

CONSTANT NoLease

\* The rows a table keyed by one connection or one delivery can hold.
LeaseRows(Holders) == {NoLease} \cup [holder : Holders, until : Nat]

\* Mutant of Takes: the expiry skew is applied to leases, too.
TakesWithSkew(row, now) == row # NoLease => row.until <= now + 1

\* acquire_lease answers TRUE: no row yet, or a row that has run out.
Takes(row, now) == row # NoLease => row.until <= now

\* Mutant of Leased: the columns are bound in the wrong order.
LeasedSwapped(h, until) == [holder |-> until, until |-> h]

\* The row acquire_lease leaves behind when it answers TRUE.
Leased(h, until) == [holder |-> h, until |-> until]

\* release_lease deletes the row only if it still names this holder id.
AfterRelease(row, h) ==
  IF row # NoLease /\ row.holder = h THEN NoLease ELSE row

\* lease_held: some row that has not run out, whoever owns it.
Held(row, now) == row # NoLease /\ row.until > now

=============================================================================
