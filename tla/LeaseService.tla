---------------------------- MODULE LeaseService ----------------------------
(***************************************************************************)
(* What the single-writer lease promises its clients, for one key: the     *)
(* abstract specification that acquire_lease, release_lease, lease_held    *)
(* and the deletion of a lease row are meant to implement                  *)
(* (vault/store/base.py, bus/store/base.py).                               *)
(*                                                                         *)
(* A client asks with the instant it read, which may be stale.  It is      *)
(* granted the lease when there is no row or the row has run out at that   *)
(* instant.  An owner is not told when its lease runs out or is dropped:   *)
(* it stays in "owner" until it returns the lease or dies.                 *)
(***************************************************************************)
EXTENDS LeaseTable

CONSTANTS
  Clients,   \* who may ask for the lease
  Ids,       \* the holder ids each client may use
  TTL        \* how long a lease lasts

VARIABLES
  now,     \* the clock
  lease,   \* the lease row
  owner,   \* the clients that believe they own the lease
  valid,   \* those of them whose grant has not been dropped since
  id,      \* the holder id of each owner
  until    \* the instant up to which each owner was granted the lease

svars == <<now, lease, owner, valid, id, until>>

AllIds == UNION {Ids[c] : c \in Clients}

\* What the theorems assume of the constants.
ServiceConstantsOK ==
  /\ TTL \in Nat
  /\ NoLease \notin [holder : AllIds, until : Nat]

TypeOK ==
  /\ now \in Nat
  /\ lease \in LeaseRows(AllIds)
  /\ owner \subseteq Clients
  /\ valid \subseteq owner
  /\ id \in [Clients -> {NoLease} \cup AllIds]
  /\ until \in [Clients -> Nat]
  /\ \A c \in owner : id[c] \in Ids[c]

Init ==
  /\ now = 0
  /\ lease = NoLease
  /\ owner = {}
  /\ valid = {}
  /\ id = [c \in Clients |-> NoLease]
  /\ until = [c \in Clients |-> 0]

\* acquire_lease answers TRUE, for a client that read the instant t.
Grant(c, i, t) ==
  /\ c \notin owner
  /\ Takes(lease, t)
  /\ lease' = Leased(i, t + TTL)
  /\ owner' = owner \cup {c}
  /\ valid' = valid \cup {c}
  /\ id' = [id EXCEPT ![c] = i]
  /\ until' = [until EXCEPT ![c] = t + TTL]
  /\ UNCHANGED now

\* The clients in S are owners no more.
Forget(S) ==
  /\ owner' = owner \ S
  /\ valid' = valid \ S
  /\ id' = [c \in Clients |-> IF c \in S THEN NoLease ELSE id[c]]
  /\ until' = [c \in Clients |-> IF c \in S THEN 0 ELSE until[c]]

\* release_lease by an owner, in time or late.
Return(c) ==
  /\ c \in owner
  /\ lease' = AfterRelease(lease, id[c])
  /\ Forget({c})
  /\ UNCHANGED now

\* Owners die; their row stays until it runs out.
Die(S) ==
  /\ S # {}
  /\ Forget(S)
  /\ UNCHANGED <<now, lease>>

\* The row is deleted together with what it protects.
Drop ==
  /\ lease' = NoLease
  /\ valid' = {}
  /\ UNCHANGED <<now, owner, id, until>>

Tick ==
  /\ now' = now + 1
  /\ UNCHANGED <<lease, owner, valid, id, until>>

Next ==
  \/ \E c \in Clients : \E i \in Ids[c], t \in 0..now : Grant(c, i, t)
  \/ \E c \in Clients : Return(c)
  \/ \E S \in SUBSET owner : Die(S)
  \/ Drop
  \/ Tick

Spec == Init /\ [][Next]_svars

-----------------------------------------------------------------------------
(* Properties. *)

NoSharedIds == \A c, d \in Clients : c # d => Ids[c] \cap Ids[d] = {}

\* The promise of acquire_lease: of the owners whose lease has neither run out
\* nor been dropped there is at most one, whatever stale instants the clients
\* passed, however late owners return, and whoever dies -- provided no two
\* clients share a holder id.
AtMostOneOwner ==
  NoSharedIds =>
    \A c, d \in valid : until[c] > now /\ until[d] > now => c = d

\* Its inductive form: the row is that of every owner that still counts.
RowIsOwners ==
  NoSharedIds => \A c \in valid : until[c] > now => lease = Leased(id[c], until[c])

=============================================================================
