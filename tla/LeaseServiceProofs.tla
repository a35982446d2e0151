------------------------ MODULE LeaseServiceProofs ------------------------
(***************************************************************************)
(* The promise of the abstract lease, for any clients, ids and TTL.  The   *)
(* components that implement LeaseService (VaultRefresh, BusDispatch)      *)
(* inherit it.                                                             *)
(***************************************************************************)
EXTENDS LeaseService, TLAPS

\* No row of the table is the value that stands for "no row".
LEMMA RowIsNotNoLease ==
  ASSUME ServiceConstantsOK, NEW h \in AllIds, NEW u \in Nat
  PROVE  Leased(h, u) # NoLease
BY DEF ServiceConstantsOK, Leased

\* The lease row, the owners and what they were granted keep their types
\* through every acquire, release, deletion and death.
THEOREM TypeCorrect == ServiceConstantsOK => (Spec => []TypeOK)
<1> SUFFICES ASSUME ServiceConstantsOK PROVE Spec => []TypeOK
  OBVIOUS
<1>1. Init => TypeOK
  BY DEF Init, TypeOK, LeaseRows
<1>2. TypeOK /\ [Next]_svars => TypeOK'
  <2> SUFFICES ASSUME TypeOK, [Next]_svars PROVE TypeOK'
    OBVIOUS
  <2> USE DEF TypeOK, LeaseRows
  <2>1. ASSUME NEW c \in Clients, NEW i \in Ids[c], NEW t \in 0..now, Grant(c, i, t)
        PROVE  TypeOK'
    <3>1. i \in AllIds /\ t + TTL \in Nat
      BY DEF ServiceConstantsOK, AllIds
    <3> QED BY <2>1, <3>1 DEF Grant, Leased
  <2>2. ASSUME NEW c \in Clients, Return(c) PROVE TypeOK'
    BY <2>2 DEF Return, Forget, AfterRelease
  <2>3. ASSUME NEW S \in SUBSET owner, Die(S) PROVE TypeOK'
    BY <2>3 DEF Die, Forget
  <2>4. CASE Drop
    BY <2>4 DEF Drop
  <2>5. CASE Tick
    BY <2>5 DEF Tick
  <2>6. CASE UNCHANGED svars
    BY <2>6 DEF svars, AllIds
  <2> QED BY <2>1, <2>2, <2>3, <2>4, <2>5, <2>6 DEF Next
<1> QED BY <1>1, <1>2, PTL DEF Spec

\* As long as no two clients share a holder id, the row in the table is that of
\* every owner whose lease still counts: a
\* grant replaces only a row that has run out at an instant already past, and
\* a late return deletes only a row with the caller's own id.
THEOREM RowInvariant == ServiceConstantsOK => (Spec => []RowIsOwners)
<1> SUFFICES ASSUME ServiceConstantsOK PROVE Spec => []RowIsOwners
  OBVIOUS
<1>1. Init => RowIsOwners
  BY DEF Init, RowIsOwners
<1>2. TypeOK /\ RowIsOwners /\ [Next]_svars => RowIsOwners'
  <2> SUFFICES ASSUME TypeOK, RowIsOwners, [Next]_svars, NoSharedIds,
                      NEW d \in valid', (until[d] > now)'
               PROVE  (lease = Leased(id[d], until[d]))'
    BY DEF RowIsOwners, NoSharedIds
  <2> USE DEF TypeOK
  <2>1. ASSUME NEW c \in Clients, NEW i \in Ids[c], NEW t \in 0..now, Grant(c, i, t)
        PROVE  (lease = Leased(id[d], until[d]))'
    <3>1. CASE d = c
      BY <2>1, <3>1 DEF Grant
    <3>2. CASE d # c
      <4>1. d \in valid /\ until[d] > now /\ lease = Leased(id[d], until[d])
        BY <2>1, <3>2 DEF Grant, RowIsOwners
      <4>2. lease # NoLease
        BY <4>1, RowIsNotNoLease DEF AllIds
      <4>3. lease.until <= t
        BY <2>1, <4>2 DEF Grant, Takes
      <4> QED BY <4>1, <4>3 DEF Leased
    <3> QED BY <3>1, <3>2
  <2>2. ASSUME NEW c \in Clients, Return(c)
        PROVE  (lease = Leased(id[d], until[d]))'
    <3>1. d # c /\ d \in valid /\ id'[d] = id[d] /\ until'[d] = until[d]
      BY <2>2 DEF Return, Forget
    <3>2. lease = Leased(id[d], until[d])
      BY <2>2, <3>1 DEF Return, RowIsOwners
    <3>3. id[c] # id[d]
      BY <2>2, <3>1 DEF Return, NoSharedIds
    <3> QED BY <2>2, <3>1, <3>2, <3>3 DEF Return, AfterRelease, Leased
  <2>3. ASSUME NEW S \in SUBSET owner, Die(S)
        PROVE  (lease = Leased(id[d], until[d]))'
    BY <2>3 DEF Die, Forget, RowIsOwners
  <2>4. CASE Drop
    BY <2>4 DEF Drop
  <2>5. CASE Tick
    BY <2>5 DEF Tick, RowIsOwners
  <2>6. CASE UNCHANGED svars
    BY <2>6 DEF svars, RowIsOwners
  <2> QED BY <2>1, <2>2, <2>3, <2>4, <2>5, <2>6 DEF Next
<1>3. Spec => []TypeOK
  BY TypeCorrect
<1> QED BY <1>1, <1>2, <1>3, PTL DEF Spec

\* The promise itself: two owners whose leases count would both be named by
\* the one row, hence share an id.
THEOREM Exclusion == ServiceConstantsOK => (Spec => []AtMostOneOwner)
<1> SUFFICES ASSUME ServiceConstantsOK PROVE Spec => []AtMostOneOwner
  OBVIOUS
<1>1. TypeOK /\ RowIsOwners => AtMostOneOwner
  <2> SUFFICES ASSUME TypeOK, RowIsOwners, NoSharedIds,
                      NEW c \in valid, NEW d \in valid,
                      until[c] > now, until[d] > now
               PROVE  c = d
    BY DEF AtMostOneOwner
  <2>1. id[c] = id[d]
    BY DEF RowIsOwners, Leased
  <2> QED BY <2>1 DEF TypeOK, NoSharedIds
<1>2. Spec => []TypeOK /\ []RowIsOwners
  BY TypeCorrect, RowInvariant
<1> QED BY <1>1, <1>2, PTL

=============================================================================
