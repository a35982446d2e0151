-------------------------- MODULE FileStoreProofs --------------------------
(***************************************************************************)
(* Theorems about FileLease and FileStore: the types, that the lock file   *)
(* is the lease of LeaseService outside its three circumstances, who may   *)
(* leave a torn file, and that settled files agree, for any number of      *)
(* processes, deaths, deletions and puts and any lease.                    *)
(***************************************************************************)
EXTENDS FileStore, TLAPS

(* The lock: types. *)

\* What the lock sees of a step of the store: a step of its own, or the death
\* of a process that is not using it.
LeaseStep ==
  \/ [Next]_vars
  \/ /\ deaths' = deaths + 1
     /\ UNCHANGED <<now, lock, pc, tnow, until, drops, drop, faults>>

LEMMA GotoFacts ==
  ASSUME TypeOK, NEW p \in Procs, NEW label \in Labels, Goto(p, label)
  PROVE  /\ pc' \in [Procs -> Labels]
         /\ pc'[p] = label /\ \A q \in Procs \ {p} : pc'[q] = pc[q]
  BY DEF TypeOK, Goto

LEMMA LabelsFacts ==
  {"idle", "link", "read", "replace", "confirm", "owner", "unlink"} = Labels
  BY DEF Labels

LEMMA LeaseTypeStep == TypeOK /\ LeaseStep => TypeOK'
<1> SUFFICES ASSUME TypeOK, LeaseStep
             PROVE  TypeOK'
  OBVIOUS
<1> USE FileConstantsOK DEF bounds
<1>1. ASSUME NEW p \in Procs
      PROVE  Leased(p, tnow[p] + LeaseTTL) \in LeaseRows(Procs)
             /\ tnow[p] + LeaseTTL \in Nat
  BY DEF TypeOK, Leased, LeaseRows
<1>2. ASSUME NEW p \in Procs, Ask(p)
      PROVE  TypeOK'
  <2>1. pc' \in [Procs -> Labels]
    BY <1>2, GotoFacts, LabelsFacts DEF Ask
  <2>2. QED
    BY <1>2, <2>1 DEF Ask, TypeOK
<1>3. ASSUME NEW p \in Procs, Link(p)
      PROVE  TypeOK'
  <2>1. pc' \in [Procs -> Labels]
    BY <1>3, GotoFacts, LabelsFacts DEF Link
  <2>2. faults' \subseteq Faults
    BY <1>3 DEF Link, NoteGrant, TypeOK, Faults
  <2>3. lock' \in LeaseRows(Procs) /\ until' \in [Procs -> Nat]
    BY <1>1, <1>3 DEF Link, TypeOK
  <2>4. QED
    BY <1>3, <2>1, <2>2, <2>3 DEF Link, TypeOK
<1>4. ASSUME NEW p \in Procs, ReadUntil(p)
      PROVE  TypeOK'
  <2>1. pc' \in [Procs -> Labels]
    BY <1>4, GotoFacts, LabelsFacts DEF ReadUntil
  <2>2. faults' \subseteq Faults
    BY <1>4 DEF ReadUntil, TypeOK, Faults
  <2>3. QED
    BY <1>4, <2>1, <2>2 DEF ReadUntil, TypeOK
<1>5. ASSUME NEW p \in Procs, ReplaceLock(p)
      PROVE  TypeOK'
  <2>1. pc' \in [Procs -> Labels]
    BY <1>5, GotoFacts, LabelsFacts DEF ReplaceLock
  <2>2. faults' \subseteq Faults
    BY <1>5 DEF ReplaceLock, NoteGrant, TypeOK, Faults
  <2>3. lock' \in LeaseRows(Procs) /\ until' \in [Procs -> Nat]
    BY <1>1, <1>5 DEF ReplaceLock, TypeOK
  <2>4. QED
    BY <1>5, <2>1, <2>2, <2>3 DEF ReplaceLock, TypeOK
<1>6. ASSUME NEW p \in Procs, Confirm(p) \/ ReadHolder(p)
      PROVE  TypeOK'
  <2>1. pc' \in [Procs -> Labels]
    BY <1>6, GotoFacts, LabelsFacts DEF Confirm, ReadHolder
  <2>2. QED
    BY <1>6, <2>1 DEF Confirm, ReadHolder, TypeOK
<1>7. ASSUME NEW p \in Procs, Unlink(p) \/ Die(p)
      PROVE  TypeOK'
  <2>1. pc' \in [Procs -> Labels]
    BY <1>7, GotoFacts, LabelsFacts DEF Unlink, Die
  <2>2. QED
    BY <1>7, <2>1 DEF Unlink, Die, TypeOK, LeaseRows
<1>8. CASE Tick
  <2>1. faults' \subseteq Faults
    BY <1>8 DEF Tick, TypeOK, Faults
  <2>2. QED
    BY <1>8, <2>1 DEF Tick, TypeOK
<1>9. CASE DeleteConnection
  <2>1. faults' \subseteq Faults
    BY <1>9 DEF DeleteConnection, TypeOK, Faults
  <2>2. QED
    BY <1>9, <2>1 DEF DeleteConnection, TypeOK, LeaseRows
<1>10. CASE UNCHANGED vars
  BY <1>10 DEF vars, TypeOK
<1>11. CASE /\ deaths' = deaths + 1
            /\ UNCHANGED <<now, lock, pc, tnow, until, drops, drop, faults>>
  BY <1>11 DEF TypeOK
<1>12. QED
  BY <1>2, <1>3, <1>4, <1>5, <1>6, <1>7, <1>8, <1>9, <1>10, <1>11
     DEF LeaseStep, Next

-----------------------------------------------------------------------------
(* The lock: one owner. *)

\* What a step of process p does to the other processes, and to the history.
LEMMA OneMoves ==
  ASSUME TypeOK, NEW p \in Procs,
         \/ Ask(p) \/ Link(p) \/ ReadUntil(p) \/ ReplaceLock(p) \/ Confirm(p)
         \/ ReadHolder(p) \/ Unlink(p) \/ Die(p)
  PROVE  /\ \A q \in Procs \ {p} :
              pc'[q] = pc[q] /\ tnow'[q] = tnow[q] /\ until'[q] = until[q]
         /\ drop' \subseteq drop /\ drop \ {p} \subseteq drop'
         /\ faults \subseteq faults' /\ now' = now /\ drops' = drops
<1>1. \A q \in Procs \ {p} :
        pc'[q] = pc[q] /\ tnow'[q] = tnow[q] /\ until'[q] = until[q]
  BY DEF TypeOK, Ask, Link, ReadUntil, ReplaceLock, Confirm, ReadHolder,
         Unlink, Die, Goto
<1>2. drop' \subseteq drop /\ drop \ {p} \subseteq drop'
  BY DEF Ask, Link, ReadUntil, ReplaceLock, Confirm, ReadHolder, Unlink, Die
<1>3. faults \subseteq faults'
  BY DEF Ask, Link, ReadUntil, ReplaceLock, Confirm, ReadHolder, Unlink, Die,
         NoteGrant
<1>4. now' = now /\ drops' = drops
  BY DEF Ask, Link, ReadUntil, ReplaceLock, Confirm, ReadHolder, Unlink, Die,
         bounds
<1>5. QED
  BY <1>1, <1>2, <1>3, <1>4

\* The process ends what it was doing and owns nothing.
Leaves(p) == pc'[p] = "idle" /\ until'[p] = 0 /\ tnow'[p] = tnow[p] /\ p \notin drop'

\* What a step of process p does to p itself and to the lock.
LEMMA OwnMoves ==
  ASSUME TypeOK, NEW p \in Procs
  PROVE  /\ Ask(p) => /\ pc[p] = "idle" /\ pc'[p] = "link"
                      /\ tnow'[p] = now /\ UNCHANGED <<lock, until>>
         /\ Link(p) =>
              /\ pc[p] = "link" /\ tnow'[p] = tnow[p]
              /\ \/ /\ lock = NoLease /\ pc'[p] = "owner" /\ p \notin drop'
                    /\ until'[p] = tnow[p] + LeaseTTL
                    /\ lock' = Leased(p, until'[p]) /\ NoteGrant(p)
                 \/ /\ lock # NoLease /\ pc'[p] = "read"
                    /\ UNCHANGED <<lock, until>>
         /\ ReadUntil(p) =>
              /\ pc[p] = "read" /\ tnow'[p] = tnow[p] /\ UNCHANGED <<lock, until>>
              /\ \/ /\ pc'[p] = "replace" /\ ExpiredLock(tnow[p])
                    /\ (\E q \in Procs \ {p} : pc[q] \in Stealing)
                         => "rivals" \in faults'
                 \/ pc'[p] = "idle"
         /\ ReplaceLock(p) =>
              /\ pc[p] = "replace" /\ pc'[p] = "confirm" /\ tnow'[p] = tnow[p]
              /\ p \notin drop' /\ until'[p] = tnow[p] + LeaseTTL
              /\ lock' = Leased(p, until'[p]) /\ NoteGrant(p)
         /\ Confirm(p) =>
              /\ pc[p] = "confirm" /\ lock' = lock
              /\ \/ /\ Mine(p) /\ pc'[p] = "owner"
                    /\ UNCHANGED <<until, drop, tnow>>
                 \/ ~Mine(p) /\ Leaves(p)
         /\ ReadHolder(p) =>
              /\ pc[p] = "owner" /\ lock' = lock
              /\ \/ /\ Mine(p) /\ pc'[p] = "unlink"
                    /\ UNCHANGED <<until, drop, tnow>>
                 \/ ~Mine(p) /\ Leaves(p)
         /\ Unlink(p) => pc[p] = "unlink" /\ lock' = NoLease /\ Leaves(p)
         /\ Die(p) => pc[p] # "idle" /\ lock' = lock /\ Leaves(p)
<1> USE DEF TypeOK, Goto, bounds
<1>1. Ask(p) => /\ pc[p] = "idle" /\ pc'[p] = "link"
                /\ tnow'[p] = now /\ UNCHANGED <<lock, until>>
  BY DEF Ask
<1>2. Link(p) =>
        /\ pc[p] = "link" /\ tnow'[p] = tnow[p]
        /\ \/ /\ lock = NoLease /\ pc'[p] = "owner" /\ p \notin drop'
              /\ until'[p] = tnow[p] + LeaseTTL
              /\ lock' = Leased(p, until'[p]) /\ NoteGrant(p)
           \/ /\ lock # NoLease /\ pc'[p] = "read"
              /\ UNCHANGED <<lock, until>>
  BY DEF Link
<1>3. ReadUntil(p) =>
        /\ pc[p] = "read" /\ tnow'[p] = tnow[p] /\ UNCHANGED <<lock, until>>
        /\ \/ /\ pc'[p] = "replace" /\ ExpiredLock(tnow[p])
              /\ (\E q \in Procs \ {p} : pc[q] \in Stealing)
                   => "rivals" \in faults'
           \/ pc'[p] = "idle"
  BY DEF ReadUntil
<1>4. ReplaceLock(p) =>
        /\ pc[p] = "replace" /\ pc'[p] = "confirm" /\ tnow'[p] = tnow[p]
        /\ p \notin drop' /\ until'[p] = tnow[p] + LeaseTTL
        /\ lock' = Leased(p, until'[p]) /\ NoteGrant(p)
  BY DEF ReplaceLock
<1>5. Confirm(p) =>
        /\ pc[p] = "confirm" /\ lock' = lock
        /\ \/ Mine(p) /\ pc'[p] = "owner" /\ UNCHANGED <<until, drop, tnow>>
           \/ ~Mine(p) /\ Leaves(p)
  BY DEF Confirm, Leaves
<1>6. ReadHolder(p) =>
        /\ pc[p] = "owner" /\ lock' = lock
        /\ \/ Mine(p) /\ pc'[p] = "unlink" /\ UNCHANGED <<until, drop, tnow>>
           \/ ~Mine(p) /\ Leaves(p)
  BY DEF ReadHolder, Leaves
<1>7. Unlink(p) => pc[p] = "unlink" /\ lock' = NoLease /\ Leaves(p)
  BY DEF Unlink, Leaves
<1>8. Die(p) => pc[p] # "idle" /\ lock' = lock /\ Leaves(p)
  BY DEF Die, Leaves
<1>9. QED
  BY <1>1, <1>2, <1>3, <1>4, <1>5, <1>6, <1>7, <1>8

\* A process that moves on without the lease.
OwnStep(p) ==
  \/ Ask(p) \/ Link(p) \/ ReadUntil(p) \/ ReplaceLock(p) \/ Confirm(p)
  \/ ReadHolder(p) \/ Unlink(p) \/ Die(p)

LEMMA AlwaysStep == TypeOK /\ AlwaysInv /\ LeaseStep => AlwaysInv'
<1> SUFFICES ASSUME TypeOK, AlwaysInv, LeaseStep
             PROVE  AlwaysInv'
  OBVIOUS
<1> USE DEF Owns, bounds
<1>1. ASSUME NEW p \in Procs, OwnStep(p)
      PROVE  AlwaysInv'
  <2>1. /\ \A q \in Procs \ {p} :
             pc'[q] = pc[q] /\ tnow'[q] = tnow[q] /\ until'[q] = until[q]
        /\ drop' \subseteq drop /\ now' = now /\ drops' = drops
    BY <1>1, OneMoves DEF OwnStep
  <2>2. now \in Nat /\ drop \subseteq Procs
    BY DEF TypeOK
  <2>3. tnow'[p] <= now /\ (~Owns(p)' => until'[p] = 0)
        /\ (p \in drop' => Owns(p)')
    BY <1>1, <2>1, <2>2, OwnMoves DEF OwnStep, AlwaysInv, Leaves
  <2>4. QED
    BY <2>1, <2>2, <2>3 DEF AlwaysInv
<1>2. CASE Tick
  BY <1>2 DEF Tick, AlwaysInv, TypeOK
<1>3. CASE DeleteConnection
  BY <1>3 DEF DeleteConnection, AlwaysInv, TypeOK
<1>4. CASE UNCHANGED vars
  BY <1>4 DEF vars, AlwaysInv
<1>5. CASE UNCHANGED <<now, lock, pc, tnow, until, drops, drop, faults>>
  BY <1>5 DEF AlwaysInv
<1>6. QED
  BY <1>1, <1>2, <1>3, <1>4, <1>5 DEF LeaseStep, Next, OwnStep

\* A grant that is not an overrun is in time.
LEMMA GrantInTime ==
  ASSUME TypeOK, AlwaysInv, NEW p \in Procs, NoteGrant(p), faults' = {}
  PROVE  tnow[p] + LeaseTTL > now
<1>1. tnow[p] \in Nat /\ now \in Nat /\ LeaseTTL \in Nat
  BY FileConstantsOK DEF TypeOK
<1>2. ~(tnow[p] + LeaseTTL <= now)
  <2>1. faults \cup {"overrun"} # {}
    OBVIOUS
  <2>2. QED
    BY <2>1 DEF NoteGrant
<1>3. QED
  BY <1>1, <1>2

\* A process that is taken up with the lock of another, or its own, finds no
\* owner in time beside it.
LEMMA NobodyElse ==
  ASSUME TypeOK, AlwaysInv, LockInv, faults = {}, NEW p \in Procs,
         \/ lock = NoLease
         \/ pc[p] = "replace"
         \/ Owns(p) /\ p \notin drop
  PROVE  \A q \in Procs \ {p} : Owns(q) => q \in drop
<1> SUFFICES ASSUME NEW q \in Procs \ {p}, Owns(q), q \notin drop
             PROVE  FALSE
  OBVIOUS
<1>1. /\ lock = Leased(q, until[q]) /\ until[q] > now
      /\ until[q] \in Nat /\ now \in Nat /\ tnow[p] \in Nat /\ tnow[p] <= now
  BY DEF LockInv, AlwaysInv, TypeOK
<1>2. lock # NoLease /\ lock.holder = q /\ lock.until = until[q]
  BY <1>1, FileConstantsOK DEF Leased
<1>3. CASE pc[p] = "replace"
  BY <1>1, <1>2, <1>3 DEF LockInv
<1>4. CASE Owns(p) /\ p \notin drop
  BY <1>2, <1>4 DEF LockInv, Leased
<1>5. QED
  BY <1>2, <1>3, <1>4

LEMMA LockStep == TypeOK /\ AlwaysInv /\ LockInv /\ LeaseStep => LockInv'
<1> SUFFICES ASSUME TypeOK, AlwaysInv, LockInv, LeaseStep, faults' = {}
             PROVE  LockInv'
  BY DEF LockInv
<1>1. now \in Nat /\ drop \subseteq Procs /\ until \in [Procs -> Nat]
  BY DEF TypeOK
<1> DEFINE OwnOK(p) ==
      /\ Owns(p) => until[p] > now
      /\ Owns(p) /\ p \notin drop => lock = Leased(p, until[p])
      /\ p \in drop => pc[p] = "owner" /\ ~Mine(p)
      /\ pc[p] = "replace" => lock # NoLease /\ lock.until <= tnow[p]
<1>2. ASSUME faults = {}, NEW p \in Procs
      PROVE  OwnOK(p)
  BY <1>2 DEF LockInv
<1>3. ASSUME NEW p \in Procs, OwnStep(p), OwnOK(p)',
             \A q \in Procs \ {p} : OwnOK(q)',
             pc'[p] \in Stealing /\ pc[p] \notin Stealing
               => \A q \in Procs \ {p} : pc[q] \notin Stealing
      PROVE  LockInv'
  <2>1. faults = {} /\ \A q \in Procs \ {p} : pc'[q] = pc[q]
    BY <1>3, OneMoves DEF OwnStep
  <2>2. \A q, r \in Procs : pc'[q] \in Stealing /\ pc'[r] \in Stealing => q = r
    BY <1>3, <2>1 DEF LockInv
  <2>3. drop' \subseteq Procs
    BY <1>1, <1>3, OneMoves DEF OwnStep
  <2>4. QED
    BY <1>3, <2>2, <2>3 DEF LockInv
\* The lock stays: so does what holds of the others.
<1>4. ASSUME NEW p \in Procs, OwnStep(p), lock' = lock
      PROVE  \A q \in Procs \ {p} : OwnOK(q)'
  <2>1. /\ faults = {} /\ now' = now
        /\ \A q \in Procs \ {p} :
             /\ pc'[q] = pc[q] /\ tnow'[q] = tnow[q] /\ until'[q] = until[q]
             /\ q \in drop' <=> q \in drop
    BY <1>4, OneMoves DEF OwnStep
  <2>2. QED
    BY <1>2, <1>4, <2>1 DEF Owns, Mine
\* The lock changes hands while nobody else owns it.
<1>5. ASSUME NEW p \in Procs, OwnStep(p),
             lock' = NoLease \/ lock' = Leased(p, until'[p]),
             \A q \in Procs \ {p} :
               (Owns(q) => q \in drop) /\ pc[q] # "replace"
      PROVE  \A q \in Procs \ {p} : OwnOK(q)'
  <2>1. /\ faults = {} /\ now' = now
        /\ \A q \in Procs \ {p} :
             /\ pc'[q] = pc[q] /\ tnow'[q] = tnow[q] /\ until'[q] = until[q]
             /\ q \in drop' <=> q \in drop
    BY <1>5, OneMoves DEF OwnStep
  <2>2. \A q \in Procs \ {p} : ~Mine(q)'
    BY <1>5 DEF Mine, Leased
  <2>3. QED
    BY <1>2, <1>5, <2>1, <2>2 DEF Owns
<1>6. ASSUME NEW p \in Procs, OwnStep(p), Leaves(p)
      PROVE  OwnOK(p)'
  BY <1>6 DEF Leaves, Owns
<1>7. ASSUME NEW p \in Procs, OwnStep(p)
      PROVE  faults = {} /\ now' = now /\ OwnOK(p)
  BY <1>2, <1>7, OneMoves DEF OwnStep
<1>8. ASSUME NEW p \in Procs, Ask(p)
      PROVE  LockInv'
  <2>1. OwnStep(p) /\ lock' = lock /\ pc[p] = "idle" /\ pc'[p] = "link"
        /\ drop' \subseteq drop
    BY <1>8, OwnMoves, OneMoves DEF OwnStep
  <2>2. OwnOK(p)'
    BY <1>7, <2>1 DEF Owns
  <2>3. QED
    BY <1>3, <1>4, <2>1, <2>2 DEF Stealing
<1>9. ASSUME NEW p \in Procs, Link(p)
      PROVE  LockInv'
  <2> USE <1>9 DEF OwnStep
  <2>1. CASE lock = NoLease
    <3>1. /\ pc'[p] = "owner" /\ p \notin drop' /\ NoteGrant(p)
          /\ until'[p] = tnow[p] + LeaseTTL /\ lock' = Leased(p, until'[p])
      BY <2>1, OwnMoves
    <3>2. OwnOK(p)'
      BY <1>7, <3>1, GrantInTime DEF Owns
    <3>3. \A q \in Procs \ {p} : (Owns(q) => q \in drop) /\ pc[q] # "replace"
      BY <1>2, <1>7, <2>1, NobodyElse
    <3>4. QED
      BY <1>3, <1>5, <3>1, <3>2, <3>3 DEF Stealing
  <2>2. CASE lock # NoLease
    <3>1. pc[p] = "link" /\ pc'[p] = "read" /\ lock' = lock /\ drop' \subseteq drop
      BY <2>2, OwnMoves, OneMoves
    <3>2. OwnOK(p)'
      BY <1>7, <3>1 DEF Owns
    <3>3. QED
      BY <1>3, <1>4, <3>1, <3>2 DEF Stealing
  <2>3. QED
    BY <2>1, <2>2
<1>10. ASSUME NEW p \in Procs, ReadUntil(p)
       PROVE  LockInv'
  <2> USE <1>10 DEF OwnStep
  <2>1. /\ pc[p] = "read" /\ lock' = lock /\ tnow'[p] = tnow[p]
        /\ drop' \subseteq drop
        /\ \/ /\ pc'[p] = "replace" /\ ExpiredLock(tnow[p])
              /\ (\E q \in Procs \ {p} : pc[q] \in Stealing)
                   => "rivals" \in faults'
           \/ pc'[p] = "idle"
    BY OwnMoves, OneMoves
  <2>2. OwnOK(p)'
    BY <1>7, <2>1 DEF Owns, ExpiredLock
  <2>3. pc'[p] \in Stealing => \A q \in Procs \ {p} : pc[q] \notin Stealing
    BY <2>1 DEF Stealing
  <2>4. QED
    BY <1>3, <1>4, <2>1, <2>2, <2>3
<1>11. ASSUME NEW p \in Procs, ReplaceLock(p)
       PROVE  LockInv'
  <2> USE <1>11 DEF OwnStep
  <2>1. /\ pc[p] = "replace" /\ pc'[p] = "confirm" /\ p \notin drop'
        /\ until'[p] = tnow[p] + LeaseTTL /\ lock' = Leased(p, until'[p])
        /\ NoteGrant(p)
    BY OwnMoves
  <2>2. OwnOK(p)'
    BY <1>7, <2>1, GrantInTime DEF Owns
  <2>3. \A q \in Procs \ {p} : (Owns(q) => q \in drop) /\ pc[q] # "replace"
    BY <1>7, <2>1, NobodyElse DEF LockInv, Stealing
  <2>4. QED
    BY <1>3, <1>5, <2>1, <2>2, <2>3 DEF Stealing
<1>12. ASSUME NEW p \in Procs, Confirm(p)
       PROVE  LockInv'
  <2> USE <1>12 DEF OwnStep
  <2>1. OwnOK(p)'
    <3>1. CASE Leaves(p)
      BY <1>6, <3>1
    <3>2. CASE Mine(p) /\ pc'[p] = "owner" /\ UNCHANGED <<lock, until, drop, tnow>>
      BY <1>7, <3>2, OwnMoves DEF Owns
    <3>3. QED
      BY <3>1, <3>2, OwnMoves
  <2>2. lock' = lock /\ pc[p] \in Stealing
    BY OwnMoves DEF Stealing
  <2>3. QED
    BY <1>3, <1>4, <2>1, <2>2
<1>13. ASSUME NEW p \in Procs, ReadHolder(p)
       PROVE  LockInv'
  <2> USE <1>13 DEF OwnStep
  <2>1. OwnOK(p)'
    <3>1. CASE Leaves(p)
      BY <1>6, <3>1
    <3>2. CASE Mine(p) /\ pc'[p] = "unlink" /\ UNCHANGED <<lock, until, drop, tnow>>
      BY <1>7, <3>2, OwnMoves DEF Owns
    <3>3. QED
      BY <3>1, <3>2, OwnMoves
  <2>2. lock' = lock /\ pc'[p] \in {"idle", "unlink"}
    BY OwnMoves DEF Leaves
  <2>3. QED
    BY <1>3, <1>4, <2>1, <2>2 DEF Stealing
<1>14. ASSUME NEW p \in Procs, Unlink(p)
       PROVE  LockInv'
  <2> USE <1>14 DEF OwnStep
  <2>1. pc[p] = "unlink" /\ lock' = NoLease /\ Leaves(p)
    BY OwnMoves
  <2>2. Owns(p) /\ p \notin drop
    BY <1>7, <2>1 DEF Owns
  <2>3. lock = Leased(p, until[p]) /\ until[p] > now
    BY <1>7, <2>2
  <2>4. ASSUME NEW q \in Procs \ {p}
        PROVE  pc[q] # "replace"
    <3>1. lock.until = until[p] /\ tnow[q] <= now /\ tnow[q] \in Nat
      BY <2>3 DEF Leased, AlwaysInv, TypeOK
    <3>2. pc[q] = "replace" => lock.until <= tnow[q]
      BY <1>2, <1>7
    <3>3. QED
      BY <1>1, <2>3, <3>1, <3>2
  <2>5. \A q \in Procs \ {p} : (Owns(q) => q \in drop) /\ pc[q] # "replace"
    BY <1>7, <2>2, <2>4, NobodyElse
  <2>6. QED
    BY <1>3, <1>5, <1>6, <2>1, <2>5 DEF Leaves, Stealing
<1>15. ASSUME NEW p \in Procs, Die(p)
       PROVE  LockInv'
  <2> USE <1>15 DEF OwnStep
  <2>1. lock' = lock /\ Leaves(p)
    BY OwnMoves
  <2>2. QED
    BY <1>3, <1>4, <1>6, <2>1 DEF Leaves, Stealing
<1>16. CASE Tick
  <2>1. /\ faults = {} /\ now' = now + 1
        /\ \A p \in Procs : Owns(p) => ~(until[p] <= now + 1)
        /\ UNCHANGED <<lock, pc, tnow, until, drop>>
    BY <1>16 DEF Tick
  <2>2. QED
    BY <1>1, <2>1 DEF LockInv, Owns, Mine
<1>17. CASE DeleteConnection
  <2>1. /\ faults = {} /\ lock' = NoLease
        /\ drop' = {p \in Procs : Owns(p)}
        /\ \A p \in Procs : pc[p] \notin Stealing \cup {"unlink"}
        /\ UNCHANGED <<now, pc, tnow, until>>
    BY <1>17 DEF DeleteConnection
  <2>2. QED
    BY <2>1 DEF LockInv, Owns, Mine, Stealing
<1>18. CASE UNCHANGED vars
  BY <1>18 DEF vars, LockInv, Owns, Mine
<1>19. CASE UNCHANGED <<now, lock, pc, tnow, until, drops, drop, faults>>
  BY <1>19 DEF LockInv, Owns, Mine
<1>20. QED
  BY <1>8, <1>9, <1>10, <1>11, <1>12, <1>13, <1>14, <1>15, <1>16, <1>17,
     <1>18, <1>19 DEF LeaseStep, Next

\* The lock names one process, so no two can own it.
LEMMA LockExcludes == TypeOK /\ AlwaysInv /\ LockInv => FileSingleWriter
<1> SUFFICES ASSUME TypeOK, AlwaysInv, LockInv, faults = {},
                    NEW p \in Procs, NEW q \in Procs,
                    Owns(p), p \notin drop, Owns(q), q \notin drop
             PROVE  p = q
  BY DEF FileSingleWriter, Owns
<1>1. QED
  BY NobodyElse

-----------------------------------------------------------------------------
(* The lock: it implements LeaseService. *)

LEMMA Invisible ==
  ASSUME UNCHANGED <<now, lock, until, drop>>,
         \A p \in Procs : Owns(p)' <=> Owns(p)
  PROVE  UNCHANGED Service!svars
<1>1. {p \in Procs : Owns(p)}' = {p \in Procs : Owns(p)}
  OBVIOUS
<1>2. {p \in Procs : Owns(p) /\ p \notin drop}'
        = {p \in Procs : Owns(p) /\ p \notin drop}
  OBVIOUS
<1>3. [p \in Procs |-> IF Owns(p) THEN p ELSE NoLease]'
        = [p \in Procs |-> IF Owns(p) THEN p ELSE NoLease]
  OBVIOUS
<1>4. QED
  BY <1>1, <1>2, <1>3 DEF Service!svars

\* An owner that goes, with the lock or without.
LEMMA Ends ==
  ASSUME TypeOK, AlwaysInv, NEW p \in Procs, OwnStep(p), Leaves(p),
         until' = [until EXCEPT ![p] = 0]
  PROVE  Service!Forget({p}) /\ now' = now
<1>1. /\ \A q \in Procs \ {p} : (Owns(q)' <=> Owns(q)) /\ until'[q] = until[q]
      /\ drop' \subseteq drop /\ drop \ {p} \subseteq drop' /\ now' = now
      /\ ~Owns(p)' /\ until'[p] = 0
  BY OneMoves DEF OwnStep, Owns, Leaves
<1>2. {q \in Procs : Owns(q)}' = {q \in Procs : Owns(q)} \ {p}
  BY <1>1
<1>3. {q \in Procs : Owns(q) /\ q \notin drop}'
        = {q \in Procs : Owns(q) /\ q \notin drop} \ {p}
  BY <1>1
<1> DEFINE Id == [q \in Procs |-> IF Owns(q) THEN q ELSE NoLease]
<1>4. Id' = [q \in Procs |-> IF q \in {p} THEN NoLease ELSE Id[q]]
  BY <1>1
<1>5. until' = [q \in Procs |-> IF q \in {p} THEN 0 ELSE until[q]]
  BY DEF TypeOK
<1>6. QED
  BY <1>1, <1>2, <1>3, <1>4, <1>5 DEF Service!Forget

\* A grant to a process that owned nothing, of a lock it could take.
LEMMA Grants ==
  ASSUME TypeOK, AlwaysInv, NEW p \in Procs, OwnStep(p), ~Owns(p), Owns(p)',
         p \notin drop', Takes(lock, tnow[p]),
         lock' = Leased(p, tnow[p] + LeaseTTL),
         until' = [until EXCEPT ![p] = tnow[p] + LeaseTTL]
  PROVE  Service!Next
<1>1. /\ \A q \in Procs \ {p} : Owns(q)' <=> Owns(q)
      /\ drop' \subseteq drop /\ drop \ {p} \subseteq drop' /\ now' = now
  BY OneMoves DEF OwnStep, Owns
<1>2. {q \in Procs : Owns(q)}' = {q \in Procs : Owns(q)} \cup {p}
  BY <1>1
<1>3. {q \in Procs : Owns(q) /\ q \notin drop}'
        = {q \in Procs : Owns(q) /\ q \notin drop} \cup {p}
  BY <1>1
<1> DEFINE Id == [q \in Procs |-> IF Owns(q) THEN q ELSE NoLease]
<1>4. Id' = [Id EXCEPT ![p] = p]
  BY <1>1
<1>5. Service!Grant(p, p, tnow[p])
  BY <1>1, <1>2, <1>3, <1>4
     DEF Service!Grant, Takes, Leased, Service!Takes, Service!Leased
<1>6. tnow[p] \in 0..now
  BY DEF TypeOK, AlwaysInv
<1>7. p \in [q \in Procs |-> {q}][p]
  OBVIOUS
<1>8. \E i \in [q \in Procs |-> {q}][p], t \in 0..now : Service!Grant(p, i, t)
  BY <1>5, <1>6, <1>7 DEF Service!Grant
<1>9. QED
  BY <1>8 DEF Service!Next

LEMMA LeaseRefines ==
  TypeOK /\ AlwaysInv /\ LockInv /\ LeaseStep
    => (faults' = {} => [Service!Next]_(Service!svars))
<1> SUFFICES ASSUME TypeOK, AlwaysInv, LockInv, LeaseStep, faults' = {}
             PROVE  Service!Next \/ UNCHANGED Service!svars
  OBVIOUS
<1> USE DEF OwnStep
<1>1. ASSUME NEW p \in Procs, OwnStep(p), lock' = lock, ~Owns(p), ~Owns(p)',
             until' = until \/ until' = [until EXCEPT ![p] = 0]
      PROVE  UNCHANGED Service!svars
  <2>1. /\ \A q \in Procs \ {p} : (Owns(q)' <=> Owns(q))
        /\ drop' \subseteq drop /\ drop \ {p} \subseteq drop' /\ now' = now
    BY <1>1, OneMoves DEF Owns
  <2>2. p \notin drop
    BY <1>1 DEF AlwaysInv
  <2>3. until' = until
    BY <1>1 DEF AlwaysInv, TypeOK
  <2>4. drop' = drop
    BY <2>1, <2>2
  <2>5. QED
    BY <1>1, <2>1, <2>3, <2>4, Invisible
<1>2. ASSUME NEW p \in Procs, OwnStep(p), Owns(p), Leaves(p),
             until' = [until EXCEPT ![p] = 0],
             \/ lock' = AfterRelease(lock, p)
             \/ lock' = lock
      PROVE  Service!Next
  <2>1. Service!Forget({p}) /\ now' = now
    BY <1>2, Ends
  <2>2. p \in {q \in Procs : Owns(q)}
    BY <1>2
  <2>3. [q \in Procs |-> IF Owns(q) THEN q ELSE NoLease][p] = p
    BY <1>2
  <2>4. CASE lock' = AfterRelease(lock, p)
    <3>1. Service!Return(p)
      BY <2>1, <2>2, <2>3, <2>4
         DEF Service!Return, AfterRelease, Service!AfterRelease
    <3>2. QED
      BY <3>1 DEF Service!Next
  <2>5. CASE lock' = lock
    <3>1. Service!Die({p})
      BY <2>1, <2>5 DEF Service!Die
    <3>2. {p} \in SUBSET {q \in Procs : Owns(q)}
      BY <2>2
    <3>3. QED
      BY <3>1, <3>2 DEF Service!Next
  <2>6. QED
    BY <1>2, <2>4, <2>5
<1>3. ASSUME NEW p \in Procs, Ask(p)
      PROVE  UNCHANGED Service!svars
  BY <1>1, <1>3, OwnMoves DEF Owns
<1>4. ASSUME NEW p \in Procs, Link(p)
      PROVE  Service!Next \/ UNCHANGED Service!svars
  <2>1. CASE lock = NoLease
    BY <1>4, <2>1, Grants, OwnMoves DEF Owns, Takes, Link
  <2>2. CASE lock # NoLease
    BY <1>1, <1>4, <2>2, OwnMoves DEF Owns
  <2>3. QED
    BY <2>1, <2>2
<1>5. ASSUME NEW p \in Procs, ReadUntil(p)
      PROVE  UNCHANGED Service!svars
  BY <1>1, <1>5, OwnMoves DEF Owns
<1>6. ASSUME NEW p \in Procs, ReplaceLock(p)
      PROVE  Service!Next
  <2>1. pc[p] = "replace" /\ pc'[p] = "confirm" /\ p \notin drop'
    BY <1>6, OwnMoves
  <2>2. faults = {}
    BY <1>6, OneMoves
  <2>3. Takes(lock, tnow[p])
    BY <2>1, <2>2 DEF LockInv, Takes
  <2>4. QED
    BY <1>6, <2>1, <2>3, Grants DEF Owns, ReplaceLock
<1>7. ASSUME NEW p \in Procs, Confirm(p) \/ ReadHolder(p)
      PROVE  Service!Next \/ UNCHANGED Service!svars
  <2>1. OwnStep(p) /\ lock' = lock /\ Owns(p)
    BY <1>7, OwnMoves DEF Owns
  <2>2. CASE Leaves(p) /\ ~Mine(p)
    <3>1. until' = [until EXCEPT ![p] = 0]
      BY <1>7, <2>2 DEF Confirm, ReadHolder
    <3>2. QED
      BY <1>2, <2>1, <2>2, <3>1
  <2>3. CASE pc'[p] \in {"owner", "unlink"} /\ UNCHANGED <<until, drop>>
    <3>1. \A q \in Procs : Owns(q)' <=> Owns(q)
      BY <2>1, <2>3, OneMoves DEF Owns
    <3>2. now' = now
      BY <2>1, OneMoves
    <3>3. QED
      BY <2>1, <2>3, <3>1, <3>2, Invisible
  <2>4. QED
    BY <1>7, <2>2, <2>3, OwnMoves
<1>8. ASSUME NEW p \in Procs, Unlink(p)
      PROVE  Service!Next
  <2>1. pc[p] = "unlink" /\ lock' = NoLease /\ Leaves(p) /\ faults = {}
    BY <1>8, OwnMoves, OneMoves
  <2>2. Owns(p) /\ p \notin drop
    BY <2>1 DEF Owns, LockInv
  <2>3. lock = Leased(p, until[p])
    BY <2>1, <2>2 DEF LockInv
  <2>4. lock' = AfterRelease(lock, p)
    BY <2>1, <2>3 DEF AfterRelease, Leased
  <2>5. QED
    BY <1>2, <1>8, <2>1, <2>2, <2>4 DEF Unlink
<1>9. ASSUME NEW p \in Procs, Die(p)
      PROVE  Service!Next \/ UNCHANGED Service!svars
  <2>1. lock' = lock /\ Leaves(p) /\ until' = [until EXCEPT ![p] = 0]
    BY <1>9, OwnMoves DEF Die
  <2>2. CASE Owns(p)
    BY <1>2, <1>9, <2>1, <2>2
  <2>3. CASE ~Owns(p)
    BY <1>1, <1>9, <2>1, <2>3 DEF Leaves, Owns
  <2>4. QED
    BY <2>2, <2>3
<1>10. CASE Tick
  <2>1. now' = now + 1 /\ UNCHANGED <<lock, pc, until, drop>>
    BY <1>10 DEF Tick
  <2>2. Service!Tick
    BY <2>1 DEF Service!Tick, Owns
  <2>3. QED
    BY <2>2 DEF Service!Next
<1>11. CASE DeleteConnection
  <2>1. /\ lock' = NoLease /\ drop' = {p \in Procs : Owns(p)}
        /\ UNCHANGED <<now, pc, until>>
    BY <1>11 DEF DeleteConnection
  <2>2. Service!Drop
    BY <2>1 DEF Service!Drop, Owns
  <2>3. QED
    BY <2>2 DEF Service!Next
<1>12. CASE UNCHANGED <<now, lock, pc, until, drop>>
  BY <1>12, Invisible DEF Owns
<1>13. QED
  BY <1>3, <1>4, <1>5, <1>6, <1>7, <1>8, <1>9, <1>10, <1>11, <1>12
     DEF LeaseStep, Next, vars

-----------------------------------------------------------------------------
(* The store: types, and where each process is. *)

\* Every step of the store is one of the lock, or leaves the lock alone.
LEMMA StoreIsLease ==
  ASSUME [StoreNext]_<<vars, fvars>>
  PROVE  LeaseStep
<1>1. ASSUME NEW p \in Procs, Get(p) \/ WriteToken(p) \/ Put(p)
      PROVE  UNCHANGED vars
  BY <1>1 DEF Get, StartGet, RecordExists, ReadRecord, TokenExists, ReadToken,
     Return, WriteToken, SealToken, RereadRecord, OpenTmp, FillTmp,
     PublishTmp, Put, StartPut, OpenRecord, FillRecord, PutToken
<1>2. ASSUME NEW p \in Procs, Delete(p)
      PROVE  DeleteConnection \/ UNCHANGED vars
  BY <1>2 DEF Delete, StartDelete, ZeroToken, UnlinkToken, UnlinkRecord,
     UnlinkLock
<1>3. ASSUME NEW p \in Procs, AskLease(p) \/ Acquire(p) \/ Release(p)
      PROVE  OwnStep(p)
  BY <1>3 DEF AskLease, Acquire, Release, OwnStep
<1>4. ASSUME NEW p \in Procs, Crash(p)
      PROVE  LeaseStep
  BY <1>4 DEF Crash, LeaseStep, Next
<1>5. ASSUME NEW p \in Procs, OwnStep(p)
      PROVE  Next
  BY <1>5 DEF OwnStep, Next
<1>6. Clock => Next
  BY DEF Clock, Next
<1>7. DeleteConnection => Next
  BY DEF Next
<1>8. QED
  BY <1>1, <1>2, <1>3, <1>4, <1>5, <1>6, <1>7 DEF StoreNext, LeaseStep

\* A process goes to its next call.
LEMMA ToFacts ==
  ASSUME StoreTypeOK, NEW p \in Procs, NEW s, To(p, s)
  PROVE  /\ s \in Steps => step' \in [Procs -> Steps]
         /\ step'[p] = s /\ \A q \in Procs \ {p} : step'[q] = step[q]
  BY DEF StoreTypeOK, To

LEMMA FinishFacts ==
  ASSUME StoreTypeOK, NEW p \in Procs, Finish(p)
  PROVE  /\ step' \in [Procs -> Steps] /\ held' \in [Procs -> 0..MaxPuts]
         /\ step'[p] = IF pc[p] = "owner" THEN "done" ELSE "rest"
         /\ \A q \in Procs \ {p} : step'[q] = step[q] /\ held'[q] = held[q]
<1>1. 0 \in 0..MaxPuts
  BY StoreConstantsOK
<1>2. held' \in [Procs -> 0..MaxPuts]
      /\ \A q \in Procs \ {p} : held'[q] = held[q]
  BY <1>1 DEF Finish, NoFile, StoreTypeOK
<1>3. PICK s \in {"done", "rest"} :
        To(p, s) /\ s = IF pc[p] = "owner" THEN "done" ELSE "rest"
  BY DEF Finish
<1>4. s \in Steps
  BY DEF Steps
<1>5. QED
  BY <1>2, <1>3, <1>4, ToFacts

LEMMA StepsFacts ==
  /\ {"rest", "got", "asking", "done", "exists", "record", "tokexists",
      "token", "seal", "reread", "opentmp", "filltmp", "publish", "open",
      "fill", "putseal", "zero", "untoken", "unrecord", "unlock"} \subseteq Steps
  /\ Steps \subseteq
     {"rest", "got", "asking", "done", "exists", "record", "tokexists",
      "token", "seal", "reread", "opentmp", "filltmp", "publish", "open",
      "fill", "putseal", "zero", "untoken", "unrecord", "unlock"}
  BY DEF Steps, GetSteps, WriteSteps, PutSteps, DeleteSteps

\* The contents of files.
LEMMA FilesFacts ==
  /\ 0 \in Nat /\ NoFile \in 0..MaxPuts /\ 0..MaxPuts \subseteq Files
  /\ Torn \in Files /\ NoFile \in Files /\ Torn \notin 0..MaxPuts
  /\ \A f \in Files : Whole(f) => f \in 0..MaxPuts
  BY StoreConstantsOK DEF Files, NoFile, Whole

\* What a process has in hand lands in the file it has open.
LEMMA FillFacts ==
  ASSUME StoreTypeOK, NEW p \in Procs, NEW s \in Steps, FillOpen(p, s)
  PROVE  /\ rec' \in Files /\ tmp' \in Files
         /\ fd' \in [Procs -> {"none", "rec", "tmp", "gone"}]
         /\ step' \in [Procs -> Steps] /\ step'[p] = s
         /\ \A q \in Procs \ {p} : step'[q] = step[q] /\ fd'[q] = fd[q]
         /\ fd'[p] = "none"
         /\ IF fd[p] = "rec" THEN rec' = held[p] ELSE rec' = rec
         /\ IF fd[p] = "tmp" THEN tmp' = held[p] ELSE tmp' = tmp
<1>1. held[p] \in Files
  BY FilesFacts DEF StoreTypeOK
<1>2. To(p, s)
  BY DEF FillOpen
<1>3. QED
  BY <1>1, <1>2, ToFacts DEF FillOpen, StoreTypeOK

\* Where the open files are once the record's name is given away.
LEMMA MoveFacts ==
  ASSUME StoreTypeOK, NEW here \in BOOLEAN, fd' = MoveOpen(here)
  PROVE  /\ fd' \in [Procs -> {"none", "rec", "tmp", "gone"}]
         /\ \A q \in Procs :
              /\ fd'[q] = "none" <=> fd[q] = "none"
              /\ fd'[q] = "tmp" <=> fd[q] = "tmp" /\ ~here
              /\ fd'[q] = "rec" <=> fd[q] = "tmp" /\ here
  BY DEF MoveOpen, StoreTypeOK

LEMMA StoreTypeStep ==
  StoreTypeOK /\ [StoreNext]_<<vars, fvars>> => StoreTypeOK'
<1> SUFFICES ASSUME StoreTypeOK, [StoreNext]_<<vars, fvars>>
             PROVE  StoreTypeOK'
  OBVIOUS
<1> USE DEF files, hist
<1>1. TypeOK'
  BY StoreIsLease, LeaseTypeStep DEF StoreTypeOK
<1>2. ASSUME NEW p \in Procs,
             StartGet(p) \/ RecordExists(p) \/ ReadRecord(p) \/ TokenExists(p)
             \/ Return(p)
      PROVE  StoreTypeOK'
  <2>1. step' \in [Procs -> Steps] /\ held' \in [Procs -> 0..MaxPuts]
    <3>1. CASE Finish(p)
      BY <3>1, FinishFacts
    <3>2. CASE ~Finish(p)
      <4>1. held' = held /\ \E s \in {"exists", "record", "tokexists",
                                      "token", "got"} : To(p, s)
        BY <1>2, <3>2 DEF StartGet, RecordExists, ReadRecord, TokenExists,
                          Return
      <4>2. QED
        BY <4>1, ToFacts, StepsFacts DEF StoreTypeOK
    <3>3. QED
      BY <3>1, <3>2
  <2>2. UNCHANGED <<rec, tok, tmp, fd, puts, meant, overlaps>>
    BY <1>2 DEF StartGet, RecordExists, ReadRecord, TokenExists, Return
  <2>3. QED
    BY <1>1, <2>1, <2>2 DEF StoreTypeOK
<1>3. ASSUME NEW p \in Procs, ReadToken(p) \/ RereadRecord(p)
      PROVE  StoreTypeOK'
  <2>1. step' \in [Procs -> Steps] /\ held' \in [Procs -> 0..MaxPuts]
    <3>1. CASE Finish(p)
      BY <3>1, FinishFacts
    <3>2. CASE ~Finish(p)
      <4>1. PICK f \in {rec, tok} : Whole(f) /\ held' = [held EXCEPT ![p] = f]
        BY <1>3, <3>2 DEF ReadToken, RereadRecord
      <4>2. f \in 0..MaxPuts
        BY <4>1, FilesFacts DEF StoreTypeOK
      <4>3. PICK s \in {"seal", "got", "opentmp"} : To(p, s)
        BY <1>3, <3>2 DEF ReadToken, RereadRecord
      <4>4. QED
        BY <4>1, <4>2, <4>3, ToFacts, StepsFacts DEF StoreTypeOK
    <3>3. QED
      BY <3>1, <3>2
  <2>2. UNCHANGED <<rec, tok, tmp, fd, puts, meant, overlaps>>
    BY <1>3 DEF ReadToken, RereadRecord
  <2>3. QED
    BY <1>1, <2>1, <2>2 DEF StoreTypeOK
<1>4. ASSUME NEW p \in Procs, SealToken(p)
      PROVE  StoreTypeOK'
  <2>1. step' \in [Procs -> Steps] /\ tok' \in Files
    BY <1>4, ToFacts, StepsFacts, FilesFacts DEF SealToken, StoreTypeOK
  <2>2. QED
    BY <1>1, <1>4, <2>1 DEF SealToken, StoreTypeOK
<1>5. ASSUME NEW p \in Procs, OpenTmp(p) \/ OpenRecord(p)
      PROVE  StoreTypeOK'
  <2>1. step' \in [Procs -> Steps]
    BY <1>5, ToFacts, StepsFacts DEF OpenTmp, OpenRecord
  <2>2. fd' \in [Procs -> {"none", "rec", "tmp", "gone"}]
    BY <1>5 DEF OpenTmp, OpenRecord, StoreTypeOK
  <2>3. QED
    BY <1>1, <1>5, <2>1, <2>2, FilesFacts DEF OpenTmp, OpenRecord, StoreTypeOK
<1>6. ASSUME NEW p \in Procs, FillTmp(p) \/ FillRecord(p)
      PROVE  StoreTypeOK'
  <2>1. /\ rec' \in Files /\ tmp' \in Files /\ step' \in [Procs -> Steps]
        /\ fd' \in [Procs -> {"none", "rec", "tmp", "gone"}]
    BY <1>6, FillFacts, StepsFacts DEF FillTmp, FillRecord
  <2>2. QED
    BY <1>1, <1>6, <2>1 DEF FillTmp, FillRecord, StoreTypeOK
<1>7. ASSUME NEW p \in Procs, PublishTmp(p)
      PROVE  StoreTypeOK'
  <2>1. /\ rec' \in Files /\ tmp' \in Files
        /\ fd' \in [Procs -> {"none", "rec", "tmp", "gone"}]
    BY <1>7, MoveFacts, FilesFacts DEF PublishTmp, StoreTypeOK
  <2>2. step' \in [Procs -> Steps] /\ held' \in [Procs -> 0..MaxPuts]
    BY <1>7, FinishFacts DEF PublishTmp
  <2>3. QED
    BY <1>1, <1>7, <2>1, <2>2 DEF PublishTmp, StoreTypeOK
<1>8. ASSUME NEW p \in Procs
      PROVE  ChangeOverlaps(p) \subseteq Overlaps
  BY DEF ChangeOverlaps, Overlaps
<1>9. ASSUME NEW p \in Procs, StartPut(p)
      PROVE  StoreTypeOK'
  <2>1. step' \in [Procs -> Steps]
    BY <1>9, ToFacts, StepsFacts DEF StartPut
  <2>2. puts + 1 \in 0..MaxPuts
    BY <1>9, StoreConstantsOK DEF StartPut, StoreTypeOK
  <2>3. overlaps' \subseteq Overlaps
    BY <1>8, <1>9 DEF StartPut, NoteOverlap, StoreTypeOK
  <2>4. QED
    BY <1>1, <1>9, <2>1, <2>2, <2>3 DEF StartPut, StoreTypeOK
<1>10. ASSUME NEW p \in Procs, PutToken(p)
       PROVE  StoreTypeOK'
  <2>1. held[p] \in 0..MaxPuts /\ held[p] \in Files
    BY FilesFacts DEF StoreTypeOK
  <2>2. step' \in [Procs -> Steps] /\ held' \in [Procs -> 0..MaxPuts]
    BY <1>10, FinishFacts DEF PutToken
  <2>3. QED
    BY <1>1, <1>10, <2>1, <2>2 DEF PutToken, StoreTypeOK
<1>11. ASSUME NEW p \in Procs, StartDelete(p)
       PROVE  StoreTypeOK'
  <2>1. step' \in [Procs -> Steps]
    BY <1>11, ToFacts, StepsFacts DEF StartDelete
  <2>2. held' \in [Procs -> 0..MaxPuts]
    BY <1>11, FilesFacts DEF StartDelete, StoreTypeOK
  <2>3. overlaps' \subseteq Overlaps
    BY <1>8, <1>11 DEF StartDelete, NoteOverlap, StoreTypeOK
  <2>4. QED
    BY <1>1, <1>11, <2>1, <2>2, <2>3 DEF StartDelete, StoreTypeOK
<1>12. ASSUME NEW p \in Procs, ZeroToken(p) \/ UnlinkToken(p)
       PROVE  StoreTypeOK'
  <2>1. step' \in [Procs -> Steps]
    BY <1>12, ToFacts, StepsFacts DEF ZeroToken, UnlinkToken
  <2>2. tok' \in Files /\ UNCHANGED <<rec, tmp, fd, held, puts, meant, overlaps>>
    BY <1>12, FilesFacts DEF ZeroToken, UnlinkToken, StoreTypeOK
  <2>3. QED
    BY <1>1, <2>1, <2>2 DEF StoreTypeOK
<1>13. ASSUME NEW p \in Procs, UnlinkRecord(p)
       PROVE  StoreTypeOK'
  <2>1. step' \in [Procs -> Steps]
    BY <1>13, ToFacts, StepsFacts DEF UnlinkRecord
  <2>2. fd' \in [Procs -> {"none", "rec", "tmp", "gone"}]
    BY <1>13, MoveFacts DEF UnlinkRecord
  <2>3. QED
    BY <1>1, <1>13, <2>1, <2>2, FilesFacts DEF UnlinkRecord, StoreTypeOK
<1>14. ASSUME NEW p \in Procs, UnlinkLock(p)
       PROVE  StoreTypeOK'
  <2>1. step' \in [Procs -> Steps]
    BY <1>14, ToFacts, StepsFacts DEF UnlinkLock
  <2>2. QED
    BY <1>1, <1>14, <2>1, FilesFacts DEF UnlinkLock, StoreTypeOK
<1>15. ASSUME NEW p \in Procs, AskLease(p)
       PROVE  StoreTypeOK'
  <2>1. step' \in [Procs -> Steps]
    BY <1>15, ToFacts, StepsFacts DEF AskLease
  <2>2. held' \in [Procs -> 0..MaxPuts]
    BY <1>15, FilesFacts DEF AskLease, StoreTypeOK
  <2>3. QED
    BY <1>1, <1>15, <2>1, <2>2 DEF AskLease, StoreTypeOK
<1>16. ASSUME NEW p \in Procs, Acquire(p)
       PROVE  StoreTypeOK'
  <2>1. step' \in [Procs -> Steps]
    BY <1>16, ToFacts, StepsFacts DEF Acquire, StoreTypeOK
  <2>2. overlaps' \subseteq Overlaps
    BY <1>16 DEF Acquire, NoteOverlap, StoreTypeOK, Overlaps
  <2>3. QED
    BY <1>1, <1>16, <2>1, <2>2 DEF Acquire, StoreTypeOK
<1>17. ASSUME NEW p \in Procs, Release(p)
       PROVE  StoreTypeOK'
  <2>1. step' \in [Procs -> Steps]
    BY <1>17, ToFacts, StepsFacts DEF Release, StoreTypeOK
  <2>2. QED
    BY <1>1, <1>17, <2>1 DEF Release, StoreTypeOK
<1>18. ASSUME NEW p \in Procs, Crash(p)
       PROVE  StoreTypeOK'
  <2>1. step' \in [Procs -> Steps]
    BY <1>18, ToFacts, StepsFacts DEF Crash
  <2>2. /\ fd' \in [Procs -> {"none", "rec", "tmp", "gone"}]
        /\ held' \in [Procs -> 0..MaxPuts]
    BY <1>18, FilesFacts DEF Crash, StoreTypeOK
  <2>3. overlaps' \subseteq Overlaps
    BY <1>18 DEF Crash, NoteOverlap, StoreTypeOK, Overlaps
  <2>4. UNCHANGED <<rec, tok, tmp, puts, meant>>
    BY <1>18 DEF Crash
  <2>5. QED
    BY <1>1, <2>1, <2>2, <2>3, <2>4 DEF StoreTypeOK
<1>19. CASE Clock \/ UNCHANGED <<vars, fvars>>
  BY <1>1, <1>19 DEF Clock, fvars, StoreTypeOK
<1>20. QED
  BY <1>2, <1>3, <1>4, <1>5, <1>6, <1>7, <1>9, <1>10, <1>11, <1>12, <1>13,
     <1>14, <1>15, <1>16, <1>17, <1>18, <1>19
     DEF StoreNext, Get, WriteToken, Put, Delete

-----------------------------------------------------------------------------
(* The store: where a process is. *)

\* The calls of process p.
StoreStep(p) ==
  \/ Get(p) \/ WriteToken(p) \/ Put(p) \/ Delete(p)
  \/ AskLease(p) \/ Acquire(p) \/ Release(p) \/ Crash(p)

\* The lease of the other processes is where it was.
LEMMA PcStays ==
  ASSUME StoreTypeOK, NEW p \in Procs, StoreStep(p), NEW q \in Procs \ {p}
  PROVE  pc'[q] = pc[q]
<1>1. CASE OwnStep(p)
  BY <1>1, OneMoves DEF OwnStep, StoreTypeOK
<1>2. CASE AskLease(p) \/ Acquire(p) \/ Release(p)
  BY <1>1, <1>2 DEF AskLease, Acquire, Release, OwnStep
<1>3. CASE Crash(p)
  BY <1>1, <1>3 DEF Crash, OwnStep
<1>4. CASE Get(p) \/ WriteToken(p) \/ Put(p)
  BY <1>4 DEF Get, StartGet, RecordExists, ReadRecord, TokenExists, ReadToken,
     Return, WriteToken, SealToken, RereadRecord, OpenTmp, FillTmp,
     PublishTmp, Put, StartPut, OpenRecord, FillRecord, PutToken, vars
<1>5. CASE Delete(p)
  BY <1>5 DEF Delete, StartDelete, ZeroToken, UnlinkToken, UnlinkRecord,
     UnlinkLock, DeleteConnection, vars
<1>6. QED
  BY <1>2, <1>3, <1>4, <1>5 DEF StoreStep

\* So is their call, and what they have in hand.
LEMMA StepStays ==
  ASSUME StoreTypeOK, NEW p \in Procs, StoreStep(p), NEW q \in Procs \ {p}
  PROVE  step'[q] = step[q] /\ held'[q] = held[q]
<1> USE DEF To, StoreTypeOK
<1>1. CASE Get(p)
  BY <1>1 DEF Get, StartGet, RecordExists, ReadRecord, TokenExists, ReadToken,
     Return, Finish
<1>2. CASE WriteToken(p)
  BY <1>2 DEF WriteToken, SealToken, RereadRecord, OpenTmp, FillTmp,
     FillOpen, PublishTmp, Finish
<1>3. CASE Put(p)
  BY <1>3 DEF Put, StartPut, OpenRecord, FillRecord, FillOpen, PutToken, Finish
<1>4. CASE Delete(p)
  BY <1>4 DEF Delete, StartDelete, ZeroToken, UnlinkToken, UnlinkRecord,
     UnlinkLock
<1>5. CASE AskLease(p) \/ Acquire(p) \/ Release(p) \/ Crash(p)
  BY <1>5 DEF AskLease, Acquire, Release, Crash
<1>6. QED
  BY <1>1, <1>2, <1>3, <1>4, <1>5 DEF StoreStep

\* A file another process has open stays open, maybe under another name.
LEMMA OpenStays ==
  ASSUME StoreTypeOK, NEW p \in Procs, StoreStep(p), NEW q \in Procs \ {p}
  PROVE  /\ fd'[q] = "none" <=> fd[q] = "none"
         /\ fd'[q] = "tmp" => fd[q] = "tmp"
<1>1. CASE fd' = fd
  BY <1>1
<1>2. CASE \E f \in {"none", "rec", "tmp"} : fd' = [fd EXCEPT ![p] = f]
  BY <1>2 DEF StoreTypeOK
<1>3. CASE \E here \in BOOLEAN : fd' = MoveOpen(here)
  BY <1>3, MoveFacts
<1>4. Get(p) => fd' = fd
  BY DEF Get, StartGet, RecordExists, ReadRecord, TokenExists, ReadToken, Return
<1>5. WriteToken(p) => \/ fd' = fd
                       \/ \E f \in {"none", "rec", "tmp"} : fd' = [fd EXCEPT ![p] = f]
                       \/ fd' = MoveOpen(TRUE)
  BY DEF WriteToken, SealToken, RereadRecord, OpenTmp, FillTmp, FillOpen,
         PublishTmp
<1>6. Put(p) => \/ fd' = fd
                \/ \E f \in {"none", "rec", "tmp"} : fd' = [fd EXCEPT ![p] = f]
  BY DEF Put, StartPut, OpenRecord, FillRecord, FillOpen, PutToken, files
<1>7. Delete(p) => fd' = fd \/ fd' = MoveOpen(FALSE)
  BY DEF Delete, StartDelete, ZeroToken, UnlinkToken, UnlinkRecord, UnlinkLock
<1>8. AskLease(p) \/ Acquire(p) \/ Release(p) \/ Crash(p)
        => \/ fd' = fd
           \/ \E f \in {"none", "rec", "tmp"} : fd' = [fd EXCEPT ![p] = f]
  BY DEF AskLease, Acquire, Release, Crash
<1>9. QED
  BY <1>1, <1>2, <1>3, <1>4, <1>5, <1>6, <1>7, <1>8 DEF StoreStep

LEMMA StepStep ==
  StoreTypeOK /\ StepInv /\ [StoreNext]_<<vars, fvars>> => StepInv'
<1> SUFFICES ASSUME StoreTypeOK, StepInv, [StoreNext]_<<vars, fvars>>
             PROVE  StepInv'
  OBVIOUS
<1>1. ASSUME NEW p \in Procs, StoreStep(p), StepOK(p)'
      PROVE  StepInv'
  <2>1. ASSUME NEW q \in Procs \ {p}
        PROVE  StepOK(q)'
    <3>1. StepOK(q)
      BY DEF StepInv
    <3>2. /\ step'[q] = step[q] /\ pc'[q] = pc[q]
          /\ fd'[q] = "none" <=> fd[q] = "none"
          /\ fd'[q] = "tmp" => fd[q] = "tmp"
      BY <1>1, PcStays, StepStays, OpenStays
    <3>3. QED
      BY <3>1, <3>2 DEF StepOK
  <2>2. QED
    BY <1>1, <2>1 DEF StepInv
<1>2. ASSUME NEW p \in Procs
      PROVE  StepOK(p) /\ step[p] \in Steps /\ pc[p] \in Labels
  BY DEF StepInv, StoreTypeOK, TypeOK
<1> USE DEF StepOK, GetSteps, WriteSteps, PutSteps, DeleteSteps
<1>3. ASSUME NEW p \in Procs, Get(p) \/ RereadRecord(p)
      PROVE  StepOK(p)'
  <2>1. pc' = pc /\ fd' = fd
    BY <1>3 DEF Get, StartGet, RecordExists, ReadRecord, TokenExists,
       ReadToken, Return, RereadRecord, vars
  <2>2. CASE Finish(p)
    <3>1. step[p] \in GetSteps \cup {"got", "reread"}
      <4>1. ~StartGet(p)
        BY <2>2, FinishFacts, ToFacts DEF StartGet
      <4>2. QED
        BY <1>3, <4>1 DEF Get, RecordExists, ReadRecord, TokenExists,
           ReadToken, Return, RereadRecord, At
    <3>2. QED
      BY <1>2, <2>1, <2>2, <3>1, FinishFacts
  <2>3. CASE ~Finish(p)
    <3>1. \/ At(p, "rest") /\ pc[p] = "idle" /\ To(p, "exists")
          \/ At(p, "exists") /\ To(p, "record")
          \/ At(p, "record") /\ To(p, "tokexists")
          \/ At(p, "tokexists") /\ To(p, "token")
          \/ At(p, "tokexists") /\ pc[p] = "idle" /\ To(p, "got")
          \/ At(p, "token") /\ pc[p] = "owner" /\ To(p, "seal")
          \/ At(p, "token") /\ pc[p] # "owner" /\ To(p, "got")
          \/ At(p, "reread") /\ To(p, "opentmp")
      BY <1>3, <2>3 DEF Get, StartGet, RecordExists, ReadRecord, TokenExists,
         ReadToken, Return, RereadRecord
    <3>2. QED
      BY <1>2, <2>1, <3>1, ToFacts DEF At
  <2>4. QED
    BY <2>2, <2>3
<1>4. ASSUME NEW p \in Procs, SealToken(p) \/ OpenTmp(p) \/ FillTmp(p)
      PROVE  StepOK(p)'
  BY <1>2, <1>4 DEF SealToken, OpenTmp, FillTmp, FillOpen, At, To, StoreTypeOK, vars
<1>5. ASSUME NEW p \in Procs, PublishTmp(p)
      PROVE  StepOK(p)'
  <2>1. pc' = pc /\ At(p, "publish") /\ fd[p] = "none"
    BY <1>2, <1>5 DEF PublishTmp, vars, At
  <2>2. fd'[p] = "none"
    BY <1>5, <2>1, MoveFacts DEF PublishTmp
  <2>3. QED
    BY <1>2, <1>5, <2>1, <2>2, FinishFacts DEF PublishTmp, At
<1>6. ASSUME NEW p \in Procs, StartPut(p) \/ OpenRecord(p) \/ FillRecord(p)
      PROVE  StepOK(p)'
  BY <1>2, <1>6 DEF StartPut, OpenRecord, FillRecord, FillOpen, At, To, StoreTypeOK, vars
<1>7. ASSUME NEW p \in Procs, PutToken(p)
      PROVE  StepOK(p)'
  BY <1>2, <1>7, FinishFacts DEF PutToken, At, vars
<1>8. ASSUME NEW p \in Procs, Delete(p)
      PROVE  StepOK(p)'
  <2>1. pc' = pc
    BY <1>8 DEF Delete, StartDelete, ZeroToken, UnlinkToken, UnlinkRecord,
       UnlinkLock, DeleteConnection, vars
  <2>2. \/ At(p, "got") /\ To(p, "zero")
        \/ step[p] \in DeleteSteps /\ (To(p, "untoken") \/ To(p, "unrecord")
                                       \/ To(p, "rest") \/ To(p, "unlock"))
    BY <1>8 DEF Delete, StartDelete, ZeroToken, UnlinkToken, UnlinkRecord,
       UnlinkLock, At
  <2>3. fd[p] = "none"
    BY <1>2, <2>2 DEF At
  <2>4. fd'[p] = "none"
    BY <1>8, <2>3, MoveFacts DEF Delete, StartDelete, ZeroToken, UnlinkToken,
       UnlinkRecord, UnlinkLock
  <2>5. QED
    BY <1>2, <2>1, <2>2, <2>4, ToFacts DEF At
<1>9. ASSUME NEW p \in Procs, AskLease(p) \/ Acquire(p) \/ Release(p)
      PROVE  StepOK(p)'
  <2>1. TypeOK
    BY DEF StoreTypeOK
  <2>2. CASE AskLease(p)
    <3>1. pc'[p] = "link" /\ step'[p] = "asking" /\ fd[p] = "none" /\ fd' = fd
      BY <1>2, <2>1, <2>2, OwnMoves, ToFacts DEF AskLease, At
    <3>2. QED
      BY <3>1
  <2>3. CASE Acquire(p)
    <3>1. At(p, "asking") /\ fd' = fd /\ fd[p] = "none"
      BY <1>2, <2>3 DEF Acquire, At
    <3>2. pc'[p] \in {"owner", "read", "replace", "idle", "confirm"}
      BY <2>1, <2>3, OwnMoves DEF Acquire, Leaves
    <3>3. \/ pc'[p] = "idle" /\ step'[p] = "rest"
          \/ pc'[p] = "owner" /\ step'[p] = "exists"
          \/ pc'[p] \notin {"idle", "owner"} /\ step' = step
      BY <2>3, ToFacts DEF Acquire
    <3>4. QED
      BY <3>1, <3>2, <3>3 DEF At
  <2>4. CASE Release(p)
    <3>1. At(p, "done") /\ fd' = fd /\ fd[p] = "none"
      BY <1>2, <2>4 DEF Release, At
    <3>2. pc'[p] \in {"unlink", "idle"}
      BY <2>1, <2>4, OwnMoves DEF Release, Leaves
    <3>3. IF pc'[p] = "idle" THEN step'[p] = "rest" ELSE step' = step
      BY <2>4, ToFacts DEF Release
    <3>4. QED
      BY <3>1, <3>2, <3>3 DEF At
  <2>5. QED
    BY <1>9, <2>2, <2>3, <2>4
<1>10. ASSUME NEW p \in Procs, Crash(p)
       PROVE  StepOK(p)'
  <2>1. step'[p] = "rest" /\ fd'[p] = "none"
    BY <1>10, ToFacts DEF Crash, StoreTypeOK
  <2>2. pc'[p] = "idle"
    BY <1>10, OwnMoves DEF Crash, Leaves, StoreTypeOK
  <2>3. QED
    BY <2>1, <2>2
<1>11. CASE Clock \/ UNCHANGED <<vars, fvars>>
  BY <1>2, <1>11 DEF Clock, Tick, vars, fvars, StepInv
<1>12. QED
  <2>1. ASSUME NEW p \in Procs, StoreStep(p)
        PROVE  StepInv'
    BY <1>1, <1>3, <1>4, <1>5, <1>6, <1>7, <1>8, <1>9, <1>10, <2>1
       DEF StoreStep, Get, WriteToken, Put
  <2>2. QED
    BY <1>11, <2>1 DEF StoreNext, StoreStep

-----------------------------------------------------------------------------
(* The store: torn files. *)

\* The history of a step only grows.
LEMMA HistoryGrows ==
  ASSUME StoreTypeOK, NEW p \in Procs, StoreStep(p)
  PROVE  /\ overlaps \subseteq overlaps'
         /\ faults \subseteq faults'
         /\ drops' = 0 => drops = 0
<1>1. overlaps \subseteq overlaps'
  BY DEF StoreStep, Get, StartGet, RecordExists, ReadRecord, TokenExists,
     ReadToken, Return, WriteToken, SealToken, RereadRecord, OpenTmp, FillTmp,
     PublishTmp, Put, StartPut, OpenRecord, FillRecord, PutToken, Delete,
     StartDelete, ZeroToken, UnlinkToken, UnlinkRecord, UnlinkLock, AskLease,
     Acquire, Release, Crash, NoteOverlap, hist
<1>2. LeaseStep
  BY StoreIsLease DEF StoreStep, StoreNext
<1>3. ASSUME NEW q \in Procs, OwnStep(q)
      PROVE  faults \subseteq faults' /\ drops' = drops
  BY <1>3, OneMoves DEF OwnStep, StoreTypeOK
<1>4. drops \in Nat
  BY DEF StoreTypeOK, TypeOK
<1>5. QED
  BY <1>1, <1>2, <1>3, <1>4
     DEF LeaseStep, Next, OwnStep, Tick, DeleteConnection, bounds, vars

\* The lock is a lease, and nothing was deleted.
Calm == faults = {} /\ drops = 0

\* The three parts of TornInv.
RecTorn ==
  rec = Torn => \/ "death" \in overlaps
                \/ \E p \in Procs : fd[p] = "rec" /\ (Calm => At(p, "fill"))

TokTorn == tok = Torn => "death" \in overlaps \/ \E p \in Procs : At(p, "untoken")

LEMMA TornParts ==
  /\ TornInv <=> TmpInv /\ RecTorn /\ TokTorn
  /\ TornInv' <=> TmpInv' /\ RecTorn' /\ TokTorn'
  BY DEF TornInv, TornHasWriter, RecTorn, TokTorn, Calm

\* Each part survives a step that does not touch its file.
LEMMA RecKeeps ==
  ASSUME StoreTypeOK, RecTorn, NEW p \in Procs, StoreStep(p),
         rec' = rec, fd[p] # "rec", \A q \in Procs \ {p} : fd'[q] = fd[q]
  PROVE  RecTorn'
<1>1. overlaps \subseteq overlaps' /\ (Calm' => Calm)
  BY HistoryGrows DEF Calm
<1>2. \A q \in Procs \ {p} : step'[q] = step[q]
  BY StepStays
<1>3. QED
  BY <1>1, <1>2 DEF RecTorn, At

LEMMA TokKeeps ==
  ASSUME StoreTypeOK, TokTorn, NEW p \in Procs, StoreStep(p),
         tok' = tok, ~At(p, "untoken")
  PROVE  TokTorn'
<1>1. overlaps \subseteq overlaps'
  BY HistoryGrows
<1>2. \A q \in Procs \ {p} : step'[q] = step[q]
  BY StepStays
<1>3. QED
  BY <1>1, <1>2 DEF TokTorn, At

LEMMA TmpKeeps ==
  ASSUME StoreTypeOK, TmpInv, NEW p \in Procs, StoreStep(p),
         tmp' = tmp, fd[p] # "tmp",
         \A q \in Procs \ {p} : fd[q] = "tmp" => fd'[q] = "tmp",
         step'[p] \in {"filltmp", "publish"} => step[p] \in {"filltmp", "publish"}
  PROVE  TmpInv'
<1>1. overlaps \subseteq overlaps'
  BY HistoryGrows
<1>2. \A q \in Procs \ {p} : step'[q] = step[q]
  BY StepStays
<1>3. QED
  BY <1>1, <1>2 DEF TmpInv

LEMMA TornStep ==
  /\ StoreTypeOK /\ StepInv /\ AlwaysInv /\ LockInv /\ TornInv
  /\ [StoreNext]_<<vars, fvars>>
  => TornInv'
<1> SUFFICES ASSUME StoreTypeOK, StepInv, AlwaysInv, LockInv, TornInv,
                    [StoreNext]_<<vars, fvars>>
             PROVE  TornInv'
  OBVIOUS
<1>1. TmpInv /\ RecTorn /\ TokTorn
  BY TornParts
<1>2. ASSUME NEW p \in Procs
      PROVE  StepOK(p) /\ held[p] # Torn
  BY FilesFacts DEF StepInv, StoreTypeOK
<1>3. NoFile # Torn
  BY FilesFacts
<1> USE <1>1 DEF files, hist
\* Calls that leave the files and who has them open alone.
<1>4. ASSUME NEW p \in Procs,
             \/ Get(p) \/ RereadRecord(p) \/ StartPut(p) \/ StartDelete(p)
             \/ UnlinkLock(p) \/ AskLease(p) \/ Acquire(p) \/ Release(p)
      PROVE  TornInv'
  <2>1. StoreStep(p)
    BY <1>4 DEF StoreStep, WriteToken, Put, Delete
  <2>2. UNCHANGED <<rec, tok, tmp, fd>>
    BY <1>4 DEF Get, StartGet, RecordExists, ReadRecord, TokenExists,
       ReadToken, Return, RereadRecord, StartPut, StartDelete, UnlinkLock,
       AskLease, Acquire, Release
  <2>3. step[p] \notin {"fill", "filltmp", "publish", "untoken"}
    BY <1>2, <1>4 DEF Get, StartGet, RecordExists, ReadRecord, TokenExists,
       ReadToken, Return, RereadRecord, StartPut, StartDelete, UnlinkLock,
       AskLease, Acquire, Release, At
  <2>4. fd[p] = "none"
    BY <1>2, <2>3 DEF StepOK
  <2>5. step'[p] \notin {"filltmp", "publish"}
    <3>1. CASE Finish(p)
      BY <3>1, FinishFacts
    <3>2. CASE step' = step
      BY <2>3, <3>2
    <3>3. CASE ~Finish(p) /\ step' # step
      <4>1. \E s \in {"exists", "record", "tokexists", "token", "seal", "got",
                      "opentmp", "open", "zero", "rest", "asking"} : To(p, s)
        BY <1>4, <3>3 DEF Get, StartGet, RecordExists, ReadRecord,
           TokenExists, ReadToken, Return, RereadRecord, StartPut,
           StartDelete, UnlinkLock, AskLease, Acquire, Release
      <4>2. QED
        BY <4>1, ToFacts
    <3>4. QED
      BY <3>1, <3>2, <3>3
  <2>6. QED
    BY <2>1, <2>2, <2>3, <2>4, <2>5, RecKeeps, TokKeeps, TmpKeeps, TornParts
       DEF At
\* Calls that write the token, or remove it.
<1>5. ASSUME NEW p \in Procs,
             SealToken(p) \/ PutToken(p) \/ ZeroToken(p) \/ UnlinkToken(p)
      PROVE  TornInv'
  <2>1. StoreStep(p)
    BY <1>5 DEF StoreStep, WriteToken, Put, Delete
  <2>2. UNCHANGED <<rec, tmp, fd>>
    BY <1>5 DEF SealToken, PutToken, ZeroToken, UnlinkToken
  <2>3. step[p] \in {"seal", "putseal", "zero", "untoken"}
    BY <1>5 DEF SealToken, PutToken, ZeroToken, UnlinkToken, At
  <2>4. fd[p] = "none"
    BY <1>2, <2>3 DEF StepOK
  <2>5. step'[p] \in {"reread", "rest", "done", "untoken", "unrecord"}
    BY <1>5, FinishFacts, ToFacts DEF SealToken, PutToken, ZeroToken, UnlinkToken
  <2>6. TokTorn'
    <3>1. CASE tok' = tok /\ ~At(p, "untoken")
      BY <2>1, <3>1, TokKeeps
    <3>2. CASE tok' # Torn
      BY <3>2 DEF TokTorn
    <3>3. CASE step'[p] = "untoken"
      BY <3>3 DEF TokTorn, At
    <3>4. ZeroToken(p) => \/ tok' = tok /\ ~At(p, "untoken")
                          \/ step'[p] = "untoken"
      BY ToFacts DEF ZeroToken, At
    <3>5. QED
      BY <1>2, <1>3, <1>5, <3>1, <3>2, <3>3, <3>4
         DEF SealToken, PutToken, UnlinkToken
  <2>7. QED
    BY <2>1, <2>2, <2>4, <2>5, <2>6, RecKeeps, TmpKeeps, TornParts
<1>6. ASSUME NEW p \in Procs, OpenTmp(p)
      PROVE  TornInv'
  <2>1. StoreStep(p) /\ At(p, "opentmp") /\ fd[p] = "none"
    BY <1>2, <1>6 DEF StoreStep, WriteToken, OpenTmp, StepOK, At
  <2>2. fd'[p] = "tmp" /\ \A q \in Procs \ {p} : fd'[q] = fd[q]
    BY <1>6 DEF OpenTmp, StoreTypeOK
  <2>3. TmpInv'
    BY <2>2 DEF TmpInv
  <2>4. rec' = rec /\ tok' = tok /\ ~At(p, "untoken")
    BY <1>6, <2>1 DEF OpenTmp, At
  <2>5. QED
    BY <2>1, <2>2, <2>3, <2>4, RecKeeps, TokKeeps, TornParts
<1>7. ASSUME NEW p \in Procs, FillTmp(p) \/ FillRecord(p)
      PROVE  TornInv'
  <2>1. PICK s \in {"publish", "putseal"} :
          /\ FillOpen(p, s)
          /\ s = "publish" => At(p, "filltmp")
          /\ s = "putseal" => At(p, "fill")
    BY <1>7 DEF FillTmp, FillRecord
  <2>2. s \in Steps
    BY StepsFacts
  <2>3. /\ fd'[p] = "none" /\ step'[p] = s
        /\ \A q \in Procs \ {p} : fd'[q] = fd[q]
        /\ IF fd[p] = "rec" THEN rec' = held[p] ELSE rec' = rec
        /\ IF fd[p] = "tmp" THEN tmp' = held[p] ELSE tmp' = tmp
    BY <2>1, <2>2, FillFacts
  <2>4. StoreStep(p) /\ tok' = tok
    BY <1>7 DEF StoreStep, WriteToken, Put, FillTmp, FillRecord
  <2>5. RecTorn'
    <3>1. CASE fd[p] = "rec"
      BY <1>2, <2>3, <3>1 DEF RecTorn
    <3>2. CASE fd[p] # "rec"
      BY <2>3, <2>4, <3>2, RecKeeps
    <3>3. QED
      BY <3>1, <3>2
  <2>6. TmpInv'
    <3>1. CASE fd[p] = "tmp"
      BY <1>2, <2>3, <3>1 DEF TmpInv
    <3>2. CASE fd[p] # "tmp"
      BY <2>1, <2>3, <2>4, <3>2, TmpKeeps DEF At
    <3>3. QED
      BY <3>1, <3>2
  <2>7. TokTorn'
    BY <2>1, <2>4, TokKeeps DEF At
  <2>8. QED
    BY <2>5, <2>6, <2>7, TornParts
<1>8. ASSUME NEW p \in Procs, PublishTmp(p)
      PROVE  TornInv'
  <2>1. StoreStep(p) /\ At(p, "publish") /\ fd[p] = "none" /\ pc[p] = "owner"
    BY <1>2, <1>8 DEF StoreStep, WriteToken, PublishTmp, StepOK, At, WriteSteps
  <2>2. step'[p] \in {"rest", "done"}
    BY <1>8, FinishFacts DEF PublishTmp
  <2>3. tok' = tok /\ ~At(p, "untoken")
    BY <1>8, <2>1 DEF PublishTmp, At
  <2>4. CASE UNCHANGED <<rec, tmp, fd>>
    BY <2>1, <2>2, <2>3, <2>4, RecKeeps, TokKeeps, TmpKeeps, TornParts
  <2>5. CASE rec' = tmp /\ tmp' = NoFile /\ fd' = MoveOpen(TRUE)
    <3>1. TmpInv'
      BY <1>3, <2>5 DEF TmpInv
    <3>2. RecTorn'
      <4>1. SUFFICES ASSUME tmp = Torn, "death" \notin overlaps'
                     PROVE  \E q \in Procs :
                              fd'[q] = "rec" /\ (Calm' => At(q, "fill")')
        BY <2>5 DEF RecTorn
      <4>2. "death" \notin overlaps /\ (Calm' => Calm)
        BY <2>1, <4>1, HistoryGrows DEF Calm
      <4>3. PICK q \in Procs : fd[q] = "tmp"
        BY <2>1, <4>1, <4>2 DEF TmpInv, At
      <4>4. fd'[q] = "rec"
        BY <2>5, <4>3, MoveFacts
      <4>5. pc[q] = "owner" /\ q # p
        BY <1>2, <2>1, <4>3 DEF StepOK, WriteSteps
      <4>6. ~Calm
        BY <2>1, <4>5, LockExcludes
           DEF Calm, FileSingleWriter, AlwaysInv, StoreTypeOK
      <4>7. QED
        BY <4>2, <4>4, <4>6
    <3>3. QED
      BY <2>1, <2>3, <3>1, <3>2, TokKeeps, TornParts
  <2>6. QED
    BY <1>8, <2>4, <2>5 DEF PublishTmp
<1>9. ASSUME NEW p \in Procs, OpenRecord(p)
      PROVE  TornInv'
  <2>1. StoreStep(p) /\ At(p, "open") /\ fd[p] = "none"
    BY <1>2, <1>9 DEF StoreStep, Put, OpenRecord, StepOK, At
  <2>2. /\ fd'[p] = "rec" /\ \A q \in Procs \ {p} : fd'[q] = fd[q]
        /\ step'[p] = "fill" /\ tmp' = tmp /\ tok' = tok
    BY <1>9, ToFacts DEF OpenRecord, StoreTypeOK
  <2>3. RecTorn'
    BY <2>2 DEF RecTorn, At
  <2>4. QED
    BY <2>1, <2>2, <2>3, TokKeeps, TmpKeeps, TornParts DEF At
<1>10. ASSUME NEW p \in Procs, UnlinkRecord(p)
       PROVE  TornInv'
  <2>1. StoreStep(p) /\ At(p, "unrecord") /\ fd[p] = "none"
    BY <1>2, <1>10 DEF StoreStep, Delete, UnlinkRecord, StepOK, At
  <2>2. \A q \in Procs : fd[q] = "tmp" => fd'[q] = "tmp"
    BY <1>10, MoveFacts DEF UnlinkRecord
  <2>3. step'[p] = "unlock" /\ tmp' = tmp /\ tok' = tok
    BY <1>10, ToFacts DEF UnlinkRecord
  <2>4. RecTorn'
    BY <1>3, <1>10 DEF UnlinkRecord, RecTorn
  <2>5. QED
    BY <2>1, <2>2, <2>3, <2>4, TokKeeps, TmpKeeps, TornParts DEF At
\* A death that nobody has to clean up after.
<1>11. ASSUME NEW p \in Procs, Crash(p)
       PROVE  TornInv'
  <2>1. StoreStep(p) /\ UNCHANGED files
    BY <1>11 DEF StoreStep, Crash
  <2>2. CASE "death" \in overlaps'
    BY <2>2, TornParts DEF TmpInv, RecTorn, TokTorn
  <2>3. CASE "death" \notin overlaps'
    <3>1. /\ ~Changing(p) /\ fd[p] # "rec"
          /\ fd[p] = "tmp" => \A q \in Procs \ {p} : step[q] \notin {"filltmp", "publish"}
      BY <1>11, <2>3 DEF Crash, NoteOverlap, Others
    <3>2. /\ \A q \in Procs \ {p} : fd'[q] = fd[q]
          /\ step'[p] = "rest"
      BY <1>11, ToFacts DEF Crash, StoreTypeOK
    <3>3. TmpInv'
      <4>1. CASE fd[p] = "tmp"
        BY <2>1, <3>1, <3>2, <4>1, StepStays DEF TmpInv
      <4>2. CASE fd[p] # "tmp"
        BY <2>1, <3>2, <4>2, TmpKeeps
      <4>3. QED
        BY <4>1, <4>2
    <3>4. ~At(p, "untoken")
      BY <3>1 DEF Changing, DeleteSteps, At
    <3>5. QED
      BY <2>1, <3>1, <3>2, <3>3, <3>4, RecKeeps, TokKeeps, TornParts
  <2>4. QED
    BY <2>2, <2>3
<1>12. CASE Clock \/ UNCHANGED <<vars, fvars>>
  <2>1. UNCHANGED fvars /\ (Calm' => Calm)
    BY <1>12 DEF Clock, Tick, vars, bounds, Calm
  <2>2. QED
    BY <2>1, TornParts DEF fvars, TmpInv, RecTorn, TokTorn, At
<1>13. QED
  BY <1>4, <1>5, <1>6, <1>7, <1>8, <1>9, <1>10, <1>11, <1>12
     DEF StoreNext, WriteToken, Put, Delete

-----------------------------------------------------------------------------
(* The store: settled files agree. *)

\* The four parts of SettledInv.
Alone == \A p, q \in Procs : Changing(p) /\ (Changing(q) \/ Writing(q)) => p = q

ChangeOK(p) ==
  /\ At(p, "fill") => fd[p] = "rec"
  /\ At(p, "putseal") => rec = held[p]
  /\ At(p, "untoken") => tok = Torn
  /\ At(p, "unrecord") => tok = NoFile
  /\ At(p, "unlock") => rec = NoFile /\ tok = NoFile

FilesOK ==
  (\A p \in Procs : ~Changing(p)) => rec \in {meant, Torn} /\ tok = meant

WriteOK(p) ==
  /\ step[p] \in {"seal", "opentmp", "filltmp"} => held[p] = meant
  /\ step[p] \in {"filltmp", "publish"} => tmp \in {meant, Torn, NoFile}

LEMMA SettledParts ==
  /\ SettledInv <=> (overlaps = {} =>
                       /\ Alone /\ FilesOK
                       /\ \A p \in Procs : ChangeOK(p) /\ WriteOK(p))
  /\ SettledInv' <=> (overlaps' = {} =>
                       /\ Alone' /\ FilesOK'
                       /\ \A p \in Procs : ChangeOK(p)' /\ WriteOK(p)')
  BY DEF SettledInv, Alone, FilesOK, ChangeOK, WriteOK

\* A change or a refresh that starts while it overlaps nothing is alone.
LEMMA AloneStep ==
  ASSUME StoreTypeOK, StepInv, Alone, NEW p \in Procs, StoreStep(p),
         overlaps' = {}
  PROVE  Alone'
<1>1. \A q \in Procs \ {p} :
        (Changing(q)' <=> Changing(q)) /\ (Writing(q)' <=> Writing(q))
  BY PcStays, StepStays DEF Changing, Writing
<1>2. StepOK(p) /\ TypeOK
  BY DEF StepInv, StoreTypeOK
<1>3. ASSUME Changing(p)', ~Changing(p)
      PROVE  \A q \in Procs \ {p} : ~Changing(q) /\ ~Writing(q)
  <2>1. StartPut(p) \/ StartDelete(p)
    <3>1. CASE Finish(p)
      BY <1>3, <3>1, FinishFacts DEF Changing, PutSteps, DeleteSteps
    <3>2. CASE \E s \in {"exists", "record", "tokexists", "token", "seal",
                         "got", "reread", "opentmp", "filltmp", "publish",
                         "rest", "asking"} : To(p, s)
      BY <1>3, <3>2, ToFacts DEF Changing, PutSteps, DeleteSteps
    <3>3. CASE step' = step
      BY <1>3, <3>3 DEF Changing
    <3>4. Get(p) => \/ Finish(p)
                    \/ \E s \in {"exists", "record", "tokexists", "token",
                                 "seal", "got"} : To(p, s)
      BY DEF Get, StartGet, RecordExists, ReadRecord, TokenExists, ReadToken,
             Return
    <3>5. WriteToken(p) => \/ Finish(p)
                           \/ \E s \in {"reread", "opentmp", "filltmp",
                                        "publish"} : To(p, s)
      BY DEF WriteToken, SealToken, RereadRecord, OpenTmp, FillTmp, FillOpen,
             PublishTmp
    <3>6. AskLease(p) \/ Acquire(p) \/ Release(p) \/ Crash(p)
            => step' = step \/ \E s \in {"rest", "exists", "asking"} : To(p, s)
      BY DEF AskLease, Acquire, Release, Crash
    <3>7. OpenRecord(p) \/ FillRecord(p) \/ PutToken(p) \/ ZeroToken(p)
          \/ UnlinkToken(p) \/ UnlinkRecord(p) \/ UnlinkLock(p) => Changing(p)
      BY DEF OpenRecord, FillRecord, PutToken, ZeroToken, UnlinkToken,
             UnlinkRecord, UnlinkLock, Changing, PutSteps, DeleteSteps, At
    <3>8. QED
      BY <1>3, <3>1, <3>2, <3>3, <3>4, <3>5, <3>6, <3>7
         DEF StoreStep, Put, Delete
  <2>2. ChangeOverlaps(p) = {}
    BY <2>1 DEF StartPut, StartDelete, NoteOverlap
  <2>3. "change" \notin ChangeOverlaps(p) /\ "write" \notin ChangeOverlaps(p)
    BY <2>2
  <2>4. QED
    BY <2>3 DEF ChangeOverlaps, Others
<1>4. ASSUME Writing(p)', ~Writing(p)
      PROVE  \A q \in Procs \ {p} : ~Changing(q)
  <2>1. pc'[p] = "owner" /\ step'[p] \in GetSteps \cup WriteSteps
    BY <1>4 DEF Writing
  <2>2. CASE UNCHANGED vars
    <3>1. pc[p] = "owner" /\ step[p] \notin GetSteps \cup WriteSteps
      BY <1>4, <2>1, <2>2 DEF vars, Writing
    <3>2. At(p, "done")
      BY <1>2, <3>1 DEF StepOK, Steps, StoreTypeOK, At
    <3>3. Release(p) \/ Crash(p)
      BY <3>2
         DEF StoreStep, Get, StartGet, RecordExists, ReadRecord, TokenExists,
             ReadToken, Return, WriteToken, SealToken, RereadRecord, OpenTmp,
             FillTmp, PublishTmp, Put, StartPut, OpenRecord, FillRecord,
             PutToken, Delete, StartDelete, ZeroToken, UnlinkToken,
             UnlinkRecord, UnlinkLock, At, AskLease, Acquire
    <3>4. ~Release(p)
      BY <1>2, <2>1, OwnMoves DEF Release, Leaves
    <3>5. ~Crash(p)
      BY <2>1, ToFacts DEF Crash, GetSteps, WriteSteps
    <3>6. QED
      BY <3>3, <3>4, <3>5
  <2>3. CASE ~UNCHANGED vars
    <3>1. \/ UnlinkLock(p) \/ AskLease(p) \/ Acquire(p) \/ Release(p) \/ Crash(p)
      BY <2>3 DEF StoreStep, Get, StartGet, RecordExists, ReadRecord,
         TokenExists, ReadToken, Return, WriteToken, SealToken, RereadRecord,
         OpenTmp, FillTmp, PublishTmp, Put, StartPut, OpenRecord, FillRecord,
         PutToken, Delete, StartDelete, ZeroToken, UnlinkToken, UnlinkRecord
    <3>2. ~UnlinkLock(p) /\ ~AskLease(p) /\ ~Crash(p)
      BY <2>1, ToFacts DEF UnlinkLock, AskLease, Crash, GetSteps, WriteSteps
    <3>3. ~Release(p)
      BY <1>2, <2>1, OwnMoves DEF Release, Leaves
    <3>4. Acquire(p)
      BY <3>1, <3>2, <3>3
    <3>5. NoteOverlap({o \in {"write"} : \E q \in Others(p) : Changing(q)})
      BY <2>1, <3>4 DEF Acquire
    <3>6. "write" \notin {o \in {"write"} : \E q \in Others(p) : Changing(q)}
      BY <3>5 DEF NoteOverlap
    <3>7. QED
      BY <3>6 DEF Others
  <2>4. QED
    BY <2>2, <2>3
<1>5. QED
  BY <1>1, <1>3, <1>4 DEF Alone

\* A process without a change or the lease in hand touches no file.
LEMMA IdleKeeps ==
  ASSUME StoreTypeOK, StepInv, FilesOK, NEW p \in Procs, StoreStep(p),
         ~Changing(p), ~Writing(p),
         \A q \in Procs : ChangeOK(q) /\ WriteOK(q)
  PROVE  /\ FilesOK'
         /\ \A q \in Procs : ChangeOK(q)' /\ WriteOK(q)'
<1>1. StepOK(p) /\ TypeOK /\ step[p] \in Steps
  BY DEF StepInv, StoreTypeOK
<1>2. step[p] \notin PutSteps \cup DeleteSteps \cup WriteSteps
      /\ (step[p] \in GetSteps => pc[p] = "idle")
  BY <1>1 DEF StepOK, Changing, Writing
<1>3. \/ Get(p) \/ StartPut(p) \/ StartDelete(p)
      \/ AskLease(p) \/ Acquire(p) \/ Release(p) \/ Crash(p)
  BY <1>2 DEF StoreStep, WriteToken, SealToken, RereadRecord, OpenTmp,
     FillTmp, PublishTmp, Put, OpenRecord, FillRecord, PutToken, Delete,
     ZeroToken, UnlinkToken, UnlinkRecord, UnlinkLock, At, PutSteps,
     DeleteSteps, WriteSteps
<1>4. UNCHANGED <<rec, tok, tmp, meant>>
  BY <1>3 DEF Get, StartGet, RecordExists, ReadRecord, TokenExists, ReadToken,
     Return, StartPut, StartDelete, AskLease, Acquire, Release, Crash, files,
     hist
<1>5. \A q \in Procs \ {p} : fd'[q] = fd[q]
  BY <1>3 DEF Get, StartGet, RecordExists, ReadRecord, TokenExists, ReadToken,
     Return, StartPut, StartDelete, AskLease, Acquire, Release, Crash,
     StoreTypeOK
<1>6. \A q \in Procs \ {p} : step'[q] = step[q] /\ held'[q] = held[q]
  BY StepStays
<1>7. step'[p] \notin {"fill", "putseal", "untoken", "unrecord", "unlock",
                       "seal", "opentmp", "filltmp", "publish"}
  <2>1. CASE Finish(p)
    BY <2>1, FinishFacts
  <2>2. CASE step' = step
    BY <1>2, <2>2 DEF WriteSteps, PutSteps, DeleteSteps
  <2>3. CASE \E s \in {"exists", "record", "tokexists", "token", "got",
                       "open", "zero", "rest", "asking"} : To(p, s)
    BY <2>3, ToFacts
  <2>4. ReadToken(p) => Finish(p) \/ To(p, "got")
    BY <1>2 DEF ReadToken, GetSteps, At
  <2>5. QED
    BY <1>3, <2>1, <2>2, <2>3, <2>4
       DEF Get, StartGet, RecordExists, ReadRecord, TokenExists, Return,
           StartPut, StartDelete, AskLease, Acquire, Release, Crash
<1>8. \A q \in Procs : ~Changing(q)' => ~Changing(q)
  BY <1>6 DEF Changing
<1>9. FilesOK'
  BY <1>4, <1>8 DEF FilesOK
<1>10. ASSUME NEW q \in Procs
       PROVE  ChangeOK(q)' /\ WriteOK(q)'
  <2>1. CASE q = p
    BY <1>7, <2>1 DEF ChangeOK, WriteOK, At
  <2>2. CASE q # p
    BY <1>4, <1>5, <1>6, <2>2 DEF ChangeOK, WriteOK, At
  <2>3. QED
    BY <2>1, <2>2
<1>11. QED
  BY <1>9, <1>10

\* A refresh writes what it found, and it found what was meant.
LEMMA RefreshKeeps ==
  ASSUME StoreTypeOK, StepInv, FilesOK, NEW p \in Procs, StoreStep(p),
         Writing(p), \A q \in Procs : ~Changing(q),
         \A q \in Procs : WriteOK(q)
  PROVE  /\ FilesOK'
         /\ \A q \in Procs : ChangeOK(q)' /\ WriteOK(q)'
<1>1. /\ StepOK(p) /\ TypeOK /\ held[p] # Torn
      /\ pc[p] = "owner" /\ step[p] \in GetSteps \cup WriteSteps
      /\ rec \in {meant, Torn} /\ tok = meant
      /\ step[p] \in {"seal", "opentmp", "filltmp"} => held[p] = meant
      /\ step[p] \in {"filltmp", "publish"} => tmp \in {meant, Torn, NoFile}
  BY FilesFacts DEF StepInv, StoreTypeOK, Writing, FilesOK, WriteOK
<1>2. Get(p) \/ WriteToken(p) \/ Crash(p)
  BY <1>1 DEF StoreStep, Put, StartPut, OpenRecord, FillRecord, PutToken,
     Delete, StartDelete, ZeroToken, UnlinkToken, UnlinkRecord, UnlinkLock,
     AskLease, Acquire, Release, At, GetSteps, WriteSteps
<1>3. \A q \in Procs \ {p} : step'[q] = step[q] /\ held'[q] = held[q]
  BY StepStays
<1>4. meant' = meant
  BY <1>2 DEF Get, StartGet, RecordExists, ReadRecord, TokenExists, ReadToken,
     Return, WriteToken, SealToken, RereadRecord, OpenTmp, FillTmp,
     PublishTmp, Crash, hist
<1>5. ASSUME ~Changing(p)', rec' \in {meant, Torn}, tok' = meant,
             tmp' \in {tmp, meant, Torn, NoFile}, WriteOK(p)'
      PROVE  /\ FilesOK'
             /\ \A q \in Procs : ChangeOK(q)' /\ WriteOK(q)'
  <2>1. \A q \in Procs : ~Changing(q)'
    BY <1>3, <1>5 DEF Changing
  <2>2. \A q \in Procs : ChangeOK(q)'
    BY <2>1 DEF ChangeOK, Changing, At, PutSteps, DeleteSteps
  <2>3. \A q \in Procs \ {p} : WriteOK(q)'
    BY <1>3, <1>4, <1>5 DEF WriteOK
  <2>4. QED
    BY <1>4, <1>5, <2>1, <2>2, <2>3 DEF FilesOK
<1> USE DEF files, hist
<1>6. CASE Get(p) \/ RereadRecord(p) \/ Crash(p)
  <2>1. UNCHANGED <<rec, tok, tmp, meant>>
    BY <1>6 DEF Get, StartGet, RecordExists, ReadRecord, TokenExists,
       ReadToken, Return, RereadRecord, Crash
  <2>2. CASE Finish(p) \/ Crash(p)
    <3>1. step'[p] \in {"rest", "done"}
      BY <2>2, FinishFacts, ToFacts DEF Crash
    <3>2. QED
      BY <1>1, <1>5, <2>1, <3>1
         DEF WriteOK, Changing, PutSteps, DeleteSteps
  <2>3. CASE \E s \in {"exists", "record", "tokexists", "token", "got"} : To(p, s)
    <3>1. step'[p] \in {"exists", "record", "tokexists", "token", "got"}
      BY <2>3, ToFacts
    <3>2. QED
      BY <1>1, <1>5, <2>1, <3>1
         DEF WriteOK, Changing, PutSteps, DeleteSteps
  <2>4. CASE ReadToken(p) /\ ~Finish(p)
    <3>1. To(p, "seal") /\ held' = [held EXCEPT ![p] = tok]
      BY <1>1, <2>4 DEF ReadToken
    <3>2. step'[p] = "seal" /\ held'[p] = meant
      BY <1>1, <3>1, ToFacts DEF StoreTypeOK
    <3>3. QED
      BY <1>1, <1>4, <1>5, <2>1, <3>2
         DEF WriteOK, Changing, PutSteps, DeleteSteps
  <2>5. CASE RereadRecord(p) /\ ~Finish(p)
    <3>1. Whole(rec) /\ To(p, "opentmp") /\ held' = [held EXCEPT ![p] = rec]
      BY <2>5 DEF RereadRecord
    <3>2. step'[p] = "opentmp" /\ held'[p] = meant
      BY <1>1, <3>1, ToFacts DEF StoreTypeOK, Whole
    <3>3. QED
      BY <1>1, <1>4, <1>5, <2>1, <3>2
         DEF WriteOK, Changing, PutSteps, DeleteSteps
  <2>6. QED
    BY <1>6, <2>2, <2>3, <2>4, <2>5
       DEF Get, StartGet, RecordExists, ReadRecord, TokenExists, Return
<1>7. CASE SealToken(p)
  <2>1. step'[p] = "reread" /\ tok' = meant /\ UNCHANGED <<rec, tmp>>
    BY <1>1, <1>7, ToFacts DEF SealToken, At
  <2>2. QED
    BY <1>1, <1>5, <2>1 DEF WriteOK, Changing, PutSteps, DeleteSteps
<1>8. CASE OpenTmp(p)
  <2>1. /\ step'[p] = "filltmp" /\ tmp' = Torn /\ UNCHANGED <<rec, tok>>
        /\ held'[p] = meant
    BY <1>1, <1>8, ToFacts DEF OpenTmp, At
  <2>2. QED
    BY <1>1, <1>4, <1>5, <2>1 DEF WriteOK, Changing, PutSteps, DeleteSteps
<1>9. CASE FillTmp(p)
  <2>1. "publish" \in Steps
    BY StepsFacts
  <2>2. /\ At(p, "filltmp") /\ step'[p] = "publish" /\ tok' = tok
        /\ rec' \in {held[p], rec} /\ tmp' \in {held[p], tmp}
    BY <1>9, <2>1, FillFacts DEF FillTmp
  <2>3. QED
    BY <1>1, <1>4, <1>5, <2>2 DEF WriteOK, Changing, PutSteps, DeleteSteps, At
<1>10. CASE PublishTmp(p)
  <2>1. /\ At(p, "publish") /\ step'[p] \in {"rest", "done"} /\ tok' = tok
        /\ \/ tmp # NoFile /\ rec' = tmp /\ tmp' = NoFile
           \/ UNCHANGED <<rec, tmp>>
    BY <1>10, FinishFacts DEF PublishTmp
  <2>2. QED
    BY <1>1, <1>5, <2>1 DEF WriteOK, Changing, PutSteps, DeleteSteps, At
<1>11. QED
  BY <1>2, <1>6, <1>7, <1>8, <1>9, <1>10 DEF WriteToken

\* A change that is alone does what it says.
LEMMA ChangeKeeps ==
  ASSUME StoreTypeOK, StepInv, NEW p \in Procs, StoreStep(p),
         Changing(p), overlaps' = {}, ChangeOK(p),
         \A q \in Procs \ {p} : ~Changing(q) /\ ~Writing(q)
  PROVE  /\ FilesOK'
         /\ \A q \in Procs : ChangeOK(q)' /\ WriteOK(q)'
<1>1. StepOK(p) /\ TypeOK /\ pc[p] = "idle" /\ step[p] \in PutSteps \cup DeleteSteps
  BY DEF StepInv, StoreTypeOK, StepOK, Changing
<1>2. \/ OpenRecord(p) \/ FillRecord(p) \/ PutToken(p)
      \/ ZeroToken(p) \/ UnlinkToken(p) \/ UnlinkRecord(p) \/ UnlinkLock(p)
  <2>1. ~Crash(p)
    BY DEF Crash, NoteOverlap
  <2>2. QED
    BY <1>1, <2>1
       DEF StoreStep, Get, StartGet, RecordExists, ReadRecord, TokenExists,
           ReadToken, Return, WriteToken, SealToken, RereadRecord, OpenTmp,
           FillTmp, PublishTmp, Put, StartPut, Delete, StartDelete, AskLease,
           Acquire, Release, At, PutSteps, DeleteSteps
<1>3. \A q \in Procs \ {p} : step'[q] = step[q] /\ StepOK(q)
  BY StepStays DEF StepInv
<1>4. ASSUME ChangeOK(p)', Changing(p)' \/ (rec' = meant' /\ tok' = meant'),
             step'[p] \notin WriteSteps
      PROVE  /\ FilesOK'
             /\ \A q \in Procs : ChangeOK(q)' /\ WriteOK(q)'
  <2>1. \A q \in Procs \ {p} : ChangeOK(q)'
    BY <1>3 DEF Changing, ChangeOK, At, PutSteps, DeleteSteps
  <2>2. \A q \in Procs \ {p} : WriteOK(q)'
    BY <1>3 DEF Writing, WriteOK, StepOK, WriteSteps
  <2>3. WriteOK(p)'
    BY <1>4 DEF WriteOK, WriteSteps
  <2>4. QED
    BY <1>4, <2>1, <2>2, <2>3 DEF FilesOK
<1> USE DEF files, hist, Changing, ChangeOK, At, PutSteps, DeleteSteps, WriteSteps
<1>5. CASE OpenRecord(p)
  <2>1. step'[p] = "fill" /\ fd'[p] = "rec"
    BY <1>5, ToFacts DEF OpenRecord, StoreTypeOK
  <2>2. QED
    BY <1>4, <2>1
<1>6. CASE FillRecord(p)
  <2>1. "putseal" \in Steps
    BY StepsFacts
  <2>2. step'[p] = "putseal" /\ rec' = held[p] /\ held' = held
    BY <1>6, <2>1, FillFacts DEF FillRecord
  <2>3. QED
    BY <1>4, <2>2
<1>7. CASE PutToken(p)
  <2>1. step'[p] = "rest" /\ rec' = meant' /\ tok' = meant'
    BY <1>1, <1>7, FinishFacts DEF PutToken
  <2>2. QED
    BY <1>4, <2>1
<1>8. CASE ZeroToken(p)
  <2>1. \/ step'[p] = "untoken" /\ tok' = Torn
        \/ step'[p] = "unrecord" /\ tok' = NoFile
    BY <1>8, ToFacts DEF ZeroToken
  <2>2. QED
    BY <1>4, <2>1
<1>9. CASE UnlinkToken(p)
  <2>1. step'[p] = "unrecord" /\ tok' = NoFile
    BY <1>9, ToFacts, FilesFacts DEF UnlinkToken
  <2>2. QED
    BY <1>4, <2>1
<1>10. CASE UnlinkRecord(p)
  <2>1. step'[p] = "unlock" /\ rec' = NoFile /\ tok' = NoFile
    BY <1>10, ToFacts DEF UnlinkRecord
  <2>2. QED
    BY <1>4, <2>1
<1>11. CASE UnlinkLock(p)
  <2>1. step'[p] = "rest" /\ rec' = meant' /\ tok' = meant'
    BY <1>11, ToFacts DEF UnlinkLock
  <2>2. QED
    BY <1>4, <2>1
<1>12. QED
  BY <1>2, <1>5, <1>6, <1>7, <1>8, <1>9, <1>10, <1>11

LEMMA SettledStep ==
  StoreTypeOK /\ StepInv /\ SettledInv /\ [StoreNext]_<<vars, fvars>>
    => SettledInv'
<1> SUFFICES ASSUME StoreTypeOK, StepInv, SettledInv, overlaps' = {},
                    [StoreNext]_<<vars, fvars>>
             PROVE  SettledInv'
  BY DEF SettledInv
<1>1. ASSUME NEW p \in Procs, StoreStep(p)
      PROVE  SettledInv'
  <2>1. overlaps = {}
    BY <1>1, HistoryGrows
  <2>2. /\ Alone /\ FilesOK
        /\ \A q \in Procs : ChangeOK(q) /\ WriteOK(q)
    BY <2>1, SettledParts
  <2>3. Alone'
    BY <1>1, <2>2, AloneStep
  <2>4. /\ FilesOK'
        /\ \A q \in Procs : ChangeOK(q)' /\ WriteOK(q)'
    <3>1. CASE Changing(p)
      BY <1>1, <2>2, <3>1, ChangeKeeps DEF Alone
    <3>2. CASE Writing(p) /\ ~Changing(p)
      BY <1>1, <2>2, <3>2, RefreshKeeps DEF Alone
    <3>3. CASE ~Writing(p) /\ ~Changing(p)
      BY <1>1, <2>2, <3>3, IdleKeeps
    <3>4. QED
      BY <3>1, <3>2, <3>3
  <2>5. QED
    BY <2>3, <2>4, SettledParts
<1>2. CASE Clock \/ UNCHANGED <<vars, fvars>>
  <2>1. UNCHANGED <<pc, fvars>>
    BY <1>2 DEF Clock, Tick, vars
  <2>2. QED
    BY <2>1 DEF fvars, SettledInv, Changing, Writing, At
<1>3. QED
  BY <1>1, <1>2 DEF StoreNext, StoreStep

-----------------------------------------------------------------------------
(* The theorems. *)

\* The lock, the three files and what the processes hold of them keep their
\* types: a file is absent, torn, or one whole put (write_text, os.replace).
THEOREM StoreTypeCorrect == StoreSpec => []StoreTypeOK
<1>1. StoreInit => StoreTypeOK
  <2>1. SUFFICES ASSUME StoreInit
                 PROVE  StoreTypeOK
    OBVIOUS
  <2>2. TypeOK
    <3>1. "idle" \in Labels
      BY DEF Labels
    <3>2. QED
      BY <2>1, <3>1 DEF StoreInit, Init, TypeOK, LeaseRows
  <2>3. /\ step \in [Procs -> Steps] /\ held \in [Procs -> 0..MaxPuts]
        /\ fd \in [Procs -> {"none", "rec", "tmp", "gone"}]
    BY <2>1, FilesFacts, StepsFacts DEF StoreInit
  <2>4. QED
    BY <2>1, <2>2, <2>3, FilesFacts, StoreConstantsOK
       DEF StoreInit, StoreTypeOK, NoFile
<1>2. QED
  BY <1>1, StoreTypeStep, PTL DEF StoreSpec

\* As long as nobody was late, nobody raced for one expired lock and no
\* deletion fell into a steal: owners are in time, the lock names the owner,
\* and a stealer is alone with the lock it found (_acquire_lease_sync).
THEOREM LockInvariant == StoreSpec => [](AlwaysInv /\ LockInv)
<1>1. StoreInit => AlwaysInv /\ LockInv
  BY DEF StoreInit, Init, AlwaysInv, LockInv, Owns, Stealing
<1>2. /\ StoreTypeOK /\ AlwaysInv /\ LockInv /\ [StoreNext]_<<vars, fvars>>
      => (AlwaysInv /\ LockInv)'
  BY StoreIsLease, AlwaysStep, LockStep DEF StoreTypeOK
<1>3. QED
  BY <1>1, <1>2, StoreTypeCorrect, PTL DEF StoreSpec

\* Under the same premises at most one process is past acquire_lease with a
\* lease that was not deleted (the point of the lock file, local_file.py).
THEOREM FileExclusion == StoreSpec => []FileSingleWriter
<1>1. StoreTypeOK /\ AlwaysInv /\ LockInv => FileSingleWriter
  BY LockExcludes DEF StoreTypeOK
<1>2. QED
  BY <1>1, LockInvariant, StoreTypeCorrect, PTL

\* Under the same premises the six system calls on the lock file are the
\* atomic lease of LeaseService: every call is a step of it or invisible.
THEOREM FileRefinement == StoreSpec => ImplementsLease
<1>1. StoreInit => Service!Init
  BY DEF StoreInit, Init, Service!Init, Owns
<1>2. StoreTypeOK /\ AlwaysInv /\ LockInv /\ [StoreNext]_<<vars, fvars>>
      => [faults' = {} => [Service!Next]_(Service!svars)]_vars
  BY StoreIsLease, LeaseRefines DEF StoreTypeOK
<1>3. QED
  BY <1>1, <1>2, StoreTypeCorrect, LockInvariant, PTL
     DEF StoreSpec, ImplementsLease

\* A process calls write_token only as the owner of the lock, and changes a
\* connection only without it; a file is open only between its two calls.
THEOREM StepInvariant == StoreSpec => []StepInv
<1>1. StoreInit => StepInv
  BY DEF StoreInit, Init, StepInv, StepOK, GetSteps, WriteSteps, PutSteps,
         DeleteSteps
<1>2. QED
  BY <1>1, StepStep, StoreTypeCorrect, PTL DEF StoreSpec

\* A record that cannot be parsed is being written by put_connection, or its
\* writer died; a token that cannot be opened is about to be unlinked.
THEOREM TornWriter == StoreSpec => []TornHasWriter
<1>1. StoreInit => TornInv
  BY FilesFacts DEF StoreInit, TornInv, TmpInv, TornHasWriter
<1>2. TornInv => TornHasWriter
  BY DEF TornInv
<1>3. QED
  BY <1>1, <1>2, TornStep, StoreTypeCorrect, StepInvariant, LockInvariant, PTL
     DEF StoreSpec

\* As long as no put or delete overlapped another or a refresh, or died, what
\* each call has done so far is what it meant, and the files are otherwise
\* those of the last change.
THEOREM SettledInvariant == StoreSpec => []SettledInv
<1>1. StoreInit => SettledInv
  BY DEF StoreInit, Init, SettledInv, Changing, Writing, At, PutSteps,
         DeleteSteps
<1>2. QED
  BY <1>1, SettledStep, StoreTypeCorrect, StepInvariant, PTL DEF StoreSpec

\* Between calls record and token agree with the last completed put or delete,
\* even after two owners shared the temporary file of write_token.
THEOREM SettledFiles == StoreSpec => []SettledStore
<1>1. StoreTypeOK /\ StepInv /\ TornHasWriter /\ SettledInv => SettledStore
  <2>1. SUFFICES ASSUME StoreTypeOK, StepInv, TornHasWriter, SettledInv,
                        Settled, overlaps = {}
                 PROVE  rec = meant /\ tok = meant
    BY DEF SettledStore
  <2>2. rec \in {meant, Torn} /\ tok = meant
    BY <2>1 DEF SettledInv, Settled
  <2>3. ASSUME NEW p \in Procs
        PROVE  fd[p] = "none"
    BY <2>1 DEF StepInv, StepOK, Settled, Changing, Writing, PutSteps,
                WriteSteps
  <2>4. rec # Torn
    BY <2>1, <2>3 DEF TornHasWriter
  <2>5. QED
    BY <2>2, <2>4
<1>2. QED
  BY <1>1, StoreTypeCorrect, StepInvariant, TornWriter, SettledInvariant, PTL

=============================================================================
