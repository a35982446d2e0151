------------------------- MODULE VaultRefreshProofs -------------------------
(***************************************************************************)
(* Proofs about VaultRefresh, for every set of callers, a fine or a coarse *)
(* clock, and every value of the timing constants: the types, the refresh  *)
(* under the lease, and that the lease row implements LeaseService.        *)
(***************************************************************************)
EXTENDS VaultRefresh, TLAPS

\* acquire_lease answers TRUE on the row of an owner only once that row has
\* run out at the instant the new caller read.
LEMMA TakesRunOut ==
  ASSUME TypeOK, NEW c \in Callers, lease = Leased(holder[c], until[c]),
         NEW t \in Nat, Takes(lease, t)
  PROVE  until[c] <= t
<1>1. lease # NoLease
  BY NoLeaseIsNoRow DEF TypeOK, LocalsOK, Leased
<1>2. lease.until = until[c]
  BY DEF Leased
<1>3. QED
  BY <1>1, <1>2 DEF Takes

\* A call that ends leaves its locals well typed.
LEMMA LeaveTyped ==
  ASSUME LocalsOK, NEW c \in Callers, Leave(c)
  PROVE  LocalsOK'
  BY DEF LocalsOK, Leave, Labels

\* Every reachable state is well typed.
THEOREM TypeCorrect == Spec => []TypeOK
<1> USE ConstantsOK
<1>1. Init => TypeOK
  BY DEF Init, TypeOK, SharedOK, LocalsOK, LeaseRows, Tokens, Labels, Faults
<1>2. ASSUME TypeOK, [Next]_vars
      PROVE  TypeOK'
  <2> USE <1>2 DEF TypeOK, SharedOK, LocalsOK, environment, locals, Goto,
                   LeaseRows, Tokens, Labels, Faults
  <2>1. ASSUME NEW c \in Callers, Begin(c)
        PROVE  TypeOK'
    BY <2>1 DEF Begin
  <2>2. ASSUME NEW c \in Callers, Check(c)
        PROVE  TypeOK'
    <3>1. CASE Leave(c)
      BY <2>2, <3>1, LeaveTyped DEF Check
    <3>2. CASE ~Leave(c)
      <4>1. HolderId(c, now) \in Nat \X ({NoLease} \cup Callers)
        BY DEF HolderId
      <4>2. /\ pc' = [pc EXCEPT ![c] = "clock"]
            /\ holder' = [holder EXCEPT ![c] = HolderId(c, now)]
            /\ seen' = [seen EXCEPT ![c] = NoConn]
            /\ UNCHANGED <<environment, conn, lease, faults, tnow, until,
                           fresh, waited, born>>
        BY <2>2, <3>2 DEF Check
      <4>3. QED
        BY <4>1, <4>2
    <3>3. QED
      BY <3>1, <3>2
  <2>3. ASSUME NEW c \in Callers, ReadClock(c)
        PROVE  TypeOK'
    BY <2>3 DEF ReadClock
  <2>4. ASSUME NEW c \in Callers, Acquire(c)
        PROVE  TypeOK'
    BY <2>4 DEF Acquire, Leased
  <2>5. ASSUME NEW c \in Callers, Refused(c)
        PROVE  TypeOK'
    BY <2>5 DEF Refused
  <2>6. ASSUME NEW c \in Callers, Reread(c)
        PROVE  TypeOK'
    BY <2>6 DEF Reread
  <2>7. ASSUME NEW c \in Callers, Recheck(c)
        PROVE  TypeOK'
    BY <2>7 DEF Recheck
  <2>8. ASSUME NEW c \in Callers, Rotate(c)
        PROVE  TypeOK'
    <3>1. issued + 1 \in Nat /\ 1..issued \subseteq 1..(issued + 1)
                            /\ issued + 1 \in 1..(issued + 1)
      OBVIOUS
    <3>2. [rt |-> issued + 1, exp |-> tnow[c] + Lifetime] \in Tokens
      OBVIOUS
    <3>3. QED
      BY <2>8, <3>1, <3>2 DEF Rotate
  <2>9. ASSUME NEW c \in Callers, RefreshFails(c)
        PROVE  TypeOK'
    BY <2>9 DEF RefreshFails
  <2>10. ASSUME NEW c \in Callers, LoseReply(c)
         PROVE  TypeOK'
    BY <2>10 DEF LoseReply
  <2>11. ASSUME NEW c \in Callers, WriteToken(c)
         PROVE  TypeOK'
    BY <2>11 DEF WriteToken
  <2>12. ASSUME NEW c \in Callers, Release(c)
         PROVE  TypeOK'
    BY <2>12, LeaveTyped DEF Release, AfterRelease
  <2>13. ASSUME NEW c \in Callers, Poll(c)
         PROVE  TypeOK'
    <3>1. CASE Leave(c)
      BY <2>13, <3>1, LeaveTyped DEF Poll
    <3>2. CASE ~Leave(c)
      <4>1. /\ seen' = [seen EXCEPT ![c] = conn]
            /\ waited' = [waited EXCEPT ![c] = @ + 1]
        BY <2>13, <3>2 DEF Poll
      <4>2. seen' \in [Callers -> {NoConn} \cup Tokens]
        BY <4>1
      <4>3. waited' \in [Callers -> Nat]
        BY <4>1
      <4>4. QED
        BY <2>13, <3>2, <4>2, <4>3 DEF Poll
    <3>3. QED
      BY <3>1, <3>2
  <2>14. ASSUME NEW c \in Callers, PollCheck(c)
         PROVE  TypeOK'
    <3>1. CASE Leave(c)
      BY <2>14, <3>1, LeaveTyped DEF PollCheck
    <3>2. CASE ~Leave(c)
      <4>1. /\ pc' = [pc EXCEPT ![c] = "pollheld"]
            /\ tnow' = [tnow EXCEPT ![c] = now]
        BY <2>14, <3>2 DEF PollCheck
      <4>2. QED
        BY <2>14, <3>2, <4>1 DEF PollCheck
    <3>3. QED
      BY <3>1, <3>2
  <2>15. ASSUME NEW c \in Callers, PollHeld(c)
         PROVE  TypeOK'
    <3>1. CASE Leave(c)
      BY <2>15, <3>1, LeaveTyped DEF PollHeld
    <3>2. CASE ~Leave(c)
      BY <2>15, <3>2 DEF PollHeld
    <3>3. QED
      BY <3>1, <3>2
  <2>16. ASSUME NEW c \in Callers, Die(c)
         PROVE  TypeOK'
    BY <2>16, LeaveTyped DEF Die
  <2>17. CASE Tick
    BY <2>17 DEF Tick
  <2>18. ASSUME NEW exp \in {now, now + Lifetime}, Reconnect(exp)
         PROVE  TypeOK'
    BY <2>18 DEF Reconnect
  <2>19. CASE Revoke
    BY <2>19 DEF Revoke
  <2>20. CASE UNCHANGED vars
    BY <2>20 DEF vars
  <2>21. QED
    BY <2>1, <2>2, <2>3, <2>4, <2>5, <2>6, <2>7, <2>8, <2>9, <2>10, <2>11,
       <2>12, <2>13, <2>14, <2>15, <2>16, <2>17, <2>18, <2>19, <2>20
       DEF Next, Step
<1>3. QED
  BY <1>1, <1>2, PTL DEF Spec

-----------------------------------------------------------------------------
(* The single writer. *)

\* A step that leaves the lease row, the clock and the history alone, moves
\* one caller between labels outside Owning or inside it, and keeps what an
\* owner knows of its lease, preserves LeaseInv.
LEMMA LeaseInvQuietStep ==
  ASSUME TypeOK, LeaseInv, NEW c \in Callers,
         lease' = lease, now' = now, epoch' = epoch, coarse' = coarse,
         faults \subseteq faults', until' = until, born' = born, holder' = holder,
         tnow' \in [Callers -> Nat],
         \A d \in Callers : tnow'[d] <= now,
         NEW l \in Labels, pc' = [pc EXCEPT ![c] = l],
         l \in Owning => pc[c] \in Owning,
         l \notin {"idle", "check"} => pc[c] \notin {"idle", "check"}
  PROVE  LeaseInv'
<1> USE DEF TypeOK, LocalsOK, SharedOK
<1>1. \A d \in Callers : InLease(d)' => InLease(d)
  BY DEF InLease, Owning
<1>2. RowNamesOwner'
  BY <1>1 DEF LeaseInv, RowNamesOwner
<1>3. SoleOwner'
  BY <1>1 DEF LeaseInv, SoleOwner
<1>4. NothingAhead'
  BY DEF LeaseInv, NothingAhead
<1>5. QED
  BY <1>2, <1>3, <1>4 DEF LeaseInv

\* A call that ends without touching the lease row preserves LeaseInv.
LEMMA LeaseInvLeave ==
  ASSUME TypeOK, LeaseInv, NEW c \in Callers, Leave(c),
         lease' = lease, now' = now, epoch' = epoch, coarse' = coarse,
         faults \subseteq faults'
  PROVE  LeaseInv'
<1> USE DEF TypeOK, LocalsOK, SharedOK
<1>1. \A d \in Callers : InLease(d)' => d # c /\ InLease(d)
  BY DEF InLease, Owning, Leave
<1>2. \A d \in Callers \ {c} :
        /\ pc'[d] = pc[d] /\ holder'[d] = holder[d] /\ until'[d] = until[d]
        /\ born'[d] = born[d] /\ tnow'[d] = tnow[d]
  BY DEF Leave
<1>3. pc'[c] = "idle" /\ tnow'[c] = 0 /\ born'[c] = 0
  BY DEF Leave
<1>4. RowNamesOwner'
  BY <1>1, <1>2, <1>3 DEF LeaseInv, RowNamesOwner
<1>5. SoleOwner'
  BY <1>1, <1>2 DEF LeaseInv, SoleOwner
<1>6. NothingAhead'
  BY <1>2, <1>3 DEF LeaseInv, NothingAhead
<1>7. QED
  BY <1>4, <1>5, <1>6 DEF LeaseInv

\* acquire_lease gives the lease to one caller more.
LEMMA LeaseInvAcquire ==
  ASSUME TypeOK, LeaseInv, NEW c \in Callers, Acquire(c)
  PROVE  LeaseInv'
<1> USE ConstantsOK DEF TypeOK, LocalsOK, SharedOK
<1>1. /\ lease' = Leased(holder'[c], until'[c])
      /\ until'[c] = tnow[c] + LeaseTTL /\ tnow[c] \in Nat
      /\ now' = now /\ epoch' = epoch /\ holder' = holder /\ coarse' = coarse
      /\ pc[c] = "acquire" /\ pc'[c] = "reread"
      /\ born'[c] = epoch /\ tnow'[c] = 0
  BY DEF Acquire, Goto, environment
<1>2. \A d \in Callers \ {c} :
        /\ pc'[d] = pc[d] /\ until'[d] = until[d]
        /\ born'[d] = born[d] /\ tnow'[d] = tnow[d]
  BY DEF Acquire, Goto
<1>3. tnow[c] <= now /\ now \in Nat
  BY DEF LeaseInv, NothingAhead
<1>4. \A d \in Callers : lease = Leased(holder[d], until[d]) => until[d] <= now
  <2>1. \A d \in Callers :
          lease = Leased(holder[d], until[d]) => until[d] <= tnow[c]
    BY <1>1, TakesRunOut DEF Acquire
  <2>2. QED
    BY <2>1, <1>3
<1>5. RowNamesOwner'
  <2> SUFFICES ASSUME ~coarse', NEW d \in Callers
               PROVE  /\ pc'[d] \notin {"idle", "check"} => holder'[d][2] = d
                      /\ InLease(d)' /\ until'[d] > now' /\ born'[d] = epoch'
                           => lease' = Leased(holder'[d], until'[d])
    BY DEF RowNamesOwner
  <2>1. CASE d = c
    BY <1>1, <2>1 DEF LeaseInv, RowNamesOwner
  <2>2. CASE d # c
    <3>1. holder'[d] = holder[d] /\ (InLease(d)' <=> InLease(d))
      BY <1>1, <1>2, <2>2 DEF InLease
    <3>2. ~(InLease(d)' /\ until'[d] > now' /\ born'[d] = epoch')
      BY <1>1, <1>2, <1>4, <2>2, <3>1 DEF LeaseInv, RowNamesOwner
    <3>3. QED
      BY <1>1, <1>2, <2>2, <3>1, <3>2 DEF LeaseInv, RowNamesOwner
  <2>3. QED
    BY <2>1, <2>2
<1>6. SoleOwner'
  <2> SUFFICES ASSUME faults' = {}
               PROVE  /\ \A d, e \in Callers : InLease(d)' /\ InLease(e)' => d = e
                      /\ \A d \in Callers : InLease(d)' =>
                           until'[d] > now' /\ lease' = Leased(holder'[d], until'[d])
    BY DEF SoleOwner
  <2>1. faults = {} /\ ~(tnow[c] + LeaseTTL <= now)
    BY DEF Acquire
  <2>2. \A d \in Callers : ~InLease(d)
    BY <1>3, <1>4, <2>1 DEF LeaseInv, SoleOwner
  <2>3. \A d \in Callers : InLease(d)' => d = c
    BY <1>2, <2>2 DEF InLease
  <2>4. QED
    BY <1>1, <2>1, <2>3
<1>7. NothingAhead'
  BY <1>1, <1>2 DEF LeaseInv, NothingAhead
<1>8. QED
  BY <1>5, <1>6, <1>7 DEF LeaseInv

\* release_lease removes the row only if it names the leaving caller's id.
LEMMA LeaseInvRelease ==
  ASSUME TypeOK, LeaseInv, NEW c \in Callers, Release(c)
  PROVE  LeaseInv'
<1> USE DEF TypeOK, LocalsOK, SharedOK
<1>1. /\ pc[c] = "release" /\ pc'[c] = "idle" /\ tnow'[c] = 0 /\ born'[c] = 0
      /\ now' = now /\ epoch' = epoch /\ faults' = faults /\ coarse' = coarse
      /\ lease' = AfterRelease(lease, holder[c])
  BY DEF Release, Leave, environment
<1>2. \A d \in Callers \ {c} :
        /\ pc'[d] = pc[d] /\ holder'[d] = holder[d] /\ until'[d] = until[d]
        /\ born'[d] = born[d] /\ tnow'[d] = tnow[d]
  BY DEF Release, Leave
<1>3. \A d \in Callers : InLease(d)' => d # c /\ InLease(d)
  BY <1>1, <1>2 DEF InLease, Owning
<1>4. InLease(c)
  BY <1>1 DEF InLease, Owning
<1>5. ASSUME ~coarse, NEW d \in Callers \ {c}, InLease(d),
             lease = Leased(holder[d], until[d])
      PROVE  lease' = lease
  <2>1. holder[c][2] = c /\ holder[d][2] = d
    BY <1>1, <1>5 DEF LeaseInv, RowNamesOwner, InLease, Owning
  <2>2. lease.holder = holder[d]
    BY <1>5 DEF Leased
  <2>3. QED
    BY <1>1, <2>1, <2>2 DEF AfterRelease
<1>6. RowNamesOwner'
  <2> SUFFICES ASSUME ~coarse', NEW d \in Callers
               PROVE  /\ pc'[d] \notin {"idle", "check"} => holder'[d][2] = d
                      /\ InLease(d)' /\ until'[d] > now' /\ born'[d] = epoch'
                           => lease' = Leased(holder'[d], until'[d])
    BY DEF RowNamesOwner
  <2>1. CASE d = c
    BY <1>1, <1>3, <2>1
  <2>2. CASE d # c
    BY <1>1, <1>2, <1>3, <1>5, <2>2 DEF LeaseInv, RowNamesOwner
  <2>3. QED
    BY <2>1, <2>2
<1>7. SoleOwner'
  BY <1>1, <1>3, <1>4 DEF LeaseInv, SoleOwner
<1>8. NothingAhead'
  BY <1>1, <1>2 DEF LeaseInv, NothingAhead
<1>9. QED
  BY <1>6, <1>7, <1>8 DEF LeaseInv

\* The new caller id is the caller's own, whatever the instant.
LEMMA LeaseInvCheck ==
  ASSUME TypeOK, LeaseInv, NEW c \in Callers, Check(c)
  PROVE  LeaseInv'
<1> USE DEF TypeOK, LocalsOK, SharedOK
<1>1. CASE Leave(c)
  BY <1>1, LeaseInvLeave DEF Check, environment
<1>2. CASE ~Leave(c)
  <2>1. /\ pc[c] = "check" /\ pc' = [pc EXCEPT ![c] = "clock"]
        /\ holder' = [holder EXCEPT ![c] = HolderId(c, now)]
        /\ UNCHANGED <<lease, now, epoch, coarse, faults, until, born, tnow>>
    BY <1>2 DEF Check, Goto, environment
  <2>2. \A d \in Callers : InLease(d)' => d # c /\ InLease(d)
    BY <2>1 DEF InLease, Owning
  <2>3. ~coarse => holder'[c][2] = c
    BY <2>1 DEF HolderId
  <2>4. \A d \in Callers \ {c} : pc'[d] = pc[d] /\ holder'[d] = holder[d]
    BY <2>1
  <2>5. RowNamesOwner'
    BY <2>1, <2>2, <2>3, <2>4 DEF LeaseInv, RowNamesOwner
  <2>6. SoleOwner'
    BY <2>1, <2>2, <2>4 DEF LeaseInv, SoleOwner
  <2>7. NothingAhead'
    BY <2>1 DEF LeaseInv, NothingAhead
  <2>8. QED
    BY <2>5, <2>6, <2>7 DEF LeaseInv
<1>3. QED
  BY <1>1, <1>2

\* The lease invariant holds in every reachable state.
THEOREM LeaseInvariant == Spec => []LeaseInv
<1> USE ConstantsOK
<1>1. Init => LeaseInv
  BY DEF Init, LeaseInv, RowNamesOwner, SoleOwner, NothingAhead, InLease, Owning
<1>2. ASSUME TypeOK, LeaseInv, [Next]_vars
      PROVE  LeaseInv'
  <2> USE <1>2 DEF environment, locals, Goto, Owning, Labels
  <2>1. ASSUME NEW c \in Callers, Begin(c)
        PROVE  LeaseInv'
    BY <2>1, LeaseInvQuietStep
       DEF Begin, TypeOK, LocalsOK, SharedOK, LeaseInv, NothingAhead
  <2>2. ASSUME NEW c \in Callers, Check(c)
        PROVE  LeaseInv'
    BY <2>2, LeaseInvCheck
  <2>3. ASSUME NEW c \in Callers, ReadClock(c)
        PROVE  LeaseInv'
    <3>1. tnow' = [tnow EXCEPT ![c] = now]
      BY <2>3 DEF ReadClock
    <3>2. tnow' \in [Callers -> Nat] /\ \A d \in Callers : tnow'[d] <= now
      BY <3>1 DEF TypeOK, LocalsOK, SharedOK, LeaseInv, NothingAhead
    <3>3. QED
      BY <2>3, <3>2, LeaseInvQuietStep DEF ReadClock
  <2>4. ASSUME NEW c \in Callers, Acquire(c)
        PROVE  LeaseInv'
    BY <2>4, LeaseInvAcquire
  <2>5. ASSUME NEW c \in Callers, Refused(c)
        PROVE  LeaseInv'
    <3>1. tnow' = [tnow EXCEPT ![c] = 0]
      BY <2>5 DEF Refused
    <3>2. tnow' \in [Callers -> Nat] /\ \A d \in Callers : tnow'[d] <= now
      BY <3>1 DEF TypeOK, LocalsOK, SharedOK, LeaseInv, NothingAhead
    <3>3. QED
      BY <2>5, <3>2, LeaseInvQuietStep DEF Refused
  <2>6. ASSUME NEW c \in Callers, Reread(c)
        PROVE  LeaseInv'
    BY <2>6, LeaseInvQuietStep
       DEF Reread, TypeOK, LocalsOK, SharedOK, LeaseInv, NothingAhead
  <2>7. ASSUME NEW c \in Callers, Recheck(c)
        PROVE  LeaseInv'
    <3>1. tnow' \in [Callers -> Nat] /\ \A d \in Callers : tnow'[d] <= now
      BY <2>7 DEF Recheck, TypeOK, LocalsOK, SharedOK, LeaseInv, NothingAhead
    <3>2. \E l \in {"call", "release"} : pc' = [pc EXCEPT ![c] = l]
      BY <2>7 DEF Recheck
    <3>3. /\ pc[c] = "recheck"
          /\ UNCHANGED <<lease, now, epoch, coarse, faults, until, born, holder>>
      BY <2>7 DEF Recheck
    <3>4. QED
      BY <3>1, <3>2, <3>3, LeaseInvQuietStep
  <2>8. ASSUME NEW c \in Callers, Rotate(c)
        PROVE  LeaseInv'
    <3>1. tnow' = [tnow EXCEPT ![c] = 0]
      BY <2>8 DEF Rotate
    <3>2. tnow' \in [Callers -> Nat] /\ \A d \in Callers : tnow'[d] <= now
      BY <3>1 DEF TypeOK, LocalsOK, SharedOK, LeaseInv, NothingAhead
    <3>3. QED
      BY <2>8, <3>2, LeaseInvQuietStep DEF Rotate
  <2>9. ASSUME NEW c \in Callers, RefreshFails(c)
        PROVE  LeaseInv'
    <3>1. tnow' = [tnow EXCEPT ![c] = 0]
      BY <2>9 DEF RefreshFails
    <3>2. tnow' \in [Callers -> Nat] /\ \A d \in Callers : tnow'[d] <= now
      BY <3>1 DEF TypeOK, LocalsOK, SharedOK, LeaseInv, NothingAhead
    <3>3. QED
      BY <2>9, <3>2, LeaseInvQuietStep DEF RefreshFails
  <2>10. ASSUME NEW c \in Callers, LoseReply(c)
         PROVE  LeaseInv'
    BY <2>10, LeaseInvQuietStep
       DEF LoseReply, TypeOK, LocalsOK, SharedOK, LeaseInv, NothingAhead
  <2>11. ASSUME NEW c \in Callers, WriteToken(c)
         PROVE  LeaseInv'
    BY <2>11, LeaseInvQuietStep
       DEF WriteToken, TypeOK, LocalsOK, SharedOK, LeaseInv, NothingAhead
  <2>12. ASSUME NEW c \in Callers, Release(c)
         PROVE  LeaseInv'
    BY <2>12, LeaseInvRelease
  <2>13. ASSUME NEW c \in Callers, Poll(c)
         PROVE  LeaseInv'
    <3>1. CASE Leave(c)
      BY <2>13, <3>1, LeaseInvLeave DEF Poll
    <3>2. CASE ~Leave(c)
      BY <2>13, <3>2, LeaseInvQuietStep
         DEF Poll, TypeOK, LocalsOK, SharedOK, LeaseInv, NothingAhead
    <3>3. QED
      BY <3>1, <3>2
  <2>14. ASSUME NEW c \in Callers, PollCheck(c)
         PROVE  LeaseInv'
    <3>1. CASE Leave(c)
      BY <2>14, <3>1, LeaseInvLeave DEF PollCheck
    <3>2. CASE ~Leave(c)
      BY <2>14, <3>2, LeaseInvQuietStep
         DEF PollCheck, TypeOK, LocalsOK, SharedOK, LeaseInv, NothingAhead
    <3>3. QED
      BY <3>1, <3>2
  <2>15. ASSUME NEW c \in Callers, PollHeld(c)
         PROVE  LeaseInv'
    <3>1. CASE Leave(c)
      BY <2>15, <3>1, LeaseInvLeave DEF PollHeld
    <3>2. CASE ~Leave(c)
      <4>1. tnow' = [tnow EXCEPT ![c] = 0]
        BY <2>15, <3>2 DEF PollHeld
      <4>2. tnow' \in [Callers -> Nat] /\ \A d \in Callers : tnow'[d] <= now
        BY <4>1 DEF TypeOK, LocalsOK, SharedOK, LeaseInv, NothingAhead
      <4> DEFINE l == IF Held(lease, tnow[c]) THEN "poll" ELSE "clock"
      <4>3. pc[c] = "pollheld" /\ pc' = [pc EXCEPT ![c] = l] /\ l \in Labels
        BY <2>15, <3>2 DEF PollHeld
      <4>4. l \notin Owning /\ pc[c] \notin {"idle", "check"}
        BY <4>3
      <4>5. lease' = lease /\ now' = now /\ epoch' = epoch /\ faults' = faults
            /\ coarse' = coarse
            /\ until' = until /\ born' = born /\ holder' = holder
        BY <2>15, <3>2 DEF PollHeld
      <4> HIDE DEF l
      <4>6. QED
        BY <4>2, <4>3, <4>4, <4>5, LeaseInvQuietStep
    <3>3. QED
      BY <3>1, <3>2
  <2>16. ASSUME NEW c \in Callers, Die(c)
         PROVE  LeaseInv'
    BY <2>16, LeaseInvLeave DEF Die
  <2>17. CASE Tick
    <3>1. now' = now + 1 /\ now \in Nat
          /\ UNCHANGED <<lease, epoch, coarse, pc, tnow, holder, until, born>>
      BY <2>17 DEF Tick, TypeOK, SharedOK
    <3>2. faults' = {} =>
            faults = {} /\ \A c \in Callers : InLease(c) => ~(until[c] <= now + 1)
      BY <2>17 DEF Tick
    <3>3. \A c \in Callers : until[c] \in Nat /\ tnow[c] \in Nat
      BY DEF TypeOK, LocalsOK
    <3>4. RowNamesOwner'
      BY <3>1, <3>3 DEF LeaseInv, RowNamesOwner, InLease
    <3>5. SoleOwner'
      BY <3>1, <3>2, <3>3 DEF LeaseInv, SoleOwner, InLease
    <3>6. NothingAhead'
      BY <3>1, <3>3 DEF LeaseInv, NothingAhead
    <3>7. QED
      BY <3>4, <3>5, <3>6 DEF LeaseInv
  <2>18. ASSUME NEW exp \in {now, now + Lifetime}, Reconnect(exp)
         PROVE  LeaseInv'
    BY <2>18 DEF Reconnect, LeaseInv, RowNamesOwner, SoleOwner, NothingAhead,
                 InLease
  <2>19. CASE Revoke
    <3>1. epoch' = epoch + 1 /\ epoch \in Nat
          /\ UNCHANGED <<now, coarse, pc, tnow, holder, until, born>>
      BY <2>19 DEF Revoke, TypeOK, SharedOK
    <3>2. faults' = {} => faults = {} /\ \A c \in Callers : ~InLease(c)
      BY <2>19 DEF Revoke
    <3>3. \A c \in Callers : born[c] \in Nat
      BY DEF TypeOK, LocalsOK
    <3>4. \A c \in Callers : born'[c] # epoch'
      BY <3>1, <3>3 DEF LeaseInv, NothingAhead
    <3>5. RowNamesOwner'
      BY <3>1, <3>4 DEF LeaseInv, RowNamesOwner
    <3>6. SoleOwner'
      BY <3>1, <3>2 DEF SoleOwner, InLease
    <3>7. NothingAhead'
      BY <3>1, <3>3 DEF LeaseInv, NothingAhead
    <3>8. QED
      BY <3>5, <3>6, <3>7 DEF LeaseInv
  <2>20. CASE UNCHANGED vars
    BY <2>20 DEF vars, LeaseInv, RowNamesOwner, SoleOwner, NothingAhead, InLease
  <2>21. QED
    BY <2>1, <2>2, <2>3, <2>4, <2>5, <2>6, <2>7, <2>8, <2>9, <2>10, <2>11,
       <2>12, <2>13, <2>14, <2>15, <2>16, <2>17, <2>18, <2>19, <2>20
       DEF Next, Step
<1>3. QED
  BY <1>1, <1>2, TypeCorrect, PTL DEF Spec

\* No two callers own unexpired leases on one incarnation of the connection,
\* for any number of callers, any lease_ttl and any clock.
THEOREM SingleWriter == Spec => []OneLiveOwner
<1>1. ASSUME TypeOK, LeaseInv
      PROVE  OneLiveOwner
  <2> SUFFICES ASSUME ~coarse \/ faults = {},
                      NEW c \in Callers, NEW d \in Callers,
                      InLease(c), until[c] > now, born[c] = epoch,
                      InLease(d), until[d] > now, born[d] = epoch
               PROVE  c = d
    BY DEF OneLiveOwner
  <2>1. CASE faults = {}
    BY <1>1, <2>1 DEF LeaseInv, SoleOwner
  <2>2. CASE ~coarse
    <3>1. lease.holder = holder[c] /\ lease.holder = holder[d]
      BY <1>1, <2>2 DEF LeaseInv, RowNamesOwner, Leased
    <3>2. holder[c][2] = c /\ holder[d][2] = d
      BY <1>1, <2>2 DEF LeaseInv, RowNamesOwner, InLease, Owning
    <3>3. QED
      BY <3>1, <3>2
  <2>3. QED
    BY <2>1, <2>2
<1>2. QED
  BY <1>1, TypeCorrect, LeaseInvariant, PTL

-----------------------------------------------------------------------------
(* The rotated token is not lost. *)

\* What TokenInv says of a state in which nothing has gone wrong.
TokensAgree ==
  /\ \A c \in Callers :
       /\ pc[c] \in {"recheck", "call"} => conn # NoConn /\ seen[c] = conn
       /\ pc[c] = "write" => fresh[c] # NoConn /\ fresh[c].rt \in live
  /\ conn # NoConn /\ (\A c \in Callers : pc[c] # "write") => conn.rt \in live

\* A step of one caller that is not about to write, and is not about to spend
\* what it read, leaves the agreement alone.
LEMMA QuietStepAgrees ==
  ASSUME TokensAgree, NEW c \in Callers, conn' = conn, live' = live,
         pc[c] # "write", pc'[c] \notin {"recheck", "call", "write"},
         \A d \in Callers \ {c} :
           pc'[d] = pc[d] /\ seen'[d] = seen[d] /\ fresh'[d] = fresh[d]
  PROVE  TokensAgree'
  BY DEF TokensAgree

\* No step makes a fault undone.
LEMMA FaultsGrow ==
  ASSUME [Next]_vars PROVE faults \subseteq faults'
  BY DEF Next, Step, vars, environment, locals, Leave, Begin, Check, ReadClock,
         Acquire, Refused, Reread, Recheck, Rotate, RefreshFails, LoseReply,
         WriteToken, Release, Poll, PollCheck, PollHeld, Die, Tick, Reconnect,
         Revoke

\* The steps that only move one caller about.
LEMMA OtherStepsAgree ==
  ASSUME TypeOK, TokensAgree, faults' = {}, NEW c \in Callers,
         \/ Begin(c) \/ Check(c) \/ ReadClock(c) \/ Acquire(c) \/ Refused(c)
         \/ RefreshFails(c) \/ Release(c) \/ Poll(c) \/ PollCheck(c)
         \/ PollHeld(c) \/ Die(c)
  PROVE  TokensAgree'
<1> USE DEF TypeOK, LocalsOK, Goto, environment
<1>1. CASE Leave(c)
  <2>1. conn' = conn /\ live' = live /\ pc[c] # "write"
    BY <1>1 DEF Begin, Check, ReadClock, Acquire, Refused, RefreshFails,
                Release, Poll, PollCheck, PollHeld, Die, Leave
  <2>2. QED
    BY <1>1, <2>1, QuietStepAgrees DEF Leave
<1>2. CASE ~Leave(c)
  <2>1. conn' = conn /\ live' = live /\ pc[c] # "write"
    BY <1>2 DEF Begin, Check, ReadClock, Acquire, Refused, RefreshFails,
                Release, Poll, PollCheck, PollHeld, Die
  <2>2. \E l \in Labels \ {"recheck", "call", "write"} :
          pc' = [pc EXCEPT ![c] = l]
    BY <1>2 DEF Begin, Check, ReadClock, Acquire, Refused, RefreshFails,
                Release, Poll, PollCheck, PollHeld, Die, Labels
  <2>3. /\ fresh' = fresh
        /\ \A d \in Callers \ {c} : seen'[d] = seen[d]
    BY <1>2 DEF Begin, Check, ReadClock, Acquire, Refused, RefreshFails,
                Release, Poll, PollCheck, PollHeld, Die
  <2>4. QED
    BY <2>1, <2>2, <2>3, QuietStepAgrees
<1>3. QED
  BY <1>1, <1>2

\* The token invariant holds in every reachable state.
THEOREM TokenInvariant == Spec => []TokenInv
<1> USE ConstantsOK
<1>1. Init => TokenInv
  BY DEF Init, TokenInv, OwnerReadsStored, StoredTokenIsLive
<1>2. ASSUME TypeOK, LeaseInv, TokenInv, [Next]_vars
      PROVE  TokenInv'
  <2> SUFFICES ASSUME faults' = {}
               PROVE  TokensAgree'
    BY DEF TokenInv, OwnerReadsStored, StoredTokenIsLive, TokensAgree
  <2>1. faults = {} /\ TokensAgree
    BY <1>2, FaultsGrow
       DEF TokenInv, OwnerReadsStored, StoredTokenIsLive, TokensAgree
  <2>2. \A c, d \in Callers : InLease(c) /\ InLease(d) => c = d
    BY <1>2, <2>1 DEF LeaseInv, SoleOwner
  <2> USE <1>2, <2>1, <2>2
          DEF TypeOK, SharedOK, LocalsOK, environment, locals, Goto
  <2>3. ASSUME NEW c \in Callers, Reread(c)
        PROVE  TokensAgree'
    <3>1. CASE conn = NoConn
      BY <2>3, <3>1, QuietStepAgrees DEF Reread
    <3>2. CASE conn # NoConn
      BY <2>3, <3>2 DEF Reread, TokensAgree
    <3>3. QED
      BY <3>1, <3>2
  <2>4. ASSUME NEW c \in Callers, Recheck(c)
        PROVE  TokensAgree'
    <3>1. CASE Expired(seen[c], now)
      BY <2>4, <3>1 DEF Recheck, TokensAgree
    <3>2. CASE ~Expired(seen[c], now)
      BY <2>4, <3>2, QuietStepAgrees DEF Recheck
    <3>3. QED
      BY <3>1, <3>2
  <2>5. ASSUME NEW c \in Callers, Rotate(c)
        PROVE  TokensAgree'
    <3>1. \A d \in Callers \ {c} : pc'[d] = pc[d] /\ ~InLease(d)
      BY <2>5 DEF Rotate, InLease, Owning
    <3>2. /\ pc'[c] = "write" /\ fresh'[c].rt \in live'
          /\ fresh'[c] \in Tokens /\ NoConn \notin Tokens
      BY <2>5 DEF Rotate, Tokens
    <3>3. \A d \in Callers \ {c} : pc'[d] \notin {"recheck", "call", "write"}
      BY <3>1 DEF InLease, Owning
    <3>4. QED
      BY <3>2, <3>3 DEF TokensAgree
  <2>6. ASSUME NEW c \in Callers, WriteToken(c)
        PROVE  TokensAgree'
    <3>1. \A d \in Callers \ {c} : pc'[d] = pc[d] /\ ~InLease(d)
      BY <2>6 DEF WriteToken, InLease, Owning
    <3>2. pc'[c] = "release" /\ live' = live
      BY <2>6 DEF WriteToken
    <3>3. conn' # NoConn => conn'.rt \in live'
      BY <2>6 DEF WriteToken, TokensAgree
    <3>4. QED
      BY <3>1, <3>2, <3>3 DEF TokensAgree, InLease, Owning
  <2>7. ASSUME NEW c \in Callers, LoseReply(c)
        PROVE  TokensAgree'
    BY <2>7 DEF LoseReply
  <2>8. CASE Tick
    BY <2>8 DEF Tick, TokensAgree
  <2>9. ASSUME NEW exp \in {now, now + Lifetime}, Reconnect(exp)
        PROVE  TokensAgree'
    <3>1. \A c \in Callers : pc[c] \notin Refreshing
      BY <2>9 DEF Reconnect
    <3>2. conn'.rt \in live' /\ pc' = pc
      BY <2>9 DEF Reconnect
    <3>3. QED
      BY <3>1, <3>2 DEF TokensAgree, Refreshing
  <2>10. CASE Revoke
    <3>1. \A c \in Callers : ~InLease(c)
      BY <2>10 DEF Revoke
    <3>2. conn' = NoConn /\ pc' = pc
      BY <2>10 DEF Revoke
    <3>3. QED
      BY <3>1, <3>2 DEF TokensAgree, InLease, Owning
  <2>11. CASE UNCHANGED vars
    BY <2>11 DEF vars, TokensAgree
  <2>12. QED
    BY <2>3, <2>4, <2>5, <2>6, <2>7, <2>8, <2>9, <2>10, <2>11,
       OtherStepsAgree DEF Next, Step
<1>3. QED
  BY <1>1, <1>2, TypeCorrect, LeaseInvariant, PTL DEF Spec

\* As long as nothing has gone wrong, no caller presents a spent refresh token.
THEOREM NoSpentToken == Spec => []NoSpentTokenPresented
<1>1. ASSUME TypeOK, LeaseInv, TokenInv
      PROVE  NoSpentTokenPresented
  <2> SUFFICES ASSUME faults = {}, NEW c \in Callers, pc[c] = "call"
               PROVE  seen[c].rt \in live
    BY DEF NoSpentTokenPresented
  <2>1. \A d \in Callers : pc[d] # "write"
    BY <1>1 DEF LeaseInv, SoleOwner, InLease, Owning
  <2>2. QED
    BY <1>1, <2>1 DEF TokenInv, OwnerReadsStored, StoredTokenIsLive
<1>2. QED
  BY <1>1, TypeCorrect, LeaseInvariant, TokenInvariant, PTL

\* As long as nothing has gone wrong, the stored refresh token is one the
\* provider accepts, except between the rotation and write_token.
THEOREM RotationNotLost == Spec => []StoredTokenIsLive
<1>1. TokenInv => StoredTokenIsLive
  BY DEF TokenInv
<1>2. QED
  BY <1>1, TokenInvariant, PTL

-----------------------------------------------------------------------------
(* The stored refresh token never goes back, even when leases run out. *)

\* What LineageInv says once its premise is met.
Lineage ==
  /\ conn # NoConn => conn.rt <= issued
  /\ \A c \in Callers :
       /\ pc[c] \in {"recheck", "call"} =>
            /\ conn # NoConn /\ seen[c] # NoConn
            /\ seen[c].rt <= conn.rt
            /\ seen[c].rt \in live => seen[c].rt = conn.rt
       /\ pc[c] = "write" =>
            /\ conn # NoConn /\ fresh[c] # NoConn
            /\ conn.rt < fresh[c].rt /\ fresh[c].rt <= issued
            /\ conn.rt \notin live
            /\ \A d \in Callers : pc[d] = "write" => d = c

\* A caller that does not come to spend or to write anything new leaves the
\* lineage alone.
LEMMA QuietStepKeepsLineage ==
  ASSUME Lineage, NEW c \in Callers, conn' = conn, live' = live,
         issued' = issued, pc'[c] \notin {"recheck", "call", "write"},
         \A d \in Callers \ {c} :
           pc'[d] = pc[d] /\ seen'[d] = seen[d] /\ fresh'[d] = fresh[d]
  PROVE  Lineage'
  BY DEF Lineage

\* The steps that only move one caller about.
LEMMA OtherStepsKeepLineage ==
  ASSUME TypeOK, Lineage, NEW c \in Callers,
         \/ Begin(c) \/ Check(c) \/ ReadClock(c) \/ Acquire(c) \/ Refused(c)
         \/ RefreshFails(c) \/ LoseReply(c) \/ Release(c) \/ Poll(c)
         \/ PollCheck(c) \/ PollHeld(c) \/ Die(c)
  PROVE  Lineage'
<1> USE DEF TypeOK, LocalsOK, Goto, environment
<1>1. conn' = conn /\ live' = live /\ issued' = issued
  BY DEF Begin, Check, ReadClock, Acquire, Refused, RefreshFails, LoseReply,
         Release, Poll, PollCheck, PollHeld, Die
<1>2. CASE Leave(c)
  BY <1>1, <1>2, QuietStepKeepsLineage DEF Leave
<1>3. CASE ~Leave(c)
  <2>1. \E l \in Labels \ {"recheck", "call", "write"} :
          pc' = [pc EXCEPT ![c] = l]
    BY <1>3 DEF Begin, Check, ReadClock, Acquire, Refused, RefreshFails,
                LoseReply, Release, Poll, PollCheck, PollHeld, Die, Labels
  <2>2. \A d \in Callers \ {c} : seen'[d] = seen[d] /\ fresh'[d] = fresh[d]
    BY <1>3 DEF Begin, Check, ReadClock, Acquire, Refused, RefreshFails,
                LoseReply, Release, Poll, PollCheck, PollHeld, Die, locals
  <2>3. QED
    BY <1>1, <2>1, <2>2, QuietStepKeepsLineage
<1>4. QED
  BY <1>2, <1>3

\* The lineage invariant holds in every reachable state.
THEOREM LineageInvariant == Spec => []LineageInv
<1> USE ConstantsOK
<1>1. Init => LineageInv
  BY DEF Init, LineageInv
<1>2. ASSUME TypeOK, LineageInv, [Next]_vars
      PROVE  LineageInv'
  <2> SUFFICES ASSUME faults' \cap {"overwrite", "revoke"} = {}
               PROVE  Lineage'
    BY DEF LineageInv, Lineage
  <2>1. Lineage
    BY <1>2, FaultsGrow DEF LineageInv, Lineage
  <2> USE <1>2, <2>1
          DEF TypeOK, SharedOK, LocalsOK, environment, locals, Goto
  <2>2. conn # NoConn => conn.rt \in Nat
    BY DEF Tokens
  <2>3. ASSUME NEW c \in Callers, Reread(c)
        PROVE  Lineage'
    <3>1. CASE conn = NoConn
      BY <2>3, <3>1, QuietStepKeepsLineage DEF Reread
    <3>2. CASE conn # NoConn
      BY <2>2, <2>3, <3>2 DEF Reread, Lineage
    <3>3. QED
      BY <3>1, <3>2
  <2>4. ASSUME NEW c \in Callers, Recheck(c)
        PROVE  Lineage'
    <3>1. CASE Expired(seen[c], now)
      BY <2>4, <3>1 DEF Recheck, Lineage
    <3>2. CASE ~Expired(seen[c], now)
      BY <2>4, <3>2, QuietStepKeepsLineage DEF Recheck
    <3>3. QED
      BY <3>1, <3>2
  <2>5. ASSUME NEW c \in Callers, Rotate(c)
        PROVE  Lineage'
    <3>1. /\ pc[c] = "call" /\ seen[c].rt = conn.rt /\ conn # NoConn
          /\ conn.rt \in live /\ conn.rt <= issued
      BY <2>5 DEF Rotate, Lineage
    <3>2. /\ pc'[c] = "write" /\ conn' = conn /\ issued' = issued + 1
          /\ live' = (live \ {conn.rt}) \cup {issued + 1}
          /\ fresh'[c].rt = issued + 1 /\ fresh'[c] \in Tokens
      BY <2>5, <3>1 DEF Rotate, Tokens
    <3>3. \A d \in Callers \ {c} :
            /\ pc'[d] = pc[d] /\ seen'[d] = seen[d] /\ pc'[d] # "write"
      BY <2>5, <3>1 DEF Rotate, Lineage
    <3>4. conn.rt \notin live' /\ conn.rt < issued + 1
      BY <2>2, <3>1, <3>2
    <3>5. \A d \in Callers : pc'[d] \in {"recheck", "call"} =>
            /\ d # c /\ seen'[d] # NoConn /\ seen'[d].rt <= conn.rt
            /\ seen'[d].rt \in Nat
            /\ seen'[d].rt \in live => seen'[d].rt = conn.rt
      BY <3>2, <3>3 DEF Lineage, Tokens
    <3>6. \A d \in Callers : pc'[d] \in {"recheck", "call"} =>
            seen'[d].rt \notin live'
      BY <2>2, <3>1, <3>2, <3>4, <3>5
    <3>7. NoConn \notin Tokens /\ issued' \in Nat
      BY <3>2 DEF Tokens
    <3>8. QED
      BY <2>2, <3>1, <3>2, <3>3, <3>4, <3>5, <3>6, <3>7 DEF Lineage
  <2>6. ASSUME NEW c \in Callers, WriteToken(c)
        PROVE  Lineage'
    <3>1. /\ conn # NoConn /\ conn' = fresh[c] /\ fresh[c] # NoConn
          /\ conn.rt < fresh[c].rt /\ fresh[c].rt <= issued
          /\ conn.rt \notin live /\ live' = live /\ issued' = issued
          /\ fresh[c].rt \in Nat /\ pc'[c] = "release"
      BY <2>6 DEF WriteToken, Lineage, Tokens
    <3>2. \A d \in Callers \ {c} :
            pc'[d] = pc[d] /\ seen'[d] = seen[d] /\ pc'[d] # "write"
      BY <2>6 DEF WriteToken, Lineage
    <3>3. \A d \in Callers : pc'[d] \in {"recheck", "call"} =>
            /\ d # c /\ seen[d] # NoConn /\ seen[d].rt <= conn.rt
            /\ seen[d].rt \in Nat /\ seen[d].rt \notin live
      BY <3>1, <3>2 DEF Lineage, Tokens
    <3>4. QED
      BY <2>2, <3>1, <3>2, <3>3 DEF Lineage
  <2>7. CASE Tick
    BY <2>7 DEF Tick, Lineage
  <2>8. ASSUME NEW exp \in {now, now + Lifetime}, Reconnect(exp)
        PROVE  Lineage'
    <3>1. \A c \in Callers : pc[c] \notin Refreshing
      BY <2>8 DEF Reconnect
    <3>2. conn'.rt = issued + 1 /\ issued' = issued + 1 /\ pc' = pc
      BY <2>8 DEF Reconnect
    <3>3. QED
      BY <3>1, <3>2 DEF Lineage, Refreshing
  <2>9. CASE Revoke
    <3>1. \A c \in Callers : ~InLease(c)
      BY <2>9 DEF Revoke
    <3>2. conn' = NoConn /\ pc' = pc
      BY <2>9 DEF Revoke
    <3>3. QED
      BY <3>1, <3>2 DEF Lineage, InLease, Owning
  <2>10. CASE UNCHANGED vars
    BY <2>10 DEF vars, Lineage
  <2>11. QED
    BY <2>3, <2>4, <2>5, <2>6, <2>7, <2>8, <2>9, <2>10,
       OtherStepsKeepLineage DEF Next, Step
<1>3. QED
  BY <1>1, <1>2, TypeCorrect, PTL DEF Spec

\* write_token never puts an older refresh token over a newer one, expired
\* leases or not, unless a reconnect or a revoke landed in mid-refresh.
THEOREM StoreMonotone == Spec => StoreNeverGoesBack
<1> DEFINE Forward == (/\ faults' \cap {"overwrite", "revoke"} = {}
                       /\ conn # NoConn /\ conn' # NoConn) => conn'.rt >= conn.rt
<1>1. ASSUME TypeOK, LineageInv, [Next]_vars
      PROVE  Forward
  <2> SUFFICES ASSUME faults' \cap {"overwrite", "revoke"} = {},
                      conn # NoConn, conn' # NoConn, conn' # conn
               PROVE  conn'.rt >= conn.rt
    BY <1>1 DEF TypeOK, SharedOK, Tokens
  <2>1. faults \cap {"overwrite", "revoke"} = {}
    BY <1>1, FaultsGrow
  <2>2. ASSUME NEW c \in Callers, WriteToken(c)
        PROVE  conn'.rt >= conn.rt
    <3>1. fresh[c] \in Tokens /\ conn \in Tokens /\ conn' = fresh[c]
          /\ conn.rt < fresh[c].rt
      BY <1>1, <2>1, <2>2
         DEF TypeOK, SharedOK, LocalsOK, LineageInv, WriteToken
    <3>2. QED
      BY <3>1 DEF Tokens
  <2>3. ASSUME NEW exp \in {now, now + Lifetime}, Reconnect(exp)
        PROVE  conn'.rt >= conn.rt
    <3>1. conn'.rt = issued + 1 /\ conn.rt <= issued
          /\ conn \in Tokens /\ issued \in Nat
      BY <1>1, <2>1, <2>3 DEF TypeOK, SharedOK, LineageInv, Reconnect
    <3>2. QED
      BY <3>1 DEF Tokens
  <2>4. QED
    BY <1>1, <2>2, <2>3
       DEF Next, Step, vars, environment, locals, Begin, Check, ReadClock,
           Acquire, Refused, Reread, Recheck, Rotate, RefreshFails, LoseReply,
           Release, Poll, PollCheck, PollHeld, Die, Tick, Revoke
<1>2. QED
  BY <1>1, TypeCorrect, LineageInvariant, PTL DEF Spec, StoreNeverGoesBack

-----------------------------------------------------------------------------
(* VaultRefresh implements LeaseService. *)


\* What the refinement mapping relies on: the clock stays within its bound, a
\* caller that owns nothing was granted nothing, and a caller past its expiry
\* check carries a holder id made from an instant of the clock.
ServiceInv ==
  /\ now <= MaxTime
  /\ \A c \in Callers :
       /\ ~InLease(c) => until[c] = 0
       /\ pc[c] \notin {"idle", "check"} =>
            holder[c] \in (0..MaxTime) \X {NoLease, c}

\* A call that ends leaves the mapping's premises true.
LEMMA ServiceInvLeave ==
  ASSUME TypeOK, ServiceInv, NEW c \in Callers, Leave(c), now' = now
  PROVE  ServiceInv'
BY DEF TypeOK, LocalsOK, ServiceInv, Leave, InLease, Owning

\* So does a statement that neither grants nor ends a lease.
LEMMA ServiceInvQuietStep ==
  ASSUME TypeOK, ServiceInv, NEW c \in Callers, NEW label \in Labels,
         Goto(c, label), label \notin {"idle", "check"},
         pc[c] \notin {"idle", "check"},
         pc[c] \in Owning => label \in Owning,
         UNCHANGED <<now, holder, until>>
  PROVE  ServiceInv'
BY DEF TypeOK, LocalsOK, ServiceInv, Goto, InLease, Owning

\* Every step keeps the premises of the mapping.
THEOREM ServiceInvariant == Spec => []ServiceInv
<1> USE ConstantsOK
<1>1. Init => ServiceInv
  BY DEF Init, ServiceInv, InLease, Owning
<1>2. ASSUME TypeOK, ServiceInv, [Next]_vars
      PROVE  ServiceInv'
  <2> USE <1>2 DEF environment
  <2> DEFINE Quiet(c) ==
        \E label \in Labels :
          /\ Goto(c, label)
          /\ label \notin {"idle", "check"}
          /\ pc[c] \notin {"idle", "check"}
          /\ pc[c] \in Owning => label \in Owning
          /\ UNCHANGED <<now, holder, until>>
  <2>1. ASSUME NEW c \in Callers, Quiet(c)
        PROVE  ServiceInv'
    BY <2>1, ServiceInvQuietStep
  <2>2. ASSUME NEW c \in Callers, Leave(c), now' = now
        PROVE  ServiceInv'
    BY <2>2, ServiceInvLeave
  <2>3. ASSUME NEW c \in Callers, Begin(c)
        PROVE  ServiceInv'
    BY <2>3 DEF Begin, Goto, TypeOK, LocalsOK, ServiceInv, InLease, Owning
  <2>4. ASSUME NEW c \in Callers, Check(c)
        PROVE  ServiceInv'
    <3>1. CASE Leave(c)
      BY <2>4, <3>1, <2>2 DEF Check
    <3>2. CASE ~Leave(c)
      <4>1. /\ pc[c] = "check"
            /\ pc' = [pc EXCEPT ![c] = "clock"]
            /\ holder' = [holder EXCEPT ![c] = HolderId(c, now)]
            /\ UNCHANGED <<now, until>>
        BY <2>4, <3>2 DEF Check, Goto
      <4>2. now \in 0..MaxTime
        BY DEF TypeOK, SharedOK, ServiceInv
      <4>3. HolderId(c, now) \in (0..MaxTime) \X {NoLease, c}
        BY <4>2 DEF HolderId
      <4>4. QED
        BY <4>1, <4>3 DEF TypeOK, LocalsOK, ServiceInv, InLease, Owning
    <3>3. QED
      BY <3>1, <3>2
  <2>5. ASSUME NEW c \in Callers, Acquire(c)
        PROVE  ServiceInv'
    BY <2>5 DEF Acquire, Goto, TypeOK, LocalsOK, ServiceInv, InLease, Owning
  <2>6. ASSUME NEW c \in Callers,
               ReadClock(c) \/ Reread(c) \/ Recheck(c) \/ Rotate(c)
                 \/ RefreshFails(c) \/ LoseReply(c) \/ WriteToken(c)
        PROVE  ServiceInv'
    <3>1. Quiet(c)
      BY <2>6 DEF ReadClock, Reread, Recheck, Rotate, RefreshFails, LoseReply,
                  WriteToken, Owning, Labels
    <3>2. QED
      BY <3>1, <2>1
  <2>7. ASSUME NEW c \in Callers,
               Refused(c) \/ Poll(c) \/ PollCheck(c) \/ PollHeld(c)
        PROVE  ServiceInv'
    <3>1. CASE Leave(c)
      BY <2>7, <3>1, <2>2 DEF Refused, Poll, PollCheck, PollHeld
    <3>2. CASE ~Leave(c)
      <4>1. Quiet(c)
        BY <2>7, <3>2 DEF Refused, Poll, PollCheck, PollHeld, Owning, Labels
      <4>2. QED
        BY <4>1, <2>1
    <3>3. QED
      BY <3>1, <3>2
  <2>8. ASSUME NEW c \in Callers, Release(c) \/ Die(c)
        PROVE  ServiceInv'
    BY <2>8, <2>2 DEF Release, Die
  <2>9. CASE Tick
    BY <2>9 DEF Tick, locals, TypeOK, SharedOK, ServiceInv, InLease
  <2>10. ASSUME NEW exp \in {now, now + Lifetime}, Reconnect(exp)
         PROVE  ServiceInv'
    BY <2>10 DEF Reconnect, locals, ServiceInv, InLease
  <2>11. CASE Revoke
    BY <2>11 DEF Revoke, locals, ServiceInv, InLease
  <2>12. CASE UNCHANGED vars
    BY <2>12 DEF vars, ServiceInv, InLease
  <2>13. QED
    BY <2>3, <2>4, <2>5, <2>6, <2>7, <2>8, <2>9, <2>10, <2>11, <2>12
       DEF Next, Step
<1>3. QED
  BY <1>1, <1>2, TypeCorrect, PTL DEF Spec

-----------------------------------------------------------------------------

\* A step that changes no grant and no owner is invisible to the lease.
LEMMA InvisibleStep ==
  ASSUME UNCHANGED <<now, lease, epoch>>,
         \A c \in Callers : InLease(c)' <=> InLease(c),
         \A c \in Callers : InLease(c) => born'[c] = born[c]
                                       /\ holder'[c] = holder[c],
         until' = until
  PROVE  UNCHANGED Service!svars
BY DEF Service!svars

\* The statement of a caller that stays in the lease, or stays out of it.
LEMMA InvisibleGoto ==
  ASSUME TypeOK, NEW c \in Callers, NEW label \in Labels, Goto(c, label),
         pc[c] \in Owning <=> label \in Owning,
         UNCHANGED <<now, lease, epoch, until, born>>,
         InLease(c) => holder' = holder,
         \A d \in Callers \ {c} : holder'[d] = holder[d]
  PROVE  UNCHANGED Service!svars
<1>1. \A d \in Callers : InLease(d)' <=> InLease(d)
  BY DEF TypeOK, LocalsOK, Goto, InLease
<1>2. \A d \in Callers : InLease(d) => holder'[d] = holder[d]
  OBVIOUS
<1>3. QED
  BY <1>1, <1>2, InvisibleStep

\* The end of a call that owns nothing.
LEMMA InvisibleLeave ==
  ASSUME TypeOK, ServiceInv, NEW c \in Callers, Leave(c), ~InLease(c),
         UNCHANGED <<now, lease, epoch>>
  PROVE  UNCHANGED Service!svars
<1>1. \A d \in Callers : InLease(d)' <=> InLease(d)
  BY DEF TypeOK, LocalsOK, Leave, InLease, Owning
<1>2. \A d \in Callers : InLease(d) => born'[d] = born[d]
                                    /\ holder'[d] = holder[d]
  BY DEF TypeOK, LocalsOK, Leave
<1>3. until' = until
  BY DEF TypeOK, LocalsOK, Leave, ServiceInv
<1>4. QED
  BY <1>1, <1>2, <1>3, InvisibleStep

\* The end of a call that owns the lease is the end of its ownership.
LEMMA LeaveForgets ==
  ASSUME TypeOK, NEW c \in Callers, Leave(c), InLease(c), epoch' = epoch
  PROVE  Service!Forget({c})
<1>1. \A d \in Callers : InLease(d)' <=> InLease(d) /\ d # c
  BY DEF TypeOK, LocalsOK, Leave, InLease, Owning
<1>2. \A d \in Callers \ {c} : /\ born'[d] = born[d]
                               /\ holder'[d] = holder[d]
                               /\ until'[d] = until[d]
  BY DEF TypeOK, LocalsOK, Leave
<1>3. until' \in [Callers -> Nat] /\ until'[c] = 0
  BY DEF TypeOK, LocalsOK, Leave
<1>4. until' = [d \in Callers |-> IF d \in {c} THEN 0 ELSE until[d]]
  BY <1>2, <1>3
<1>5. QED
  BY <1>1, <1>2, <1>4 DEF Service!Forget

\* acquire_lease in refresh_if_needed is a grant of the abstract lease.
LEMMA AcquireGrants ==
  ASSUME TypeOK, NothingAhead, ServiceInv, NEW c \in Callers, Acquire(c)
  PROVE  Service!Grant(c, holder[c], tnow[c])
<1>1. ~InLease(c)
  BY DEF Acquire, InLease, Owning
<1>2. \A d \in Callers : InLease(d)' <=> InLease(d) \/ d = c
  BY DEF TypeOK, LocalsOK, Acquire, Goto, InLease, Owning
<1>3. born'[c] = epoch /\ \A d \in Callers \ {c} : born'[d] = born[d]
  BY DEF TypeOK, LocalsOK, Acquire
<1>4. epoch' = epoch /\ holder' = holder /\ now' = now
  BY DEF Acquire, environment
<1>5. {d \in Callers : InLease(d)}' = {d \in Callers : InLease(d)} \cup {c}
  BY <1>2
<1>6. {d \in Callers : InLease(d) /\ born[d] = epoch}'
        = {d \in Callers : InLease(d) /\ born[d] = epoch} \cup {c}
  BY <1>1, <1>2, <1>3, <1>4
<1>7. [d \in Callers |-> IF InLease(d) THEN holder[d] ELSE NoLease]'
        = [[d \in Callers |-> IF InLease(d) THEN holder[d] ELSE NoLease]
             EXCEPT ![c] = holder[c]]
  BY <1>2, <1>4
<1>8. QED
  BY <1>1, <1>4, <1>5, <1>6, <1>7
     DEF Service!Grant, Acquire, Service!Takes, Takes, Service!Leased, Leased

\* Every step of refresh_if_needed, of a reconnect, a revoke or a death is a
\* step of the abstract lease or leaves it alone.
THEOREM Refinement == Spec => ImplementsLease
<1> USE ConstantsOK
<1>1. Init => Service!Init
  BY DEF Init, Service!Init, InLease, Owning
<1>2. ASSUME TypeOK, NothingAhead, ServiceInv, [Next]_vars
      PROVE  [Service!Next]_(Service!svars)
  <2> USE <1>2 DEF environment
  <2> DEFINE Quiet(c) ==
        \E label \in Labels :
          /\ Goto(c, label)
          /\ pc[c] \in Owning <=> label \in Owning
          /\ UNCHANGED <<now, lease, epoch, until, born>>
          /\ InLease(c) => holder' = holder
          /\ \A d \in Callers \ {c} : holder'[d] = holder[d]
  <2>1. ASSUME NEW c \in Callers, Quiet(c)
        PROVE  UNCHANGED Service!svars
    BY <2>1, InvisibleGoto
  <2>2. ASSUME NEW c \in Callers, Begin(c)
        PROVE  UNCHANGED Service!svars
    <3>1. Quiet(c)
      BY <2>2 DEF Begin, Owning, Labels
    <3>2. QED
      BY <3>1, <2>1
  <2>3. ASSUME NEW c \in Callers,
               Check(c) \/ Refused(c) \/ Poll(c) \/ PollCheck(c) \/ PollHeld(c)
        PROVE  UNCHANGED Service!svars
    <3>1. ~InLease(c) /\ UNCHANGED <<now, lease, epoch>>
      BY <2>3 DEF Check, Refused, Poll, PollCheck, PollHeld, InLease, Owning
    <3>2. CASE Leave(c)
      BY <3>1, <3>2, InvisibleLeave
    <3>3. CASE ~Leave(c)
      <4>1. \A d \in Callers \ {c} : holder'[d] = holder[d]
        BY <2>3, <3>3 DEF Check, Refused, Poll, PollCheck, PollHeld,
                          TypeOK, LocalsOK
      <4>2. Quiet(c)
        BY <2>3, <3>1, <3>3, <4>1 DEF Check, Refused, Poll, PollCheck,
                                      PollHeld, InLease, Owning, Labels
      <4>3. QED
        BY <4>2, <2>1
    <3>4. QED
      BY <3>2, <3>3
  <2>4. ASSUME NEW c \in Callers,
               ReadClock(c) \/ Reread(c) \/ Recheck(c) \/ Rotate(c)
                 \/ RefreshFails(c) \/ LoseReply(c) \/ WriteToken(c)
        PROVE  UNCHANGED Service!svars
    <3>1. Quiet(c)
      BY <2>4 DEF ReadClock, Reread, Recheck, Rotate, RefreshFails, LoseReply,
                  WriteToken, Owning, Labels
    <3>2. QED
      BY <3>1, <2>1
  <2>5. ASSUME NEW c \in Callers, Acquire(c)
        PROVE  Service!Next
    <3>1. holder[c] \in (0..MaxTime) \X {NoLease, c}
      BY <2>5 DEF Acquire, ServiceInv
    <3>2. tnow[c] \in 0..now
      BY DEF TypeOK, SharedOK, LocalsOK, NothingAhead
    <3>3. holder[c] \in [d \in Callers |-> (0..MaxTime) \X {NoLease, d}][c]
      BY <3>1
    <3>4. Service!Grant(c, holder[c], tnow[c])
      BY <2>5, AcquireGrants
    <3>5. \E i \in [d \in Callers |-> (0..MaxTime) \X {NoLease, d}][c],
             t \in 0..now : Service!Grant(c, i, t)
      BY <3>2, <3>3, <3>4 DEF Service!Grant
    <3>6. QED
      BY <3>5 DEF Service!Next
  <2>6. ASSUME NEW c \in Callers, Release(c)
        PROVE  Service!Next
    <3>1. InLease(c) /\ Leave(c) /\ epoch' = epoch /\ now' = now
      BY <2>6 DEF Release, InLease, Owning
    <3>2. Service!Return(c)
      BY <2>6, <3>1, LeaveForgets
         DEF Release, Service!Return, Service!AfterRelease, AfterRelease
    <3>3. QED
      BY <3>2 DEF Service!Next
  <2>7. ASSUME NEW c \in Callers, Die(c)
        PROVE  [Service!Next]_(Service!svars)
    <3>1. Leave(c) /\ UNCHANGED <<now, lease, epoch>>
      BY <2>7 DEF Die
    <3>2. CASE InLease(c)
      <4>1. Service!Die({c})
        BY <3>1, <3>2, LeaveForgets DEF Service!Die
      <4>2. QED
        BY <4>1, <3>2 DEF Service!Next
    <3>3. CASE ~InLease(c)
      BY <3>1, <3>3, InvisibleLeave
    <3>4. QED
      BY <3>2, <3>3
  <2>8. CASE Tick
    <3>1. Service!Tick
      BY <2>8 DEF Tick, Service!Tick, locals, InLease
    <3>2. QED
      BY <3>1 DEF Service!Next
  <2>9. ASSUME NEW exp \in {now, now + Lifetime}, Reconnect(exp)
        PROVE  UNCHANGED Service!svars
    BY <2>9 DEF Reconnect, Service!svars, locals, InLease
  <2>10. CASE Revoke
    <3>1. \A c \in Callers : InLease(c)' <=> InLease(c)
      BY <2>10 DEF Revoke, InLease
    <3>2. \A c \in Callers : born'[c] # epoch'
      BY <2>10 DEF Revoke, locals, NothingAhead, TypeOK, SharedOK, LocalsOK
    <3>3. Service!Drop
      BY <2>10, <3>1, <3>2 DEF Revoke, Service!Drop, locals
    <3>4. QED
      BY <3>3 DEF Service!Next
  <2>11. CASE UNCHANGED vars
    BY <2>11 DEF vars, Service!svars, InLease
  <2>12. QED
    BY <2>2, <2>3, <2>4, <2>5, <2>6, <2>7, <2>8, <2>9, <2>10, <2>11
       DEF Next, Step
<1>3. LeaseInv => NothingAhead
  BY DEF LeaseInv
<1>4. QED
  BY <1>1, <1>2, <1>3, TypeCorrect, LeaseInvariant, ServiceInvariant, PTL
     DEF Spec, ImplementsLease, Service!Spec

=============================================================================
