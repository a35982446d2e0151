------------------------- MODULE BusDispatchProofs -------------------------
(***************************************************************************)
(* Proofs about BusDispatch, for every set of workers, events and          *)
(* subscriptions, every back-off policy and every number of replays and    *)
(* restarts: the types, the outcomes of deliveries, and their leases, of   *)
(* which each implements LeaseService.                                     *)
(*                                                                         *)
(* The last part is about CaptureSoak, whose specification takes its steps *)
(* from BusDispatch: what the bridge files and logs.                       *)
(***************************************************************************)
EXTENDS CaptureSoak, TLAPS, FiniteSetTheorems

\* The worker is between taking a delivery from its list and writing its row.
Attempting == {"lookup", "fast", "clock", "acquire", "reread", "deliver",
               "succeeded", "failed"}

\* The worker has yet to write the outcome of its event for this subscription.
Ahead(w, s) ==
  \/ pc[w] = "match"
  \/ pc[w] # "idle" /\ \E d \in todo[w] : d.sub = s
  \/ pc[w] \in Attempting /\ sub[w] = s

\* A worker that serves a request has a recorded event in hand, and in an
\* attempt a subscription.
Located ==
  \A w \in Workers :
    /\ pc[w] # "idle" => ev[w] \in events
    /\ pc[w] \notin {"idle", "match", "loop"} => sub[w] \in Subs

\* Dispatches start from the list of matches, and a list has one entry for
\* each subscription, the one the worker is at excluded.
LocalsFit ==
  \A w \in Workers :
    /\ pc[w] = "match" => op[w] = "publish"
    /\ \A d, f \in todo[w] : d.sub = f.sub => d = f
    /\ pc[w] \in Attempting => \A d \in todo[w] : d.sub # sub[w]

\* No two threads dispatch one event at the same time.
OneDispatchPerEvent ==
  \A v, w \in Workers :
    (/\ pc[v] # "idle" /\ op[v] = "publish"
     /\ pc[w] # "idle" /\ op[w] = "publish" /\ ev[v] = ev[w]) => v = w

\* The rows of an event that is not recorded are not there, and nobody has
\* handled it.
Unpublished ==
  \A e \in Events \ events, s \in Subs :
    row[<<e, s>>] = NoRow /\ effects[<<e, s>>] = 0

\* A publish finds no row for what it has yet to do; a replay finds one.
RowsSplit ==
  \A w \in Workers, s \in Subs :
    /\ pc[w] # "idle" /\ op[w] = "publish" /\ Ahead(w, s)
         => row[<<ev[w], s>>] = NoRow
    /\ pc[w] # "idle" /\ op[w] = "replay" /\ Ahead(w, s)
         => row[<<ev[w], s>>] # NoRow

\* The idempotency gate: one dispatch of an event, to which its rows belong.
GateInv == LocalsFit /\ OneDispatchPerEvent /\ Unpublished /\ RowsSplit

OneReplay ==
  \A v, w \in Workers :
    (/\ pc[v] # "idle" /\ op[v] = "replay"
     /\ pc[w] # "idle" /\ op[w] = "replay" /\ ev[v] = ev[w]) => v = w

\* What a replay has listed is as it was listed; the row it is at is pending.
ReplayFits ==
  \A w \in Workers :
    pc[w] # "idle" /\ op[w] = "replay" =>
      /\ \A d \in todo[w] : /\ Dead(<<ev[w], d.sub>>)
                            /\ row[<<ev[w], d.sub>>].attempts = d.attempts
      /\ pc[w] \in Attempting => row[Key(w)].status = "pending"

\* Nobody has handled what is still to be delivered, nor what is dead.
Unhandled ==
  /\ \A w \in Workers, s \in Subs :
       pc[w] # "idle" /\ Ahead(w, s) /\ ~(pc[w] = "succeeded" /\ sub[w] = s)
         => effects[<<ev[w], s>>] = 0
  /\ \A k \in Keys : effects[k] <= 1
  /\ \A k \in Keys : Dead(k) => effects[k] = 0

\* An attempt counts from the row it will write.
TriesFit ==
  \A w \in Workers :
    pc[w] \in {"deliver", "succeeded", "failed"} =>
      tries[w] = IF row[Key(w)] = NoRow THEN 1 ELSE row[Key(w)].attempts + 1

\* What makes HandledOnce inductive.
Undisturbed == OneReplay /\ ReplayFits /\ Unhandled /\ TriesFit
OnceInv == faults = {} => Undisturbed

-----------------------------------------------------------------------------
(* Typing. *)

\* In an attempt the key of the delivery is a key of the ledger.
LEMMA KeyTyped ==
  ASSUME TypeOK, Located, NEW w \in Workers,
         pc[w] \notin {"idle", "match", "loop"}
  PROVE  Key(w) \in Keys
BY DEF TypeOK, Located, Key, Keys

\* What a replay lists are rows of the event it is about.
LEMMA ListTyped ==
  ASSUME TypeOK, NEW e \in Events
  PROVE  {[sub |-> s, attempts |-> row[<<e, s>>].attempts] :
            s \in {t \in Subs : Dead(<<e, t>>)}} \subseteq Listed
<1>1. \A s \in Subs : Dead(<<e, s>>) => row[<<e, s>>].attempts \in Nat
  BY DEF TypeOK, Dead, Keys, Rows
<1>2. \A s \in {t \in Subs : Dead(<<e, t>>)} :
        [sub |-> s, attempts |-> row[<<e, s>>].attempts] \in Listed
  BY <1>1 DEF Listed
<1>3. QED
  BY <1>2, Zenon

\* The bus starts well typed.
LEMMA BusTypeInit == Init => TypeOK /\ Located
  BY BusConstantsOK DEF Init, TypeOK, Located, LeaseRows, Labels, Faults

\* Every step of the bus keeps the types.
LEMMA BusTypeStep == TypeOK /\ Located /\ [Next]_vars => TypeOK' /\ Located'
<1> SUFFICES ASSUME TypeOK, Located, [Next]_vars
             PROVE  TypeOK' /\ Located'
  OBVIOUS
<1> USE BusConstantsOK
<1>2. TypeOK'
  <2> USE DEF TypeOK, ledger, locals, history, bounds, Goto, LeaseRows,
                   Labels, Faults, Rows, Row, Listed
  <2>1. ASSUME NEW w \in Workers, NEW e \in Events, Publish(w, e)
        PROVE  TypeOK'
    BY <2>1 DEF Publish
  <2>2. ASSUME NEW w \in Workers, NEW e \in Events, Deduped(w, e)
        PROVE  TypeOK'
    BY <2>2 DEF Deduped, vars
  <2>3. ASSUME NEW w \in Workers, NEW e \in Events, Replay(w, e)
        PROVE  TypeOK'
    <3>1. todo' \in [Workers -> SUBSET Listed]
      BY <2>3, ListTyped DEF Replay
    <3>2. faults' \subseteq Faults
      BY <2>3 DEF Replay
    <3>3. /\ e \in Events
          /\ replays' = replays + 1 /\ op' = [op EXCEPT ![w] = "replay"]
          /\ ev' = [ev EXCEPT ![w] = e] /\ pc' = [pc EXCEPT ![w] = "loop"]
          /\ UNCHANGED <<events, subs, row, lease, sub, tnow, until, tries,
                         effects, maxAttempts, now, unused, crashes>>
      BY <2>3 DEF Replay
    <3>4. QED
      BY <3>1, <3>2, <3>3
  <2>4. ASSUME NEW w \in Workers, Match(w)
        PROVE  TypeOK'
    <3>1. [sub : subs, attempts : {0}] \subseteq Listed
      OBVIOUS
    <3>2. QED
      BY <2>4, <3>1 DEF Match
  <2>5. ASSUME NEW w \in Workers, Answer(w)
        PROVE  TypeOK'
    BY <2>5 DEF Answer
  <2>6. ASSUME NEW w \in Workers, NextSub(w)
        PROVE  TypeOK'
    BY <2>6 DEF NextSub
  <2>7. ASSUME NEW w \in Workers, NextDead(w)
        PROVE  TypeOK'
    <3>1. PICK d \in todo[w] : NextDead(w)!3!(d)
      BY <2>7 DEF NextDead
    <3>2. d \in Listed /\ todo[w] \ {d} \in SUBSET Listed
      OBVIOUS
    <3>3. row' \in [Keys -> {NoRow} \cup Rows]
      BY <3>1, <3>2
    <3>4. todo' \in [Workers -> SUBSET Listed]
      BY <3>1, <3>2
    <3>5. sub' \in [Workers -> {NoSub} \cup Subs]
      BY <3>1, <3>2
    <3>6. pc' \in [Workers -> Labels]
      BY <2>7 DEF NextDead
    <3>7. UNCHANGED <<events, subs, lease, op, ev, tnow, until, tries, history,
                      bounds>>
      BY <2>7 DEF NextDead
    <3>8. QED
      BY <3>3, <3>4, <3>5, <3>6, <3>7
  <2>8. ASSUME NEW w \in Workers, Lookup(w)
        PROVE  TypeOK'
    BY <2>8 DEF Lookup
  <2>9. ASSUME NEW w \in Workers, FastPath(w)
        PROVE  TypeOK'
    BY <2>9 DEF FastPath
  <2>10. ASSUME NEW w \in Workers, ReadClock(w)
         PROVE  TypeOK'
    BY <2>10 DEF ReadClock
  <2>11. ASSUME NEW w \in Workers, Acquire(w)
         PROVE  TypeOK'
    <3>1. Key(w) \in Keys
      BY <2>11, KeyTyped DEF Acquire
    <3>2. Leased(w, tnow[w] + LeaseTTL) \in [holder : Workers, until : Nat]
      BY DEF Leased
    <3>3. QED
      BY <2>11, <3>1, <3>2 DEF Acquire
  <2>12. ASSUME NEW w \in Workers, Skip(w)
         PROVE  TypeOK'
    BY <2>12 DEF Skip
  <2>13. ASSUME NEW w \in Workers, Reread(w)
         PROVE  TypeOK'
    <3>1. Key(w) \in Keys
      BY <2>13, KeyTyped DEF Reread
    <3>2. row[Key(w)] # NoRow => row[Key(w)].attempts + 1 \in Nat
      BY <3>1
    <3>3. QED
      BY <2>13, <3>2 DEF Reread
  <2>14. ASSUME NEW w \in Workers, DeliverOK(w)
         PROVE  TypeOK'
    <3>1. Key(w) \in Keys
      BY <2>14, KeyTyped DEF DeliverOK
    <3>2. QED
      BY <2>14, <3>1 DEF DeliverOK
  <2>15. ASSUME NEW w \in Workers, DeliverFails(w)
         PROVE  TypeOK'
    BY <2>15 DEF DeliverFails
  <2>16. ASSUME NEW w \in Workers, DeliverUnanswered(w)
         PROVE  TypeOK'
    <3>1. Key(w) \in Keys
      BY <2>16, KeyTyped DEF DeliverUnanswered
    <3>2. QED
      BY <2>16, <3>1 DEF DeliverUnanswered
  <2>17. ASSUME NEW w \in Workers, RecordOutcome(w)
         PROVE  TypeOK'
    BY <2>17 DEF RecordOutcome
  <2>18. ASSUME NEW w \in Workers, Release(w)
         PROVE  TypeOK'
    <3>1. Key(w) \in Keys
      BY <2>18, KeyTyped DEF Release
    <3>2. QED
      BY <2>18, <3>1 DEF Release, AfterRelease
  <2>19. ASSUME NEW s \in Subs, Subscribe(s)
         PROVE  TypeOK'
    BY <2>19 DEF Subscribe
  <2>20. ASSUME NEW s \in Subs, Unsubscribe(s)
         PROVE  TypeOK'
    BY <2>20 DEF Unsubscribe
  <2>21. CASE Tick
    BY <2>21 DEF Tick
  <2>22. CASE Restart
    BY <2>22 DEF Restart
  <2>23. CASE UNCHANGED vars
    BY <2>23 DEF vars
  <2>24. QED
    BY <2>1, <2>2, <2>3, <2>4, <2>5, <2>6, <2>7, <2>8, <2>9, <2>10, <2>11,
       <2>12, <2>13, <2>14, <2>15, <2>16, <2>17, <2>18, <2>19, <2>20, <2>21,
       <2>22, <2>23 DEF Next, Step
<1>3. Located'
  <2> USE DEF TypeOK, Located, ledger, locals, history, bounds, Goto
  <2>1. ASSUME NEW w \in Workers, NEW e \in Events,
               Publish(w, e) \/ Deduped(w, e) \/ Replay(w, e)
        PROVE  Located'
    BY <2>1 DEF Publish, Deduped, Replay, vars
  <2>2. ASSUME NEW w \in Workers, Match(w) \/ Answer(w)
        PROVE  Located'
    BY <2>2 DEF Match, Answer
  <2>3. ASSUME NEW w \in Workers, NextSub(w) \/ NextDead(w)
        PROVE  Located'
    <3>1. PICK d \in todo[w] : sub' = [sub EXCEPT ![w] = d.sub]
      BY <2>3 DEF NextSub, NextDead
    <3>2. d.sub \in Subs
      BY DEF Listed
    <3>3. QED
      BY <2>3, <3>1, <3>2 DEF NextSub, NextDead
  <2>4. ASSUME NEW w \in Workers, Lookup(w) \/ FastPath(w) \/ ReadClock(w)
        PROVE  Located'
    BY <2>4 DEF Lookup, FastPath, ReadClock
  <2>5. ASSUME NEW w \in Workers, Acquire(w) \/ Skip(w) \/ Reread(w)
        PROVE  Located'
    BY <2>5 DEF Acquire, Skip, Reread
  <2>6. ASSUME NEW w \in Workers,
               DeliverOK(w) \/ DeliverFails(w) \/ DeliverUnanswered(w)
        PROVE  Located'
    BY <2>6 DEF DeliverOK, DeliverFails, DeliverUnanswered
  <2>7. ASSUME NEW w \in Workers, RecordOutcome(w) \/ Release(w)
        PROVE  Located'
    BY <2>7 DEF RecordOutcome, Release
  <2>8. ASSUME NEW s \in Subs, Subscribe(s) \/ Unsubscribe(s)
        PROVE  Located'
    BY <2>8 DEF Subscribe, Unsubscribe
  <2>9. CASE Tick \/ Restart \/ UNCHANGED vars
    BY <2>9 DEF Tick, Restart, vars
  <2>10. QED
    BY <2>1, <2>2, <2>3, <2>4, <2>5, <2>6, <2>7, <2>8, <2>9 DEF Next, Step
<1>4. QED
  BY <1>2, <1>3

\* Every reachable state is well typed.
THEOREM BusTypeCorrect == Spec => [](TypeOK /\ Located)
  BY BusTypeInit, BusTypeStep, PTL DEF Spec

-----------------------------------------------------------------------------
(* The idempotency gate. *)

\* A worker that stays in its attempt, or leaves it, keeps GateInv.
LEMMA GateMove ==
  ASSUME TypeOK, Located, GateInv, NEW w \in Workers, NEW l \in Labels,
         pc[w] \notin {"idle", "match"}, l \notin {"idle", "match"},
         l \in Attempting => pc[w] \in Attempting,
         pc' = [pc EXCEPT ![w] = l],
         UNCHANGED <<events, row, op, ev, todo, sub>>,
         \A e \in Events \ events, s \in Subs :
           effects'[<<e, s>>] = effects[<<e, s>>]
  PROVE  GateInv'
<1> USE DEF TypeOK, GateInv
<1>1. \A v \in Workers : /\ pc'[v] # "idle" => pc[v] # "idle"
                         /\ pc'[v] \in Attempting => pc[v] \in Attempting
                         /\ pc'[v] = "match" => pc[v] = "match"
  OBVIOUS
<1>2. LocalsFit'
  BY <1>1 DEF LocalsFit
<1>3. OneDispatchPerEvent'
  BY <1>1 DEF OneDispatchPerEvent
<1>4. Unpublished'
  BY DEF Unpublished
<1>5. \A v \in Workers, s \in Subs : Ahead(v, s)' => Ahead(v, s)
  BY <1>1 DEF Ahead
<1>6. RowsSplit'
  BY <1>1, <1>5 DEF RowsSplit
<1>7. QED
  BY <1>2, <1>3, <1>4, <1>6

\* The first to record an event is the one that dispatches it.
LEMMA GatePublish ==
  ASSUME TypeOK, Located, GateInv, NEW w \in Workers, NEW e \in Events,
         Publish(w, e)
  PROVE  GateInv'
<1> USE DEF TypeOK, GateInv
<1>1. /\ pc[w] = "idle" /\ e \notin events /\ events' = events \cup {e}
      /\ op' = [op EXCEPT ![w] = "publish"] /\ ev' = [ev EXCEPT ![w] = e]
      /\ pc' = [pc EXCEPT ![w] = "match"]
      /\ UNCHANGED <<row, todo, sub, effects>>
  BY DEF Publish, Goto, history
<1>2. \A v \in Workers \ {w} :
        pc[v] # "idle" => ev[v] # e /\ ev'[v] = ev[v] /\ ev[v] \in Events
  BY <1>1 DEF Located
<1>3. LocalsFit'
  BY <1>1 DEF LocalsFit, Attempting
<1>4. OneDispatchPerEvent'
  BY <1>1, <1>2 DEF OneDispatchPerEvent
<1>5. Unpublished'
  BY <1>1 DEF Unpublished
<1>6. \A v \in Workers \ {w}, s \in Subs : Ahead(v, s)' <=> Ahead(v, s)
  BY <1>1 DEF Ahead
<1>7. \A s \in Subs : row[<<e, s>>] = NoRow
  BY <1>1 DEF Unpublished
<1>8. RowsSplit'
  BY <1>1, <1>2, <1>6, <1>7 DEF RowsSplit
<1>9. QED
  BY <1>3, <1>4, <1>5, <1>8

\* A replay lists rows that are there, each once.
LEMMA GateReplay ==
  ASSUME TypeOK, Located, GateInv, NEW w \in Workers, NEW e \in Events,
         Replay(w, e)
  PROVE  GateInv'
<1> USE DEF TypeOK, GateInv
<1> DEFINE D == {t \in Subs : Dead(<<e, t>>)}
           L == {[sub |-> s, attempts |-> row[<<e, s>>].attempts] : s \in D}
<1>1. /\ pc[w] = "idle" /\ e \in events
      /\ op' = [op EXCEPT ![w] = "replay"] /\ ev' = [ev EXCEPT ![w] = e]
      /\ pc' = [pc EXCEPT ![w] = "loop"] /\ todo' = [todo EXCEPT ![w] = L]
      /\ UNCHANGED <<events, row, sub, effects>>
  BY DEF Replay, Goto, ledger
<1>2. /\ \A d, f \in L : d.sub = f.sub => d = f
      /\ \A d \in L : d.sub \in Subs /\ row[<<e, d.sub>>] # NoRow
  <2>1. \A t \in D : t \in Subs /\ row[<<e, t>>] # NoRow
    BY DEF Dead
  <2> HIDE DEF D
  <2>2. \A d \in L : \E s \in D :
          d = [sub |-> s, attempts |-> row[<<e, s>>].attempts]
    OBVIOUS
  <2> HIDE DEF L
  <2>3. \A d \in L :
          /\ d.sub \in D
          /\ d = [sub |-> d.sub, attempts |-> row[<<e, d.sub>>].attempts]
    <3>1. TAKE d \in L
    <3>2. PICK s \in D : d = [sub |-> s, attempts |-> row[<<e, s>>].attempts]
      BY <2>2
    <3>3. d.sub = s
      BY <3>2
    <3>4. QED
      BY <3>2, <3>3
  <2>4. \A d, f \in L : d.sub = f.sub => d = f
    BY <2>3, Zenon
  <2>5. \A d \in L : d.sub \in Subs /\ row[<<e, d.sub>>] # NoRow
    BY <2>1, <2>3, Zenon
  <2>6. QED
    BY <2>4, <2>5
<1> HIDE DEF L
<1>3. LocalsFit'
  BY <1>1, <1>2 DEF LocalsFit, Attempting
<1>4. OneDispatchPerEvent'
  BY <1>1 DEF OneDispatchPerEvent
<1>5. Unpublished'
  BY <1>1 DEF Unpublished
<1>6. \A v \in Workers \ {w}, s \in Subs : Ahead(v, s)' <=> Ahead(v, s)
  BY <1>1 DEF Ahead
<1>7. \A s \in Subs : Ahead(w, s)' => row[<<e, s>>] # NoRow
  BY <1>1, <1>2 DEF Ahead, Attempting
<1>8. RowsSplit'
  BY <1>1, <1>6, <1>7 DEF RowsSplit
<1>9. QED
  BY <1>3, <1>4, <1>5, <1>8

\* The list of matches has each subscription once.
LEMMA GateMatch ==
  ASSUME TypeOK, Located, GateInv, NEW w \in Workers, Match(w)
  PROVE  GateInv'
<1> USE DEF TypeOK, GateInv
<1>1. /\ pc[w] = "match" /\ pc' = [pc EXCEPT ![w] = "loop"]
      /\ todo' = [todo EXCEPT ![w] = [sub : subs, attempts : {0}]]
      /\ UNCHANGED <<events, row, op, ev, sub, effects>>
  BY DEF Match, Goto, ledger, history
<1>2. \A d, f \in [sub : subs, attempts : {0}] : d.sub = f.sub => d = f
  OBVIOUS
<1>3. LocalsFit'
  BY <1>1, <1>2 DEF LocalsFit, Attempting
<1>4. OneDispatchPerEvent'
  BY <1>1 DEF OneDispatchPerEvent
<1>5. Unpublished'
  BY <1>1 DEF Unpublished
<1>6. \A v \in Workers, s \in Subs : Ahead(v, s)' => Ahead(v, s)
  BY <1>1 DEF Ahead, Attempting
<1>7. RowsSplit'
  BY <1>1, <1>6 DEF RowsSplit
<1>8. QED
  BY <1>3, <1>4, <1>5, <1>7

\* A worker that goes back to the pool is ahead of nothing.
LEMMA GateAnswer ==
  ASSUME TypeOK, Located, GateInv, NEW w \in Workers, Answer(w)
  PROVE  GateInv'
<1> USE DEF TypeOK, GateInv
<1>1. /\ pc' = [pc EXCEPT ![w] = "idle"] /\ ev' = [ev EXCEPT ![w] = NoEvent]
      /\ sub' = [sub EXCEPT ![w] = NoSub]
      /\ UNCHANGED <<events, row, op, todo, effects>>
  BY DEF Answer, Goto, ledger, history
<1>2. LocalsFit'
  BY <1>1 DEF LocalsFit, Attempting
<1>3. OneDispatchPerEvent'
  BY <1>1 DEF OneDispatchPerEvent
<1>4. Unpublished'
  BY <1>1 DEF Unpublished
<1>5. \A v \in Workers \ {w}, s \in Subs : Ahead(v, s)' <=> Ahead(v, s)
  BY <1>1 DEF Ahead
<1>6. RowsSplit'
  BY <1>1, <1>5 DEF RowsSplit
<1>7. QED
  BY <1>2, <1>3, <1>4, <1>6

\* The next of the list: the worker was ahead of it and still is.
LEMMA GateNext ==
  ASSUME TypeOK, Located, GateInv, NEW w \in Workers, NEW l \in Attempting,
         NEW d \in todo[w], pc[w] = "loop",
         pc' = [pc EXCEPT ![w] = l], todo' = [todo EXCEPT ![w] = @ \ {d}],
         sub' = [sub EXCEPT ![w] = d.sub],
         UNCHANGED <<events, op, ev, effects>>,
         row' \in [Keys -> {NoRow} \cup Rows],
         \A k \in Keys : row'[k] # row[k] =>
           row[k] # NoRow /\ row'[k] # NoRow
  PROVE  GateInv'
<1> USE DEF TypeOK, GateInv
<1>1. d \in Listed /\ d.sub \in Subs /\ l \notin {"idle", "match", "loop"}
  BY DEF Listed, Attempting
<1>2. LocalsFit'
  BY <1>1 DEF LocalsFit
<1>3. OneDispatchPerEvent'
  BY DEF OneDispatchPerEvent
<1>4. Unpublished'
  BY DEF Unpublished, Keys
<1>5. \A v \in Workers, s \in Subs : Ahead(v, s)' => Ahead(v, s)
  BY <1>1 DEF Ahead
<1>6. \A k \in Keys : row'[k] = NoRow <=> row[k] = NoRow
  OBVIOUS
<1>7. \A v \in Workers, s \in Subs : pc[v] # "idle" => <<ev[v], s>> \in Keys
  BY DEF Located, Keys
<1>8. RowsSplit'
  BY <1>1, <1>5, <1>6, <1>7 DEF RowsSplit
<1>9. QED
  BY <1>2, <1>3, <1>4, <1>8

\* The outcome of a delivery is written by the only publish that is at it.
LEMMA GateRecord ==
  ASSUME TypeOK, Located, GateInv, NEW w \in Workers, RecordOutcome(w)
  PROVE  GateInv'
<1> USE DEF TypeOK, GateInv
<1>1. /\ pc[w] \in {"succeeded", "failed"}
      /\ pc' = [pc EXCEPT ![w] = "release"]
      /\ UNCHANGED <<events, op, ev, todo, sub, effects>>
  BY DEF RecordOutcome, Goto, history
<1>2. Key(w) \in Keys /\ pc[w] \in Attempting /\ ev[w] \in events
      /\ sub[w] \in Subs
  BY <1>1, KeyTyped DEF Attempting, Located
<1>3. \E st \in {"pending", "delivered", "dead"} :
        row' = [row EXCEPT ![Key(w)] = Row(st, tries[w])]
  BY DEF RecordOutcome
<1>4. /\ row'[Key(w)] \in Rows
      /\ \A k \in Keys \ {Key(w)} : row'[k] = row[k]
  BY <1>2, <1>3 DEF Row, Rows
<1>5. row'[Key(w)] # NoRow
  BY <1>4, NoRowIsNoRow DEF Rows
<1>6. LocalsFit'
  BY <1>1 DEF LocalsFit, Attempting
<1>7. OneDispatchPerEvent'
  BY <1>1 DEF OneDispatchPerEvent
<1>8. Unpublished'
  BY <1>1, <1>2, <1>4 DEF Unpublished, Keys, Key
<1>9. \A v \in Workers, s \in Subs : Ahead(v, s)' => Ahead(v, s)
  BY <1>1 DEF Ahead, Attempting
<1>10. \A s \in Subs : s = sub[w] => ~Ahead(w, s)'
  BY <1>1, <1>2 DEF Ahead, LocalsFit, Attempting
<1>11. Ahead(w, sub[w])
  BY <1>2 DEF Ahead
<1>12. ASSUME NEW v \in Workers, NEW s \in Subs, pc'[v] # "idle",
              Ahead(v, s)'
       PROVE  /\ op'[v] = "publish" => row'[<<ev'[v], s>>] = NoRow
              /\ op'[v] = "replay" => row'[<<ev'[v], s>>] # NoRow
  <2>1. pc[v] # "idle" /\ Ahead(v, s) /\ <<ev[v], s>> \in Keys
    BY <1>1, <1>9, <1>12 DEF Located, Keys
  <2>2. CASE <<ev[v], s>> # Key(w)
    BY <1>1, <1>4, <2>1, <2>2 DEF RowsSplit
  <2>3. CASE <<ev[v], s>> = Key(w)
    <3>1. ev[v] = ev[w] /\ s = sub[w]
      BY <2>3 DEF Key
    <3>2. v # w
      BY <1>10, <1>12, <3>1
    <3>3. op[v] # "publish"
      <4>1. SUFFICES ASSUME op[v] = "publish"
                     PROVE  FALSE
        OBVIOUS
      <4>2. row[<<ev[w], sub[w]>>] = NoRow
        BY <2>1, <3>1, <4>1 DEF RowsSplit
      <4>3. op[w] = "publish"
        BY <1>1, <1>2, <1>11, <4>2 DEF RowsSplit
      <4>4. QED
        BY <1>1, <2>1, <3>1, <3>2, <4>1, <4>3 DEF OneDispatchPerEvent
    <3>4. QED
      BY <1>1, <1>5, <2>3, <3>3
  <2>4. QED
    BY <2>2, <2>3
<1>13. RowsSplit'
  BY <1>12 DEF RowsSplit
<1>14. QED
  BY <1>6, <1>7, <1>8, <1>13

\* After a restart nobody is at anything.
LEMMA GateRestart ==
  ASSUME TypeOK, Located, GateInv, Restart
  PROVE  GateInv'
<1> USE DEF TypeOK, GateInv
<1>1. /\ \A v \in Workers : pc'[v] = "idle" /\ todo'[v] = {}
      /\ UNCHANGED <<events, row, effects>>
  BY DEF Restart, ledger, history
<1>2. LocalsFit'
  BY <1>1 DEF LocalsFit, Attempting
<1>3. OneDispatchPerEvent' /\ Unpublished' /\ RowsSplit'
  BY <1>1 DEF OneDispatchPerEvent, Unpublished, RowsSplit
<1>4. QED
  BY <1>2, <1>3

\* However many requests carry an event, at most one of them dispatches it: the
\* idempotency gate of record_event, for any number of worker threads.
THEOREM PublishGate == Spec => []GateInv
<1>1. Init => GateInv
  BY DEF Init, GateInv, LocalsFit, OneDispatchPerEvent, Unpublished, RowsSplit,
         Attempting, Keys
<1>2. ASSUME TypeOK, Located, GateInv, [Next]_vars
      PROVE  GateInv'
  <2> USE <1>2 DEF ledger, locals, history, bounds, Goto
  <2>1. ASSUME NEW w \in Workers, NEW e \in Events, Publish(w, e)
        PROVE  GateInv'
    BY <2>1, GatePublish
  <2>2. ASSUME NEW w \in Workers, NEW e \in Events, Replay(w, e)
        PROVE  GateInv'
    BY <2>2, GateReplay
  <2>3. ASSUME NEW w \in Workers, Match(w)
        PROVE  GateInv'
    BY <2>3, GateMatch
  <2>4. ASSUME NEW w \in Workers, Answer(w)
        PROVE  GateInv'
    BY <2>4, GateAnswer
  <2>5. ASSUME NEW w \in Workers, NextSub(w)
        PROVE  GateInv'
    <3>1. PICK d \in todo[w] : /\ todo' = [todo EXCEPT ![w] = @ \ {d}]
                               /\ sub' = [sub EXCEPT ![w] = d.sub]
      BY <2>5 DEF NextSub
    <3>2. row' \in [Keys -> {NoRow} \cup Rows]
      BY <2>5 DEF NextSub, TypeOK
    <3>3. QED
      BY <2>5, <3>1, <3>2, GateNext DEF NextSub, Attempting
  <2>6. ASSUME NEW w \in Workers, NextDead(w)
        PROVE  GateInv'
    <3>1. PICK d \in todo[w] :
            /\ todo' = [todo EXCEPT ![w] = @ \ {d}]
            /\ sub' = [sub EXCEPT ![w] = d.sub]
            /\ row' = [row EXCEPT ![<<ev[w], d.sub>>] = Row("pending", d.attempts)]
      BY <2>6 DEF NextDead
    <3>2. Row("pending", d.attempts) \in Rows /\ d.sub \in Subs
      BY DEF TypeOK, Listed, Row, Rows
    <3>3. Row("pending", d.attempts) # NoRow
      BY <3>2, NoRowIsNoRow DEF Rows
    <3>4. row[<<ev[w], d.sub>>] # NoRow
      BY <2>6, <3>2 DEF NextDead, GateInv, RowsSplit, Ahead
    <3>5. /\ row' \in [Keys -> {NoRow} \cup Rows]
          /\ \A k \in Keys : row'[k] # row[k] => row[k] # NoRow /\ row'[k] # NoRow
      BY <3>1, <3>2, <3>3, <3>4 DEF TypeOK
    <3>6. QED
      BY <2>6, <3>1, <3>5, GateNext DEF NextDead, Attempting
  <2>7. ASSUME NEW w \in Workers, Lookup(w) \/ FastPath(w) \/ ReadClock(w)
        PROVE  GateInv'
    BY <2>7, GateMove DEF Lookup, FastPath, ReadClock, Labels, Attempting
  <2>8. ASSUME NEW w \in Workers, Acquire(w) \/ Skip(w) \/ Reread(w)
        PROVE  GateInv'
    BY <2>8, GateMove DEF Acquire, Skip, Reread, Labels, Attempting
  <2>9. ASSUME NEW w \in Workers, DeliverFails(w) \/ Release(w)
        PROVE  GateInv'
    BY <2>9, GateMove DEF DeliverFails, Release, Labels, Attempting
  <2>10. ASSUME NEW w \in Workers, DeliverOK(w) \/ DeliverUnanswered(w)
         PROVE  GateInv'
    <3>1. /\ pc[w] = "deliver"
          /\ \E l \in {"succeeded", "failed"} : pc' = [pc EXCEPT ![w] = l]
          /\ effects' = [effects EXCEPT ![Key(w)] = @ + 1]
          /\ UNCHANGED <<events, row, op, ev, todo, sub>>
      BY <2>10 DEF DeliverOK, DeliverUnanswered
    <3>2. Key(w) \in Keys /\ ev[w] \in events
      BY <3>1, KeyTyped DEF Located
    <3>3. \A e \in Events \ events, s \in Subs :
            effects'[<<e, s>>] = effects[<<e, s>>]
      BY <3>1, <3>2 DEF Key, Keys, TypeOK
    <3>4. QED
      BY <3>1, <3>3, GateMove DEF Labels, Attempting
  <2>11. ASSUME NEW w \in Workers, RecordOutcome(w)
         PROVE  GateInv'
    BY <2>11, GateRecord
  <2>12. CASE Restart
    BY <2>12, GateRestart
  <2>13. ASSUME UNCHANGED <<events, row, pc, op, ev, todo, sub, effects>>
         PROVE  GateInv'
    BY <2>13 DEF GateInv, LocalsFit, OneDispatchPerEvent, Unpublished,
                 RowsSplit, Ahead
  <2>14. ASSUME NEW s \in Subs, Subscribe(s) \/ Unsubscribe(s)
         PROVE  GateInv'
    BY <2>13, <2>14 DEF Subscribe, Unsubscribe
  <2>15. ASSUME NEW w \in Workers, NEW e \in Events, Deduped(w, e)
         PROVE  GateInv'
    BY <2>13, <2>15 DEF Deduped, vars
  <2>16. CASE Tick \/ UNCHANGED vars
    BY <2>13, <2>16 DEF Tick, vars
  <2>17. QED
    BY <2>1, <2>2, <2>3, <2>4, <2>5, <2>6, <2>7, <2>8, <2>9, <2>10, <2>11,
       <2>12, <2>14, <2>15, <2>16 DEF Next, Step
<1>3. QED
  BY <1>1, <1>2, BusTypeCorrect, PTL DEF Spec

-----------------------------------------------------------------------------
(* The first attempts. *)

\* The worker dispatches an event and has not got the lease for s yet.
Coming(w, s) ==
  /\ pc[w] # "idle" /\ op[w] = "publish"
  /\ \/ pc[w] = "match"
     \/ \E d \in todo[w] : d.sub = s
     \/ pc[w] \in {"lookup", "fast", "clock", "acquire"} /\ sub[w] = s

\* The worker dispatches an event and attempts a delivery of it.
AtFirst(w) ==
  op[w] = "publish" /\ pc[w] \in {"reread", "deliver", "succeeded", "failed"}

\* What makes FirstAttemptsAlone inductive, next to GateInv.
FirstInv ==
  /\ \A e \in Events \ events, s \in Subs : lease[<<e, s>>] = NoLease
  /\ \A w \in Workers, s \in Subs : Coming(w, s) =>
       lease[<<ev[w], s>>] = NoLease /\ effects[<<ev[w], s>>] = 0
  /\ \A w \in Workers : AtFirst(w) => lease[Key(w)] = Leased(w, until[w])

\* Nobody else works on a delivery that a dispatch has yet to attempt, or
\* attempts.
LEMMA FirstApart ==
  ASSUME TypeOK, Located, GateInv, NEW w \in Workers, NEW s \in Subs,
         Coming(w, s) \/ (AtFirst(w) /\ sub[w] = s),
         NEW v \in Workers, pc[v] \in Attempting, Key(v) = <<ev[w], s>>
  PROVE  v = w
<1>1. pc[w] # "idle" /\ op[w] = "publish" /\ Ahead(w, s)
  BY DEF Coming, AtFirst, Ahead, Attempting
<1>2. pc[v] # "idle" /\ sub[v] = s /\ ev[v] = ev[w] /\ Ahead(v, s)
  BY DEF Key, Attempting, Ahead
<1>3. op[v] \in {"publish", "replay"}
  BY DEF TypeOK
<1>4. op[v] = "publish"
  BY <1>1, <1>2, <1>3 DEF GateInv, RowsSplit
<1>5. QED
  BY <1>1, <1>2, <1>4 DEF GateInv, OneDispatchPerEvent

\* A step that leaves the leases and the handled events alone and lets no
\* dispatch begin anew.
LEMMA FirstKept ==
  ASSUME FirstInv, UNCHANGED <<lease, effects>>, events \subseteq events',
         \A w \in Workers, s \in Subs :
           Coming(w, s)' => Coming(w, s) /\ ev'[w] = ev[w],
         \A w \in Workers : AtFirst(w)' =>
           AtFirst(w) /\ Key(w)' = Key(w) /\ until'[w] = until[w]
  PROVE  FirstInv'
BY DEF FirstInv

LEMMA FirstPublish ==
  ASSUME TypeOK, Located, GateInv, FirstInv, NEW w \in Workers,
         NEW e \in Events, Publish(w, e)
  PROVE  FirstInv'
<1>1. /\ e \notin events /\ events' = events \cup {e}
      /\ pc' = [pc EXCEPT ![w] = "match"] /\ op' = [op EXCEPT ![w] = "publish"]
      /\ ev' = [ev EXCEPT ![w] = e]
      /\ UNCHANGED <<lease, effects, todo, sub, until>>
  BY DEF Publish, Goto, history
<1>2. \A s \in Subs : lease[<<e, s>>] = NoLease /\ effects[<<e, s>>] = 0
  BY <1>1 DEF FirstInv, GateInv, Unpublished
<1>3. ASSUME NEW v \in Workers, NEW s \in Subs, Coming(v, s)'
      PROVE  lease[<<ev'[v], s>>] = NoLease /\ effects[<<ev'[v], s>>] = 0
  <2>1. CASE v = w
    BY <1>1, <1>2, <2>1 DEF TypeOK
  <2>2. CASE v # w
    BY <1>1, <1>3, <2>2 DEF FirstInv, Coming, TypeOK
  <2>3. QED
    BY <2>1, <2>2
<1>4. ASSUME NEW v \in Workers, AtFirst(v)'
      PROVE  AtFirst(v) /\ Key(v)' = Key(v) /\ until'[v] = until[v]
  BY <1>1, <1>4 DEF AtFirst, Key, TypeOK
<1>5. QED
  BY <1>1, <1>3, <1>4 DEF FirstInv

\* acquire_lease finds no row of a delivery that is attempted first.
LEMMA FirstAcquire ==
  ASSUME TypeOK, Located, GateInv, FirstInv, NEW c \in Workers, Acquire(c)
  PROVE  FirstInv'
<1>1. /\ pc[c] = "acquire" /\ pc' = [pc EXCEPT ![c] = "reread"]
      /\ lease' = [lease EXCEPT ![Key(c)] = Leased(c, tnow[c] + LeaseTTL)]
      /\ until' = [until EXCEPT ![c] = tnow[c] + LeaseTTL]
      /\ UNCHANGED <<events, op, ev, todo, sub, effects>>
  BY DEF Acquire, Goto, history
<1>2. Key(c) \in Keys /\ ev[c] \in events /\ \A v \in Workers : Key(v)' = Key(v)
  BY <1>1, KeyTyped DEF Key, Located
<1>3. ASSUME NEW e \in Events \ events', NEW s \in Subs
      PROVE  lease'[<<e, s>>] = NoLease
  BY <1>1, <1>2 DEF FirstInv, Key, Keys, TypeOK
<1>4. ASSUME NEW v \in Workers, NEW s \in Subs, Coming(v, s)'
      PROVE  lease'[<<ev'[v], s>>] = NoLease /\ effects'[<<ev'[v], s>>] = 0
  <2>1. Coming(v, s) /\ (v = c => s # sub[c])
    BY <1>1, <1>4 DEF Coming, TypeOK, GateInv, LocalsFit, Attempting
  <2>2. Key(c) # <<ev[v], s>>
    <3>1. CASE v = c
      BY <2>1, <3>1 DEF Key
    <3>2. CASE v # c
      BY <1>1, <2>1, <3>2, FirstApart DEF Attempting
    <3>3. QED
      BY <3>1, <3>2
  <2>3. <<ev[v], s>> \in Keys
    BY <2>1 DEF Located, Coming, TypeOK, Keys
  <2>4. QED
    BY <1>1, <2>1, <2>2, <2>3 DEF FirstInv, TypeOK
<1>5. ASSUME NEW v \in Workers, AtFirst(v)'
      PROVE  lease'[Key(v)'] = Leased(v, until'[v])
  <2>1. CASE v = c
    BY <1>1, <1>2, <2>1 DEF TypeOK
  <2>2. CASE v # c
    <3>1. AtFirst(v) /\ until'[v] = until[v] /\ Key(v)' = Key(v)
      BY <1>1, <1>2, <1>5, <2>2 DEF AtFirst, TypeOK
    <3>2. Key(v) \in Keys /\ sub[v] \in Subs
      BY <3>1, KeyTyped DEF AtFirst, Located
    <3>3. Key(c) # Key(v)
      BY <1>1, <2>2, <3>1, <3>2, FirstApart DEF Attempting, Key
    <3>4. QED
      BY <1>1, <3>1, <3>2, <3>3 DEF FirstInv, TypeOK
  <2>3. QED
    BY <2>1, <2>2
<1>6. QED
  BY <1>3, <1>4, <1>5 DEF FirstInv

\* release_lease removes only a row that names the leaving worker.
LEMMA FirstRelease ==
  ASSUME TypeOK, Located, GateInv, FirstInv, NEW c \in Workers, Release(c)
  PROVE  FirstInv'
<1>1. /\ pc[c] = "release" /\ pc' = [pc EXCEPT ![c] = "loop"]
      /\ lease' = [lease EXCEPT ![Key(c)] = AfterRelease(@, c)]
      /\ until' = [until EXCEPT ![c] = 0]
      /\ UNCHANGED <<events, op, ev, todo, sub, effects>>
  BY DEF Release, Goto, history
<1>2. Key(c) \in Keys /\ \A v \in Workers : Key(v)' = Key(v)
  BY <1>1, KeyTyped DEF Key
<1>3. \A k \in Keys : lease[k] = NoLease => lease'[k] = NoLease
  BY <1>1, <1>2 DEF AfterRelease, TypeOK
<1>4. ASSUME NEW e \in Events \ events', NEW s \in Subs
      PROVE  lease'[<<e, s>>] = NoLease
  BY <1>1, <1>3 DEF FirstInv, Keys
<1>5. ASSUME NEW v \in Workers, NEW s \in Subs, Coming(v, s)'
      PROVE  lease'[<<ev'[v], s>>] = NoLease /\ effects'[<<ev'[v], s>>] = 0
  <2>1. Coming(v, s)
    BY <1>1, <1>5 DEF Coming, TypeOK
  <2>2. <<ev[v], s>> \in Keys
    BY <2>1 DEF Located, Coming, TypeOK, Keys
  <2>3. QED
    BY <1>1, <1>3, <2>1, <2>2 DEF FirstInv
<1>6. ASSUME NEW v \in Workers, AtFirst(v)'
      PROVE  lease'[Key(v)'] = Leased(v, until'[v])
  <2>1. v # c /\ AtFirst(v) /\ until'[v] = until[v] /\ Key(v)' = Key(v)
    BY <1>1, <1>2, <1>6 DEF AtFirst, TypeOK
  <2>2. Key(v) \in Keys /\ lease[Key(v)] = Leased(v, until[v])
    BY <2>1, KeyTyped DEF AtFirst, FirstInv
  <2>3. lease'[Key(v)] = lease[Key(v)]
    BY <1>1, <1>2, <2>1, <2>2 DEF AfterRelease, Leased, TypeOK
  <2>4. QED
    BY <2>1, <2>2, <2>3
<1>7. QED
  BY <1>4, <1>5, <1>6 DEF FirstInv

\* A handler does its work, whether its answer arrives or not.
LEMMA FirstDeliver ==
  ASSUME TypeOK, Located, GateInv, FirstInv, NEW c \in Workers,
         DeliverOK(c) \/ DeliverUnanswered(c)
  PROVE  FirstInv'
<1>1. PICK l \in {"succeeded", "failed"} :
        /\ pc[c] = "deliver" /\ pc' = [pc EXCEPT ![c] = l]
        /\ effects' = [effects EXCEPT ![Key(c)] = @ + 1]
        /\ UNCHANGED <<events, lease, op, ev, todo, sub, until>>
  BY DEF DeliverOK, DeliverUnanswered, Goto, ledger, locals
<1>2. \A v \in Workers : Key(v)' = Key(v)
  BY <1>1 DEF Key
<1>3. ASSUME NEW v \in Workers, NEW s \in Subs, Coming(v, s)'
      PROVE  lease'[<<ev'[v], s>>] = NoLease /\ effects'[<<ev'[v], s>>] = 0
  <2>1. Coming(v, s) /\ (v = c => s # sub[c])
    BY <1>1, <1>3 DEF Coming, TypeOK, GateInv, LocalsFit, Attempting
  <2>2. Key(c) # <<ev[v], s>>
    <3>1. CASE v = c
      BY <2>1, <3>1 DEF Key
    <3>2. CASE v # c
      BY <1>1, <2>1, <3>2, FirstApart DEF Attempting
    <3>3. QED
      BY <3>1, <3>2
  <2>3. <<ev[v], s>> \in Keys
    BY <2>1 DEF Located, Coming, TypeOK, Keys
  <2>4. QED
    BY <1>1, <2>1, <2>2, <2>3 DEF FirstInv, TypeOK
<1>4. ASSUME NEW v \in Workers, AtFirst(v)'
      PROVE  lease'[Key(v)'] = Leased(v, until'[v])
  BY <1>1, <1>2, <1>4 DEF AtFirst, FirstInv, TypeOK
<1>5. QED
  BY <1>1, <1>3, <1>4 DEF FirstInv

\* The other statements of a request.
LEMMA FirstQuiet ==
  ASSUME TypeOK, Located, GateInv, FirstInv, NEW w \in Workers,
         \/ \E e \in Events : Replay(w, e)
         \/ Match(w) \/ Answer(w) \/ NextSub(w) \/ NextDead(w) \/ Lookup(w)
         \/ FastPath(w) \/ ReadClock(w) \/ Skip(w) \/ Reread(w)
         \/ DeliverFails(w) \/ RecordOutcome(w)
  PROVE  FirstInv'
<1>1. UNCHANGED <<lease, effects, events, until>>
  BY DEF Replay, Match, Answer, NextSub, NextDead, Lookup, FastPath, ReadClock,
         Skip, Reread, DeliverFails, RecordOutcome, ledger, locals, history
<1>2. ASSUME NEW v \in Workers, v # w
      PROVE  /\ pc'[v] = pc[v] /\ op'[v] = op[v] /\ ev'[v] = ev[v]
             /\ todo'[v] = todo[v] /\ sub'[v] = sub[v]
  BY <1>2 DEF Replay, Match, Answer, NextSub, NextDead, Lookup, FastPath,
         ReadClock, Skip, Reread, DeliverFails, RecordOutcome, Goto, ledger,
         locals, history, TypeOK
<1>3. ASSUME NEW s \in Subs, Coming(w, s)'
      PROVE  Coming(w, s) /\ ev'[w] = ev[w]
  <2>1. CASE \E e \in Events : Replay(w, e)
    BY <1>3, <2>1 DEF Replay, Coming, TypeOK
  <2>2. CASE Match(w)
    BY <1>3, <2>2 DEF Match, Goto, Coming, ledger, GateInv, LocalsFit, TypeOK
  <2>3. CASE Answer(w)
    BY <1>3, <2>3 DEF Answer, Goto, Coming, TypeOK
  <2>4. CASE NextSub(w) \/ NextDead(w)
    <3>1. PICK d \in todo[w] : todo' = [todo EXCEPT ![w] = @ \ {d}]
                             /\ sub' = [sub EXCEPT ![w] = d.sub]
      BY <2>4 DEF NextSub, NextDead
    <3>2. pc[w] = "loop" /\ UNCHANGED <<op, ev>>
      BY <2>4 DEF NextSub, NextDead
    <3>3. todo'[w] = todo[w] \ {d} /\ sub'[w] = d.sub
      BY <3>1 DEF TypeOK
    <3>4. op[w] = "publish"
      BY <1>3, <3>2 DEF Coming
    <3>5. pc'[w] = "fast"
      BY <2>4, <3>4 DEF NextSub, NextDead, Goto, TypeOK
    <3>6. QED
      BY <1>3, <3>2, <3>3, <3>4, <3>5 DEF Coming
  <2>5. CASE Lookup(w) \/ FastPath(w)
    BY <1>3, <2>5 DEF Lookup, FastPath, Goto, Coming, locals, TypeOK
  <2>6. CASE ReadClock(w) \/ Skip(w)
    BY <1>3, <2>6 DEF ReadClock, Skip, Goto, Coming, TypeOK
  <2>7. CASE Reread(w) \/ DeliverFails(w) \/ RecordOutcome(w)
    BY <1>3, <2>7 DEF Reread, DeliverFails, RecordOutcome, Goto, Coming,
                      locals, TypeOK
  <2>8. QED
    BY <2>1, <2>2, <2>3, <2>4, <2>5, <2>6, <2>7
<1>4. ASSUME AtFirst(w)'
      PROVE  AtFirst(w) /\ Key(w)' = Key(w)
  <2>1. CASE Reread(w) \/ DeliverFails(w) \/ RecordOutcome(w)
    BY <1>4, <2>1 DEF Reread, DeliverFails, RecordOutcome, Goto, AtFirst, Key,
                      locals, TypeOK
  <2>2. CASE \/ \E e \in Events : Replay(w, e)
             \/ Match(w) \/ Answer(w) \/ NextSub(w) \/ NextDead(w) \/ Lookup(w)
             \/ FastPath(w) \/ ReadClock(w) \/ Skip(w)
    BY <1>4, <2>2 DEF Replay, Match, Answer, NextSub, NextDead, Lookup,
         FastPath, ReadClock, Skip, Goto, AtFirst, TypeOK
  <2>3. QED
    BY <2>1, <2>2
<1>5. ASSUME NEW v \in Workers, NEW s \in Subs, Coming(v, s)'
      PROVE  Coming(v, s) /\ ev'[v] = ev[v]
  BY <1>2, <1>3, <1>5 DEF Coming
<1>6. ASSUME NEW v \in Workers, AtFirst(v)'
      PROVE  AtFirst(v) /\ Key(v)' = Key(v)
  BY <1>2, <1>4, <1>6 DEF AtFirst, Key
<1>7. QED
  BY <1>1, <1>5, <1>6, FirstKept

\* Next to the gate: the lease of a first attempt is the attempt's own.
THEOREM FirstInvariant == Spec => []FirstInv
<1>1. Init => FirstInv
  BY DEF Init, FirstInv, Coming, AtFirst, Keys
<1>2. ASSUME TypeOK, Located, GateInv, FirstInv, [Next]_vars
      PROVE  FirstInv'
  <2> USE <1>2
  <2>1. ASSUME NEW w \in Workers, NEW e \in Events,
               Publish(w, e) \/ Replay(w, e)
        PROVE  FirstInv'
    BY <2>1, FirstPublish, FirstQuiet
  <2>2. ASSUME NEW w \in Workers, Step(w)
        PROVE  FirstInv'
    BY <2>2, FirstAcquire, FirstRelease, FirstDeliver, FirstQuiet DEF Step
  <2>3. CASE Restart
    <3>1. \A w \in Workers : pc'[w] = "idle"
      BY <2>3 DEF Restart
    <3>2. UNCHANGED <<lease, effects, events>>
      BY <2>3 DEF Restart, ledger, history
    <3>3. QED
      BY <3>1, <3>2 DEF FirstInv, Coming, AtFirst
  <2>4. ASSUME UNCHANGED <<lease, effects, events, pc, locals>>
        PROVE  FirstInv'
    BY <2>4 DEF FirstInv, Coming, AtFirst, Key, locals
  <2>5. CASE \/ \E w \in Workers, e \in Events : Deduped(w, e)
             \/ \E s \in Subs : Subscribe(s) \/ Unsubscribe(s)
             \/ Tick \/ UNCHANGED vars
    BY <2>4, <2>5 DEF Deduped, Subscribe, Unsubscribe, Tick, vars, ledger, history
  <2>6. QED
    BY <2>1, <2>2, <2>3, <2>5 DEF Next
<1>3. QED
  BY <1>1, <1>2, BusTypeCorrect, PublishGate, PTL DEF Spec

\* FirstAttemptsAlone, for any number of threads, events and subscriptions,
\* every length of the lease and any number of replays and restarts.
THEOREM FirstAttempts == Spec => []FirstAttemptsAlone
<1>1. ASSUME TypeOK, Located, GateInv, FirstInv
      PROVE  FirstAttemptsAlone
  <2> USE <1>1
  <2>1. SUFFICES ASSUME NEW w \in Workers, pc[w] # "idle", op[w] = "publish"
                 PROVE  /\ \A d \in todo[w] : Untouched(<<ev[w], d.sub>>)
                        /\ pc[w] \in {"fast", "clock", "acquire"} =>
                             Untouched(Key(w))
                        /\ pc[w] \in {"reread", "deliver", "succeeded",
                                      "failed"} =>
                             /\ row[Key(w)] = NoRow
                             /\ lease[Key(w)] = Leased(w, until[w])
    BY DEF FirstAttemptsAlone
  <2>2. ASSUME NEW s \in Subs, Coming(w, s)
        PROVE  Untouched(<<ev[w], s>>)
    <3>1. Ahead(w, s)
      BY <2>2 DEF Coming, Ahead, Attempting
    <3>2. QED
      BY <2>1, <2>2, <3>1 DEF GateInv, RowsSplit, FirstInv, Untouched
  <2>3. \A d \in todo[w] : d.sub \in Subs /\ Coming(w, d.sub)
    BY <2>1 DEF TypeOK, Listed, Coming
  <2>4. CASE pc[w] \in {"fast", "clock", "acquire"}
    <3>1. sub[w] \in Subs /\ Coming(w, sub[w])
      BY <2>1, <2>4 DEF Located, Coming
    <3>2. QED
      BY <2>2, <2>3, <2>4, <3>1 DEF Key
  <2>5. CASE pc[w] \in {"reread", "deliver", "succeeded", "failed"}
    <3>1. sub[w] \in Subs /\ Ahead(w, sub[w]) /\ AtFirst(w)
      BY <2>1, <2>5 DEF Located, Ahead, Attempting, AtFirst
    <3>2. row[Key(w)] = NoRow /\ lease[Key(w)] = Leased(w, until[w])
      BY <2>1, <3>1 DEF GateInv, RowsSplit, FirstInv, Key
    <3>3. QED
      BY <2>2, <2>3, <2>5, <3>2
  <2>6. QED
    BY <2>2, <2>3, <2>4, <2>5
<1>2. QED
  BY <1>1, BusTypeCorrect, PublishGate, FirstInvariant, PTL

-----------------------------------------------------------------------------
(* Handled at most once. *)

\* Of two requests that carry one event, one at most is ahead of a delivery.
LEMMA Sole ==
  ASSUME TypeOK, GateInv, OneReplay, NEW v \in Workers, NEW w \in Workers,
         v # w, pc[v] # "idle", pc[w] # "idle", ev[v] = ev[w],
         NEW s \in Subs, Ahead(v, s), Ahead(w, s)
  PROVE  FALSE
<1>1. op[v] \in {"publish", "replay"} /\ op[w] \in {"publish", "replay"}
  BY DEF TypeOK
<1>2. op[v] # op[w]
  BY <1>1 DEF OneReplay, GateInv, OneDispatchPerEvent
<1>3. QED
  BY <1>1, <1>2 DEF GateInv, RowsSplit

\* In an attempt the row is not there or pending.
LEMMA RowAtAttempt ==
  ASSUME TypeOK, Located, GateInv, ReplayFits, NEW w \in Workers,
         pc[w] \in Attempting
  PROVE  /\ Key(w) \in Keys
         /\ pc[w] # "idle" /\ Ahead(w, sub[w])
         /\ row[Key(w)] = NoRow \/ row[Key(w)].status = "pending"
<1>1. pc[w] \notin {"idle", "match", "loop"} /\ sub[w] \in Subs
  BY DEF Attempting, Located
<1>2. Ahead(w, sub[w])
  BY DEF Ahead
<1>3. CASE op[w] = "publish"
  BY <1>1, <1>2, <1>3, KeyTyped DEF GateInv, RowsSplit, Key
<1>4. CASE op[w] = "replay"
  BY <1>1, <1>2, <1>4, KeyTyped DEF ReplayFits
<1>5. QED
  BY <1>3, <1>4 DEF TypeOK

\* A step that delivers nothing and writes no row, of a worker in its attempt.
LEMMA OnceMove ==
  ASSUME TypeOK, Located, GateInv, Undisturbed,
         NEW w \in Workers, NEW l \in Labels,
         pc[w] \notin {"idle", "match", "succeeded"},
         l \notin {"idle", "match", "deliver", "succeeded"},
         l = "failed" => pc[w] = "deliver",
         l \in Attempting => pc[w] \in Attempting,
         pc' = [pc EXCEPT ![w] = l],
         UNCHANGED <<row, op, ev, todo, sub, effects, tries>>
  PROVE  Undisturbed'
<1> USE DEF TypeOK, Undisturbed
<1>1. \A v \in Workers :
        /\ pc'[v] # "idle" => pc[v] # "idle"
        /\ pc'[v] \in Attempting => pc[v] \in Attempting
        /\ pc'[v] \in {"deliver", "succeeded", "failed"} =>
             pc[v] \in {"deliver", "succeeded", "failed"}
        /\ pc'[v] = "match" => pc[v] = "match"
        /\ pc'[v] = "succeeded" <=> pc[v] = "succeeded"
  OBVIOUS
<1>2. OneReplay'
  BY <1>1 DEF OneReplay
<1>3. ReplayFits'
  BY <1>1 DEF ReplayFits, Dead, Key
<1>4. \A v \in Workers, s \in Subs : Ahead(v, s)' => Ahead(v, s)
  BY <1>1 DEF Ahead
<1>5. Unhandled'
  BY <1>1, <1>4 DEF Unhandled, Dead
<1>6. TriesFit'
  BY <1>1 DEF TriesFit, Key
<1>7. QED
  BY <1>2, <1>3, <1>5, <1>6

\* Nobody has handled an event that was not recorded.
LEMMA OncePublish ==
  ASSUME TypeOK, Located, GateInv, Undisturbed, NEW w \in Workers,
         NEW e \in Events, Publish(w, e)
  PROVE  Undisturbed'
<1> USE DEF TypeOK, Undisturbed
<1>1. /\ pc[w] = "idle" /\ e \notin events
      /\ op' = [op EXCEPT ![w] = "publish"] /\ ev' = [ev EXCEPT ![w] = e]
      /\ pc' = [pc EXCEPT ![w] = "match"]
      /\ UNCHANGED <<row, todo, sub, effects, tries>>
  BY DEF Publish, Goto, history
<1>2. OneReplay'
  BY <1>1 DEF OneReplay
<1>3. ReplayFits'
  BY <1>1 DEF ReplayFits, Dead, Key
<1>4. \A v \in Workers \ {w}, s \in Subs : Ahead(v, s)' <=> Ahead(v, s)
  BY <1>1 DEF Ahead
<1>5. \A s \in Subs : effects[<<e, s>>] = 0
  BY <1>1 DEF GateInv, Unpublished
<1>6. Unhandled'
  BY <1>1, <1>4, <1>5 DEF Unhandled, Dead
<1>7. TriesFit'
  BY <1>1 DEF TriesFit, Key
<1>8. QED
  BY <1>2, <1>3, <1>6, <1>7

\* A replay lists dead rows, and nobody has handled what is dead.
LEMMA OnceReplay ==
  ASSUME TypeOK, Located, GateInv, Undisturbed, NEW w \in Workers,
         NEW e \in Events, Replay(w, e), faults' = {}
  PROVE  Undisturbed'
<1> USE DEF TypeOK, Undisturbed
<1> DEFINE D == {t \in Subs : Dead(<<e, t>>)}
           L == {[sub |-> s, attempts |-> row[<<e, s>>].attempts] : s \in D}
<1>1. /\ pc[w] = "idle" /\ e \in events
      /\ op' = [op EXCEPT ![w] = "replay"] /\ ev' = [ev EXCEPT ![w] = e]
      /\ pc' = [pc EXCEPT ![w] = "loop"] /\ todo' = [todo EXCEPT ![w] = L]
      /\ \A v \in Workers : ~(pc[v] # "idle" /\ op[v] = "replay" /\ ev[v] = e)
      /\ UNCHANGED <<row, sub, effects, tries>>
  BY DEF Replay, Goto, ledger
<1>2. \A d \in L : /\ d.sub \in Subs /\ Dead(<<e, d.sub>>)
                   /\ row[<<e, d.sub>>].attempts = d.attempts
  <2>1. \A t \in D : t \in Subs /\ Dead(<<e, t>>)
    OBVIOUS
  <2> HIDE DEF D
  <2>2. \A d \in L : \E s \in D :
          d = [sub |-> s, attempts |-> row[<<e, s>>].attempts]
    OBVIOUS
  <2> HIDE DEF L
  <2>3. TAKE d \in L
  <2>4. PICK s \in D : d = [sub |-> s, attempts |-> row[<<e, s>>].attempts]
    BY <2>2
  <2>5. d.sub = s /\ d.attempts = row[<<e, s>>].attempts
    BY <2>4
  <2>6. QED
    BY <2>1, <2>5
<1> HIDE DEF L, D
<1>3. OneReplay'
  BY <1>1 DEF OneReplay
<1>4. ReplayFits'
  BY <1>1, <1>2 DEF ReplayFits, Dead, Key, Attempting
<1>5. \A v \in Workers \ {w}, s \in Subs : Ahead(v, s)' <=> Ahead(v, s)
  BY <1>1 DEF Ahead
<1>6. \A s \in Subs : Ahead(w, s)' => effects[<<e, s>>] = 0
  <2>1. \A s \in Subs : Dead(<<e, s>>) => effects[<<e, s>>] = 0
    BY DEF Unhandled, Keys
  <2>2. QED
    BY <1>1, <1>2, <2>1 DEF Ahead, Attempting
<1>7. Unhandled'
  BY <1>1, <1>5, <1>6 DEF Unhandled, Dead
<1>8. TriesFit'
  BY <1>1 DEF TriesFit, Key
<1>9. QED
  BY <1>3, <1>4, <1>7, <1>8

\* The list of matches is no more than the publish was ahead of.
LEMMA OnceMatch ==
  ASSUME TypeOK, Located, GateInv, Undisturbed, NEW w \in Workers, Match(w)
  PROVE  Undisturbed'
<1> USE DEF TypeOK, Undisturbed
<1>1. /\ pc[w] = "match" /\ pc' = [pc EXCEPT ![w] = "loop"]
      /\ \A v \in Workers \ {w} : todo'[v] = todo[v]
      /\ UNCHANGED <<row, op, ev, sub, effects, tries>>
  BY DEF Match, Goto, ledger, history
<1>2. op[w] = "publish"
  BY <1>1 DEF GateInv, LocalsFit
<1>3. OneReplay'
  BY <1>1 DEF OneReplay
<1>4. ReplayFits'
  BY <1>1, <1>2 DEF ReplayFits, Dead, Key
<1>5. \A v \in Workers, s \in Subs : Ahead(v, s)' => Ahead(v, s)
  BY <1>1 DEF Ahead, Attempting
<1>6. Unhandled'
  BY <1>1, <1>5 DEF Unhandled, Dead
<1>7. TriesFit'
  BY <1>1 DEF TriesFit, Key
<1>8. QED
  BY <1>3, <1>4, <1>6, <1>7

\* A request that has been answered is ahead of nothing.
LEMMA OnceAnswer ==
  ASSUME TypeOK, Located, GateInv, Undisturbed, NEW w \in Workers, Answer(w)
  PROVE  Undisturbed'
<1> USE DEF TypeOK, Undisturbed
<1>1. /\ pc' = [pc EXCEPT ![w] = "idle"] /\ ev' = [ev EXCEPT ![w] = NoEvent]
      /\ sub' = [sub EXCEPT ![w] = NoSub]
      /\ UNCHANGED <<row, op, todo, effects, tries>>
  BY DEF Answer, Goto, ledger, history
<1>2. OneReplay' /\ ReplayFits' /\ TriesFit'
  BY <1>1 DEF OneReplay, ReplayFits, TriesFit, Dead, Key
<1>3. \A v \in Workers \ {w}, s \in Subs : Ahead(v, s)' <=> Ahead(v, s)
  BY <1>1 DEF Ahead
<1>4. Unhandled'
  BY <1>1, <1>3 DEF Unhandled, Dead
<1>5. QED
  BY <1>2, <1>4

\* The publish goes on to a delivery it was ahead of.
LEMMA OnceNextSub ==
  ASSUME TypeOK, Located, GateInv, Undisturbed, NEW w \in Workers, NextSub(w)
  PROVE  Undisturbed'
<1> USE DEF TypeOK, Undisturbed
<1>1. PICK d \in todo[w] : /\ todo' = [todo EXCEPT ![w] = @ \ {d}]
                           /\ sub' = [sub EXCEPT ![w] = d.sub]
  BY DEF NextSub
<1>2. /\ pc[w] = "loop" /\ op[w] = "publish" /\ pc' = [pc EXCEPT ![w] = "fast"]
      /\ UNCHANGED <<row, op, ev, effects, tries>>
  BY DEF NextSub, Goto, ledger, history
<1>3. OneReplay'
  BY <1>2 DEF OneReplay
<1>4. ReplayFits'
  BY <1>1, <1>2 DEF ReplayFits, Dead, Key
<1>5. \A v \in Workers, s \in Subs : Ahead(v, s)' => Ahead(v, s)
  BY <1>1, <1>2 DEF Ahead
<1>6. Unhandled'
  BY <1>1, <1>2, <1>5 DEF Unhandled, Dead
<1>7. TriesFit'
  BY <1>1, <1>2 DEF TriesFit, Key
<1>8. QED
  BY <1>3, <1>4, <1>6, <1>7

\* The replay makes a dead row pending; nobody else is ahead of it.
LEMMA OnceNextDead ==
  ASSUME TypeOK, Located, GateInv, Undisturbed, NEW w \in Workers, NextDead(w)
  PROVE  Undisturbed'
<1> USE DEF TypeOK, Undisturbed
<1>1. PICK d \in todo[w] :
        /\ todo' = [todo EXCEPT ![w] = @ \ {d}]
        /\ sub' = [sub EXCEPT ![w] = d.sub]
        /\ row' = [row EXCEPT ![<<ev[w], d.sub>>] = Row("pending", d.attempts)]
  BY DEF NextDead
<1>2. /\ pc[w] = "loop" /\ op[w] = "replay"
      /\ pc' = [pc EXCEPT ![w] = "lookup"]
      /\ UNCHANGED <<op, ev, effects, tries>>
  BY DEF NextDead, Goto, ledger, history
<1> DEFINE k == <<ev[w], d.sub>>
<1>3. k \in Keys /\ d.sub \in Subs /\ Ahead(w, d.sub)
  BY <1>2 DEF Located, Keys, Listed, Ahead
<1>4. /\ row'[k].status = "pending"
      /\ \A j \in Keys \ {k} : row'[j] = row[j]
  <2>1. row'[k] = Row("pending", d.attempts)
    BY <1>1, <1>3
  <2>2. \A j \in Keys \ {k} : row'[j] = row[j]
    BY <1>1
  <2>3. QED
    BY <2>1, <2>2 DEF Row
<1>5. \A v \in Workers, s \in Subs :
        pc[v] # "idle" => <<ev[v], s>> \in Keys
  BY DEF Located, Keys
<1>6. \A v \in Workers \ {w}, s \in Subs :
        pc[v] # "idle" /\ Ahead(v, s) => <<ev[v], s>> # k
  <2>1. SUFFICES ASSUME NEW v \in Workers \ {w}, NEW s \in Subs,
                        pc[v] # "idle", Ahead(v, s), <<ev[v], s>> = k
                 PROVE  FALSE
    OBVIOUS
  <2>2. ev[v] = ev[w] /\ s = d.sub
    BY <2>1
  <2>3. QED
    BY <1>2, <1>3, <2>1, <2>2, Sole
<1>7. OneReplay'
  BY <1>2 DEF OneReplay
<1>8. \A v \in Workers, s \in Subs : Ahead(v, s)' => Ahead(v, s)
  BY <1>1, <1>2 DEF Ahead
<1>9. ReplayFits'
  <2> SUFFICES ASSUME NEW v \in Workers, pc'[v] # "idle", op'[v] = "replay"
               PROVE  /\ \A f \in todo'[v] :
                           /\ Dead(<<ev[v], f.sub>>)'
                           /\ row'[<<ev[v], f.sub>>].attempts = f.attempts
                      /\ pc'[v] \in Attempting => row'[Key(v)'].status = "pending"
    BY <1>2 DEF ReplayFits
  <2>1. CASE v = w
    <3>1. \A f \in todo'[w] : f \in todo[w] /\ f.sub \in Subs /\ f.sub # d.sub
      BY <1>1 DEF GateInv, LocalsFit, Listed
    <3>2. \A f \in todo'[w] : <<ev[w], f.sub>> \in Keys \ {k}
      BY <1>2, <1>5, <3>1
    <3>3. \A f \in todo'[w] : row'[<<ev[w], f.sub>>] = row[<<ev[w], f.sub>>]
      BY <1>4, <3>2
    <3>4. Key(w)' = k
      BY <1>1, <1>2 DEF Key
    <3>5. QED
      BY <1>2, <1>4, <2>1, <3>1, <3>3, <3>4 DEF ReplayFits, Dead
  <2>2. CASE v # w
    <3>1. pc[v] # "idle" /\ op[v] = "replay" /\ todo'[v] = todo[v]
          /\ pc'[v] = pc[v] /\ Key(v)' = Key(v)
      BY <1>1, <1>2, <2>2 DEF Key
    <3>2. ev[v] # ev[w]
      BY <1>2, <2>2, <3>1 DEF OneReplay
    <3>3. \A s \in Subs : row'[<<ev[v], s>>] = row[<<ev[v], s>>]
      BY <1>4, <1>5, <3>1, <3>2
    <3>4. \A f \in todo[v] : f.sub \in Subs
      BY DEF Listed
    <3>5. pc[v] \in Attempting => sub[v] \in Subs
      BY DEF Attempting, Located
    <3>6. QED
      BY <3>1, <3>3, <3>4, <3>5 DEF ReplayFits, Dead, Key
  <2>3. QED
    BY <2>1, <2>2
<1>10. Unhandled'
  <2>1. \A j \in Keys : Dead(j)' => Dead(j)
    BY <1>4 DEF Dead
  <2>2. QED
    BY <1>1, <1>2, <1>8, <2>1 DEF Unhandled
<1>11. TriesFit'
  <2> SUFFICES ASSUME NEW v \in Workers,
                      pc'[v] \in {"deliver", "succeeded", "failed"}
               PROVE  tries'[v] = IF row'[Key(v)'] = NoRow THEN 1
                                  ELSE row'[Key(v)'].attempts + 1
    BY DEF TriesFit
  <2>1. v # w /\ pc[v] = pc'[v] /\ Key(v)' = Key(v)
    BY <1>1, <1>2 DEF Key
  <2>2. Key(v) \in Keys /\ pc[v] # "idle" /\ Ahead(v, sub[v]) /\ sub[v] \in Subs
    BY <2>1, RowAtAttempt DEF Attempting, Located
  <2>3. row'[Key(v)] = row[Key(v)]
    BY <1>4, <1>6, <2>1, <2>2 DEF Key
  <2>4. QED
    BY <1>2, <2>1, <2>3 DEF TriesFit
<1>12. QED
  BY <1>7, <1>9, <1>10, <1>11

\* The attempt is numbered from the row it will write.
LEMMA OnceReread ==
  ASSUME TypeOK, Located, GateInv, Undisturbed, NEW w \in Workers, Reread(w)
  PROVE  Undisturbed'
<1>1. CASE Delivered(Key(w))
  BY <1>1, OnceMove DEF Reread, Goto, ledger, history, Labels, Attempting
<1>2. CASE ~Delivered(Key(w))
  <2> USE DEF TypeOK, Undisturbed
  <2>1. /\ pc[w] = "reread" /\ pc' = [pc EXCEPT ![w] = "deliver"]
        /\ tries' = [tries EXCEPT ![w] =
                       IF row[Key(w)] = NoRow THEN 1 ELSE row[Key(w)].attempts + 1]
        /\ UNCHANGED <<row, op, ev, todo, sub, effects>>
    BY <1>2 DEF Reread, Goto, ledger, history
  <2>2. OneReplay'
    BY <2>1 DEF OneReplay
  <2>3. ReplayFits'
    BY <2>1 DEF ReplayFits, Dead, Key, Attempting
  <2>4. \A v \in Workers, s \in Subs : Ahead(v, s)' => Ahead(v, s)
    BY <2>1 DEF Ahead, Attempting
  <2>5. Unhandled'
    BY <2>1, <2>4 DEF Unhandled, Dead
  <2>6. TriesFit'
    BY <2>1 DEF TriesFit, Key
  <2>7. QED
    BY <2>2, <2>3, <2>5, <2>6
<1>3. QED
  BY <1>1, <1>2

\* The subscriber handles what nobody has handled yet.
LEMMA OnceDeliver ==
  ASSUME TypeOK, Located, GateInv, Undisturbed, NEW w \in Workers, DeliverOK(w)
  PROVE  Undisturbed'
<1> USE DEF TypeOK, Undisturbed
<1>1. /\ pc[w] = "deliver" /\ pc' = [pc EXCEPT ![w] = "succeeded"]
      /\ effects' = [effects EXCEPT ![Key(w)] = @ + 1]
      /\ UNCHANGED <<row, op, ev, todo, sub, tries>>
  BY DEF DeliverOK, Goto, ledger, locals
<1>2. /\ Key(w) \in Keys /\ Ahead(w, sub[w]) /\ sub[w] \in Subs
      /\ ~Dead(Key(w))
  BY <1>1, RowAtAttempt DEF Attempting, Located, Dead
<1>3. effects[Key(w)] = 0
  BY <1>1, <1>2 DEF Unhandled, Key
<1>4. /\ effects'[Key(w)] = 1
      /\ \A k \in Keys \ {Key(w)} : effects'[k] = effects[k]
  BY <1>1, <1>2, <1>3
<1>5. OneReplay'
  BY <1>1 DEF OneReplay
<1>6. ReplayFits'
  BY <1>1 DEF ReplayFits, Dead, Key, Attempting
<1>7. \A v \in Workers, s \in Subs : Ahead(v, s)' => Ahead(v, s)
  BY <1>1 DEF Ahead, Attempting
<1>8. ASSUME NEW v \in Workers, NEW s \in Subs, pc'[v] # "idle",
             Ahead(v, s)', ~(pc'[v] = "succeeded" /\ sub'[v] = s)
      PROVE  effects'[<<ev'[v], s>>] = 0
  <2>1. pc[v] # "idle" /\ Ahead(v, s) /\ <<ev[v], s>> \in Keys
    BY <1>1, <1>7, <1>8 DEF Located, Keys
  <2>2. <<ev[v], s>> # Key(w)
    <3>1. SUFFICES ASSUME ev[v] = ev[w], s = sub[w]
                   PROVE  FALSE
      BY DEF Key
    <3>2. v # w
      BY <1>1, <1>8, <3>1
    <3>3. QED
      BY <1>1, <1>2, <2>1, <3>1, <3>2, Sole
  <2>3. ~(pc[v] = "succeeded" /\ sub[v] = s)
    BY <1>1, <1>8, <2>2 DEF Key
  <2>4. QED
    BY <1>1, <1>4, <2>1, <2>2, <2>3 DEF Unhandled
<1>9. \A k \in Keys : effects'[k] <= 1 /\ (Dead(k)' => effects'[k] = 0)
  BY <1>1, <1>2, <1>4 DEF Unhandled, Dead
<1>10. Unhandled'
  BY <1>8, <1>9 DEF Unhandled
<1>11. TriesFit'
  BY <1>1 DEF TriesFit, Key
<1>12. QED
  BY <1>5, <1>6, <1>10, <1>11

\* Nobody else is ahead of the delivery whose outcome is written.
LEMMA OnceRecord ==
  ASSUME TypeOK, Located, GateInv, Undisturbed, NEW w \in Workers,
         RecordOutcome(w)
  PROVE  Undisturbed'
<1> USE DEF TypeOK, Undisturbed
<1>1. /\ pc[w] \in {"succeeded", "failed"}
      /\ pc' = [pc EXCEPT ![w] = "release"]
      /\ tries' = [tries EXCEPT ![w] = 0]
      /\ UNCHANGED <<op, ev, todo, sub, effects>>
  BY DEF RecordOutcome, Goto, history
<1>2. /\ Key(w) \in Keys /\ Ahead(w, sub[w]) /\ sub[w] \in Subs
      /\ pc[w] \in Attempting
  BY <1>1, RowAtAttempt DEF Attempting, Located
<1>3. PICK st \in {"pending", "delivered", "dead"} :
        /\ row' = [row EXCEPT ![Key(w)] = Row(st, tries[w])]
        /\ pc[w] = "succeeded" => st = "delivered"
  BY DEF RecordOutcome
<1>4. /\ row'[Key(w)] = Row(st, tries[w])
      /\ \A k \in Keys \ {Key(w)} : row'[k] = row[k]
  BY <1>2, <1>3
<1>5. \A v \in Workers, s \in Subs : Ahead(v, s)' => Ahead(v, s)
  BY <1>1 DEF Ahead, Attempting
<1>6. ASSUME NEW v \in Workers, NEW s \in Subs, pc[v] # "idle", Ahead(v, s)'
      PROVE  /\ <<ev[v], s>> \in Keys \ {Key(w)}
             /\ row'[<<ev[v], s>>] = row[<<ev[v], s>>]
  <2>1. <<ev[v], s>> \in Keys
    BY <1>6 DEF Located, Keys
  <2>2. <<ev[v], s>> # Key(w)
    <3>1. SUFFICES ASSUME ev[v] = ev[w], s = sub[w]
                   PROVE  FALSE
      BY DEF Key
    <3>2. v # w
      BY <1>1, <1>2, <1>6, <3>1 DEF Ahead, GateInv, LocalsFit, Attempting
    <3>3. QED
      BY <1>1, <1>2, <1>5, <1>6, <3>1, <3>2, Sole
  <2>3. QED
    BY <1>4, <2>1, <2>2
<1>7. OneReplay'
  BY <1>1 DEF OneReplay
<1>8. ReplayFits'
  <2> SUFFICES ASSUME NEW v \in Workers, pc'[v] # "idle", op'[v] = "replay"
               PROVE  /\ \A d \in todo'[v] :
                           /\ Dead(<<ev[v], d.sub>>)'
                           /\ row'[<<ev[v], d.sub>>].attempts = d.attempts
                      /\ pc'[v] \in Attempting => row'[Key(v)'].status = "pending"
    BY <1>1 DEF ReplayFits
  <2>1. /\ pc[v] # "idle" /\ op[v] = "replay" /\ todo'[v] = todo[v]
        /\ Key(v)' = Key(v)
    BY <1>1 DEF Key
  <2>2. \A d \in todo[v] : d.sub \in Subs /\ Ahead(v, d.sub)'
    BY <1>1, <2>1 DEF Listed, Ahead
  <2>3. \A d \in todo[v] : row'[<<ev[v], d.sub>>] = row[<<ev[v], d.sub>>]
    BY <1>6, <2>1, <2>2
  <2>4. pc'[v] \in Attempting => row'[Key(v)] = row[Key(v)]
    <3>1. SUFFICES ASSUME pc'[v] \in Attempting
                   PROVE  row'[Key(v)] = row[Key(v)]
      OBVIOUS
    <3>2. pc[v] \in Attempting /\ sub[v] \in Subs
      BY <1>1, <3>1 DEF Attempting, Located
    <3>3. \A s \in Subs : s = sub[v] => Ahead(v, s)'
      BY <1>1, <3>1 DEF Ahead
    <3>4. QED
      BY <1>6, <2>1, <3>2, <3>3 DEF Key
  <2>5. pc'[v] \in Attempting => pc[v] \in Attempting
    BY <1>1 DEF Attempting
  <2>6. QED
    BY <1>1, <2>1, <2>3, <2>4, <2>5 DEF ReplayFits, Dead
<1>9. \A k \in Keys : Dead(k)' => effects[k] = 0
  <2>1. Dead(Key(w))' => effects[Key(w)] = 0
    <3>1. CASE pc[w] = "failed"
      BY <1>1, <1>2, <3>1 DEF Unhandled, Key
    <3>2. CASE pc[w] = "succeeded"
      <4>1. \A k \in Keys : k = Key(w) => ~Dead(k)'
        BY <1>3, <1>4, <3>2 DEF Dead, Row
      <4>2. Key(w)' = Key(w)
        BY <1>1 DEF Key
      <4>3. QED
        BY <1>2, <4>1, <4>2
    <3>3. QED
      BY <1>1, <3>1, <3>2
  <2>2. Key(w)' = Key(w)
    BY <1>1 DEF Key
  <2>3. \A k \in Keys \ {Key(w)} : Dead(k)' => Dead(k)
    BY <1>4 DEF Dead
  <2>4. QED
    BY <2>1, <2>2, <2>3 DEF Unhandled
<1>10. Unhandled'
  <2>1. ASSUME NEW v \in Workers, NEW s \in Subs, pc'[v] # "idle", Ahead(v, s)'
        PROVE  effects[<<ev[v], s>>] = 0
                 \/ (pc'[v] = "succeeded" /\ sub'[v] = s)
    <3>1. pc[v] # "idle" /\ Ahead(v, s)
      BY <1>1, <1>5, <2>1
    <3>2. <<ev[v], s>> # Key(w)
      BY <1>6, <2>1, <3>1
    <3>3. pc[v] = "succeeded" /\ sub[v] = s => v # w
      BY <3>2 DEF Key
    <3>4. QED
      BY <1>1, <3>1, <3>3 DEF Unhandled
  <2>2. QED
    BY <1>1, <1>9, <2>1 DEF Unhandled
<1>11. TriesFit'
  <2> SUFFICES ASSUME NEW v \in Workers,
                      pc'[v] \in {"deliver", "succeeded", "failed"}
               PROVE  tries'[v] = IF row'[Key(v)'] = NoRow THEN 1
                                  ELSE row'[Key(v)'].attempts + 1
    BY DEF TriesFit
  <2>1. v # w /\ pc[v] = pc'[v] /\ Key(v)' = Key(v) /\ sub[v] \in Subs
    BY <1>1 DEF Key, Located
  <2>2. pc'[v] \in Attempting /\ pc[v] # "idle"
    BY <2>1 DEF Attempting
  <2>3. \A s \in Subs : s = sub[v] => Ahead(v, s)'
    BY <1>1, <2>2 DEF Ahead
  <2>4. row'[Key(v)] = row[Key(v)]
    BY <1>6, <2>1, <2>2, <2>3 DEF Key
  <2>5. QED
    BY <1>1, <2>1, <2>4 DEF TriesFit
<1>12. QED
  BY <1>7, <1>8, <1>10, <1>11

\* The two circumstances, once met, stay on record.
LEMMA BusFaultsGrow ==
  ASSUME TypeOK, [Next]_vars
  PROVE  faults \subseteq faults'
BY DEF Next, Step, vars, ledger, locals, history, bounds, Publish, Deduped,
       Replay, Match, Answer, NextSub, NextDead, Lookup, FastPath, ReadClock,
       Acquire, Skip, Reread, DeliverOK, DeliverFails, DeliverUnanswered,
       RecordOutcome, Release, Subscribe, Unsubscribe, Tick, Restart

\* As long as no answer is lost and no two replays of one event overlap, what is
\* still to be delivered has been handled by nobody.
THEOREM OnceInvariant == Spec => []OnceInv
<1>1. Init => OnceInv
  BY DEF Init, OnceInv, Undisturbed, OneReplay, ReplayFits, Unhandled,
         TriesFit, Dead, Attempting, Keys
<1>2. ASSUME TypeOK, Located, GateInv, OnceInv, [Next]_vars
      PROVE  OnceInv'
  <2> SUFFICES ASSUME faults' = {}
               PROVE  Undisturbed'
    BY DEF OnceInv
  <2>1. Undisturbed
    BY <1>2, BusFaultsGrow DEF OnceInv
  <2> USE <1>2, <2>1 DEF ledger, locals, history, bounds, Goto
  <2>2. ASSUME NEW w \in Workers, NEW e \in Events, Publish(w, e)
        PROVE  Undisturbed'
    BY <2>2, OncePublish
  <2>3. ASSUME NEW w \in Workers, NEW e \in Events, Replay(w, e)
        PROVE  Undisturbed'
    BY <2>3, OnceReplay
  <2>4. ASSUME NEW w \in Workers, Match(w)
        PROVE  Undisturbed'
    BY <2>4, OnceMatch
  <2>5. ASSUME NEW w \in Workers, Answer(w)
        PROVE  Undisturbed'
    BY <2>5, OnceAnswer
  <2>6. ASSUME NEW w \in Workers, NextSub(w)
        PROVE  Undisturbed'
    BY <2>6, OnceNextSub
  <2>7. ASSUME NEW w \in Workers, NextDead(w)
        PROVE  Undisturbed'
    BY <2>7, OnceNextDead
  <2>8. ASSUME NEW w \in Workers, Lookup(w) \/ FastPath(w) \/ ReadClock(w)
        PROVE  Undisturbed'
    BY <2>8, OnceMove DEF Lookup, FastPath, ReadClock, Labels, Attempting
  <2>9. ASSUME NEW w \in Workers, Acquire(w) \/ Skip(w)
        PROVE  Undisturbed'
    BY <2>9, OnceMove DEF Acquire, Skip, Labels, Attempting
  <2>10. ASSUME NEW w \in Workers, Reread(w)
         PROVE  Undisturbed'
    BY <2>10, OnceReread
  <2>11. ASSUME NEW w \in Workers, DeliverFails(w) \/ Release(w)
         PROVE  Undisturbed'
    BY <2>11, OnceMove DEF DeliverFails, Release, Labels, Attempting
  <2>12. ASSUME NEW w \in Workers, DeliverOK(w)
         PROVE  Undisturbed'
    BY <2>12, OnceDeliver
  <2>13. ASSUME NEW w \in Workers, DeliverUnanswered(w)
         PROVE  Undisturbed'
    BY <2>13 DEF DeliverUnanswered
  <2>14. ASSUME NEW w \in Workers, RecordOutcome(w)
         PROVE  Undisturbed'
    BY <2>14, OnceRecord
  <2>15. CASE Restart
    <3>1. /\ \A v \in Workers : pc'[v] = "idle"
          /\ UNCHANGED <<row, effects>>
      BY <2>15 DEF Restart
    <3>2. QED
      BY <3>1 DEF Undisturbed, OneReplay, ReplayFits, Unhandled, TriesFit, Dead
  <2>16. ASSUME UNCHANGED <<row, pc, op, ev, todo, sub, tries, effects>>
         PROVE  Undisturbed'
    BY <2>16 DEF Undisturbed, OneReplay, ReplayFits, Unhandled, TriesFit, Dead,
                 Ahead, Key
  <2>17. ASSUME NEW s \in Subs, Subscribe(s) \/ Unsubscribe(s)
         PROVE  Undisturbed'
    BY <2>16, <2>17 DEF Subscribe, Unsubscribe
  <2>18. ASSUME NEW w \in Workers, NEW e \in Events, Deduped(w, e)
         PROVE  Undisturbed'
    BY <2>16, <2>18 DEF Deduped, vars
  <2>19. CASE Tick \/ UNCHANGED vars
    BY <2>16, <2>19 DEF Tick, vars
  <2>20. QED
    BY <2>2, <2>3, <2>4, <2>5, <2>6, <2>7, <2>8, <2>9, <2>10, <2>11, <2>12,
       <2>13, <2>14, <2>15, <2>17, <2>18, <2>19 DEF Next, Step
<1>3. QED
  BY <1>1, <1>2, BusTypeCorrect, PublishGate, PTL DEF Spec

\* HandledOnce, for any number of threads, restarts and replays and for every
\* length of the lease.
THEOREM HandledAtMostOnce == Spec => []HandledOnce
<1>1. OnceInv => HandledOnce
  BY DEF OnceInv, Undisturbed, Unhandled, HandledOnce
<1>2. QED
  BY <1>1, OnceInvariant, PTL

\* RowsMoveForward, likewise.
THEOREM DeliveryRowsMoveForward == Spec => RowsMoveForward
<1> DEFINE Forward ==
      faults' = {} =>
        \A k \in Keys : row[k] # NoRow =>
          /\ row'[k].attempts >= row[k].attempts
          /\ row[k].status = "delivered" => row'[k] = row[k]
<1>1. ASSUME TypeOK, Located, GateInv, OnceInv, [Next]_vars
      PROVE  Forward
  <2> SUFFICES ASSUME faults' = {}, NEW k \in Keys, row[k] # NoRow,
                      row'[k] # row[k]
               PROVE  /\ row'[k].attempts >= row[k].attempts
                      /\ row[k].status # "delivered"
    BY <1>1 DEF TypeOK, Rows
  <2>1. Undisturbed /\ row[k] \in Rows
    BY <1>1, BusFaultsGrow DEF OnceInv, TypeOK
  <2>2. ASSUME NEW w \in Workers, NextDead(w)
        PROVE  /\ row'[k].attempts >= row[k].attempts
               /\ row[k].status # "delivered"
    <3>1. PICK d \in todo[w] :
            row' = [row EXCEPT ![<<ev[w], d.sub>>] = Row("pending", d.attempts)]
      BY <2>2 DEF NextDead
    <3>2. k = <<ev[w], d.sub>>
      BY <1>1, <3>1 DEF TypeOK
    <3>3. Dead(k) /\ row[k].attempts = d.attempts
      BY <2>1, <2>2, <3>2 DEF NextDead, Undisturbed, ReplayFits
    <3>4. row'[k] = Row("pending", d.attempts)
      BY <1>1, <3>1, <3>2 DEF TypeOK
    <3>5. QED
      BY <2>1, <3>3, <3>4 DEF Dead, Row, Rows
  <2>3. ASSUME NEW w \in Workers, RecordOutcome(w)
        PROVE  /\ row'[k].attempts >= row[k].attempts
               /\ row[k].status # "delivered"
    <3>1. PICK st \in {"pending", "delivered", "dead"} :
            row' = [row EXCEPT ![Key(w)] = Row(st, tries[w])]
      BY <2>3 DEF RecordOutcome
    <3>2. k = Key(w)
      BY <1>1, <3>1 DEF TypeOK
    <3>3. pc[w] \in {"succeeded", "failed"}
      BY <2>3 DEF RecordOutcome
    <3>4. row[k].status = "pending"
      BY <1>1, <2>1, <3>2, <3>3, RowAtAttempt DEF Undisturbed, Attempting
    <3>5. tries[w] = row[k].attempts + 1
      BY <2>1, <3>2, <3>3 DEF Undisturbed, TriesFit
    <3>6. row'[k].attempts = tries[w]
      BY <1>1, <3>1, <3>2 DEF TypeOK, Row
    <3>7. QED
      BY <2>1, <3>4, <3>5, <3>6 DEF Rows
  <2>4. QED
    BY <1>1, <2>2, <2>3
       DEF Next, Step, vars, ledger, locals, history, bounds, Publish, Deduped,
           Replay, Match, Answer, NextSub, Lookup, FastPath, ReadClock,
           Acquire, Skip, Reread, DeliverOK, DeliverFails, DeliverUnanswered,
           Release, Subscribe, Unsubscribe, Tick, Restart
<1>2. QED
  BY <1>1, BusTypeCorrect, PublishGate, OnceInvariant, PTL
     DEF Spec, RowsMoveForward

-----------------------------------------------------------------------------
(* Leases: one live dispatcher per delivery, and LeaseService implemented. *)


\* No worker asks with an instant yet to come, and the lease row of an owner
\* whose lease has not run out names it.
LeaseInv ==
  /\ \A w \in Workers : tnow[w] <= now
  /\ \A w \in Workers :
       InLease(w) /\ until[w] > now => lease[Key(w)] = Leased(w, until[w])

\* A statement of one worker that neither takes a lease nor ends one.
LeaseStays(w) ==
  \E l \in Labels :
    /\ pc' = [pc EXCEPT ![w] = l]
    /\ l \in {"reread", "deliver", "succeeded", "failed", "release"}
         <=> InLease(w)
    /\ UNCHANGED <<now, lease, until>>
    /\ \A v \in Workers : v # w \/ InLease(w) => Key(v)' = Key(v)
    /\ \A v \in Workers : tnow'[v] \in {tnow[v], 0, now}

\* Which statements those are.
LEMMA QuietSteps ==
  ASSUME TypeOK, NEW w \in Workers,
         \/ \E e \in Events : Publish(w, e) \/ Replay(w, e)
         \/ Match(w) \/ Answer(w) \/ NextSub(w) \/ NextDead(w) \/ Lookup(w)
         \/ FastPath(w) \/ ReadClock(w) \/ Skip(w) \/ Reread(w) \/ DeliverOK(w)
         \/ DeliverFails(w) \/ DeliverUnanswered(w) \/ RecordOutcome(w)
  PROVE  LeaseStays(w)
<1> USE DEF TypeOK, LeaseStays, Goto, InLease, Key, Labels, ledger, locals, history,
            bounds
<1>1. ASSUME NEW e \in Events, Publish(w, e)
      PROVE  LeaseStays(w)
  BY <1>1 DEF Publish
<1>2. ASSUME NEW e \in Events, Replay(w, e)
      PROVE  LeaseStays(w)
  <2>1. /\ pc[w] = "idle" /\ ev' = [ev EXCEPT ![w] = e]
        /\ pc' = [pc EXCEPT ![w] = "loop"]
        /\ UNCHANGED <<now, lease, until, sub, tnow>>
    BY <1>2 DEF Replay
  <2>2. QED
    BY <2>1
<1>3. CASE Match(w) \/ Answer(w) \/ NextSub(w)
  BY <1>3 DEF Match, Answer, NextSub
<1>4. CASE NextDead(w)
  BY <1>4 DEF NextDead
<1>5. CASE Lookup(w) \/ FastPath(w)
  BY <1>5 DEF Lookup, FastPath
<1>6. CASE ReadClock(w) \/ Skip(w)
  BY <1>6 DEF ReadClock, Skip
<1>7. CASE Reread(w)
  BY <1>7 DEF Reread
<1>8. CASE DeliverOK(w) \/ DeliverFails(w) \/ DeliverUnanswered(w)
  BY <1>8 DEF DeliverOK, DeliverFails, DeliverUnanswered
<1>9. CASE RecordOutcome(w)
  BY <1>9 DEF RecordOutcome
<1>10. QED
  BY <1>1, <1>2, <1>3, <1>4, <1>5, <1>6, <1>7, <1>8, <1>9

\* Nobody's ownership, key or grant changes in a quiet step.
LEMMA QuietOwners ==
  ASSUME TypeOK, NEW w \in Workers, LeaseStays(w)
  PROVE  \A v \in Workers : /\ InLease(v)' <=> InLease(v)
                            /\ InLease(v) => Key(v)' = Key(v)
BY DEF TypeOK, LeaseStays, InLease

\* acquire_lease grants one lease more, of a row that has run out.
LEMMA LeaseAcquire ==
  ASSUME TypeOK, Located, LeaseInv, NEW c \in Workers, Acquire(c)
  PROVE  LeaseInv'
<1> USE DEF TypeOK
<1>1. /\ pc[c] = "acquire" /\ pc' = [pc EXCEPT ![c] = "reread"]
      /\ lease' = [lease EXCEPT ![Key(c)] = Leased(c, tnow[c] + LeaseTTL)]
      /\ until' = [until EXCEPT ![c] = tnow[c] + LeaseTTL]
      /\ tnow' = [tnow EXCEPT ![c] = 0]
      /\ now' = now /\ Takes(lease[Key(c)], tnow[c])
      /\ UNCHANGED <<ev, sub>>
  BY DEF Acquire, Goto, bounds
<1>2. Key(c) \in Keys /\ \A v \in Workers : Key(v)' = Key(v)
  BY <1>1, KeyTyped DEF Key
<1>3. \A v \in Workers : tnow'[v] <= now'
  BY <1>1 DEF LeaseInv
<1>4. ASSUME NEW v \in Workers, InLease(v)', until'[v] > now'
      PROVE  lease'[Key(v)'] = Leased(v, until'[v])
  <2>1. CASE v = c
    BY <1>1, <1>2, <2>1
  <2>2. CASE v # c
    <3>1. /\ InLease(v) /\ until[v] > now /\ until'[v] = until[v]
          /\ lease[Key(v)] = Leased(v, until[v])
      BY <1>1, <1>4, <2>2 DEF InLease, LeaseInv
    <3>2. Key(v) \in Keys
      BY <3>1, KeyTyped DEF InLease
    <3>3. Leased(v, until[v]) # NoLease /\ Leased(v, until[v]).until = until[v]
      BY NoRowIsNoRow DEF Leased
    <3>4. Key(v) # Key(c)
      BY <1>1, <3>1, <3>3 DEF Takes, LeaseInv
    <3>5. QED
      BY <1>1, <1>2, <3>1, <3>2, <3>4
  <2>3. QED
    BY <2>1, <2>2
<1>5. QED
  BY <1>3, <1>4 DEF LeaseInv

\* release_lease removes only a row that names the leaving worker.
LEMMA LeaseRelease ==
  ASSUME TypeOK, Located, LeaseInv, NEW c \in Workers, Release(c)
  PROVE  LeaseInv'
<1> USE DEF TypeOK
<1>1. /\ pc[c] = "release" /\ pc' = [pc EXCEPT ![c] = "loop"]
      /\ lease' = [lease EXCEPT ![Key(c)] = AfterRelease(@, c)]
      /\ until' = [until EXCEPT ![c] = 0]
      /\ UNCHANGED <<now, tnow, ev, sub>>
  BY DEF Release, Goto, bounds
<1>2. Key(c) \in Keys /\ \A v \in Workers : Key(v)' = Key(v)
  BY <1>1, KeyTyped DEF Key
<1>3. ASSUME NEW v \in Workers, InLease(v)', until'[v] > now'
      PROVE  lease'[Key(v)'] = Leased(v, until'[v])
  <2>1. /\ v # c /\ InLease(v) /\ until'[v] = until[v]
        /\ lease[Key(v)] = Leased(v, until[v])
    BY <1>1, <1>3 DEF InLease, LeaseInv
  <2>2. Key(v) \in Keys
    BY <2>1, KeyTyped DEF InLease
  <2>3. Leased(v, until[v]).holder # c
    BY <2>1 DEF Leased
  <2>4. Key(v) = Key(c) => AfterRelease(lease[Key(c)], c) = lease[Key(c)]
    BY <2>1, <2>3 DEF AfterRelease
  <2>5. lease'[Key(v)] = lease[Key(v)]
    BY <1>1, <1>2, <2>2, <2>4
  <2>6. QED
    BY <1>2, <2>1, <2>5
<1>4. QED
  BY <1>1, <1>3 DEF LeaseInv

\* The lease row of every owner in time names it.
THEOREM BusLeaseInvariant == Spec => []LeaseInv
<1> USE BusConstantsOK
<1>1. Init => LeaseInv
  BY DEF Init, LeaseInv, InLease
<1>2. ASSUME TypeOK, Located, LeaseInv, [Next]_vars
      PROVE  LeaseInv'
  <2> USE <1>2
  <2>1. ASSUME NEW w \in Workers, LeaseStays(w)
        PROVE  LeaseInv'
    <3>1. \A v \in Workers : tnow'[v] <= now'
      BY <2>1 DEF LeaseStays, LeaseInv, TypeOK
    <3>2. QED
      BY <2>1, <3>1, QuietOwners DEF LeaseStays, LeaseInv
  <2>2. ASSUME NEW w \in Workers, Acquire(w)
        PROVE  LeaseInv'
    BY <2>2, LeaseAcquire
  <2>3. ASSUME NEW w \in Workers, Release(w)
        PROVE  LeaseInv'
    BY <2>3, LeaseRelease
  <2>4. CASE Restart
    <3>1. \A w \in Workers : pc'[w] = "idle" /\ tnow'[w] = 0
      BY <2>4 DEF Restart
    <3>2. now' = now
      BY <2>4 DEF Restart
    <3>3. QED
      BY <3>1, <3>2 DEF LeaseInv, InLease, TypeOK
  <2>5. CASE Tick
    BY <2>5 DEF Tick, ledger, locals, LeaseInv, InLease, Key, TypeOK
  <2>6. ASSUME UNCHANGED <<pc, now, lease, until, tnow, ev, sub>>
        PROVE  LeaseInv'
    BY <2>6 DEF LeaseInv, InLease, Key
  <2>7. ASSUME NEW s \in Subs, Subscribe(s) \/ Unsubscribe(s)
        PROVE  LeaseInv'
    BY <2>6, <2>7 DEF Subscribe, Unsubscribe, locals, bounds
  <2>8. ASSUME NEW w \in Workers, NEW e \in Events, Deduped(w, e)
        PROVE  LeaseInv'
    BY <2>6, <2>8 DEF Deduped, vars, ledger, locals, bounds
  <2>9. CASE UNCHANGED vars
    BY <2>6, <2>9 DEF vars, ledger, locals, bounds
  <2>10. QED
    BY <2>1, <2>2, <2>3, <2>4, <2>5, <2>7, <2>8, <2>9, QuietSteps
       DEF Next, Step
<1>3. QED
  BY <1>1, <1>2, BusTypeCorrect, PTL DEF Spec

\* OneLiveDispatcher, for any number of dispatchers and every length of the
\* lease: of those that own a lease of one delivery that has not run out there
\* is one at most, even when earlier owners outlived theirs.
THEOREM SingleDispatcher == Spec => []OneLiveDispatcher
<1>1. ASSUME LeaseInv
      PROVE  OneLiveDispatcher
  <2>1. SUFFICES ASSUME NEW v \in Workers, InLease(v), until[v] > now,
                        NEW w \in Workers, InLease(w), until[w] > now,
                        Key(v) = Key(w)
                 PROVE  v = w
    BY DEF OneLiveDispatcher
  <2>2. Leased(v, until[v]) = Leased(w, until[w])
    BY <1>1, <2>1 DEF LeaseInv
  <2>3. QED
    BY <2>2 DEF Leased
<1>2. QED
  BY <1>1, BusTypeCorrect, BusLeaseInvariant, PTL

-----------------------------------------------------------------------------
(* The refinement. *)

\* A step that changes no grant and no owner is invisible to every lease.
LEMMA InvisibleToLease ==
  ASSUME NEW k \in Keys, UNCHANGED now, lease'[k] = lease[k],
         Owners(k)' = Owners(k), \A w \in Owners(k) : until'[w] = until[w]
  PROVE  UNCHANGED Service(k)!svars
BY DEF Service!svars

\* A quiet step of a worker is.
LEMMA QuietInvisible ==
  ASSUME TypeOK, NEW w \in Workers, LeaseStays(w), NEW k \in Keys
  PROVE  UNCHANGED Service(k)!svars
<1>1. Owners(k)' = Owners(k)
  BY QuietOwners DEF Owners
<1>2. QED
  BY <1>1, InvisibleToLease DEF LeaseStays

\* acquire_lease for one delivery is a grant of its lease, and of no other.
LEMMA AcquireServes ==
  ASSUME TypeOK, Located, LeaseInv, NEW c \in Workers, Acquire(c),
         NEW k \in Keys
  PROVE  [Service(k)!Next]_(Service(k)!svars)
<1>1. /\ pc[c] = "acquire" /\ pc' = [pc EXCEPT ![c] = "reread"]
      /\ lease' = [lease EXCEPT ![Key(c)] = Leased(c, tnow[c] + LeaseTTL)]
      /\ until' = [until EXCEPT ![c] = tnow[c] + LeaseTTL]
      /\ now' = now /\ Takes(lease[Key(c)], tnow[c])
      /\ \A v \in Workers : Key(v)' = Key(v)
  BY DEF Acquire, Goto, bounds, Key
<1>2. \A v \in Workers : InLease(v)' <=> InLease(v) \/ v = c
  BY <1>1 DEF TypeOK, InLease
<1>3. Owners(k) \subseteq Workers /\ c \notin Owners(k)
  BY <1>1 DEF Owners, InLease
<1>4. CASE k = Key(c)
  <2>1. Owners(k)' = Owners(k) \cup {c}
    BY <1>1, <1>2, <1>4 DEF Owners
  <2>2. lease'[k] = Leased(c, tnow[c] + LeaseTTL)
    BY <1>1, <1>4 DEF TypeOK
  <2>3. tnow[c] \in 0..now
    BY DEF TypeOK, LeaseInv
  <2>4. until'[c] = tnow[c] + LeaseTTL
        /\ \A v \in Workers \ {c} : until'[v] = until[v]
    BY <1>1 DEF TypeOK
  <2>5. Service(k)!Grant(c, c, tnow[c])
    BY <1>1, <1>3, <1>4, <2>1, <2>2, <2>4
       DEF Service!Grant, Service!Takes, Takes, Service!Leased, Leased
  <2>6. \E i \in [w \in Workers |-> {w}][c], t \in 0..now :
          Service(k)!Grant(c, i, t)
    BY <2>3, <2>5 DEF Service!Grant
  <2>7. QED
    BY <2>6 DEF Service!Next
<1>5. CASE k # Key(c)
  <2>1. Owners(k)' = Owners(k)
    BY <1>1, <1>2, <1>5 DEF Owners
  <2>2. UNCHANGED Service(k)!svars
    BY <1>1, <1>3, <1>5, <2>1, InvisibleToLease DEF TypeOK
  <2>3. QED
    BY <2>2
<1>6. QED
  BY <1>4, <1>5

\* release_lease returns the lease of its delivery, and of no other.
LEMMA ReleaseServes ==
  ASSUME TypeOK, Located, NEW c \in Workers, Release(c), NEW k \in Keys
  PROVE  [Service(k)!Next]_(Service(k)!svars)
<1>1. /\ pc[c] = "release" /\ pc' = [pc EXCEPT ![c] = "loop"]
      /\ lease' = [lease EXCEPT ![Key(c)] = AfterRelease(@, c)]
      /\ until' = [until EXCEPT ![c] = 0]
      /\ now' = now /\ \A v \in Workers : Key(v)' = Key(v)
  BY DEF Release, Goto, bounds, Key
<1>2. \A v \in Workers : InLease(v)' <=> InLease(v) /\ v # c
  BY <1>1 DEF TypeOK, InLease
<1>3. InLease(c) /\ Owners(k) \subseteq Workers
  BY <1>1 DEF Owners, InLease
<1>4. \A v \in Workers \ {c} : until'[v] = until[v]
  BY <1>1 DEF TypeOK
<1>5. CASE k = Key(c)
  <2>1. c \in Owners(k) /\ Owners(k)' = Owners(k) \ {c}
    BY <1>1, <1>2, <1>3, <1>5 DEF Owners
  <2>2. lease'[k] = AfterRelease(lease[k], c)
    BY <1>1, <1>5 DEF TypeOK
  <2>3. Service(k)!Forget({c})
    BY <1>3, <1>4, <2>1 DEF Service!Forget
  <2>4. Service(k)!Return(c)
    BY <1>1, <2>1, <2>2, <2>3
       DEF Service!Return, Service!AfterRelease, AfterRelease
  <2>5. QED
    BY <2>4 DEF Service!Next
<1>6. CASE k # Key(c)
  <2>1. Owners(k)' = Owners(k) /\ c \notin Owners(k)
    BY <1>1, <1>2, <1>6 DEF Owners
  <2>2. UNCHANGED Service(k)!svars
    BY <1>1, <1>3, <1>4, <1>6, <2>1, InvisibleToLease DEF TypeOK
  <2>3. QED
    BY <2>2
<1>7. QED
  BY <1>5, <1>6

\* In a restart every owner of a lease dies.
LEMMA RestartServes ==
  ASSUME TypeOK, Restart, NEW k \in Keys
  PROVE  [Service(k)!Next]_(Service(k)!svars)
<1>1. /\ \A w \in Workers : pc'[w] = "idle" /\ until'[w] = 0
      /\ lease' = lease /\ now' = now
  BY DEF Restart, ledger
<1>2. Owners(k)' = {} /\ Owners(k) \subseteq Workers
  BY <1>1 DEF Owners, InLease
<1>3. CASE Owners(k) = {}
  BY <1>1, <1>2, <1>3, InvisibleToLease
<1>4. CASE Owners(k) # {}
  <2>1. Service(k)!Forget(Owners(k))
    BY <1>2 DEF Service!Forget
  <2>2. Service(k)!Die(Owners(k))
    BY <1>1, <1>4, <2>1 DEF Service!Die
  <2>3. QED
    BY <2>2 DEF Service!Next
<1>5. QED
  BY <1>3, <1>4

\* The clock of every lease is the clock.
LEMMA TickServes ==
  ASSUME TypeOK, Tick, NEW k \in Keys
  PROVE  [Service(k)!Next]_(Service(k)!svars)
<1>1. now' = now + 1 /\ UNCHANGED <<lease, pc, ev, sub, until>>
  BY DEF Tick, ledger, locals
<1>2. Owners(k)' = Owners(k)
  BY <1>1 DEF Owners, InLease, Key
<1>3. Service(k)!Tick
  BY <1>1, <1>2 DEF Service!Tick
<1>4. QED
  BY <1>3 DEF Service!Next

\* ImplementsLeases, for every set of deliveries: on each lease every step of
\* every dispatcher, of a restart or of the clock is a step of the abstract
\* lease or leaves it alone.
THEOREM BusRefinement == Spec => ImplementsLeases
<1> USE BusConstantsOK
<1> DEFINE Serves == \A k \in Keys : [Service(k)!Next]_(Service(k)!svars)
<1>1. Init => \A k \in Keys : Service(k)!Init
  BY DEF Init, Service!Init, Owners, InLease
<1>2. ASSUME TypeOK, Located, LeaseInv, [Next]_vars
      PROVE  Serves
  <2> SUFFICES ASSUME NEW k \in Keys
               PROVE  [Service(k)!Next]_(Service(k)!svars)
    OBVIOUS
  <2> USE <1>2
  <2>1. ASSUME NEW w \in Workers, LeaseStays(w)
        PROVE  UNCHANGED Service(k)!svars
    BY <2>1, QuietInvisible
  <2>2. ASSUME NEW w \in Workers, Acquire(w)
        PROVE  [Service(k)!Next]_(Service(k)!svars)
    BY <2>2, AcquireServes
  <2>3. ASSUME NEW w \in Workers, Release(w)
        PROVE  [Service(k)!Next]_(Service(k)!svars)
    BY <2>3, ReleaseServes
  <2>4. CASE Restart
    BY <2>4, RestartServes
  <2>5. CASE Tick
    BY <2>5, TickServes
  <2>6. ASSUME UNCHANGED <<pc, now, lease, until, ev, sub>>
        PROVE  UNCHANGED Service(k)!svars
    <3>1. Owners(k)' = Owners(k)
      BY <2>6 DEF Owners, InLease, Key
    <3>2. QED
      BY <2>6, <3>1, InvisibleToLease
  <2>7. ASSUME NEW s \in Subs, Subscribe(s) \/ Unsubscribe(s)
        PROVE  UNCHANGED Service(k)!svars
    BY <2>6, <2>7 DEF Subscribe, Unsubscribe, locals, bounds
  <2>8. ASSUME NEW w \in Workers, NEW e \in Events, Deduped(w, e)
        PROVE  UNCHANGED Service(k)!svars
    BY <2>6, <2>8 DEF Deduped, vars, ledger, locals, bounds
  <2>9. CASE UNCHANGED vars
    BY <2>6, <2>9 DEF vars, ledger, locals, bounds
  <2>10. QED
    BY <2>1, <2>2, <2>3, <2>4, <2>5, <2>7, <2>8, <2>9, QuietSteps
       DEF Next, Step
<1>3. Init /\ [][Serves]_vars => ImplementsLeases
  BY <1>1, PTL DEF ImplementsLeases
<1>4. QED
  BY <1>2, <1>3, BusTypeCorrect, BusLeaseInvariant, PTL DEF Spec

-----------------------------------------------------------------------------
(* The soak: what makes its properties inductive. *)

\* Nothing has been done for a delivery.
Fresh(k) == row[k] = NoRow /\ inbox[k] = 0 /\ lines[k] = 0

\* A subscription this boot has yet to dispatch an event to, or to create.
Live(s) == s \in subs \cup unused \/ \E w \in Workers : s \in seen[w]

\* A thread is inside a listing or a handler only where that is called, and a
\* replay finds nothing to do.
PlaceOK(w) ==
  /\ at[w] = "listing" => pc[w] = "match"
  /\ at[w] \notin {"out", "listing"} => ToBridge(w)
  /\ at[w] \in {"classify", "route", "routed"} => ev[w] \in mapped
  /\ pc[w] = "idle" => ev[w] = NoEvent
  /\ pc[w] \in {"idle", "match"} => todo[w] = {}
  /\ pc[w] = "match" => op[w] = "publish"
  /\ pc[w] # "idle" /\ op[w] = "replay" => pc[w] = "loop" /\ todo[w] = {}
  /\ pc[w] # "lookup"

\* A list has one entry for each subscription, the one the thread is at
\* excluded, and all of them exist already.
ListOK(w) ==
  /\ \A d, f \in todo[w] : d.sub = f.sub => d = f
  /\ pc[w] \in Attempting => \A d \in todo[w] : d.sub # sub[w]
  /\ \A d \in todo[w] : d.sub \notin unused
  /\ pc[w] \notin {"idle", "match", "loop"} => sub[w] \notin unused
  /\ seen[w] \cap unused = {}

\* What is ahead of a thread is untouched; of the delivery it is at, the inbox
\* and the log say how far the handler has come.
WorkOK(w) ==
  /\ \A s \in Subs : pc[w] = "match" /\ Live(s) => Fresh(<<ev[w], s>>)
  /\ \A d \in todo[w] : Fresh(<<ev[w], d.sub>>)
  /\ pc[w] \in {"fast", "clock", "acquire", "reread"} => Fresh(Key(w))
  /\ pc[w] = "deliver" =>
       /\ row[Key(w)] = NoRow /\ lines[Key(w)] = 0 /\ tries[w] = 1
       /\ inbox[Key(w)] = IF at[w] = "routed" \/ (at[w] = "log" /\ ev[w] \in mapped)
                            THEN 1 ELSE 0
  /\ pc[w] \in {"succeeded", "failed"} =>
       /\ row[Key(w)] = NoRow /\ tries[w] = 1
       /\ lines[Key(w)] = IF pc[w] = "succeeded" /\ sub[w] \in CaptureSubs
                            THEN 1 ELSE 0

WorkerOK(w) == PlaceOK(w) /\ ListOK(w) /\ WorkOK(w)

\* Ids are drawn once.
IdsInv == own \notin unused /\ subs \cap unused = {}

FreshInv ==
  \A e \in Events, s \in Subs :
    Live(s) /\ (e \notin events \/ s \in unused) => Fresh(<<e, s>>)

\* One attempt at a delivery is never its last failure, and the row of a
\* delivery to the bridge says whether its line was written.
RowInv ==
  \A e \in Events, s \in Subs :
    row[<<e, s>>] # NoRow =>
      /\ row[<<e, s>>].status # "dead"
      /\ s \in CaptureSubs => (Delivered(<<e, s>>) <=> lines[<<e, s>>] = 1)

\* An event that was accepted has been attempted, or is still ahead of the
\* thread that dispatches it.
AcceptedInv ==
  \A e \in events \ torn, s \in subs :
    s = own =>
      \/ row[<<e, s>>] # NoRow
      \/ \E w \in Workers : ev[w] = e /\ Ahead(w, s)

\* A lease row is there only while its owner is in its attempt.
HeldInv ==
  \A k \in Keys :
    lease[k] # NoLease =>
      \E w \in Workers : InLease(w) /\ Key(w) = k /\ lease[k].holder = w

SoakInv ==
  /\ SoakTypeOK /\ Located
  /\ \A w \in Workers : WorkerOK(w)
  /\ OneDispatchPerEvent /\ IdsInv /\ FreshInv
  /\ RowInv /\ SeenOncePerBoot /\ LinesMatchInbox /\ AcceptedInv /\ HeldInv

-----------------------------------------------------------------------------
(* The soak: what a step leaves alone. *)

\* The step changes no local variable of this thread.
Unmoved(v) ==
  /\ pc'[v] = pc[v] /\ op'[v] = op[v] /\ ev'[v] = ev[v] /\ todo'[v] = todo[v]
  /\ sub'[v] = sub[v] /\ tries'[v] = tries[v]
  /\ at'[v] = at[v] /\ seen'[v] = seen[v]

\* Nothing becomes Live.
Shrinks ==
  /\ unused' \subseteq unused
  /\ \A s \in Subs : Live(s)' => Live(s)

\* The row, the inbox entry and the line of a delivery stay.
KeyStays(k) == row'[k] = row[k] /\ inbox'[k] = inbox[k] /\ lines'[k] = lines[k]

\* A thread that does not move stays in order when the deliveries of the
\* event it dispatches stay as they are.
LEMMA OtherKeeps ==
  ASSUME SoakInv, Shrinks, mapped' = mapped, NEW v \in Workers, Unmoved(v),
         pc[v] # "idle" /\ op[v] = "publish" =>
           \A s \in Subs : KeyStays(<<ev[v], s>>)
  PROVE  WorkerOK(v)'
<1> USE DEF Unmoved
<1>1. WorkerOK(v)
  BY DEF SoakInv
<1>2. PlaceOK(v)'
  BY <1>1 DEF WorkerOK, PlaceOK, ToBridge
<1>3. ListOK(v)'
  BY <1>1 DEF WorkerOK, ListOK, Shrinks
<1>4. ASSUME pc[v] # "idle" /\ op[v] = "publish"
      PROVE  WorkOK(v)'
  <2> USE DEF Fresh, Key
  <2>1. \A s \in Subs : /\ row'[<<ev[v], s>>] = row[<<ev[v], s>>]
                         /\ inbox'[<<ev[v], s>>] = inbox[<<ev[v], s>>]
                         /\ lines'[<<ev[v], s>>] = lines[<<ev[v], s>>]
    BY <1>4 DEF KeyStays
  <2>2. pc[v] \notin {"idle", "match", "loop"} => sub[v] \in Subs
    BY DEF SoakInv, Located
  <2>3. \A d \in todo[v] : d.sub \in Subs
    BY DEF SoakInv, SoakTypeOK, TypeOK, Listed
  <2>4. \A s \in Subs : pc'[v] = "match" /\ Live(s)' => Fresh(<<ev[v], s>>)'
    BY <1>1, <2>1 DEF WorkerOK, WorkOK, Shrinks
  <2>5. \A d \in todo'[v] : Fresh(<<ev[v], d.sub>>)'
    BY <1>1, <2>1, <2>3 DEF WorkerOK, WorkOK
  <2>6. pc'[v] \in {"fast", "clock", "acquire", "reread"} => Fresh(Key(v))'
    BY <1>1, <2>1, <2>2 DEF WorkerOK, WorkOK
  <2>7. WorkOK(v)!4'
    BY <1>1, <2>1, <2>2 DEF WorkerOK, WorkOK
  <2>8. WorkOK(v)!5'
    BY <1>1, <2>1, <2>2 DEF WorkerOK, WorkOK
  <2>9. QED
    BY <2>4, <2>5, <2>6, <2>7, <2>8 DEF WorkOK
<1>5. ASSUME ~(pc[v] # "idle" /\ op[v] = "publish")
      PROVE  WorkOK(v)'
  <2>1. op[v] \in {"publish", "replay"}
    BY DEF SoakInv, SoakTypeOK, TypeOK
  <2>2. pc'[v] \in {"idle", "loop"} /\ todo'[v] = {}
    BY <1>1, <1>5, <2>1 DEF WorkerOK, PlaceOK
  <2>3. QED
    BY <2>2 DEF WorkOK
<1>6. QED
  BY <1>2, <1>3, <1>4, <1>5 DEF WorkerOK

\* What a step that touches no event, row or file keeps.
LEMMA LedgerKeeps ==
  ASSUME SoakInv, Shrinks, UNCHANGED <<events, row, inbox, lines, own, mapped>>,
         subs' \subseteq subs \cup unused, subs' \cap unused' = {}
  PROVE  IdsInv' /\ FreshInv' /\ RowInv' /\ SeenOncePerBoot' /\ LinesMatchInbox'
<1>1. IdsInv'
  BY DEF SoakInv, IdsInv, Shrinks
<1>2. \A k \in Keys : Fresh(k)' <=> Fresh(k)
  BY DEF Fresh
<1>3. FreshInv'
  BY <1>2 DEF SoakInv, FreshInv, Shrinks, Keys
<1>4. RowInv'
  BY DEF SoakInv, RowInv, Delivered
<1>5. SeenOncePerBoot'
  BY DEF SoakInv, SeenOncePerBoot
<1>6. LinesMatchInbox'
  <2>1. ASSUME NEW e \in events, NEW s \in subs' \cap CaptureSubs
        PROVE  /\ lines[<<e, s>>] > 0 /\ e \in mapped => inbox[<<e, s>>] = 1
               /\ e \notin mapped => inbox[<<e, s>>] = 0
    <3>1. CASE s \in subs
      BY <3>1 DEF SoakInv, LinesMatchInbox
    <3>2. CASE s \in unused
      <4>1. Live(s) /\ s \in Subs /\ e \in Events
        BY <3>2, SoakConstantsOK DEF Live, SoakInv, SoakTypeOK, TypeOK
      <4>2. Fresh(<<e, s>>)
        BY <3>2, <4>1 DEF SoakInv, FreshInv
      <4>3. QED
        BY <4>2 DEF Fresh
    <3>3. QED
      BY <3>1, <3>2
  <2>2. QED
    BY <2>1 DEF LinesMatchInbox
<1>7. QED
  BY <1>1, <1>3, <1>4, <1>5, <1>6

\* An accepted event stays ahead of its thread until it has a row, or its
\* listing has met a change.
LEMMA AcceptedKeeps ==
  ASSUME SoakInv, UNCHANGED <<events, own>>, torn \subseteq torn',
         own \in subs' => own \in subs,
         \A k \in Keys : row[k] # NoRow => row'[k] # NoRow,
         \A v \in Workers, s \in subs :
           Ahead(v, s) /\ ev[v] \notin torn' =>
             \/ row'[<<ev[v], s>>] # NoRow
             \/ ev'[v] = ev[v] /\ Ahead(v, s)'
  PROVE  AcceptedInv'
<1>1. events \subseteq Events /\ subs \subseteq Subs
  BY DEF SoakInv, SoakTypeOK, TypeOK
<1>2. ASSUME NEW e \in events \ torn', NEW s \in subs', s = own',
             row'[<<e, s>>] = NoRow
      PROVE  \E w \in Workers : ev'[w] = e /\ Ahead(w, s)'
  <2>1. s \in subs /\ s = own /\ <<e, s>> \in Keys /\ e \in events \ torn
    BY <1>1, <1>2 DEF Keys
  <2>2. row[<<e, s>>] = NoRow
    BY <1>2, <2>1
  <2>3. PICK w \in Workers : ev[w] = e /\ Ahead(w, s)
    BY <2>1, <2>2 DEF SoakInv, AcceptedInv
  <2>4. QED
    BY <1>2, <2>1, <2>3
<1>3. QED
  BY <1>2 DEF AcceptedInv

\* A lease row keeps its owner as long as nobody leaves its attempt.
LEMMA HeldKeeps ==
  ASSUME SoakInv, lease' = lease,
         \A v \in Workers : InLease(v) => InLease(v)' /\ Key(v)' = Key(v)
  PROVE  HeldInv'
BY DEF SoakInv, HeldInv

\* At most one thread dispatches an event after a step in which none begins.
LEMMA OneKeeps ==
  ASSUME SoakInv,
         \A v \in Workers :
           pc'[v] # "idle" /\ op'[v] = "publish" =>
             pc[v] # "idle" /\ op[v] = "publish" /\ ev'[v] = ev[v]
  PROVE  OneDispatchPerEvent'
BY DEF SoakInv, OneDispatchPerEvent

\* A step of one thread, which touches no delivery but its own.
LEMMA WorkerSteps ==
  ASSUME SoakInv, Shrinks, mapped' = mapped, NEW w \in Workers, WorkerOK(w)',
         \A v \in Workers \ {w} : Unmoved(v),
         \A k \in Keys :
           k # Key(w) \/ pc[w] = "idle" \/ op[w] # "publish" => KeyStays(k)
  PROVE  \A v \in Workers : WorkerOK(v)'
<1>1. ASSUME NEW v \in Workers \ {w}
      PROVE  WorkerOK(v)'
  <2>1. ASSUME pc[v] # "idle" /\ op[v] = "publish", NEW s \in Subs
        PROVE  KeyStays(<<ev[v], s>>)
    <3>1. <<ev[v], s>> \in Keys
      BY <2>1 DEF SoakInv, SoakTypeOK, TypeOK, Located, Keys
    <3>2. pc[w] # "idle" /\ op[w] = "publish" => ev[v] # ev[w]
      BY <2>1 DEF SoakInv, OneDispatchPerEvent
    <3>3. QED
      BY <3>1, <3>2 DEF Key
  <2>2. QED
    BY <2>1, OtherKeeps
<1>2. QED
  BY <1>1

-----------------------------------------------------------------------------
(* The soak: typing. *)

\* Two threads inside the route are at different deliveries.
LEMMA RoutesApart ==
  ASSUME SoakInv, NEW v \in Workers, NEW w \in Workers,
         at[v] = "route", at[w] = "route", Key(v) = Key(w)
  PROVE  v = w
<1>1. \A u \in {v, w} : pc[u] = "deliver" /\ op[u] = "publish"
  BY DEF SoakInv, WorkerOK, PlaceOK, ToBridge, SoakTypeOK, TypeOK
<1>2. QED
  BY <1>1 DEF SoakInv, OneDispatchPerEvent, Key

\* A restart finds at most one route running for a delivery.
LEMMA OneOrphan ==
  ASSUME SoakInv, NEW orphans \in SUBSET {w \in Workers : at[w] = "route"},
         NEW k \in Keys
  PROVE  Cardinality({w \in orphans : Key(w) = k}) \in {0, 1}
<1> DEFINE S == {w \in orphans : Key(w) = k}
<1>1. CASE S = {}
  BY <1>1, FS_EmptySet
<1>2. CASE S # {}
  <2>1. PICK w : w \in S
    BY <1>2
  <2>2. S = {w}
    BY <2>1, RoutesApart
  <2>3. QED
    BY <2>2, FS_Singleton
<1>3. QED
  BY <1>1, <1>2

\* Whatever a torn listing has found is a list.
LEMMA TornTyped ==
  ASSUME SoakInv, NEW w \in Workers, NEW found \in SUBSET (seen[w] \cup subs)
  PROVE  [sub : found, attempts : {0}] \subseteq Listed
<1>1. found \subseteq Subs
  BY DEF SoakInv, SoakTypeOK, TypeOK
<1>2. QED
  BY <1>1 DEF Listed

\* What a step does to the bus, the two listings that fail and a restart
\* excepted, is a step of BusDispatch.
LEMMA SoakBusSteps ==
  ASSUME SoakInv,
         \/ BusStep \/ UNCHANGED allVars
         \/ \E w \in Workers :
              \/ BeginListing(w) \/ EndListing(w) \/ Resolve(w) \/ Classify(w)
              \/ FileThought(w) \/ Routed(w) \/ RouteFails(w) \/ LogLine(w)
              \/ LogFails(w) \/ DeliverElsewhere(w)
  PROVE  [Next]_vars
BY DEF BusStep, allVars, BeginListing, EndListing, Resolve, Classify,
       FileThought, Routed, RouteFails, LogLine, LogFails, DeliverElsewhere,
       Next, Step

\* Every step of the soak keeps the types.
LEMMA SoakTypeStep ==
  SoakInv /\ [SoakNext]_allVars => SoakTypeOK' /\ Located'
<1> SUFFICES ASSUME SoakInv, [SoakNext]_allVars
             PROVE  SoakTypeOK' /\ Located'
  OBVIOUS
<1>0. SoakTypeOK /\ TypeOK /\ Located
  BY DEF SoakInv, SoakTypeOK
<1> USE DEF SoakTypeOK, Places, Enter, Goto, soakVars, config, files
<1>1. ASSUME [Next]_vars PROVE TypeOK' /\ Located'
  BY <1>0, <1>1, BusTypeStep
<1>2. CASE BusStep \/ UNCHANGED allVars
  <2>1. [Next]_vars
    BY <1>2, SoakBusSteps
  <2>2. UNCHANGED soakVars
    BY <1>2 DEF BusStep, allVars
  <2>3. QED
    BY <1>0, <1>1, <2>1, <2>2
<1>3. ASSUME NEW w \in Workers,
             BeginListing(w) \/ EndListing(w) \/ Resolve(w) \/ Classify(w)
             \/ Routed(w) \/ RouteFails(w) \/ LogFails(w) \/ DeliverElsewhere(w)
      PROVE  SoakTypeOK' /\ Located'
  <2>1. TypeOK' /\ Located'
    BY <1>1, <1>3, SoakBusSteps
  <2>2. UNCHANGED <<obs, real, mapped, own, inbox, lines, torn>>
    BY <1>3 DEF BeginListing, EndListing, Resolve, Classify, Routed,
                RouteFails, LogFails, DeliverElsewhere
  <2>3. seen' = seen \/ \E S \in SUBSET Subs : seen' = [seen EXCEPT ![w] = S]
    BY <1>0, <1>3 DEF BeginListing, EndListing, Resolve, Classify, Routed,
                RouteFails, LogFails, DeliverElsewhere, TypeOK
  <2>4. at' = at \/ \E p \in Places : at' = [at EXCEPT ![w] = p]
    BY <1>3 DEF BeginListing, EndListing, Resolve, Classify, Routed,
                RouteFails, LogFails, DeliverElsewhere
  <2>5. QED
    BY <1>0, <2>1, <2>2, <2>3, <2>4
<1>4. ASSUME NEW w \in Workers, FileThought(w) \/ LogLine(w)
      PROVE  SoakTypeOK' /\ Located'
  <2>1. TypeOK' /\ Located'
    BY <1>1, <1>4, SoakBusSteps
  <2>2. pc[w] = "deliver"
    BY <1>4 DEF FileThought, LogLine, DeliverOK, SoakInv, WorkerOK, PlaceOK,
                ToBridge
  <2>3. Key(w) \in Keys
    BY <1>0, <2>2, KeyTyped
  <2>4. QED
    BY <1>0, <1>4, <2>1, <2>3 DEF FileThought, LogLine
<1>5. ASSUME NEW w \in Workers, EndTornListing(w)
      PROVE  SoakTypeOK' /\ Located'
  <2>1. PICK found \in SUBSET (seen[w] \cup subs) :
          todo' = [todo EXCEPT ![w] = [sub : found, attempts : {0}]]
    BY <1>5 DEF EndTornListing
  <2>2. todo' \in [Workers -> SUBSET Listed]
    BY <1>0, <2>1, TornTyped DEF TypeOK
  <2>3. /\ pc' = [pc EXCEPT ![w] = "loop"] /\ at' = [at EXCEPT ![w] = "out"]
        /\ seen' = [seen EXCEPT ![w] = {}] /\ torn' = torn \cup {ev[w]}
        /\ UNCHANGED <<ledger, op, ev, sub, tnow, until, tries, history, bounds,
                       obs, real, mapped, own, inbox, lines>>
    BY <1>5 DEF EndTornListing
  <2>4. pc[w] = "match"
    BY <1>5 DEF EndTornListing, SoakInv, WorkerOK, PlaceOK
  <2>5. TypeOK'
    BY <1>0, <2>2, <2>3 DEF TypeOK, ledger, history, bounds, Labels
  <2>6. Located'
    BY <1>0, <2>3, <2>4 DEF TypeOK, Located, ledger
  <2>7. ev[w] \in Events
    BY <1>0, <2>4 DEF TypeOK, Located
  <2>8. QED
    BY <1>0, <2>3, <2>5, <2>6, <2>7
<1>6. ASSUME NEW w \in Workers, ListingRaises(w)
      PROVE  SoakTypeOK' /\ Located'
  <2>1. /\ pc' = [pc EXCEPT ![w] = "idle"] /\ at' = [at EXCEPT ![w] = "out"]
        /\ ev' = [ev EXCEPT ![w] = NoEvent]
        /\ seen' = [seen EXCEPT ![w] = {}] /\ torn' = torn \cup {ev[w]}
        /\ UNCHANGED <<ledger, op, todo, sub, tnow, until, tries, history,
                       bounds, obs, real, mapped, own, inbox, lines>>
    BY <1>6 DEF ListingRaises
  <2>2. pc[w] = "match"
    BY <1>6 DEF ListingRaises, SoakInv, WorkerOK, PlaceOK
  <2>3. TypeOK'
    BY <1>0, <2>1 DEF TypeOK, ledger, history, bounds, Labels
  <2>4. Located'
    BY <1>0, <2>1 DEF TypeOK, Located, ledger
  <2>5. ev[w] \in Events
    BY <1>0, <2>2 DEF TypeOK, Located
  <2>6. QED
    BY <1>0, <2>1, <2>3, <2>4, <2>5
<1>7. CASE Reboot
  <2>1. TypeOK'
    BY <1>0, <1>7, SoakConstantsOK DEF Reboot, TypeOK, LeaseRows, Labels, history
  <2>2. Located'
    BY <1>7 DEF Reboot, Located
  <2>3. PICK orphans \in SUBSET {w \in Workers : at[w] = "route"} :
          inbox' = [k \in Keys |->
                     inbox[k] + Cardinality({w \in orphans : Key(w) = k})]
    BY <1>7 DEF Reboot
  <2>4. \A k \in Keys : Cardinality({w \in orphans : Key(w) = k}) \in Nat
    BY OneOrphan
  <2>5. inbox' \in [Keys -> Nat]
    BY <1>0, <2>3, <2>4
  <2>6. QED
    BY <1>0, <1>7, <2>1, <2>2, <2>5 DEF Reboot
<1>8. QED
  BY <1>2, <1>3, <1>4, <1>5, <1>6, <1>7 DEF SoakNext, BridgeStep

-----------------------------------------------------------------------------
(* The soak: the steps that leave events, rows and files alone. *)

\* A step of one thread that is no publish and writes neither a row nor a file.
LEMMA QuietStep ==
  ASSUME SoakInv, SoakTypeOK', Located', Shrinks,
         UNCHANGED <<events, row, inbox, lines, own, mapped, subs, unused>>,
         torn \subseteq torn',
         NEW w \in Workers, WorkerOK(w)', \A v \in Workers \ {w} : Unmoved(v),
         pc'[w] # "idle" /\ op'[w] = "publish" =>
           pc[w] # "idle" /\ op[w] = "publish" /\ ev'[w] = ev[w],
         \A s \in subs : Ahead(w, s) /\ ev[w] \notin torn' =>
                           ev'[w] = ev[w] /\ Ahead(w, s)',
         \/ HeldInv'
         \/ lease' = lease /\ (InLease(w) => InLease(w)' /\ Key(w)' = Key(w))
  PROVE  SoakInv'
<1>1. \A v \in Workers : WorkerOK(v)'
  BY WorkerSteps DEF KeyStays
<1>2. OneDispatchPerEvent'
  BY OneKeeps DEF Unmoved
<1>3. subs \cap unused = {}
  BY DEF SoakInv, IdsInv
<1>4. IdsInv' /\ FreshInv' /\ RowInv' /\ SeenOncePerBoot' /\ LinesMatchInbox'
  BY <1>3, LedgerKeeps
<1>5. \A v \in Workers \ {w}, s \in subs :
        ev'[v] = ev[v] /\ (Ahead(v, s) => Ahead(v, s)')
  BY DEF Unmoved, Ahead
<1>6. AcceptedInv'
  BY <1>5, AcceptedKeeps
<1>7. \A v \in Workers \ {w} :
        InLease(v) => InLease(v)' /\ Key(v)' = Key(v)
  BY DEF Unmoved, InLease, Key
<1>8. HeldInv'
  BY <1>7, HeldKeeps
<1>9. QED
  BY <1>1, <1>2, <1>4, <1>6, <1>8 DEF SoakInv

\* A thread outside the handlers of the bridge and outside a listing.
LEMMA Outside ==
  ASSUME SoakInv, NEW w \in Workers, pc[w] \notin {"match", "deliver"}
  PROVE  at[w] = "out"
BY DEF SoakInv, SoakTypeOK, Places, WorkerOK, PlaceOK, ToBridge

\* A thread that is past the idle state serves a publish, unless its list is
\* empty.
LEMMA Publishes ==
  ASSUME SoakInv, NEW w \in Workers, pc[w] \notin {"idle", "loop"}
  PROVE  op[w] = "publish"
BY DEF SoakInv, SoakTypeOK, TypeOK, WorkerOK, PlaceOK

\* A thread that answers its request has dispatched all of its list.
LEMMA AnswerKeeps ==
  ASSUME SoakInv, SoakTypeOK', Located', NEW w \in Workers,
         Answer(w), UNCHANGED soakVars
  PROVE  SoakInv'
<1>1. /\ pc[w] = "loop" /\ todo[w] = {}
      /\ pc' = [pc EXCEPT ![w] = "idle"] /\ ev' = [ev EXCEPT ![w] = NoEvent]
      /\ sub' = [sub EXCEPT ![w] = NoSub]
      /\ UNCHANGED <<events, row, lease, subs, unused, op, todo, tries,
                     at, seen, own, mapped, inbox, lines, torn>>
  BY DEF Answer, Goto, ledger, bounds, soakVars, config, files
<1>2. pc'[w] = "idle" /\ ev'[w] = NoEvent /\ \A v \in Workers \ {w} : Unmoved(v)
  BY <1>1 DEF SoakInv, SoakTypeOK, TypeOK, Unmoved
<1>3. Shrinks
  BY <1>1 DEF Shrinks, Live
<1>4. at[w] = "out"
  BY <1>1, Outside
<1>5. WorkerOK(w)'
  <2>1. PlaceOK(w)'
    BY <1>1, <1>2, <1>4 DEF PlaceOK
  <2>2. ListOK(w)'
    BY <1>1, <1>2 DEF ListOK, SoakInv, WorkerOK, Attempting
  <2>3. WorkOK(w)'
    BY <1>1, <1>2 DEF WorkOK
  <2>4. QED
    BY <2>1, <2>2, <2>3 DEF WorkerOK
<1>6. \A s \in subs : ~Ahead(w, s)
  BY <1>1 DEF Ahead, Attempting
<1>7. ~InLease(w)
  BY <1>1 DEF InLease
<1>8. QED
  BY <1>1, <1>2, <1>3, <1>5, <1>6, <1>7, QuietStep

\* A thread that goes on within its attempt, before its delivery.
LEMMA ApproachKeeps ==
  ASSUME SoakInv, SoakTypeOK', Located', NEW w \in Workers,
         FastPath(w) \/ ReadClock(w) \/ Acquire(w) \/ Reread(w),
         UNCHANGED soakVars
  PROVE  SoakInv'
<1>0. pc[w] \in {"fast", "clock", "acquire", "reread"}
  BY DEF FastPath, ReadClock, Acquire, Reread
<1>1. Fresh(Key(w)) /\ row[Key(w)] = NoRow
  BY <1>0 DEF SoakInv, WorkerOK, WorkOK, Fresh
<1>2. /\ \E l \in {"clock", "acquire", "reread", "deliver"} :
           /\ pc' = [pc EXCEPT ![w] = l]
           /\ l = "deliver" => tries' = [tries EXCEPT ![w] = 1]
           /\ l # "deliver" => tries' = tries
           /\ pc[w] = "reread" => l = "deliver"
      /\ UNCHANGED <<events, row, subs, unused, op, ev, todo, sub,
                     at, seen, own, mapped, inbox, lines, torn>>
  BY <1>1 DEF FastPath, ReadClock, Acquire, Reread, Delivered, Goto, ledger,
              locals, bounds, soakVars, config, files
<1>3. /\ pc'[w] \in {"clock", "acquire", "reread", "deliver"}
      /\ pc'[w] = "deliver" => tries'[w] = 1
      /\ pc[w] = "reread" => pc'[w] = "deliver"
      /\ \A v \in Workers \ {w} : Unmoved(v)
  BY <1>2 DEF SoakInv, SoakTypeOK, TypeOK, Unmoved
<1>4. Shrinks
  BY <1>2 DEF Shrinks, Live
<1>5. at[w] = "out" /\ op[w] = "publish"
  BY <1>0, Outside, Publishes
<1>6. WorkerOK(w)'
  <2>1. PlaceOK(w)'
    BY <1>2, <1>3, <1>5 DEF PlaceOK
  <2>2. ListOK(w)'
    BY <1>0, <1>2, <1>3 DEF ListOK, SoakInv, WorkerOK, Attempting
  <2>3. WorkOK(w)'
    BY <1>0, <1>1, <1>2, <1>3, <1>5 DEF WorkOK, SoakInv, WorkerOK, Fresh, Key
  <2>4. QED
    BY <2>1, <2>2, <2>3 DEF WorkerOK
<1>7. \A s \in subs : Ahead(w, s) => ev'[w] = ev[w] /\ Ahead(w, s)'
  BY <1>0, <1>2, <1>3 DEF Ahead, Attempting
<1>8. HeldInv' \/ (lease' = lease /\ (InLease(w) => InLease(w)' /\ Key(w)' = Key(w)))
  <2>1. CASE ~Acquire(w)
    <3>1. lease' = lease
      BY <2>1 DEF FastPath, ReadClock, Reread, ledger
    <3>2. InLease(w) => pc[w] = "reread"
      BY <1>0 DEF InLease
    <3>3. InLease(w) => InLease(w)' /\ Key(w)' = Key(w)
      BY <1>2, <1>3, <3>2 DEF InLease, Key
    <3>4. QED
      BY <3>1, <3>3
  <2>2. CASE Acquire(w)
    <3>1. /\ pc[w] = "acquire" /\ pc' = [pc EXCEPT ![w] = "reread"]
          /\ lease' = [lease EXCEPT ![Key(w)] = Leased(w, tnow[w] + LeaseTTL)]
      BY <2>2 DEF Acquire, Goto
    <3>2. \A v \in Workers :
            (InLease(v) => InLease(v)') /\ Key(v)' = Key(v)
      BY <1>2, <3>1 DEF InLease, Key, SoakInv, SoakTypeOK, TypeOK
    <3>3. InLease(w)'
      BY <3>1 DEF InLease, SoakInv, SoakTypeOK, TypeOK
    <3>4. ASSUME NEW k \in Keys, lease'[k] # NoLease
          PROVE  \E v \in Workers :
                   InLease(v)' /\ Key(v)' = k /\ lease'[k].holder = v
      <4>1. CASE k = Key(w)
        <5>1. lease'[k] = Leased(w, tnow[w] + LeaseTTL)
          BY <3>1, <4>1 DEF SoakInv, SoakTypeOK, TypeOK
        <5>2. QED
          BY <3>2, <3>3, <4>1, <5>1 DEF Leased
      <4>2. CASE k # Key(w)
        <5>1. lease'[k] = lease[k]
          BY <3>1, <4>2 DEF SoakInv, SoakTypeOK, TypeOK
        <5>2. QED
          BY <3>2, <3>4, <5>1 DEF SoakInv, HeldInv
      <4>3. QED
        BY <4>1, <4>2
    <3>5. QED
      BY <3>4 DEF HeldInv
  <2>3. QED
    BY <2>1, <2>2
<1>9. QED
  BY <1>0, <1>2, <1>3, <1>4, <1>5, <1>6, <1>7, <1>8, QuietStep

\* The subscription a thread goes on to is one of its list, and fresh.
LEMMA NextSubKeeps ==
  ASSUME SoakInv, SoakTypeOK', Located', NEW w \in Workers,
         NextSub(w), UNCHANGED soakVars
  PROVE  SoakInv'
<1>1. PICK d \in todo[w] : /\ todo' = [todo EXCEPT ![w] = @ \ {d}]
                           /\ sub' = [sub EXCEPT ![w] = d.sub]
  BY DEF NextSub
<1>2. /\ pc[w] = "loop" /\ op[w] = "publish"
      /\ pc' = [pc EXCEPT ![w] = "fast"]
      /\ UNCHANGED <<events, row, lease, subs, unused, op, ev, tries,
                     at, seen, own, mapped, inbox, lines, torn>>
  BY DEF NextSub, Goto, ledger, bounds, soakVars, config, files
<1>3. /\ pc'[w] = "fast" /\ sub'[w] = d.sub /\ todo'[w] = todo[w] \ {d}
      /\ \A v \in Workers \ {w} : Unmoved(v)
  BY <1>1, <1>2 DEF SoakInv, SoakTypeOK, TypeOK, Unmoved
<1>4. Shrinks
  BY <1>2 DEF Shrinks, Live
<1>5. at[w] = "out"
  BY <1>2, Outside
<1>6. WorkerOK(w)'
  <2>1. PlaceOK(w)'
    BY <1>2, <1>3, <1>5 DEF PlaceOK
  <2>2. ListOK(w)'
    BY <1>2, <1>3 DEF ListOK, SoakInv, WorkerOK
  <2>3. WorkOK(w)'
    <3>1. \A f \in todo[w] : Fresh(<<ev[w], f.sub>>)
      BY DEF SoakInv, WorkerOK, WorkOK
    <3>2. \A f \in todo[w] : Fresh(<<ev[w], f.sub>>)'
      BY <1>2, <3>1 DEF Fresh
    <3>3. ev'[w] = ev[w]
      BY <1>2
    <3>4. QED
      BY <1>3, <3>2, <3>3 DEF WorkOK, Fresh, Key
  <2>4. QED
    BY <2>1, <2>2, <2>3 DEF WorkerOK
<1>7. \A s \in subs : Ahead(w, s) => ev'[w] = ev[w] /\ Ahead(w, s)'
  BY <1>2, <1>3 DEF Ahead, Attempting
<1>8. ~InLease(w)
  BY <1>2 DEF InLease
<1>9. QED
  BY <1>2, <1>3, <1>4, <1>6, <1>7, <1>8, QuietStep

\* A release removes the caller's own row, and no other.
LEMMA ReleaseKeeps ==
  ASSUME SoakInv, SoakTypeOK', Located', NEW w \in Workers,
         Release(w), UNCHANGED soakVars
  PROVE  SoakInv'
<1>1. /\ pc[w] = "release" /\ pc' = [pc EXCEPT ![w] = "loop"]
      /\ lease' = [lease EXCEPT ![Key(w)] = AfterRelease(@, w)]
      /\ UNCHANGED <<events, row, subs, unused, op, ev, todo, sub, tries,
                     at, seen, own, mapped, inbox, lines, torn>>
  BY DEF Release, Goto, bounds, soakVars, config, files
<1>2. pc'[w] = "loop" /\ \A v \in Workers \ {w} : Unmoved(v)
  BY <1>1 DEF SoakInv, SoakTypeOK, TypeOK, Unmoved
<1>3. Shrinks
  BY <1>1 DEF Shrinks, Live
<1>4. at[w] = "out" /\ op[w] = "publish"
  BY <1>1, Outside, Publishes
<1>5. WorkerOK(w)'
  <2>1. PlaceOK(w)'
    BY <1>1, <1>2, <1>4 DEF PlaceOK
  <2>2. ListOK(w)'
    BY <1>1, <1>2 DEF ListOK, SoakInv, WorkerOK, Attempting
  <2>3. WorkOK(w)'
    BY <1>1, <1>2 DEF WorkOK, SoakInv, WorkerOK, Fresh
  <2>4. QED
    BY <2>1, <2>2, <2>3 DEF WorkerOK
<1>6. \A s \in subs : Ahead(w, s) => ev'[w] = ev[w] /\ Ahead(w, s)'
  BY <1>1, <1>2 DEF Ahead, Attempting
<1>7. \A v \in Workers \ {w} : InLease(v) => InLease(v)' /\ Key(v)' = Key(v)
  BY <1>1, <1>2 DEF InLease, Key, Unmoved
<1>8. ASSUME NEW k \in Keys, lease'[k] # NoLease
      PROVE  \E v \in Workers :
               InLease(v)' /\ Key(v)' = k /\ lease'[k].holder = v
  <2>1. lease'[k] = lease[k] /\ (k = Key(w) => lease[k].holder # w)
    BY <1>1, <1>8 DEF AfterRelease, SoakInv, SoakTypeOK, TypeOK
  <2>2. PICK v \in Workers : InLease(v) /\ Key(v) = k /\ lease[k].holder = v
    BY <1>8, <2>1 DEF SoakInv, HeldInv
  <2>3. v # w
    BY <2>1, <2>2
  <2>4. QED
    BY <1>7, <2>1, <2>2, <2>3
<1>9. HeldInv'
  BY <1>8 DEF HeldInv
<1>10. QED
  BY <1>1, <1>2, <1>3, <1>4, <1>5, <1>6, <1>9, QuietStep

\* No row is dead, so a replay has nothing to do.
LEMMA ReplayKeeps ==
  ASSUME SoakInv, SoakTypeOK', Located', NEW w \in Workers, NEW e \in Events,
         Replay(w, e), UNCHANGED soakVars
  PROVE  SoakInv'
<1>1. {t \in Subs : Dead(<<e, t>>)} = {}
  BY DEF SoakInv, RowInv, Dead
<1>2. /\ pc[w] = "idle" /\ e \in events
      /\ pc' = [pc EXCEPT ![w] = "loop"] /\ op' = [op EXCEPT ![w] = "replay"]
      /\ ev' = [ev EXCEPT ![w] = e] /\ todo' = [todo EXCEPT ![w] = {}]
      /\ UNCHANGED <<events, row, lease, subs, unused, sub, tries,
                     at, seen, own, mapped, inbox, lines, torn>>
  BY <1>1 DEF Replay, Goto, ledger, soakVars, config, files
<1>3. /\ pc'[w] = "loop" /\ op'[w] = "replay" /\ todo'[w] = {}
      /\ \A v \in Workers \ {w} : Unmoved(v)
  BY <1>2 DEF SoakInv, SoakTypeOK, TypeOK, Unmoved
<1>4. Shrinks
  BY <1>2 DEF Shrinks, Live
<1>5. at[w] = "out"
  BY <1>2, Outside
<1>6. WorkerOK(w)'
  <2>1. PlaceOK(w)'
    BY <1>2, <1>3, <1>5 DEF PlaceOK
  <2>2. ListOK(w)'
    BY <1>2, <1>3 DEF ListOK, SoakInv, WorkerOK, Attempting
  <2>3. WorkOK(w)'
    BY <1>2, <1>3 DEF WorkOK
  <2>4. QED
    BY <2>1, <2>2, <2>3 DEF WorkerOK
<1>7. \A s \in subs : ~Ahead(w, s)
  BY <1>2 DEF Ahead, Attempting
<1>8. ~InLease(w)
  BY <1>2 DEF InLease
<1>9. QED
  BY <1>2, <1>3, <1>4, <1>6, <1>7, <1>8, QuietStep

\* The subscriptions and the clock change around the threads.
LEMMA AroundKeeps ==
  ASSUME SoakInv, SoakTypeOK', Located', UNCHANGED soakVars,
         \/ \E s \in Subs : Subscribe(s) \/ Unsubscribe(s)
         \/ Tick \/ UNCHANGED vars
  PROVE  SoakInv'
<1>1. /\ UNCHANGED <<events, row, lease, pc, op, ev, todo, sub, tries,
                     at, seen, own, mapped, inbox, lines, torn>>
      /\ subs' \cup unused' \subseteq subs \cup unused
      /\ unused' \subseteq unused
      /\ subs' \cap unused \cap unused' = {}
  BY DEF Subscribe, Unsubscribe, Tick, ledger, locals, bounds, vars, soakVars,
         config, files, SoakInv, IdsInv
<1>2. \A v \in Workers : Unmoved(v)
  BY <1>1 DEF Unmoved
<1>3. Shrinks
  BY <1>1 DEF Shrinks, Live
<1>4. \A v \in Workers : WorkerOK(v)'
  BY <1>1, <1>2, <1>3, OtherKeeps DEF KeyStays
<1>5. OneDispatchPerEvent'
  BY <1>1, OneKeeps
<1>6. IdsInv' /\ FreshInv' /\ RowInv' /\ SeenOncePerBoot' /\ LinesMatchInbox'
  BY <1>1, <1>3, LedgerKeeps
<1>7. own \in subs' => own \in subs
  BY <1>1 DEF SoakInv, IdsInv
<1>8. AcceptedInv'
  <2>1. \A v \in Workers, s \in subs : Ahead(v, s) => Ahead(v, s)'
    BY <1>1 DEF Ahead
  <2>2. QED
    BY <1>1, <1>7, <2>1, AcceptedKeeps
<1>9. HeldInv'
  BY <1>1, HeldKeeps DEF InLease, Key
<1>10. QED
  BY <1>4, <1>5, <1>6, <1>8, <1>9 DEF SoakInv

\* What has been listed is yet to be dispatched to.
LEMMA ListKeeps ==
  ASSUME SoakInv, SoakTypeOK', Located', NEW w \in Workers,
         EndListing(w) \/ EndTornListing(w)
  PROVE  SoakInv'
<1>1. PICK found \in SUBSET (seen[w] \cup subs) :
        /\ todo' = [todo EXCEPT ![w] = [sub : found, attempts : {0}]]
        /\ subs \subseteq found \/ ev[w] \in torn'
  BY DEF EndListing, EndTornListing, Match
<1>2. /\ at[w] = "listing" /\ pc[w] = "match" /\ op[w] = "publish"
      /\ pc' = [pc EXCEPT ![w] = "loop"] /\ at' = [at EXCEPT ![w] = "out"]
      /\ seen' = [seen EXCEPT ![w] = {}] /\ torn \subseteq torn'
      /\ UNCHANGED <<events, row, lease, subs, unused, op, ev, sub, tries,
                     own, mapped, inbox, lines>>
  BY DEF EndListing, EndTornListing, Match, Goto, Enter, ledger, bounds,
         config, files, SoakInv, WorkerOK, PlaceOK
<1>3. /\ pc'[w] = "loop" /\ at'[w] = "out" /\ seen'[w] = {}
      /\ todo'[w] = [sub : found, attempts : {0}]
      /\ \A v \in Workers \ {w} : Unmoved(v)
  BY <1>1, <1>2 DEF SoakInv, SoakTypeOK, TypeOK, Unmoved
<1>4. Shrinks
  BY <1>2 DEF Shrinks, Live, SoakInv, SoakTypeOK
<1>5. \A s \in found : s \in Subs /\ s \notin unused /\ Fresh(<<ev[w], s>>)
  <2>1. ASSUME NEW s \in found
        PROVE  s \in Subs /\ s \notin unused /\ Live(s)
    BY DEF Live, SoakInv, SoakTypeOK, TypeOK, IdsInv, WorkerOK, ListOK
  <2>2. QED
    BY <1>2, <2>1 DEF SoakInv, WorkerOK, WorkOK
<1>6. WorkerOK(w)'
  <2>1. \A d \in todo'[w] : d.sub \in found /\ d = [sub |-> d.sub, attempts |-> 0]
    BY <1>3
  <2>2. PlaceOK(w)'
    BY <1>2, <1>3 DEF PlaceOK
  <2>3. \A d, f \in todo'[w] : d.sub = f.sub => d = f
    BY <2>1
  <2>4. ListOK(w)'
    BY <1>2, <1>3, <1>5, <2>1, <2>3 DEF ListOK, Attempting
  <2>5. ev'[w] = ev[w] /\ \A s \in found : Fresh(<<ev[w], s>>)'
    BY <1>2, <1>5 DEF Fresh
  <2>6. WorkOK(w)'
    BY <1>3, <2>1, <2>5 DEF WorkOK, Fresh
  <2>7. QED
    BY <2>2, <2>4, <2>6 DEF WorkerOK
<1>7. \A s \in subs : ev[w] \notin torn' => ev'[w] = ev[w] /\ Ahead(w, s)'
  <2>1. ASSUME NEW s \in subs, ev[w] \notin torn'
        PROVE  \E d \in todo'[w] : d.sub = s
    <3>1. [sub |-> s, attempts |-> 0] \in todo'[w]
      BY <1>1, <1>3, <2>1
    <3>2. QED
      BY <3>1
  <2>2. QED
    BY <1>2, <1>3, <2>1 DEF Ahead
<1>8. ~InLease(w)
  BY <1>2 DEF InLease
<1>9. QED
  BY <1>2, <1>3, <1>4, <1>6, <1>7, <1>8, QuietStep

\* A listing that raises leaves its event to the history of torn ones.
LEMMA ListingRaisesKeeps ==
  ASSUME SoakInv, SoakTypeOK', Located', NEW w \in Workers, ListingRaises(w)
  PROVE  SoakInv'
<1>1. /\ at[w] = "listing" /\ pc[w] = "match"
      /\ pc' = [pc EXCEPT ![w] = "idle"] /\ at' = [at EXCEPT ![w] = "out"]
      /\ ev' = [ev EXCEPT ![w] = NoEvent]
      /\ seen' = [seen EXCEPT ![w] = {}] /\ torn' = torn \cup {ev[w]}
      /\ UNCHANGED <<events, row, lease, subs, unused, op, todo, sub, tries,
                     own, mapped, inbox, lines>>
  BY DEF ListingRaises, Goto, Enter, ledger, bounds, config, files, SoakInv,
         WorkerOK, PlaceOK
<1>2. /\ pc'[w] = "idle" /\ ev'[w] = NoEvent /\ at'[w] = "out" /\ seen'[w] = {}
      /\ \A v \in Workers \ {w} : Unmoved(v)
  BY <1>1 DEF SoakInv, SoakTypeOK, TypeOK, Unmoved
<1>3. todo[w] = {}
  BY <1>1 DEF SoakInv, WorkerOK, PlaceOK
<1>4. Shrinks
  BY <1>1 DEF Shrinks, Live, SoakInv, SoakTypeOK
<1>5. WorkerOK(w)'
  BY <1>1, <1>2, <1>3 DEF WorkerOK, PlaceOK, ListOK, WorkOK, Attempting
<1>6. ~InLease(w)
  BY <1>1 DEF InLease
<1>7. QED
  BY <1>1, <1>2, <1>4, <1>5, <1>6, QuietStep

\* What a listing begins with are subscriptions that exist.
LEMMA BeginListingKeeps ==
  ASSUME SoakInv, SoakTypeOK', Located', NEW w \in Workers, BeginListing(w)
  PROVE  SoakInv'
<1>1. /\ pc[w] = "match" /\ at' = [at EXCEPT ![w] = "listing"]
      /\ seen' = [seen EXCEPT ![w] = subs]
      /\ UNCHANGED <<events, row, lease, subs, unused, pc, op, ev, todo, sub,
                     tries, own, mapped, inbox, lines, torn>>
  BY DEF BeginListing, Enter, vars, ledger, locals, bounds, config, files
<1>2. /\ at'[w] = "listing" /\ seen'[w] = subs
      /\ \A v \in Workers \ {w} : Unmoved(v)
  BY <1>1 DEF SoakInv, SoakTypeOK, TypeOK, Unmoved
<1>3. Shrinks
  BY <1>1 DEF Shrinks, Live, SoakInv, SoakTypeOK
<1>4. WorkerOK(w)'
  <2>1. PlaceOK(w)'
    BY <1>1, <1>2 DEF SoakInv, WorkerOK, PlaceOK
  <2>2. ListOK(w)'
    BY <1>1, <1>2 DEF SoakInv, IdsInv, WorkerOK, ListOK
  <2>3. \A s \in Subs : Live(s)' => Fresh(<<ev[w], s>>)'
    BY <1>1, <1>3 DEF Shrinks, SoakInv, WorkerOK, WorkOK, Fresh
  <2>4. WorkOK(w)'
    BY <1>1, <2>3 DEF SoakInv, WorkerOK, PlaceOK, WorkOK, Fresh
  <2>5. QED
    BY <2>1, <2>2, <2>4 DEF WorkerOK
<1>5. \A s \in subs : Ahead(w, s) => ev'[w] = ev[w] /\ Ahead(w, s)'
  BY <1>1 DEF Ahead
<1>6. ~InLease(w)
  BY <1>1 DEF InLease
<1>7. QED
  BY <1>1, <1>2, <1>3, <1>4, <1>5, <1>6, QuietStep

-----------------------------------------------------------------------------
(* The soak: the handler. *)

\* The handler goes on without writing anything.
LEMMA HandlerKeeps ==
  ASSUME SoakInv, SoakTypeOK', Located', NEW w \in Workers,
         Resolve(w) \/ Classify(w) \/ Routed(w)
  PROVE  SoakInv'
<1>1. UNCHANGED <<events, row, lease, subs, unused, pc, op, ev, todo, sub,
                  tries, seen, own, mapped, inbox, lines, torn>>
  BY DEF Resolve, Classify, Routed, vars, ledger, locals, bounds, config, files
<1>2. /\ at'[w] \in {"classify", "route", "log"}
      /\ at'[w] \in {"classify", "route"} =>
           ev[w] \in mapped /\ at[w] \in {"out", "classify"}
      /\ at'[w] = "log" => \/ at[w] = "routed"
                           \/ at[w] = "out" /\ ev[w] \notin mapped
      /\ \A v \in Workers \ {w} : at'[v] = at[v]
  BY DEF Resolve, Classify, Routed, Enter, SoakInv, SoakTypeOK, WorkerOK,
         PlaceOK
<1>3. ToBridge(w) /\ pc[w] = "deliver"
  BY DEF Resolve, Classify, Routed, SoakInv, WorkerOK, PlaceOK, ToBridge
<1>4. Shrinks /\ \A v \in Workers \ {w} : Unmoved(v)
  BY <1>1, <1>2 DEF Shrinks, Live, Unmoved
<1>5. WorkerOK(w)'
  <2>1. PlaceOK(w)'
    BY <1>1, <1>2, <1>3 DEF SoakInv, WorkerOK, PlaceOK, ToBridge
  <2>2. ListOK(w)'
    BY <1>1 DEF SoakInv, WorkerOK, ListOK
  <2>3. /\ row[Key(w)] = NoRow /\ lines[Key(w)] = 0 /\ tries[w] = 1
        /\ inbox[Key(w)] = IF at[w] = "routed" THEN 1 ELSE 0
    BY <1>2, <1>3 DEF SoakInv, WorkerOK, WorkOK
  <2>4. at[w] = "routed" => ev[w] \in mapped
    BY DEF SoakInv, WorkerOK, PlaceOK
  <2>5. \A d \in todo[w] : Fresh(<<ev[w], d.sub>>)
    BY DEF SoakInv, WorkerOK, WorkOK
  <2>6. WorkOK(w)'
    BY <1>1, <1>2, <1>3, <2>3, <2>4, <2>5 DEF WorkOK, Fresh, Key
  <2>7. QED
    BY <2>1, <2>2, <2>6 DEF WorkerOK
<1>6. \A s \in subs : Ahead(w, s) => ev'[w] = ev[w] /\ Ahead(w, s)'
  BY <1>1 DEF Ahead
<1>7. InLease(w) => InLease(w)' /\ Key(w)' = Key(w)
  BY <1>1 DEF InLease, Key
<1>8. QED
  BY <1>1, <1>2, <1>4, <1>5, <1>6, <1>7, QuietStep

\* A delivery that ends without a line in soak.log.
LEMMA DeliveryEndKeeps ==
  ASSUME SoakInv, SoakTypeOK', Located', NEW w \in Workers,
         RouteFails(w) \/ LogFails(w) \/ DeliverElsewhere(w)
  PROVE  SoakInv'
<1>1. /\ UNCHANGED <<events, row, lease, subs, unused, op, ev, todo, sub,
                     tries, seen, own, mapped, inbox, lines, torn>>
      /\ pc[w] = "deliver"
      /\ \/ pc' = [pc EXCEPT ![w] = "failed"]
         \/ pc' = [pc EXCEPT ![w] = "succeeded"] /\ sub[w] \notin CaptureSubs
      /\ at' = [at EXCEPT ![w] = "out"] \/ (at' = at /\ ~ToBridge(w))
  BY DEF RouteFails, LogFails, DeliverElsewhere, DeliverOK, DeliverFails,
         DeliverUnanswered, Goto, Enter, ledger, locals, bounds, soakVars,
         config, files, ToBridge
<1>2. /\ at'[w] = "out" /\ pc'[w] \in {"failed", "succeeded"}
      /\ pc'[w] = "succeeded" => sub[w] \notin CaptureSubs
      /\ \A v \in Workers \ {w} : Unmoved(v)
  BY <1>1 DEF SoakInv, SoakTypeOK, Places, TypeOK, WorkerOK, PlaceOK, Unmoved
<1>3. Shrinks
  BY <1>1 DEF Shrinks, Live
<1>4. op[w] = "publish"
  BY <1>1, Publishes
<1>5. WorkerOK(w)'
  <2>1. PlaceOK(w)'
    BY <1>1, <1>2, <1>4 DEF PlaceOK
  <2>2. ListOK(w)'
    BY <1>1, <1>2 DEF SoakInv, WorkerOK, ListOK, Attempting
  <2>3. row[Key(w)] = NoRow /\ lines[Key(w)] = 0 /\ tries[w] = 1
    BY <1>1 DEF SoakInv, WorkerOK, WorkOK
  <2>4. \A d \in todo[w] : Fresh(<<ev[w], d.sub>>)
    BY DEF SoakInv, WorkerOK, WorkOK
  <2>5. WorkOK(w)'
    BY <1>1, <1>2, <2>3, <2>4 DEF WorkOK, Fresh, Key
  <2>6. QED
    BY <2>1, <2>2, <2>5 DEF WorkerOK
<1>6. \A s \in subs : Ahead(w, s) => ev'[w] = ev[w] /\ Ahead(w, s)'
  BY <1>1, <1>2 DEF Ahead, Attempting
<1>7. InLease(w)' /\ Key(w)' = Key(w)
  BY <1>1, <1>2 DEF InLease, Key
<1>8. QED
  BY <1>1, <1>2, <1>3, <1>4, <1>5, <1>6, <1>7, QuietStep

-----------------------------------------------------------------------------
(* The soak: the steps that record an event, a row, an entry or a line. *)

\* What nobody has begun stays fresh while a thread works on its delivery.
LEMMA FreshKeeps ==
  ASSUME SoakInv, Shrinks, events' = events, NEW w \in Workers,
         pc[w] \notin {"idle", "match", "loop"},
         \A k \in Keys \ {Key(w)} : KeyStays(k)
  PROVE  FreshInv'
<1>1. ev[w] \in events /\ sub[w] \notin unused
  BY DEF SoakInv, Located, WorkerOK, ListOK
<1>2. ASSUME NEW e \in Events, NEW s \in Subs, Live(s)',
             e \notin events \/ s \in unused'
      PROVE  Fresh(<<e, s>>)'
  <2>1. Live(s) /\ (e \notin events \/ s \in unused)
    BY <1>2 DEF Shrinks
  <2>2. Fresh(<<e, s>>)
    BY <2>1 DEF SoakInv, FreshInv
  <2>3. <<e, s>> \in Keys \ {Key(w)}
    BY <1>1, <2>1 DEF Key, Keys
  <2>4. QED
    BY <2>2, <2>3 DEF KeyStays, Fresh
<1>3. QED
  BY <1>2 DEF FreshInv

\* Nothing has been done yet for an event that is new.
LEMMA PublishKeeps ==
  ASSUME SoakInv, SoakTypeOK', Located', NEW w \in Workers, NEW e \in Events,
         Publish(w, e), UNCHANGED soakVars
  PROVE  SoakInv'
<1>1. /\ pc[w] = "idle" /\ e \notin events /\ events' = events \cup {e}
      /\ op' = [op EXCEPT ![w] = "publish"] /\ ev' = [ev EXCEPT ![w] = e]
      /\ pc' = [pc EXCEPT ![w] = "match"]
      /\ UNCHANGED <<row, lease, subs, unused, todo, sub, tries,
                     at, seen, own, mapped, inbox, lines, torn>>
  BY DEF Publish, Goto, bounds, soakVars, config, files
<1>2. /\ pc'[w] = "match" /\ op'[w] = "publish" /\ ev'[w] = e
      /\ \A v \in Workers \ {w} : Unmoved(v)
  BY <1>1 DEF SoakInv, SoakTypeOK, TypeOK, Unmoved
<1>3. Shrinks
  BY <1>1 DEF Shrinks, Live
<1>4. at[w] = "out" /\ todo[w] = {}
  BY <1>1, Outside DEF SoakInv, WorkerOK, PlaceOK
<1>5. \A s \in Subs : Live(s) => Fresh(<<e, s>>)
  BY <1>1 DEF SoakInv, FreshInv
<1>6. WorkerOK(w)'
  <2>1. PlaceOK(w)'
    BY <1>1, <1>2, <1>4 DEF PlaceOK
  <2>2. ListOK(w)'
    BY <1>1, <1>2, <1>4 DEF SoakInv, WorkerOK, ListOK, Attempting
  <2>3. \A s \in Subs : Live(s)' => Fresh(<<e, s>>)'
    BY <1>1, <1>3, <1>5 DEF Shrinks, Fresh
  <2>4. WorkOK(w)'
    BY <1>1, <1>2, <1>4, <2>3 DEF WorkOK, Fresh
  <2>5. QED
    BY <2>1, <2>2, <2>4 DEF WorkerOK
<1>7. \A v \in Workers : WorkerOK(v)'
  BY <1>1, <1>2, <1>3, <1>6, WorkerSteps DEF KeyStays
<1>8. OneDispatchPerEvent'
  <2>1. \A v \in Workers \ {w} : pc[v] # "idle" => ev[v] # e
    BY <1>1 DEF SoakInv, Located
  <2>2. QED
    BY <1>2, <2>1 DEF SoakInv, OneDispatchPerEvent, Unmoved
<1>9. IdsInv'
  BY <1>1 DEF SoakInv, IdsInv
<1>10. FreshInv'
  <2>1. \A k \in Keys : Fresh(k)' <=> Fresh(k)
    BY <1>1 DEF Fresh
  <2>2. QED
    BY <1>1, <1>3, <2>1 DEF Shrinks, SoakInv, FreshInv, Keys
<1>11. RowInv' /\ SeenOncePerBoot'
  BY <1>1 DEF SoakInv, RowInv, SeenOncePerBoot, Delivered
<1>12. LinesMatchInbox'
  <2>1. \A s \in subs : s \in Subs /\ Live(s)
    BY DEF SoakInv, SoakTypeOK, TypeOK, Live
  <2>2. \A s \in subs : inbox[<<e, s>>] = 0 /\ lines[<<e, s>>] = 0
    BY <1>5, <2>1 DEF Fresh
  <2>3. ASSUME NEW f \in events \cup {e}, NEW s \in subs \cap CaptureSubs
        PROVE  /\ lines[<<f, s>>] > 0 /\ f \in mapped => inbox[<<f, s>>] = 1
               /\ f \notin mapped => inbox[<<f, s>>] = 0
    <3>1. CASE f = e
      BY <2>2, <3>1
    <3>2. CASE f \in events
      BY <3>2 DEF SoakInv, LinesMatchInbox
    <3>3. QED
      BY <3>1, <3>2
  <2>4. QED
    BY <1>1, <2>3 DEF LinesMatchInbox
<1>13. AcceptedInv'
  <2>1. \A s \in subs : ev'[w] = e /\ Ahead(w, s)'
    BY <1>2 DEF Ahead
  <2>2. \A v \in Workers, s \in subs :
          Ahead(v, s) => v # w /\ ev'[v] = ev[v] /\ Ahead(v, s)'
    BY <1>1, <1>2 DEF Ahead, Attempting, Unmoved
  <2>3. QED
    BY <1>1, <2>1, <2>2 DEF SoakInv, AcceptedInv
<1>14. HeldInv'
  <2>1. \A v \in Workers : InLease(v) => InLease(v)' /\ Key(v)' = Key(v)
    BY <1>1, <1>2 DEF InLease, Key, Unmoved
  <2>2. QED
    BY <1>1, <2>1, HeldKeeps
<1>15. QED
  BY <1>7, <1>8, <1>9, <1>10, <1>11, <1>12, <1>13, <1>14 DEF SoakInv

\* The entry and the line of a delivery.
LEMMA FilesKeep ==
  ASSUME SoakInv, SoakTypeOK', Located', NEW w \in Workers,
         FileThought(w) \/ LogLine(w)
  PROVE  SoakInv'
<1>1. /\ pc[w] = "deliver" /\ ToBridge(w)
      /\ at[w] = "route" => ev[w] \in mapped
  BY DEF FileThought, LogLine, SoakInv, WorkerOK, PlaceOK, ToBridge
<1>2. /\ row[Key(w)] = NoRow /\ lines[Key(w)] = 0 /\ tries[w] = 1
      /\ inbox[Key(w)] = IF at[w] = "log" /\ ev[w] \in mapped THEN 1 ELSE 0
      /\ Key(w) \in Keys /\ Key(w) = <<ev[w], sub[w]>>
      /\ ev[w] \in events /\ sub[w] \in CaptureSubs /\ op[w] = "publish"
  <2>1. at[w] # "routed"
    BY DEF FileThought, LogLine
  <2>2. QED
    BY <1>1, <2>1, KeyTyped, Publishes DEF SoakInv, SoakTypeOK, WorkerOK,
       WorkOK, Located, Key, ToBridge
<1>3. /\ UNCHANGED <<events, row, lease, subs, unused, op, ev, todo, sub,
                     tries, seen, own, mapped, torn>>
      /\ \/ /\ at[w] = "route" /\ at' = [at EXCEPT ![w] = "routed"]
            /\ pc' = pc /\ lines' = lines
            /\ inbox' = [inbox EXCEPT ![Key(w)] = @ + 1]
         \/ /\ at[w] = "log" /\ at' = [at EXCEPT ![w] = "out"]
            /\ pc' = [pc EXCEPT ![w] = "succeeded"] /\ inbox' = inbox
            /\ lines' = [lines EXCEPT ![Key(w)] = @ + 1]
  BY DEF FileThought, LogLine, DeliverOK, Goto, Enter, vars, ledger, locals,
         bounds, config, files
<1>4. /\ \A v \in Workers \ {w} : Unmoved(v)
      /\ \A k \in Keys \ {Key(w)} : KeyStays(k)
      /\ \/ /\ pc'[w] = "deliver" /\ at'[w] = "routed" /\ at[w] = "route"
            /\ inbox'[Key(w)] = 1 /\ lines'[Key(w)] = 0
         \/ /\ pc'[w] = "succeeded" /\ at'[w] = "out" /\ at[w] = "log"
            /\ lines'[Key(w)] = 1
            /\ inbox'[Key(w)] = IF ev[w] \in mapped THEN 1 ELSE 0
  BY <1>1, <1>2, <1>3 DEF SoakInv, SoakTypeOK, TypeOK, Unmoved, KeyStays
<1>5. Shrinks
  BY <1>3 DEF Shrinks, Live
<1>6. WorkerOK(w)'
  <2>1. PlaceOK(w)'
    BY <1>1, <1>2, <1>3, <1>4 DEF PlaceOK, ToBridge
  <2>2. ListOK(w)'
    BY <1>1, <1>3, <1>4 DEF SoakInv, WorkerOK, ListOK, Attempting
  <2>3. \A d \in todo[w] : Fresh(<<ev[w], d.sub>>)'
    <3>1. ASSUME NEW d \in todo[w]
          PROVE  /\ Fresh(<<ev[w], d.sub>>)
                 /\ <<ev[w], d.sub>> \in Keys \ {Key(w)}
      <4>1. d.sub \in Subs /\ d.sub # sub[w] /\ Fresh(<<ev[w], d.sub>>)
        BY <1>1 DEF SoakInv, SoakTypeOK, TypeOK, Listed, WorkerOK, ListOK,
                    WorkOK, Attempting
      <4>2. QED
        BY <1>2, <4>1 DEF Keys
    <3>2. QED
      BY <1>3, <1>4, <3>1 DEF Fresh, KeyStays
  <2>4. WorkOK(w)'
    BY <1>2, <1>3, <1>4, <2>3 DEF WorkOK, Fresh, Key
  <2>5. QED
    BY <2>1, <2>2, <2>4 DEF WorkerOK
<1>7. \A v \in Workers : WorkerOK(v)'
  BY <1>1, <1>2, <1>3, <1>4, <1>5, <1>6, WorkerSteps
<1>8. OneDispatchPerEvent'
  BY <1>1, <1>3, <1>4, OneKeeps DEF Unmoved
<1>9. IdsInv'
  BY <1>3 DEF SoakInv, IdsInv
<1>10. FreshInv'
  BY <1>1, <1>3, <1>4, <1>5, FreshKeeps
<1>11. RowInv'
  <2>1. ASSUME NEW e \in Events, NEW s \in Subs, row[<<e, s>>] # NoRow
        PROVE  /\ row[<<e, s>>].status # "dead"
               /\ s \in CaptureSubs =>
                    (Delivered(<<e, s>>) <=> lines'[<<e, s>>] = 1)
    <3>1. <<e, s>> \in Keys \ {Key(w)}
      BY <1>2, <2>1 DEF Keys
    <3>2. lines'[<<e, s>>] = lines[<<e, s>>]
      BY <1>4, <3>1 DEF KeyStays
    <3>3. QED
      BY <2>1, <3>2 DEF SoakInv, RowInv
  <2>2. QED
    BY <1>3, <2>1 DEF RowInv, Delivered
<1>12. SeenOncePerBoot'
  <2>1. inbox'[Key(w)] <= 1 /\ lines'[Key(w)] <= 1
    BY <1>4
  <2>2. QED
    BY <1>4, <2>1 DEF SoakInv, SeenOncePerBoot, KeyStays
<1>13. LinesMatchInbox'
  <2>1. ASSUME NEW e \in events, NEW s \in subs \cap CaptureSubs
        PROVE  /\ lines'[<<e, s>>] > 0 /\ e \in mapped => inbox'[<<e, s>>] = 1
               /\ e \notin mapped => inbox'[<<e, s>>] = 0
    <3>1. CASE <<e, s>> = Key(w)
      <4>1. e = ev[w]
        BY <1>2, <3>1
      <4>2. QED
        BY <1>1, <1>4, <3>1, <4>1
    <3>2. CASE <<e, s>> # Key(w)
      <4>1. <<e, s>> \in Keys \ {Key(w)}
        BY <3>2 DEF SoakInv, SoakTypeOK, TypeOK, Keys
      <4>2. QED
        BY <1>4, <4>1 DEF KeyStays, SoakInv, LinesMatchInbox
    <3>3. QED
      BY <3>1, <3>2
  <2>2. QED
    BY <1>3, <2>1 DEF LinesMatchInbox
<1>14. AcceptedInv'
  <2>1. \A v \in Workers, s \in subs : Ahead(v, s) => Ahead(v, s)'
    BY <1>1, <1>3, <1>4 DEF Ahead, Attempting, Unmoved
  <2>2. QED
    BY <1>3, <2>1, AcceptedKeeps
<1>15. HeldInv'
  <2>1. \A v \in Workers : InLease(v) => InLease(v)' /\ Key(v)' = Key(v)
    BY <1>3, <1>4 DEF InLease, Key, Unmoved
  <2>2. QED
    BY <1>3, <2>1, HeldKeeps
<1>16. QED
  BY <1>7, <1>8, <1>9, <1>10, <1>11, <1>12, <1>13, <1>14, <1>15 DEF SoakInv

\* A row says whether the line of its delivery was written, and is never dead.
LEMMA RecordKeeps ==
  ASSUME SoakInv, SoakTypeOK', Located', NEW w \in Workers,
         RecordOutcome(w), UNCHANGED soakVars
  PROVE  SoakInv'
<1>1. pc[w] \in {"succeeded", "failed"}
  BY DEF RecordOutcome
<1>2. /\ row[Key(w)] = NoRow /\ tries[w] = 1
      /\ lines[Key(w)] = IF pc[w] = "succeeded" /\ sub[w] \in CaptureSubs
                           THEN 1 ELSE 0
      /\ Key(w) \in Keys /\ Key(w) = <<ev[w], sub[w]>>
      /\ at[w] = "out" /\ op[w] = "publish"
  BY <1>1, KeyTyped, Publishes, Outside DEF SoakInv, SoakTypeOK, WorkerOK,
     WorkOK, Key
<1>3. ~(tries[w] >= maxAttempts)
  <2>1. maxAttempts \in Nat \ {0, 1}
    BY SoakConstantsOK, BusConstantsOK DEF SoakInv, SoakTypeOK, TypeOK
  <2>2. QED
    BY <1>2, <2>1
<1>4. /\ \/ pc[w] = "succeeded"
            /\ row' = [row EXCEPT ![Key(w)] = Row("delivered", tries[w])]
         \/ pc[w] = "failed"
            /\ row' = [row EXCEPT ![Key(w)] = Row("pending", tries[w])]
      /\ tries' = [tries EXCEPT ![w] = 0] /\ pc' = [pc EXCEPT ![w] = "release"]
      /\ UNCHANGED <<events, subs, unused, lease, op, ev, todo, sub,
                     at, seen, own, mapped, inbox, lines, torn>>
  BY <1>3 DEF RecordOutcome, Goto, bounds, soakVars, config, files
<1>5. /\ pc'[w] = "release" /\ row'[Key(w)] # NoRow
      /\ row'[Key(w)].status \in {"delivered", "pending"}
      /\ row'[Key(w)].status = "delivered" <=> pc[w] = "succeeded"
      /\ \A v \in Workers \ {w} : Unmoved(v)
      /\ \A k \in Keys \ {Key(w)} : KeyStays(k)
  <2>1. /\ Row("delivered", tries[w]) # NoRow
        /\ Row("pending", tries[w]) # NoRow
    BY <1>2, NoRowIsNoRow DEF Row
  <2>2. QED
    BY <1>1, <1>2, <1>4, <2>1 DEF Row, SoakInv, SoakTypeOK, TypeOK, Unmoved,
       KeyStays
<1>6. Shrinks
  BY <1>4 DEF Shrinks, Live
<1>7. WorkerOK(w)'
  <2>1. PlaceOK(w)'
    BY <1>2, <1>4, <1>5 DEF PlaceOK
  <2>2. ListOK(w)'
    BY <1>1, <1>4, <1>5 DEF SoakInv, WorkerOK, ListOK, Attempting
  <2>3. \A d \in todo[w] : Fresh(<<ev[w], d.sub>>)'
    <3>1. ASSUME NEW d \in todo[w]
          PROVE  /\ Fresh(<<ev[w], d.sub>>)
                 /\ <<ev[w], d.sub>> \in Keys \ {Key(w)}
      <4>1. d.sub \in Subs /\ d.sub # sub[w] /\ Fresh(<<ev[w], d.sub>>)
        BY <1>1 DEF SoakInv, SoakTypeOK, TypeOK, Listed, WorkerOK, ListOK,
                    WorkOK, Attempting
      <4>2. QED
        BY <1>2, <4>1 DEF Keys
    <3>2. QED
      BY <1>4, <1>5, <3>1 DEF Fresh, KeyStays
  <2>4. WorkOK(w)'
    BY <1>4, <1>5, <2>3 DEF WorkOK, Fresh
  <2>5. QED
    BY <2>1, <2>2, <2>4 DEF WorkerOK
<1>8. \A v \in Workers : WorkerOK(v)'
  BY <1>1, <1>2, <1>4, <1>5, <1>6, <1>7, WorkerSteps
<1>9. OneDispatchPerEvent'
  BY <1>1, <1>4, <1>5, OneKeeps DEF Unmoved
<1>10. IdsInv' /\ SeenOncePerBoot' /\ LinesMatchInbox'
  BY <1>4 DEF SoakInv, IdsInv, SeenOncePerBoot, LinesMatchInbox
<1>11. FreshInv'
  BY <1>1, <1>4, <1>5, <1>6, FreshKeeps
<1>12. RowInv'
  <2>1. ASSUME NEW e \in Events, NEW s \in Subs, row'[<<e, s>>] # NoRow
        PROVE  /\ row'[<<e, s>>].status # "dead"
               /\ s \in CaptureSubs =>
                    (row'[<<e, s>>].status = "delivered" <=> lines[<<e, s>>] = 1)
    <3>1. CASE <<e, s>> = Key(w)
      <4>1. s = sub[w]
        BY <1>2, <3>1
      <4>2. QED
        BY <1>1, <1>2, <1>5, <3>1, <4>1
    <3>2. CASE <<e, s>> # Key(w)
      <4>1. row'[<<e, s>>] = row[<<e, s>>]
        BY <1>5, <3>2 DEF KeyStays, Keys
      <4>2. QED
        BY <2>1, <4>1 DEF SoakInv, RowInv, Delivered
    <3>3. QED
      BY <3>1, <3>2
  <2>2. QED
    BY <1>4, <2>1 DEF RowInv, Delivered
<1>13. AcceptedInv'
  <2>1. \A k \in Keys : row[k] # NoRow => row'[k] # NoRow
    BY <1>5 DEF KeyStays
  <2>2. ASSUME NEW v \in Workers, NEW s \in subs, Ahead(v, s)
        PROVE  \/ row'[<<ev[v], s>>] # NoRow
               \/ ev'[v] = ev[v] /\ Ahead(v, s)'
    <3>1. CASE v = w /\ s = sub[w]
      BY <1>2, <1>5, <3>1
    <3>2. CASE v = w /\ s # sub[w]
      BY <1>1, <1>4, <1>5, <2>2, <3>2 DEF Ahead
    <3>3. CASE v # w
      BY <1>5, <2>2, <3>3 DEF Ahead, Unmoved
    <3>4. QED
      BY <3>1, <3>2, <3>3
  <2>3. QED
    BY <1>4, <2>1, <2>2, AcceptedKeeps
<1>14. HeldInv'
  <2>1. \A v \in Workers : InLease(v) => InLease(v)' /\ Key(v)' = Key(v)
    BY <1>4, <1>5 DEF InLease, Key, Unmoved
  <2>2. QED
    BY <1>4, <2>1, HeldKeeps
<1>15. QED
  BY <1>8, <1>9, <1>10, <1>11, <1>12, <1>13, <1>14 DEF SoakInv

\* After a restart the subscription is new, and the routes that were running
\* have appended to deliveries of old ones, once.
LEMMA RebootKeeps ==
  ASSUME SoakInv, SoakTypeOK', Located', Reboot
  PROVE  SoakInv'
<1>1. PICK orphans \in SUBSET {w \in Workers : at[w] = "route"} :
        inbox' = [k \in Keys |->
                   inbox[k] + Cardinality({w \in orphans : Key(w) = k})]
  BY DEF Reboot
<1>2. PICK t \in unused \cap CaptureSubs :
        own' = t /\ subs' = {t} /\ unused' = unused \ {t}
  BY DEF Reboot
<1>3. /\ events' = {} /\ torn' = {} /\ lines' = lines
      /\ row' = [k \in Keys |-> NoRow] /\ lease' = [k \in Keys |-> NoLease]
      /\ pc' = [w \in Workers |-> "idle"] /\ ev' = [w \in Workers |-> NoEvent]
      /\ todo' = [w \in Workers |-> {}] /\ at' = [w \in Workers |-> "out"]
      /\ seen' = [w \in Workers |-> {}]
  BY DEF Reboot
<1>4. \A w \in Workers : WorkerOK(w)'
  <2>1. ASSUME NEW w \in Workers
        PROVE  WorkerOK(w)'
    <3>1. /\ pc'[w] = "idle" /\ ev'[w] = NoEvent /\ todo'[w] = {}
          /\ at'[w] = "out" /\ seen'[w] = {}
      BY <1>3
    <3>2. QED
      BY <3>1 DEF WorkerOK, PlaceOK, ListOK, WorkOK, Attempting
  <2>2. QED
    BY <2>1
<1>5. OneDispatchPerEvent'
  BY <1>3 DEF OneDispatchPerEvent
<1>6. IdsInv'
  BY <1>2 DEF IdsInv
<1>7. \A k \in Keys : inbox'[k] = inbox[k] \/
                      \E w \in Workers : /\ at[w] = "route" /\ Key(w) = k
                                         /\ inbox'[k] = inbox[k] + 1
  <2>1. ASSUME NEW k \in Keys, inbox'[k] # inbox[k]
        PROVE  \E w \in Workers : /\ at[w] = "route" /\ Key(w) = k
                                  /\ inbox'[k] = inbox[k] + 1
    <3> DEFINE S == {w \in orphans : Key(w) = k}
    <3>1. inbox'[k] = inbox[k] + Cardinality(S) /\ inbox[k] \in Nat
      BY <1>1 DEF SoakInv, SoakTypeOK
    <3>2. Cardinality(S) = 1
      BY <2>1, <3>1, OneOrphan
    <3>3. S # {}
      BY <3>2, FS_EmptySet
    <3>4. QED
      BY <3>1, <3>2, <3>3
  <2>2. QED
    BY <2>1
<1>8. FreshInv'
  <2>1. ASSUME NEW e \in Events, NEW s \in Subs, Live(s)'
        PROVE  Fresh(<<e, s>>)'
    <3>1. s \in unused
      BY <1>2, <1>3, <2>1 DEF Live
    <3>2. Fresh(<<e, s>>)
      BY <3>1 DEF SoakInv, FreshInv, Live
    <3>3. \A w \in Workers : at[w] = "route" => Key(w) # <<e, s>>
      BY <3>1 DEF SoakInv, WorkerOK, PlaceOK, ListOK, ToBridge, Key
    <3>4. <<e, s>> \in Keys
      BY DEF Keys
    <3>5. QED
      BY <1>3, <1>7, <3>2, <3>3, <3>4 DEF Fresh
  <2>2. QED
    BY <2>1 DEF FreshInv
<1>9. RowInv' /\ LinesMatchInbox' /\ AcceptedInv' /\ HeldInv'
  BY <1>3 DEF RowInv, LinesMatchInbox, AcceptedInv, HeldInv, Keys
<1>10. SeenOncePerBoot'
  <2>1. \A w \in Workers : at[w] = "route" => inbox[Key(w)] = 0
    BY DEF SoakInv, WorkerOK, PlaceOK, WorkOK, ToBridge
  <2>2. QED
    BY <1>3, <1>7, <2>1 DEF SoakInv, SoakTypeOK, SeenOncePerBoot
<1>11. QED
  BY <1>4, <1>5, <1>6, <1>8, <1>9, <1>10 DEF SoakInv

-----------------------------------------------------------------------------
(* The soak: the results. *)

\* A boot starts in order.
LEMMA SoakStarts == SoakInit => SoakInv
<1> SUFFICES ASSUME SoakInit
             PROVE  SoakInv
  OBVIOUS
<1>1. /\ TypeOK /\ Located /\ own \in Subs
      /\ pc = [w \in Workers |-> "idle"] /\ ev = [w \in Workers |-> NoEvent]
      /\ todo = [w \in Workers |-> {}] /\ at = [w \in Workers |-> "out"]
      /\ seen = [w \in Workers |-> {}] /\ subs = {own}
      /\ unused = Subs \ subs /\ events = {}
      /\ row = [k \in Keys |-> NoRow] /\ lease = [k \in Keys |-> NoLease]
      /\ inbox = [k \in Keys |-> 0] /\ lines = [k \in Keys |-> 0]
  BY BusTypeInit, SoakConstantsOK DEF SoakInit, Init
<1>2. SoakTypeOK
  BY <1>1 DEF SoakInit, SoakTypeOK, Places
<1>3. \A w \in Workers : WorkerOK(w)
  <2>1. ASSUME NEW w \in Workers
        PROVE  WorkerOK(w)
    <3>1. /\ pc[w] = "idle" /\ ev[w] = NoEvent /\ todo[w] = {}
          /\ at[w] = "out" /\ seen[w] = {}
      BY <1>1
    <3>2. QED
      BY <3>1 DEF WorkerOK, PlaceOK, ListOK, WorkOK, Attempting
  <2>2. QED
    BY <2>1
<1>4. \A e \in Events, s \in Subs : Fresh(<<e, s>>)
  BY <1>1 DEF Fresh, Keys
<1>5. OneDispatchPerEvent /\ IdsInv /\ FreshInv
  BY <1>1, <1>4 DEF OneDispatchPerEvent, IdsInv, FreshInv
<1>6. RowInv /\ AcceptedInv
  BY <1>1, <1>4 DEF RowInv, AcceptedInv, Fresh
<1>7. SeenOncePerBoot /\ LinesMatchInbox /\ HeldInv
  BY <1>1 DEF SeenOncePerBoot, LinesMatchInbox, HeldInv
<1>8. QED
  BY <1>1, <1>2, <1>3, <1>5, <1>6, <1>7 DEF SoakInv

\* Every step of the soak keeps it in order.
LEMMA SoakStep == SoakInv /\ [SoakNext]_allVars => SoakInv'
<1> SUFFICES ASSUME SoakInv, [SoakNext]_allVars
             PROVE  SoakInv'
  OBVIOUS
<1>1. SoakTypeOK' /\ Located'
  BY SoakTypeStep
<1>2. CASE BusStep
  <2>1. UNCHANGED soakVars
    BY <1>2 DEF BusStep
  <2>2. ASSUME NEW w \in Workers, NEW e \in Events, Publish(w, e)
        PROVE  SoakInv'
    BY <1>1, <2>1, <2>2, PublishKeeps
  <2>3. ASSUME NEW w \in Workers, NEW e \in Events, Deduped(w, e)
        PROVE  SoakInv'
    BY <1>1, <2>1, <2>3, AroundKeeps DEF Deduped
  <2>4. ASSUME NEW w \in Workers, NEW e \in Events, Replay(w, e)
        PROVE  SoakInv'
    BY <1>1, <2>1, <2>4, ReplayKeeps
  <2>5. ASSUME NEW w \in Workers, Answer(w)
        PROVE  SoakInv'
    BY <1>1, <2>1, <2>5, AnswerKeeps
  <2>6. ASSUME NEW w \in Workers, NextSub(w)
        PROVE  SoakInv'
    BY <1>1, <2>1, <2>6, NextSubKeeps
  <2>7. ASSUME NEW w \in Workers,
               FastPath(w) \/ ReadClock(w) \/ Acquire(w) \/ Reread(w)
        PROVE  SoakInv'
    BY <1>1, <2>1, <2>7, ApproachKeeps
  <2>8. ASSUME NEW w \in Workers, RecordOutcome(w)
        PROVE  SoakInv'
    BY <1>1, <2>1, <2>8, RecordKeeps
  <2>9. ASSUME NEW w \in Workers, Release(w)
        PROVE  SoakInv'
    BY <1>1, <2>1, <2>9, ReleaseKeeps
  <2>10. CASE (\E s \in Subs : Subscribe(s) \/ Unsubscribe(s)) \/ Tick
    BY <1>1, <2>1, <2>10, AroundKeeps
  <2>11. QED
    BY <1>2, <2>2, <2>3, <2>4, <2>5, <2>6, <2>7, <2>8, <2>9, <2>10 DEF BusStep
<1>3. ASSUME NEW w \in Workers, BridgeStep(w)
      PROVE  SoakInv'
  <2>1. CASE EndListing(w) \/ EndTornListing(w)
    BY <1>1, <2>1, ListKeeps
  <2>2. CASE ListingRaises(w)
    BY <1>1, <2>2, ListingRaisesKeeps
  <2>3. CASE BeginListing(w)
    BY <1>1, <2>3, BeginListingKeeps
  <2>4. CASE Resolve(w) \/ Classify(w) \/ Routed(w)
    BY <1>1, <2>4, HandlerKeeps
  <2>5. CASE RouteFails(w) \/ LogFails(w) \/ DeliverElsewhere(w)
    BY <1>1, <2>5, DeliveryEndKeeps
  <2>6. CASE FileThought(w) \/ LogLine(w)
    BY <1>1, <2>6, FilesKeep
  <2>7. QED
    BY <1>3, <2>1, <2>2, <2>3, <2>4, <2>5, <2>6 DEF BridgeStep
<1>4. CASE Reboot
  BY <1>1, <1>4, RebootKeeps
<1>5. CASE UNCHANGED allVars
  BY <1>1, <1>5, AroundKeeps DEF allVars
<1>6. QED
  BY <1>2, <1>3, <1>4, <1>5 DEF SoakNext

\* The soak stays in order in every step of every thread.
THEOREM SoakInvariant == SoakSpec => []SoakInv
  BY SoakStarts, SoakStep, PTL DEF SoakSpec

\* Every reachable state of the soak is well typed.
THEOREM SoakTypeCorrect == SoakSpec => []SoakTypeOK
<1>1. SoakInv => SoakTypeOK
  BY DEF SoakInv
<1>2. QED
  BY <1>1, SoakInvariant, PTL

\* A boot of the bridge files and logs a delivery at most once.
THEOREM SeenOnce == SoakSpec => []SeenOncePerBoot
<1>1. SoakInv => SeenOncePerBoot
  BY DEF SoakInv
<1>2. QED
  BY <1>1, SoakInvariant, PTL

\* soak.log tells what the route was given.
THEOREM LogMatchesInbox == SoakSpec => []LinesMatchInbox
<1>1. SoakInv => LinesMatchInbox
  BY DEF SoakInv
<1>2. QED
  BY <1>1, SoakInvariant, PTL

\* What was accepted, and is no longer being worked on, was attempted on the
\* bridge, and its row says whether the line is there.
THEOREM Observed == SoakSpec => []AcceptedIsObserved
<1>1. SoakInv => AcceptedIsObserved
  <2> SUFFICES ASSUME SoakInv, NEW e \in events \ torn, Quiet(e), own \in subs
               PROVE  /\ row[<<e, own>>] # NoRow
                      /\ Delivered(<<e, own>>) <=> lines[<<e, own>>] = 1
    BY DEF AcceptedIsObserved
  <2>1. row[<<e, own>>] # NoRow
    BY DEF SoakInv, AcceptedInv, Quiet
  <2>2. e \in Events /\ own \in Subs /\ own \in CaptureSubs
    BY DEF SoakInv, SoakTypeOK, TypeOK
  <2>3. QED
    BY <2>1, <2>2 DEF SoakInv, RowInv
<1>2. QED
  BY <1>1, SoakInvariant, PTL

\* The statements of BusDispatch that the soak leaves out cannot be reached.
THEOREM LeftOutSafely == SoakSpec => []NothingLeftOut
<1>1. SoakInv => NothingLeftOut
  <2> SUFFICES ASSUME SoakInv, NEW w \in Workers
               PROVE  /\ ~(pc[w] = "loop" /\ op[w] = "replay" /\ todo[w] # {})
                      /\ pc[w] # "lookup"
                      /\ pc[w] = "acquire" => Takes(lease[Key(w)], tnow[w])
    BY DEF NothingLeftOut
  <2>1. pc[w] # "lookup" /\ ~(pc[w] = "loop" /\ op[w] = "replay" /\ todo[w] # {})
    BY DEF SoakInv, WorkerOK, PlaceOK
  <2>2. ASSUME pc[w] = "acquire"
        PROVE  lease[Key(w)] = NoLease
    <3>1. Key(w) \in Keys /\ op[w] = "publish"
      BY <2>2, KeyTyped, Publishes DEF SoakInv, SoakTypeOK
    <3>2. \A v \in Workers :
            InLease(v) /\ Key(v) = Key(w) => v # w /\ ev[v] = ev[w] /\ op[v] = "publish"
      BY <2>2, Publishes DEF InLease, Key
    <3>3. \A v \in Workers : ~(InLease(v) /\ Key(v) = Key(w))
      BY <2>2, <3>1, <3>2 DEF SoakInv, OneDispatchPerEvent, InLease
    <3>4. QED
      BY <3>1, <3>3 DEF SoakInv, HeldInv
  <2>3. QED
    BY <2>1, <2>2 DEF Takes
<1>2. QED
  BY <1>1, SoakInvariant, PTL

-----------------------------------------------------------------------------
(* The soak: the real vault. *)

\* The vaults of a soak have passed the guard, and never change.
VaultsOK ==
  obs \in ObsVaults /\ real \in RealVaults \cup {NoVault} /\ Isolated(obs, real)

\* A sequence is a prefix of another when it agrees with it as far as it goes.
LEMMA PrefixPointwise ==
  ASSUME NEW S, NEW p \in Seq(S), NEW q \in Seq(S)
  PROVE  IsPrefix(p, q) <=> /\ Len(p) <= Len(q)
                            /\ \A i \in 1..Len(p) : p[i] = q[i]
BY DEF IsPrefix

\* A path is no prefix of one that goes on from a path it is isolated from.
LEMMA PrefixOfExtended ==
  ASSUME NEW S, NEW o \in Seq(S), NEW r \in Seq(S), NEW x \in Seq(S),
         IsPrefix(r, o \o x)
  PROVE  IsPrefix(r, o) \/ IsPrefix(o, r)
<1> DEFINE q == o \o x
<1>1. /\ q \in Seq(S) /\ IsPrefix(r, q)
      /\ \A i \in 1..Len(o) : q[i] = o[i]
  OBVIOUS
<1> HIDE DEF q
<1>2. Len(r) <= Len(q) /\ \A i \in 1..Len(r) : r[i] = q[i]
  BY <1>1, PrefixPointwise
<1>3. CASE Len(r) <= Len(o)
  BY <1>1, <1>2, <1>3, PrefixPointwise
<1>4. CASE Len(o) <= Len(r)
  BY <1>1, <1>2, <1>4, PrefixPointwise
<1>5. QED
  BY <1>3, <1>4

\* Vaults that are isolated keep the inbox of the one out of the other.
LEMMA IsolatedInbox ==
  ASSUME VaultsOK, real # NoVault
  PROVE  ~IsPrefix(real, obs \o <<"raw", "inbox">>)
<1> DEFINE S == {obs[i] : i \in 1..Len(obs)}
           T == {real[i] : i \in 1..Len(real)}
           U == S \cup T \cup {"raw", "inbox"}
<1>1. obs \in Seq(S) /\ real \in Seq(T)
  BY SoakConstantsOK DEF VaultsOK, IsPath
<1> HIDE DEF S, T
<1>2. obs \in Seq(U) /\ real \in Seq(U) /\ <<"raw", "inbox">> \in Seq(U)
  BY <1>1
<1> HIDE DEF U
<1>3. ~IsPrefix(real, obs) /\ ~IsPrefix(obs, real)
  BY DEF VaultsOK, Isolated
<1>4. QED
  BY <1>2, <1>3, PrefixOfExtended

\* The soak writes nowhere below the real vault.
THEOREM RealVaultSafe == SoakSpec => []RealVaultUntouched
<1>1. SoakInit => VaultsOK
  BY DEF SoakInit, VaultsOK
<1>2. VaultsOK /\ [SoakNext]_allVars => VaultsOK'
  <2> SUFFICES ASSUME VaultsOK, [SoakNext]_allVars
               PROVE  VaultsOK'
    OBVIOUS
  <2>1. UNCHANGED config
    BY DEF SoakNext, BusStep, BridgeStep, BeginListing, EndListing,
           EndTornListing, ListingRaises, Resolve, Classify, FileThought,
           Routed, RouteFails, LogLine, LogFails, DeliverElsewhere, Reboot,
           allVars, soakVars
  <2>2. QED
    BY <2>1 DEF config, VaultsOK, Isolated
<1>3. VaultsOK => RealVaultUntouched
  BY IsolatedInbox DEF RealVaultUntouched
<1>4. QED
  BY <1>1, <1>2, <1>3, PTL DEF SoakSpec

=============================================================================
