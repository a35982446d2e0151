---------------------------- MODULE BusDispatch ----------------------------
(***************************************************************************)
(* The event bus: BusService.publish, replay, subscribe and unsubscribe    *)
(* (bus/service.py) run by the worker threads of one bus process, and the  *)
(* Dispatcher they share (bus/dispatch.py), over the transactional ledger. *)
(* One action per ledger call, clock read or delivery.                     *)
(*                                                                         *)
(* Abstracted: authorization, envelope and schema checks (a publish that   *)
(* fails one changes nothing and is not a step here), the envelope itself  *)
(* (an event is its (source, id) key), the error class and next_attempt_at *)
(* of a row (nothing in the code reads either), and other orgs.  Every     *)
(* subscription of Subs matches the type of every event of Events.         *)
(***************************************************************************)
EXTENDS LeaseTable, FiniteSets

CONSTANTS
  Workers,       \* the threads that serve requests
  Events,        \* (source, id) keys producers publish under
  Subs,          \* subscription ids, drawn at random and never reused
  NoRow,         \* get_delivery answered None
  NoEvent,       \* no event in hand
  NoSub,         \* no subscription in hand
  Policies,      \* the BackoffPolicy.max_attempts a deployment may choose
  LeaseTTL,      \* lease_ttl
  LostAcks,      \* TRUE: a subscriber's answer may get lost
  MaxTime,       \* bound: the clock stops here
  MaxReplays,    \* bound: replay requests
  MaxCrashes     \* bound: restarts of the bus process

ASSUME BusConstantsOK ==
  /\ Policies \subseteq Nat \ {0}
  /\ LeaseTTL \in Nat \ {0}
  /\ LostAcks \in BOOLEAN
  /\ MaxTime \in Nat
  /\ MaxReplays \in Nat
  /\ MaxCrashes \in Nat
  /\ NoEvent \notin Events
  /\ NoSub \notin Subs

\* None is neither a delivery row nor a lease row.
ASSUME NoRowIsNoRow ==
  /\ NoRow \notin [status : {"pending", "delivered", "dead"}, attempts : Nat]
  /\ NoLease \notin [holder : Workers, until : Nat]

VARIABLES
  maxAttempts, \* BackoffPolicy.max_attempts of this deployment
  now,        \* the clock
  events,     \* the recorded events
  subs,       \* the subscriptions in the ledger
  unused,     \* the subscription ids nobody has drawn yet
  row,        \* the delivery row of each event and subscription
  lease,      \* the lease row of each delivery
  pc,         \* where each worker is
  op,         \* what it serves: "publish" or "replay"
  ev,         \* the event it works on
  todo,       \* the rest of the list it iterates over
  sub,        \* the subscription it is at
  tnow,       \* local now
  until,      \* the until it passed when it got the lease
  tries,      \* local attempts
  effects,    \* how often the subscriber has handled the event (history)
  replays,    \* replay requests so far (bound)
  crashes,    \* restarts so far (bound)
  faults      \* circumstances met so far (history, see Faults)

ledger  == <<events, subs, row, lease>>
locals  == <<op, ev, todo, sub, tnow, until, tries>>
history == <<effects, faults>>
bounds  == <<maxAttempts, now, unused, replays, crashes>>
vars == <<ledger, pc, locals, history, bounds>>

Keys == Events \X Subs

\* A delivery row.
Rows == [status : {"pending", "delivered", "dead"}, attempts : Nat]
Row(status, n) == [status |-> status, attempts |-> n]

\* A row as a replay has listed it, or a subscription as dispatch has.
Listed == [sub : Subs, attempts : Nat]

Labels == {"idle", "match", "loop", "lookup", "fast", "clock", "acquire",
           "reread", "deliver", "succeeded", "failed", "release"}

\* The worker believes it owns the lease of its delivery.
InLease(w) == pc[w] \in {"reread", "deliver", "succeeded", "failed", "release"}

Key(w) == <<ev[w], sub[w]>>

\* What two guarantees below have to exclude.
\*   lostack   a subscriber handled an event but its answer was lost
\*   overlap   two replays of one event overlapped
Faults == {"lostack", "overlap"}

TypeOK ==
  /\ maxAttempts \in Policies
  /\ now \in Nat
  /\ events \subseteq Events
  /\ subs \subseteq Subs
  /\ unused \subseteq Subs
  /\ row \in [Keys -> {NoRow} \cup Rows]
  /\ lease \in [Keys -> LeaseRows(Workers)]
  /\ pc \in [Workers -> Labels]
  /\ op \in [Workers -> {"publish", "replay"}]
  /\ ev \in [Workers -> {NoEvent} \cup Events]
  /\ todo \in [Workers -> SUBSET Listed]
  /\ sub \in [Workers -> {NoSub} \cup Subs]
  /\ tnow \in [Workers -> Nat]
  /\ until \in [Workers -> Nat]
  /\ tries \in [Workers -> Nat]
  /\ effects \in [Keys -> Nat]
  /\ replays \in Nat
  /\ crashes \in Nat
  /\ faults \subseteq Faults

Delivered(k) == row[k] # NoRow /\ row[k].status = "delivered"

\* Mutant of Dead: the list of dead letters is not filtered by status.
AnyRow(k) == row[k] # NoRow

Dead(k) == row[k] # NoRow /\ row[k].status = "dead"

Goto(w, label) == pc' = [pc EXCEPT ![w] = label]

-----------------------------------------------------------------------------
(* Requests. *)

\* Mutant of Publish: the answer of record_event is ignored.
PublishUngated(w, e) ==
  /\ pc[w] = "idle"
  /\ events' = events \cup {e}
  /\ op' = [op EXCEPT ![w] = "publish"]
  /\ ev' = [ev EXCEPT ![w] = e]
  /\ Goto(w, "match")
  /\ UNCHANGED <<subs, row, lease, todo, sub, tnow, until, tries, history,
                 bounds>>

\* publish: record_event is the idempotency gate.  A key that is already
\* recorded answers "deduped" and dispatches nothing.
Publish(w, e) ==
  /\ pc[w] = "idle"
  /\ e \notin events
  /\ events' = events \cup {e}
  /\ op' = [op EXCEPT ![w] = "publish"]
  /\ ev' = [ev EXCEPT ![w] = e]
  /\ Goto(w, "match")
  /\ UNCHANGED <<subs, row, lease, todo, sub, tnow, until, tries, history,
                 bounds>>

Deduped(w, e) ==
  /\ pc[w] = "idle"
  /\ e \in events
  /\ UNCHANGED vars

\* dispatch: the loop runs over the subscriptions as they are now.
Match(w) ==
  /\ pc[w] = "match"
  /\ todo' = [todo EXCEPT ![w] = [sub : subs, attempts : {0}]]
  /\ Goto(w, "loop")
  /\ UNCHANGED <<ledger, op, ev, sub, tnow, until, tries, history, bounds>>

\* replay: the loop runs over the event's dead rows as they are now.
Replay(w, e) ==
  /\ pc[w] = "idle"
  /\ e \in events
  /\ replays < MaxReplays
  /\ replays' = replays + 1
  /\ op' = [op EXCEPT ![w] = "replay"]
  /\ ev' = [ev EXCEPT ![w] = e]
  /\ todo' = [todo EXCEPT ![w] =
                {[sub |-> s, attempts |-> row[<<e, s>>].attempts] :
                   s \in {t \in Subs : Dead(<<e, t>>)}}]
  /\ Goto(w, "loop")
  /\ faults' = IF \E v \in Workers :
                    pc[v] # "idle" /\ op[v] = "replay" /\ ev[v] = e
                 THEN faults \cup {"overlap"} ELSE faults
  /\ UNCHANGED <<ledger, sub, tnow, until, tries, effects, maxAttempts,
                 now, unused, crashes>>

\* The loop is over: the request is answered.
Answer(w) ==
  /\ pc[w] = "loop"
  /\ todo[w] = {}
  /\ ev' = [ev EXCEPT ![w] = NoEvent]
  /\ sub' = [sub EXCEPT ![w] = NoSub]
  /\ Goto(w, "idle")
  /\ UNCHANGED <<ledger, op, todo, tnow, until, tries, history, bounds>>

\* Mutant of NextSub: the loop does not advance.
NextSubAgain(w) ==
  /\ pc[w] = "loop"
  /\ op[w] = "publish"
  /\ \E d \in todo[w] : sub' = [sub EXCEPT ![w] = d.sub]
  /\ Goto(w, "fast")
  /\ UNCHANGED <<ledger, op, ev, todo, tnow, until, tries, history, bounds>>

\* dispatch goes on to the next subscription of its list.
NextSub(w) ==
  /\ pc[w] = "loop"
  /\ op[w] = "publish"
  /\ \E d \in todo[w] :
       /\ todo' = [todo EXCEPT ![w] = @ \ {d}]
       /\ sub' = [sub EXCEPT ![w] = d.sub]
  /\ Goto(w, "fast")
  /\ UNCHANGED <<ledger, op, ev, tnow, until, tries, history, bounds>>

\* replay goes on to the next row of its list: it writes "pending", with the
\* attempts it listed, over whatever the row says now, and without the lease.
NextDead(w) ==
  /\ pc[w] = "loop"
  /\ op[w] = "replay"
  /\ \E d \in todo[w] :
       /\ todo' = [todo EXCEPT ![w] = @ \ {d}]
       /\ sub' = [sub EXCEPT ![w] = d.sub]
       /\ row' = [row EXCEPT ![<<ev[w], d.sub>>] = Row("pending", d.attempts)]
  /\ Goto(w, "lookup")
  /\ UNCHANGED <<events, subs, lease, op, ev, tnow, until, tries, history,
                 bounds>>

\* attempt_pending: nothing is attempted for a subscription that is gone.
Lookup(w) ==
  /\ pc[w] = "lookup"
  /\ Goto(w, IF sub[w] \in subs THEN "fast" ELSE "loop")
  /\ UNCHANGED <<ledger, locals, history, bounds>>

-----------------------------------------------------------------------------
(* One attempt at one delivery (Dispatcher._attempt). *)

\* Fast path: a delivered row needs no lease.
FastPath(w) ==
  /\ pc[w] = "fast"
  /\ Goto(w, IF Delivered(Key(w)) THEN "loop" ELSE "clock")
  /\ UNCHANGED <<ledger, locals, history, bounds>>

ReadClock(w) ==
  /\ pc[w] = "clock"
  /\ tnow' = [tnow EXCEPT ![w] = now]
  /\ Goto(w, "acquire")
  /\ UNCHANGED <<ledger, op, ev, todo, sub, until, tries, history, bounds>>

\* The holder id is random, so the worker stands for it.
Acquire(w) ==
  /\ pc[w] = "acquire"
  /\ Takes(lease[Key(w)], tnow[w])
  /\ lease' = [lease EXCEPT ![Key(w)] = Leased(w, tnow[w] + LeaseTTL)]
  /\ until' = [until EXCEPT ![w] = tnow[w] + LeaseTTL]
  /\ tnow' = [tnow EXCEPT ![w] = 0]
  /\ Goto(w, "reread")
  /\ UNCHANGED <<events, subs, row, op, ev, todo, sub, tries, history, bounds>>

\* Another dispatcher owns this delivery: skip it.
Skip(w) ==
  /\ pc[w] = "acquire"
  /\ ~Takes(lease[Key(w)], tnow[w])
  /\ tnow' = [tnow EXCEPT ![w] = 0]
  /\ Goto(w, "loop")
  /\ UNCHANGED <<ledger, op, ev, todo, sub, until, tries, history, bounds>>

\* The double check under the lease, and the number of this attempt.
Reread(w) ==
  /\ pc[w] = "reread"
  /\ \/ /\ Delivered(Key(w))
        /\ Goto(w, "release")
        /\ UNCHANGED tries
     \/ /\ ~Delivered(Key(w))
        /\ tries' = [tries EXCEPT ![w] =
                       IF row[Key(w)] = NoRow THEN 1 ELSE row[Key(w)].attempts + 1]
        /\ Goto(w, "deliver")
  /\ UNCHANGED <<ledger, op, ev, todo, sub, tnow, until, history, bounds>>

\* deliver returns: the subscriber has handled the event.
DeliverOK(w) ==
  /\ pc[w] = "deliver"
  /\ effects' = [effects EXCEPT ![Key(w)] = @ + 1]
  /\ Goto(w, "succeeded")
  /\ UNCHANGED <<ledger, locals, faults, bounds>>

\* Mutant of DeliverFails: the error is not caught, only the finally runs.
DeliverFailsUncaught(w) ==
  /\ pc[w] = "deliver"
  /\ Goto(w, "release")
  /\ UNCHANGED <<ledger, locals, history, bounds>>

\* deliver raises: no handler, no connection, or an answer other than 2xx.
DeliverFails(w) ==
  /\ pc[w] = "deliver"
  /\ Goto(w, "failed")
  /\ UNCHANGED <<ledger, locals, history, bounds>>

\* deliver raises although the subscriber has handled the event: the answer
\* came after the HTTP timeout, or not at all.
DeliverUnanswered(w) ==
  /\ LostAcks
  /\ pc[w] = "deliver"
  /\ effects' = [effects EXCEPT ![Key(w)] = @ + 1]
  /\ faults' = faults \cup {"lostack"}
  /\ Goto(w, "failed")
  /\ UNCHANGED <<ledger, locals, bounds>>

\* put_delivery of the outcome, whoever owns the lease now.
RecordOutcome(w) ==
  /\ \/ /\ pc[w] = "succeeded"
        /\ row' = [row EXCEPT ![Key(w)] = Row("delivered", tries[w])]
     \/ /\ pc[w] = "failed"
        /\ tries[w] >= maxAttempts
        /\ row' = [row EXCEPT ![Key(w)] = Row("dead", tries[w])]
     \/ /\ pc[w] = "failed"
        /\ tries[w] < maxAttempts
        /\ row' = [row EXCEPT ![Key(w)] = Row("pending", tries[w])]
  /\ tries' = [tries EXCEPT ![w] = 0]
  /\ Goto(w, "release")
  /\ UNCHANGED <<events, subs, lease, op, ev, todo, sub, tnow, until, history,
                 bounds>>

\* Mutant of Release: the row is deleted whoever it names.
ReleaseByAnyone(w) ==
  /\ pc[w] = "release"
  /\ lease' = [lease EXCEPT ![Key(w)] = NoLease]
  /\ until' = [until EXCEPT ![w] = 0]
  /\ Goto(w, "loop")
  /\ UNCHANGED <<events, subs, row, op, ev, todo, sub, tnow, tries, history,
                 bounds>>

\* The finally clause: release_lease by holder id.
Release(w) ==
  /\ pc[w] = "release"
  /\ lease' = [lease EXCEPT ![Key(w)] = AfterRelease(@, w)]
  /\ until' = [until EXCEPT ![w] = 0]
  /\ Goto(w, "loop")
  /\ UNCHANGED <<events, subs, row, op, ev, todo, sub, tnow, tries, history,
                 bounds>>

-----------------------------------------------------------------------------
(* What happens around the workers. *)

Subscribe(s) ==
  /\ s \in unused
  /\ unused' = unused \ {s}
  /\ subs' = subs \cup {s}
  /\ UNCHANGED <<events, row, lease, pc, locals, history, maxAttempts,
                 now, replays, crashes>>

Unsubscribe(s) ==
  /\ s \in subs
  /\ subs' = subs \ {s}
  /\ UNCHANGED <<events, row, lease, pc, locals, history, bounds>>

Tick ==
  /\ now < MaxTime
  /\ now' = now + 1
  /\ UNCHANGED <<ledger, pc, locals, history, maxAttempts, unused, replays,
                 crashes>>

\* The bus process dies and is restarted: every request in flight is gone,
\* the sqlite ledger with its lease rows stays.
Restart ==
  /\ crashes < MaxCrashes
  /\ \E w \in Workers : pc[w] # "idle"
  /\ crashes' = crashes + 1
  /\ pc' = [w \in Workers |-> "idle"]
  /\ ev' = [w \in Workers |-> NoEvent]
  /\ sub' = [w \in Workers |-> NoSub]
  /\ todo' = [w \in Workers |-> {}]
  /\ tnow' = [w \in Workers |-> 0]
  /\ until' = [w \in Workers |-> 0]
  /\ tries' = [w \in Workers |-> 0]
  /\ UNCHANGED <<ledger, op, history, maxAttempts, now, unused, replays>>

-----------------------------------------------------------------------------

Init ==
  /\ maxAttempts \in Policies
  /\ now = 0
  /\ events = {}
  /\ subs \in SUBSET Subs
  /\ unused = Subs \ subs
  /\ row = [k \in Keys |-> NoRow]
  /\ lease = [k \in Keys |-> NoLease]
  /\ pc = [w \in Workers |-> "idle"]
  /\ op = [w \in Workers |-> "publish"]
  /\ ev = [w \in Workers |-> NoEvent]
  /\ todo = [w \in Workers |-> {}]
  /\ sub = [w \in Workers |-> NoSub]
  /\ tnow = [w \in Workers |-> 0]
  /\ until = [w \in Workers |-> 0]
  /\ tries = [w \in Workers |-> 0]
  /\ effects = [k \in Keys |-> 0]
  /\ replays = 0
  /\ crashes = 0
  /\ faults = {}

\* The next statement of a request that is being served.
Step(w) ==
  \/ Match(w)
  \/ Answer(w)
  \/ NextSub(w)
  \/ NextDead(w)
  \/ Lookup(w)
  \/ FastPath(w)
  \/ ReadClock(w)
  \/ Acquire(w)
  \/ Skip(w)
  \/ Reread(w)
  \/ DeliverOK(w)
  \/ DeliverFails(w)
  \/ DeliverUnanswered(w)
  \/ RecordOutcome(w)
  \/ Release(w)

Next ==
  \/ \E w \in Workers, e \in Events :
       Publish(w, e) \/ Deduped(w, e) \/ Replay(w, e)
  \/ \E w \in Workers : Step(w)
  \/ \E s \in Subs : Subscribe(s) \/ Unsubscribe(s)
  \/ Tick
  \/ Restart

Spec == Init /\ [][Next]_vars

\* A thread that serves a request keeps running; a delivery ends, since HTTP
\* calls and subprocess calls time out.  No request has to arrive.
FairSpec == Spec /\ \A w \in Workers : WF_vars(Step(w))

-----------------------------------------------------------------------------
(* The lease row of each delivery against the lease it is meant to be.        *)

Owners(k) == {w \in Workers : InLease(w) /\ Key(w) = k}

Service(k) == INSTANCE LeaseService WITH
  Clients <- Workers,
  Ids     <- [w \in Workers |-> {w}],
  TTL     <- LeaseTTL,
  lease   <- lease[k],
  owner   <- Owners(k),
  valid   <- Owners(k),
  id      <- [w \in Workers |-> IF w \in Owners(k) THEN w ELSE NoLease],
  until   <- [w \in Workers |-> IF w \in Owners(k) THEN until[w] ELSE 0]

-----------------------------------------------------------------------------
(* Properties. *)

\* The leases of any two deliveries are independent, and on each of them every
\* step of every dispatcher is a step of the abstract lease or leaves it alone.
ImplementsLeases ==
  /\ \A k \in Keys : Service(k)!Init
  /\ [][\A k \in Keys : [Service(k)!Next]_(Service(k)!svars)]_vars

\* However often an event is published, by whichever threads, it is dispatched
\* once (record_event as the idempotency gate), and that dispatch has every
\* first attempt to itself: until it gets to a delivery nobody has handled it,
\* written its row or taken its lease, and while it attempts the delivery the
\* lease stays its own and no row appears, even if the lease runs out, other
\* deliveries of the event are replayed meanwhile, or a subscriber has handled
\* the event without an answer.  A second dispatch of an event, at once or much
\* later, would find what the first one has left.
Untouched(k) == row[k] = NoRow /\ lease[k] = NoLease /\ effects[k] = 0

FirstAttemptsAlone ==
  \A w \in Workers : pc[w] # "idle" /\ op[w] = "publish" =>
    /\ \A d \in todo[w] : Untouched(<<ev[w], d.sub>>)
    /\ pc[w] \in {"fast", "clock", "acquire"} => Untouched(Key(w))
    /\ pc[w] \in {"reread", "deliver", "succeeded", "failed"} =>
         row[Key(w)] = NoRow /\ lease[Key(w)] = Leased(w, until[w])

\* No two dispatchers own unexpired leases on one delivery (_attempt under
\* acquire_lease), even when earlier owners outlived theirs.
OneLiveDispatcher ==
  \A v, w \in Workers :
    (/\ InLease(v) /\ until[v] > now
     /\ InLease(w) /\ until[w] > now /\ Key(v) = Key(w)) => v = w

\* A subscriber handles an event at most once, as long as no two replays of
\* the event overlap and no answer is lost: leases that run out, restarts,
\* repeated publishes and unsubscribes never cause a second delivery.
HandledOnce == faults = {} => \A k \in Keys : effects[k] <= 1

\* Under the same premises a delivery row only moves forward: "delivered" is
\* final and the attempt count never drops.
RowsMoveForward ==
  [][faults' = {} =>
       \A k \in Keys : row[k] # NoRow =>
         /\ row'[k].attempts >= row[k].attempts
         /\ row[k].status = "delivered" => row'[k] = row[k]]_vars

\* Every subscription an event was to be dispatched to gets a delivery row,
\* unless the process was restarted meanwhile.
EveryMatchIsAttempted ==
  \A w \in Workers, e \in Events, s \in Subs :
    (pc[w] = "loop" /\ op[w] = "publish" /\ ev[w] = e
       /\ \E d \in todo[w] : d.sub = s)
      ~> (row[<<e, s>>] # NoRow \/ crashes > 0)

-----------------------------------------------------------------------------
(* What the repository says, and the code does not keep. *)

\* "so two dispatchers never double-deliver".
NeverDoubleDelivered == \A k \in Keys : effects[k] <= 1

\* "failure schedules a retry; after max_attempts the row goes dead": a
\* pending row is delivered or dead-lettered in the end, as long as its
\* subscription is there.
PendingIsSettled ==
  \A e \in Events, s \in Subs :
    (/\ row[<<e, s>>] # NoRow
     /\ row[<<e, s>>].status = "pending"
     /\ s \in subs)
      ~> (Delivered(<<e, s>>) \/ Dead(<<e, s>>) \/ s \notin subs)

=============================================================================
