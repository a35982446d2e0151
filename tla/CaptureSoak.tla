---------------------------- MODULE CaptureSoak ----------------------------
(***************************************************************************)
(* The soak: the bus of BusDispatch booted by deploy/soak_boot.py with the *)
(* capture bridge (capture_bridge/) as a subscriber in its own process.    *)
(* A delivery to the bridge runs the bridge's handler on the dispatching   *)
(* thread, one action per call that leaves the process.  The ledger is the *)
(* in-memory one: it is lost at every boot, and it lists subscriptions     *)
(* without its lock.                                                       *)
(*                                                                         *)
(* Abstracted: the text, its type and its translation (classify answers    *)
(* something the route accepts, whatever happens), the day of the inbox    *)
(* file, and the fields of a line of soak.log other than the event.  The   *)
(* route (capture-route, an external program) appends to raw/inbox first   *)
(* and plans after.                                                        *)
(***************************************************************************)
EXTENDS BusDispatch, SequencesExt

CONSTANTS
  CaptureSubs,   \* ids of subscriptions whose target is the bridge's handler
  ObsVaults,     \* what SOAK_OBSERVATION_VAULT may name: paths, as sequences
  RealVaults,    \* what SOAK_REAL_VAULT may name
  NoVault        \* SOAK_REAL_VAULT is not set

\* A path is the sequence of its segments.
IsPath(p) == p \in Seq({p[i] : i \in 1..Len(p)})

\* The soak runs the default BackoffPolicy, under which the first failure of a
\* delivery is never its last.
ASSUME SoakConstantsOK ==
  /\ CaptureSubs \subseteq Subs
  /\ 1 \notin Policies
  /\ \A p \in ObsVaults \cup RealVaults : IsPath(p)

VARIABLES
  obs,      \* cfg.observation_vault, resolved
  real,     \* cfg.real_vault, resolved
  mapped,   \* the events whose sender is in the principal map of this boot
  own,      \* the subscription this boot has put
  at,       \* where each thread is inside a step of BusDispatch
  seen,     \* the subscriptions there were when it began to list them
  inbox,    \* entries the route has appended for an event and a subscription
  lines,    \* lines of soak.log for an event and a subscription
  torn      \* events of this boot whose listing met a change (history)

config   == <<obs, real>>
files    == <<inbox, lines>>
soakVars == <<config, mapped, own, at, seen, files, torn>>
allVars  == <<vars, soakVars>>

Places == {"out", "listing", "classify", "route", "routed", "log"}

\* Mutant of Isolated: a vault above the observation vault is overlooked.
IsolatedBelow(o, r) == r # NoVault => ~IsPrefix(o, r)

\* assert_observation_isolated: neither path is the other or above it.
Isolated(o, r) == r # NoVault => ~IsPrefix(o, r) /\ ~IsPrefix(r, o)

Enter(w, place) == at' = [at EXCEPT ![w] = place]

ToBridge(w) == pc[w] = "deliver" /\ sub[w] \in CaptureSubs

SoakTypeOK ==
  /\ TypeOK
  /\ obs \in ObsVaults
  /\ real \in RealVaults \cup {NoVault}
  /\ mapped \subseteq Events
  /\ own \in CaptureSubs
  /\ at \in [Workers -> Places]
  /\ seen \in [Workers -> SUBSET Subs]
  /\ inbox \in [Keys -> Nat]
  /\ lines \in [Keys -> Nat]
  /\ torn \subseteq Events

-----------------------------------------------------------------------------
(* matching_subscriptions iterates over _subs.values() without the lock. *)

BeginListing(w) ==
  /\ pc[w] = "match"
  /\ at[w] = "out"
  /\ seen' = [seen EXCEPT ![w] = subs]
  /\ Enter(w, "listing")
  /\ UNCHANGED <<vars, config, mapped, own, files, torn>>

\* Nothing has changed the dict meanwhile.  Abstracted: a subscription that came
\* and went between two steps of the iterator counts as no change; the bridge's
\* own, which stands first in the dict, is listed all the same.
EndListing(w) ==
  /\ at[w] = "listing"
  /\ subs = seen[w]
  /\ Match(w)
  /\ seen' = [seen EXCEPT ![w] = {}]
  /\ Enter(w, "out")
  /\ UNCHANGED <<config, mapped, own, files, torn>>

\* As many came as went: the iterator does not notice, and what it yields
\* depends on where the dict has put them.
EndTornListing(w) ==
  /\ at[w] = "listing"
  /\ subs # seen[w]
  /\ Cardinality(subs) = Cardinality(seen[w])
  /\ \E found \in SUBSET (seen[w] \cup subs) :
       todo' = [todo EXCEPT ![w] = [sub : found, attempts : {0}]]
  /\ Goto(w, "loop")
  /\ seen' = [seen EXCEPT ![w] = {}]
  /\ torn' = torn \cup {ev[w]}
  /\ Enter(w, "out")
  /\ UNCHANGED <<ledger, op, ev, sub, tnow, until, tries, history, bounds,
                 config, mapped, own, files>>

\* RuntimeError, dictionary changed size: the publish answers 500, and the
\* event stays recorded.
ListingRaises(w) ==
  /\ at[w] = "listing"
  /\ Cardinality(subs) # Cardinality(seen[w])
  /\ ev' = [ev EXCEPT ![w] = NoEvent]
  /\ Goto(w, "idle")
  /\ seen' = [seen EXCEPT ![w] = {}]
  /\ torn' = torn \cup {ev[w]}
  /\ Enter(w, "out")
  /\ UNCHANGED <<ledger, op, todo, sub, tnow, until, tries, history, bounds,
                 config, mapped, own, files>>

-----------------------------------------------------------------------------
(* The handler of one delivery (bridge.make_handler inside                *)
(* soak_boot._observation_handler).                                       *)

\* A sender that is not in the map is skipped: it is logged, not routed.
Resolve(w) ==
  /\ ToBridge(w)
  /\ at[w] = "out"
  /\ Enter(w, IF ev[w] \in mapped THEN "classify" ELSE "log")
  /\ UNCHANGED <<vars, config, mapped, own, seen, files, torn>>

\* classify never raises: a failing, late or unknown answer of the model is
\* "unclassifiable".  It takes as long as it takes.
Classify(w) ==
  /\ at[w] = "classify"
  /\ Enter(w, "route")
  /\ UNCHANGED <<vars, config, mapped, own, seen, files, torn>>

\* capture-route appends the thought to raw/inbox of the observation vault.
FileThought(w) ==
  /\ at[w] = "route"
  /\ inbox' = [inbox EXCEPT ![Key(w)] = @ + 1]
  /\ Enter(w, "routed")
  /\ UNCHANGED <<vars, config, mapped, own, seen, lines, torn>>

\* capture-route exits with 0 and a plan.
Routed(w) ==
  /\ at[w] = "routed"
  /\ Enter(w, "log")
  /\ UNCHANGED <<vars, config, mapped, own, seen, files, torn>>

\* Mutant of RouteFails: a failed route is logged like a plan.
RouteFailsLogged(w) ==
  /\ at[w] \in {"route", "routed"}
  /\ Enter(w, "log")
  /\ UNCHANGED <<vars, config, mapped, own, seen, files, torn>>

\* call_capture_route raises, before or after the append: another exit code,
\* 120 s without an end, or a stdout that is no JSON.
RouteFails(w) ==
  /\ at[w] \in {"route", "routed"}
  /\ DeliverFails(w)
  /\ Enter(w, "out")
  /\ UNCHANGED <<config, mapped, own, seen, files, torn>>

\* The line is written and the handler returns.
LogLine(w) ==
  /\ at[w] = "log"
  /\ lines' = [lines EXCEPT ![Key(w)] = @ + 1]
  /\ DeliverOK(w)
  /\ Enter(w, "out")
  /\ UNCHANGED <<config, mapped, own, seen, inbox, torn>>

\* soak.log cannot be opened or written.
LogFails(w) ==
  /\ at[w] = "log"
  /\ DeliverFails(w)
  /\ Enter(w, "out")
  /\ UNCHANGED <<config, mapped, own, seen, files, torn>>

\* Any other target: over HTTP, or a key nobody has registered.
DeliverElsewhere(w) ==
  /\ ~ToBridge(w)
  /\ DeliverOK(w) \/ DeliverFails(w) \/ DeliverUnanswered(w)
  /\ UNCHANGED soakVars

-----------------------------------------------------------------------------

\* build_soak_app: once the isolation guard has passed, an empty ledger with
\* one subscription, drawn at random.
SoakInit ==
  /\ obs \in ObsVaults
  /\ real \in RealVaults \cup {NoVault}
  /\ Isolated(obs, real)
  /\ own \in CaptureSubs
  /\ Init
  /\ subs = {own}
  /\ mapped \in SUBSET Events
  /\ at = [w \in Workers |-> "out"]
  /\ seen = [w \in Workers |-> {}]
  /\ inbox = [k \in Keys |-> 0]
  /\ lines = [k \in Keys |-> 0]
  /\ torn = {}

\* pm2 restarts the process, with the principal map of the day.  What it had
\* in memory is gone; a route that was running may still append.
Reboot ==
  /\ crashes < MaxCrashes
  /\ crashes' = crashes + 1
  /\ \E s \in unused \cap CaptureSubs :
       /\ own' = s
       /\ subs' = {s}
       /\ unused' = unused \ {s}
  /\ events' = {}
  /\ row' = [k \in Keys |-> NoRow]
  /\ lease' = [k \in Keys |-> NoLease]
  /\ mapped' \in SUBSET Events
  /\ \E orphans \in SUBSET {w \in Workers : at[w] = "route"} :
       inbox' = [k \in Keys |->
                   inbox[k] + Cardinality({w \in orphans : Key(w) = k})]
  /\ pc' = [w \in Workers |-> "idle"]
  /\ ev' = [w \in Workers |-> NoEvent]
  /\ todo' = [w \in Workers |-> {}]
  /\ sub' = [w \in Workers |-> NoSub]
  /\ tnow' = [w \in Workers |-> 0]
  /\ until' = [w \in Workers |-> 0]
  /\ tries' = [w \in Workers |-> 0]
  /\ at' = [w \in Workers |-> "out"]
  /\ seen' = [w \in Workers |-> {}]
  /\ torn' = {}
  /\ UNCHANGED <<maxAttempts, now, op, history, replays, config, lines>>

\* What the bus does as in BusDispatch.  NextDead, Lookup and Skip are not among
\* it: one failure is never the last, so no row is dead, and no two threads
\* attempt one delivery: they are never enabled here (NothingLeftOut).
BusStep ==
  /\ \/ \E w \in Workers, e \in Events :
          Publish(w, e) \/ Deduped(w, e) \/ Replay(w, e)
     \/ \E w \in Workers :
          \/ Answer(w) \/ NextSub(w) \/ FastPath(w) \/ ReadClock(w)
          \/ Acquire(w) \/ Reread(w) \/ RecordOutcome(w) \/ Release(w)
     \/ \E s \in Subs : Subscribe(s) \/ Unsubscribe(s)
     \/ Tick
  /\ UNCHANGED soakVars

BridgeStep(w) ==
  \/ BeginListing(w)
  \/ EndListing(w)
  \/ EndTornListing(w)
  \/ ListingRaises(w)
  \/ Resolve(w)
  \/ Classify(w)
  \/ FileThought(w)
  \/ Routed(w)
  \/ RouteFails(w)
  \/ LogLine(w)
  \/ LogFails(w)
  \/ DeliverElsewhere(w)

SoakNext == BusStep \/ (\E w \in Workers : BridgeStep(w)) \/ Reboot

SoakSpec == SoakInit /\ [][SoakNext]_allVars

-----------------------------------------------------------------------------
(* Properties. *)

\* The statements of BusDispatch that BusStep leaves out cannot be reached: a
\* replay finds nothing to do, and a lease is never refused.
NothingLeftOut ==
  \A w \in Workers :
    /\ ~(pc[w] = "loop" /\ op[w] = "replay" /\ todo[w] # {})
    /\ pc[w] # "lookup"
    /\ pc[w] = "acquire" => Takes(lease[Key(w)], tnow[w])

Quiet(e) == \A w \in Workers : ev[w] # e

\* "Duplicate lines in soak.log are possible across restarts" (SOAK.md), and
\* only across them: a subscription, which never outlives a boot, sees an
\* event once, however often it is published or replayed, however long its
\* handler outlasts the dispatch lease.
SeenOncePerBoot == \A k \in Keys : inbox[k] <= 1 /\ lines[k] <= 1

\* soak.log tells what the route was given: a line of a mapped sender's
\* message has its inbox entry, one of anybody else has none, and no message
\* of an unmapped sender is ever routed.
LinesMatchInbox ==
  \A e \in events, s \in subs \cap CaptureSubs :
    /\ lines[<<e, s>>] > 0 /\ e \in mapped => inbox[<<e, s>>] = 1
    /\ e \notin mapped => inbox[<<e, s>>] = 0

\* A message that was accepted and is no longer being worked on has been
\* attempted on the bridge, and the row says whether its line was written:
\* unless the subscriptions changed under the listing, or the bridge's own
\* subscription was deleted.
AcceptedIsObserved ==
  \A e \in events \ torn :
    (Quiet(e) /\ own \in subs) =>
      /\ row[<<e, own>>] # NoRow
      /\ Delivered(<<e, own>>) <=> lines[<<e, own>>] = 1

\* The soak writes nowhere real: no entry lands in the live vault, wherever
\* the two are, once SOAK_REAL_VAULT is set.
RealVaultUntouched ==
  \A k \in Keys :
    (inbox[k] > 0 /\ real # NoVault)
      => ~IsPrefix(real, obs \o <<"raw", "inbox">>)

=============================================================================
