---------------------------- MODULE VaultRefresh ----------------------------
(***************************************************************************)
(* refresh_if_needed (vault/refresh.py) run by several worker threads, or  *)
(* by several processes that share a database, for one connection, over    *)
(* the transactional ServerStore (vault/store/server.py).  One action per  *)
(* store call, clock read or provider exchange, so that any two callers    *)
(* may interleave between a read and its use.  (InMemoryStore has the same *)
(* lease but hands out the stored object itself: a caller would see later  *)
(* writes through its local conn.  That is not modelled.)                  *)
(*                                                                         *)
(* Around the callers: the provider, whose refresh tokens are single use   *)
(* (each refresh spends one and mints the next); finish_connect and        *)
(* import_connection, which overwrite the connection without the lease;    *)
(* revoke, which deletes the connection together with its lease row; and   *)
(* callers that die in the middle of a call.                               *)
(*                                                                         *)
(* Abstracted: the access token and its scope (only the refresh token's    *)
(* number rt and expires_at matter here), and the value a call returns or  *)
(* raises: both end at pc = "idle".  A local is reset once the call will   *)
(* not read it again.  Sleeping is a step that does not by itself move the *)
(* clock, which allows more than the real clock does.                      *)
(***************************************************************************)
EXTENDS LeaseTable

CONSTANTS
  Callers,          \* threads or processes that ask for the access token
  NoConn,           \* get_connection answered None
  Skew,             \* a token within Skew of expires_at counts as expired
  LeaseTTL,         \* lease_ttl
  WaitTimeout,      \* wait_timeout, counted in polls
  Lifetime,         \* expires_in of a token the provider mints
  MaxTime,          \* bound: the clock stops here
  MaxDisturbances   \* bound: reconnects, revokes and deaths together

ASSUME ConstantsOK ==
  /\ NoConn \notin [rt : Nat, exp : Nat]
  /\ Skew \in Nat
  /\ LeaseTTL \in Nat \ {0}
  /\ WaitTimeout \in Nat \ {0}
  /\ Lifetime \in Nat
  /\ MaxTime \in Nat
  /\ MaxDisturbances \in Nat

\* NoLease is no row of the table.
ASSUME NoLeaseIsNoRow ==
  NoLease \notin [holder : Nat \X ({NoLease} \cup Callers), until : Nat]

VARIABLES
  now,      \* the clock every now_fn reads
  conn,     \* the stored connection: NoConn or its token
  lease,    \* the lease row of its key
  live,     \* the refresh tokens the provider still accepts
  issued,   \* how many refresh tokens the provider has minted
  pc,       \* where each caller is
  seen,     \* local conn: what the caller last read
  tnow,     \* local now: the instant the caller last read
  holder,   \* local holder id
  until,    \* the until the caller passed when it got the lease
  fresh,    \* local new_token, as the provider sent it
  waited,   \* local waited, in polls
  epoch,    \* how often the connection has been revoked (history)
  born,     \* the epoch in which the caller got its lease (history)
  coarse,   \* whether two callers may read the very same instant (chosen once)
  used,     \* disturbances so far (bound)
  faults    \* what has gone wrong so far (history, see Faults)

vars == <<now, conn, lease, live, issued, pc, seen, tnow, holder, until,
          fresh, waited, epoch, born, coarse, used, faults>>

environment == <<now, live, issued, epoch, used, coarse>>
locals      == <<seen, tnow, holder, until, fresh, waited, born>>

Tokens == [rt : Nat, exp : Nat]

\* is_expired: the skew is added to the caller's clock.
Expired(token, t) == t + Skew >= token.exp

\* Mutant of HolderId: no holder id is generated.
HolderIdMissing(c, t) == NoLease

\* new_id("lease", key + str(now)): the id is a function of the key and the
\* instant alone, so callers that read one instant share it.
HolderId(c, t) == <<t, IF coarse THEN NoLease ELSE c>>

Labels == {"idle", "check", "clock", "acquire", "reread", "recheck", "call",
           "write", "release", "poll", "pollcheck", "pollheld"}

\* The caller believes it owns the lease: from a successful acquire to the
\* finally clause.
Owning == {"reread", "recheck", "call", "write", "release"}
InLease(c) == pc[c] \in Owning

\* The caller has read the token it is about to spend, or has spent it.
Refreshing == {"recheck", "call", "write"}

(***************************************************************************)
(* The circumstances a guarantee may have to exclude.                      *)
(*   overrun    an owner outlived its lease                                *)
(*   lostreply  the provider rotated but the answer never arrived          *)
(*   death      a caller died with a refresh under way                     *)
(*   overwrite  a reconnect or import landed while a refresh was under way *)
(*   revoke     a revoke landed while somebody owned the lease             *)
(***************************************************************************)
Faults == {"overrun", "lostreply", "death", "overwrite", "revoke"}

SharedOK ==
  /\ now \in Nat
  /\ conn \in {NoConn} \cup Tokens
  /\ lease \in LeaseRows(Nat \X ({NoLease} \cup Callers))
  /\ live \subseteq 1..issued
  /\ issued \in Nat
  /\ epoch \in Nat
  /\ used \in Nat
  /\ coarse \in BOOLEAN
  /\ faults \subseteq Faults

LocalsOK ==
  /\ pc \in [Callers -> Labels]
  /\ seen \in [Callers -> {NoConn} \cup Tokens]
  /\ tnow \in [Callers -> Nat]
  /\ holder \in [Callers -> Nat \X ({NoLease} \cup Callers)]
  /\ until \in [Callers -> Nat]
  /\ fresh \in [Callers -> {NoConn} \cup Tokens]
  /\ waited \in [Callers -> Nat]
  /\ born \in [Callers -> Nat]

TypeOK == SharedOK /\ LocalsOK

-----------------------------------------------------------------------------
(* What a caller does. *)

\* The caller returns or raises; its locals are forgotten.
Leave(c) ==
  /\ pc' = [pc EXCEPT ![c] = "idle"]
  /\ seen' = [seen EXCEPT ![c] = NoConn]
  /\ tnow' = [tnow EXCEPT ![c] = 0]
  /\ holder' = [holder EXCEPT ![c] = <<0, NoLease>>]
  /\ until' = [until EXCEPT ![c] = 0]
  /\ fresh' = [fresh EXCEPT ![c] = NoConn]
  /\ waited' = [waited EXCEPT ![c] = 0]
  /\ born' = [born EXCEPT ![c] = 0]

Goto(c, label) == pc' = [pc EXCEPT ![c] = label]

\* conn = store.get_connection(key); a missing connection raises KeyError.
Begin(c) ==
  /\ pc[c] = "idle"
  /\ seen' = [seen EXCEPT ![c] = conn]
  /\ Goto(c, IF conn = NoConn THEN "idle" ELSE "check")
  /\ UNCHANGED <<environment, conn, lease, faults, tnow, holder, until,
                 fresh, waited, born>>

\* A token that is not expired is returned at once; otherwise the instant
\* just read becomes the seed of the holder id.
Check(c) ==
  /\ pc[c] = "check"
  /\ \/ /\ ~Expired(seen[c], now)
        /\ Leave(c)
     \/ /\ Expired(seen[c], now)
        /\ holder' = [holder EXCEPT ![c] = HolderId(c, now)]
        /\ seen' = [seen EXCEPT ![c] = NoConn]
        /\ Goto(c, "clock")
        /\ UNCHANGED <<tnow, until, fresh, waited, born>>
  /\ UNCHANGED <<environment, conn, lease, faults>>

\* now = now_fn(), read before the store is entered.
ReadClock(c) ==
  /\ pc[c] = "clock"
  /\ tnow' = [tnow EXCEPT ![c] = now]
  /\ Goto(c, "acquire")
  /\ UNCHANGED <<environment, conn, lease, faults, seen, holder, until,
                 fresh, waited, born>>

\* acquire_lease succeeds with the instant read before.  A caller held up for
\* a whole LeaseTTL in between owns a lease that has already run out.
Acquire(c) ==
  /\ pc[c] = "acquire"
  /\ Takes(lease, tnow[c])
  /\ lease' = Leased(holder[c], tnow[c] + LeaseTTL)
  /\ until' = [until EXCEPT ![c] = tnow[c] + LeaseTTL]
  /\ born' = [born EXCEPT ![c] = epoch]
  /\ tnow' = [tnow EXCEPT ![c] = 0]
  /\ waited' = [waited EXCEPT ![c] = 0]
  /\ Goto(c, "reread")
  /\ faults' = IF tnow[c] + LeaseTTL <= now THEN faults \cup {"overrun"}
                                            ELSE faults
  /\ UNCHANGED <<environment, conn, seen, holder, fresh>>

\* acquire_lease answers FALSE: wait.  Waiting time is left, for wait_timeout is
\* positive and PollHeld retries only a call that has some.
Refused(c) ==
  /\ pc[c] = "acquire"
  /\ ~Takes(lease, tnow[c])
  /\ tnow' = [tnow EXCEPT ![c] = 0]
  /\ Goto(c, "poll")
  /\ UNCHANGED <<environment, conn, lease, faults, seen, holder, until, fresh,
                 waited, born>>

\* The second read of the double check, under the lease.  If the connection
\* was revoked meanwhile, conn.token raises and the finally clause releases.
Reread(c) ==
  /\ pc[c] = "reread"
  /\ seen' = [seen EXCEPT ![c] = conn]
  /\ Goto(c, IF conn = NoConn THEN "release" ELSE "recheck")
  /\ UNCHANGED <<environment, conn, lease, faults, tnow, holder, until,
                 fresh, waited, born>>

\* Another writer already refreshed: return its token, else go on to spend
\* the one just read.  This instant also dates the new token's expiry.
Recheck(c) ==
  /\ pc[c] = "recheck"
  /\ \/ /\ Expired(seen[c], now)
        /\ tnow' = [tnow EXCEPT ![c] = now]
        /\ Goto(c, "call")
        /\ UNCHANGED seen
     \/ /\ ~Expired(seen[c], now)
        /\ seen' = [seen EXCEPT ![c] = NoConn]
        /\ Goto(c, "release")
        /\ UNCHANGED tnow
  /\ UNCHANGED <<environment, conn, lease, faults, holder, until, fresh,
                 waited, born>>

\* Mutant of Rotate: the finally clause covers only the provider call, so the
\* lease is returned before the token is written.
RotateThenRelease(c) ==
  /\ pc[c] = "call"
  /\ seen[c].rt \in live
  /\ issued' = issued + 1
  /\ live' = (live \ {seen[c].rt}) \cup {issued + 1}
  /\ fresh' = [fresh EXCEPT ![c] =
                 [rt |-> issued + 1, exp |-> tnow[c] + Lifetime]]
  /\ seen' = [seen EXCEPT ![c] = NoConn]
  /\ tnow' = [tnow EXCEPT ![c] = 0]
  /\ lease' = AfterRelease(lease, holder[c])
  /\ Goto(c, "write")
  /\ UNCHANGED <<now, epoch, used, coarse, conn, faults, holder, until, waited,
                 born>>

\* provider.refresh: the provider accepts the refresh token, spends it and
\* mints the next one; the answer is on its way.
Rotate(c) ==
  /\ pc[c] = "call"
  /\ seen[c].rt \in live
  /\ issued' = issued + 1
  /\ live' = (live \ {seen[c].rt}) \cup {issued + 1}
  /\ fresh' = [fresh EXCEPT ![c] =
                 [rt |-> issued + 1, exp |-> tnow[c] + Lifetime]]
  /\ seen' = [seen EXCEPT ![c] = NoConn]
  /\ tnow' = [tnow EXCEPT ![c] = 0]
  /\ Goto(c, "write")
  /\ UNCHANGED <<now, epoch, used, coarse, conn, lease, faults, holder, until,
                 waited, born>>

\* Mutant of RefreshFails: a failed refresh puts the token it had read back.
RefreshFailsRestores(c) ==
  /\ pc[c] = "call"
  /\ conn' = seen[c]
  /\ seen' = [seen EXCEPT ![c] = NoConn]
  /\ tnow' = [tnow EXCEPT ![c] = 0]
  /\ Goto(c, "release")
  /\ UNCHANGED <<environment, lease, faults, holder, until, fresh, waited,
                 born>>

\* provider.refresh raises without having rotated: the provider is down, or
\* it rejects a spent refresh token.
RefreshFails(c) ==
  /\ pc[c] = "call"
  /\ seen' = [seen EXCEPT ![c] = NoConn]
  /\ tnow' = [tnow EXCEPT ![c] = 0]
  /\ Goto(c, "release")
  /\ UNCHANGED <<environment, conn, lease, faults, holder, until, fresh,
                 waited, born>>

\* provider.refresh raises although the provider rotated: the answer is lost
\* or comes after the HTTP timeout.
LoseReply(c) ==
  /\ pc[c] = "write"
  /\ Goto(c, "release")
  /\ fresh' = [fresh EXCEPT ![c] = NoConn]
  /\ faults' = faults \cup {"lostreply"}
  /\ UNCHANGED <<environment, conn, lease, seen, tnow, holder, until, waited,
                 born>>

\* Mutant of WriteToken: only the access token is updated, the refresh token
\* that came with it is dropped.
WriteTokenKeepsRefresh(c) ==
  /\ pc[c] = "write"
  /\ conn' = IF conn = NoConn THEN NoConn ELSE [fresh[c] EXCEPT !.rt = conn.rt]
  /\ fresh' = [fresh EXCEPT ![c] = NoConn]
  /\ Goto(c, "release")
  /\ UNCHANGED <<environment, lease, faults, seen, tnow, holder, until, waited,
                 born>>

\* write_token: an UPDATE of the stored row whoever owns the lease now; of a
\* row that is gone it changes nothing.
WriteToken(c) ==
  /\ pc[c] = "write"
  /\ conn' = IF conn = NoConn THEN NoConn ELSE fresh[c]
  /\ fresh' = [fresh EXCEPT ![c] = NoConn]
  /\ Goto(c, "release")
  /\ UNCHANGED <<environment, lease, faults, seen, tnow, holder, until, waited,
                 born>>

\* Mutant of Release: the row is deleted whoever it names.
ReleaseByAnyone(c) ==
  /\ pc[c] = "release"
  /\ lease' = NoLease
  /\ Leave(c)
  /\ UNCHANGED <<environment, conn, faults>>

\* The finally clause: release_lease by holder id, then return or re-raise.
Release(c) ==
  /\ pc[c] = "release"
  /\ lease' = AfterRelease(lease, holder[c])
  /\ Leave(c)
  /\ UNCHANGED <<environment, conn, faults>>

\* sleep(poll), then read again; a connection revoked meanwhile raises.
Poll(c) ==
  /\ pc[c] = "poll"
  /\ \/ /\ conn # NoConn
        /\ seen' = [seen EXCEPT ![c] = conn]
        /\ waited' = [waited EXCEPT ![c] = @ + 1]
        /\ Goto(c, "pollcheck")
        /\ UNCHANGED <<tnow, holder, until, fresh, born>>
     \/ /\ conn = NoConn
        /\ Leave(c)
  /\ UNCHANGED <<environment, conn, lease, faults>>

\* Return the token another writer published, else look at the lease.
PollCheck(c) ==
  /\ pc[c] = "pollcheck"
  /\ \/ /\ ~Expired(seen[c], now)
        /\ Leave(c)
     \/ /\ Expired(seen[c], now)
        /\ seen' = [seen EXCEPT ![c] = NoConn]
        /\ tnow' = [tnow EXCEPT ![c] = now]
        /\ Goto(c, "pollheld")
        /\ UNCHANGED <<holder, until, fresh, waited, born>>
  /\ UNCHANGED <<environment, conn, lease, faults>>

\* Mutant of PollHeld: the waiting time starts afresh with every retry.
PollHeldAfresh(c) ==
  /\ pc[c] = "pollheld"
  /\ \/ /\ waited[c] < WaitTimeout
        /\ tnow' = [tnow EXCEPT ![c] = 0]
        /\ LET held == Held(lease, tnow[c]) IN
             /\ Goto(c, IF held THEN "poll" ELSE "clock")
             /\ waited' = [waited EXCEPT ![c] = IF held THEN @ ELSE 0]
        /\ UNCHANGED <<seen, holder, until, fresh, born>>
     \/ /\ waited[c] >= WaitTimeout
        /\ Leave(c)
  /\ UNCHANGED <<environment, conn, lease, faults>>

\* While the lease is held, poll again; once it is free, break and retry the
\* acquire.  Either way TimeoutError once the waiting time is used up.
PollHeld(c) ==
  /\ pc[c] = "pollheld"
  /\ \/ /\ waited[c] < WaitTimeout
        /\ tnow' = [tnow EXCEPT ![c] = 0]
        /\ Goto(c, IF Held(lease, tnow[c]) THEN "poll" ELSE "clock")
        /\ UNCHANGED <<seen, holder, until, fresh, waited, born>>
     \/ /\ waited[c] >= WaitTimeout
        /\ Leave(c)
  /\ UNCHANGED <<environment, conn, lease, faults>>

-----------------------------------------------------------------------------
(* What happens around the callers. *)

Tick ==
  /\ now < MaxTime
  /\ now' = now + 1
  /\ faults' = IF \E c \in Callers : InLease(c) /\ until[c] <= now + 1
                 THEN faults \cup {"overrun"} ELSE faults
  /\ UNCHANGED <<conn, lease, live, issued, epoch, used, coarse, pc, locals>>

\* finish_connect or import_connection: put_connection of a token from a new
\* authorization, without the lease.  An import may bring an expired token.
\* The provider may drop the refresh tokens of earlier authorizations, as the
\* Fortnox runbook warns, or keep them.
Reconnect(exp) ==
  /\ used < MaxDisturbances
  /\ used' = used + 1
  /\ issued' = issued + 1
  /\ \E kept \in {live, {}} : live' = kept \cup {issued + 1}
  /\ conn' = [rt |-> issued + 1, exp |-> exp]
  /\ faults' = IF \E c \in Callers : pc[c] \in Refreshing
                 THEN faults \cup {"overwrite"} ELSE faults
  /\ UNCHANGED <<now, lease, epoch, coarse, pc, locals>>

\* revoke: delete_connection also deletes the lease row, whoever holds it.
Revoke ==
  /\ used < MaxDisturbances
  /\ conn # NoConn
  /\ used' = used + 1
  /\ conn' = NoConn
  /\ lease' = NoLease
  /\ epoch' = epoch + 1
  /\ faults' = IF \E c \in Callers : InLease(c)
                 THEN faults \cup {"revoke"} ELSE faults
  /\ UNCHANGED <<now, live, issued, coarse, pc, locals>>

\* The caller's process dies.  Its lease row stays until it runs out.
Die(c) ==
  /\ used < MaxDisturbances
  /\ pc[c] # "idle"
  /\ used' = used + 1
  /\ faults' = IF pc[c] \in {"call", "write"}
                 THEN faults \cup {"death"} ELSE faults
  /\ Leave(c)
  /\ UNCHANGED <<now, live, issued, epoch, coarse, conn, lease>>

-----------------------------------------------------------------------------

\* A connection exists, its token already expired or soon to be.
Init ==
  /\ now = 0
  /\ conn \in [rt : {1}, exp : {Skew, Skew + 1}]
  /\ lease = NoLease
  /\ issued = 1
  /\ live = {1}
  /\ pc = [c \in Callers |-> "idle"]
  /\ seen = [c \in Callers |-> NoConn]
  /\ tnow = [c \in Callers |-> 0]
  /\ holder = [c \in Callers |-> <<0, NoLease>>]
  /\ until = [c \in Callers |-> 0]
  /\ fresh = [c \in Callers |-> NoConn]
  /\ waited = [c \in Callers |-> 0]
  /\ epoch = 0
  /\ born = [c \in Callers |-> 0]
  /\ used = 0
  /\ coarse \in BOOLEAN
  /\ faults = {}

\* A step of a call that has begun; each is the caller's own next statement.
Step(c) ==
  \/ Check(c)
  \/ ReadClock(c)
  \/ Acquire(c)
  \/ Refused(c)
  \/ Reread(c)
  \/ Recheck(c)
  \/ Rotate(c)
  \/ RefreshFails(c)
  \/ LoseReply(c)
  \/ WriteToken(c)
  \/ Release(c)
  \/ Poll(c)
  \/ PollCheck(c)
  \/ PollHeld(c)

Next ==
  \/ \E c \in Callers : Begin(c) \/ Step(c) \/ Die(c)
  \/ Tick
  \/ \E exp \in {now, now + Lifetime} : Reconnect(exp)
  \/ Revoke

Spec == Init /\ [][Next]_vars

\* The thread pool runs every worker thread and HTTP calls time out, so a
\* call that has begun keeps taking steps.  Nothing else is fair: no caller
\* has to begin, the clock may stand still, no disturbance has to happen.
FairSpec == Spec /\ \A c \in Callers : WF_vars(Step(c))

-----------------------------------------------------------------------------
(* The lease row against the lease it is meant to be: an owner is valid until *)
(* the connection is revoked under it.                                        *)

Service == INSTANCE LeaseService WITH
  Clients <- Callers,
  Ids     <- [c \in Callers |-> (0..MaxTime) \X {NoLease, c}],
  TTL     <- LeaseTTL,
  owner   <- {c \in Callers : InLease(c)},
  valid   <- {c \in Callers : InLease(c) /\ born[c] = epoch},
  id      <- [c \in Callers |-> IF InLease(c) THEN holder[c] ELSE NoLease]

-----------------------------------------------------------------------------
(* Properties. *)

\* Every step of refresh_if_needed, of a revoke and of a death is a step of the
\* abstract lease or leaves it alone: the refresh loop never touches the lease
\* row but through a grant, the return of its own grant, or a deletion.
ImplementsLease == Service!Spec

\* No two callers own unexpired leases on one incarnation of the connection
\* (refresh_if_needed under acquire_lease).  Expired owners, late releases,
\* deaths, imports and revokes are all allowed; the only thing excluded is two
\* callers that seeded their holder ids with the same instant (coarse) AND
\* something went wrong: the late release of the one would then drop the lease
\* of the other.
OneLiveOwner ==
  ~coarse \/ faults = {} =>
    \A c, d \in Callers :
      (/\ InLease(c) /\ until[c] > now /\ born[c] = epoch
       /\ InLease(d) /\ until[d] > now /\ born[d] = epoch) => c = d

\* As long as nothing has gone wrong, a caller about to call the provider
\* presents a refresh token that is still unspent: the double check of
\* refresh_if_needed keeps two callers from spending the same one.
NoSpentTokenPresented ==
  faults = {} => \A c \in Callers : pc[c] = "call" => seen[c].rt \in live

\* As long as nothing has gone wrong, the stored refresh token is one the
\* provider accepts, except between the rotation and write_token: no
\* interleaving loses the rotated token.
StoredTokenIsLive ==
  faults = {} /\ conn # NoConn /\ (\A c \in Callers : pc[c] # "write")
    => conn.rt \in live

\* Whatever the leases do, write_token never puts an older refresh token over
\* a newer one unless a reconnect or a revoke landed in mid-refresh: with
\* single-use refresh tokens a late writer has nothing to write.
StoreNeverGoesBack ==
  [][(/\ faults' \cap {"overwrite", "revoke"} = {}
      /\ conn # NoConn /\ conn' # NoConn) => conn'.rt >= conn.rt]_vars

\* Every call returns or raises: waiting is bounded by wait_timeout over all the
\* polls and retries of the call, even when the lease is free at every poll and
\* other callers keep winning it before the retry (the loop of
\* refresh_if_needed, in which waited is not reset).
EveryCallEnds ==
  \A c \in Callers : pc[c] # "idle" ~> pc[c] = "idle"

-----------------------------------------------------------------------------
(* Inductive strengthenings, used by VaultRefreshProofs. *)

\* An owner of an unexpired lease on this incarnation is the one the lease row
\* names, for holder ids that no other caller can have.
RowNamesOwner ==
  ~coarse =>
    \A c \in Callers :
      /\ pc[c] \notin {"idle", "check"} => holder[c][2] = c
      /\ InLease(c) /\ until[c] > now /\ born[c] = epoch
           => lease = Leased(holder[c], until[c])

\* As long as nothing has gone wrong there is at most one owner, and the lease
\* row is its own and unexpired.
SoleOwner ==
  faults = {} =>
    /\ \A c, d \in Callers : InLease(c) /\ InLease(d) => c = d
    /\ \A c \in Callers : InLease(c) =>
         until[c] > now /\ lease = Leased(holder[c], until[c])

\* Clock readings and epochs are never ahead of the present.
NothingAhead ==
  \A c \in Callers : tnow[c] <= now /\ born[c] <= epoch

LeaseInv == RowNamesOwner /\ SoleOwner /\ NothingAhead

\* As long as nothing has gone wrong, the token an owner works on is the
\* stored one, and the token it is about to write is live.
OwnerReadsStored ==
  faults = {} =>
    \A c \in Callers :
      /\ pc[c] \in {"recheck", "call"} => conn # NoConn /\ seen[c] = conn
      /\ pc[c] = "write" => /\ fresh[c] # NoConn
                            /\ fresh[c].rt \in live

TokenInv == OwnerReadsStored /\ StoredTokenIsLive

\* Even with expired owners: unless a reconnect or a revoke landed in
\* mid-refresh, what a caller has read is never newer than what is stored, a
\* read that is older than the stored token is spent, and at most one caller
\* has a rotated token to write, newer than the stored one, which it spent.
LineageInv ==
  faults \cap {"overwrite", "revoke"} = {} =>
    /\ conn # NoConn => conn.rt <= issued
    /\ \A c \in Callers :
         /\ pc[c] \in {"recheck", "call"} =>
              /\ conn # NoConn /\ seen[c] # NoConn
              /\ seen[c].rt <= conn.rt
              /\ seen[c].rt \in live => seen[c].rt = conn.rt
         /\ pc[c] = "write" =>
              /\ conn # NoConn /\ fresh[c] # NoConn
              /\ conn.rt < fresh[c].rt /\ fresh[c].rt <= issued
              /\ conn.rt \notin live
              /\ \A d \in Callers : pc[d] = "write" => d = c

=============================================================================
