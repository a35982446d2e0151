# Verification of islands-kernel

The islands kernel is three small services that a fleet of "islands" shares: an
**identity service** that signs principals in and mints kernel JWTs, a
**vault** that holds provider connections (Fortnox, Gmail) and hands out access
tokens, and an **event bus** that records events and pushes them to
subscribers. Two of them rest on one idea, the *single-writer lease*: a row or
file that lets one caller at a time refresh a rotating token, or deliver an
event. This directory models the parts of the kernel in which order,
concurrency and failure matter, checks them with TLC on small instances, and
proves the most important results with TLAPS for every instance.

Paths below are relative to the repository root (`vault/refresh.py` is the
file of that name). Findings are collected near the end.

## 1. Inventory

| component | state | operations | what is hard | what makes it correct |
|---|---|---|---|---|
| single-writer lease table (`vault/store/{memory,server}.py`, `bus/store/*`) | one row (holder, until) per key | `acquire_lease`, `release_lease`, `lease_held`, deletion with what it protects | the caller passes a clock reading that may be old; holder ids; late releases | at most one owner of an unexpired lease |
| token refresh (`vault/refresh.py`) | stored connection, provider's live refresh tokens, locals of each caller | `refresh_if_needed` | two callers between any two statements; exchange longer than the lease; lost answers; death; reconnect or revoke in mid-refresh | one owner; no spent refresh token is presented; the rotated token is never lost; every call ends |
| lock file (`vault/store/local_file.py`) | one file per key | link, replace, unlink, read | each is a system call of its own and only link is exclusive | as for the table, with weaker premises |
| local records (`vault/store/local_file.py`) | record, sealed token, lock: separate files, and one temporary file all writers share | put, get, write_token, delete | no common transaction; a death between two system calls; a revoke under a refresh | a torn file has a writer; between calls record and token belong together |
| event bus and dispatcher (`bus/service.py`, `bus/dispatch.py`) | events, subscriptions, delivery rows, lease rows | publish, replay, subscribe, unsubscribe, attempt | repeated publishes, overlapping replays, lost answers, leases that run out, restarts | first attempts are undisturbed; handled at most once; rows move forward; every match is attempted |
| bus routes, envelope, schemas, provisioning | none | checks before publish | – | a refused publish changes nothing |
| connection access (`vault/access.py`, `vault/grants.py`) | connections and grants | get_access_token, grant, revoke, import, connect, list | the check reads owner, vault rows and identity grants at three moments, and the token at a fourth | nobody is answered who was never entitled |
| vault routes and kernel authorization (`vault/app.py`, `vault/kernel_auth.py`) | cached JWKS | verify, authorize | sync routes run in threads, async routes one by one; a cache that lives as long as the process | rotation and revocation take effect in bounded time or at a restart |
| identity OAuth server and federation (`identity/oauth/*`, `identity/federation/*`) | transactions, links, principals, codes, token rows | start, callback, code, redeem, refresh | repeated callbacks, two handlers on one code, crash between two writes, lost answers | one session per login; no half principal; a rotated token is dead; a session survives a crash |
| kernel JWTs, keys, authorize (`identity/jwt_*.py`, `identity/keys.py`, `identity/authorize.py`) | the signing key | mint, verify, authorize | key replacement while tokens and documents are cached | expiry bounds the life of everything minted |
| client libraries (`libs/*`) | cached kernel JWT (`KernelAuthTransport`) | `access` | threads share a transport without a lock | what is presented has not run out |
| capture bridge and soak (`capture_bridge/*`, `deploy/soak_boot.py`) | soak.log, raw/inbox; a ledger that lives one boot | resolve, classify, route, log | two subprocess calls that take longer than the bus lease; subscriptions listed without the lock; a boot in between | a message is observed once per boot; log and inbox agree; nothing lands in the live vault |
| provisioning (`scripts/kernel_provision.py`, `deploy/soak_provision.py`, `identity/service_principal.py`, `deploy/deploy.sh`) | principals, memberships, tokens, grants; the credential file and the secret store | one run, fetch, exchange | several store calls without a transaction, reruns, failures half way, an exchange that reads in between | what is handed out works; no empty secret; a JWT is whole |
| dry runs (`deploy/dryrun.py`, `deploy/connector_dryrun.py`) | – | drive the services once, in one thread | – | – |

How they interact. A client's transport exchanges a credential for a JWT at
identity and presents it to the vault or the bus, which verify it offline. The
vault authorizes the principal against its own grants and identity's, then
calls `refresh_if_needed`, which uses the lease and the provider. A producer
publishes to the bus, whose dispatcher takes one lease per delivery and calls
the subscriber, the capture bridge for instance, and waits for it.

How they are served. `deploy/run-service.sh` starts one uvicorn process per
service. The access-token routes of the vault are plain `def`, so Starlette
runs them in its thread pool, on purpose (`docs/server-posture-vault.md:49-55`);
the other routes of the vault and all routes of identity are `async def` around
blocking code, so the event loop runs their bodies one at a time. The identity
store is nevertheless made for threads (`tests/test_identity_store_concurrency.py`),
and the lease for several processes. The models assume no more serialization
than the component itself claims: VaultRefresh, BusDispatch and IdentityLogin
let all callers interleave, VaultAccess runs the managing routes one by one
because the code relies on it.

## 2. Modules

| module | models | state and actions |
|---|---|---|
| `LeaseTable` | one lease row, as both stores of the vault and both of the bus keep it | pure operators: `Takes`, `Leased`, `AfterRelease`, `Held` |
| `LeaseService` | **abstract specification**: what the lease promises | `Grant`, `Return`, `Die`, `Drop`, `Tick` |
| `VaultRefresh` | `refresh_if_needed` over ServerStore, one action per store call, clock read or exchange; provider, reconnect, revoke, death around it | `pc[c]` is the statement caller c is at; `conn`, `lease` are the rows; `live` the refresh tokens the provider accepts |
| `BusDispatch` | publish, replay, subscribe, unsubscribe and `_attempt`, one action per ledger call; restart | `row[k]`, `lease[k]` per delivery; `pc`, `todo`, `sub` the locals of a worker |
| `FileLease` | the lock file, one action per system call | `lock` is the file; `pc[p]` the call process p is at |
| `FileStore` | extends `FileLease`: the record, token and temporary files around the lock, one action per system call, deaths between any two | `rec`, `tok`, `tmp` the files; `step[p]`, `fd[p]`, `held[p]` where process p is, what it has open and in hand |
| `IdentityLogin` | a browser login from transaction to token rotation, one action per store write or remote call; crashes | one variable per table; `job[h]` the locals of handler h |
| `KernelAuth` | how a request gets past the door: `KernelAuthTransport`, `/auth/exchange`, verification against the cached JWKS | `client` the transport's two fields, written one at a time; `jwks` the cache; `call` the locals |
| `VaultAccess` | who is let at a connection: the check over two grant stores, and the routes that change connection or grants | `conn`, `vgrants`, `igrants`; `call[c]` an access-token call, `route` the request on the event loop |
| `CaptureSoak` | extends `BusDispatch`: the bus as `soak_boot` serves it, in memory, with the capture bridge's handler inside a delivery, one action per call that leaves the process | `at[w]` the call thread w is at inside a delivery; `inbox`, `lines` what was written; `own` the boot's own subscription |
| `Provision` | the provisioning scripts as processes, one action per store call; the operator who fetches, deactivates, revokes; the exchange, one action per read | `pc[r]` the call run r is at; one variable per table; `file`, `secret` where the credential is |
| `LeaseServiceProofs`, `VaultRefreshProofs`, `BusDispatchProofs`, `FileStoreProofs`, `IdentityLoginProofs`, `KernelAuthProofs`, `VaultAccessProofs`, `ProvisionProofs` | theorems | – |
| `MC*` | instances for TLC: the symmetry sets; constants are in the `.cfg` files | – |

The modules meet at one point each. `VaultRefresh`, `BusDispatch` and
`FileLease` contain `Service == INSTANCE LeaseService WITH ...` and are shown
to implement it. `CaptureSoak` composes the bus with a subscriber: its actions
are those of `BusDispatch`, taken apart where the in-memory ledger or the
handler does more than one thing. `FileStore` composes the lock with what it
protects. The step that `VaultAccess` calls `Refresh` is the whole of
`VaultRefresh`; the state `KernelAuth` calls `accepted` is where `VaultAccess`
starts.

Definitions whose comment begins with "Mutant of" are not part of the model:
each is a plausible bug, used to see that a property notices it.

Variables marked *(history)* record what happened so that a property can name
it, and no action reads them in its guard; variables marked *(bound)* keep TLC
finite. `faults`, `tworenew` and `ever` are of the first kind: a guarantee that
the code gives only outside certain circumstances states them as its premise,
and each premise is as narrow as TLC allowed. For instance
`OneLiveOwner`: a holder id is a function of the key and the instant
(`vault/model.py:10-11`). Where no two callers read the same instant, the
property holds through deaths, overruns, late releases, imports and revokes
without a premise; where two may, and then share an id, it excludes every one of
these. `coarse`, chosen once in `Init`, says which of the two clocks it is; TLC
and the theorems take both.

## 3. Runs

State counts are distinct states, after symmetry where it is used. Symmetry is
used for safety only.

| run | checks | instance | states |
|---|---|---|---|
| `vault_refresh` | type, exclusion, no spent token presented, rotated token not lost, the store never goes back, every call ends, VaultRefresh implements LeaseService | 2 callers, both kinds of clock, lease 1, wait 2, clock to 1, 1 disturbance, fair | 598,233 |
| `bus_dispatch` | first attempts alone, handled once, rows move forward, every match is attempted, each delivery's lease implements LeaseService | 2 workers, 1 event, 2 subscriptions, both kinds of policy, 1 replay, 1 crash, lost answers, lease 1, clock to 1, fair | 190,444 |
| `file_store` | type, single writer, a torn file has its writer, settled files agree, lock file implements LeaseService outside three circumstances | 2 processes, lease 1, clock to 1, 1 death, 1 deletion, 2 puts | 1,470,762 |
| `identity_login` | type, one session per login, no half principal, one principal per user, one usable pair, session survives, rotated tokens stay dead | 2 handlers, 2 logins, 2 users, 2 refreshes, 1 crash | 140,854 |
| `kernel_auth` | type, fresh bearer, dead credential runs out, rotation takes effect | 2 threads of 1 client, 2 clock readings to the second, JWT life 4, skew 3, clock to 5, 2 changes | 4,693,002 |
| `vault_access` | type, entitled answer, route is managed | 2 calls, 2 principals, 4 changes | 1,075,316 |
| `provision` | type, what is handed out works, the secret is never empty, a minted JWT is whole | 3 runs of 2 principals, 1 cut, credential life 1, clock to 1 | 446,671 |
| `capture_soak` | type, seen once per boot, log and inbox agree, accepted is observed, the live vault is untouched | 2 threads, 1 event, 3 subscriptions (2 to the bridge), 1 replay, 1 boot, lost answers, lease 1, clock to 1 | 706,862 |
| `bus_double_delivery` | *violated*: never double-delivered | 2 workers, 1 subscription | 31-state trace |
| `bus_pending_stuck` | *violated*: a pending delivery is settled | 2 workers, 1 subscription, 2 attempts allowed | 15-state trace, then stuttering under fairness |
| `file_stealers` | *violated*: exactly one stealer wins | 3 processes, lease 2, clock to 5 | 16-state trace |
| `file_revoked` | *violated*: the sealed token is gone after a revoke | 2 processes, 1 deletion, no death | 26-state trace |

Why these bounds are enough to be interesting. Every hazard listed in
`PROJECT.json` needs at most two actors in the code they share, a third only
where two rivals meet an owner (`file_stealers`) or where two runs of one
principal meet a run of another (`provision`). With lease 1 and clock 1 a lease
runs out while its owner works and another is taken, and a reading of the clock
made before the tick is used after it. With `WaitTimeout` 2 a waiter polls, sees
the lease free, loses it to another caller, polls again and gives up; a lease
that stays held for two polls is the other way to the end. With 2 readings to
the second, JWTs are minted at and between whole seconds, so identity's
`int(now)` and the client's `now` differ; skew 3 is longer than that second and
shorter than the JWT's life. One disturbance already meets every
other step at every point, and the proofs allow any number, any clock and any
lease. Larger instances of the same modules passed while the project was built:
`VaultRefresh` with lease 2, clock 3, wait 1 and one kind of clock (2.2 million states), `BusDispatch`
with two replays (1.4 million), `FileLease` alone with three processes
(831,466), `IdentityLogin` with 3 refreshes and 2 crashes (1.2 million). Two
subscriptions are needed to interrupt an iteration; `capture_soak` adds the one
that the boot puts, and lets subscriptions change under an unlocked listing (one
that came and went between two steps of the iterator counts as no change; the
bridge's own stands first in the dictionary and is not affected).
Two policies, because `max_attempts = 1` and `> 1` take different branches. Two
puts are a first connection and an import over it. Four changes in
`vault_access` are an import, a grant, its revocation and a second import.
`RealVaults` holds every relation the live vault's path can have to the
observation vault's: beside, above, equal, below, not named.

With one replay `HandledOnce` meets a replay that races a publish, a restart
and a lost answer, but not two replays one after the other; the theorem
`HandledAtMostOnce` does, for any number.

Deadlock checking is on in every run but `provision`: there every process is a
script, which ends. In the others the clock stops at its bound, but a new
request can always be made.

### Fairness

`FairSpec` asserts weak fairness of `Step(c)` for each caller or worker and
nothing else: a call that has begun keeps taking its next statement, because the
thread pool runs every worker thread and every blocking call in them times out
(`vault/config.py:11`, `bus/dispatch.py:116`, `capture_bridge/classify.py:14`;
the store mutex is held for one statement). No request has to arrive, the clock need not move, no provider has
to succeed, no disturbance has to occur. `EveryCallEnds` therefore holds by the
bounded wait of the loop, over retries that somebody else wins (`Refused` goes
back to waiting and `waited` is kept), and not because somebody else lets go.

### Mutants

For every property of every passing run `PROJECT.json` names a mutant of a
mapped definition, a plausible bug with which TLC finds the property violated.

## 4. Proofs

| module | theorem | says |
|---|---|---|
| `LeaseServiceProofs` | `TypeCorrect`, `RowInvariant`, `Exclusion` | the abstract lease has at most one valid, unexpired owner |
| `VaultRefreshProofs` | `TypeCorrect`, `LeaseInvariant`, `SingleWriter`, `TokenInvariant`, `NoSpentToken`, `RotationNotLost`, `LineageInvariant`, `StoreMonotone`, `ServiceInvariant`, `Refinement` | every safety property of `vault_refresh`; VaultRefresh implements LeaseService |
| `BusDispatchProofs` | `BusTypeCorrect`, `PublishGate`, `FirstInvariant`, `FirstAttempts`, `OnceInvariant`, `HandledAtMostOnce`, `DeliveryRowsMoveForward`, `BusLeaseInvariant`, `SingleDispatcher`, `BusRefinement`; `SoakInvariant`, `SoakTypeCorrect`, `SeenOnce`, `LogMatchesInbox`, `Observed`, `RealVaultSafe`, `LeftOutSafely` | every safety property of `bus_dispatch`; one live dispatcher per delivery; BusDispatch implements LeaseService on every delivery; every property of the soak, which extends the bus |
| `FileStoreProofs` | `StoreTypeCorrect`, `LockInvariant`, `FileExclusion`, `FileRefinement`, `StepInvariant`, `TornWriter`, `SettledInvariant`, `SettledFiles` | every property of `file_store`; the lock file implements LeaseService |
| `IdentityLoginProofs` | `TypeCorrect`, `LoginInvariant`, `SessionPerLogin`, `NamesInvariant`, `CompletePrincipals`, `RotationInvariant`, `RotatedDead`, `PersonInvariant`, `OneUserIsOnePrincipal`, `LineageInvariant`, `UsableInvariant`, `UsablePairOnce`, `SessionKept` | every property of `identity_login` |
| `KernelAuthProofs` | `TypeCorrect`, `KeyInvariant`, `Rotation`, `AgeInvariant`, `DeadCredential`, `RenewInvariant`, `Fresh` | every property of `kernel_auth` |
| `VaultAccessProofs` | `AccessTypeCorrect`, `ManagedRoute`, `Entitled` | every property of `vault_access` |
| `ProvisionProofs` | `ProvisionTypeCorrect`, `RunInvariant`, `HandedOut`, `DueInvariant`, `SecretNeverEmpty`, `ExchangeInvariant`, `MintIsWhole` | every property of `provision` |

Assumptions: `ConstantsOK`, `NoLeaseIsNoRow`, `BusConstantsOK`, `NoRowIsNoRow`,
`LoginConstantsOK`, `AuthConstantsOK`, `AccessConstantsOK`, `FileConstantsOK`,
`StoreConstantsOK`, `ProvisionConstantsOK`, `SoakConstantsOK` (ASSUMEd, and evaluated by TLC in the
runs) and the definition `ServiceConstantsOK`, an explicit hypothesis. They say that durations
are natural numbers, leases last, skew is shorter than a JWT's life, and that
sentinels are no values; `SoakConstantsOK` also that the soak runs the default
back-off policy, of five attempts (`deploy/soak_boot.py` passes none), or any
other that allows a second one. The number of callers, events, logins, processes,
scripts, puts, deaths, changes and the length of the clock are arbitrary. The inductive invariants below are not among
the runs' properties, since they are proved; TLC agreed with each of them
before its proof was written.

The arguments:

* **Abstract lease** (`RowIsOwners`, theorem `RowInvariant`). For clients that
  share no holder id (`NoSharedIds`) the row names every owner that counts, and
  `Exclusion` follows; the abstract lease promises nothing to clients that do
  share one.
* **Lease** (`LeaseInv`). Exclusion is not inductive: that two owners cannot be
  inside needs that the *row* names the owner. `RowNamesOwner` says so for
  holder ids nobody shares; `SoleOwner` says it for ids that two callers may
  share, as long as nothing has gone wrong, when every owner is still unexpired;
  `NothingAhead` is needed because `acquire_lease` compares with an instant
  read earlier: an old reading can only make a lease look alive longer.
* **Token** (`TokenInv`, on `LeaseInv`). The second read after `acquire_lease`
  makes the owner's copy equal to the stored connection, and exclusion keeps it
  equal; so what it presents is unspent.
* **Lineage** (`LineageInv`). Even with expired owners a late writer cannot put
  an old token over a new one: its refresh token was single use, so only one of
  two late owners has anything to write. This is what makes
  `StoreNeverGoesBack` true without the lease.
* **Refinement** (`Refinement`). Owners are the callers between a
  successful acquire and the `finally`; an owner is valid until the connection
  is deleted under it. Each action is mapped to one of the abstract actions or
  to a stutter.
* **Gate** (`GateInv`). That no two requests dispatch an event at once follows
  from `record_event`; what the rest needs is that the two kinds of request stay
  apart: a publish finds no row for what is still ahead of it (`RowsSplit`), a
  replay only lists rows that are there. So no publish and replay of one event
  are ever ahead of the same delivery.
* **First attempts** (`FirstInv`, on `GateInv`). What is still ahead of a
  dispatch nobody has touched, because another could only come by it through a
  row that is not there yet; once the dispatch has taken the lease, only its own
  holder id releases it, and a replay, the only other request that attempts
  deliveries of the event, has none of these on its list. A late second dispatch would break it as surely as a simultaneous
  one, since it would find rows.
* **Once** (`OnceInv`, on `GateInv`). Without overlapping replays at most one
  worker is ahead of a delivery (lemma `Sole`): whatever it read of the row
  stays true until it writes it, with or without the lease. Hence nobody has
  handled what is still ahead of somebody, nor what is dead, which is all a
  replay takes up again. The argument never mentions the lease: it is the
  ledger's gate and the filter on "dead", not the lease, that make delivery
  at-most-once, and `bus_double_delivery` is what is left when two replays
  share their list.
* **Dispatch leases** (`LeaseInv` of `BusDispatchProofs`). The row of a delivery
  names its owner as long as the lease lasts; holder ids are random, so a late
  release never removes another's row. The refinement splits the steps into
  those that touch no lease (`LeaseStays`), the two that do, a restart, in which all
  owners die at once, and the clock.
* **Soak** (`SoakInv` of `BusDispatchProofs`). A boot's subscription is drawn
  anew and every listing lists a subscription once, so at most one thread ever
  has a given delivery ahead of it, and finds it fresh: no row, no entry, no
  line. From there the place inside the handler says exactly what has been
  written (`WorkOK`), and the row repeats it (`RowInv`). A restart forgets the
  rows but also the ids: what an orphaned route still appends goes to a delivery
  that no later boot takes up. The dispatch lease is not used; that nobody is
  ever refused one (`LeftOutSafely`) is also why `CaptureSoak` can leave the
  replay loop and the refusal out. The real vault is a matter of paths: lemma
  `PrefixOfExtended` says that a path below the one vault is below the other
  only if the vaults are not isolated.
* **Login** (`LoginInv`). The right to go on is a token passed from the open
  transaction to one handler, to one unused code, to one handler, to the first
  pair; each of the two `consume` calls hands it on exactly once.
* **Names** (`NamesInv`): principal, membership and link are written in this
  order. **Rotation** (`RotationInv`): the pair that `rotate_refresh` writes a
  second time still has its row, because only its handler knows it.
* **Persons** (`PersonInv`). A user that has no link is known to at most one
  handler that has looked it up, so the principal it is about to create is the
  only one; codes and handlers that name a user agree with the link once there
  is one. Two handlers that look up the same unknown user at once are the
  premise `"twologins"` of the property: the code does create two principals then.
* **Pairs** (`LineageInv`, `UsableInv`). What a rotation has found is its own,
  because a second handler that finds the same refresh token is the circumstance
  the property excludes; between the row of the new pair and the deletion of the
  old one, the new pair is with no client. That a session survives is then no
  more than the order of the two writes: the one that takes away comes last.
* **Age** (`AgeInv`). Whatever holds a JWT of a client, it was minted no later
  than the client's credential died; so nothing passes TTL after that.
* **Key** (`KeyInv`). A fetch made by this process, however late it is stored,
  returns a key no older than the one in force when the process started; a
  restart ends every fetch of the old process.
* **Renewal** (`RenewInv`). The client counts a JWT's life from a reading of
  before it asked for it; identity counts from the whole second of a later one,
  which may still be earlier, but by less than a second. A replacement never
  runs out sooner than what it replaces, so a thread that returns whatever the
  transport holds by now returns something good for Skew less that second. Two
  renewals at once break this, because the two fields are written
  separately: the premise `~tworenew`.
* **Entitlement** (`AnswerInv`). Each of the three reads leaves something that
  stays: an owner is that of a generation that does not come back, the vault's
  rows are never deleted, and a live grant of identity counts at the moment it
  is read. Whatever lets the call in was therefore enough at some moment of the
  call, and enough for the connection it read if that one is still there.
* **Managed routes** (`RouteInv`). No other route runs between the check and the
  write, so the connection is the one that was checked. `rightful` records that
  the principal owned it, or had a live identity grant of "manage", at some
  moment since the route read it; a revoke before that does not count. A row of
  the vault lets in whoever asks, so all that can be said of it is that the
  first was given out by somebody rightful (`rooted`): nobody gets to manage out
  of nothing.
* **Lock** (`AlwaysInv`, `LockInv`). Three system calls that are not exclusive
  (read, replace, unlink) are a lease as long as what was read stays true until
  it is used. The invariant says what that is at each call: an owner is in time
  and the lock is its own, so nobody finds it expired; a stealer is alone with
  the expired lock it has read, so its replace overwrites nothing else; an owner
  whose connection was deleted is not named by the lock, so it never unlinks
  another's. Each of the three circumstances in `Faults` breaks one of these,
  and `file_stealers` shows what the second one costs. Lemma `LeaseRefines` maps
  the calls: a grant is the `os.link` that succeeds, or the `os.replace`; a
  release is the unlink; an owner that finds the lock is not its own any more
  leaves; the rest is invisible.
  The theorems are about `StoreSpec`, where the calls on the lock are taken
  among all the others; lemma `StoreIsLease` says that the rest of the store
  leaves the lock alone.
* **Torn files** (`TornInv`, on `StepInv` and `LockInv`). A refresh publishes
  the shared temporary file under the record's name. It could publish a half
  written one only if another process had it open for writing (`TmpInv`), and
  both would be owners of the lock at that moment; without a fault there is one.
  The sealed token has a temporary file of its own and needs no argument.
* **Settled files** (`SettledInv`). A put or a delete that overlaps nothing is
  alone with the files, so what it did so far is still there at each of its
  calls; a refresh writes what it has read, which is what the last change meant,
  so that any number of refreshes may write it, in any order, with or without
  the lease. The lease is not used: for the contents of the files it matters
  only to the provider.
* **Provisioning** (`RunInv`, `DueInv`). What a run has granted stays until a
  cut, because rows are upserted and never rewritten to less; the target it has
  yet to grant is still in its list. That the operator never fetches an empty
  file needs that at most one run per name is due, which is the premise
  `crossed`. **Exchange** (`ExchangeInv`): rows are read one at a time, but
  each only ever changes in one direction for a principal that loses nothing.

Only model-checked: the liveness properties (`EveryCallEnds`,
`EveryMatchIsAttempted`: fairness and ENABLED are beyond the prover).

## 5. Findings

Backed by a run whose counterexample TLC prints:

* `bus_double_delivery`: two overlapping replays of one dead event deliver it
  twice, with every lease in time. The row a replay resets is the one it listed
  earlier, not the one that is there. `HandledOnce` is what holds.
* `bus_pending_stuck`: with `max_attempts > 1`, the served default, a delivery
  that failed once stays "pending" for ever: nothing retries it, and replay only
  takes "dead" rows.
* `file_stealers`: two processes that find the same expired lock file both come
  out of `acquire_lease` as owners; `os.replace` is not exclusive.
* `file_revoked`: a refresh that was under way when its connection was revoked
  seals the new token back onto the disk; nothing removes it later. What holds
  is `SettledStore`, whose premise excludes the overlap.

Noticed while reading, without a run:

* The refresh loop does not keep two callers out of `provider.refresh`: an
  exchange that outlives the lease lets a second owner in
  (`vault/refresh.py:38-48` against `tests/test_refresh_single_writer.py:71`).
  What the code does guarantee is `StoreNeverGoesBack`.
* `list_connections` reads the names of the records first and each record
  after; a record deleted in between is listed as None
  (`vault/store/local_file.py:67`), on which the check in `vault/access.py:57-65` raises an AttributeError.
* Every run of `deploy.sh` mints another credential, leaves the earlier one
  alive and truncates the file of one that was not fetched yet, where
  `deploy/deploy.sh:4` says "Idempotent: safe to re-run". The premise `crossed`
  of `SecretIsACredential` is the second half of this.
* The in-memory ledger iterates over its dictionaries outside its mutex when it
  lists matches and dead letters (`bus/store/memory.py:43-45`); a subscribe in
  between makes the publish fail after the event was recorded, and the retry is
  deduplicated. `AcceptedIsObserved` excludes such events (`torn`).
* `write_token` of a refresh that began earlier can overwrite a re-imported
  connection (`vault/refresh.py:45` against `vault/access.py:97`); the premise
  "overwrite" of the vault's properties is this.
* A waiter that sees the lease free exactly when `wait_timeout` is used up
  raises instead of trying once more (`vault/refresh.py:59-62`).
* Replay takes a dead letter off the list even when no attempt follows
  (`bus/dispatch.py:54-55` against `docs/event-bus.md:32`).
* The kernel grant check counts every row of the vault's grants of a connection,
  whoever it was given to (`vault/kernel_auth.py:16-23`; `authorize` never
  compares principals), while `require_access` does (`vault/grants.py:15-17`)
  and `tests/test_vault_authorize_path.py` names its test
  "allows_only_granted_principal". VaultAccess models the code as it is.
* Identity publishes exactly one key and the vault caches the document for
  life, so the "publish-before-sign JWKS overlap" of
  `docs/server-posture-vault.md:36-37` cannot be done; `KernelAuth` has the
  rotation that can.
* Two first fetches of the JWKS may leave the older document cached until the
  next restart (`vault/kernel_auth.py:63-71`).
* `get_principal_by_island` and the reads of islands and transactions in the
  identity store are made outside its mutex.

## 6. Not modelled

* The grants and the log of `LocalFileStore`, which are appended to JSONL files
  line by line, and `list_connections`, which only reads.
* Cryptography (sealing, Ed25519, PKCE), providers' request formats, OAuth
  metadata: pure functions, taken to be correct.
* Envelope and JSON-schema validation, CloudEvents, bus authorization: they
  refuse a request before any state is touched.
* `InMemoryStore` handing out the stored object itself: only tests use it with
  threads.
* The vault's access log and identity's logs: nothing reads them.
* The text a capture carries, its classification and its translation: data on
  which no property depends. The external route and classifier are choices
  between an answer and a failure.
* The dry runs, `federation_provision` (one write), the pm2 configuration.
* Node library and scripts: HTTP wrappers without state, one-off tools.

## 7. Plan

Order of work: the lease and its hardest user first, then the other users, then
the services around them.

1. Done: `LeaseTable`, `LeaseService` with proofs; `VaultRefresh` with proofs
   and refinement; `BusDispatch` with proofs and refinement; `FileLease` and
   `FileStore` with proofs and refinement; `IdentityLogin`, `KernelAuth`,
   `VaultAccess`, `Provision` and `CaptureSoak` with proofs.
2. Left to model: the remaining routes of the OAuth server (client
   registration, direct authorize for a named principal), `resolve_org` and the
   bus's type match as operators checked against reference definitions, the
   JSONL grants of `LocalFileStore` and `list_connections`.
3. Left to prove: of what is modelled nothing but liveness, which is out of the
   prover's reach. Next an abstract specification of what the bus promises for
   one delivery (accepted, attempted, settled), to be refined by `BusDispatch`
   and by `CaptureSoak`.
