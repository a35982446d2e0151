---------------------------- MODULE KernelAuth -----------------------------
(***************************************************************************)
(* How a request gets past a served service's door.  A client's transport  *)
(* (KernelAuthTransport, libs/python/islands_vault/client.py) trades its   *)
(* credential for a kernel JWT at the identity service's /auth/exchange    *)
(* and caches it; the service (the vault; the bus is wired the same way)   *)
(* verifies it offline (identity/deps.py, identity/jwt_verify.py) against  *)
(* a JWKS it fetches once and keeps (cached_jwks_provider,                 *)
(* vault/kernel_auth.py).                                                  *)
(*                                                                         *)
(* The threads of a client share its transport, which has no lock; the     *)
(* service verifies in its thread pool.  One action per access to shared   *)
(* state or remote call.  Credentials run out, the identity service may be *)
(* started with another signing key, the service may be restarted.         *)
(*                                                                         *)
(* Abstracted: one clock for all hosts, in fractions of a second.  Clients *)
(* and verifiers read it as it is; the identity service drops the fraction *)
(* of the instant it mints at (identity/app.py), so a JWT runs out up to a *)
(* second before the instant its client works out for it.  A JWT is the    *)
(* number of the key that signed it and the instant it runs out; its       *)
(* audience and issuer match.  What the request goes on to do is module    *)
(* VaultAccess.                                                            *)
(***************************************************************************)
EXTENDS Integers

CONSTANTS
  Callers,      \* threads that make requests
  Clients,      \* principals, each with one credential and one transport
  None,
  Sec,          \* clock readings to the second
  TTL,          \* life of a kernel JWT (300 s), in readings
  Skew,         \* the transport renews that much before it runs out (30 s)
  MaxTime,      \* bound: the clock
  MaxChanges    \* bound: credentials that die, key rotations and restarts

ASSUME AuthConstantsOK ==
  /\ None \notin Clients
  /\ Sec \in Nat \ {0}
  /\ TTL \in Nat /\ Skew \in Nat /\ Skew < TTL
  /\ MaxTime \in Nat /\ MaxChanges \in Nat

VARIABLES
  now,       \* the clock, in fractions of a second
  second,    \* the last whole second: int(now)
  key,       \* number of the identity service's signing key
  jwks,      \* the key in the cached JWKS, 0 before the first fetch
  boot,      \* the signing key when the service was started (history)
  dead,      \* when each credential stopped being exchangeable, 0 if it works
  client,    \* each transport's _jwt and _jwt_exp
  call,      \* what each caller is doing
  tworenew,  \* two threads of a client have renewed at once (history)
  changes    \* changes so far (bound)

vars == <<now, second, key, jwks, boot, dead, client, call, tworenew, changes>>

identity == <<key, dead>>
service  == <<jwks, boot>>
clock    == <<now, second, changes>>

Jwts  == [key : Nat, exp : Nat]
NoJwt == [key |-> 0, exp |-> 0]

Labels == {"idle", "check", "exchange", "storejwt", "storeexp", "return",
           "jwks", "cache", "verify", "accepted"}

\* The locals of a request: sent is _bearer's clock reading, jwt the token it
\* was given and then the one it presents, doc the JWKS it fetched.
Calls == [at : Labels, who : Clients \cup {None}, sent : Nat, jwt : Jwts,
          doc : Nat]

Idle == [at |-> "idle", who |-> None, sent |-> 0, jwt |-> NoJwt, doc |-> 0]

TypeOK ==
  /\ now \in Nat /\ second \in Nat /\ key \in Nat /\ jwks \in Nat /\ boot \in Nat
  /\ changes \in Nat
  /\ dead \in [Clients -> Nat]
  /\ client \in [Clients -> [jwt : Jwts, exp : Nat]]
  /\ call \in [Callers -> Calls]
  /\ \A c \in Callers : call[c].who = None <=> call[c].at = "idle"
  /\ tworenew \in BOOLEAN

-----------------------------------------------------------------------------

At(c, label) == call[c].at = label

Move(c, j) == call' = [call EXCEPT ![c] = j]

Goto(c, label) == Move(c, [call[c] EXCEPT !.at = label])

\* Mutant of Leave: the caller is taken to be working for its client still.
LeaveKeepsWho(c) == Move(c, [Idle EXCEPT !.who = call[c].who])

\* The call ends with an answer or an error; its locals are gone.
Leave(c) == Move(c, Idle)

\* _bearer reads the clock.
Start(c, p) ==
  /\ At(c, "idle")
  /\ Move(c, [Idle EXCEPT !.at = "check", !.who = p, !.sent = now])
  /\ UNCHANGED <<identity, service, clock, client, tworenew>>

\* Caller d has begun to renew and has not stored its JWT's expiry yet.
Renewing(d, p) ==
  call[d].who = p /\ call[d].at \in {"exchange", "storejwt", "storeexp"}

\* A cached JWT is used until Skew before the instant stored with it.
Check(c) ==
  LET p == call[c].who
      j == call[c]
  IN
  /\ At(c, "check")
  /\ \/ /\ client[p].jwt # NoJwt
        /\ j.sent + Skew < client[p].exp
        /\ Goto(c, "return")
        /\ UNCHANGED tworenew
     \/ /\ ~(client[p].jwt # NoJwt /\ j.sent + Skew < client[p].exp)
        /\ Goto(c, "exchange")
        /\ tworenew' = (tworenew \/ \E d \in Callers \ {c} : Renewing(d, p))
  /\ UNCHANGED <<identity, service, clock, client>>

\* POST /auth/exchange: a JWT for a credential that works, else an error; the
\* request or its answer may also be lost.  The JWT is dated by the last whole
\* second, int(now).
Exchange(c) ==
  /\ At(c, "exchange")
  /\ \/ /\ dead[call[c].who] = 0
        /\ Move(c, [call[c] EXCEPT !.at = "storejwt",
                                   !.jwt = [key |-> key, exp |-> second + TTL]])
     \/ Leave(c)
  /\ UNCHANGED <<identity, service, clock, client, tworenew>>

StoreJwt(c) ==
  /\ At(c, "storejwt")
  /\ client' = [client EXCEPT ![call[c].who].jwt = call[c].jwt]
  /\ Goto(c, "storeexp")
  /\ UNCHANGED <<identity, service, clock, tworenew>>

\* Mutant of StoreExp: the life of the JWT is counted from its arrival.
StoreExpOnArrival(c) ==
  /\ At(c, "storeexp")
  /\ client' = [client EXCEPT ![call[c].who].exp = now + TTL]
  /\ Goto(c, "return")
  /\ UNCHANGED <<identity, service, clock, tworenew>>

\* The life of the JWT is counted from before it was asked for.
StoreExp(c) ==
  /\ At(c, "storeexp")
  /\ client' = [client EXCEPT ![call[c].who].exp = call[c].sent + TTL]
  /\ Goto(c, "return")
  /\ UNCHANGED <<identity, service, clock, tworenew>>

\* _bearer returns whatever JWT the transport holds by now.
Return(c) ==
  /\ At(c, "return")
  /\ Move(c, [call[c] EXCEPT !.at = "jwks", !.jwt = client[call[c].who].jwt])
  /\ UNCHANGED <<identity, service, clock, client, tworenew>>

\* jwks_provider: the cached document, or a fetch, which may fail.
ReadJwks(c) ==
  /\ At(c, "jwks")
  /\ \/ /\ jwks # 0
        /\ Move(c, [call[c] EXCEPT !.at = "verify", !.doc = jwks])
     \/ /\ jwks = 0
        /\ Move(c, [call[c] EXCEPT !.at = "cache", !.doc = key])
     \/ /\ jwks = 0
        /\ Leave(c)
  /\ UNCHANGED <<identity, service, clock, client, tworenew>>

\* What was fetched replaces whatever another thread has cached meanwhile;
\* then the cache is read.
CacheJwks(c) ==
  /\ At(c, "cache")
  /\ jwks' = call[c].doc
  /\ Goto(c, "jwks")
  /\ UNCHANGED <<identity, boot, clock, client, tworenew>>

\* Mutant of Good: the expiry of the JWT is not looked at.
GoodForEver(j) == j.jwt.key = j.doc

\* verify_island_jwt: signed with the key in the document, and not run out.
Good(j) == j.jwt.key = j.doc /\ now < j.jwt.exp

\* require_principal: 401 for anything else.
Verify(c) ==
  /\ At(c, "verify")
  /\ \/ Good(call[c]) /\ Goto(c, "accepted")
     \/ ~Good(call[c]) /\ Leave(c)
  /\ UNCHANGED <<identity, service, clock, client, tworenew>>

\* The request is served; the caller is back with an answer.
Done(c) ==
  /\ At(c, "accepted")
  /\ Leave(c)
  /\ UNCHANGED <<identity, service, clock, client, tworenew>>

CallStep(c) ==
  \/ \E p \in Clients : Start(c, p)
  \/ Check(c) \/ Exchange(c) \/ StoreJwt(c) \/ StoreExp(c) \/ Return(c)
  \/ ReadJwks(c) \/ CacheJwks(c) \/ Verify(c) \/ Done(c)

-----------------------------------------------------------------------------
Change ==
  /\ changes < MaxChanges
  /\ changes' = changes + 1

\* The credential's expires_at is reached, or its row is revoked.
CredentialDies(p) ==
  /\ now > 0
  /\ dead[p] = 0
  /\ Change
  /\ dead' = [dead EXCEPT ![p] = now]
  /\ UNCHANGED <<key, service, now, second, client, call, tworenew>>

\* The identity service is started with another seed; it publishes and signs
\* with that one only.
Rotate ==
  /\ Change
  /\ key' = key + 1
  /\ UNCHANGED <<dead, service, now, second, client, call, tworenew>>

\* Requests that have reached the service.
InService == {"jwks", "cache", "verify", "accepted"}

\* Mutant of Restart: the cached JWKS outlives the process.
RestartKeepsJwks ==
  /\ Change
  /\ boot' = key
  /\ call' = [c \in Callers |-> IF call[c].at \in InService THEN Idle ELSE call[c]]
  /\ UNCHANGED <<identity, jwks, now, second, client, tworenew>>

\* The service is started anew: its cache and every request in it are gone.
Restart ==
  /\ Change
  /\ boot' = key
  /\ jwks' = 0
  /\ call' = [c \in Callers |-> IF call[c].at \in InService THEN Idle ELSE call[c]]
  /\ UNCHANGED <<identity, now, second, client, tworenew>>

Tick ==
  /\ now < MaxTime
  /\ now' = now + 1
  /\ second' = IF now' = second + Sec THEN now' ELSE second
  /\ UNCHANGED <<identity, service, changes, client, call, tworenew>>

Init ==
  /\ now = 0 /\ second = 0 /\ key = 1 /\ jwks = 0 /\ boot = 1
  /\ dead = [p \in Clients |-> 0]
  /\ client = [p \in Clients |-> [jwt |-> NoJwt, exp |-> 0]]
  /\ call = [c \in Callers |-> Idle]
  /\ tworenew = FALSE
  /\ changes = 0

Next ==
  \/ \E c \in Callers : CallStep(c)
  \/ \E p \in Clients : CredentialDies(p)
  \/ Rotate \/ Restart \/ Tick

Spec == Init /\ [][Next]_vars

-----------------------------------------------------------------------------
(***************************************************************************)
(* A credential that has stopped working is worth nothing once a JWT that  *)
(* was minted just before could have run out: no JWT passes the service's  *)
(* verification TTL or more after its principal's credential died, however *)
(* long transports, calls and documents are cached (exchange.py, the cache *)
(* of KernelAuthTransport, jwt_verify.py).                                 *)
(***************************************************************************)
Accepts(c) == At(c, "verify") /\ call'[c].at = "accepted"

DeadCredentialRunsOut ==
  [][\A c \in Callers : Accepts(c) =>
       LET died == dead[call[c].who] IN died = 0 \/ now < died + TTL]_vars

(***************************************************************************)
(* A service that was started after the signing key was replaced accepts   *)
(* nothing that was signed with the retired key ("rotation is picked up by *)
(* restarting the process", vault/kernel_auth.py), although transports go  *)
(* on presenting such tokens and a fetch may still be under way.           *)
(***************************************************************************)
RotationTakesEffect ==
  [][\A c \in Callers : Accepts(c) => call[c].jwt.key >= boot]_vars

(***************************************************************************)
(* The transport renews early enough: a JWT it presents has not run out    *)
(* when it is verified within Skew of the clock reading _bearer decided    *)
(* by, less the second by which the identity service may date a JWT back   *)
(* (int(now), identity/app.py; the client adds its 300 s to a reading that *)
(* is not rounded).  Excluded are two threads that renewed at once and so  *)
(* mixed the JWT of one with the expiry of the other.                      *)
(***************************************************************************)
FreshBearer ==
  \A c \in Callers :
    /\ call[c].at \in {"jwks", "cache", "verify"}
    /\ ~tworenew
    /\ now + Sec <= call[c].sent + Skew
    => now < call[c].jwt.exp

-----------------------------------------------------------------------------
(* The inductive invariants behind these properties.                       *)

\* The latest date a JWT of p can bear.
LastMint(p) == IF dead[p] = 0 THEN second ELSE dead[p]

\* The last whole second is less than one second ago, and no JWT of p, cached
\* or under way, outlives LastMint(p) by more than TTL.
AgeInv ==
  /\ second <= now /\ now < second + Sec
  /\ \A p \in Clients : /\ dead[p] <= now
                        /\ client[p].jwt.exp <= LastMint(p) + TTL
  /\ \A c \in Callers :
       /\ call[c].sent <= now
       /\ call[c].who # None => call[c].jwt.exp <= LastMint(call[c].who) + TTL

\* No document the service holds, or is about to, is older than the service.
KeyInv ==
  /\ boot \in 1..key
  /\ jwks = 0 \/ jwks >= boot
  /\ \A c \in Callers : call[c].at \in {"cache", "verify"} => call[c].doc >= boot

\* As long as no two threads have renewed at once, a transport's expiry is less
\* than a second past its JWT's own, every new JWT runs out no sooner than the
\* one it takes the place of, and whatever is returned lasts Skew longer than
\* the reading, less that second.
RenewInv ==
  ~tworenew =>
    /\ \A p \in Clients : client[p].exp < client[p].jwt.exp + Sec
    /\ \A c, d \in Callers :
         call[c].who # None /\ Renewing(c, call[c].who) /\ Renewing(d, call[c].who)
           => c = d
    /\ \A c \in Callers :
         LET j    == call[c]
             held == client[j.who].jwt.exp
         IN
         /\ j.at = "storejwt" => j.jwt.exp + Sec > j.sent + TTL /\ j.jwt.exp >= held
         /\ j.at = "storeexp" => held + Sec > j.sent + TTL
         /\ j.at = "return" => held + Sec > j.sent + Skew
         /\ j.at \in {"jwks", "cache", "verify"} => j.jwt.exp + Sec > j.sent + Skew
=============================================================================
