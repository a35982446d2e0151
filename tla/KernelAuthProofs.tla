------------------------- MODULE KernelAuthProofs --------------------------
(***************************************************************************)
(* Theorems about KernelAuth, for any number of clients and threads, any   *)
(* TTL above Skew and any number of rotations and restarts.                *)
(***************************************************************************)
EXTENDS KernelAuth, TLAPS

\* A thread is working for a client unless it is idle.
LEMMA Working ==
  ASSUME TypeOK, NEW c \in Callers, call[c].at # "idle"
  PROVE  call[c] \in Calls /\ call[c].who \in Clients
BY DEF TypeOK, Calls

\* One thread moves on with the locals r; the others stay where they are.
LEMMA MoveTypes ==
  ASSUME TypeOK, NEW c \in Callers, NEW r \in Calls, Move(c, r),
         r.who = None <=> r.at = "idle"
  PROVE  /\ call' \in [Callers -> Calls]
         /\ \A d \in Callers : call'[d].who = None <=> call'[d].at = "idle"
         /\ call'[c] = r
         /\ \A d \in Callers \ {c} : call'[d] = call[d]
BY DEF TypeOK, Move

LEMMA IdleTypes == Idle \in Calls /\ Idle.who = None /\ Idle.at = "idle"
BY DEF Idle, Calls, Labels, Jwts, NoJwt

LEMMA GotoTypes ==
  ASSUME TypeOK, NEW c \in Callers, call[c].at # "idle",
         NEW label \in Labels \ {"idle"}, Goto(c, label)
  PROVE  \E r \in Calls :
           /\ Move(c, r)
           /\ r.at = label /\ r.who = call[c].who /\ r.sent = call[c].sent
           /\ r.jwt = call[c].jwt /\ r.doc = call[c].doc
<1> DEFINE r == [call[c] EXCEPT !.at = label]
<1>1. call[c] \in Calls
  BY DEF TypeOK
<1>2. r \in Calls
  BY <1>1 DEF Calls
<1>3. /\ r.at = label /\ r.who = call[c].who /\ r.sent = call[c].sent
      /\ r.jwt = call[c].jwt /\ r.doc = call[c].doc
  BY <1>1 DEF Calls
<1>4. Move(c, r)
  BY DEF Goto
<1> HIDE DEF r
<1>5. QED
  BY <1>2, <1>3, <1>4

LEMMA StartMove ==
  ASSUME TypeOK, NEW c \in Callers, NEW p \in Clients, Start(c, p)
  PROVE  \E r \in Calls :
           /\ Move(c, r)
           /\ r.at = "check" /\ r.who = p /\ r.sent = now /\ r.jwt = NoJwt
           /\ r.doc = 0
<1> DEFINE r == [Idle EXCEPT !.at = "check", !.who = p, !.sent = now]
<1>1. r \in Calls
  BY DEF TypeOK, Idle, Calls, Labels, Jwts, NoJwt
<1>2. /\ r.at = "check" /\ r.who = p /\ r.sent = now /\ r.jwt = NoJwt
      /\ r.doc = 0
  BY DEF Idle
<1>3. Move(c, r)
  BY DEF Start
<1> HIDE DEF r
<1>4. QED
  BY <1>1, <1>2, <1>3

\* What an exchange that succeeds gives the thread.
LEMMA MintMove ==
  ASSUME TypeOK, AuthConstantsOK, NEW c \in Callers, At(c, "exchange"),
         Move(c, [call[c] EXCEPT !.at = "storejwt",
                                 !.jwt = [key |-> key, exp |-> second + TTL]])
  PROVE  \E r \in Calls :
           /\ Move(c, r)
           /\ r.at = "storejwt" /\ r.who = call[c].who /\ r.sent = call[c].sent
           /\ r.jwt.exp = second + TTL /\ r.doc = call[c].doc
<1>1. call[c] \in Calls
  BY DEF TypeOK
<1>2. [key |-> key, exp |-> second + TTL] \in Jwts
  BY DEF TypeOK, AuthConstantsOK, Jwts
<1>3. PICK j \in Jwts : j = [key |-> key, exp |-> second + TTL]
  BY <1>2
<1> DEFINE r == [call[c] EXCEPT !.at = "storejwt", !.jwt = j]
<1>4. r \in Calls
  BY <1>1 DEF Calls, Labels
<1>5. /\ r.at = "storejwt" /\ r.who = call[c].who /\ r.sent = call[c].sent
      /\ r.jwt = j /\ r.doc = call[c].doc
  BY <1>1 DEF Calls
<1>6. Move(c, r)
  BY <1>3
<1>7. j.exp = second + TTL
  BY <1>3
<1> HIDE DEF r
<1>8. QED
  BY <1>4, <1>5, <1>6, <1>7

LEMMA ReturnMove ==
  ASSUME TypeOK, NEW c \in Callers, Return(c)
  PROVE  \E r \in Calls :
           /\ Move(c, r)
           /\ r.at = "jwks" /\ r.who = call[c].who /\ r.sent = call[c].sent
           /\ r.jwt = client[call[c].who].jwt /\ r.doc = call[c].doc
<1>1. call[c] \in Calls /\ call[c].who \in Clients
  BY Working DEF Return, At
<1>2. PICK j \in Jwts : j = client[call[c].who].jwt
  BY <1>1 DEF TypeOK
<1> DEFINE r == [call[c] EXCEPT !.at = "jwks", !.jwt = j]
<1>3. r \in Calls
  BY <1>1 DEF Calls, Labels
<1>4. /\ r.at = "jwks" /\ r.who = call[c].who /\ r.sent = call[c].sent
      /\ r.jwt = j /\ r.doc = call[c].doc
  BY <1>1 DEF Calls
<1>5. Move(c, r)
  BY <1>2 DEF Return
<1> HIDE DEF r
<1>6. QED
  BY <1>2, <1>3, <1>4, <1>5

\* A thread that reads the cache either fails, goes on with the document that
\* is cached, or goes to cache the one it has fetched.
LEMMA DocMove ==
  ASSUME TypeOK, NEW c \in Callers, ReadJwks(c)
  PROVE  \/ Leave(c)
         \/ \E r \in Calls :
              /\ Move(c, r)
              /\ r.who = call[c].who /\ r.sent = call[c].sent
              /\ r.jwt = call[c].jwt
              /\ \/ r.at = "verify" /\ jwks # 0 /\ r.doc = jwks
                 \/ r.at = "cache" /\ r.doc = key
<1> DEFINE v == [call[c] EXCEPT !.at = "verify", !.doc = jwks]
           f == [call[c] EXCEPT !.at = "cache", !.doc = key]
<1>1. call[c] \in Calls /\ jwks \in Nat /\ key \in Nat
  BY DEF TypeOK
<1>2. /\ v \in Calls
      /\ v.at = "verify" /\ v.doc = jwks /\ v.who = call[c].who
      /\ v.sent = call[c].sent /\ v.jwt = call[c].jwt
  BY <1>1 DEF Calls, Labels
<1>3. /\ f \in Calls
      /\ f.at = "cache" /\ f.doc = key /\ f.who = call[c].who
      /\ f.sent = call[c].sent /\ f.jwt = call[c].jwt
  BY <1>1 DEF Calls, Labels
<1>4. \/ Leave(c)
      \/ jwks # 0 /\ Move(c, v)
      \/ Move(c, f)
  BY DEF ReadJwks
<1> HIDE DEF v, f
<1>5. QED
  BY <1>2, <1>3, <1>4

-----------------------------------------------------------------------------
(* Type correctness. *)

LEMMA CallTypes ==
  ASSUME TypeOK, AuthConstantsOK, NEW c \in Callers, CallStep(c)
  PROVE  TypeOK'
<1> DEFINE CallOK ==
      /\ call' \in [Callers -> Calls]
      /\ \A d \in Callers : call'[d].who = None <=> call'[d].at = "idle"
<1>l. ASSUME Leave(c)
      PROVE  CallOK
  BY <1>l, MoveTypes, IdleTypes DEF Leave
<1>g. ASSUME NEW label \in Labels \ {"idle"}, call[c].at # "idle", Goto(c, label)
      PROVE  CallOK
  <2>1. PICK r \in Calls : Move(c, r) /\ r.at = label /\ r.who = call[c].who
    BY <1>g, GotoTypes
  <2>2. r.who # None
    BY <1>g, <2>1, Working DEF AuthConstantsOK
  <2>3. QED
    BY <1>g, <2>1, <2>2, MoveTypes
<1>1. ASSUME NEW p \in Clients, Start(c, p)
      PROVE  TypeOK'
  <2>1. PICK r \in Calls : Move(c, r) /\ r.at = "check" /\ r.who = p
    BY <1>1, StartMove
  <2>2. CallOK
    BY <2>1, MoveTypes DEF AuthConstantsOK
  <2>3. QED
    BY <1>1, <2>2 DEF Start, TypeOK, identity, service, clock
<1>2. CASE Check(c)
  <2>1. CallOK
    BY <1>2, <1>g DEF Check, At, Labels
  <2>2. tworenew' \in BOOLEAN
    BY <1>2 DEF Check, TypeOK
  <2>3. QED
    BY <1>2, <2>1, <2>2 DEF Check, TypeOK, identity, service, clock
<1>3. CASE Exchange(c)
  <2>1. CASE Leave(c)
    BY <1>3, <1>l, <2>1 DEF Exchange, TypeOK, identity, service, clock
  <2>2. CASE ~Leave(c)
    <3>1. PICK r \in Calls : Move(c, r) /\ r.at = "storejwt" /\ r.who = call[c].who
      BY <1>3, <2>2, MintMove DEF Exchange
    <3>2. r.who # None
      BY <1>3, <3>1, Working DEF Exchange, At, AuthConstantsOK
    <3>3. CallOK
      BY <3>1, <3>2, MoveTypes
    <3>4. QED
      BY <1>3, <3>3 DEF Exchange, TypeOK, identity, service, clock
  <2>3. QED
    BY <2>1, <2>2
<1>4. CASE StoreJwt(c)
  <2>1. CallOK
    BY <1>4, <1>g DEF StoreJwt, At, Labels
  <2>2. call[c].who \in Clients /\ call[c].jwt \in Jwts
    BY <1>4, Working DEF StoreJwt, At, Calls
  <2>3. client' \in [Clients -> [jwt : Jwts, exp : Nat]]
    BY <1>4, <2>2 DEF StoreJwt, TypeOK
  <2>4. QED
    BY <1>4, <2>1, <2>3 DEF StoreJwt, TypeOK, identity, service, clock
<1>5. CASE StoreExp(c)
  <2>1. CallOK
    BY <1>5, <1>g DEF StoreExp, At, Labels
  <2>2. call[c].who \in Clients /\ call[c].sent + TTL \in Nat
    BY <1>5, Working DEF StoreExp, At, Calls, AuthConstantsOK
  <2>3. client' \in [Clients -> [jwt : Jwts, exp : Nat]]
    BY <1>5, <2>2 DEF StoreExp, TypeOK
  <2>4. QED
    BY <1>5, <2>1, <2>3 DEF StoreExp, TypeOK, identity, service, clock
<1>6. CASE Return(c)
  <2>1. PICK r \in Calls : Move(c, r) /\ r.at = "jwks" /\ r.who = call[c].who
    BY <1>6, ReturnMove
  <2>2. r.who # None
    BY <1>6, <2>1, Working DEF Return, At, AuthConstantsOK
  <2>3. CallOK
    BY <2>1, <2>2, MoveTypes
  <2>4. QED
    BY <1>6, <2>3 DEF Return, TypeOK, identity, service, clock
<1>7. CASE ReadJwks(c)
  <2>1. CASE Leave(c)
    BY <1>7, <1>l, <2>1 DEF ReadJwks, TypeOK, identity, service, clock
  <2>2. CASE ~Leave(c)
    <3>1. PICK r \in Calls :
            Move(c, r) /\ r.at # "idle" /\ r.who = call[c].who
      BY <1>7, <2>2, DocMove
    <3>2. r.who # None
      BY <1>7, <3>1, Working DEF ReadJwks, At, AuthConstantsOK
    <3>3. CallOK
      BY <3>1, <3>2, MoveTypes
    <3>4. QED
      BY <1>7, <3>3 DEF ReadJwks, TypeOK, identity, service, clock
  <2>3. QED
    BY <2>1, <2>2
<1>8. CASE CacheJwks(c)
  <2>1. CallOK
    BY <1>8, <1>g DEF CacheJwks, At, Labels
  <2>2. call[c].doc \in Nat
    BY DEF TypeOK, Calls
  <2>3. QED
    BY <1>8, <2>1, <2>2 DEF CacheJwks, TypeOK, identity, clock
<1>9. CASE Verify(c)
  <2>1. CallOK
    BY <1>9, <1>l, <1>g DEF Verify, At, Labels
  <2>2. QED
    BY <1>9, <2>1 DEF Verify, TypeOK, identity, service, clock
<1>10. CASE Done(c)
  BY <1>10, <1>l DEF Done, TypeOK, identity, service, clock
<1>11. QED
  BY <1>1, <1>2, <1>3, <1>4, <1>5, <1>6, <1>7, <1>8, <1>9, <1>10 DEF CallStep

LEMMA TypeStep ==
  ASSUME TypeOK, AuthConstantsOK, [Next]_vars
  PROVE  TypeOK'
<1>1. ASSUME NEW c \in Callers, CallStep(c)
      PROVE  TypeOK'
  BY <1>1, CallTypes
<1>2. ASSUME NEW p \in Clients, CredentialDies(p)
      PROVE  TypeOK'
  BY <1>2 DEF CredentialDies, Change, TypeOK, service
<1>3. CASE Rotate
  BY <1>3 DEF Rotate, Change, TypeOK, service
<1>4. CASE Restart
  <2>1. /\ call' \in [Callers -> Calls]
        /\ \A d \in Callers : call'[d].who = None <=> call'[d].at = "idle"
    BY <1>4, IdleTypes DEF Restart, TypeOK
  <2>2. QED
    BY <1>4, <2>1 DEF Restart, Change, TypeOK, identity
<1>5. CASE Tick
  BY <1>5 DEF Tick, TypeOK, identity, service
<1>6. CASE UNCHANGED vars
  BY <1>6 DEF vars, TypeOK
<1>7. QED
  BY <1>1, <1>2, <1>3, <1>4, <1>5, <1>6 DEF Next

LEMMA TypeInit ==
  ASSUME AuthConstantsOK, Init
  PROVE  TypeOK
BY IdleTypes DEF Init, TypeOK, Jwts, NoJwt, AuthConstantsOK

\* Every variable of KernelAuth keeps its type, and a thread has a client
\* exactly as long as it is making a request (KernelAuthTransport.access).
THEOREM TypeCorrect == Spec => []TypeOK
<1>1. Init => TypeOK
  BY TypeInit, AuthConstantsOK
<1>2. TypeOK /\ [Next]_vars => TypeOK'
  BY TypeStep, AuthConstantsOK
<1>3. QED
  BY <1>1, <1>2, PTL DEF Spec
-----------------------------------------------------------------------------
(* Rotation: the documents a service works with. *)

\* KeyInv survives the move of a thread that takes no outdated document along.
LEMMA KeyMove ==
  ASSUME TypeOK, KeyInv, NEW c \in Callers, NEW r \in Calls, Move(c, r),
         r.at \in {"cache", "verify"} => r.doc >= boot,
         UNCHANGED <<key, boot, jwks>>
  PROVE  KeyInv'
<1>1. call'[c] = r /\ \A d \in Callers \ {c} : call'[d] = call[d]
  BY DEF Move, TypeOK
<1>2. QED
  BY <1>1 DEF KeyInv

LEMMA KeyLeave ==
  ASSUME TypeOK, KeyInv, NEW c \in Callers, Leave(c),
         UNCHANGED <<key, boot, jwks>>
  PROVE  KeyInv'
BY KeyMove, IdleTypes DEF Leave

LEMMA KeyGoto ==
  ASSUME TypeOK, KeyInv, NEW c \in Callers, call[c].at # "idle",
         NEW label \in Labels \ {"idle", "cache", "verify"}, Goto(c, label),
         UNCHANGED <<key, boot, jwks>>
  PROVE  KeyInv'
<1>1. PICK r \in Calls : Move(c, r) /\ r.at = label
  BY GotoTypes
<1>2. QED
  BY <1>1, KeyMove

LEMMA KeyCall ==
  ASSUME TypeOK, AuthConstantsOK, KeyInv, NEW c \in Callers, CallStep(c)
  PROVE  KeyInv'
<1>1. ASSUME NEW p \in Clients, Start(c, p)
      PROVE  KeyInv'
  <2>1. PICK r \in Calls : Move(c, r) /\ r.at = "check"
    BY <1>1, StartMove
  <2>2. QED
    BY <1>1, <2>1, KeyMove DEF Start, identity, service
<1>2. CASE Check(c)
  BY <1>2, KeyGoto DEF Check, At, Labels, identity, service
<1>3. CASE Exchange(c)
  <2>1. CASE Leave(c)
    BY <1>3, <2>1, KeyLeave DEF Exchange, identity, service
  <2>2. CASE ~Leave(c)
    <3>1. PICK r \in Calls : Move(c, r) /\ r.at = "storejwt"
      BY <1>3, <2>2, MintMove DEF Exchange
    <3>2. QED
      BY <1>3, <3>1, KeyMove DEF Exchange, identity, service
  <2>3. QED
    BY <2>1, <2>2
<1>4. CASE StoreJwt(c)
  BY <1>4, KeyGoto DEF StoreJwt, At, Labels, identity, service
<1>5. CASE StoreExp(c)
  BY <1>5, KeyGoto DEF StoreExp, At, Labels, identity, service
<1>6. CASE Return(c)
  <2>1. PICK r \in Calls : Move(c, r) /\ r.at = "jwks"
    BY <1>6, ReturnMove
  <2>2. QED
    BY <1>6, <2>1, KeyMove DEF Return, identity, service
<1>7. CASE ReadJwks(c)
  <2>1. UNCHANGED <<key, boot, jwks>>
    BY <1>7 DEF ReadJwks, identity, service
  <2>2. CASE Leave(c)
    BY <2>1, <2>2, KeyLeave
  <2>3. CASE ~Leave(c)
    <3>1. PICK r \in Calls :
            /\ Move(c, r)
            /\ (jwks # 0 /\ r.doc = jwks) \/ r.doc = key
      BY <1>7, <2>3, DocMove
    <3>2. r.doc >= boot
      BY <3>1 DEF KeyInv, TypeOK
    <3>3. QED
      BY <2>1, <3>1, <3>2, KeyMove
  <2>4. QED
    BY <2>2, <2>3
<1>8. CASE CacheJwks(c)
  <2>1. PICK r \in Calls : Move(c, r) /\ r.at = "jwks"
    BY <1>8, GotoTypes DEF CacheJwks, At, Labels
  <2>2. call'[c] = r /\ \A d \in Callers \ {c} : call'[d] = call[d]
    BY <2>1 DEF Move, TypeOK
  <2>3. jwks' = call[c].doc /\ call[c].doc >= boot
    BY <1>8 DEF CacheJwks, At, KeyInv
  <2>4. UNCHANGED <<key, boot>>
    BY <1>8 DEF CacheJwks, identity
  <2>5. QED
    BY <2>1, <2>2, <2>3, <2>4 DEF KeyInv
<1>9. CASE Verify(c)
  BY <1>9, KeyGoto, KeyLeave DEF Verify, At, Labels, identity, service
<1>10. CASE Done(c)
  BY <1>10, KeyLeave DEF Done, identity, service
<1>11. QED
  BY <1>1, <1>2, <1>3, <1>4, <1>5, <1>6, <1>7, <1>8, <1>9, <1>10 DEF CallStep

LEMMA KeyStep ==
  ASSUME TypeOK, AuthConstantsOK, KeyInv, [Next]_vars
  PROVE  KeyInv'
<1>1. ASSUME NEW c \in Callers, CallStep(c)
      PROVE  KeyInv'
  BY <1>1, KeyCall
<1>2. ASSUME NEW p \in Clients, CredentialDies(p)
      PROVE  KeyInv'
  BY <1>2 DEF CredentialDies, KeyInv, service
<1>3. CASE Rotate
  BY <1>3 DEF Rotate, KeyInv, TypeOK, service
<1>4. CASE Restart
  <2>1. \A c \in Callers : call'[c].at \notin {"cache", "verify"}
    BY <1>4, IdleTypes DEF Restart, InService
  <2>2. boot' = key /\ key' = key /\ jwks' = 0
    BY <1>4 DEF Restart, identity
  <2>3. QED
    BY <2>1, <2>2 DEF KeyInv, TypeOK
<1>5. CASE Tick
  BY <1>5 DEF Tick, KeyInv, identity, service
<1>6. CASE UNCHANGED vars
  BY <1>6 DEF vars, KeyInv
<1>7. QED
  BY <1>1, <1>2, <1>3, <1>4, <1>5, <1>6 DEF Next

\* No document the service has cached or is working with is older than the
\* service itself (cached_jwks_provider, vault/kernel_auth.py).
THEOREM KeyInvariant == Spec => []KeyInv
<1>1. Init => KeyInv
  BY IdleTypes DEF Init, KeyInv
<1>2. TypeOK /\ KeyInv /\ [Next]_vars => KeyInv'
  BY KeyStep, AuthConstantsOK
<1>3. QED
  BY <1>1, <1>2, TypeCorrect, PTL DEF Spec

-----------------------------------------------------------------------------
(* Which step lets a request past. *)

LEMMA Accepted ==
  ASSUME TypeOK, AuthConstantsOK, [Next]_vars, NEW c \in Callers, Accepts(c)
  PROVE  Good(call[c])
<1>a. At(c, "verify") /\ call'[c].at = "accepted"
  BY DEF Accepts
<1>1. ASSUME NEW d \in Callers, CallStep(d)
      PROVE  Good(call[c])
  <2>1. ASSUME d # c, NEW r, Move(d, r)
        PROVE  FALSE
    BY <1>a, <2>1 DEF Move, TypeOK, At
  <2>2. CASE d = c
    <3>1. Verify(c) \/ \E p \in Clients : Start(c, p)
      BY <1>1, <1>a, <2>2 DEF CallStep, At, Check, Exchange, StoreJwt, StoreExp,
         Return, ReadJwks, CacheJwks, Done
    <3>2. Verify(c)
      BY <3>1, <1>a DEF At, Start
    <3>3. ~Leave(c)
      BY <1>a, IdleTypes DEF Leave, Move, TypeOK
    <3>4. QED
      BY <3>2, <3>3 DEF Verify
  <2>3. CASE d # c
    BY <1>1, <2>1, <2>3 DEF CallStep, Start, Check, Exchange, StoreJwt, StoreExp,
       Return, ReadJwks, CacheJwks, Verify, Done, Goto, Leave
  <2>4. QED
    BY <2>2, <2>3
<1>2. CASE Restart
  BY <1>a, <1>2, IdleTypes DEF Restart, At, InService
<1>3. CASE UNCHANGED call
  BY <1>a, <1>3 DEF At
<1>4. QED
  BY <1>1, <1>2, <1>3 DEF Next, CredentialDies, Rotate, Tick, vars

\* A service that was started after a rotation accepts nothing that was signed
\* with the retired key.
THEOREM Rotation == Spec => RotationTakesEffect
<1>1. ASSUME TypeOK, KeyInv, [Next]_vars, NEW c \in Callers, Accepts(c)
      PROVE  call[c].jwt.key >= boot
  <2>1. Good(call[c])
    BY <1>1, Accepted, AuthConstantsOK
  <2>2. call[c].doc >= boot
    BY <1>1 DEF Accepts, At, KeyInv
  <2>3. QED
    BY <2>1, <2>2 DEF Good
<1>2. TypeOK /\ KeyInv /\ [Next]_vars
        => [\A c \in Callers : Accepts(c) => call[c].jwt.key >= boot]_vars
  BY <1>1
<1>3. QED
  BY <1>2, TypeCorrect, KeyInvariant, PTL DEF Spec, RotationTakesEffect
-----------------------------------------------------------------------------
(* Age: how long a JWT of a dead credential can last. *)

\* AgeInv survives the move of a thread that takes no JWT along that lasts
\* too long.
LEMMA AgeMove ==
  ASSUME TypeOK, AgeInv, NEW c \in Callers, NEW r \in Calls, Move(c, r),
         r.sent <= now,
         r.who # None => r.jwt.exp <= LastMint(r.who) + TTL,
         UNCHANGED <<now, second, dead, client>>
  PROVE  AgeInv'
<1>1. call'[c] = r /\ \A d \in Callers \ {c} : call'[d] = call[d]
  BY DEF Move, TypeOK
<1>2. \A p : LastMint(p)' = LastMint(p)
  BY DEF LastMint
<1>3. \A p \in Clients : /\ dead'[p] <= now'
                          /\ client'[p].jwt.exp <= LastMint(p)' + TTL
  BY <1>2 DEF AgeInv
<1>4. \A d \in Callers :
        /\ call'[d].sent <= now'
        /\ call'[d].who # None
             => call'[d].jwt.exp <= LastMint(call[d].who)' + TTL
  BY <1>1, <1>2 DEF AgeInv
<1>5. second' <= now' /\ now' < second' + Sec
  BY DEF AgeInv
<1>6. QED
  BY <1>3, <1>4, <1>5 DEF AgeInv

LEMMA AgeLeave ==
  ASSUME TypeOK, AgeInv, NEW c \in Callers, Leave(c),
         UNCHANGED <<now, second, dead, client>>
  PROVE  AgeInv'
<1>1. Idle.sent <= now /\ Idle.who = None
  BY DEF Idle, TypeOK
<1>2. QED
  BY <1>1, AgeMove, IdleTypes DEF Leave

\* The locals of a thread that goes on as it is are young enough.
LEMMA AgeKept ==
  ASSUME AgeInv, NEW c \in Callers, NEW r \in Calls,
         r.who = call[c].who, r.sent = call[c].sent, r.jwt = call[c].jwt
  PROVE  /\ r.sent <= now
         /\ r.who # None => r.jwt.exp <= LastMint(r.who) + TTL
BY DEF AgeInv

LEMMA AgeGoto ==
  ASSUME TypeOK, AgeInv, NEW c \in Callers, call[c].at # "idle",
         NEW label \in Labels \ {"idle"}, Goto(c, label),
         UNCHANGED <<now, second, dead, client>>
  PROVE  AgeInv'
<1>1. PICK r \in Calls :
        /\ Move(c, r)
        /\ r.who = call[c].who /\ r.sent = call[c].sent /\ r.jwt = call[c].jwt
  BY GotoTypes
<1>2. QED
  BY <1>1, AgeKept, AgeMove

LEMMA AgeCall ==
  ASSUME TypeOK, AuthConstantsOK, AgeInv, NEW c \in Callers, CallStep(c)
  PROVE  AgeInv'
<1>a. now \in Nat /\ second \in Nat /\ TTL \in Nat
  BY DEF TypeOK, AuthConstantsOK
<1>1. ASSUME NEW p \in Clients, Start(c, p)
      PROVE  AgeInv'
  <2>1. PICK r \in Calls : Move(c, r) /\ r.who = p /\ r.sent = now /\ r.jwt = NoJwt
    BY <1>1, StartMove
  <2>2. LastMint(p) \in Nat
    BY DEF LastMint, TypeOK
  <2>3. r.jwt.exp <= LastMint(r.who) + TTL
    BY <1>a, <2>1, <2>2 DEF NoJwt
  <2>4. r.sent <= now
    BY <1>a, <2>1
  <2>5. UNCHANGED <<now, second, dead, client>>
    BY <1>1 DEF Start, identity, clock
  <2>6. QED
    BY <2>1, <2>3, <2>4, <2>5, AgeMove
<1>2. CASE Check(c)
  BY <1>2, AgeGoto DEF Check, At, Labels, identity, clock
<1>3. CASE Exchange(c)
  <2>1. UNCHANGED <<now, second, dead, client>>
    BY <1>3 DEF Exchange, identity, clock
  <2>2. CASE Leave(c)
    BY <2>1, <2>2, AgeLeave
  <2>3. CASE ~Leave(c)
    <3>1. PICK r \in Calls :
            /\ Move(c, r)
            /\ r.who = call[c].who /\ r.sent = call[c].sent
            /\ r.jwt.exp = second + TTL
      BY <1>3, <2>3, MintMove DEF Exchange
    <3>2. LastMint(r.who) = second
      BY <1>3, <2>3, <3>1 DEF Exchange, LastMint
    <3>3. r.jwt.exp <= LastMint(r.who) + TTL
      BY <1>a, <3>1, <3>2
    <3>4. r.sent <= now
      BY <3>1 DEF AgeInv
    <3>5. QED
      BY <2>1, <3>1, <3>3, <3>4, AgeMove
  <2>4. QED
    BY <2>2, <2>3
<1>4. CASE StoreJwt(c)
  <2>1. PICK r \in Calls :
          /\ Move(c, r)
          /\ r.who = call[c].who /\ r.sent = call[c].sent /\ r.jwt = call[c].jwt
    BY <1>4, GotoTypes DEF StoreJwt, At, Labels
  <2>2. call'[c] = r /\ \A d \in Callers \ {c} : call'[d] = call[d]
    BY <2>1 DEF Move, TypeOK
  <2>3. UNCHANGED <<now, second, dead>> /\ \A p : LastMint(p)' = LastMint(p)
    BY <1>4 DEF StoreJwt, identity, clock, LastMint
  <2>4. call[c].who \in Clients /\ call[c].who # None
    BY <1>4, Working DEF StoreJwt, At, AuthConstantsOK
  <2>5. \A p \in Clients : client'[p].jwt =
          IF p = call[c].who THEN call[c].jwt ELSE client[p].jwt
    BY <1>4 DEF StoreJwt, TypeOK
  <2>6. \A p \in Clients : /\ dead'[p] <= now'
                            /\ client'[p].jwt.exp <= LastMint(p)' + TTL
    BY <2>3, <2>4, <2>5 DEF AgeInv
  <2>7. \A d \in Callers :
          /\ call'[d].sent <= now'
          /\ call'[d].who # None
               => call'[d].jwt.exp <= LastMint(call[d].who)' + TTL
    BY <2>1, <2>2, <2>3 DEF AgeInv
  <2>8. second' <= now' /\ now' < second' + Sec
    BY <2>3 DEF AgeInv
  <2>9. QED
    BY <2>6, <2>7, <2>8 DEF AgeInv
<1>5. CASE StoreExp(c)
  <2>1. PICK r \in Calls :
          /\ Move(c, r)
          /\ r.who = call[c].who /\ r.sent = call[c].sent /\ r.jwt = call[c].jwt
    BY <1>5, GotoTypes DEF StoreExp, At, Labels
  <2>2. call'[c] = r /\ \A d \in Callers \ {c} : call'[d] = call[d]
    BY <2>1 DEF Move, TypeOK
  <2>3. UNCHANGED <<now, second, dead>> /\ \A p : LastMint(p)' = LastMint(p)
    BY <1>5 DEF StoreExp, identity, clock, LastMint
  <2>4. \A p \in Clients : client'[p].jwt = client[p].jwt
    BY <1>5 DEF StoreExp, TypeOK
  <2>5. \A p \in Clients : /\ dead'[p] <= now'
                            /\ client'[p].jwt.exp <= LastMint(p)' + TTL
    BY <2>3, <2>4 DEF AgeInv
  <2>6. \A d \in Callers :
          /\ call'[d].sent <= now'
          /\ call'[d].who # None
               => call'[d].jwt.exp <= LastMint(call[d].who)' + TTL
    BY <2>1, <2>2, <2>3 DEF AgeInv
  <2>7. second' <= now' /\ now' < second' + Sec
    BY <2>3 DEF AgeInv
  <2>8. QED
    BY <2>5, <2>6, <2>7 DEF AgeInv
<1>6. CASE Return(c)
  <2>1. PICK r \in Calls :
          /\ Move(c, r)
          /\ r.who = call[c].who /\ r.sent = call[c].sent
          /\ r.jwt = client[call[c].who].jwt
    BY <1>6, ReturnMove
  <2>2. call[c].who \in Clients
    BY <1>6, Working DEF Return, At
  <2>3. r.sent <= now /\ r.jwt.exp <= LastMint(r.who) + TTL
    BY <2>1, <2>2 DEF AgeInv
  <2>4. UNCHANGED <<now, second, dead, client>>
    BY <1>6 DEF Return, identity, clock
  <2>5. QED
    BY <2>1, <2>3, <2>4, AgeMove
<1>7. CASE ReadJwks(c)
  <2>1. UNCHANGED <<now, second, dead, client>>
    BY <1>7 DEF ReadJwks, identity, clock
  <2>2. CASE Leave(c)
    BY <2>1, <2>2, AgeLeave
  <2>3. CASE ~Leave(c)
    <3>1. PICK r \in Calls :
            /\ Move(c, r)
            /\ r.who = call[c].who /\ r.sent = call[c].sent /\ r.jwt = call[c].jwt
      BY <1>7, <2>3, DocMove
    <3>2. QED
      BY <2>1, <3>1, AgeKept, AgeMove
  <2>4. QED
    BY <2>2, <2>3
<1>8. CASE CacheJwks(c)
  BY <1>8, AgeGoto DEF CacheJwks, At, Labels, identity, clock
<1>9. CASE Verify(c)
  BY <1>9, AgeGoto, AgeLeave DEF Verify, At, Labels, identity, clock
<1>10. CASE Done(c)
  BY <1>10, AgeLeave DEF Done, identity, clock
<1>11. QED
  BY <1>1, <1>2, <1>3, <1>4, <1>5, <1>6, <1>7, <1>8, <1>9, <1>10 DEF CallStep

\* Time, and the death of a credential, leave the last mint where it was or
\* move it on.
LEMMA AgeLater ==
  ASSUME TypeOK, AuthConstantsOK, AgeInv, now' >= now, now' \in Nat,
         second' <= now', now' < second' + Sec,
         \A p \in Clients : dead'[p] <= now' /\ LastMint(p)' >= LastMint(p),
         \A p \in Clients : LastMint(p)' \in Nat,
         UNCHANGED <<client, call>>
  PROVE  AgeInv'
<1>1. \A p \in Clients : LastMint(p) \in Nat /\ client[p].jwt.exp \in Nat
  BY DEF LastMint, TypeOK, Jwts
<1>2. \A c \in Callers :
        /\ call[c].sent \in Nat /\ call[c].jwt.exp \in Nat
        /\ call[c].who \in Clients \cup {None}
  BY DEF TypeOK, Calls, Jwts
<1>3. TTL \in Nat /\ now \in Nat
  BY DEF TypeOK, AuthConstantsOK
<1>4. \A p \in Clients : client[p].jwt.exp <= LastMint(p)' + TTL
  BY <1>1, <1>3 DEF AgeInv
<1>5. \A c \in Callers :
        /\ call[c].sent <= now'
        /\ call[c].who # None => call[c].jwt.exp <= LastMint(call[c].who)' + TTL
  BY <1>1, <1>2, <1>3 DEF AgeInv
<1>6. QED
  BY <1>4, <1>5 DEF AgeInv

LEMMA AgeStep ==
  ASSUME TypeOK, AuthConstantsOK, AgeInv, [Next]_vars
  PROVE  AgeInv'
<1>1. ASSUME NEW c \in Callers, CallStep(c)
      PROVE  AgeInv'
  BY <1>1, AgeCall
<1>2. ASSUME NEW p \in Clients, CredentialDies(p)
      PROVE  AgeInv'
  <2>1. /\ UNCHANGED <<now, second, client, call>>
        /\ dead' = [dead EXCEPT ![p] = now]
    BY <1>2 DEF CredentialDies
  <2>2. dead[p] = 0 /\ now > 0
    BY <1>2 DEF CredentialDies
  <2>3. \A q \in Clients : dead'[q] = IF q = p THEN now ELSE dead[q]
    BY <2>1 DEF TypeOK
  <2>4. second \in Nat /\ now \in Nat /\ second <= now /\ now < second + Sec
    BY DEF TypeOK, AgeInv
  <2>5. \A q \in Clients : /\ LastMint(q)' >= LastMint(q)
                            /\ LastMint(q)' \in Nat
    BY <2>1, <2>2, <2>3, <2>4 DEF LastMint, TypeOK
  <2>6. \A q \in Clients : dead'[q] <= now'
    BY <2>1, <2>3, <2>4 DEF AgeInv
  <2>7. QED
    BY <2>1, <2>4, <2>5, <2>6, AgeLater
<1>3. CASE Rotate
  BY <1>3 DEF Rotate, AgeInv, LastMint, service
<1>4. CASE Restart
  <2>1. \A p : LastMint(p)' = LastMint(p)
    BY <1>4 DEF Restart, LastMint, identity
  <2>2. UNCHANGED <<now, second, dead, client>>
    BY <1>4 DEF Restart, identity
  <2>3. \A c \in Callers : call'[c] = Idle \/ call'[c] = call[c]
    BY <1>4 DEF Restart
  <2>4. Idle.sent <= now /\ Idle.who = None
    BY DEF Idle, TypeOK
  <2>5. QED
    BY <2>1, <2>2, <2>3, <2>4 DEF AgeInv
<1>5. CASE Tick
  <2>1. now' = now + 1 /\ UNCHANGED <<dead, client, call>>
    BY <1>5 DEF Tick, identity
  <2>2. second' = IF now' = second + Sec THEN now' ELSE second
    BY <1>5 DEF Tick
  <2>3. /\ second \in Nat /\ now \in Nat /\ second <= now /\ now < second + Sec
        /\ Sec \in Nat /\ Sec > 0
    BY DEF TypeOK, AgeInv, AuthConstantsOK
  <2>4. /\ second' <= now' /\ now' < second' + Sec
        /\ second' >= second /\ second' \in Nat
    BY <2>1, <2>2, <2>3
  <2>5. \A q \in Clients : LastMint(q)' >= LastMint(q) /\ LastMint(q)' \in Nat
    BY <2>1, <2>3, <2>4 DEF LastMint, TypeOK
  <2>6. \A q \in Clients : dead'[q] <= now'
    BY <2>1, <2>3 DEF AgeInv, TypeOK
  <2>7. now' >= now /\ now' \in Nat
    BY <2>1, <2>3
  <2>8. QED
    BY <2>1, <2>4, <2>5, <2>6, <2>7, AgeLater
<1>6. CASE UNCHANGED vars
  <2>1. \A p : LastMint(p)' = LastMint(p)
    BY <1>6 DEF vars, identity, clock, LastMint
  <2>2. QED
    BY <1>6, <2>1 DEF vars, identity, clock, AgeInv
<1>7. QED
  BY <1>1, <1>2, <1>3, <1>4, <1>5, <1>6 DEF Next

\* No JWT of a client, in its transport or in a request, outlives the last
\* instant at which one could be minted for it by more than TTL.
THEOREM AgeInvariant == Spec => []AgeInv
<1>1. Init => AgeInv
  <2>1. ASSUME Init
        PROVE  AgeInv
    <3>1. TTL \in Nat /\ Sec \in Nat /\ Sec > 0 /\ now = 0 /\ second = 0
      BY <2>1, AuthConstantsOK DEF Init, AuthConstantsOK
    <3>2. \A p \in Clients : LastMint(p) = 0 /\ dead[p] = 0
                              /\ client[p].jwt.exp = 0
      BY <2>1 DEF Init, LastMint, NoJwt
    <3>3. \A c \in Callers : call[c].sent = 0 /\ call[c].who = None
      BY <2>1 DEF Init, Idle
    <3>4. QED
      BY <3>1, <3>2, <3>3 DEF AgeInv
  <2>2. QED
    BY <2>1
<1>2. TypeOK /\ AgeInv /\ [Next]_vars => AgeInv'
  BY AgeStep, AuthConstantsOK
<1>3. QED
  BY <1>1, <1>2, TypeCorrect, PTL DEF Spec

\* No JWT passes TTL or more after its principal's credential died.
THEOREM DeadCredential == Spec => DeadCredentialRunsOut
<1> DEFINE P == \A c \in Callers : Accepts(c) =>
                  LET died == dead[call[c].who] IN died = 0 \/ now < died + TTL
<1>1. ASSUME TypeOK, AgeInv, [Next]_vars, NEW c \in Callers, Accepts(c),
             dead[call[c].who] # 0
      PROVE  now < dead[call[c].who] + TTL
  <2>1. now < call[c].jwt.exp
    BY <1>1, Accepted, AuthConstantsOK DEF Good
  <2>2. call[c].who \in Clients /\ call[c].who # None
    BY <1>1, Working, AuthConstantsOK DEF Accepts, At, AuthConstantsOK
  <2>3. call[c].jwt.exp <= dead[call[c].who] + TTL
    BY <1>1, <2>2 DEF AgeInv, LastMint
  <2>4. call[c].jwt.exp \in Nat /\ dead[call[c].who] \in Nat /\ now \in Nat
    BY <1>1, <2>2 DEF TypeOK, Calls, Jwts
  <2>5. QED
    BY <2>1, <2>3, <2>4, AuthConstantsOK DEF AuthConstantsOK
<1>2. TypeOK /\ AgeInv /\ [Next]_vars => [P]_vars
  BY <1>1
<1>3. QED
  BY <1>2, TypeCorrect, AgeInvariant, PTL DEF Spec, DeadCredentialRunsOut
-----------------------------------------------------------------------------
(* Renewal: the JWT and the expiry a transport holds, and what it returns. *)

RenewLabels == {"exchange", "storejwt", "storeexp"}

\* RenewInv of the locals j of one thread.
RenewLocal(j) ==
  LET held == client[j.who].jwt.exp IN
  /\ j.at = "storejwt" => j.jwt.exp + Sec > j.sent + TTL /\ j.jwt.exp >= held
  /\ j.at = "storeexp" => held + Sec > j.sent + TTL
  /\ j.at = "return" => held + Sec > j.sent + Skew
  /\ j.at \in {"jwks", "cache", "verify"} => j.jwt.exp + Sec > j.sent + Skew

\* No two threads renew for the same client.
OneRenews ==
  \A c, d \in Callers :
    /\ call[c].at \in RenewLabels /\ call[d].at \in RenewLabels
    /\ call[c].who = call[d].who
    => c = d

ExpInTime == \A p \in Clients : client[p].exp < client[p].jwt.exp + Sec

RenewLocals == \A c \in Callers : RenewLocal(call[c])

RenewAll == ~tworenew => ExpInTime /\ OneRenews /\ RenewLocals

LEMMA RenewParts == TypeOK => (RenewInv <=> RenewAll)
<1> SUFFICES ASSUME TypeOK
             PROVE  RenewInv <=> RenewAll
  OBVIOUS
<1>1. \A c \in Callers : call[c].at \in RenewLabels => call[c].who # None
  BY DEF TypeOK, RenewLabels
<1>2. OneRenews <=> \A c, d \in Callers :
        call[c].who # None /\ Renewing(c, call[c].who) /\ Renewing(d, call[c].who)
          => c = d
  BY <1>1 DEF OneRenews, Renewing, RenewLabels
<1>3. QED
  BY <1>2 DEF RenewInv, RenewAll, RenewLocals, ExpInTime, RenewLocal

LEMMA RenewPartsNext == TypeOK' => (RenewInv' <=> RenewAll')
BY RenewParts, PTL

\* RenewInv survives the move of a thread that is in order and does not begin
\* to renew.
LEMMA RenewMove ==
  ASSUME TypeOK, TypeOK', RenewInv, NEW c \in Callers, NEW r \in Calls, Move(c, r),
         ~tworenew => RenewLocal(r),
         r.at \in RenewLabels => call[c].at \in RenewLabels /\ r.who = call[c].who,
         UNCHANGED <<client, tworenew>>
  PROVE  RenewInv'
<1>1. call'[c] = r /\ \A d \in Callers \ {c} : call'[d] = call[d]
  BY DEF Move, TypeOK
<1>2. SUFFICES ASSUME ~tworenew
               PROVE  ExpInTime' /\ OneRenews' /\ RenewLocals'
  BY RenewPartsNext DEF RenewAll
<1>3. ExpInTime /\ OneRenews /\ RenewLocals
  BY <1>2, RenewParts DEF RenewAll
<1>4. ExpInTime'
  BY <1>3 DEF ExpInTime
<1>5. OneRenews'
  BY <1>1, <1>3 DEF OneRenews
<1>6. RenewLocals'
  BY <1>1, <1>2, <1>3 DEF RenewLocals, RenewLocal
<1>7. QED
  BY <1>4, <1>5, <1>6

LEMMA RenewLeave ==
  ASSUME TypeOK, TypeOK', RenewInv, NEW c \in Callers, Leave(c),
         UNCHANGED <<client, tworenew>>
  PROVE  RenewInv'
<1>1. Idle.at \notin RenewLabels /\ RenewLocal(Idle)
  BY IdleTypes DEF RenewLabels, RenewLocal
<1>2. QED
  BY <1>1, RenewMove, IdleTypes DEF Leave

\* A thread that goes on with its locals to a label at which it need not be
\* checked anew.
LEMMA RenewGoto ==
  ASSUME TypeOK, TypeOK', RenewInv, NEW c \in Callers, call[c].at # "idle",
         NEW label \in {"jwks", "verify", "accepted"}, Goto(c, label),
         call[c].at \in {"jwks", "cache", "verify"},
         UNCHANGED <<client, tworenew>>
  PROVE  RenewInv'
<1>1. PICK r \in Calls :
        /\ Move(c, r)
        /\ r.at = label /\ r.who = call[c].who /\ r.sent = call[c].sent
        /\ r.jwt = call[c].jwt
  BY GotoTypes DEF Labels
<1>2. ~tworenew => RenewLocal(r)
  BY <1>1, RenewParts DEF RenewAll, RenewLocals, RenewLocal
<1>3. QED
  BY <1>1, <1>2, RenewMove DEF RenewLabels

LEMMA RenewCheck ==
  ASSUME TypeOK, TypeOK', AuthConstantsOK, RenewInv, NEW c \in Callers, Check(c)
  PROVE  RenewInv'
<1> DEFINE p == call[c].who
<1>1. call[c] \in Calls /\ p \in Clients /\ call[c].at = "check"
  BY Working DEF Check, At
<1>2. client' = client
  BY DEF Check
<1>3. CASE Goto(c, "return") /\ UNCHANGED tworenew
                       /\ call[c].sent + Skew < client[p].exp
  <2>1. PICK r \in Calls :
          /\ Move(c, r)
          /\ r.at = "return" /\ r.who = p /\ r.sent = call[c].sent
    BY <1>1, <1>3, GotoTypes DEF Labels
  <2>2. ASSUME ~tworenew
        PROVE  RenewLocal(r)
    <3>1. client[p].exp < client[p].jwt.exp + Sec
      BY <1>1, <2>2, RenewParts DEF RenewAll, ExpInTime
    <3>2. /\ client[p].exp \in Nat /\ client[p].jwt.exp \in Nat
          /\ call[c].sent \in Nat /\ Skew \in Nat /\ Sec \in Nat
      BY <1>1 DEF TypeOK, Calls, Jwts, AuthConstantsOK
    <3>3. client[p].jwt.exp + Sec > call[c].sent + Skew
      BY <1>3, <3>1, <3>2
    <3>4. QED
      BY <2>1, <3>3 DEF RenewLocal
  <2>3. QED
    BY <1>2, <1>3, <2>1, <2>2, RenewMove DEF RenewLabels
<1>4. CASE Goto(c, "exchange")
           /\ tworenew' = (tworenew \/ \E d \in Callers \ {c} : Renewing(d, p))
  <2>1. PICK r \in Calls : Move(c, r) /\ r.at = "exchange" /\ r.who = p
    BY <1>1, <1>4, GotoTypes DEF Labels
  <2>2. call'[c] = r /\ \A d \in Callers \ {c} : call'[d] = call[d]
    BY <2>1 DEF Move, TypeOK
  <2>3. SUFFICES ASSUME ~tworenew'
                 PROVE  ExpInTime' /\ OneRenews' /\ RenewLocals'
    BY RenewPartsNext DEF RenewAll
  <2>4. ExpInTime /\ OneRenews /\ RenewLocals
    BY <1>4, <2>3, RenewParts DEF RenewAll
  <2>5. \A d \in Callers \ {c} : ~Renewing(d, p)
    BY <1>4, <2>3
  <2>6. ExpInTime'
    BY <1>2, <2>4 DEF ExpInTime
  <2>7. OneRenews'
    BY <2>1, <2>2, <2>4, <2>5 DEF OneRenews, Renewing, RenewLabels
  <2>8. RenewLocals'
    BY <1>2, <2>1, <2>2, <2>4 DEF RenewLocals, RenewLocal
  <2>9. QED
    BY <2>6, <2>7, <2>8
<1>5. QED
  BY <1>3, <1>4 DEF Check

LEMMA RenewExchange ==
  ASSUME TypeOK, TypeOK', AuthConstantsOK, AgeInv, RenewInv,
         NEW c \in Callers, Exchange(c)
  PROVE  RenewInv'
<1>1. UNCHANGED <<client, tworenew>>
  BY DEF Exchange
<1>2. CASE Leave(c)
  BY <1>1, <1>2, RenewLeave
<1>3. CASE ~Leave(c)
  <2>1. PICK r \in Calls :
          /\ Move(c, r)
          /\ r.at = "storejwt" /\ r.who = call[c].who /\ r.sent = call[c].sent
          /\ r.jwt.exp = second + TTL
    BY <1>3, MintMove DEF Exchange
  <2>2. call[c] \in Calls /\ call[c].who \in Clients
    BY Working DEF Exchange, At
  <2>3. client[call[c].who].jwt.exp <= second + TTL
    BY <1>3, <2>2 DEF Exchange, AgeInv, LastMint
  <2>4. /\ call[c].sent <= now /\ call[c].sent \in Nat /\ now \in Nat
        /\ second \in Nat /\ Sec \in Nat /\ now < second + Sec
        /\ TTL \in Nat
    BY <2>2 DEF AgeInv, TypeOK, Calls, AuthConstantsOK
  <2>5. r.jwt.exp + Sec > r.sent + TTL
    BY <2>1, <2>4
  <2>6. r.jwt.exp >= client[r.who].jwt.exp
    <3>1. client[call[c].who].jwt.exp \in Nat
      BY <2>2 DEF TypeOK, Jwts
    <3>2. QED
      BY <2>1, <2>3, <2>4, <3>1
  <2>7. RenewLocal(r)
    BY <2>1, <2>5, <2>6 DEF RenewLocal
  <2>8. QED
    BY <1>1, <2>1, <2>7, RenewMove DEF RenewLabels, Exchange, At
<1>4. QED
  BY <1>2, <1>3

LEMMA RenewStoreJwt ==
  ASSUME TypeOK, TypeOK', AuthConstantsOK, RenewInv, NEW c \in Callers, StoreJwt(c)
  PROVE  RenewInv'
<1> DEFINE p == call[c].who
<1>1. call[c] \in Calls /\ p \in Clients /\ call[c].at = "storejwt"
  BY Working DEF StoreJwt, At
<1>2. PICK r \in Calls :
        /\ Move(c, r)
        /\ r.at = "storeexp" /\ r.who = p /\ r.sent = call[c].sent
  BY <1>1, GotoTypes DEF StoreJwt, Labels
<1>3. call'[c] = r /\ \A d \in Callers \ {c} : call'[d] = call[d]
  BY <1>2 DEF Move, TypeOK
<1>4. /\ client'[p].jwt = call[c].jwt
      /\ \A q \in Clients : client'[q].exp = client[q].exp
      /\ \A q \in Clients \ {p} : client'[q].jwt = client[q].jwt
  BY <1>1 DEF StoreJwt, TypeOK
<1>5. SUFFICES ASSUME ~tworenew
               PROVE  ExpInTime' /\ OneRenews' /\ RenewLocals'
  BY RenewPartsNext DEF RenewAll, StoreJwt
<1>6. ExpInTime /\ OneRenews /\ RenewLocals
  BY <1>5, RenewParts DEF RenewAll
<1>7. /\ call[c].jwt.exp + Sec > call[c].sent + TTL
      /\ call[c].jwt.exp >= client[p].jwt.exp
  BY <1>1, <1>6 DEF RenewLocals, RenewLocal
<1>8. /\ \A q \in Clients : /\ client[q].exp \in Nat
                             /\ client[q].jwt.exp \in Nat
      /\ \A d \in Callers : call[d].jwt.exp \in Nat /\ call[d].sent \in Nat
      /\ TTL \in Nat /\ Skew \in Nat /\ Sec \in Nat
  BY DEF TypeOK, Calls, Jwts, AuthConstantsOK
<1>9. \A q \in Clients : client'[q].jwt.exp >= client[q].jwt.exp
  BY <1>4, <1>7, <1>8
<1>10. ExpInTime'
  <2>1. ASSUME NEW q \in Clients
        PROVE  client'[q].exp < client'[q].jwt.exp + Sec
    <3>1. client'[q].jwt.exp \in Nat
      BY DEF TypeOK, Jwts
    <3>2. client[q].exp < client[q].jwt.exp + Sec
      BY <1>6 DEF ExpInTime
    <3>3. client'[q].jwt.exp >= client[q].jwt.exp /\ client'[q].exp = client[q].exp
      BY <1>4, <1>9
    <3>4. QED
      BY <1>8, <3>1, <3>2, <3>3
  <2>2. QED
    BY <2>1 DEF ExpInTime
<1>11. OneRenews'
  BY <1>1, <1>2, <1>3, <1>6 DEF OneRenews, RenewLabels
<1>12. ASSUME NEW d \in Callers
       PROVE  RenewLocal(call[d])'
  <2>1. CASE d = c
    BY <1>2, <1>3, <1>4, <1>7, <2>1 DEF RenewLocal
  <2>2. CASE d # c
    <3>1. call'[d] = call[d] /\ RenewLocal(call[d])
      BY <1>3, <1>6, <2>2 DEF RenewLocals
    <3>2. CASE call[d].at \in {"storejwt", "storeexp"}
      <4>1. call[d].who \in Clients /\ call[d].who # p
        BY <1>1, <1>6, <2>2, <3>2, Working DEF OneRenews, RenewLabels
      <4>2. client'[call[d].who].jwt = client[call[d].who].jwt
        BY <1>4, <4>1
      <4>3. QED
        BY <3>1, <3>2, <4>2 DEF RenewLocal
    <3>3. CASE call[d].at = "return"
      <4>1. call[d].who \in Clients
        BY <3>3, Working
      <4>2. client[call[d].who].jwt.exp + Sec > call[d].sent + Skew
        BY <3>1, <3>3 DEF RenewLocal
      <4>3. client'[call[d].who].jwt.exp \in Nat
        BY <4>1 DEF TypeOK, Jwts
      <4>4. client'[call[d].who].jwt.exp + Sec > call[d].sent + Skew
        BY <1>8, <1>9, <4>1, <4>2, <4>3
      <4>5. QED
        BY <3>1, <3>3, <4>4 DEF RenewLocal
    <3>4. CASE call[d].at \notin {"storejwt", "storeexp", "return"}
      BY <3>1, <3>4 DEF RenewLocal
    <3>5. QED
      BY <3>2, <3>3, <3>4
  <2>3. QED
    BY <2>1, <2>2
<1>13. QED
  BY <1>10, <1>11, <1>12 DEF RenewLocals

LEMMA RenewStoreExp ==
  ASSUME TypeOK, TypeOK', AuthConstantsOK, RenewInv, NEW c \in Callers, StoreExp(c)
  PROVE  RenewInv'
<1> DEFINE p == call[c].who
<1>1. call[c] \in Calls /\ p \in Clients /\ call[c].at = "storeexp"
  BY Working DEF StoreExp, At
<1>2. PICK r \in Calls :
        /\ Move(c, r)
        /\ r.at = "return" /\ r.who = p /\ r.sent = call[c].sent
  BY <1>1, GotoTypes DEF StoreExp, Labels
<1>3. call'[c] = r /\ \A d \in Callers \ {c} : call'[d] = call[d]
  BY <1>2 DEF Move, TypeOK
<1>4. /\ client'[p].exp = call[c].sent + TTL
      /\ \A q \in Clients : client'[q].jwt = client[q].jwt
      /\ \A q \in Clients \ {p} : client'[q].exp = client[q].exp
  BY <1>1 DEF StoreExp, TypeOK
<1>5. SUFFICES ASSUME ~tworenew
               PROVE  ExpInTime' /\ OneRenews' /\ RenewLocals'
  BY RenewPartsNext DEF RenewAll, StoreExp
<1>6. ExpInTime /\ OneRenews /\ RenewLocals
  BY <1>5, RenewParts DEF RenewAll
<1>7. client[p].jwt.exp + Sec > call[c].sent + TTL
  BY <1>1, <1>6 DEF RenewLocals, RenewLocal
<1>8. ExpInTime'
  BY <1>4, <1>6, <1>7 DEF ExpInTime
<1>9. OneRenews'
  BY <1>1, <1>2, <1>3, <1>6 DEF OneRenews, RenewLabels
<1>10. ASSUME NEW d \in Callers
       PROVE  RenewLocal(call[d])'
  <2>1. CASE d = c
    <3>1. client[p].jwt.exp + Sec > call[c].sent + Skew
      <4>1. /\ client[p].jwt.exp \in Nat /\ call[c].sent \in Nat /\ Sec \in Nat
            /\ TTL \in Nat /\ Skew \in Nat /\ Skew < TTL
        BY <1>1 DEF TypeOK, Calls, Jwts, AuthConstantsOK
      <4>2. QED
        BY <1>7, <4>1
    <3>2. QED
      BY <1>1, <1>2, <1>3, <1>4, <2>1, <3>1 DEF RenewLocal
  <2>2. CASE d # c
    <3>1. call'[d] = call[d] /\ RenewLocal(call[d])
      BY <1>3, <1>6, <2>2 DEF RenewLocals
    <3>2. CASE call[d].at \in {"storejwt", "storeexp", "return"}
      <4>1. client'[call[d].who].jwt = client[call[d].who].jwt
        BY <1>4, <3>2, Working
      <4>2. QED
        BY <3>1, <4>1 DEF RenewLocal
    <3>3. CASE call[d].at \notin {"storejwt", "storeexp", "return"}
      BY <3>1, <3>3 DEF RenewLocal
    <3>4. QED
      BY <3>2, <3>3
  <2>3. QED
    BY <2>1, <2>2
<1>11. QED
  BY <1>8, <1>9, <1>10 DEF RenewLocals

LEMMA RenewReturn ==
  ASSUME TypeOK, TypeOK', RenewInv, NEW c \in Callers, Return(c)
  PROVE  RenewInv'
<1>1. PICK r \in Calls :
        /\ Move(c, r)
        /\ r.at = "jwks" /\ r.who = call[c].who /\ r.sent = call[c].sent
        /\ r.jwt = client[call[c].who].jwt
  BY ReturnMove
<1>2. ~tworenew => RenewLocal(r)
  BY <1>1, RenewParts DEF RenewAll, RenewLocals, RenewLocal, Return, At
<1>3. QED
  BY <1>1, <1>2, RenewMove DEF Return, RenewLabels

LEMMA RenewReadJwks ==
  ASSUME TypeOK, TypeOK', RenewInv, NEW c \in Callers, ReadJwks(c)
  PROVE  RenewInv'
<1>1. UNCHANGED <<client, tworenew>>
  BY DEF ReadJwks
<1>2. CASE Leave(c)
  BY <1>1, <1>2, RenewLeave
<1>3. CASE ~Leave(c)
  <2>1. PICK r \in Calls :
          /\ Move(c, r)
          /\ r.at \in {"verify", "cache"} /\ r.who = call[c].who
          /\ r.sent = call[c].sent /\ r.jwt = call[c].jwt
    BY <1>3, DocMove
  <2>2. ~tworenew => RenewLocal(r)
    BY <2>1, RenewParts DEF RenewAll, RenewLocals, RenewLocal, ReadJwks, At
  <2>3. QED
    BY <1>1, <2>1, <2>2, RenewMove DEF RenewLabels
<1>4. QED
  BY <1>2, <1>3

LEMMA RenewStep ==
  ASSUME TypeOK, AuthConstantsOK, AgeInv, RenewInv, [Next]_vars
  PROVE  RenewInv'
<1>a. TypeOK'
  BY TypeStep
<1>1. ASSUME NEW c \in Callers, CallStep(c)
      PROVE  RenewInv'
  <2>1. ASSUME NEW p \in Clients, Start(c, p)
        PROVE  RenewInv'
    <3>1. PICK r \in Calls : Move(c, r) /\ r.at = "check"
      BY <2>1, StartMove
    <3>2. QED
      BY <1>a, <2>1, <3>1, RenewMove DEF Start, RenewLabels, RenewLocal
  <2>2. CASE CacheJwks(c)
    BY <1>a, <2>2, RenewGoto DEF CacheJwks, At
  <2>3. CASE Verify(c)
    BY <1>a, <2>3, RenewGoto, RenewLeave DEF Verify, At
  <2>4. CASE Done(c)
    BY <1>a, <2>4, RenewLeave DEF Done
  <2>5. QED
    BY <1>a, <1>1, <2>1, <2>2, <2>3, <2>4, RenewCheck, RenewExchange,
       RenewStoreJwt, RenewStoreExp, RenewReturn, RenewReadJwks DEF CallStep
<1>2. CASE Restart
  <2>1. UNCHANGED <<client, tworenew>>
    BY <1>2 DEF Restart
  <2>2. \A c \in Callers : call'[c] = Idle \/ call'[c] = call[c]
    BY <1>2 DEF Restart
  <2>3. SUFFICES ASSUME ~tworenew
                 PROVE  ExpInTime' /\ OneRenews' /\ RenewLocals'
    BY <1>a, <2>1, RenewPartsNext DEF RenewAll
  <2>4. ExpInTime /\ OneRenews /\ RenewLocals
    BY <2>3, RenewParts DEF RenewAll
  <2>5. ExpInTime'
    BY <2>1, <2>4 DEF ExpInTime
  <2>6. OneRenews'
    BY <2>2, <2>4, IdleTypes DEF OneRenews, RenewLabels
  <2>7. RenewLocals'
    BY <2>1, <2>2, <2>4, IdleTypes DEF RenewLocals, RenewLocal
  <2>8. QED
    BY <2>5, <2>6, <2>7
<1>3. CASE UNCHANGED <<client, call, tworenew>>
  BY <1>3 DEF RenewInv, Renewing
<1>4. QED
  BY <1>1, <1>2, <1>3 DEF Next, CredentialDies, Rotate, Tick, vars

\* Unless two threads have renewed at once, whatever _bearer returns lasts Skew
\* longer than the clock reading it decided by, less the second by which the
\* identity service may date it back (int(now), identity/app.py).
THEOREM RenewInvariant == Spec => []RenewInv
<1>1. Init => RenewInv
  <2>1. Sec \in Nat /\ 0 < 0 + Sec
    BY AuthConstantsOK DEF AuthConstantsOK
  <2>2. QED
    BY <2>1, IdleTypes DEF Init, RenewInv, Renewing, NoJwt
<1>2. TypeOK /\ AgeInv /\ RenewInv /\ [Next]_vars => RenewInv'
  BY RenewStep, AuthConstantsOK
<1>3. QED
  BY <1>1, <1>2, TypeCorrect, AgeInvariant, PTL DEF Spec

\* As long as no two threads of a client have renewed at once, a JWT has not run
\* out when it is verified within Skew, less a second, of the clock reading
\* _bearer decided by.
THEOREM Fresh == Spec => []FreshBearer
<1>1. ASSUME TypeOK, RenewInv, NEW c \in Callers,
             call[c].at \in {"jwks", "cache", "verify"}, ~tworenew,
             now + Sec <= call[c].sent + Skew
      PROVE  now < call[c].jwt.exp
  <2>1. call[c].jwt.exp + Sec > call[c].sent + Skew
    BY <1>1 DEF RenewInv
  <2>2. /\ call[c].jwt.exp \in Nat /\ call[c].sent \in Nat /\ now \in Nat
        /\ Skew \in Nat /\ Sec \in Nat
    BY <1>1, AuthConstantsOK DEF TypeOK, Calls, Jwts, AuthConstantsOK
  <2>3. QED
    BY <1>1, <2>1, <2>2
<1>2. TypeOK /\ RenewInv => FreshBearer
  BY <1>1 DEF FreshBearer
<1>3. QED
  BY <1>2, TypeCorrect, RenewInvariant, PTL
=============================================================================
