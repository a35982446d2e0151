------------------------- MODULE VaultAccessProofs -------------------------
(***************************************************************************)
(* Proofs about VaultAccess, for every set of callers and principals and   *)
(* every number of changes.                                                *)
(***************************************************************************)
EXTENDS VaultAccess, TLAPS

\* Generations are numbered from 1, and none is given twice.
GensOK ==
  /\ conn.gen <= made
  /\ conn # NoConn => conn.gen >= 1

\* The principal of the call could use some connection meanwhile, and the one
\* the call has read, if that is still there.
Known(c) ==
  /\ ever[c] # {}
  /\ conn.gen = call[c].seen.gen => call[c].seen.gen \in ever[c]

\* What a call relies on after each of its reads: the owner is that of a
\* generation it read, the rows are of a moment at which they were there, and
\* past the decision one of the two, or a grant of identity, has let it in.
CallOK(c) ==
  call[c].at \in InService =>
    /\ call[c].seen.gen \in 1..made
    /\ call[c].seen.by = call[c].who => call[c].seen.gen \in ever[c]
    /\ call[c].at # "rows" /\ call[c].rows # {} => Known(c)
    /\ call[c].at \in {"refresh", "answer"} => Known(c)
    /\ call[c].at = "answer" /\ call[c].got = call[c].seen.gen
         => call[c].got \in ever[c]

AnswerInv == GensOK /\ \A c \in Callers : CallOK(c)

\* What makes RouteIsManaged inductive: the owner counts as rightful from the
\* start, the rows a route has read stay, and a "manage" row has its root.
RouteInv ==
  /\ RouteIsManaged
  /\ route.at # "idle" /\ route.seen.by = route.who => rightful
  /\ route.at = "authorize" => route.rows \subseteq vgrants
  /\ "manage" \in vgrants => rooted

-----------------------------------------------------------------------------
(* Typing. *)

LEMMA HistoryTyped ==
  ASSUME Observe
  PROVE  rightful' \in BOOLEAN /\ rooted' \in BOOLEAN
<1>1. rightful' = (route'.at # "idle" /\ (rightful \/ Rightful(route.who)'))
  BY DEF Observe
<1>2. rooted' = (rooted \/ (rightful /\ "manage" \in vgrants' \ vgrants))
  BY DEF Observe
<1>3. rightful' \in BOOLEAN
  BY <1>1
<1>4. rooted' \in BOOLEAN
  BY <1>2
<1>5. QED
  BY <1>3, <1>4

\* A step of a call that leaves it well typed.
LEMMA MoveTyped ==
  ASSUME TypeOK, NEW c \in Callers, NEW j \in Calls, Move(c, j),
         j.who = None <=> j.at = "idle", UNCHANGED <<store, identity, route, changes>>,
         Observe
  PROVE  TypeOK'
<1>1. call' = [call EXCEPT ![c] = j] /\ call' \in [Callers -> Calls]
  BY DEF Move, TypeOK
<1>2. conn'.gen \in Nat
  BY DEF TypeOK, Conns, store
<1>3. ever' \in [Callers -> SUBSET Nat]
  BY <1>2 DEF Observe, Usable, TypeOK
<1>4. rightful' \in BOOLEAN /\ rooted' \in BOOLEAN
  BY HistoryTyped
<1>5. QED
  BY <1>1, <1>3, <1>4 DEF TypeOK, store, identity

\* A step around the calls that leaves the rest well typed.
LEMMA AroundTyped ==
  ASSUME TypeOK, Observe, UNCHANGED call \/ call' = [c \in Callers |-> Idle],
         conn' \in Conns, made' \in Nat, changes' \in Nat,
         vgrants' \subseteq Access, igrants' \subseteq Principals \X Access,
         revoked' \subseteq igrants', route' \in Routes
  PROVE  TypeOK'
<1>1. Idle \in Calls /\ Idle.at = "idle" /\ Idle.who = None
  BY DEF Idle, Calls, NoConn, Conns, Access
<1>2. call' \in [Callers -> Calls]
      /\ \A c \in Callers : call'[c].who = None <=> call'[c].at = "idle"
  BY <1>1 DEF TypeOK
<1>3. conn'.gen \in Nat
  BY DEF Conns
<1>4. ever' \in [Callers -> SUBSET Nat]
  BY <1>3 DEF Observe, Usable, TypeOK
<1>5. rightful' \in BOOLEAN /\ rooted' \in BOOLEAN
  BY HistoryTyped
<1>6. QED
  BY <1>2, <1>4, <1>5 DEF TypeOK

\* Every reachable state is well typed.
THEOREM AccessTypeCorrect == Spec => []TypeOK
<1> USE AccessConstantsOK
<1>1. Init => TypeOK
  <2>1. Idle \in Calls /\ Idle.at = "idle" /\ Idle.who = None
        /\ NoRoute \in Routes /\ NoConn \in Conns
    BY DEF Idle, Calls, NoRoute, Routes, NoConn, Conns, Access
  <2>2. Init => rightful \in BOOLEAN /\ rooted \in BOOLEAN
    BY DEF Init
  <2>3. QED
    BY <2>1, <2>2 DEF Init, TypeOK, Conns
<1>2. ASSUME TypeOK, Next
      PROVE  TypeOK'
  <2> USE <1>2 DEF Next
  <2>1. ASSUME NEW c \in Callers, NEW p \in Principals, Start(c, p)
        PROVE  TypeOK'
    <3>1. [Idle EXCEPT !.at = "getconn", !.who = p] \in Calls
      BY DEF Idle, Calls, NoConn, Conns, Access
    <3>2. [Idle EXCEPT !.at = "getconn", !.who = p].who = p
          /\ [Idle EXCEPT !.at = "getconn", !.who = p].at = "getconn"
      BY DEF Idle
    <3>3. QED
      BY <2>1, <3>1, <3>2, MoveTyped DEF Start
  <2>2. ASSUME NEW c \in Callers, Leave(c),
               UNCHANGED <<store, identity, route, changes>>
        PROVE  TypeOK'
    <3>1. Idle \in Calls /\ Idle.at = "idle" /\ Idle.who = None
      BY DEF Idle, Calls, NoConn, Conns, Access
    <3>2. QED
      BY <2>2, <3>1, MoveTyped DEF Leave
  <2>3. ASSUME NEW c \in Callers, NEW j \in Calls, Move(c, j),
               call[c].at # "idle", j.who = call[c].who, j.at # "idle",
               UNCHANGED <<store, identity, route, changes>>
        PROVE  TypeOK'
    BY <2>3, MoveTyped DEF TypeOK
  <2>4. ASSUME NEW c \in Callers, GetConn(c)
        PROVE  TypeOK'
    <3>1. CASE Leave(c)
      BY <2>4, <3>1, <2>2 DEF GetConn
    <3>2. CASE ~Leave(c)
      <4>1. [call[c] EXCEPT !.at = "rows", !.seen = conn] \in Calls
        BY DEF TypeOK, Calls
      <4>2. QED
        BY <2>4, <3>2, <4>1, <2>3 DEF GetConn, At, TypeOK, Calls
    <3>3. QED
      BY <3>1, <3>2
  <2>5. ASSUME NEW c \in Callers, ReadGrants(c)
        PROVE  TypeOK'
    <3>1. [call[c] EXCEPT !.at = "authorize", !.rows = vgrants] \in Calls
      BY DEF TypeOK, Calls
    <3>2. QED
      BY <2>5, <3>1, <2>3 DEF ReadGrants, At, TypeOK, Calls
  <2>6. ASSUME NEW c \in Callers, Authorize(c)
        PROVE  TypeOK'
    <3>1. CASE Leave(c)
      BY <2>6, <3>1, <2>2 DEF Authorize
    <3>2. CASE ~Leave(c)
      <4>1. [call[c] EXCEPT !.at = "refresh"] \in Calls
        BY DEF TypeOK, Calls
      <4>2. QED
        BY <2>6, <3>2, <4>1, <2>3 DEF Authorize, Goto, At, TypeOK, Calls
    <3>3. QED
      BY <3>1, <3>2
  <2>7. ASSUME NEW c \in Callers, Refresh(c)
        PROVE  TypeOK'
    <3>1. CASE Leave(c)
      BY <2>7, <3>1, <2>2 DEF Refresh
    <3>2. CASE ~Leave(c)
      <4>1. [call[c] EXCEPT !.at = "answer", !.got = conn.gen] \in Calls
        BY DEF TypeOK, Calls, Conns
      <4>2. QED
        BY <2>7, <3>2, <4>1, <2>3 DEF Refresh, At, TypeOK, Calls
    <3>3. QED
      BY <3>1, <3>2
  <2>8. ASSUME NEW c \in Callers, Answer(c)
        PROVE  TypeOK'
    BY <2>8, <2>2 DEF Answer
  <2>9. CASE RouteStep
    <3>1. NoRoute \in Routes /\ NoConn \in Conns
      BY DEF NoRoute, Routes, NoConn, Conns, Access
    <3> USE <2>9, <3>1, AroundTyped
            DEF TypeOK, Change, store, identity, Conns, Routes
    <3>2. ASSUME NEW p \in Principals, Import(p)
          PROVE  TypeOK'
      BY <3>2 DEF Import
    <3>3. ASSUME NEW p \in Principals, NEW o \in {"grant", "revoke"},
                 RouteBegin(p, o)
          PROVE  TypeOK'
      BY <3>3 DEF RouteBegin
    <3>4. CASE RouteRows
      BY <3>4 DEF RouteRows
    <3>5. CASE RouteAuthorize
      BY <3>5 DEF RouteAuthorize
    <3>6. CASE Grant
      BY <3>6 DEF Grant
    <3>7. CASE Revoke
      BY <3>7 DEF Revoke
    <3>8. QED
      BY <3>2, <3>3, <3>4, <3>5, <3>6, <3>7 DEF RouteStep
  <2>10. ASSUME NEW p \in Principals, NEW a \in Access,
                AddGrant(p, a) \/ RevokeGrant(p, a)
         PROVE  TypeOK'
    BY <2>10, AroundTyped DEF AddGrant, RevokeGrant, TypeOK, Change, store
  <2>11. CASE Restart
    <3>1. NoRoute \in Routes
      BY DEF NoRoute, Routes, NoConn, Conns, Access
    <3>2. QED
      BY <2>11, <3>1, AroundTyped DEF Restart, TypeOK, Change, store, identity
  <2>12. QED
    BY <2>1, <2>4, <2>5, <2>6, <2>7, <2>8, <2>9, <2>10, <2>11
       DEF Step, CallStep
<1>3. ASSUME TypeOK, UNCHANGED vars
      PROVE  TypeOK'
  BY <1>3 DEF vars, TypeOK
<1>4. QED
  BY <1>1, <1>2, <1>3, PTL DEF Spec

-----------------------------------------------------------------------------
(* The managing routes. *)

\* A grant that lets one manage says "manage".
LEMMA ManageOnly ==
  ASSUME NEW have \in Access, Satisfies(have, "manage")
  PROVE  have = "manage"
BY DEF Satisfies, Rank, Access

\* What Observe notes of a route that is under way.
LEMMA Noted ==
  ASSUME Observe, route'.at # "idle",
         rightful \/ conn'.by = route'.who \/ "manage" \in Live(route.who)'
  PROVE  rightful'
<1>1. rightful' = (route'.at # "idle" /\ (rightful \/ Rightful(route.who)'))
  BY DEF Observe
<1>2. Rightful(route.who)'
        = (conn'.by = route'.who \/ "manage" \in Live(route.who)')
  BY DEF Rightful
<1>3. QED
  BY <1>1, <1>2

\* What Observe notes of the vault's rows.
LEMMA RootNoted ==
  ASSUME Observe, rooted \/ (rightful /\ "manage" \in vgrants' \ vgrants)
  PROVE  rooted'
BY DEF Observe

\* A step that leaves the connection, the vault's rows and the route alone.
LEMMA RouteKept ==
  ASSUME RouteInv, Observe, UNCHANGED <<conn, vgrants, route>>
  PROVE  RouteInv'
<1>1. route.at # "idle" /\ rightful => rightful'
  BY Noted
<1>2. rooted => rooted'
  BY RootNoted
<1>3. QED
  BY <1>1, <1>2 DEF RouteInv, RouteIsManaged

\* A step at whose end no route is under way.
LEMMA RouteOver ==
  ASSUME route'.at = "idle", "manage" \in vgrants' => rooted'
  PROVE  RouteInv'
BY DEF RouteInv, RouteIsManaged

\* Rows read by a route stay, so what it was let in by is still there; a
\* "manage" row is stored only for one who was rightful, or let in by another.
LEMMA RouteStepOK ==
  ASSUME TypeOK, RouteInv, RouteStep, Observe
  PROVE  RouteInv'
<1>1. NoRoute.at = "idle"
  BY DEF NoRoute
<1>2. rooted => rooted'
  BY RootNoted
<1>3. ASSUME NEW p \in Principals, Import(p)
      PROVE  RouteInv'
  BY <1>2, <1>3, RouteOver DEF Import, RouteInv
<1>4. ASSUME NEW p \in Principals, NEW o \in {"grant", "revoke"},
             RouteBegin(p, o)
      PROVE  RouteInv'
  <2>1. /\ route'.at = "rows" /\ route'.who = p /\ route'.seen = conn
        /\ UNCHANGED <<conn, vgrants>>
    BY <1>4 DEF RouteBegin, store
  <2>2. conn'.by = route'.who => rightful'
    BY <2>1, Noted
  <2>3. QED
    BY <1>2, <2>1, <2>2 DEF RouteInv, RouteIsManaged
<1>5. CASE RouteRows
  <2>1. /\ route'.at = "authorize" /\ route'.rows = vgrants
        /\ route'.seen = route.seen /\ route'.who = route.who
        /\ UNCHANGED <<conn, vgrants>> /\ route.at = "rows"
    BY <1>5 DEF RouteRows, TypeOK, Routes, store
  <2>2. rightful => rightful'
    BY <2>1, Noted
  <2>3. QED
    BY <1>2, <2>1, <2>2 DEF RouteInv, RouteIsManaged
<1>6. CASE RouteAuthorize
  <2>1. UNCHANGED <<conn, vgrants, igrants, revoked>> /\ route.at = "authorize"
    BY <1>6 DEF RouteAuthorize, store, identity
  <2>2. CASE route' = NoRoute
    BY <1>1, <1>2, <2>1, <2>2, RouteOver DEF RouteInv
  <2>3. CASE route' # NoRoute
    <3>1. /\ Allowed(route.who, "manage", route.seen, route.rows)
          /\ route' = [route EXCEPT !.at = "act"]
      BY <1>6, <2>3 DEF RouteAuthorize
    <3>2. route'.at = "act" /\ route'.who = route.who /\ route'.seen = route.seen
      BY <3>1 DEF TypeOK, Routes
    <3>3. rightful => rightful'
      BY <3>2, Noted
    <3>4. rightful' \/ (rooted' /\ "manage" \in vgrants')
      <4>1. CASE route.seen.by = route.who
        BY <2>1, <3>3, <4>1 DEF RouteInv
      <4>2. CASE route.seen.by # route.who
        <5>1. PICK have \in route.rows \cup Live(route.who) :
                     Satisfies(have, "manage")
          BY <3>1, <4>2 DEF Allowed
        <5>2. have = "manage"
          BY <5>1, ManageOnly DEF Live, TypeOK, Routes
        <5>3. CASE "manage" \in route.rows
          BY <1>2, <2>1, <5>3 DEF RouteInv
        <5>4. CASE "manage" \in Live(route.who)
          <6>1. "manage" \in Live(route.who)'
            BY <2>1, <3>2, <5>4 DEF Live
          <6>2. QED
            BY <3>2, <6>1, Noted
        <5>5. QED
          BY <5>1, <5>2, <5>3, <5>4
      <4>3. QED
        BY <4>1, <4>2
    <3>5. QED
      BY <1>2, <2>1, <3>2, <3>3, <3>4 DEF RouteInv, RouteIsManaged
  <2>4. QED
    BY <2>2, <2>3
<1>7. CASE Grant
  <2>1. route'.at = "idle" /\ route.at = "act"
    BY <1>1, <1>7 DEF Grant
  <2>2. rightful \/ rooted
    BY <2>1 DEF RouteInv, RouteIsManaged
  <2>3. "manage" \in vgrants' => rooted'
    BY <1>2, <2>2, RootNoted DEF RouteInv
  <2>4. QED
    BY <2>1, <2>3, RouteOver
<1>8. CASE Revoke
  BY <1>1, <1>2, <1>8, RouteOver DEF Revoke, RouteInv
<1>9. QED
  BY <1>3, <1>4, <1>5, <1>6, <1>7, <1>8 DEF RouteStep

\* A route that manages acts on the connection it checked, for one who owned
\* it, held a live "manage" grant of identity since the route read it, or was
\* let in by a "manage" row of the vault, the first of which was given out by
\* one who could manage in his own right.
THEOREM ManagedRoute == Spec => []RouteIsManaged
<1>1. Init => RouteInv
  BY DEF Init, RouteInv, RouteIsManaged, NoRoute
<1>2. ASSUME TypeOK, RouteInv, Next
      PROVE  RouteInv'
  <2> USE <1>2
  <2>a. Step /\ Observe
    BY DEF Next
  <2>1. ASSUME NEW c \in Callers, CallStep(c)
        PROVE  RouteInv'
    <3>1. UNCHANGED <<conn, vgrants, route>>
      BY <2>1 DEF CallStep, Start, GetConn, ReadGrants, Authorize, Refresh,
                  Answer, store
    <3>2. QED
      BY <2>a, <3>1, RouteKept
  <2>2. ASSUME NEW p \in Principals, NEW a \in Access,
               AddGrant(p, a) \/ RevokeGrant(p, a)
        PROVE  RouteInv'
    BY <2>a, <2>2, RouteKept DEF AddGrant, RevokeGrant, store
  <2>3. CASE Restart
    <3>1. route'.at = "idle" /\ vgrants' = vgrants
      BY <2>3 DEF Restart, NoRoute, store
    <3>2. rooted => rooted'
      BY <2>a, RootNoted
    <3>3. QED
      BY <2>a, <3>1, <3>2, RouteOver DEF RouteInv
  <2>4. QED
    BY <2>a, <2>1, <2>2, <2>3, RouteStepOK DEF Step
<1>3. ASSUME RouteInv, UNCHANGED vars
      PROVE  RouteInv'
  BY <1>3 DEF vars, RouteInv, RouteIsManaged
<1>4. RouteInv => RouteIsManaged
  BY DEF RouteInv
<1>5. QED
  BY <1>1, <1>2, <1>3, <1>4, AccessTypeCorrect, PTL DEF Spec

-----------------------------------------------------------------------------
(* The answers. *)

\* What a step does to the connection: keeps it, deletes it or makes a new one.
Renewed ==
  /\ made' \in Nat /\ made' >= made
  /\ \/ conn' = conn
     \/ conn' = NoConn
     \/ conn'.gen = made + 1 /\ made' = made + 1

\* A generation that was replaced does not come back, so what is known of the
\* one a call has read stays known while the call is in service.
LEMMA KnownStays ==
  ASSUME TypeOK, NEW c \in Callers, call[c].seen.gen \in 1..made, Known(c),
         Renewed, ever[c] \subseteq ever'[c], call'[c].seen = call[c].seen
  PROVE  Known(c)'
<1>1. NoConn.gen = 0
  BY DEF NoConn
<1>2. made \in Nat /\ call[c].seen.gen \in Nat
  BY DEF TypeOK
<1>3. conn'.gen = call[c].seen.gen => conn' = conn
  BY <1>1, <1>2 DEF Renewed
<1>4. QED
  BY <1>3 DEF Known

\* What Observe adds up for a call in service.
LEMMA Observed ==
  ASSUME NEW c \in Callers, Observe, call'[c].at \in InService
  PROVE  ever'[c] = ever[c] \cup Usable(call[c].who)'
BY DEF Observe

\* One whom the check would let use the connection can use it.
LEMMA AllowedUses ==
  ASSUME NEW p, Allowed(p, "use", conn, vgrants)
  PROVE  conn.gen \in Usable(p)
BY DEF Usable

\* Every access satisfies "use".
LEMMA AnyAccessUses ==
  ASSUME TypeOK, NEW p, vgrants \cup Live(p) # {}
  PROVE  Allowed(p, "use", conn, vgrants)
<1>1. PICK a \in vgrants \cup Live(p) : a \in Access
  BY DEF TypeOK, Live
<1>2. Satisfies(a, "use")
  BY <1>1 DEF Satisfies, Rank, Access
<1>3. QED
  BY <1>1, <1>2 DEF Allowed

\* A call that a step does not move, or takes out of service.
LEMMA CallKept ==
  ASSUME TypeOK, AnswerInv, Observe, Renewed, NEW c \in Callers,
         call'[c] = call[c] \/ call'[c].at \notin InService
  PROVE  CallOK(c)'
<1>1. CASE call'[c].at \notin InService
  BY <1>1 DEF CallOK
<1>2. CASE call'[c] = call[c] /\ call[c].at \in InService
  <2>1. CallOK(c)
    BY DEF AnswerInv
  <2>2. ever[c] \subseteq ever'[c]
    BY <1>2, Observed
  <2>3. call[c].seen.gen \in 1..made'
    BY <1>2, <2>1 DEF CallOK, Renewed, TypeOK
  <2>4. Known(c) => Known(c)'
    BY <1>2, <2>1, <2>2, KnownStays DEF CallOK
  <2>5. QED
    BY <1>2, <2>1, <2>2, <2>3, <2>4 DEF CallOK
<1>3. QED
  BY <1>1, <1>2

\* A step of one call disturbs no other.
LEMMA OthersKept ==
  ASSUME TypeOK, AnswerInv, Observe, UNCHANGED store, NEW c \in Callers, NEW j,
         Move(c, j), CallOK(c)'
  PROVE  AnswerInv'
<1>1. Renewed
  BY DEF Renewed, store, TypeOK
<1>2. ASSUME NEW d \in Callers, d # c
      PROVE  call'[d] = call[d]
  BY <1>2 DEF Move, TypeOK
<1>3. \A d \in Callers : CallOK(d)'
  BY <1>1, <1>2, CallKept
<1>4. GensOK'
  BY DEF GensOK, AnswerInv, store
<1>5. QED
  BY <1>3, <1>4 DEF AnswerInv

\* A call that ends relies on nothing.
LEMMA Left ==
  ASSUME TypeOK, AnswerInv, Observe, UNCHANGED store, NEW c \in Callers, Leave(c)
  PROVE  AnswerInv'
<1>1. call'[c] = Idle
  BY DEF Leave, Move, TypeOK
<1>2. CallOK(c)'
  BY <1>1 DEF CallOK, Idle, InService
<1>3. QED
  BY <1>2, OthersKept DEF Leave

\* The connection read is the one that is there, and its owner may use it.
LEMMA GetConnOK ==
  ASSUME TypeOK, AnswerInv, Observe, NEW c \in Callers, GetConn(c)
  PROVE  AnswerInv'
<1> DEFINE j == [call[c] EXCEPT !.at = "rows", !.seen = conn]
<1>1. CASE Leave(c)
  BY <1>1, Left DEF GetConn
<1>2. CASE conn # NoConn /\ Move(c, j)
  <2>1. UNCHANGED store
    BY DEF GetConn
  <2>2. call'[c] = j /\ call[c] \in Calls
    BY <1>2 DEF Move, TypeOK
  <2>3. j.at = "rows" /\ j.seen = conn /\ j.who = call[c].who
    BY <2>2 DEF Calls
  <2>4. conn.gen \in 1..made
    BY <1>2 DEF AnswerInv, GensOK, TypeOK, Conns
  <2>5. ever'[c] = ever[c] \cup Usable(call[c].who)'
    BY <2>2, <2>3, Observed DEF InService
  <2>6. ASSUME conn.by = call[c].who
        PROVE  conn.gen \in ever'[c]
    BY <2>1, <2>2, <2>3, <2>5, <2>6 DEF Usable, Allowed, store
  <2>7. CallOK(c)'
    BY <2>1, <2>2, <2>3, <2>4, <2>6 DEF CallOK, store
  <2> HIDE DEF j
  <2>8. QED
    BY <1>2, <2>1, <2>7, OthersKept
<1>3. QED
  BY <1>1, <1>2 DEF GetConn

\* Rows read now let the principal use what is there now.
LEMMA ReadGrantsOK ==
  ASSUME TypeOK, AnswerInv, Observe, NEW c \in Callers, ReadGrants(c)
  PROVE  AnswerInv'
<1> DEFINE j == [call[c] EXCEPT !.at = "authorize", !.rows = vgrants]
<1>1. Move(c, j) /\ UNCHANGED <<store, identity>> /\ call[c].at = "rows"
  BY DEF ReadGrants, At
<1>2. call'[c] = j /\ call[c] \in Calls
  BY <1>1 DEF Move, TypeOK
<1>3. j.at = "authorize" /\ j.rows = vgrants /\ j.who = call[c].who
      /\ j.seen = call[c].seen
  BY <1>2 DEF Calls
<1>4. ever'[c] = ever[c] \cup Usable(call[c].who)'
  BY <1>2, <1>3, Observed DEF InService
<1>5. CallOK(c)
  BY DEF AnswerInv
<1>6. ASSUME vgrants # {}
      PROVE  conn.gen \in ever'[c]
  <2>1. conn.gen \in Usable(call[c].who)
    BY <1>6, AnyAccessUses, AllowedUses
  <2>2. Usable(call[c].who)' = Usable(call[c].who)
    BY <1>1, <1>2, <1>3 DEF Usable, Allowed, Live, store, identity
  <2>3. QED
    BY <1>4, <2>1, <2>2
<1>7. CallOK(c)'
  BY <1>1, <1>2, <1>3, <1>4, <1>5, <1>6 DEF CallOK, Known, InService, store
<1> HIDE DEF j
<1>8. QED
  BY <1>1, <1>7, OthersKept

\* Whoever the check lets in could use the connection, by what was read
\* before or by the grants of identity there are now.
LEMMA AuthorizeOK ==
  ASSUME TypeOK, AnswerInv, Observe, NEW c \in Callers, Authorize(c)
  PROVE  AnswerInv'
<1> DEFINE j == [call[c] EXCEPT !.at = "refresh"]
<1>1. UNCHANGED <<store, identity>> /\ call[c].at = "authorize"
  BY DEF Authorize, At
<1>2. CASE Leave(c)
  BY <1>1, <1>2, Left
<1>3. CASE Allowed(call[c].who, "use", call[c].seen, call[c].rows) /\ Move(c, j)
  <2>1. call'[c] = j /\ call[c] \in Calls
    BY <1>3 DEF Move, TypeOK
  <2>2. j.at = "refresh" /\ j.who = call[c].who /\ j.seen = call[c].seen
    BY <2>1 DEF Calls
  <2>3. ever'[c] = ever[c] \cup Usable(call[c].who)'
    BY <2>1, <2>2, Observed DEF InService
  <2>4. CallOK(c) /\ call[c].at \in InService
    BY <1>1 DEF AnswerInv, InService
  <2>5. ASSUME Live(call[c].who) # {}
        PROVE  Known(c)'
    <3>1. conn.gen \in Usable(call[c].who)
      BY <2>5, AnyAccessUses, AllowedUses
    <3>2. Usable(call[c].who)' = Usable(call[c].who)
      BY <1>1, <2>1, <2>2 DEF Usable, Allowed, Live, store, identity
    <3>3. QED
      BY <1>1, <2>1, <2>2, <2>3, <3>1, <3>2 DEF Known, store
  <2>6. Known(c)'
    <3>1. CASE call[c].seen.by = call[c].who
      BY <1>1, <2>1, <2>2, <2>3, <2>4, <3>1 DEF CallOK, Known, store
    <3>2. CASE call[c].rows # {}
      BY <1>1, <2>1, <2>2, <2>3, <2>4, <3>2 DEF CallOK, Known, store
    <3>3. QED
      BY <1>3, <2>5, <3>1, <3>2 DEF Allowed
  <2>7. CallOK(c)'
    BY <1>1, <2>1, <2>2, <2>3, <2>4, <2>6 DEF CallOK, store
  <2> HIDE DEF j
  <2>8. QED
    BY <1>1, <1>3, <2>7, OthersKept
<1>4. QED
  BY <1>2, <1>3 DEF Authorize, Goto

\* The token is of the connection that is there by now.
LEMMA RefreshOK ==
  ASSUME TypeOK, AnswerInv, Observe, NEW c \in Callers, Refresh(c)
  PROVE  AnswerInv'
<1> DEFINE j == [call[c] EXCEPT !.at = "answer", !.got = conn.gen]
<1>1. UNCHANGED store /\ call[c].at = "refresh"
  BY DEF Refresh, At
<1>2. CASE Leave(c)
  BY <1>1, <1>2, Left
<1>3. CASE Move(c, j)
  <2>1. call'[c] = j /\ call[c] \in Calls
    BY <1>3 DEF Move, TypeOK
  <2>2. j.at = "answer" /\ j.who = call[c].who /\ j.seen = call[c].seen
        /\ j.got = conn.gen
    BY <2>1 DEF Calls
  <2>3. ever'[c] = ever[c] \cup Usable(call[c].who)'
    BY <2>1, <2>2, Observed DEF InService
  <2>4. CallOK(c)
    BY DEF AnswerInv
  <2>5. CallOK(c)'
    BY <1>1, <2>1, <2>2, <2>3, <2>4 DEF CallOK, Known, InService, store
  <2> HIDE DEF j
  <2>6. QED
    BY <1>1, <1>3, <2>5, OthersKept
<1>4. QED
  BY <1>2, <1>3 DEF Refresh

\* A step around the calls keeps what they rely on.
LEMMA AroundOK ==
  ASSUME TypeOK, AnswerInv, Observe, Renewed, GensOK',
         UNCHANGED call \/ call' = [c \in Callers |-> Idle]
  PROVE  AnswerInv'
<1>1. Idle.at \notin InService
  BY DEF Idle, InService
<1>2. \A c \in Callers : CallOK(c)'
  BY <1>1, CallKept
<1>3. QED
  BY <1>2 DEF AnswerInv

\* A call is answered only if its principal could use the connection meanwhile.
THEOREM Entitled == Spec => []EntitledAnswer
<1>1. Init => AnswerInv
  BY DEF Init, AnswerInv, GensOK, CallOK, Idle, InService, NoConn
<1>2. ASSUME TypeOK, AnswerInv, Next
      PROVE  AnswerInv'
  <2> USE <1>2 DEF Next
  <2>1. ASSUME NEW c \in Callers, CallStep(c)
        PROVE  AnswerInv'
    <3>1. ASSUME NEW p \in Principals, Start(c, p)
          PROVE  AnswerInv'
      <4> DEFINE j == [Idle EXCEPT !.at = "getconn", !.who = p]
      <4>1. Move(c, j) /\ UNCHANGED store
        BY <3>1 DEF Start
      <4>2. call'[c] = j /\ j.at = "getconn"
        BY <4>1 DEF Move, TypeOK, Idle
      <4>3. CallOK(c)'
        BY <4>2 DEF CallOK, InService
      <4> HIDE DEF j
      <4>4. QED
        BY <4>1, <4>3, OthersKept
    <3>2. CASE Answer(c)
      BY <3>2, Left DEF Answer
    <3>3. QED
      BY <2>1, <3>1, <3>2, GetConnOK, ReadGrantsOK, AuthorizeOK, RefreshOK
         DEF CallStep
  <2>2. CASE RouteStep
    <3>1. ASSUME UNCHANGED <<conn, made, call>>
          PROVE  AnswerInv'
      BY <3>1, AroundOK DEF Renewed, TypeOK, AnswerInv, GensOK
    <3>2. ASSUME NEW p \in Principals, Import(p)
          PROVE  AnswerInv'
      <4>1. conn'.gen = made + 1 /\ made' = made + 1 /\ UNCHANGED call
        BY <3>2 DEF Import
      <4>2. QED
        BY <4>1, AroundOK DEF Renewed, GensOK, TypeOK
    <3>3. CASE Revoke
      <4>1. conn' = NoConn /\ made' = made /\ UNCHANGED call
        BY <3>3 DEF Revoke
      <4>2. NoConn.gen = 0
        BY DEF NoConn
      <4>3. QED
        BY <4>1, <4>2, AroundOK DEF Renewed, GensOK, TypeOK
    <3>4. QED
      BY <2>2, <3>1, <3>2, <3>3
         DEF RouteStep, RouteBegin, RouteRows, RouteAuthorize, Grant, store
  <2>3. ASSUME NEW p \in Principals, NEW a \in Access,
               AddGrant(p, a) \/ RevokeGrant(p, a)
        PROVE  AnswerInv'
    <3>1. UNCHANGED <<conn, made, call>>
      BY <2>3 DEF AddGrant, RevokeGrant, store
    <3>2. QED
      BY <3>1, AroundOK DEF Renewed, TypeOK, AnswerInv, GensOK
  <2>4. CASE Restart
    BY <2>4, AroundOK DEF Restart, store, Renewed, TypeOK, AnswerInv, GensOK
  <2>5. QED
    BY <2>1, <2>2, <2>3, <2>4 DEF Step
<1>3. ASSUME AnswerInv, UNCHANGED vars
      PROVE  AnswerInv'
  BY <1>3 DEF vars, AnswerInv, GensOK, CallOK, Known
<1>4. AnswerInv => EntitledAnswer
  BY DEF AnswerInv, EntitledAnswer, CallOK, Known, At, InService
<1>5. QED
  BY <1>1, <1>2, <1>3, <1>4, AccessTypeCorrect, PTL DEF Spec
=============================================================================
