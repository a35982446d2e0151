---------------------------- MODULE VaultAccess ----------------------------
(***************************************************************************)
(* Who is let at a connection: AccessService.get_access_token, grant,      *)
(* revoke, import_connection and finish_connect (vault/access.py), with    *)
(* the check of vault/kernel_auth.py over grants in two stores, the        *)
(* vault's and the identity service's.  Principals have been verified      *)
(* (module KernelAuth), and the refresh itself is module VaultRefresh: it  *)
(* returns the token it finds, or fails.                                   *)
(*                                                                         *)
(* The access-token route runs in the vault's thread pool.  The routes     *)
(* that manage are async def around blocking code, so the event loop runs  *)
(* their bodies one at a time.  Identity's grants change at any time.      *)
(*                                                                         *)
(* Abstracted: one connection, which is its owner and a generation, new    *)
(* with every import; a grant on the connection's org covers it as a grant *)
(* on the connection does; organisations match.  The access log is left    *)
(* out: nothing reads it.                                                  *)
(***************************************************************************)
EXTENDS Integers

CONSTANTS
  Callers,      \* threads that serve the access-token route
  Principals,
  None,
  MaxChanges    \* bound: imports, managing requests, identity's grants, restarts

ASSUME AccessConstantsOK ==
  /\ None \notin Principals
  /\ MaxChanges \in Nat

VARIABLES
  conn,      \* the connection, or NoConn
  made,      \* connections made so far
  vgrants,   \* accesses with a row in the vault's grants of the connection
  igrants,   \* identity's grants that cover the connection
  revoked,   \* those of them that are revoked
  call,      \* what each caller is doing
  ever,      \* generations its principal could use during the call (history)
  route,     \* the managing request on the event loop
  rightful,  \* its principal could manage in his own right since it began (history)
  rooted,    \* such a principal has given out "manage" (history)
  changes    \* changes so far (bound)

vars == <<conn, made, vgrants, igrants, revoked, call, ever, route, rightful,
          rooted, changes>>

identity == <<igrants, revoked>>
store    == <<conn, made, vgrants>>

Access == {"use", "manage"}

Conns  == [by : Principals \cup {None}, gen : Nat]
NoConn == [by |-> None, gen |-> 0]

\* The locals of a call: seen and rows are what its check has read, got is
\* the generation whose token it answers with.
Calls == [at : {"idle", "getconn", "rows", "authorize", "refresh", "answer"},
          who : Principals \cup {None}, seen : Conns, rows : SUBSET Access,
          got : Nat]

Idle == [at |-> "idle", who |-> None, seen |-> NoConn, rows |-> {}, got |-> 0]

Routes == [at : {"idle", "rows", "authorize", "act"},
           op : {"none", "grant", "revoke"}, who : Principals \cup {None},
           seen : Conns, rows : SUBSET Access]

NoRoute == [at |-> "idle", op |-> "none", who |-> None, seen |-> NoConn,
            rows |-> {}]

TypeOK ==
  /\ conn \in Conns
  /\ made \in Nat /\ changes \in Nat
  /\ vgrants \subseteq Access
  /\ igrants \subseteq Principals \X Access
  /\ revoked \subseteq igrants
  /\ call \in [Callers -> Calls]
  /\ \A c \in Callers : call[c].who = None <=> call[c].at = "idle"
  /\ ever \in [Callers -> SUBSET Nat]
  /\ route \in Routes
  /\ rightful \in BOOLEAN /\ rooted \in BOOLEAN

-----------------------------------------------------------------------------
(* Who may use and who may manage the connection.                          *)

Rank == [a \in Access |-> IF a = "use" THEN 1 ELSE 2]

Satisfies(have, need) == Rank[have] >= Rank[need]

\* Identity's grants to p that are not revoked.
Live(p) == {a \in Access : <<p, a>> \in igrants \ revoked}

\* authorize() over _grants_for(): the vault's rows of the connection, identity's
\* grants to p, and "manage" for the owner.  The vault's rows count whoever they
\* were given to: neither get_grants nor authorize compares their principal, as
\* require_access, the check of the unauthenticated posture, does.
Allowed(p, need, seen, rows) ==
  \/ seen.by = p
  \/ \E have \in rows \cup Live(p) : Satisfies(have, need)

\* The generations p may use now; 0 for a connection that does not exist.
Usable(p) ==
  IF Allowed(p, "use", conn, vgrants) THEN {conn.gen} ELSE {}

\* p can manage in his own right, without any row of the vault: he owns the
\* connection, or identity's grant lets him.
Rightful(p) == conn.by = p \/ "manage" \in Live(p)

\* Calls between get_connection and their answer.
InService == {"rows", "authorize", "refresh", "answer"}

-----------------------------------------------------------------------------
At(c, label) == call[c].at = label

Move(c, j) == call' = [call EXCEPT ![c] = j]

Goto(c, label) == Move(c, [call[c] EXCEPT !.at = label])

\* Mutant of Leave: the caller is taken to be working for its principal still.
LeaveKeepsWho(c) == Move(c, [Idle EXCEPT !.who = call[c].who])

\* The call ends with an answer or an error; its locals are gone.
Leave(c) == Move(c, Idle)

\* A request for p, whose JWT has been verified, enters the route.
Start(c, p) ==
  /\ At(c, "idle")
  /\ Move(c, [Idle EXCEPT !.at = "getconn", !.who = p])
  /\ UNCHANGED <<store, identity, route, changes>>

GetConn(c) ==
  /\ At(c, "getconn")
  /\ \/ conn = NoConn /\ Leave(c)
     \/ /\ conn # NoConn
        /\ Move(c, [call[c] EXCEPT !.at = "rows", !.seen = conn])
  /\ UNCHANGED <<store, identity, route, changes>>

\* The argument connection_grants: the vault's own rows are read first.
ReadGrants(c) ==
  /\ At(c, "rows")
  /\ Move(c, [call[c] EXCEPT !.at = "authorize", !.rows = vgrants])
  /\ UNCHANGED <<store, identity, route, changes>>

\* Mutant of Authorize: a grant that is revoked still counts.
AuthorizeRevoked(c) ==
  LET j == call[c]
      all == j.rows \cup {a \in Access : <<j.who, a>> \in igrants}
  IN
  /\ At(c, "authorize")
  /\ \/ (j.seen.by = j.who \/ all # {}) /\ Goto(c, "refresh")
     \/ ~(j.seen.by = j.who \/ all # {}) /\ Leave(c)
  /\ UNCHANGED <<store, identity, route, changes>>

\* Identity's grants are read, and the decision is taken.
Authorize(c) ==
  LET j == call[c]
      allowed == Allowed(j.who, "use", j.seen, j.rows)
  IN
  /\ At(c, "authorize")
  /\ \/ allowed /\ Goto(c, "refresh")
     \/ ~allowed /\ Leave(c)
  /\ UNCHANGED <<store, identity, route, changes>>

\* refresh_if_needed reads the connection again: KeyError when it is gone, a
\* token of whatever generation it has by now, or a refresh that failed.
Refresh(c) ==
  /\ At(c, "refresh")
  /\ \/ /\ conn # NoConn
        /\ Move(c, [call[c] EXCEPT !.at = "answer", !.got = conn.gen])
     \/ Leave(c)
  /\ UNCHANGED <<store, identity, route, changes>>

Answer(c) ==
  /\ At(c, "answer")
  /\ Leave(c)
  /\ UNCHANGED <<store, identity, route, changes>>

CallStep(c) ==
  \/ \E p \in Principals : Start(c, p)
  \/ GetConn(c) \/ ReadGrants(c) \/ Authorize(c) \/ Refresh(c) \/ Answer(c)

-----------------------------------------------------------------------------
(* The managing routes, for a principal whose JWT has been verified.       *)

Change ==
  /\ changes < MaxChanges
  /\ changes' = changes + 1

\* grant() and revoke(): the connection is read; 404 when there is none.
RouteBegin(p, op) ==
  /\ route.at = "idle"
  /\ conn # NoConn
  /\ Change
  /\ route' = [at |-> "rows", op |-> op, who |-> p, seen |-> conn, rows |-> {}]
  /\ UNCHANGED <<store, identity, call>>

RouteRows ==
  /\ route.at = "rows"
  /\ route' = [route EXCEPT !.at = "authorize", !.rows = vgrants]
  /\ UNCHANGED <<store, identity, call, changes>>

\* Mutant of RouteAuthorize: whoever may use the connection may manage it.
RouteAuthorizeUse ==
  LET allowed == Allowed(route.who, "use", route.seen, route.rows) IN
  /\ route.at = "authorize"
  /\ \/ allowed /\ route' = [route EXCEPT !.at = "act"]
     \/ ~allowed /\ route' = NoRoute
  /\ UNCHANGED <<store, identity, call, changes>>

RouteAuthorize ==
  LET allowed == Allowed(route.who, "manage", route.seen, route.rows) IN
  /\ route.at = "authorize"
  /\ \/ allowed /\ route' = [route EXCEPT !.at = "act"]
     \/ ~allowed /\ route' = NoRoute
  /\ UNCHANGED <<store, identity, call, changes>>

\* add_grant: rows are kept under the connection's id, which is a function of
\* its key, and nothing deletes them.
Grant ==
  /\ route.at = "act" /\ route.op = "grant"
  /\ \E a \in Access : vgrants' = vgrants \cup {a}
  /\ route' = NoRoute
  /\ UNCHANGED <<conn, made, identity, call, changes>>

\* delete_connection: by key, whatever connection has it.
Revoke ==
  /\ route.at = "act" /\ route.op = "revoke"
  /\ conn' = NoConn
  /\ route' = NoRoute
  /\ UNCHANGED <<made, vgrants, identity, call, changes>>

\* import_connection and finish_connect put a connection over any that is
\* there; whoever does it is its owner.
Import(p) ==
  /\ route.at = "idle"
  /\ Change
  /\ made' = made + 1
  /\ conn' = [by |-> p, gen |-> made + 1]
  /\ UNCHANGED <<vgrants, identity, call, route>>

RouteStep ==
  \/ \E p \in Principals : \/ Import(p)
                           \/ RouteBegin(p, "grant") \/ RouteBegin(p, "revoke")
  \/ RouteRows \/ RouteAuthorize \/ Grant \/ Revoke

-----------------------------------------------------------------------------
\* identity/store: add_grant stores a row under a new id, revoke_grant marks it.
AddGrant(p, a) ==
  /\ <<p, a>> \notin igrants \ revoked
  /\ Change
  /\ igrants' = igrants \cup {<<p, a>>}
  /\ revoked' = revoked \ {<<p, a>>}
  /\ UNCHANGED <<store, call, route>>

RevokeGrant(p, a) ==
  /\ <<p, a>> \in igrants \ revoked
  /\ Change
  /\ revoked' = revoked \cup {<<p, a>>}
  /\ UNCHANGED <<store, igrants, call, route>>

\* The vault is started anew: every request in it is gone.
Restart ==
  /\ Change
  /\ call' = [c \in Callers |-> Idle]
  /\ route' = NoRoute
  /\ UNCHANGED <<store, identity>>

-----------------------------------------------------------------------------
\* What each call's principal could use, added up over the call; whether the
\* route's could manage, and whether one who could has given that on.
Observe ==
  /\ ever' = [c \in Callers |->
                IF call'[c].at \in InService
                  THEN ever[c] \cup Usable(call[c].who)'
                  ELSE {}]
  /\ rightful' = (route'.at # "idle" /\ (rightful \/ Rightful(route.who)'))
  /\ rooted' = (rooted \/ (rightful /\ "manage" \in vgrants' \ vgrants))

Init ==
  /\ \/ conn = NoConn /\ made = 0
     \/ \E p \in Principals : conn = [by |-> p, gen |-> 1] /\ made = 1
  /\ vgrants = {} /\ igrants = {} /\ revoked = {}
  /\ call = [c \in Callers |-> Idle]
  /\ ever = [c \in Callers |-> {}]
  /\ route = NoRoute
  /\ rightful = FALSE /\ rooted = FALSE
  /\ changes = 0

Step ==
  \/ \E c \in Callers : CallStep(c)
  \/ RouteStep
  \/ \E p \in Principals, a \in Access : AddGrant(p, a) \/ RevokeGrant(p, a)
  \/ Restart

Next == Step /\ Observe

Spec == Init /\ [][Next]_vars
-----------------------------------------------------------------------------
(***************************************************************************)
(* A call is answered only if its principal could use the connection at    *)
(* some moment of the call, although owner, vault rows and identity grants *)
(* are read at three moments; and if the connection was not replaced since *)
(* it was read, could use the very one whose token it gets.                *)
(***************************************************************************)
EntitledAnswer ==
  \A c \in Callers : At(c, "answer") =>
    /\ ever[c] # {}
    /\ call[c].got = call[c].seen.gen => call[c].got \in ever[c]

(***************************************************************************)
(* grant and revoke act on the connection they checked: none is put in its *)
(* place between the check and the write, because every route that could   *)
(* is on the event loop too.  And nobody comes by the power to manage who  *)
(* was not given it: the principal owned that very connection or held an   *)
(* identity grant of "manage" that was live at some moment since the route *)
(* read it, or a "manage" row of the vault let him in, which counts        *)
(* whoever it was given to, and the first such row was given out by one    *)
(* who could manage in his own right.                                      *)
(***************************************************************************)
RouteIsManaged ==
  /\ route.at # "idle" => conn = route.seen
  /\ route.at = "act" => rightful \/ (rooted /\ "manage" \in vgrants)
=============================================================================
