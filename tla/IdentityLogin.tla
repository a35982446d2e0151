--------------------------- MODULE IdentityLogin ---------------------------
(***************************************************************************)
(* A browser login at the kernel's OAuth server and the session it opens:  *)
(* start_federation and complete_federation (identity/federation/flow.py), *)
(* find_or_create_island_principal (identity/federation/principals.py),    *)
(* issue_auth_code, redeem_code and refresh (identity/oauth), over         *)
(* ServerIdentityStore, which commits every call and lets one thread in at *)
(* a time.  One action per store write or remote call.                     *)
(*                                                                         *)
(* Several handlers may be at work at once.  The routes of identity/app.py *)
(* are async def around blocking code, so one process runs one handler at  *)
(* a time (Handlers a singleton); the store is made for threads, so the    *)
(* general case is several.  The process may die and start again: what was *)
(* committed stays, every handler is gone.                                 *)
(*                                                                         *)
(* Abstracted: a user is an (island, island user id) pair; the random      *)
(* values of transactions, codes, tokens and principals are numbers that   *)
(* never repeat.  A request that is refused before anything is written (it *)
(* has run out, PKCE fails, unknown audience or client) is no step: time   *)
(* is left out.  So is a client that is registered anew with other         *)
(* redirect URIs between start_federation, which checks its URI, and       *)
(* issue_auth_code, which checks it again.  The island may authenticate    *)
(* any user, or the exchange with it fails.  Access tokens live and die    *)
(* with the row of their refresh token.  POST /oauth/authorize, which      *)
(* issues a code for a principal the caller names, is left out: nothing in *)
(* the kernel calls it.                                                    *)
(***************************************************************************)
EXTENDS Integers, Sequences

CONSTANTS
  Handlers,       \* request handlers at work at once
  Logins,         \* federation transactions that may be started
  Users,          \* island users
  None,
  MaxRefreshes,   \* bound: refresh requests
  MaxCrashes      \* bound: process deaths

ASSUME LoginConstantsOK ==
  /\ None \notin Logins /\ None \notin Users
  /\ MaxRefreshes \in Nat
  /\ MaxCrashes \in Nat

VARIABLES
  txn,         \* federation_txns: "none", "open" or "used" (consumed_at)
  link,        \* island_principal_links: a principal, or 0
  principals,  \* principals that have their row
  members,     \* principals that have their membership
  drawn,       \* how many principal ids have been drawn
  codes,       \* auth_codes, in the order issued
  pairs,       \* every access/refresh token pair ever issued
  rows,        \* the pairs that have their row in access_tokens
  codesOut,    \* codes that reached a client
  pairsOut,    \* pairs that reached a client
  job,         \* what each handler is doing
  asked,       \* refresh requests so far (bound)
  crashes,     \* process deaths so far (bound)
  faults       \* what has gone wrong so far (history, see Faults)

vars == <<txn, link, principals, members, drawn, codes, pairs, rows, codesOut,
          pairsOut, job, asked, crashes, faults>>

users    == <<link, principals, members, drawn>>
sessions == <<pairs, rows>>
clients  == <<codesOut, pairsOut>>
bounds   == <<asked, crashes>>

Labels == {"idle", "consumetxn", "fetch", "lookup", "putprincipal",
           "putmembership", "putlink", "putcode", "answercode",
           "consumecode", "issue", "scan", "reissue", "rotate", "answerpair"}

\* The locals of a handler: item is the code or pair the request presented,
\* new the code or pair it is about to answer with.
Jobs == [at : Labels, login : Logins \cup {None}, user : Users \cup {None},
         prn : Nat, item : Nat, new : Nat]

Idle == [at |-> "idle", login |-> None, user |-> None, prn |-> 0,
         item |-> 0, new |-> 0]

Codes == [login : Logins, user : Users, prn : Nat, used : BOOLEAN]
Pairs == [login : Logins, prn : Nat, first : BOOLEAN]

(***************************************************************************)
(* The circumstances a guarantee may have to exclude.                      *)
(*   twologins   two handlers look up the same unknown user                *)
(*   tworefresh  two handlers find the same refresh token                  *)
(*   lost        a rotated pair never reached its client                   *)
(***************************************************************************)
Faults == {"twologins", "tworefresh", "lost"}

TypeOK ==
  /\ txn \in [Logins -> {"none", "open", "used"}]
  /\ drawn \in Nat
  /\ link \in [Users -> 0..drawn]
  /\ principals \subseteq 1..drawn
  /\ members \subseteq 1..drawn
  /\ codes \in Seq(Codes)
  /\ pairs \in Seq(Pairs)
  /\ rows \subseteq 1..Len(pairs)
  /\ codesOut \subseteq 1..Len(codes)
  /\ pairsOut \subseteq 1..Len(pairs)
  /\ job \in [Handlers -> Jobs]
  /\ asked \in Nat
  /\ crashes \in Nat
  /\ faults \subseteq Faults

-----------------------------------------------------------------------------

At(h, label) == job[h].at = label

Move(h, j) == job' = [job EXCEPT ![h] = j]

Goto(h, label) == Move(h, [job[h] EXCEPT !.at = label])

\* The handler answers or raises; its locals are gone.
Leave(h) == Move(h, Idle)

\* GET /oauth/authorize: start_federation stores an open transaction.
StartLogin(l) ==
  /\ txn[l] = "none"
  /\ txn' = [txn EXCEPT ![l] = "open"]
  /\ UNCHANGED <<users, codes, sessions, clients, job, bounds, faults>>

\* GET /oauth/callback: the transaction is looked up.  The browser may send
\* the same callback again, and another one may be under way already.
Callback(h, l) ==
  /\ At(h, "idle")
  /\ txn[l] # "none"
  /\ Move(h, [Idle EXCEPT !.at = "consumetxn", !.login = l])
  /\ UNCHANGED <<txn, users, codes, sessions, clients, bounds, faults>>

\* consume_federation_txn: the first to come gets TRUE, all others an error.
ConsumeTxn(h) ==
  /\ At(h, "consumetxn")
  /\ \/ /\ txn[job[h].login] = "open"
        /\ txn' = [txn EXCEPT ![job[h].login] = "used"]
        /\ Goto(h, "fetch")
     \/ /\ txn[job[h].login] = "used"
        /\ Leave(h)
        /\ UNCHANGED txn
  /\ UNCHANGED <<users, codes, sessions, clients, bounds, faults>>

\* island_fetch and the check of the assertion: some user of the island, or
\* an error, after which the transaction is spent all the same.
Fetch(h) ==
  /\ At(h, "fetch")
  /\ \/ \E u \in Users :
          Move(h, [job[h] EXCEPT !.at = "lookup", !.user = u])
     \/ Leave(h)
  /\ UNCHANGED <<txn, users, codes, sessions, clients, bounds, faults>>

\* Handler d is in the middle of creating a principal for user u.
Creating(d, u) ==
  job[d].user = u /\ job[d].at \in {"putprincipal", "putmembership", "putlink"}

\* Mutant of Lookup: the link is stored first, its principal after it.
LookupLinksFirst(h) ==
  LET u == job[h].user IN
  /\ At(h, "lookup")
  /\ \/ /\ link[u] # 0
        /\ Move(h, [job[h] EXCEPT !.at = "putcode", !.prn = link[u]])
        /\ UNCHANGED <<link, drawn, faults>>
     \/ /\ link[u] = 0
        /\ drawn' = drawn + 1
        /\ link' = [link EXCEPT ![u] = drawn + 1]
        /\ Move(h, [job[h] EXCEPT !.at = "putprincipal", !.prn = drawn + 1])
        /\ UNCHANGED faults
  /\ UNCHANGED <<txn, principals, members, codes, sessions, clients, bounds>>

\* Mutant of Lookup: a link that exists is not looked for.
LookupAlwaysCreates(h) ==
  /\ At(h, "lookup")
  /\ drawn' = drawn + 1
  /\ Move(h, [job[h] EXCEPT !.at = "putprincipal", !.prn = drawn + 1])
  /\ UNCHANGED <<txn, link, principals, members, codes, sessions, clients,
                 bounds, faults>>

\* Mutant of Lookup: the id of a new principal is one already drawn.
LookupRedraws(h) ==
  /\ At(h, "lookup")
  /\ Move(h, [job[h] EXCEPT !.at = "putprincipal", !.prn = drawn + 1])
  /\ UNCHANGED <<txn, users, codes, sessions, clients, bounds, faults>>

\* find_or_create_island_principal: a user with a link has a principal;
\* otherwise an id is drawn for a new one.
Lookup(h) ==
  LET u == job[h].user IN
  /\ At(h, "lookup")
  /\ \/ /\ link[u] # 0
        /\ Move(h, [job[h] EXCEPT !.at = "putcode", !.prn = link[u]])
        /\ UNCHANGED <<drawn, faults>>
     \/ /\ link[u] = 0
        /\ drawn' = drawn + 1
        /\ Move(h, [job[h] EXCEPT !.at = "putprincipal", !.prn = drawn + 1])
        /\ faults' = IF \E d \in Handlers \ {h} : Creating(d, u)
                       THEN faults \cup {"twologins"} ELSE faults
  /\ UNCHANGED <<txn, link, principals, members, codes, sessions, clients,
                 bounds>>

PutPrincipal(h) ==
  /\ At(h, "putprincipal")
  /\ principals' = principals \cup {job[h].prn}
  /\ Goto(h, "putmembership")
  /\ UNCHANGED <<txn, link, members, drawn, codes, sessions, clients, bounds,
                 faults>>

PutMembership(h) ==
  /\ At(h, "putmembership")
  /\ members' = members \cup {job[h].prn}
  /\ Goto(h, "putlink")
  /\ UNCHANGED <<txn, link, principals, drawn, codes, sessions, clients,
                 bounds, faults>>

\* INSERT OR REPLACE: a link that has appeared meanwhile is overwritten.
PutLink(h) ==
  /\ At(h, "putlink")
  /\ link' = [link EXCEPT ![job[h].user] = job[h].prn]
  /\ Goto(h, "putcode")
  /\ UNCHANGED <<txn, principals, members, drawn, codes, sessions, clients,
                 bounds, faults>>

\* issue_auth_code.
PutCode(h) ==
  /\ At(h, "putcode")
  /\ codes' = Append(codes, [login |-> job[h].login, user |-> job[h].user,
                             prn |-> job[h].prn, used |-> FALSE])
  /\ Move(h, [job[h] EXCEPT !.at = "answercode", !.new = Len(codes) + 1])
  /\ UNCHANGED <<txn, users, sessions, clients, bounds, faults>>

\* The redirect that carries the code reaches the client, or does not.
AnswerCode(h) ==
  /\ At(h, "answercode")
  /\ \/ codesOut' = codesOut \cup {job[h].new}
     \/ UNCHANGED codesOut
  /\ Leave(h)
  /\ UNCHANGED <<txn, users, codes, sessions, pairsOut, bounds, faults>>

-----------------------------------------------------------------------------

\* POST /oauth/token with a code: the row is read.  A client may present its
\* code more than once.
Redeem(h, i) ==
  /\ At(h, "idle")
  /\ i \in codesOut
  /\ Move(h, [Idle EXCEPT !.at = "consumecode", !.item = i,
                          !.login = codes[i].login, !.prn = codes[i].prn])
  /\ UNCHANGED <<txn, users, codes, sessions, clients, bounds, faults>>

\* Mutant of ConsumeCode: its answer is not looked at.
ConsumeCodeUnchecked(h) ==
  /\ At(h, "consumecode")
  /\ codes' = [codes EXCEPT ![job[h].item].used = TRUE]
  /\ Goto(h, "issue")
  /\ UNCHANGED <<txn, users, sessions, clients, bounds, faults>>

\* consume_auth_code: the first to come gets TRUE, all others an error.
ConsumeCode(h) ==
  /\ At(h, "consumecode")
  /\ \/ /\ ~codes[job[h].item].used
        /\ codes' = [codes EXCEPT ![job[h].item].used = TRUE]
        /\ Goto(h, "issue")
     \/ /\ codes[job[h].item].used
        /\ Leave(h)
        /\ UNCHANGED codes
  /\ UNCHANGED <<txn, users, sessions, clients, bounds, faults>>

\* _issue_pair: a new row, and the pair becomes the answer.
IssuePair(h, first, next) ==
  /\ pairs' = Append(pairs, [login |-> job[h].login, prn |-> job[h].prn,
                             first |-> first])
  /\ rows' = rows \cup {Len(pairs) + 1}
  /\ Move(h, [job[h] EXCEPT !.at = next, !.new = Len(pairs) + 1])

\* redeem_code issues the first pair of the session.
Issue(h) ==
  /\ At(h, "issue")
  /\ IssuePair(h, TRUE, "answerpair")
  /\ UNCHANGED <<txn, users, codes, clients, bounds, faults>>

\* POST /oauth/token with a refresh token, the last one or an older one.
Refresh(h, j) ==
  /\ At(h, "idle")
  /\ j \in pairsOut
  /\ asked < MaxRefreshes
  /\ asked' = asked + 1
  /\ Move(h, [Idle EXCEPT !.at = "scan", !.item = j])
  /\ UNCHANGED <<txn, users, codes, sessions, clients, crashes, faults>>

\* The scan for the row with this refresh token: rotated tokens have none.
Scan(h) ==
  LET j == job[h].item IN
  /\ At(h, "scan")
  /\ \/ /\ j \in rows
        /\ Move(h, [job[h] EXCEPT !.at = "reissue", !.login = pairs[j].login,
                                  !.prn = pairs[j].prn])
        /\ faults' = IF \E d \in Handlers \ {h} :
                          job[d].item = j /\ job[d].at \in {"reissue", "rotate"}
                       THEN faults \cup {"tworefresh"} ELSE faults
     \/ /\ j \notin rows
        /\ Leave(h)
        /\ UNCHANGED faults
  /\ UNCHANGED <<txn, users, codes, sessions, clients, bounds>>

\* Mutant of Reissue: the old row is deleted before the new one is stored.
ReissueDropsFirst(h) ==
  /\ At(h, "reissue")
  /\ \/ /\ job[h].item \in rows
        /\ rows' = rows \ {job[h].item}
        /\ UNCHANGED <<pairs, job>>
     \/ /\ job[h].item \notin rows
        /\ IssuePair(h, FALSE, "rotate")
  /\ UNCHANGED <<txn, users, codes, clients, bounds, faults>>

\* Mutant of Reissue: the client has the new pair before the rotation is done.
ReissueAnswersFirst(h) ==
  /\ At(h, "reissue")
  /\ IssuePair(h, FALSE, "rotate")
  /\ pairsOut' = pairsOut \cup {Len(pairs) + 1}
  /\ UNCHANGED <<txn, users, codes, codesOut, bounds, faults>>

\* refresh stores the new pair while the old row is still there.
Reissue(h) ==
  /\ At(h, "reissue")
  /\ IssuePair(h, FALSE, "rotate")
  /\ UNCHANGED <<txn, users, codes, clients, bounds, faults>>

\* Mutant of Rotate: the old row is not deleted.
RotateKeepsOld(h) ==
  /\ At(h, "rotate")
  /\ rows' = rows \cup {job[h].new}
  /\ Goto(h, "answerpair")
  /\ UNCHANGED <<txn, users, codes, pairs, clients, bounds, faults>>

\* rotate_refresh: in one transaction the old row is deleted and the new one,
\* which was read back, written again.
Rotate(h) ==
  /\ At(h, "rotate")
  /\ rows' = (rows \ {job[h].item}) \cup {job[h].new}
  /\ Goto(h, "answerpair")
  /\ UNCHANGED <<txn, users, codes, pairs, clients, bounds, faults>>

\* A pair that replaces another is being answered.
Replacing(h) == At(h, "answerpair") /\ ~pairs[job[h].new].first

\* The token response reaches the client, or does not.
AnswerPair(h) ==
  /\ At(h, "answerpair")
  /\ \/ /\ pairsOut' = pairsOut \cup {job[h].new}
        /\ UNCHANGED faults
     \/ /\ faults' = IF Replacing(h) THEN faults \cup {"lost"} ELSE faults
        /\ UNCHANGED pairsOut
  /\ Leave(h)
  /\ UNCHANGED <<txn, users, codes, sessions, codesOut, bounds>>

\* The process dies and comes back: rows stay, handlers and answers are gone.
Crash ==
  /\ crashes < MaxCrashes
  /\ crashes' = crashes + 1
  /\ \E h \in Handlers : ~At(h, "idle")
  /\ job' = [h \in Handlers |-> Idle]
  /\ faults' = IF \E h \in Handlers : Replacing(h)
                 THEN faults \cup {"lost"} ELSE faults
  /\ UNCHANGED <<txn, users, codes, sessions, clients, asked>>

-----------------------------------------------------------------------------

Init ==
  /\ txn = [l \in Logins |-> "none"]
  /\ link = [u \in Users |-> 0]
  /\ principals = {}
  /\ members = {}
  /\ drawn = 0
  /\ codes = <<>>
  /\ pairs = <<>>
  /\ rows = {}
  /\ codesOut = {}
  /\ pairsOut = {}
  /\ job = [h \in Handlers |-> Idle]
  /\ asked = 0
  /\ crashes = 0
  /\ faults = {}

Next ==
  \/ \E l \in Logins : StartLogin(l)
  \/ \E h \in Handlers :
       \/ \E l \in Logins : Callback(h, l)
       \/ ConsumeTxn(h)
       \/ Fetch(h)
       \/ Lookup(h)
       \/ PutPrincipal(h)
       \/ PutMembership(h)
       \/ PutLink(h)
       \/ PutCode(h)
       \/ AnswerCode(h)
       \/ \E i \in codesOut : Redeem(h, i)
       \/ ConsumeCode(h)
       \/ Issue(h)
       \/ \E j \in pairsOut : Refresh(h, j)
       \/ Scan(h)
       \/ Reissue(h)
       \/ Rotate(h)
       \/ AnswerPair(h)
  \/ Crash

Spec == Init /\ [][Next]_vars

-----------------------------------------------------------------------------
(* Properties. *)

\* A login opens at most one session, however often its callback and its code
\* are presented, by how many handlers at once, and wherever the process died:
\* no two first pairs come from one transaction (consume_federation_txn in
\* complete_federation, consume_auth_code in redeem_code).
OneSessionPerLogin ==
  \A i, j \in 1..Len(pairs) :
    pairs[i].first /\ pairs[j].first /\ pairs[i].login = pairs[j].login
      => i = j

\* Whoever is named by a link, a code or a token has both a principal row and
\* a membership: the link is stored last in find_or_create_island_principal,
\* so neither a crash nor a second handler exposes half a principal, and
\* exchange always finds its type and roles.
NamedPrincipalsComplete ==
  LET Complete(p) == p \in principals /\ p \in members IN
  /\ \A u \in Users : link[u] # 0 => Complete(link[u])
  /\ \A i \in 1..Len(codes) : Complete(codes[i].prn)
  /\ \A j \in 1..Len(pairs) : Complete(pairs[j].prn)

\* Unless two handlers looked up the same unknown user at once, an island user
\* is the same principal in every login, also after a crash that left an
\* unlinked principal behind (find_or_create_island_principal).
OneUserOnePrincipal ==
  "twologins" \notin faults =>
    \A i, j \in 1..Len(codes) :
      codes[i].user = codes[j].user => codes[i].prn = codes[j].prn

\* Unless two handlers found the same refresh token, at most one of the pairs
\* a session's client was ever given is still accepted (rotate_refresh): pairs
\* that a crash left behind before the rotation were never given to anybody.
OneUsablePair ==
  "tworefresh" \notin faults =>
    \A i, j \in pairsOut \cap rows :
      pairs[i].login = pairs[j].login => i = j

\* A client that was given a pair is never locked out by the server: unless a
\* rotated pair was lost on its way, one of the session's pairs that has its
\* row is with the client or being answered (refresh stores the new pair
\* before it deletes the old one, so a crash in between costs nothing).
SessionSurvives ==
  "lost" \notin faults =>
    \A i \in pairsOut :
      \E j \in rows :
        /\ pairs[j].login = pairs[i].login
        /\ \/ j \in pairsOut
           \/ \E h \in Handlers : At(h, "answerpair") /\ job[h].new = j

\* A rotated refresh token never works again: a pair whose row is gone does
\* not get it back, although rotate_refresh writes the new row a second time
\* from what it read before.
RotatedStaysDead ==
  [][\A j \in 1..Len(pairs) : j \notin rows => j \notin rows']_vars

-----------------------------------------------------------------------------
(* Inductive strengthenings, used by IdentityLoginProofs. *)

\* Won the transaction, code not stored yet.
Winning == {"fetch", "lookup", "putprincipal", "putmembership", "putlink",
            "putcode"}

\* What the locals of a handler hold at each label.
JobOK(j) ==
  /\ j.at \in Winning \cup {"consumetxn", "issue", "reissue"}
       => j.login \in Logins
  /\ j.at \in Winning \ {"fetch"} => j.user \in Users
  /\ j.at \in {"putprincipal", "putmembership", "putlink"}
       => j.prn \in 1..drawn
  /\ j.at = "answercode" => j.new \in 1..Len(codes)
  /\ j.at = "consumecode" => /\ j.item \in 1..Len(codes)
                             /\ j.login = codes[j.item].login
  /\ j.at \in {"scan", "reissue", "rotate"} => j.item \in 1..Len(pairs)
  /\ j.at \in {"rotate", "answerpair"} => j.new \in 1..Len(pairs)

TypeInv == TypeOK /\ \A h \in Handlers : JobOK(job[h])

\* The right to go on with a login is passed from the open transaction to one
\* handler, to one unused code, to one handler, to the first pair.
TxnOnce ==
  /\ \A h \in Handlers :
       job[h].at \in Winning =>
         /\ txn[job[h].login] = "used"
         /\ \A i \in 1..Len(codes) : codes[i].login # job[h].login
         /\ \A g \in Handlers :
              job[g].at \in Winning /\ job[g].login = job[h].login => g = h
  /\ \A i \in 1..Len(codes) : txn[codes[i].login] = "used"
  /\ \A i, j \in 1..Len(codes) : codes[i].login = codes[j].login => i = j

\* The code of login l has been redeemed.
Spent(l) == \E i \in 1..Len(codes) : codes[i].used /\ codes[i].login = l

\* Some pair of login l has been issued.
Issued(l) == \E j \in 1..Len(pairs) : pairs[j].login = l

CodeOnce ==
  /\ \A h \in Handlers :
       At(h, "issue") =>
         /\ Spent(job[h].login)
         /\ ~Issued(job[h].login)
         /\ \A g \in Handlers :
              At(g, "issue") /\ job[g].login = job[h].login => g = h
  /\ \A h \in Handlers : At(h, "reissue") => Issued(job[h].login)
  /\ \A j \in 1..Len(pairs) : Spent(pairs[j].login)

LoginInv == TxnOnce /\ CodeOnce /\ OneSessionPerLogin

\* How far a handler has come in creating the principal it will name.
NamesInv ==
  /\ NamedPrincipalsComplete
  /\ \A h \in Handlers :
       /\ At(h, "putmembership") => job[h].prn \in principals
       /\ job[h].at \in {"putlink", "putcode", "consumecode", "issue",
                         "reissue"}
            => job[h].prn \in principals /\ job[h].prn \in members

\* The pair a rotation is about to write again still has its row, because
\* nobody but its handler knows it yet.
RotationInv ==
  /\ \A h \in Handlers :
       job[h].at \in {"scan", "reissue", "rotate"} => job[h].item \in pairsOut
  /\ \A h \in Handlers :
       At(h, "rotate") => job[h].new \in rows /\ job[h].new \notin pairsOut
  /\ \A h, g \in Handlers :
       (/\ job[h].at \in {"rotate", "answerpair"}
        /\ job[g].at \in {"rotate", "answerpair"}
        /\ job[h].new = job[g].new) => h = g

\* One handler at a time creates a principal for an unlinked user, and what
\* codes say of a user is what the link says.
PersonInv ==
  "twologins" \notin faults =>
    /\ \A h \in Handlers, u \in Users :
         Creating(h, u) =>
           link[u] = 0 /\ \A g \in Handlers : Creating(g, u) => g = h
    /\ \A h \in Handlers :
         At(h, "putcode") => job[h].prn = link[job[h].user] /\ job[h].prn # 0
    /\ \A i \in 1..Len(codes) :
         codes[i].prn = link[codes[i].user] /\ codes[i].prn # 0

\* A rotation stays within its session; a pair being answered has its row and
\* is with no client yet; and as long as the first pair of a session is being
\* answered there is no other.
LineageInv ==
  /\ \A h \in Handlers :
       At(h, "reissue") => pairs[job[h].item].login = job[h].login
  /\ \A h \in Handlers :
       At(h, "rotate") => /\ pairs[job[h].item].login = pairs[job[h].new].login
                          /\ ~pairs[job[h].new].first
  /\ \A h \in Handlers :
       At(h, "answerpair") => job[h].new \in rows /\ job[h].new \notin pairsOut
  /\ \A h \in Handlers :
       At(h, "answerpair") /\ pairs[job[h].new].first =>
         \A i \in 1..Len(pairs) :
           pairs[i].login = pairs[job[h].new].login => i = job[h].new

\* The pairs by which a session may go on: those a client has that are still
\* accepted, and those being answered.
Usable ==
  {i \in 1..Len(pairs) :
     \/ i \in pairsOut \cap rows
     \/ \E h \in Handlers : At(h, "answerpair") /\ job[h].new = i}

\* Rotations at work: what each has found is still there, and is its own.
UsableInv ==
  "tworefresh" \notin faults =>
    /\ \A h, g \in Handlers :
         /\ job[h].at \in {"reissue", "rotate"} => job[h].item \in rows
         /\ /\ job[h].at \in {"reissue", "rotate"}
            /\ job[g].at \in {"reissue", "rotate"}
            /\ job[h].item = job[g].item
            => h = g
    /\ \A i, j \in Usable : pairs[i].login = pairs[j].login => i = j

=============================================================================
