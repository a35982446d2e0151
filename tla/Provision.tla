----------------------------- MODULE Provision -----------------------------
(***************************************************************************)
(* Issuing service credentials: the runs of scripts/kernel_provision.py    *)
(* (by deploy/deploy.sh) and deploy/soak_provision.py against the identity *)
(* store of a kernel that is serving, the operator who carries the printed *)
(* credential into the secret store, and the service that exchanges it     *)
(* for a JWT (identity/exchange.py).  A run is a process of its own: each  *)
(* of its store calls is one transaction, nothing holds them together, and *)
(* any of them may be the last (a locked database, a kill).                *)
(*                                                                         *)
(* Abstracted: a credential is the run that drew it; one org; the          *)
(* credential's audience is open; who granted, and when.  That operators   *)
(* cut a principal off by hand (put_membership, revoke_grant) and move     *)
(* files is what the code is written for; no code in the repository calls  *)
(* those methods.                                                          *)
(***************************************************************************)
EXTENDS Integers, Sequences

CONSTANTS
  Runs,        \* runs of a provisioning script
  Principals,
  For,         \* the principal each run provisions
  Soak,        \* the principals soak_provision serves
  Absent,      \* no file, nothing in the secret store, no JWT
  Empty,       \* a file of length zero
  TTL,         \* the life of a credential
  MaxTime,     \* bound: the clock stops here
  MaxCuts      \* bound: what the operator takes away

ASSUME ProvisionConstantsOK ==
  /\ For \in [Runs -> Principals]
  /\ Soak \subseteq Principals
  /\ {Absent, Empty} \cap Runs = {}
  /\ Absent # Empty
  /\ TTL \in Nat \ {0}
  /\ MaxTime \in Nat
  /\ MaxCuts \in Nat

VARIABLES
  now,         \* the clock
  pc,          \* where each run is
  left,        \* the targets it has yet to grant
  born,        \* its now, read when it starts
  principals,  \* the rows of principals
  member,      \* each principal's row of memberships: none, active, inactive
  tokens,      \* the rows of mcp_tokens
  grants,      \* the rows of grants that are not revoked
  file,        \* what the script's output went to, for each principal
  wired,       \* the runs whose output still is the file of that name
  secret,      \* what the secret store holds for each principal
  fetched,     \* the runs whose output the operator has fetched
  x,           \* the exchange identity is working on
  jwt,         \* the last JWT it has minted
  intact,      \* runs whose principal lost nothing since they started (history)
  crossed,     \* principals with a run begun before a fetch was due (history)
  cuts         \* what the operator has taken away (bound)

store      == <<principals, member, tokens, grants>>
local      == <<left, born>>
outputs    == <<file, wired, secret, fetched>>
exchanging == <<x, jwt>>
watched    == <<intact, crossed, cuts>>
vars == <<now, pc, local, store, outputs, exchanging, watched>>

\* Mutant of Targets: the connector gets an event-type grant on the glob.
TargetsGlob(p) ==
  IF p \in Soak THEN <<"glob">> ELSE <<"connection", "event-type">>

\* What a run grants, in order, and what the service it serves asks for: the
\* connector publishes one type and subscribes to a glob.
Targets(p) == IF p \in Soak THEN <<"org">> ELSE <<"connection", "event-type">>
Asked(p) == IF p \in Soak THEN {"event-type", "glob"}
                          ELSE {"connection", "event-type"}

\* authorize: a grant covers its very target, one on the org all of them.
Authorized(p, target) ==
  \E g \in grants : g.to = p /\ g.on \in {target, "org"}

Steps == {"idle", "principal", "membership", "token", "grant", "done",
          "failed"}
Busy(r) == pc[r] \notin {"idle", "done", "failed"}

Life(r) == born[r] + TTL

Exchanges == [at : {"membership", "principal"}, of : Principals,
              roles : SUBSET {"member"}, whole : BOOLEAN]
JWTs == [roles : SUBSET {"member"}, typ : {"service", "human"}, whole : BOOLEAN]

ProvisionTypeOK ==
  /\ now \in Nat
  /\ pc \in [Runs -> Steps]
  /\ left \in [Runs -> Seq({"connection", "event-type", "org"})]
  /\ born \in [Runs -> Nat]
  /\ principals \subseteq Principals
  /\ member \in [Principals -> {"none", "active", "inactive"}]
  /\ tokens \subseteq Runs
  /\ grants \subseteq [to : Principals, by : Runs,
                       on : {"connection", "event-type", "org"}]
  /\ file \in [Principals -> Runs \cup {Absent, Empty}]
  /\ wired \subseteq Runs
  /\ secret \in [Principals -> Runs \cup {Absent, Empty}]
  /\ fetched \subseteq Runs
  /\ x \in Exchanges \cup {Absent}
  /\ jwt \in JWTs \cup {Absent}
  /\ intact \subseteq Runs
  /\ crossed \subseteq Principals
  /\ cuts \in Nat

Goto(r, step) == pc' = [pc EXCEPT ![r] = step]

-----------------------------------------------------------------------------
(* A run of a script. *)

\* The shell has truncated the credential file before the script is there.
Start(r) ==
  /\ pc[r] = "idle"
  /\ born' = [born EXCEPT ![r] = now]
  /\ left' = [left EXCEPT ![r] = Targets(For[r])]
  /\ file' = IF For[r] \in Soak THEN file ELSE [file EXCEPT ![For[r]] = Empty]
  /\ wired' = wired \cup {r}
  /\ intact' = intact \cup {r}
  /\ crossed' = IF \E s \in Runs \ fetched :
                     s # r /\ For[s] = For[r] /\ (Busy(s) \/ pc[s] = "done")
                THEN crossed \cup {For[r]} ELSE crossed
  /\ Goto(r, "principal")
  /\ UNCHANGED <<now, store, secret, fetched, exchanging, cuts>>

\* Mutant of PutPrincipal: REPLACE as a DELETE and an INSERT of their own.
PutPrincipalInTwo(r) ==
  /\ pc[r] = "principal"
  /\ \/ /\ For[r] \in principals
        /\ principals' = principals \ {For[r]}
        /\ UNCHANGED pc
     \/ /\ For[r] \notin principals
        /\ principals' = principals \cup {For[r]}
        /\ Goto(r, "membership")
  /\ UNCHANGED <<now, local, member, tokens, grants, outputs, exchanging,
                 watched>>

PutPrincipal(r) ==
  /\ pc[r] = "principal"
  /\ principals' = principals \cup {For[r]}
  /\ Goto(r, "membership")
  /\ UNCHANGED <<now, local, member, tokens, grants, outputs, exchanging,
                 watched>>

\* Mutant of PutMembership: a row that is there is left as it is.
PutMembershipOnce(r) ==
  /\ pc[r] = "membership"
  /\ member' = [member EXCEPT ![For[r]] = IF @ = "none" THEN "active" ELSE @]
  /\ Goto(r, "token")
  /\ UNCHANGED <<now, local, principals, tokens, grants, outputs, exchanging,
                 watched>>

\* INSERT OR REPLACE: an inactive membership is active again.
PutMembership(r) ==
  /\ pc[r] = "membership"
  /\ member' = [member EXCEPT ![For[r]] = "active"]
  /\ Goto(r, "token")
  /\ UNCHANGED <<now, local, principals, tokens, grants, outputs, exchanging,
                 watched>>

PutMcpToken(r) ==
  /\ pc[r] = "token"
  /\ tokens' = tokens \cup {r}
  /\ Goto(r, "grant")
  /\ UNCHANGED <<now, local, principals, member, grants, outputs, exchanging,
                 watched>>

AddGrant(r) ==
  /\ pc[r] = "grant"
  /\ left[r] # << >>
  /\ grants' = grants \cup {[to |-> For[r], by |-> r, on |-> Head(left[r])]}
  /\ left' = [left EXCEPT ![r] = Tail(@)]
  /\ UNCHANGED <<now, pc, born, principals, member, tokens, outputs,
                 exchanging, watched>>

\* The one time the raw credential leaves the process.  A file that has been
\* fetched meanwhile is not the one the shell has opened.
HandOut(r) ==
  /\ pc[r] = "grant"
  /\ left[r] = << >>
  /\ file' = IF r \in wired THEN [file EXCEPT ![For[r]] = r] ELSE file
  /\ Goto(r, "done")
  /\ UNCHANGED <<now, local, store, wired, secret, fetched, exchanging,
                 watched>>

\* A store call raises or the process is killed; deploy.sh ends with it.
Fail(r) ==
  /\ Busy(r)
  /\ Goto(r, "failed")
  /\ UNCHANGED <<now, local, store, outputs, exchanging, watched>>

-----------------------------------------------------------------------------
(* The operator. *)

\* Mutant of Fetch: the deploy goes on after a script that has failed.
FetchUnchecked(r) ==
  /\ pc[r] \in {"done", "failed"}
  /\ r \notin fetched
  /\ file[For[r]] # Absent
  /\ secret' = [secret EXCEPT ![For[r]] = file[For[r]]]
  /\ file' = [file EXCEPT ![For[r]] = Absent]
  /\ wired' = {s \in wired : For[s] # For[r] \/ For[s] \in Soak}
  /\ fetched' = fetched \cup {r}
  /\ UNCHANGED <<now, pc, local, store, exchanging, watched>>

\* "move it into the host secret store, then delete", once the run has said
\* that the credential was written.
Fetch(r) ==
  /\ pc[r] = "done"
  /\ r \notin fetched
  /\ file[For[r]] # Absent
  /\ secret' = [secret EXCEPT ![For[r]] = file[For[r]]]
  /\ file' = [file EXCEPT ![For[r]] = Absent]
  /\ wired' = {s \in wired : For[s] # For[r] \/ For[s] \in Soak}
  /\ fetched' = fetched \cup {r}
  /\ UNCHANGED <<now, pc, local, store, exchanging, watched>>

\* What a cut ends: nobody's start is intact, no exchange is whole.
Cut(p) ==
  /\ cuts < MaxCuts
  /\ cuts' = cuts + 1
  /\ intact' = {r \in intact : For[r] # p}
  /\ x' = IF x # Absent /\ x.of = p THEN [x EXCEPT !.whole = FALSE] ELSE x
  /\ UNCHANGED <<now, pc, local, principals, tokens, outputs, jwt, crossed>>

Deactivate(p) ==
  /\ member[p] = "active"
  /\ member' = [member EXCEPT ![p] = "inactive"]
  /\ Cut(p)
  /\ UNCHANGED grants

RevokeGrant(g) ==
  /\ grants' = grants \ {g}
  /\ Cut(g.to)
  /\ UNCHANGED member

-----------------------------------------------------------------------------
(* The service exchanges its credential for a JWT. *)

Works(p) ==
  /\ p \in principals
  /\ member[p] = "active"
  /\ \A target \in Asked(p) : Authorized(p, target)

\* The row of the credential, and its checks.
Exchange(p) ==
  /\ x = Absent
  /\ secret[p] \in tokens
  /\ now < Life(secret[p])
  /\ x' = [at |-> "membership", of |-> p, roles |-> {}, whole |-> Works(p)]
  /\ UNCHANGED <<now, pc, local, store, outputs, jwt, watched>>

ReadMembership ==
  /\ x # Absent
  /\ x.at = "membership"
  /\ x' = [x EXCEPT !.at = "principal",
                    !.roles = IF member[x.of] = "active"
                              THEN {"member"} ELSE {}]
  /\ UNCHANGED <<now, pc, local, store, outputs, jwt, watched>>

\* The principal's row, and the JWT.  Without a row the type is "human".
Mint ==
  /\ x # Absent
  /\ x.at = "principal"
  /\ jwt' = [roles |-> x.roles, whole |-> x.whole,
             typ |-> IF x.of \in principals THEN "service" ELSE "human"]
  /\ x' = Absent
  /\ UNCHANGED <<now, pc, local, store, outputs, watched>>

Tick ==
  /\ now < MaxTime
  /\ now' = now + 1
  /\ UNCHANGED <<pc, local, store, outputs, exchanging, watched>>

-----------------------------------------------------------------------------

Init ==
  /\ now = 0
  /\ pc = [r \in Runs |-> "idle"]
  /\ left = [r \in Runs |-> << >>]
  /\ born = [r \in Runs |-> 0]
  /\ principals = {}
  /\ member = [p \in Principals |-> "none"]
  /\ tokens = {}
  /\ grants = {}
  /\ file = [p \in Principals |-> Absent]
  /\ wired = {}
  /\ secret = [p \in Principals |-> Absent]
  /\ fetched = {}
  /\ x = Absent
  /\ jwt = Absent
  /\ intact = {}
  /\ crossed = {}
  /\ cuts = 0

Script(r) ==
  \/ Start(r)
  \/ PutPrincipal(r)
  \/ PutMembership(r)
  \/ PutMcpToken(r)
  \/ AddGrant(r)
  \/ HandOut(r)
  \/ Fail(r)

Next ==
  \/ \E r \in Runs : Script(r) \/ Fetch(r)
  \/ \E p \in Principals : Deactivate(p) \/ Exchange(p)
  \/ \E g \in grants : RevokeGrant(g)
  \/ ReadMembership
  \/ Mint
  \/ Tick

Spec == Init /\ [][Next]_vars

-----------------------------------------------------------------------------
(* Properties. *)

\* A credential that is in the file or in the secret store is good for all its
\* service asks, whichever other runs failed half way or are still under way:
\* as soon as one run that was not followed by a cut has ended well, which is
\* also how an operator gives back what was taken.
HandedOutWorks ==
  \A p \in Principals :
    (\E r \in intact : For[r] = p /\ pc[r] = "done") =>
      /\ Works(p)
      /\ {file[p], secret[p]} \subseteq tokens \cup {Absent, Empty}

\* The secret store never gets an empty file, although every run of deploy.sh
\* empties it first, as long as no run starts before the output of the
\* previous one has been fetched.
SecretIsACredential ==
  \A p \in Principals \ crossed : secret[p] # Empty

\* The three reads of an exchange make one answer: a JWT minted for a service
\* that lost nothing meanwhile has its role and its type, whatever runs were
\* writing the same rows between the reads.
MintedWhole ==
  jwt # Absent /\ jwt.whole => jwt.roles = {"member"} /\ jwt.typ = "service"

-----------------------------------------------------------------------------
(* Inductive strengthenings, used by ProvisionProofs. *)

InSeq(e, s) == \E i \in 1..Len(s) : s[i] = e

\* What a run has still to grant, or has granted and nobody has revoked.
Provided(r, target) ==
  \/ InSeq(target, left[r])
  \/ [to |-> For[r], by |-> r, on |-> target] \in grants

\* How far a run has come: what it has written is still there, if no cut has
\* taken it away.
RunInv ==
  /\ \A r \in Runs :
       /\ pc[r] \in {"membership", "token", "grant", "done"}
            => For[r] \in principals
       /\ pc[r] \in {"grant", "done"} => r \in tokens
       /\ pc[r] = "done" => left[r] = << >>
  /\ \A r \in intact :
       /\ pc[r] \in {"token", "grant", "done"} => member[For[r]] = "active"
       /\ Busy(r) \/ pc[r] = "done" =>
            \A target \in {"connection", "event-type", "org"} :
              InSeq(target, Targets(For[r])) => Provided(r, target)
  /\ \A p \in Principals :
       {file[p], secret[p]} \subseteq tokens \cup {Absent, Empty}

\* The run has begun, has not failed, and its output is not fetched.
Due(r) == r \notin fetched /\ (Busy(r) \/ pc[r] = "done")

\* A principal whose runs did not cross has one run at a time that is due; its
\* output is the file of that name, and not empty once the run is done.
DueInv ==
  /\ \A r \in fetched : pc[r] = "done"
  /\ \A r \in Runs :
       Due(r) /\ For[r] \notin crossed =>
         /\ r \in wired
         /\ pc[r] = "done" => file[For[r]] # Empty
         /\ \A s \in Runs : Due(s) /\ For[s] = For[r] => s = r
  /\ SecretIsACredential

\* An exchange that is whole so far has read what it should have.
ExchangeInv ==
  /\ x # Absent /\ x.whole =>
       /\ x.of \in principals
       /\ member[x.of] = "active"
       /\ x.at = "principal" => x.roles = {"member"}
  /\ MintedWhole

=============================================================================
