-------------------------- MODULE ProvisionProofs --------------------------
(***************************************************************************)
(* Theorems about Provision: its types, that what is handed out works,     *)
(* that the secret store never gets an empty file and that a minted JWT is *)
(* whole, for any number of runs, principals and cuts, any assignment of   *)
(* runs to principals and any life of a credential.                        *)
(***************************************************************************)
EXTENDS Provision, TLAPS

(* The moves of one run, and what it grants. *)

LEMMA Moved ==
  ASSUME ProvisionTypeOK, NEW r \in Runs, NEW step \in Steps, Goto(r, step)
  PROVE  /\ pc' \in [Runs -> Steps]
         /\ pc'[r] = step /\ \A s \in Runs \ {r} : pc'[s] = pc[s]
  BY DEF ProvisionTypeOK, Goto

LEMMA TargetsFacts ==
  ASSUME NEW p \in Principals
  PROVE  /\ Targets(p) \in Seq({"connection", "event-type", "org"})
         /\ p \in Soak => InSeq("org", Targets(p))
         /\ p \notin Soak => /\ InSeq("connection", Targets(p))
                             /\ InSeq("event-type", Targets(p))
<1>1. CASE p \in Soak
  <2>1. Targets(p) = <<"org">>
    BY <1>1 DEF Targets
  <2>2. QED
    BY <1>1, <2>1 DEF InSeq
<1>2. CASE p \notin Soak
  <2>1. Targets(p) = <<"connection", "event-type">>
    BY <1>2 DEF Targets
  <2>2. Len(Targets(p)) = 2
    BY <2>1
  <2>3. Targets(p)[1] = "connection" /\ Targets(p)[2] = "event-type"
    BY <2>1
  <2>4. QED
    BY <1>2, <2>1, <2>2, <2>3 DEF InSeq
<1>3. QED
  BY <1>1, <1>2

\* What is in a sequence is its head or in its tail.
LEMMA HeadOrTail ==
  ASSUME NEW S, NEW s \in Seq(S), s # << >>, NEW e, InSeq(e, s)
  PROVE  e = Head(s) \/ InSeq(e, Tail(s))
<1>1. PICK i \in 1..Len(s) : s[i] = e
  BY DEF InSeq
<1>2. CASE i = 1
  BY <1>1, <1>2
<1>3. CASE i # 1
  <2>1. i - 1 \in 1..Len(Tail(s)) /\ Tail(s)[i - 1] = s[i]
    BY <1>3
  <2>2. QED
    BY <1>1, <2>1 DEF InSeq
<1>4. QED
  BY <1>2, <1>3

LEMMA ForIsPrincipal == \A r \in Runs : For[r] \in Principals
  BY ProvisionConstantsOK

-----------------------------------------------------------------------------
(* Types. *)

LEMMA TypeStep == ProvisionTypeOK /\ [Next]_vars => ProvisionTypeOK'
<1> SUFFICES ASSUME ProvisionTypeOK, [Next]_vars
             PROVE  ProvisionTypeOK'
  OBVIOUS
<1> USE DEF store, local, outputs, exchanging, watched
<1>1. {"principal", "membership", "token", "grant", "done", "failed"}
        \subseteq Steps
  BY DEF Steps
<1>2. ASSUME NEW r \in Runs, Start(r)
      PROVE  ProvisionTypeOK'
  <2>1. /\ For[r] \in Principals
        /\ Targets(For[r]) \in Seq({"connection", "event-type", "org"})
    BY ForIsPrincipal, TargetsFacts
  <2>2. pc' \in [Runs -> Steps]
    BY <1>1, <1>2, Moved DEF Start
  <2>3. /\ left' \in [Runs -> Seq({"connection", "event-type", "org"})]
        /\ born' \in [Runs -> Nat]
    BY <1>2, <2>1 DEF Start, ProvisionTypeOK
  <2>4. /\ file' \in [Principals -> Runs \cup {Absent, Empty}]
        /\ wired' \subseteq Runs /\ intact' \subseteq Runs
        /\ crossed' \subseteq Principals
    BY <1>2, <2>1 DEF Start, ProvisionTypeOK
  <2>5. QED
    BY <1>2, <2>2, <2>3, <2>4 DEF Start, ProvisionTypeOK
<1>3. ASSUME NEW r \in Runs, PutPrincipal(r) \/ PutMembership(r)
                             \/ PutMcpToken(r) \/ Fail(r)
      PROVE  ProvisionTypeOK'
  <2>1. For[r] \in Principals
    BY ForIsPrincipal
  <2>2. pc' \in [Runs -> Steps]
    BY <1>1, <1>3, Moved DEF PutPrincipal, PutMembership, PutMcpToken, Fail
  <2>3. QED
    BY <1>3, <2>1, <2>2
       DEF PutPrincipal, PutMembership, PutMcpToken, Fail, ProvisionTypeOK
<1>4. ASSUME NEW r \in Runs, AddGrant(r)
      PROVE  ProvisionTypeOK'
  <2>1. /\ left[r] \in Seq({"connection", "event-type", "org"})
        /\ left[r] # << >> /\ For[r] \in Principals
    BY <1>4, ForIsPrincipal DEF AddGrant, ProvisionTypeOK
  <2>2. /\ Head(left[r]) \in {"connection", "event-type", "org"}
        /\ Tail(left[r]) \in Seq({"connection", "event-type", "org"})
    BY <2>1
  <2>3. left' \in [Runs -> Seq({"connection", "event-type", "org"})]
    BY <1>4, <2>2 DEF AddGrant, ProvisionTypeOK
  <2>4. grants' \subseteq [to : Principals, by : Runs,
                           on : {"connection", "event-type", "org"}]
    BY <1>4, <2>1, <2>2 DEF AddGrant, ProvisionTypeOK
  <2>5. QED
    BY <1>4, <2>3, <2>4 DEF AddGrant, ProvisionTypeOK
<1>5. ASSUME NEW r \in Runs, HandOut(r)
      PROVE  ProvisionTypeOK'
  <2>1. pc' \in [Runs -> Steps]
    BY <1>1, <1>5, Moved DEF HandOut
  <2>2. file' \in [Principals -> Runs \cup {Absent, Empty}]
    BY <1>5 DEF HandOut, ProvisionTypeOK
  <2>3. QED
    BY <1>5, <2>1, <2>2 DEF HandOut, ProvisionTypeOK
<1>6. ASSUME NEW r \in Runs, Fetch(r)
      PROVE  ProvisionTypeOK'
  <2>1. /\ file' \in [Principals -> Runs \cup {Absent, Empty}]
        /\ secret' \in [Principals -> Runs \cup {Absent, Empty}]
        /\ wired' \subseteq Runs /\ fetched' \subseteq Runs
    BY <1>6, ForIsPrincipal DEF Fetch, ProvisionTypeOK
  <2>2. QED
    BY <1>6, <2>1 DEF Fetch, ProvisionTypeOK
<1>7. ASSUME NEW p \in Principals, Cut(p),
             member' \in [Principals -> {"none", "active", "inactive"}],
             grants' \subseteq grants
      PROVE  ProvisionTypeOK'
  <2>1. x' \in Exchanges \cup {Absent}
    BY <1>7 DEF Cut, ProvisionTypeOK, Exchanges
  <2>2. QED
    BY <1>7, <2>1 DEF Cut, ProvisionTypeOK
<1>8. ASSUME NEW p \in Principals, Deactivate(p)
      PROVE  ProvisionTypeOK'
  BY <1>7, <1>8 DEF Deactivate, ProvisionTypeOK
<1>9. ASSUME NEW g \in grants, RevokeGrant(g)
      PROVE  ProvisionTypeOK'
  BY <1>7, <1>9 DEF RevokeGrant, ProvisionTypeOK
<1>10. ASSUME NEW p \in Principals, Exchange(p)
       PROVE  ProvisionTypeOK'
  <2>1. Works(p) \in BOOLEAN
    BY DEF Works, Authorized
  <2>2. x' \in Exchanges
    BY <1>10, <2>1 DEF Exchange, Exchanges
  <2>3. QED
    BY <1>10, <2>2 DEF Exchange, ProvisionTypeOK
<1>11. CASE ReadMembership
  <2>1. x' \in Exchanges
    BY <1>11 DEF ReadMembership, Exchanges, ProvisionTypeOK
  <2>2. QED
    BY <1>11, <2>1 DEF ReadMembership, ProvisionTypeOK
<1>12. CASE Mint
  <2>1. jwt' \in JWTs
    BY <1>12 DEF Mint, Exchanges, JWTs, ProvisionTypeOK
  <2>2. QED
    BY <1>12, <2>1 DEF Mint, ProvisionTypeOK
<1>13. CASE Tick
  BY <1>13 DEF Tick, ProvisionTypeOK
<1>14. CASE UNCHANGED vars
  BY <1>14 DEF vars, ProvisionTypeOK
<1>15. QED
  BY <1>2, <1>3, <1>4, <1>5, <1>6, <1>8, <1>9, <1>10, <1>11, <1>12, <1>13,
     <1>14 DEF Next, Script

-----------------------------------------------------------------------------
(* What is handed out works. *)

\* The store and the places of a credential stay, and so does every run.
LEMMA RunStays ==
  ASSUME RunInv, UNCHANGED <<pc, left, principals, member, tokens, grants,
                             file, secret>>, intact' = intact
  PROVE  RunInv'
  BY DEF RunInv, Busy, Provided, InSeq

\* A run moves on; what it needs for its new place, it has.
LEMMA RunMoves ==
  ASSUME ProvisionTypeOK, RunInv, NEW r \in Runs, NEW step \in Steps,
         Goto(r, step), Busy(r), step # "idle",
         UNCHANGED <<left, grants, secret, intact>>,
         principals \subseteq principals', tokens \subseteq tokens',
         \A p \in Principals : member'[p] = member[p] \/ member'[p] = "active",
         step \in {"membership", "token", "grant", "done"}
           => For[r] \in principals',
         step \in {"grant", "done"} => r \in tokens',
         step = "done" => left[r] = << >>,
         step \in {"token", "grant", "done"} /\ r \in intact
           => member'[For[r]] = "active",
         \A p \in Principals : file'[p] \in tokens' \cup {Absent, Empty}
  PROVE  RunInv'
<1>1. pc'[r] = step /\ \A s \in Runs \ {r} : pc'[s] = pc[s]
  BY Moved
<1>2. ASSUME NEW s \in Runs
      PROVE  /\ pc'[s] \in {"membership", "token", "grant", "done"}
                  => For[s] \in principals'
             /\ pc'[s] \in {"grant", "done"} => s \in tokens'
             /\ pc'[s] = "done" => left[s] = << >>
  BY <1>1 DEF RunInv
<1>3. ASSUME NEW s \in intact
      PROVE  /\ pc'[s] \in {"token", "grant", "done"}
                  => member'[For[s]] = "active"
             /\ Busy(s)' \/ pc'[s] = "done" => Busy(s) \/ pc[s] = "done"
  <2>1. s \in Runs /\ For[s] \in Principals
    BY ForIsPrincipal DEF ProvisionTypeOK
  <2>2. QED
    BY <1>1, <2>1 DEF RunInv, Busy
<1>4. ASSUME NEW s \in intact, Busy(s)' \/ pc'[s] = "done",
             NEW target \in {"connection", "event-type", "org"},
             InSeq(target, Targets(For[s]))
      PROVE  Provided(s, target)'
  BY <1>3, <1>4 DEF RunInv, Provided, InSeq
<1>5. \A p \in Principals :
        {file'[p], secret'[p]} \subseteq tokens' \cup {Absent, Empty}
  BY DEF RunInv
<1>6. QED
  BY <1>2, <1>3, <1>4, <1>5 DEF RunInv

\* A cut takes something away from one principal, whose runs it marks.
LEMMA RunCut ==
  ASSUME ProvisionTypeOK, RunInv, NEW p, Cut(p),
         \A q \in Principals \ {p} : member'[q] = member[q],
         \A g \in grants \ grants' : g.to = p
  PROVE  RunInv'
<1>1. /\ UNCHANGED <<pc, left, principals, tokens, file, secret>>
      /\ \A r \in intact' : /\ r \in intact /\ For[r] # p
                            /\ For[r] \in Principals
  BY ForIsPrincipal DEF Cut, local, outputs, ProvisionTypeOK
<1>2. ASSUME NEW r \in intact', NEW target, Provided(r, target)
      PROVE  Provided(r, target)'
  <2>1. [to |-> For[r], by |-> r, on |-> target].to # p
    BY <1>1
  <2>2. QED
    BY <1>1, <1>2, <2>1 DEF Provided, InSeq
<1>3. QED
  BY <1>1, <1>2 DEF RunInv, Busy

LEMMA RunStep == ProvisionTypeOK /\ RunInv /\ [Next]_vars => RunInv'
<1> SUFFICES ASSUME ProvisionTypeOK, RunInv, [Next]_vars
             PROVE  RunInv'
  OBVIOUS
<1> USE DEF store, local, outputs, exchanging, watched
<1>1. {"principal", "membership", "token", "grant", "done", "failed"}
        \subseteq Steps
  BY DEF Steps
<1>2. ASSUME NEW r \in Runs, Start(r)
      PROVE  RunInv'
  <2>1. /\ pc'[r] = "principal" /\ \A s \in Runs \ {r} : pc'[s] = pc[s]
        /\ For[r] \in Principals
    BY <1>1, <1>2, Moved, ForIsPrincipal DEF Start
  <2>2. /\ left'[r] = Targets(For[r])
        /\ \A s \in Runs \ {r} : left'[s] = left[s]
        /\ UNCHANGED <<principals, member, tokens, grants, secret>>
        /\ intact' = intact \cup {r} /\ intact \subseteq Runs
    BY <1>2 DEF Start, ProvisionTypeOK
  <2>3. \A p \in Principals : file'[p] \in {file[p], Empty}
    BY <1>2, <2>1 DEF Start, ProvisionTypeOK
  <2>4. \A s \in intact', target \in {"connection", "event-type", "org"} :
          /\ Busy(s)' \/ pc'[s] = "done"
          /\ InSeq(target, Targets(For[s]))
          => Provided(s, target)'
    <3>1. ASSUME NEW target, InSeq(target, Targets(For[r]))
          PROVE  Provided(r, target)'
      BY <2>2, <3>1 DEF Provided, InSeq
    <3>2. ASSUME NEW s \in intact \ {r}, NEW target, Provided(s, target)
          PROVE  Provided(s, target)'
      BY <2>2, <3>2 DEF Provided, InSeq
    <3>3. \A s \in intact \ {r} :
            Busy(s)' \/ pc'[s] = "done" => Busy(s) \/ pc[s] = "done"
      BY <2>1, <2>2 DEF Busy
    <3>4. QED
      BY <2>2, <3>1, <3>2, <3>3 DEF RunInv
  <2>5. \A p \in Principals :
          {file'[p], secret'[p]} \subseteq tokens' \cup {Absent, Empty}
    BY <2>2, <2>3 DEF RunInv
  <2>6. QED
    BY <2>1, <2>2, <2>4, <2>5 DEF RunInv
<1>3. ASSUME NEW r \in Runs, PutPrincipal(r)
      PROVE  RunInv'
  BY <1>1, <1>3, RunMoves DEF PutPrincipal, Busy, RunInv
<1>4. ASSUME NEW r \in Runs, PutMembership(r)
      PROVE  RunInv'
  <2>1. /\ \A p \in Principals : member'[p] = member[p] \/ member'[p] = "active"
        /\ member'[For[r]] = "active" /\ For[r] \in principals
    BY <1>4, ForIsPrincipal DEF PutMembership, ProvisionTypeOK, RunInv
  <2>2. QED
    BY <1>1, <1>4, <2>1, RunMoves DEF PutMembership, Busy, RunInv
<1>5. ASSUME NEW r \in Runs, PutMcpToken(r)
      PROVE  RunInv'
  BY <1>1, <1>5, RunMoves DEF PutMcpToken, Busy, RunInv
<1>6. ASSUME NEW r \in Runs, AddGrant(r)
      PROVE  RunInv'
  <2>1. /\ pc[r] = "grant" /\ left[r] # << >>
        /\ left[r] \in Seq({"connection", "event-type", "org"})
        /\ left'[r] = Tail(left[r])
        /\ \A s \in Runs \ {r} : left'[s] = left[s]
        /\ grants' = grants \cup
             {[to |-> For[r], by |-> r, on |-> Head(left[r])]}
        /\ UNCHANGED <<pc, principals, member, tokens, file, secret, intact>>
        /\ intact \subseteq Runs
    BY <1>6 DEF AddGrant, ProvisionTypeOK
  <2>2. ASSUME NEW s \in intact, NEW target, Provided(s, target)
        PROVE  Provided(s, target)'
    <3>1. CASE s = r /\ InSeq(target, left[r])
      BY <2>1, <3>1, HeadOrTail DEF Provided
    <3>2. CASE s # r \/ ~InSeq(target, left[r])
      BY <2>1, <2>2, <3>2 DEF Provided, InSeq
    <3>3. QED
      BY <3>1, <3>2
  <2>3. QED
    BY <2>1, <2>2 DEF RunInv, Busy
<1>7. ASSUME NEW r \in Runs, HandOut(r)
      PROVE  RunInv'
  <2>1. r \in tokens /\ For[r] \in principals
        /\ (r \in intact => member[For[r]] = "active")
    BY <1>7 DEF HandOut, RunInv
  <2>2. \A p \in Principals : file'[p] \in tokens \cup {Absent, Empty}
    BY <1>7, <2>1 DEF HandOut, RunInv, ProvisionTypeOK
  <2>3. QED
    BY <1>1, <1>7, <2>1, <2>2, RunMoves DEF HandOut, Busy
<1>8. ASSUME NEW r \in Runs, Fail(r)
      PROVE  RunInv'
  BY <1>1, <1>8, RunMoves DEF Fail, RunInv
<1>9. ASSUME NEW r \in Runs, Fetch(r)
      PROVE  RunInv'
  <2>1. \A p \in Principals :
          {file'[p], secret'[p]} \subseteq tokens \cup {Absent, Empty}
    BY <1>9 DEF Fetch, RunInv, ProvisionTypeOK
  <2>2. UNCHANGED <<pc, left, principals, member, tokens, grants, intact>>
    BY <1>9 DEF Fetch
  <2>3. QED
    BY <2>1, <2>2 DEF RunInv, Busy, Provided, InSeq
<1>10. ASSUME NEW p \in Principals, Deactivate(p)
       PROVE  RunInv'
  <2>1. /\ \A q \in Principals \ {p} : member'[q] = member[q]
        /\ grants' = grants /\ Cut(p)
    BY <1>10 DEF Deactivate, ProvisionTypeOK
  <2>2. QED
    BY <2>1, RunCut
<1>11. ASSUME NEW g \in grants, RevokeGrant(g)
       PROVE  RunInv'
  <2>1. member' = member /\ grants' = grants \ {g} /\ Cut(g.to)
    BY <1>11 DEF RevokeGrant
  <2>2. QED
    BY <2>1, RunCut
<1>12. ASSUME NEW p \in Principals, Exchange(p)
       PROVE  RunInv'
  BY <1>12, RunStays DEF Exchange
<1>13. CASE ReadMembership \/ Mint \/ Tick \/ UNCHANGED vars
  BY <1>13, RunStays DEF ReadMembership, Mint, Tick, vars
<1>14. QED
  BY <1>2, <1>3, <1>4, <1>5, <1>6, <1>7, <1>8, <1>9, <1>10, <1>11, <1>12,
     <1>13 DEF Next, Script

\* A run that is done has nothing left to grant, so it has granted everything.
LEMMA RunHandsOut == ProvisionTypeOK /\ RunInv => HandedOutWorks
<1> SUFFICES ASSUME RunInv, NEW r \in intact, pc[r] = "done",
                    r \in Runs, For[r] \in Principals
             PROVE  Works(For[r])
  BY DEF RunInv, HandedOutWorks, ProvisionTypeOK
<1> DEFINE p == For[r]
<1>1. /\ p \in principals /\ member[p] = "active" /\ left[r] = << >>
  BY DEF RunInv
<1>2. ASSUME NEW target \in {"connection", "event-type", "org"},
             InSeq(target, Targets(p))
      PROVE  \E g \in grants : g.to = p /\ g.on = target
  <2>1. Provided(r, target)
    BY <1>2 DEF RunInv
  <2>2. ~InSeq(target, left[r])
    BY <1>1 DEF InSeq
  <2>3. QED
    BY <2>1, <2>2 DEF Provided
<1>3. \A target \in Asked(p) : Authorized(p, target)
  BY <1>2, TargetsFacts DEF Asked, Authorized
<1>4. QED
  BY <1>1, <1>3 DEF Works

-----------------------------------------------------------------------------
(* The secret store never gets an empty file. *)

\* Steps at which no run becomes due and no output moves.
LEMMA DueStays ==
  ASSUME DueInv, UNCHANGED <<fetched, wired, file, secret, crossed>>,
         \A r \in Runs : Due(r)' => Due(r) /\ (pc'[r] = "done" => pc[r] = "done"),
         \A r \in fetched : pc'[r] = pc[r]
  PROVE  DueInv'
  BY DEF DueInv, SecretIsACredential

LEMMA DueStep == ProvisionTypeOK /\ DueInv /\ [Next]_vars => DueInv'
<1> SUFFICES ASSUME ProvisionTypeOK, DueInv, [Next]_vars
             PROVE  DueInv'
  OBVIOUS
<1> USE DEF store, local, outputs, exchanging, watched
<1>1. {"principal", "membership", "token", "grant", "done", "failed"}
        \subseteq Steps
  BY DEF Steps
<1>2. \A r \in fetched : r \in Runs /\ pc[r] = "done"
  BY DEF DueInv, ProvisionTypeOK
<1>3. ASSUME NEW r \in Runs, Start(r)
      PROVE  DueInv'
  <2>1. /\ pc[r] = "idle" /\ pc'[r] = "principal"
        /\ \A s \in Runs \ {r} : pc'[s] = pc[s]
        /\ UNCHANGED <<fetched, secret>>
        /\ wired' = wired \cup {r} /\ crossed \subseteq crossed'
    BY <1>1, <1>3, Moved DEF Start
  <2>2. \A s \in Runs \ {r} : Due(s)' <=> Due(s)
    BY <2>1 DEF Due, Busy
  <2>3. \A s \in Runs \ {r} :
          Due(s) /\ For[s] = For[r] => For[r] \in crossed'
    BY <1>3 DEF Start, Due
  <2>4. \A p \in Principals \ {For[r]} : file'[p] = file[p]
    BY <1>3 DEF Start, ProvisionTypeOK
  <2>5. ASSUME NEW s \in Runs, Due(s)', For[s] \notin crossed'
        PROVE  /\ s \in wired'
               /\ pc'[s] = "done" => file'[For[s]] # Empty
               /\ \A q \in Runs : Due(q)' /\ For[q] = For[s] => q = s
    <3>1. CASE s = r
      BY <2>1, <2>2, <2>3, <2>5, <3>1
    <3>2. CASE s # r
      <4>1. Due(s) /\ For[s] # For[r] /\ For[s] \in Principals
        BY <2>2, <2>3, <2>5, <3>2, ForIsPrincipal
      <4>2. QED
        BY <2>1, <2>2, <2>4, <2>5, <3>2, <4>1 DEF DueInv
    <3>3. QED
      BY <3>1, <3>2
  <2>6. QED
    BY <1>2, <2>1, <2>5 DEF DueInv, SecretIsACredential
<1>4. ASSUME NEW r \in Runs, NEW step \in Steps, Goto(r, step), Busy(r),
             step # "done", UNCHANGED <<fetched, wired, file, secret, crossed>>
      PROVE  DueInv'
  <2>1. pc'[r] = step /\ \A s \in Runs \ {r} : pc'[s] = pc[s]
    BY <1>4, Moved
  <2>2. r \notin fetched
    BY <1>2, <1>4 DEF Busy
  <2>3. QED
    BY <1>2, <1>4, <2>1, <2>2, DueStays DEF Due, Busy
<1>5. ASSUME NEW r \in Runs,
             PutPrincipal(r) \/ PutMembership(r) \/ PutMcpToken(r) \/ Fail(r)
      PROVE  DueInv'
  BY <1>1, <1>4, <1>5 DEF PutPrincipal, PutMembership, PutMcpToken, Fail, Busy
<1>6. ASSUME NEW r \in Runs, HandOut(r)
      PROVE  DueInv'
  <2>1. /\ pc[r] = "grant" /\ pc'[r] = "done"
        /\ \A s \in Runs \ {r} : pc'[s] = pc[s]
        /\ UNCHANGED <<fetched, wired, secret, crossed>>
    BY <1>1, <1>6, Moved DEF HandOut
  <2>2. \A s \in Runs : Due(s)' <=> Due(s)
    BY <2>1 DEF Due, Busy
  <2>3. /\ r \in wired => file'[For[r]] = r
        /\ \A p \in Principals \ {For[r]} : file'[p] = file[p]
    BY <1>6, ForIsPrincipal DEF HandOut, ProvisionTypeOK
  <2>4. r # Empty
    BY ProvisionConstantsOK
  <2>5. ASSUME NEW s \in Runs, Due(s), For[s] \notin crossed, pc'[s] = "done"
        PROVE  file'[For[s]] # Empty
    <3>1. Due(r)
      BY <1>2, <2>1 DEF Due, Busy
    <3>2. CASE For[s] = For[r]
      BY <2>3, <2>4, <2>5, <3>1, <3>2 DEF DueInv
    <3>3. CASE For[s] # For[r]
      BY <2>1, <2>3, <2>5, <3>3, ForIsPrincipal DEF DueInv
    <3>4. QED
      BY <3>2, <3>3
  <2>6. r \notin fetched
    BY <1>2, <2>1
  <2>7. QED
    BY <1>2, <2>1, <2>2, <2>5, <2>6 DEF DueInv, SecretIsACredential
<1>7. ASSUME NEW r \in Runs, Fetch(r)
      PROVE  DueInv'
  <2>1. /\ pc[r] = "done" /\ r \notin fetched /\ UNCHANGED <<pc, crossed>>
        /\ fetched' = fetched \cup {r}
        /\ \A s \in wired : For[s] # For[r] => s \in wired'
    BY <1>7 DEF Fetch
  <2>2. Due(r) /\ For[r] \in Principals
    BY <2>1, ForIsPrincipal DEF Due
  <2>3. \A p \in Principals \ {For[r]} :
          file'[p] = file[p] /\ secret'[p] = secret[p]
    BY <1>7 DEF Fetch, ProvisionTypeOK
  <2>4. secret'[For[r]] = file[For[r]]
    BY <1>7, <2>2 DEF Fetch, ProvisionTypeOK
  <2>5. \A s \in Runs : Due(s)' => Due(s) /\ s # r
    BY <2>1 DEF Due, Busy
  <2>6. ASSUME NEW s \in Runs, Due(s)', For[s] \notin crossed
        PROVE  For[s] # For[r] /\ For[s] \in Principals
    BY <2>2, <2>5, <2>6, ForIsPrincipal DEF DueInv
  <2>7. \A p \in Principals \ crossed : secret'[p] # Empty
    BY <2>1, <2>2, <2>3, <2>4 DEF DueInv, SecretIsACredential
  <2>8. QED
    BY <1>2, <2>1, <2>3, <2>5, <2>6, <2>7 DEF DueInv, SecretIsACredential
<1>8. CASE UNCHANGED <<pc, fetched, wired, file, secret, crossed>>
  BY <1>8, DueStays DEF Due, Busy
<1>9. ASSUME NEW r \in Runs, AddGrant(r)
      PROVE  DueInv'
  BY <1>8, <1>9 DEF AddGrant
<1>10. ASSUME NEW p \in Principals, Deactivate(p) \/ Exchange(p)
       PROVE  DueInv'
  BY <1>8, <1>10 DEF Deactivate, Cut, Exchange
<1>11. ASSUME NEW g \in grants, RevokeGrant(g)
       PROVE  DueInv'
  BY <1>8, <1>11 DEF RevokeGrant, Cut
<1>12. CASE ReadMembership \/ Mint \/ Tick \/ UNCHANGED vars
  BY <1>8, <1>12 DEF ReadMembership, Mint, Tick, vars
<1>13. QED
  BY <1>3, <1>5, <1>6, <1>7, <1>9, <1>10, <1>11, <1>12 DEF Next, Script

-----------------------------------------------------------------------------
(* A minted JWT is whole. *)

\* Rows that an exchange has read, or will, stay as they are.
LEMMA ExchangeStays ==
  ASSUME ExchangeInv, UNCHANGED <<x, jwt>>, principals \subseteq principals',
         \A p \in Principals : member[p] = "active" => member'[p] = "active",
         x = Absent \/ x.of \in Principals
  PROVE  ExchangeInv'
  BY DEF ExchangeInv, MintedWhole

LEMMA ExchangeStep == ProvisionTypeOK /\ ExchangeInv /\ [Next]_vars => ExchangeInv'
<1> SUFFICES ASSUME ProvisionTypeOK, ExchangeInv, [Next]_vars
             PROVE  ExchangeInv'
  OBVIOUS
<1> USE DEF store, local, outputs, exchanging, watched
<1>1. x = Absent \/ x \in Exchanges
  BY DEF ProvisionTypeOK
<1>2. x = Absent \/ x.of \in Principals
  BY <1>1 DEF Exchanges
<1>3. ASSUME NEW r \in Runs, Script(r)
      PROVE  ExchangeInv'
  <2>1. /\ UNCHANGED <<x, jwt>> /\ principals \subseteq principals'
        /\ \A p \in Principals : member[p] = "active" => member'[p] = "active"
    <3>1. CASE PutMembership(r)
      BY <3>1 DEF PutMembership, ProvisionTypeOK
    <3>2. CASE ~PutMembership(r)
      BY <1>3, <3>2 DEF Script, Start, PutPrincipal, PutMcpToken, AddGrant,
                        HandOut, Fail
    <3>3. QED
      BY <3>1, <3>2
  <2>2. QED
    BY <1>2, <2>1, ExchangeStays
<1>4. ASSUME NEW r \in Runs, Fetch(r)
      PROVE  ExchangeInv'
  BY <1>2, <1>4, ExchangeStays DEF Fetch
<1>5. ASSUME NEW p, Cut(p), \A q \in Principals \ {p} : member'[q] = member[q]
      PROVE  ExchangeInv'
  <2>1. UNCHANGED <<principals, jwt>>
    BY <1>5 DEF Cut
  <2>2. CASE x # Absent /\ x.of = p
    <3>1. x' = [x EXCEPT !.whole = FALSE] /\ x \in Exchanges
      BY <1>1, <1>5, <2>2 DEF Cut
    <3>2. ~x'.whole
      BY <3>1 DEF Exchanges
    <3>3. QED
      BY <2>1, <3>2 DEF ExchangeInv, MintedWhole
  <2>3. CASE x = Absent \/ x.of # p
    <3>1. x' = x
      BY <1>5, <2>3 DEF Cut
    <3>2. QED
      BY <1>2, <1>5, <2>1, <2>3, <3>1 DEF ExchangeInv, MintedWhole
  <2>4. QED
    BY <2>2, <2>3
<1>6. ASSUME NEW p \in Principals, Deactivate(p)
      PROVE  ExchangeInv'
  BY <1>5, <1>6 DEF Deactivate, ProvisionTypeOK
<1>7. ASSUME NEW g \in grants, RevokeGrant(g)
      PROVE  ExchangeInv'
  BY <1>5, <1>7 DEF RevokeGrant
<1>8. ASSUME NEW p \in Principals, Exchange(p)
      PROVE  ExchangeInv'
  <2>1. /\ x'.of = p /\ x'.at = "membership" /\ x'.whole = Works(p)
        /\ UNCHANGED <<principals, member, jwt>>
    BY <1>8 DEF Exchange
  <2>2. Works(p) => p \in principals /\ member[p] = "active"
    BY DEF Works
  <2>3. QED
    BY <2>1, <2>2 DEF ExchangeInv, MintedWhole
<1>9. CASE ReadMembership
  <2>1. /\ x # Absent /\ x \in Exchanges
        /\ UNCHANGED <<principals, member, jwt>>
        /\ x' = [x EXCEPT !.at = "principal",
                          !.roles = IF member[x.of] = "active"
                                    THEN {"member"} ELSE {}]
    BY <1>1, <1>9 DEF ReadMembership
  <2>2. /\ x'.of = x.of /\ x'.whole = x.whole
        /\ x'.roles = IF member[x.of] = "active" THEN {"member"} ELSE {}
    BY <2>1 DEF Exchanges
  <2>3. QED
    BY <2>1, <2>2 DEF ExchangeInv, MintedWhole
<1>10. CASE Mint
  <2>1. /\ x' = Absent
        /\ jwt'.whole = x.whole /\ jwt'.roles = x.roles
        /\ x.whole => x.roles = {"member"} /\ x.of \in principals
        /\ x.of \in principals => jwt'.typ = "service"
    BY <1>10 DEF Mint, ExchangeInv
  <2>2. QED
    BY <2>1 DEF ExchangeInv, MintedWhole
<1>11. CASE Tick \/ UNCHANGED vars
  BY <1>2, <1>11, ExchangeStays DEF Tick, vars
<1>12. QED
  BY <1>3, <1>4, <1>6, <1>7, <1>8, <1>9, <1>10, <1>11 DEF Next

-----------------------------------------------------------------------------
(* The theorems. *)

\* Every variable keeps its type: the file and the secret store hold the
\* output of a run, or nothing, or the empty file the shell made.
THEOREM ProvisionTypeCorrect == Spec => []ProvisionTypeOK
<1>1. Init => ProvisionTypeOK
  BY DEF Init, ProvisionTypeOK, Steps
<1>2. QED
  BY <1>1, TypeStep, PTL DEF Spec

\* What a run of a provisioning script has written is still there as long as
\* nobody took it away, whatever other runs of the same principal do.
THEOREM RunInvariant == Spec => []RunInv
<1>1. Init => RunInv
  BY DEF Init, RunInv, Busy
<1>2. QED
  BY <1>1, RunStep, ProvisionTypeCorrect, PTL DEF Spec

\* A credential in the file or the secret store is good for all its service
\* asks once a run that was not followed by a cut has ended well: the scripts
\* grant before they print (kernel_provision, soak_provision).
THEOREM HandedOut == Spec => []HandedOutWorks
<1>1. ProvisionTypeOK /\ RunInv => HandedOutWorks
  BY RunHandsOut
<1>2. QED
  BY <1>1, RunInvariant, ProvisionTypeCorrect, PTL

\* A principal whose runs did not cross has at most one output that is due,
\* and it is not empty when its run is done (deploy.sh truncates first).
THEOREM DueInvariant == Spec => []DueInv
<1>1. Init => DueInv
  BY ProvisionConstantsOK
     DEF Init, DueInv, Due, Busy, SecretIsACredential
<1>2. QED
  BY <1>1, DueStep, ProvisionTypeCorrect, PTL DEF Spec

\* The secret store never gets an empty file, as long as no run begins before
\* the output of the previous one has been fetched.
THEOREM SecretNeverEmpty == Spec => []SecretIsACredential
<1>1. DueInv => SecretIsACredential
  BY DEF DueInv
<1>2. QED
  BY <1>1, DueInvariant, PTL

\* What an exchange has read of a service that lost nothing is what it will
\* find at its next read (identity/exchange.py reads one row at a time).
THEOREM ExchangeInvariant == Spec => []ExchangeInv
<1>1. Init => ExchangeInv
  BY DEF Init, ExchangeInv, MintedWhole
<1>2. QED
  BY <1>1, ExchangeStep, ProvisionTypeCorrect, PTL DEF Spec

\* A JWT minted for a service that lost nothing meanwhile has its role and its
\* type, whatever runs were writing the same rows between the reads.
THEOREM MintIsWhole == Spec => []MintedWhole
<1>1. ExchangeInv => MintedWhole
  BY DEF ExchangeInv
<1>2. QED
  BY <1>1, ExchangeInvariant, PTL

=============================================================================
