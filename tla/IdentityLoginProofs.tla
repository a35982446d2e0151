------------------------ MODULE IdentityLoginProofs ------------------------
(***************************************************************************)
(* Theorems about IdentityLogin: its types, that a login opens one session *)
(* only, that whoever is named is complete, that a user is one principal,  *)
(* that a rotated refresh token stays dead and that a session has one      *)
(* usable pair and keeps one, for any number of handlers, logins and users *)
(* and any number of crashes.                                              *)
(***************************************************************************)
EXTENDS IdentityLogin, TLAPS, SequenceTheorems

-----------------------------------------------------------------------------
(* What a move of one handler does. *)

\* The record r is the locals j with another label.
Relabelled(r, j, label) ==
  /\ r.at = label
  /\ r.login = j.login /\ r.user = j.user /\ r.prn = j.prn
  /\ r.item = j.item /\ r.new = j.new

\* Goto changes nothing but the label of its handler.
LEMMA GotoFields ==
  ASSUME TypeInv, NEW h \in Handlers, NEW label \in Labels, Goto(h, label)
  PROVE  \E r \in Jobs : Move(h, r) /\ Relabelled(r, job[h], label)
<1>1. job[h] \in Jobs
  BY DEF TypeInv, TypeOK
<1>2. [job[h] EXCEPT !.at = label] \in Jobs
  BY <1>1 DEF Jobs
<1>3. Relabelled([job[h] EXCEPT !.at = label], job[h], label)
  BY <1>1 DEF Jobs, Relabelled
<1>4. QED
  BY <1>2, <1>3 DEF Goto

\* A move concerns one handler only.
LEMMA MoveFacts ==
  ASSUME NEW h \in Handlers, NEW r, Move(h, r), job \in [Handlers -> Jobs]
  PROVE  job'[h] = r /\ \A g \in Handlers \ {h} : job'[g] = job[g]
  BY DEF Move

\* Codes and pairs are only ever added, and keep the login they belong to.
Grows ==
  /\ drawn \in Nat /\ drawn' \in Nat /\ drawn <= drawn'
  /\ codes \in Seq(Codes) /\ codes' \in Seq(Codes)
  /\ Len(codes) <= Len(codes')
  /\ \A i \in 1..Len(codes) : codes'[i].login = codes[i].login
  /\ pairs \in Seq(Pairs) /\ pairs' \in Seq(Pairs)
  /\ Len(pairs) <= Len(pairs')

LEMMA NothingGrows ==
  ASSUME TypeInv, UNCHANGED <<drawn, codes, pairs>>
  PROVE  Grows
<1>1. Len(codes) \in Nat /\ Len(pairs) \in Nat
  BY DEF TypeInv, TypeOK
<1>2. QED
  BY <1>1 DEF TypeInv, TypeOK, Grows

LEMMA JobsStay ==
  ASSUME TypeInv, NEW h \in Handlers, NEW r \in Jobs, Move(h, r), JobOK(r)',
         Grows
  PROVE  job' \in [Handlers -> Jobs] /\ \A g \in Handlers : JobOK(job[g])'
<1>1. job' \in [Handlers -> Jobs]
  BY DEF TypeInv, TypeOK, Move
<1>2. JobOK(job[h])'
  BY MoveFacts DEF TypeInv, TypeOK, JobOK
<1>3. ASSUME NEW g \in Handlers \ {h}
      PROVE  JobOK(job[g])'
  <2>1. job'[g] = job[g] /\ job[g] \in Jobs /\ JobOK(job[g])
    BY MoveFacts DEF TypeInv, TypeOK
  <2>2. /\ Len(codes) \in Nat /\ Len(codes') \in Nat
        /\ Len(pairs) \in Nat /\ Len(pairs') \in Nat
    BY DEF Grows
  <2>3. QED
    BY <2>1, <2>2 DEF JobOK, Jobs, Grows
<1>4. QED
  BY <1>1, <1>2, <1>3

\* The handler that answers has forgotten everything.
LEMMA LeaveTypes ==
  ASSUME TypeInv, NEW h \in Handlers, Leave(h), Grows
  PROVE  job' \in [Handlers -> Jobs] /\ \A g \in Handlers : JobOK(job[g])'
<1>1. Idle \in Jobs /\ JobOK(Idle)'
  BY DEF Idle, Jobs, Labels, JobOK, Winning, Grows
<1>2. QED
  BY <1>1, JobsStay DEF Leave

LEMMA CallbackMove ==
  ASSUME TypeInv, NEW h \in Handlers, NEW l \in Logins,
         Move(h, [Idle EXCEPT !.at = "consumetxn", !.login = l])
  PROVE  \E r \in Jobs :
           /\ Move(h, r)
           /\ r.at = "consumetxn" /\ r.login = l /\ r.user = None
           /\ r.prn = 0 /\ r.item = 0 /\ r.new = 0
<1> DEFINE r == [Idle EXCEPT !.at = "consumetxn", !.login = l]
<1>1. job[h] \in Jobs
  BY DEF TypeInv, TypeOK
<1>2. r \in Jobs
  BY <1>1 DEF Jobs, Labels, Idle
<1>3. /\ r.at = "consumetxn" /\ r.login = l /\ r.user = None
      /\ r.prn = 0 /\ r.item = 0 /\ r.new = 0
  BY <1>1 DEF Jobs, Idle
<1>4. Move(h, r)
  OBVIOUS
<1> HIDE DEF r
<1>5. QED
  BY <1>2, <1>3, <1>4

LEMMA FetchMove ==
  ASSUME TypeInv, NEW h \in Handlers, NEW u \in Users,
         Move(h, [job[h] EXCEPT !.at = "lookup", !.user = u])
  PROVE  \E r \in Jobs :
           /\ Move(h, r)
           /\ r.at = "lookup" /\ r.login = job[h].login /\ r.user = u
           /\ r.prn = job[h].prn /\ r.item = job[h].item /\ r.new = job[h].new
<1> DEFINE r == [job[h] EXCEPT !.at = "lookup", !.user = u]
<1>1. job[h] \in Jobs
  BY DEF TypeInv, TypeOK
<1>2. r \in Jobs
  BY <1>1 DEF Jobs, Labels
<1>3. /\ r.at = "lookup" /\ r.login = job[h].login /\ r.user = u
      /\ r.prn = job[h].prn /\ r.item = job[h].item /\ r.new = job[h].new
  BY <1>1 DEF Jobs
<1>4. Move(h, r)
  OBVIOUS
<1> HIDE DEF r
<1>5. QED
  BY <1>2, <1>3, <1>4

LEMMA FoundMove ==
  ASSUME TypeInv, NEW h \in Handlers, link[job[h].user] \in Nat,
         Move(h, [job[h] EXCEPT !.at = "putcode", !.prn = link[job[h].user]])
  PROVE  \E r \in Jobs :
           /\ Move(h, r)
           /\ r.at = "putcode" /\ r.login = job[h].login /\ r.user = job[h].user
           /\ r.prn = link[job[h].user] /\ r.item = job[h].item /\ r.new = job[h].new
<1>p1. PICK p \in Nat : p = link[job[h].user]
  OBVIOUS
<1> DEFINE r == [job[h] EXCEPT !.at = "putcode", !.prn = p]
<1>1. job[h] \in Jobs
  BY DEF TypeInv, TypeOK
<1>2. r \in Jobs
  BY <1>1 DEF Jobs, Labels
<1>3. /\ r.at = "putcode" /\ r.login = job[h].login /\ r.user = job[h].user
      /\ r.prn = p /\ r.item = job[h].item /\ r.new = job[h].new
  BY <1>1 DEF Jobs
<1>4. Move(h, r)
  BY <1>p1
<1> HIDE DEF r
<1>5. QED
  BY <1>2, <1>3, <1>4, <1>p1

LEMMA DrawnMove ==
  ASSUME TypeInv, NEW h \in Handlers, drawn \in Nat,
         Move(h, [job[h] EXCEPT !.at = "putprincipal", !.prn = drawn + 1])
  PROVE  \E r \in Jobs :
           /\ Move(h, r)
           /\ r.at = "putprincipal" /\ r.login = job[h].login /\ r.user = job[h].user
           /\ r.prn = drawn + 1 /\ r.item = job[h].item /\ r.new = job[h].new
<1>p1. PICK p \in Nat : p = drawn + 1
  OBVIOUS
<1> DEFINE r == [job[h] EXCEPT !.at = "putprincipal", !.prn = p]
<1>1. job[h] \in Jobs
  BY DEF TypeInv, TypeOK
<1>2. r \in Jobs
  BY <1>1 DEF Jobs, Labels
<1>3. /\ r.at = "putprincipal" /\ r.login = job[h].login /\ r.user = job[h].user
      /\ r.prn = p /\ r.item = job[h].item /\ r.new = job[h].new
  BY <1>1 DEF Jobs
<1>4. Move(h, r)
  BY <1>p1
<1> HIDE DEF r
<1>5. QED
  BY <1>2, <1>3, <1>4, <1>p1

LEMMA CodeMove ==
  ASSUME TypeInv, NEW h \in Handlers, Len(codes) \in Nat,
         Move(h, [job[h] EXCEPT !.at = "answercode", !.new = Len(codes) + 1])
  PROVE  \E r \in Jobs :
           /\ Move(h, r)
           /\ r.at = "answercode" /\ r.login = job[h].login /\ r.user = job[h].user
           /\ r.prn = job[h].prn /\ r.item = job[h].item /\ r.new = Len(codes) + 1
<1>p1. PICK n \in Nat : n = Len(codes) + 1
  OBVIOUS
<1> DEFINE r == [job[h] EXCEPT !.at = "answercode", !.new = n]
<1>1. job[h] \in Jobs
  BY DEF TypeInv, TypeOK
<1>2. r \in Jobs
  BY <1>1 DEF Jobs, Labels
<1>3. /\ r.at = "answercode" /\ r.login = job[h].login /\ r.user = job[h].user
      /\ r.prn = job[h].prn /\ r.item = job[h].item /\ r.new = n
  BY <1>1 DEF Jobs
<1>4. Move(h, r)
  BY <1>p1
<1> HIDE DEF r
<1>5. QED
  BY <1>2, <1>3, <1>4, <1>p1

LEMMA PairMove ==
  ASSUME TypeInv, NEW h \in Handlers, NEW label \in Labels, Len(pairs) \in Nat,
         Move(h, [job[h] EXCEPT !.at = label, !.new = Len(pairs) + 1])
  PROVE  \E r \in Jobs :
           /\ Move(h, r)
           /\ r.at = label /\ r.login = job[h].login /\ r.user = job[h].user
           /\ r.prn = job[h].prn /\ r.item = job[h].item /\ r.new = Len(pairs) + 1
<1>p1. PICK n \in Nat : n = Len(pairs) + 1
  OBVIOUS
<1> DEFINE r == [job[h] EXCEPT !.at = label, !.new = n]
<1>1. job[h] \in Jobs
  BY DEF TypeInv, TypeOK
<1>2. r \in Jobs
  BY <1>1 DEF Jobs, Labels
<1>3. /\ r.at = label /\ r.login = job[h].login /\ r.user = job[h].user
      /\ r.prn = job[h].prn /\ r.item = job[h].item /\ r.new = n
  BY <1>1 DEF Jobs
<1>4. Move(h, r)
  BY <1>p1
<1> HIDE DEF r
<1>5. QED
  BY <1>2, <1>3, <1>4, <1>p1

LEMMA RedeemMove ==
  ASSUME TypeInv, NEW h \in Handlers, NEW i \in 1..Len(codes), i \in Nat,
         codes[i].login \in Logins, codes[i].prn \in Nat,
         Move(h, [Idle EXCEPT !.at = "consumecode", !.item = i,
                      !.login = codes[i].login, !.prn = codes[i].prn])
  PROVE  \E r \in Jobs :
           /\ Move(h, r)
           /\ r.at = "consumecode" /\ r.login = codes[i].login /\ r.user = None
           /\ r.prn = codes[i].prn /\ r.item = i /\ r.new = 0
<1>p1. PICK l \in Logins : l = codes[i].login
  OBVIOUS
<1>p2. PICK p \in Nat : p = codes[i].prn
  OBVIOUS
<1> DEFINE r == [Idle EXCEPT !.at = "consumecode", !.item = i,
                      !.login = l, !.prn = p]
<1>1. job[h] \in Jobs
  BY DEF TypeInv, TypeOK
<1>2. r \in Jobs
  BY <1>1 DEF Jobs, Labels, Idle
<1>3. /\ r.at = "consumecode" /\ r.login = l /\ r.user = None
      /\ r.prn = p /\ r.item = i /\ r.new = 0
  BY <1>1 DEF Jobs, Idle
<1>4. Move(h, r)
  BY <1>p1, <1>p2
<1> HIDE DEF r
<1>5. QED
  BY <1>2, <1>3, <1>4, <1>p1, <1>p2

LEMMA RefreshMove ==
  ASSUME TypeInv, NEW h \in Handlers, NEW j \in Nat,
         Move(h, [Idle EXCEPT !.at = "scan", !.item = j])
  PROVE  \E r \in Jobs :
           /\ Move(h, r)
           /\ r.at = "scan" /\ r.login = None /\ r.user = None
           /\ r.prn = 0 /\ r.item = j /\ r.new = 0
<1> DEFINE r == [Idle EXCEPT !.at = "scan", !.item = j]
<1>1. job[h] \in Jobs
  BY DEF TypeInv, TypeOK
<1>2. r \in Jobs
  BY <1>1 DEF Jobs, Labels, Idle
<1>3. /\ r.at = "scan" /\ r.login = None /\ r.user = None
      /\ r.prn = 0 /\ r.item = j /\ r.new = 0
  BY <1>1 DEF Jobs, Idle
<1>4. Move(h, r)
  OBVIOUS
<1> HIDE DEF r
<1>5. QED
  BY <1>2, <1>3, <1>4

LEMMA ScanMove ==
  ASSUME TypeInv, NEW h \in Handlers, pairs[job[h].item].login \in Logins,
         pairs[job[h].item].prn \in Nat,
         Move(h, [job[h] EXCEPT !.at = "reissue",
                             !.login = pairs[job[h].item].login,
                             !.prn = pairs[job[h].item].prn])
  PROVE  \E r \in Jobs :
           /\ Move(h, r)
           /\ r.at = "reissue" /\ r.user = job[h].user /\ r.item = job[h].item
           /\ r.login = pairs[job[h].item].login /\ r.prn = pairs[job[h].item].prn
<1>p1. PICK l \in Logins : l = pairs[job[h].item].login
  OBVIOUS
<1>p2. PICK p \in Nat : p = pairs[job[h].item].prn
  OBVIOUS
<1> DEFINE r == [job[h] EXCEPT !.at = "reissue",
                             !.login = l,
                             !.prn = p]
<1>1. job[h] \in Jobs
  BY DEF TypeInv, TypeOK
<1>2. r \in Jobs
  BY <1>1 DEF Jobs, Labels
<1>3. /\ r.at = "reissue" /\ r.user = job[h].user /\ r.item = job[h].item
      /\ r.login = l /\ r.prn = p
  BY <1>1 DEF Jobs
<1>4. Move(h, r)
  BY <1>p1, <1>p2
<1> HIDE DEF r
<1>5. QED
  BY <1>2, <1>3, <1>4, <1>p1, <1>p2

\* What a stored code or pair holds.
LEMMA CodeFields ==
  ASSUME TypeInv, NEW i \in 1..Len(codes)
  PROVE  /\ i \in Nat /\ codes[i] \in Codes
         /\ codes[i].login \in Logins /\ codes[i].user \in Users
         /\ codes[i].prn \in Nat
<1>1. codes \in Seq(Codes) /\ i \in Nat
  BY DEF TypeInv, TypeOK
<1>2. codes[i] \in Codes
  BY <1>1
<1>3. QED
  BY <1>1, <1>2 DEF Codes

LEMMA PairFields ==
  ASSUME TypeInv, NEW j \in 1..Len(pairs)
  PROVE  /\ j \in Nat /\ pairs[j] \in Pairs
         /\ pairs[j].login \in Logins /\ pairs[j].prn \in Nat
<1>1. pairs \in Seq(Pairs) /\ j \in Nat
  BY DEF TypeInv, TypeOK
<1>2. pairs[j] \in Pairs
  BY <1>1
<1>3. QED
  BY <1>1, <1>2 DEF Pairs

\* consume_auth_code changes nothing of a code but whether it is used.
LEMMA ConsumeCodeEffect ==
  ASSUME TypeInv, NEW h \in Handlers, ConsumeCode(h)
  PROVE  /\ Grows
         /\ Len(codes') = Len(codes)
         /\ \A i \in 1..Len(codes) : /\ codes'[i].login = codes[i].login
                                     /\ codes'[i].user = codes[i].user
                                     /\ codes'[i].prn = codes[i].prn
<1> USE DEF ConsumeCode, At, sessions, users
<1>1. /\ codes \in Seq(Codes) /\ Len(codes) \in Nat
      /\ job[h].item \in 1..Len(codes)
      /\ codes[job[h].item] \in Codes
  BY DEF TypeInv, TypeOK, JobOK
<1>2. CASE codes' = [codes EXCEPT ![job[h].item].used = TRUE]
  <2> DEFINE c == [codes[job[h].item] EXCEPT !.used = TRUE]
  <2>1. c \in Codes
    BY <1>1 DEF Codes
  <2>2. /\ c.login = codes[job[h].item].login
        /\ c.user = codes[job[h].item].user
        /\ c.prn = codes[job[h].item].prn
    BY <1>1 DEF Codes
  <2>3. codes' = [codes EXCEPT ![job[h].item] = c]
    BY <1>2
  <2> HIDE DEF c
  <2>4. /\ codes' \in Seq(Codes) /\ Len(codes') = Len(codes)
        /\ \A i \in 1..Len(codes) :
             codes'[i] = IF i = job[h].item THEN c ELSE codes[i]
    BY <1>1, <2>1, <2>3, ExceptSeq
  <2>5. /\ drawn \in Nat /\ drawn' = drawn
        /\ pairs \in Seq(Pairs) /\ pairs' = pairs /\ Len(pairs) \in Nat
    BY DEF TypeInv, TypeOK
  <2>6. \A i \in 1..Len(codes) : /\ codes'[i].login = codes[i].login
                                 /\ codes'[i].user = codes[i].user
                                 /\ codes'[i].prn = codes[i].prn
    BY <2>2, <2>4
  <2>7. QED
    BY <1>1, <2>4, <2>5, <2>6 DEF Grows
<1>3. CASE UNCHANGED codes
  BY <1>3, NothingGrows
<1>4. QED
  BY <1>2, <1>3

LEMMA ConsumeTxnTypes ==
  ASSUME TypeInv, NEW h \in Handlers, ConsumeTxn(h)
  PROVE  TypeInv'
<1> USE DEF ConsumeTxn, At, users, sessions, clients, bounds
<1>1. /\ job[h] \in Jobs /\ JobOK(job[h])
      /\ "fetch" \in Labels
  BY DEF TypeInv, TypeOK, Labels
<1>2. Grows
  BY NothingGrows
<1>3. job[h].login \in Logins
  BY <1>1, <1>2 DEF JobOK
<1>4. ASSUME Goto(h, "fetch")
      PROVE  job' \in [Handlers -> Jobs] /\ \A g \in Handlers : JobOK(job[g])'
  <2>1. PICK r \in Jobs : Move(h, r) /\ Relabelled(r, job[h], "fetch")
    BY <1>1, <1>4, GotoFields
  <2>2. JobOK(r)'
    BY <1>1, <1>2, <1>3, <2>1 DEF JobOK, Winning, Relabelled, Grows
  <2>3. QED
    BY <1>2, <2>1, <2>2, JobsStay
<1>5. job' \in [Handlers -> Jobs] /\ \A g \in Handlers : JobOK(job[g])'
  BY <1>2, <1>4, LeaveTypes
<1>6. TypeOK'
  BY <1>1, <1>2, <1>3, <1>5 DEF TypeInv, TypeOK
<1>7. QED
  BY <1>5, <1>6 DEF TypeInv

LEMMA PutPrincipalTypes ==
  ASSUME TypeInv, NEW h \in Handlers, PutPrincipal(h)
  PROVE  TypeInv'
<1> USE DEF PutPrincipal, At, users, sessions, clients, bounds
<1>1. /\ job[h] \in Jobs /\ JobOK(job[h])
      /\ "putmembership" \in Labels
  BY DEF TypeInv, TypeOK, Labels
<1>2. Grows
  BY NothingGrows
<1>3. job[h].prn \in 1..drawn
  BY <1>1, <1>2 DEF JobOK
<1>4. ASSUME Goto(h, "putmembership")
      PROVE  job' \in [Handlers -> Jobs] /\ \A g \in Handlers : JobOK(job[g])'
  <2>1. PICK r \in Jobs : Move(h, r) /\ Relabelled(r, job[h], "putmembership")
    BY <1>1, <1>4, GotoFields
  <2>2. JobOK(r)'
    BY <1>1, <1>2, <1>3, <2>1 DEF JobOK, Winning, Relabelled, Grows
  <2>3. QED
    BY <1>2, <2>1, <2>2, JobsStay
<1>5. job' \in [Handlers -> Jobs] /\ \A g \in Handlers : JobOK(job[g])'
  BY <1>2, <1>4
<1>6. TypeOK'
  BY <1>1, <1>2, <1>3, <1>5 DEF TypeInv, TypeOK
<1>7. QED
  BY <1>5, <1>6 DEF TypeInv

LEMMA PutMembershipTypes ==
  ASSUME TypeInv, NEW h \in Handlers, PutMembership(h)
  PROVE  TypeInv'
<1> USE DEF PutMembership, At, users, sessions, clients, bounds
<1>1. /\ job[h] \in Jobs /\ JobOK(job[h])
      /\ "putlink" \in Labels
  BY DEF TypeInv, TypeOK, Labels
<1>2. Grows
  BY NothingGrows
<1>3. job[h].prn \in 1..drawn
  BY <1>1, <1>2 DEF JobOK
<1>4. ASSUME Goto(h, "putlink")
      PROVE  job' \in [Handlers -> Jobs] /\ \A g \in Handlers : JobOK(job[g])'
  <2>1. PICK r \in Jobs : Move(h, r) /\ Relabelled(r, job[h], "putlink")
    BY <1>1, <1>4, GotoFields
  <2>2. JobOK(r)'
    BY <1>1, <1>2, <1>3, <2>1 DEF JobOK, Winning, Relabelled, Grows
  <2>3. QED
    BY <1>2, <2>1, <2>2, JobsStay
<1>5. job' \in [Handlers -> Jobs] /\ \A g \in Handlers : JobOK(job[g])'
  BY <1>2, <1>4
<1>6. TypeOK'
  BY <1>1, <1>2, <1>3, <1>5 DEF TypeInv, TypeOK
<1>7. QED
  BY <1>5, <1>6 DEF TypeInv

LEMMA PutLinkTypes ==
  ASSUME TypeInv, NEW h \in Handlers, PutLink(h)
  PROVE  TypeInv'
<1> USE DEF PutLink, At, users, sessions, clients, bounds
<1>1. /\ job[h] \in Jobs /\ JobOK(job[h])
      /\ "putcode" \in Labels
  BY DEF TypeInv, TypeOK, Labels
<1>2. Grows
  BY NothingGrows
<1>3. job[h].prn \in 1..drawn /\ job[h].user \in Users
  BY <1>1, <1>2 DEF JobOK, Winning
<1>4. ASSUME Goto(h, "putcode")
      PROVE  job' \in [Handlers -> Jobs] /\ \A g \in Handlers : JobOK(job[g])'
  <2>1. PICK r \in Jobs : Move(h, r) /\ Relabelled(r, job[h], "putcode")
    BY <1>1, <1>4, GotoFields
  <2>2. JobOK(r)'
    BY <1>1, <1>2, <1>3, <2>1 DEF JobOK, Winning, Relabelled, Grows
  <2>3. QED
    BY <1>2, <2>1, <2>2, JobsStay
<1>5. job' \in [Handlers -> Jobs] /\ \A g \in Handlers : JobOK(job[g])'
  BY <1>2, <1>4
<1>6. TypeOK'
  BY <1>1, <1>2, <1>3, <1>5 DEF TypeInv, TypeOK
<1>7. QED
  BY <1>5, <1>6 DEF TypeInv

LEMMA ConsumeCodeTypes ==
  ASSUME TypeInv, NEW h \in Handlers, ConsumeCode(h)
  PROVE  TypeInv'
<1> USE DEF ConsumeCode, At, users, sessions, clients, bounds
<1>1. /\ job[h] \in Jobs /\ JobOK(job[h])
      /\ "issue" \in Labels
  BY DEF TypeInv, TypeOK, Labels
<1>2. Grows /\ Len(codes') = Len(codes)
  BY ConsumeCodeEffect
<1>3. job[h].login \in Logins
  BY <1>1, <1>2, CodeFields DEF JobOK
<1>4. ASSUME Goto(h, "issue")
      PROVE  job' \in [Handlers -> Jobs] /\ \A g \in Handlers : JobOK(job[g])'
  <2>1. PICK r \in Jobs : Move(h, r) /\ Relabelled(r, job[h], "issue")
    BY <1>1, <1>4, GotoFields
  <2>2. JobOK(r)'
    BY <1>1, <1>2, <1>3, <2>1 DEF JobOK, Winning, Relabelled, Grows
  <2>3. QED
    BY <1>2, <2>1, <2>2, JobsStay
<1>5. job' \in [Handlers -> Jobs] /\ \A g \in Handlers : JobOK(job[g])'
  BY <1>2, <1>4, LeaveTypes
<1>6. TypeOK'
  <2>1. UNCHANGED <<txn, users, sessions, clients, bounds, faults>>
    OBVIOUS
  <2> HIDE DEF ConsumeCode
  <2>2. QED
    BY <1>2, <1>5, <2>1 DEF TypeInv, TypeOK, Grows
<1>7. QED
  BY <1>5, <1>6 DEF TypeInv

LEMMA RotateTypes ==
  ASSUME TypeInv, NEW h \in Handlers, Rotate(h)
  PROVE  TypeInv'
<1> USE DEF Rotate, At, users, sessions, clients, bounds
<1>1. /\ job[h] \in Jobs /\ JobOK(job[h])
      /\ "answerpair" \in Labels
  BY DEF TypeInv, TypeOK, Labels
<1>2. Grows
  BY NothingGrows
<1>3. job[h].new \in 1..Len(pairs)
  BY <1>1, <1>2 DEF JobOK
<1>4. ASSUME Goto(h, "answerpair")
      PROVE  job' \in [Handlers -> Jobs] /\ \A g \in Handlers : JobOK(job[g])'
  <2>1. PICK r \in Jobs : Move(h, r) /\ Relabelled(r, job[h], "answerpair")
    BY <1>1, <1>4, GotoFields
  <2>2. JobOK(r)'
    BY <1>1, <1>2, <1>3, <2>1 DEF JobOK, Winning, Relabelled, Grows
  <2>3. QED
    BY <1>2, <2>1, <2>2, JobsStay
<1>5. job' \in [Handlers -> Jobs] /\ \A g \in Handlers : JobOK(job[g])'
  BY <1>2, <1>4
<1>6. TypeOK'
  BY <1>1, <1>2, <1>3, <1>5 DEF TypeInv, TypeOK
<1>7. QED
  BY <1>5, <1>6 DEF TypeInv

LEMMA CallbackTypes ==
  ASSUME TypeInv, NEW h \in Handlers, NEW l \in Logins, Callback(h, l)
  PROVE  TypeInv'
<1> USE DEF Callback, At, users, sessions, clients, bounds
<1>1. /\ job[h] \in Jobs /\ JobOK(job[h])
      /\ TRUE
  BY LoginConstantsOK DEF TypeInv, TypeOK, Labels
<1>2. Grows
  BY NothingGrows
<1>3. ASSUME Move(h, [Idle EXCEPT !.at = "consumetxn", !.login = l])
      PROVE  job' \in [Handlers -> Jobs] /\ \A g \in Handlers : JobOK(job[g])'
  <2>1. PICK r \in Jobs : Move(h, r) /\ r.at = "consumetxn" /\ r.login = l /\ r.prn = 0
    BY <1>1, <1>2, <1>3, CallbackMove
  <2>2. JobOK(r)'
    BY <1>1, <1>2, <1>3, <2>1 DEF JobOK, Winning, Grows
  <2>3. QED
    BY <1>2, <2>1, <2>2, JobsStay
<1>4. job' \in [Handlers -> Jobs] /\ \A g \in Handlers : JobOK(job[g])'
  BY <1>1, <1>2, <1>3
<1>5. TypeOK'
  BY <1>1, <1>2, <1>4 DEF TypeInv, TypeOK, Faults
<1>6. QED
  BY <1>4, <1>5 DEF TypeInv

LEMMA FetchTypes ==
  ASSUME TypeInv, NEW h \in Handlers, Fetch(h)
  PROVE  TypeInv'
<1> USE DEF Fetch, At, users, sessions, clients, bounds
<1>1. /\ job[h] \in Jobs /\ JobOK(job[h])
      /\ job[h].login \in Logins
  BY LoginConstantsOK DEF TypeInv, TypeOK, Labels, JobOK, Winning
<1>2. Grows
  BY NothingGrows
<1>3. ASSUME NEW u \in Users, Move(h, [job[h] EXCEPT !.at = "lookup", !.user = u])
      PROVE  job' \in [Handlers -> Jobs] /\ \A g \in Handlers : JobOK(job[g])'
  <2>1. PICK r \in Jobs : Move(h, r) /\ 
           r.at = "lookup" /\ r.user = u /\ r.prn = job[h].prn
           /\ r.login = job[h].login
    BY <1>1, <1>2, <1>3, FetchMove
  <2>2. JobOK(r)'
    BY <1>1, <1>2, <1>3, <2>1 DEF JobOK, Winning, Grows
  <2>3. QED
    BY <1>2, <2>1, <2>2, JobsStay
<1>4. job' \in [Handlers -> Jobs] /\ \A g \in Handlers : JobOK(job[g])'
  BY <1>1, <1>2, <1>3, LeaveTypes
<1>5. TypeOK'
  BY <1>1, <1>2, <1>4 DEF TypeInv, TypeOK, Faults
<1>6. QED
  BY <1>4, <1>5 DEF TypeInv

LEMMA LookupTypes ==
  ASSUME TypeInv, NEW h \in Handlers, Lookup(h)
  PROVE  TypeInv'
<1> USE DEF Lookup, At, users, sessions, clients, bounds
<1>1. /\ job[h] \in Jobs /\ JobOK(job[h])
      /\ job[h].login \in Logins /\ job[h].user \in Users
      /\ link[job[h].user] \in 0..drawn
      /\ drawn \in Nat /\ link[job[h].user] \in Nat
      /\ {"putcode", "putprincipal"} \subseteq Labels
  BY LoginConstantsOK DEF TypeInv, TypeOK, Labels, JobOK, Winning
<1>2. Grows
  BY NothingGrows DEF Grows, TypeInv, TypeOK
<1>3. ASSUME Move(h, [job[h] EXCEPT !.at = "putcode", !.prn = link[job[h].user]])
      PROVE  job' \in [Handlers -> Jobs] /\ \A g \in Handlers : JobOK(job[g])'
  <2>1. PICK r \in Jobs : Move(h, r) /\ 
           r.at = "putcode" /\ r.login = job[h].login
           /\ r.user = job[h].user /\ r.prn = link[job[h].user]
    BY <1>1, <1>2, <1>3, FoundMove
  <2>2. JobOK(r)'
    BY <1>1, <1>2, <1>3, <2>1 DEF JobOK, Winning, Grows
  <2>3. QED
    BY <1>2, <2>1, <2>2, JobsStay
<1>4. ASSUME drawn' = drawn + 1,
             Move(h, [job[h] EXCEPT !.at = "putprincipal", !.prn = drawn + 1])
      PROVE  job' \in [Handlers -> Jobs] /\ \A g \in Handlers : JobOK(job[g])'
  <2>1. PICK r \in Jobs : Move(h, r) /\ 
           r.at = "putprincipal" /\ r.login = job[h].login
           /\ r.user = job[h].user /\ r.prn = drawn + 1
    BY <1>1, <1>2, <1>4, DrawnMove
  <2>2. JobOK(r)'
    BY <1>1, <1>2, <1>4, <2>1 DEF JobOK, Winning, Grows
  <2>3. QED
    BY <1>2, <2>1, <2>2, JobsStay
<1>5. job' \in [Handlers -> Jobs] /\ \A g \in Handlers : JobOK(job[g])'
  BY <1>1, <1>2, <1>3, <1>4
<1>6. TypeOK'
  BY <1>1, <1>2, <1>5 DEF TypeInv, TypeOK, Faults
<1>7. QED
  BY <1>5, <1>6 DEF TypeInv

LEMMA RedeemTypes ==
  ASSUME TypeInv, NEW h \in Handlers, NEW i \in codesOut, Redeem(h, i)
  PROVE  TypeInv'
<1> USE DEF Redeem, At, users, sessions, clients, bounds
<1>1. /\ job[h] \in Jobs /\ JobOK(job[h])
      /\ i \in 1..Len(codes)
  BY LoginConstantsOK DEF TypeInv, TypeOK, Labels
<1>2. Grows
  BY NothingGrows
<1>3. ASSUME Move(h, [Idle EXCEPT !.at = "consumecode", !.item = i,
                      !.login = codes[i].login, !.prn = codes[i].prn])
      PROVE  job' \in [Handlers -> Jobs] /\ \A g \in Handlers : JobOK(job[g])'
  <2>1. PICK r \in Jobs : Move(h, r) /\ 
           r.at = "consumecode" /\ r.login = codes[i].login
           /\ r.prn = codes[i].prn /\ r.item = i
    BY <1>1, <1>2, <1>3, RedeemMove, CodeFields
  <2>2. JobOK(r)'
    BY <1>1, <1>2, <1>3, <2>1, CodeFields DEF JobOK, Winning, Grows
  <2>3. QED
    BY <1>2, <2>1, <2>2, JobsStay
<1>4. job' \in [Handlers -> Jobs] /\ \A g \in Handlers : JobOK(job[g])'
  BY <1>1, <1>2, <1>3
<1>5. TypeOK'
  BY <1>1, <1>2, <1>4 DEF TypeInv, TypeOK, Faults
<1>6. QED
  BY <1>4, <1>5 DEF TypeInv

LEMMA RefreshTypes ==
  ASSUME TypeInv, NEW h \in Handlers, NEW j \in pairsOut, Refresh(h, j)
  PROVE  TypeInv'
<1> USE DEF Refresh, At, users, sessions, clients, bounds
<1>1. /\ job[h] \in Jobs /\ JobOK(job[h])
      /\ j \in 1..Len(pairs) /\ j \in Nat
  BY LoginConstantsOK DEF TypeInv, TypeOK, Labels
<1>2. Grows
  BY NothingGrows
<1>3. ASSUME Move(h, [Idle EXCEPT !.at = "scan", !.item = j])
      PROVE  job' \in [Handlers -> Jobs] /\ \A g \in Handlers : JobOK(job[g])'
  <2>1. PICK r \in Jobs : Move(h, r) /\ r.at = "scan" /\ r.prn = 0 /\ r.item = j
    BY <1>1, <1>2, <1>3, RefreshMove
  <2>2. JobOK(r)'
    BY <1>1, <1>2, <1>3, <2>1 DEF JobOK, Winning, Grows
  <2>3. QED
    BY <1>2, <2>1, <2>2, JobsStay
<1>4. job' \in [Handlers -> Jobs] /\ \A g \in Handlers : JobOK(job[g])'
  BY <1>1, <1>2, <1>3
<1>5. TypeOK'
  BY <1>1, <1>2, <1>4 DEF TypeInv, TypeOK, Faults
<1>6. QED
  BY <1>4, <1>5 DEF TypeInv

LEMMA ScanTypes ==
  ASSUME TypeInv, NEW h \in Handlers, Scan(h)
  PROVE  TypeInv'
<1> USE DEF Scan, At, users, sessions, clients, bounds
<1>1. /\ job[h] \in Jobs /\ JobOK(job[h])
      /\ job[h].item \in 1..Len(pairs)
  BY LoginConstantsOK DEF TypeInv, TypeOK, Labels, JobOK
<1>2. Grows
  BY NothingGrows
<1>3. ASSUME Move(h, [job[h] EXCEPT !.at = "reissue",
                             !.login = pairs[job[h].item].login,
                             !.prn = pairs[job[h].item].prn])
      PROVE  job' \in [Handlers -> Jobs] /\ \A g \in Handlers : JobOK(job[g])'
  <2>1. PICK r \in Jobs : Move(h, r) /\ 
           r.at = "reissue" /\ r.login = pairs[job[h].item].login
           /\ r.prn = pairs[job[h].item].prn /\ r.item = job[h].item
    BY <1>1, <1>2, <1>3, ScanMove, PairFields
  <2>2. JobOK(r)'
    BY <1>1, <1>2, <1>3, <2>1, PairFields DEF JobOK, Winning, Grows
  <2>3. QED
    BY <1>2, <2>1, <2>2, JobsStay
<1>4. job' \in [Handlers -> Jobs] /\ \A g \in Handlers : JobOK(job[g])'
  BY <1>1, <1>2, <1>3, LeaveTypes
<1>5. TypeOK'
  BY <1>1, <1>2, <1>4 DEF TypeInv, TypeOK, Faults
<1>6. QED
  BY <1>4, <1>5 DEF TypeInv

LEMMA AnswerCodeTypes ==
  ASSUME TypeInv, NEW h \in Handlers, AnswerCode(h)
  PROVE  TypeInv'
<1> USE DEF AnswerCode, At, users, sessions, clients, bounds
<1>1. Grows
  BY NothingGrows
<1>2. job' \in [Handlers -> Jobs] /\ \A g \in Handlers : JobOK(job[g])'
  BY <1>1, LeaveTypes
<1>3. job[h].new \in 1..Len(codes)
  BY DEF TypeInv, JobOK
<1>4. TypeOK'
  BY <1>2, <1>3 DEF TypeInv, TypeOK
<1>5. QED
  BY <1>2, <1>4 DEF TypeInv

LEMMA AnswerPairTypes ==
  ASSUME TypeInv, NEW h \in Handlers, AnswerPair(h)
  PROVE  TypeInv'
<1> USE DEF AnswerPair, At, users, sessions, clients, bounds
<1>1. Grows
  BY NothingGrows
<1>2. job' \in [Handlers -> Jobs] /\ \A g \in Handlers : JobOK(job[g])'
  BY <1>1, LeaveTypes
<1>3. job[h].new \in 1..Len(pairs)
  BY DEF TypeInv, JobOK
<1>4. faults' \subseteq Faults
  BY DEF TypeInv, TypeOK, Faults
<1>5. TypeOK'
  BY <1>2, <1>3, <1>4 DEF TypeInv, TypeOK
<1>6. QED
  BY <1>2, <1>5 DEF TypeInv

\* What issue_auth_code adds.
LEMMA PutCodeEffect ==
  ASSUME TypeInv, NEW h \in Handlers, PutCode(h)
  PROVE  /\ Grows
         /\ Len(codes) \in Nat /\ Len(codes') = Len(codes) + 1
         /\ \A i \in 1..Len(codes) : codes'[i] = codes[i]
         /\ codes'[Len(codes) + 1].login = job[h].login
         /\ codes'[Len(codes) + 1].user = job[h].user
         /\ codes'[Len(codes) + 1].prn = job[h].prn
<1> DEFINE c == [login |-> job[h].login, user |-> job[h].user,
                 prn |-> job[h].prn, used |-> FALSE]
<1>1. job[h] \in Jobs /\ job[h].login \in Logins /\ job[h].user \in Users
  BY DEF TypeInv, TypeOK, JobOK, PutCode, At, Winning
<1>2. c \in Codes
  BY <1>1 DEF Codes, Jobs
<1>3. codes' = Append(codes, c) /\ UNCHANGED <<drawn, pairs>>
  BY DEF PutCode, users, sessions
<1>4. codes \in Seq(Codes) /\ Len(codes) \in Nat
      /\ drawn \in Nat /\ pairs \in Seq(Pairs) /\ Len(pairs) \in Nat
  BY DEF TypeInv, TypeOK
<1> HIDE DEF c
<1>5. /\ codes' \in Seq(Codes) /\ Len(codes') = Len(codes) + 1
      /\ \A i \in 1..Len(codes) : codes'[i] = codes[i]
      /\ codes'[Len(codes) + 1] = c
  BY <1>2, <1>3, <1>4, AppendProperties
<1>6. Grows
  BY <1>3, <1>4, <1>5 DEF Grows
<1>7. QED
  BY <1>4, <1>5, <1>6 DEF c

LEMMA PutCodeTypes ==
  ASSUME TypeInv, NEW h \in Handlers, PutCode(h)
  PROVE  TypeInv'
<1>1. JobOK(job[h]) /\ At(h, "putcode")
  BY DEF TypeInv, PutCode
<1>2. Grows /\ Len(codes) \in Nat /\ Len(codes') = Len(codes) + 1
  BY PutCodeEffect
<1>3. PICK r \in Jobs : Move(h, r) /\ r.at = "answercode"
                        /\ r.new = Len(codes) + 1
  BY <1>2, CodeMove DEF PutCode
<1>4. JobOK(r)'
  BY <1>2, <1>3 DEF JobOK, Winning
<1>5. job' \in [Handlers -> Jobs] /\ \A g \in Handlers : JobOK(job[g])'
  BY <1>2, <1>3, <1>4, JobsStay
<1>6. UNCHANGED <<txn, users, sessions, clients, bounds, faults>>
  BY DEF PutCode
<1>7. TypeOK'
  BY <1>2, <1>5, <1>6
     DEF TypeInv, TypeOK, Grows, users, sessions, clients, bounds
<1>8. QED
  BY <1>5, <1>7 DEF TypeInv

\* What _issue_pair adds.
LEMMA IssuePairEffect ==
  ASSUME TypeInv, NEW h \in Handlers, NEW first \in BOOLEAN,
         NEW label \in Labels, job[h].login \in Logins,
         IssuePair(h, first, label), UNCHANGED <<drawn, codes>>
  PROVE  /\ Grows
         /\ Len(pairs) \in Nat /\ Len(pairs') = Len(pairs) + 1
         /\ \A j \in 1..Len(pairs) : pairs'[j] = pairs[j]
         /\ pairs'[Len(pairs) + 1].login = job[h].login
         /\ pairs'[Len(pairs) + 1].prn = job[h].prn
         /\ pairs'[Len(pairs) + 1].first = first
         /\ \E r \in Jobs :
              /\ Move(h, r)
              /\ r.at = label /\ r.login = job[h].login
              /\ r.prn = job[h].prn /\ r.item = job[h].item
              /\ r.new = Len(pairs) + 1
<1> DEFINE p == [login |-> job[h].login, prn |-> job[h].prn, first |-> first]
<1>1. job[h] \in Jobs
  BY DEF TypeInv, TypeOK
<1>2. p \in Pairs
  BY <1>1 DEF Pairs, Jobs
<1>3. pairs' = Append(pairs, p)
  BY DEF IssuePair
<1>4. codes \in Seq(Codes) /\ Len(codes) \in Nat
      /\ drawn \in Nat /\ pairs \in Seq(Pairs) /\ Len(pairs) \in Nat
  BY DEF TypeInv, TypeOK
<1> HIDE DEF p
<1>5. /\ pairs' \in Seq(Pairs) /\ Len(pairs') = Len(pairs) + 1
      /\ \A j \in 1..Len(pairs) : pairs'[j] = pairs[j]
      /\ pairs'[Len(pairs) + 1] = p
  BY <1>2, <1>3, <1>4, AppendProperties
<1>6. Grows
  BY <1>3, <1>4, <1>5 DEF Grows
<1>7. \E r \in Jobs : /\ Move(h, r)
                      /\ r.at = label /\ r.login = job[h].login
                      /\ r.prn = job[h].prn /\ r.item = job[h].item
                      /\ r.new = Len(pairs) + 1
  BY <1>4, PairMove DEF IssuePair
<1>8. QED
  BY <1>4, <1>5, <1>6, <1>7 DEF p

LEMMA IssueTypes ==
  ASSUME TypeInv, NEW h \in Handlers, Issue(h)
  PROVE  TypeInv'
<1>1. job[h].login \in Logins /\ "answerpair" \in Labels
  BY DEF TypeInv, JobOK, Issue, At, Labels
<1>2. UNCHANGED <<txn, users, codes, clients, bounds, faults>>
  BY DEF Issue
<1>3. IssuePair(h, TRUE, "answerpair") /\ UNCHANGED <<drawn, codes>>
  BY DEF Issue, users
<1>4. Grows /\ Len(pairs) \in Nat /\ Len(pairs') = Len(pairs) + 1
  BY <1>1, <1>3, IssuePairEffect
<1>5. PICK r \in Jobs : Move(h, r) /\ r.at = "answerpair"
                        /\ r.new = Len(pairs) + 1
  BY <1>1, <1>3, IssuePairEffect
<1>6. JobOK(r)'
  BY <1>4, <1>5 DEF JobOK, Winning
<1>7. job' \in [Handlers -> Jobs] /\ \A g \in Handlers : JobOK(job[g])'
  BY <1>4, <1>5, <1>6, JobsStay
<1>8. rows' \subseteq 1..Len(pairs')
  BY <1>3, <1>4 DEF IssuePair, TypeInv, TypeOK
<1>9. TypeOK'
  BY <1>2, <1>4, <1>7, <1>8
     DEF TypeInv, TypeOK, Grows, users, clients, bounds
<1>10. QED
  BY <1>7, <1>9 DEF TypeInv

LEMMA ReissueTypes ==
  ASSUME TypeInv, NEW h \in Handlers, Reissue(h)
  PROVE  TypeInv'
<1>1. /\ job[h].login \in Logins /\ job[h].item \in 1..Len(pairs)
      /\ "rotate" \in Labels
  BY DEF TypeInv, JobOK, Reissue, At, Labels
<1>2. UNCHANGED <<txn, users, codes, clients, bounds, faults>>
  BY DEF Reissue
<1>3. IssuePair(h, FALSE, "rotate") /\ UNCHANGED <<drawn, codes>>
  BY DEF Reissue, users
<1>4. Grows /\ Len(pairs) \in Nat /\ Len(pairs') = Len(pairs) + 1
  BY <1>1, <1>3, IssuePairEffect
<1>5. PICK r \in Jobs : Move(h, r) /\ r.at = "rotate"
                        /\ r.item = job[h].item /\ r.new = Len(pairs) + 1
  BY <1>1, <1>3, IssuePairEffect
<1>6. JobOK(r)'
  BY <1>1, <1>4, <1>5 DEF JobOK, Winning
<1>7. job' \in [Handlers -> Jobs] /\ \A g \in Handlers : JobOK(job[g])'
  BY <1>4, <1>5, <1>6, JobsStay
<1>8. rows' \subseteq 1..Len(pairs')
  BY <1>3, <1>4 DEF IssuePair, TypeInv, TypeOK
<1>9. TypeOK'
  BY <1>2, <1>4, <1>7, <1>8
     DEF TypeInv, TypeOK, Grows, users, clients, bounds
<1>10. QED
  BY <1>7, <1>9 DEF TypeInv

LEMMA StartLoginTypes ==
  ASSUME TypeInv, NEW l \in Logins, StartLogin(l)
  PROVE  TypeInv'
<1>1. TypeOK'
  BY DEF TypeInv, TypeOK, StartLogin, users, sessions, clients, bounds
<1>2. \A h \in Handlers : JobOK(job[h])'
  BY DEF TypeInv, JobOK, StartLogin, users, sessions
<1>3. QED
  BY <1>1, <1>2 DEF TypeInv

LEMMA CrashTypes ==
  ASSUME TypeInv, Crash
  PROVE  TypeInv'
<1>1. Idle \in Jobs /\ JobOK(Idle)'
  BY DEF Idle, Jobs, Labels, JobOK, Winning
<1>2. job' \in [Handlers -> Jobs] /\ \A h \in Handlers : job'[h] = Idle
  BY <1>1 DEF Crash
<1>3. \A h \in Handlers : JobOK(job[h])'
  BY <1>1, <1>2 DEF JobOK
<1>4. TypeOK'
  BY <1>2 DEF TypeInv, TypeOK, Faults, Crash, users, sessions, clients, bounds
<1>5. QED
  BY <1>3, <1>4 DEF TypeInv

LEMMA TypeStep == TypeInv /\ [Next]_vars => TypeInv'
<1> SUFFICES ASSUME TypeInv, [Next]_vars
             PROVE  TypeInv'
  OBVIOUS
<1>1. CASE Next
  BY <1>1, StartLoginTypes, CallbackTypes, ConsumeTxnTypes, FetchTypes,
     LookupTypes, PutPrincipalTypes, PutMembershipTypes, PutLinkTypes,
     PutCodeTypes, AnswerCodeTypes, RedeemTypes, ConsumeCodeTypes,
     IssueTypes, RefreshTypes, ScanTypes, ReissueTypes,
     RotateTypes, AnswerPairTypes, CrashTypes
     DEF Next
<1>2. CASE UNCHANGED vars
  <2>1. TypeOK'
    BY <1>2 DEF TypeInv, TypeOK, vars, users, sessions, clients, bounds
  <2>2. \A h \in Handlers : JobOK(job[h])'
    BY <1>2 DEF TypeInv, JobOK, vars, users, sessions
  <2>3. QED
    BY <2>1, <2>2 DEF TypeInv
<1>3. QED
  BY <1>1, <1>2

LEMMA InitTypes == Init => TypeInv
<1> SUFFICES ASSUME Init
             PROVE  TypeInv
  OBVIOUS
<1>1. Idle \in Jobs /\ JobOK(Idle)
  BY DEF Idle, Jobs, Labels, JobOK, Winning
<1>2. \A h \in Handlers : job[h] = Idle
  BY DEF Init
<1>3. TypeOK
  BY <1>1 DEF Init, TypeOK
<1>4. QED
  BY <1>1, <1>2, <1>3 DEF TypeInv

-----------------------------------------------------------------------------
(* A login opens one session. *)

\* A move that gains no right to a login keeps the invariant.
LEMMA LoginStays ==
  ASSUME TypeInv, LoginInv, NEW h \in Handlers, NEW r \in Jobs, Move(h, r),
         UNCHANGED <<txn, codes, pairs>>,
         r.at \in Winning => /\ job[h].at \in Winning
                             /\ r.login = job[h].login,
         r.at # "issue",
         r.at = "reissue" => Issued(r.login)
  PROVE  LoginInv'
<1>1. job'[h] = r /\ \A g \in Handlers \ {h} : job'[g] = job[g]
  BY MoveFacts DEF TypeInv, TypeOK
<1>2. TxnOnce'
  BY <1>1 DEF LoginInv, TxnOnce
<1>3. CodeOnce'
  BY <1>1 DEF LoginInv, CodeOnce, At, Spent, Issued
<1>4. OneSessionPerLogin'
  BY DEF LoginInv, OneSessionPerLogin
<1>5. QED
  BY <1>2, <1>3, <1>4 DEF LoginInv

\* So does a handler that answers.
LEMMA LoginLeave ==
  ASSUME TypeInv, LoginInv, NEW h \in Handlers, Leave(h),
         UNCHANGED <<txn, codes, pairs>>
  PROVE  LoginInv'
<1>1. Idle \in Jobs /\ Idle.at = "idle"
  BY DEF Idle, Jobs, Labels
<1>2. QED
  BY <1>1, LoginStays DEF Leave, Winning

\* So does a handler that goes on with what it has.
LEMMA LoginGoto ==
  ASSUME TypeInv, LoginInv, NEW h \in Handlers, NEW label \in Labels,
         Goto(h, label), UNCHANGED <<txn, codes, pairs>>,
         label \in Winning => job[h].at \in Winning,
         label \notin {"issue", "reissue"}
  PROVE  LoginInv'
<1>1. PICK r \in Jobs : Move(h, r) /\ Relabelled(r, job[h], label)
  BY GotoFields
<1>2. QED
  BY <1>1, LoginStays DEF Relabelled

LEMMA ConsumeTxnLogin ==
  ASSUME TypeInv, LoginInv, NEW h \in Handlers, ConsumeTxn(h)
  PROVE  LoginInv'
<1> USE DEF ConsumeTxn, At, users, sessions
<1>1. CASE /\ txn[job[h].login] = "open"
           /\ txn' = [txn EXCEPT ![job[h].login] = "used"]
           /\ Goto(h, "fetch")
  <2>1. job[h].login \in Logins /\ "fetch" \in Labels
    BY DEF TypeInv, JobOK, Labels
  <2>2. PICK r \in Jobs : Move(h, r) /\ Relabelled(r, job[h], "fetch")
    BY <1>1, <2>1, GotoFields
  <2>3. job'[h] = r /\ \A g \in Handlers \ {h} : job'[g] = job[g]
    BY <2>2, MoveFacts DEF TypeInv, TypeOK
  <2>4. /\ txn'[job[h].login] = "used"
        /\ \A l \in Logins : txn[l] = "used" => txn'[l] = "used"
    BY <1>1, <2>1 DEF TypeInv, TypeOK
  <2>5. \A i \in 1..Len(codes) :
          codes[i].login \in Logins /\ codes[i].login # job[h].login
    BY <1>1, CodeFields DEF LoginInv, TxnOnce
  <2>6. \A g \in Handlers :
          job[g].at \in Winning =>
            job[g].login \in Logins /\ job[g].login # job[h].login
    BY <1>1 DEF LoginInv, TxnOnce, TypeInv, JobOK
  <2>7. TxnOnce'
    BY <2>2, <2>3, <2>4, <2>5, <2>6 DEF LoginInv, TxnOnce, Relabelled
  <2>8. CodeOnce'
    BY <2>2, <2>3 DEF LoginInv, CodeOnce, Relabelled, Spent, Issued
  <2>9. QED
    BY <2>7, <2>8 DEF LoginInv, OneSessionPerLogin
<1>2. CASE Leave(h) /\ UNCHANGED txn
  BY <1>2, LoginLeave
<1>3. QED
  BY <1>1, <1>2

LEMMA PutCodeLogin ==
  ASSUME TypeInv, LoginInv, NEW h \in Handlers, PutCode(h)
  PROVE  LoginInv'
<1>1. /\ At(h, "putcode") /\ "putcode" \in Winning
      /\ job[h].login \in Logins
  BY DEF PutCode, Winning, TypeInv, JobOK, At
<1>2. UNCHANGED <<txn, pairs>>
  BY DEF PutCode, sessions
<1>3. /\ Len(codes) \in Nat /\ Len(codes') = Len(codes) + 1
      /\ \A i \in 1..Len(codes) : codes'[i] = codes[i]
      /\ codes'[Len(codes) + 1].login = job[h].login
  BY PutCodeEffect
<1>4. PICK r \in Jobs : Move(h, r) /\ r.at = "answercode"
  BY <1>3, CodeMove DEF PutCode
<1>5. job'[h] = r /\ \A g \in Handlers \ {h} : job'[g] = job[g]
  BY <1>4, MoveFacts DEF TypeInv, TypeOK
<1>6. TxnOnce'
  <2>1. /\ txn[job[h].login] = "used"
        /\ \A i \in 1..Len(codes) : codes[i].login # job[h].login
        /\ \A g \in Handlers :
             job[g].at \in Winning /\ job[g].login = job[h].login => g = h
    BY <1>1 DEF LoginInv, TxnOnce, At
  <2>2. job'[h].at \notin Winning
    BY <1>4, <1>5 DEF Winning
  <2>3. \A i \in 1..Len(codes') : i \in 1..Len(codes) \/ i = Len(codes) + 1
    BY <1>3
  <2>4. ASSUME NEW g \in Handlers, job'[g].at \in Winning
        PROVE  /\ txn'[job'[g].login] = "used"
               /\ \A i \in 1..Len(codes') : codes'[i].login # job'[g].login
               /\ \A f \in Handlers :
                    job'[f].at \in Winning /\ job'[f].login = job'[g].login
                      => f = g
    BY <1>2, <1>3, <1>5, <2>1, <2>2, <2>3, <2>4 DEF LoginInv, TxnOnce
  <2>5. \A i \in 1..Len(codes') : txn'[codes'[i].login] = "used"
    BY <1>2, <1>3, <2>1, <2>3 DEF LoginInv, TxnOnce
  <2>6. \A i, j \in 1..Len(codes') :
          codes'[i].login = codes'[j].login => i = j
    BY <1>3, <2>1, <2>3 DEF LoginInv, TxnOnce
  <2>7. QED
    BY <2>4, <2>5, <2>6 DEF TxnOnce
<1>7. CodeOnce'
  <2>1. \A l : (Spent(l) => Spent(l)') /\ (Issued(l) <=> Issued(l)')
    <3>1. \A i \in 1..Len(codes) : i \in 1..Len(codes')
      BY <1>3
    <3>2. QED
      BY <1>2, <1>3, <3>1 DEF Spent, Issued
  <2>2. QED
    BY <1>2, <1>4, <1>5, <2>1 DEF LoginInv, CodeOnce, At
<1>8. QED
  BY <1>2, <1>6, <1>7 DEF LoginInv, OneSessionPerLogin

LEMMA ConsumeCodeLogin ==
  ASSUME TypeInv, LoginInv, NEW h \in Handlers, ConsumeCode(h)
  PROVE  LoginInv'
<1>1. /\ At(h, "consumecode") /\ job[h].item \in 1..Len(codes)
      /\ job[h].login = codes[job[h].item].login /\ "issue" \in Labels
  BY DEF ConsumeCode, TypeInv, JobOK, At, Labels
<1>2. UNCHANGED <<txn, pairs>>
  BY DEF ConsumeCode, sessions
<1>3. /\ Len(codes') = Len(codes)
      /\ \A i \in 1..Len(codes) : codes'[i].login = codes[i].login
  BY ConsumeCodeEffect
<1>4. CASE /\ ~codes[job[h].item].used
           /\ codes' = [codes EXCEPT ![job[h].item].used = TRUE]
           /\ Goto(h, "issue")
  <2>1. PICK r \in Jobs : Move(h, r) /\ Relabelled(r, job[h], "issue")
    BY <1>1, <1>4, GotoFields
  <2>2. job'[h] = r /\ \A g \in Handlers \ {h} : job'[g] = job[g]
    BY <2>1, MoveFacts DEF TypeInv, TypeOK
  <2>3. /\ codes'[job[h].item].used
        /\ \A i \in 1..Len(codes) : codes[i].used => codes'[i].used
    <3>1. codes \in Seq(Codes) /\ \A i \in 1..Len(codes) : codes[i] \in Codes
      BY CodeFields DEF TypeInv, TypeOK
    <3>2. QED
      BY <1>1, <1>4, <3>1 DEF Codes
  <2>4. \A i \in 1..Len(codes) :
          codes[i].login = job[h].login => i = job[h].item
    BY <1>1 DEF LoginInv, TxnOnce
  <2>5. ~Spent(job[h].login)
    BY <1>4, <2>4 DEF Spent
  <2>6. /\ ~Issued(job[h].login)
        /\ \A g \in Handlers : At(g, "issue") => job[g].login # job[h].login
    BY <2>5 DEF LoginInv, CodeOnce, Issued
  <2>7. \A l : l = job[h].login => Spent(l)'
    BY <1>1, <1>3, <2>3 DEF Spent
  <2>8. TxnOnce'
    BY <1>2, <1>3, <2>1, <2>2 DEF LoginInv, TxnOnce, Relabelled, Winning
  <2>9. \A l : (Spent(l) => Spent(l)') /\ (Issued(l) <=> Issued(l)')
    BY <1>2, <1>3, <2>3 DEF Spent, Issued
  <2>10. CodeOnce'
    BY <1>2, <2>1, <2>2, <2>6, <2>7, <2>9
       DEF LoginInv, CodeOnce, At, Relabelled
  <2>11. QED
    BY <1>2, <2>8, <2>10 DEF LoginInv, OneSessionPerLogin
<1>5. CASE Leave(h) /\ UNCHANGED codes
  BY <1>2, <1>5, LoginLeave
<1>6. QED
  BY <1>4, <1>5 DEF ConsumeCode

LEMMA IssueLogin ==
  ASSUME TypeInv, LoginInv, NEW h \in Handlers, Issue(h)
  PROVE  LoginInv'
<1>1. /\ At(h, "issue") /\ job[h].login \in Logins
      /\ "answerpair" \in Labels
      /\ UNCHANGED <<txn, codes, drawn>>
      /\ IssuePair(h, TRUE, "answerpair")
  BY DEF Issue, TypeInv, JobOK, At, Labels, users
<1>2. /\ Len(pairs) \in Nat /\ Len(pairs') = Len(pairs) + 1
      /\ \A j \in 1..Len(pairs) : pairs'[j] = pairs[j]
      /\ pairs'[Len(pairs) + 1].login = job[h].login
  BY <1>1, IssuePairEffect
<1>3. PICK r \in Jobs : Move(h, r) /\ r.at = "answerpair"
  BY <1>1, IssuePairEffect
<1>4. job'[h] = r /\ \A g \in Handlers \ {h} : job'[g] = job[g]
  BY <1>3, MoveFacts DEF TypeInv, TypeOK
<1>5. /\ Spent(job[h].login) /\ ~Issued(job[h].login)
      /\ \A g \in Handlers :
           At(g, "issue") /\ job[g].login = job[h].login => g = h
  BY <1>1 DEF LoginInv, CodeOnce
<1>6. \A j \in 1..Len(pairs') : j \in 1..Len(pairs) \/ j = Len(pairs) + 1
  BY <1>2
<1>7. TxnOnce'
  BY <1>1, <1>3, <1>4 DEF LoginInv, TxnOnce, Winning
<1>8. CodeOnce'
  <2>1. \A l : /\ Spent(l) <=> Spent(l)'
               /\ Issued(l) => Issued(l)'
               /\ Issued(l)' => Issued(l) \/ l = job[h].login
    <3>1. \A j \in 1..Len(pairs) : j \in 1..Len(pairs')
      BY <1>2
    <3>2. QED
      BY <1>1, <1>2, <1>6, <3>1 DEF Spent, Issued
  <2>2. ASSUME NEW g \in Handlers, job'[g].at = "issue"
        PROVE  /\ g # h /\ job'[g] = job[g]
               /\ job[g].login # job[h].login
    BY <1>3, <1>4, <1>5, <2>2 DEF At
  <2>3. \A j \in 1..Len(pairs') : Spent(pairs'[j].login)
    BY <1>2, <1>5, <1>6 DEF LoginInv, CodeOnce
  <2>4. QED
    BY <1>1, <1>3, <1>4, <1>5, <2>1, <2>2, <2>3 DEF LoginInv, CodeOnce, At
<1>9. OneSessionPerLogin'
  BY <1>2, <1>5, <1>6 DEF LoginInv, OneSessionPerLogin, Issued
<1>10. QED
  BY <1>7, <1>8, <1>9 DEF LoginInv

LEMMA ReissueLogin ==
  ASSUME TypeInv, LoginInv, NEW h \in Handlers, Reissue(h)
  PROVE  LoginInv'
<1>1. /\ At(h, "reissue") /\ job[h].login \in Logins
      /\ "rotate" \in Labels
      /\ UNCHANGED <<txn, codes, drawn>>
      /\ IssuePair(h, FALSE, "rotate")
  BY DEF Reissue, TypeInv, JobOK, At, Labels, users
<1>2. /\ Len(pairs) \in Nat /\ Len(pairs') = Len(pairs) + 1
      /\ \A j \in 1..Len(pairs) : pairs'[j] = pairs[j]
      /\ pairs'[Len(pairs) + 1].login = job[h].login
      /\ ~pairs'[Len(pairs) + 1].first
  BY <1>1, IssuePairEffect
<1>3. PICK r \in Jobs : Move(h, r) /\ r.at = "rotate"
  BY <1>1, IssuePairEffect
<1>4. job'[h] = r /\ \A g \in Handlers \ {h} : job'[g] = job[g]
  BY <1>3, MoveFacts DEF TypeInv, TypeOK
<1>5. Issued(job[h].login) /\ Spent(job[h].login)
  BY <1>1 DEF LoginInv, CodeOnce, Issued
<1>6. \A j \in 1..Len(pairs') : j \in 1..Len(pairs) \/ j = Len(pairs) + 1
  BY <1>2
<1>7. TxnOnce'
  BY <1>1, <1>3, <1>4 DEF LoginInv, TxnOnce, Winning
<1>8. CodeOnce'
  <2>1. \A l : (Spent(l) <=> Spent(l)') /\ (Issued(l) <=> Issued(l)')
    <3>1. \A j \in 1..Len(pairs) : j \in 1..Len(pairs')
      BY <1>2
    <3>2. QED
      BY <1>1, <1>2, <1>5, <1>6, <3>1 DEF Spent, Issued
  <2>2. \A g \in Handlers : At(g, "issue") => job[g].login # job[h].login
    BY <1>5 DEF LoginInv, CodeOnce
  <2>3. \A j \in 1..Len(pairs') : Spent(pairs'[j].login)
    BY <1>2, <1>5, <1>6 DEF LoginInv, CodeOnce
  <2>4. QED
    BY <1>1, <1>3, <1>4, <2>1, <2>2, <2>3 DEF LoginInv, CodeOnce, At
<1>9. OneSessionPerLogin'
  BY <1>2, <1>6 DEF LoginInv, OneSessionPerLogin
<1>10. QED
  BY <1>7, <1>8, <1>9 DEF LoginInv

LEMMA CrashLogin ==
  ASSUME TypeInv, LoginInv, Crash
  PROVE  LoginInv'
<1>1. /\ UNCHANGED <<txn, codes, pairs>>
      /\ \A h \in Handlers : job'[h].at = "idle"
  BY DEF Crash, sessions, Idle
<1>2. TxnOnce'
  BY <1>1 DEF LoginInv, TxnOnce, Winning
<1>3. CodeOnce'
  BY <1>1 DEF LoginInv, CodeOnce, At, Spent, Issued
<1>4. QED
  BY <1>1, <1>2, <1>3 DEF LoginInv, OneSessionPerLogin

LEMMA LoginStep == TypeInv /\ LoginInv /\ [Next]_vars => LoginInv'
<1> SUFFICES ASSUME TypeInv, LoginInv, [Next]_vars
             PROVE  LoginInv'
  OBVIOUS
<1> USE DEF sessions
<1>1. {"consumetxn", "lookup", "putprincipal", "putmembership", "putlink",
       "putcode", "answerpair"} \subseteq Labels
  BY DEF Labels
<1>2. ASSUME NEW l \in Logins, StartLogin(l)
      PROVE  LoginInv'
  <2>1. /\ UNCHANGED <<codes, pairs, job>> /\ txn[l] = "none"
        /\ \A k \in Logins : txn[k] = "used" => txn'[k] = "used"
    BY <1>2 DEF StartLogin, TypeInv, TypeOK
  <2>2. TxnOnce'
    BY <2>1, CodeFields DEF LoginInv, TxnOnce, TypeInv, JobOK
  <2>3. CodeOnce'
    BY <2>1 DEF LoginInv, CodeOnce, Spent, Issued, At
  <2>4. QED
    BY <2>1, <2>2, <2>3 DEF LoginInv, OneSessionPerLogin
<1>3. ASSUME NEW h \in Handlers, NEW l \in Logins, Callback(h, l)
      PROVE  LoginInv'
  <2>1. PICK r \in Jobs : Move(h, r) /\ r.at = "consumetxn"
    BY <1>3, CallbackMove DEF Callback
  <2>2. QED
    BY <1>3, <2>1, LoginStays DEF Callback, Winning
<1>4. ASSUME NEW h \in Handlers, Fetch(h)
      PROVE  LoginInv'
  <2>1. ASSUME NEW u \in Users,
               Move(h, [job[h] EXCEPT !.at = "lookup", !.user = u])
        PROVE  LoginInv'
    <3>1. PICK r \in Jobs : /\ Move(h, r) /\ r.at = "lookup"
                            /\ r.login = job[h].login
      BY <2>1, FetchMove
    <3>2. QED
      BY <1>4, <3>1, LoginStays DEF Fetch, At, Winning
  <2>2. QED
    BY <1>4, <2>1, LoginLeave DEF Fetch
<1>5. ASSUME NEW h \in Handlers, Lookup(h)
      PROVE  LoginInv'
  <2>1. link[job[h].user] \in Nat /\ drawn \in Nat /\ job[h].at = "lookup"
    BY <1>5 DEF Lookup, At, TypeInv, TypeOK, JobOK, Winning
  <2>2. PICK r \in Jobs : /\ Move(h, r)
                          /\ r.at \in {"putcode", "putprincipal"}
                          /\ r.login = job[h].login
    BY <1>5, <2>1, FoundMove, DrawnMove DEF Lookup
  <2>3. QED
    BY <1>5, <2>1, <2>2, LoginStays DEF Lookup, Winning
<1>6. ASSUME NEW h \in Handlers,
             PutPrincipal(h) \/ PutMembership(h) \/ PutLink(h)
      PROVE  LoginInv'
  BY <1>1, <1>6, LoginGoto
     DEF PutPrincipal, PutMembership, PutLink, At, Winning
<1>7. ASSUME NEW h \in Handlers, AnswerCode(h) \/ AnswerPair(h)
      PROVE  LoginInv'
  BY <1>7, LoginLeave DEF AnswerCode, AnswerPair
<1>8. ASSUME NEW h \in Handlers, NEW i \in codesOut, Redeem(h, i)
      PROVE  LoginInv'
  <2>1. i \in 1..Len(codes)
    BY DEF TypeInv, TypeOK
  <2>2. PICK r \in Jobs : Move(h, r) /\ r.at = "consumecode"
    BY <1>8, <2>1, RedeemMove, CodeFields DEF Redeem
  <2>3. QED
    BY <1>8, <2>2, LoginStays DEF Redeem, Winning
<1>9. ASSUME NEW h \in Handlers, NEW j \in pairsOut, Refresh(h, j)
      PROVE  LoginInv'
  <2>1. j \in Nat
    BY DEF TypeInv, TypeOK
  <2>2. PICK r \in Jobs : Move(h, r) /\ r.at = "scan"
    BY <1>9, <2>1, RefreshMove DEF Refresh
  <2>3. QED
    BY <1>9, <2>2, LoginStays DEF Refresh, Winning
<1>10. ASSUME NEW h \in Handlers, Scan(h)
       PROVE  LoginInv'
  <2>1. job[h].item \in 1..Len(pairs)
    BY <1>10 DEF Scan, At, TypeInv, JobOK
  <2>2. CASE Leave(h)
    BY <1>10, <2>2, LoginLeave DEF Scan
  <2>3. CASE ~Leave(h)
    <3>1. PICK r \in Jobs : /\ Move(h, r) /\ r.at = "reissue"
                            /\ r.login = pairs[job[h].item].login
      BY <1>10, <2>1, <2>3, ScanMove, PairFields DEF Scan
    <3>2. Issued(r.login)
      BY <2>1, <3>1 DEF Issued
    <3>3. QED
      BY <1>10, <3>1, <3>2, LoginStays DEF Scan, Winning
  <2>4. QED
    BY <2>2, <2>3
<1>11. ASSUME NEW h \in Handlers, Rotate(h)
       PROVE  LoginInv'
  BY <1>1, <1>11, LoginGoto DEF Rotate, Winning
<1>12. CASE UNCHANGED vars
  BY <1>12 DEF vars, LoginInv, TxnOnce, CodeOnce, OneSessionPerLogin, Spent,
               Issued, At
<1>13. QED
  BY <1>2, <1>3, <1>4, <1>5, <1>6, <1>7, <1>8, <1>9, <1>10, <1>11, <1>12,
     ConsumeTxnLogin, PutCodeLogin, ConsumeCodeLogin, IssueLogin,
     ReissueLogin, CrashLogin
     DEF Next

-----------------------------------------------------------------------------
(* Whoever is named is complete. *)

\* The principal has its row and its membership.
Whole(p) == p \in principals /\ p \in members

\* How far the principal a handler names has come, by label.
NamedOK(j) ==
  /\ j.at = "putmembership" => j.prn \in principals
  /\ j.at \in {"putlink", "putcode", "consumecode", "issue", "reissue"}
       => Whole(j.prn)

\* A move that names only what is complete keeps the invariant.
LEMMA NamesStay ==
  ASSUME TypeInv, NamesInv, NEW h \in Handlers, NEW r \in Jobs, Move(h, r),
         principals \subseteq principals', members \subseteq members',
         NamedPrincipalsComplete', NamedOK(r)'
  PROVE  NamesInv'
<1>1. job'[h] = r /\ \A g \in Handlers \ {h} : job'[g] = job[g]
  BY MoveFacts DEF TypeInv, TypeOK
<1>2. QED
  BY <1>1 DEF NamesInv, NamedOK, Whole, At

\* A handler that answers names nobody.
LEMMA NamesLeave ==
  ASSUME TypeInv, NamesInv, NEW h \in Handlers, Leave(h),
         UNCHANGED <<principals, members>>, NamedPrincipalsComplete'
  PROVE  NamesInv'
<1>1. Idle \in Jobs /\ Idle.at = "idle"
  BY DEF Idle, Jobs, Labels
<1>2. QED
  BY <1>1, NamesStay DEF Leave, NamedOK

LEMMA NamesSame ==
  ASSUME TypeInv, NamesInv, UNCHANGED <<users, pairs>>,
         Len(codes') = Len(codes),
         \A i \in 1..Len(codes) : codes'[i].prn = codes[i].prn
  PROVE  NamedPrincipalsComplete'
  BY DEF NamesInv, NamedPrincipalsComplete, users

LEMMA NamesStep == TypeInv /\ NamesInv /\ [Next]_vars => NamesInv'
<1> SUFFICES ASSUME TypeInv, NamesInv, [Next]_vars
             PROVE  NamesInv'
  OBVIOUS
<1> USE DEF sessions
<1>1. {"fetch", "putmembership", "putlink", "putcode", "issue", "rotate",
       "answerpair"} \subseteq Labels
  BY DEF Labels
<1>2. ASSUME NEW l \in Logins, StartLogin(l)
      PROVE  NamesInv'
  BY <1>2 DEF StartLogin, users, NamesInv, NamedPrincipalsComplete, At
<1>3. ASSUME NEW h \in Handlers, NEW l \in Logins, Callback(h, l)
      PROVE  NamesInv'
  <2>1. PICK r \in Jobs : Move(h, r) /\ r.at = "consumetxn"
    BY <1>3, CallbackMove DEF Callback
  <2>2. UNCHANGED <<users, pairs, codes>>
    BY <1>3 DEF Callback
  <2>3. QED
    BY <2>1, <2>2, NamesSame, NamesStay DEF NamedOK, users
<1>4. ASSUME NEW h \in Handlers, ConsumeTxn(h)
      PROVE  NamesInv'
  <2>1. UNCHANGED <<users, pairs, codes>>
    BY <1>4 DEF ConsumeTxn
  <2>2. ASSUME Goto(h, "fetch")
        PROVE  NamesInv'
    <3>1. PICK r \in Jobs : Move(h, r) /\ r.at = "fetch"
      BY <1>1, <2>2, GotoFields DEF Relabelled
    <3>2. QED
      BY <2>1, <3>1, NamesSame, NamesStay DEF NamedOK, users
  <2>3. QED
    BY <1>4, <2>1, <2>2, NamesSame, NamesLeave DEF ConsumeTxn, users
<1>5. ASSUME NEW h \in Handlers, Fetch(h)
      PROVE  NamesInv'
  <2>1. UNCHANGED <<users, pairs, codes>>
    BY <1>5 DEF Fetch
  <2>2. ASSUME NEW u \in Users,
               Move(h, [job[h] EXCEPT !.at = "lookup", !.user = u])
        PROVE  NamesInv'
    <3>1. PICK r \in Jobs : Move(h, r) /\ r.at = "lookup"
      BY <2>2, FetchMove
    <3>2. QED
      BY <2>1, <3>1, NamesSame, NamesStay DEF NamedOK, users
  <2>3. QED
    BY <1>5, <2>1, <2>2, NamesSame, NamesLeave DEF Fetch, users
<1>6. ASSUME NEW h \in Handlers, Lookup(h)
      PROVE  NamesInv'
  <2>1. /\ link[job[h].user] \in Nat /\ drawn \in Nat
        /\ job[h].user \in Users
    BY <1>6 DEF Lookup, At, TypeInv, TypeOK, JobOK, Winning
  <2>2. PICK r \in Jobs :
          /\ Move(h, r)
          /\ \/ r.at = "putprincipal"
             \/ /\ r.at = "putcode" /\ link[job[h].user] # 0
                /\ r.prn = link[job[h].user]
    BY <1>6, <2>1, FoundMove, DrawnMove DEF Lookup
  <2>3. UNCHANGED <<principals, members, link, pairs, codes>>
    BY <1>6 DEF Lookup
  <2>4. NamedPrincipalsComplete'
    BY <2>3 DEF NamesInv, NamedPrincipalsComplete
  <2>5. NamedOK(r)'
    BY <2>1, <2>2, <2>3
       DEF NamesInv, NamedPrincipalsComplete, NamedOK, Whole
  <2>6. QED
    BY <2>2, <2>3, <2>4, <2>5, NamesStay
<1>7. ASSUME NEW h \in Handlers, PutPrincipal(h)
      PROVE  NamesInv'
  <2>1. PICK r \in Jobs : Move(h, r) /\ r.at = "putmembership"
                          /\ r.prn = job[h].prn
    BY <1>1, <1>7, GotoFields DEF PutPrincipal, Relabelled
  <2>2. /\ principals' = principals \cup {job[h].prn}
        /\ UNCHANGED <<members, link, pairs, codes>>
    BY <1>7 DEF PutPrincipal
  <2>3. NamedPrincipalsComplete'
    BY <2>2 DEF NamesInv, NamedPrincipalsComplete
  <2>4. QED
    BY <2>1, <2>2, <2>3, NamesStay DEF NamedOK
<1>8. ASSUME NEW h \in Handlers, PutMembership(h)
      PROVE  NamesInv'
  <2>1. PICK r \in Jobs : Move(h, r) /\ r.at = "putlink"
                          /\ r.prn = job[h].prn
    BY <1>1, <1>8, GotoFields DEF PutMembership, Relabelled
  <2>2. /\ members' = members \cup {job[h].prn}
        /\ UNCHANGED <<principals, link, pairs, codes>>
        /\ job[h].prn \in principals
    BY <1>8 DEF PutMembership, NamesInv
  <2>3. NamedPrincipalsComplete'
    BY <2>2 DEF NamesInv, NamedPrincipalsComplete
  <2>4. QED
    BY <2>1, <2>2, <2>3, NamesStay DEF NamedOK, Whole
<1>9. ASSUME NEW h \in Handlers, PutLink(h)
      PROVE  NamesInv'
  <2>1. PICK r \in Jobs : Move(h, r) /\ r.at = "putcode"
                          /\ r.prn = job[h].prn
    BY <1>1, <1>9, GotoFields DEF PutLink, Relabelled
  <2>2. /\ UNCHANGED <<principals, members, pairs, codes>>
        /\ job[h].prn \in principals /\ job[h].prn \in members
        /\ \A u \in Users : link'[u] \in {link[u], job[h].prn}
    BY <1>9 DEF PutLink, NamesInv, At, TypeInv, TypeOK
  <2>3. NamedPrincipalsComplete'
    BY <2>2 DEF NamesInv, NamedPrincipalsComplete
  <2>4. QED
    BY <2>1, <2>2, <2>3, NamesStay DEF NamedOK, Whole
<1>10. ASSUME NEW h \in Handlers, PutCode(h)
       PROVE  NamesInv'
  <2>1. /\ Len(codes) \in Nat /\ Len(codes') = Len(codes) + 1
        /\ \A i \in 1..Len(codes) : codes'[i] = codes[i]
        /\ codes'[Len(codes) + 1].prn = job[h].prn
    BY <1>10, PutCodeEffect
  <2>2. PICK r \in Jobs : Move(h, r) /\ r.at = "answercode"
    BY <1>10, <2>1, CodeMove DEF PutCode
  <2>3. /\ UNCHANGED <<principals, members, link, pairs>>
        /\ job[h].prn \in principals /\ job[h].prn \in members
    BY <1>10 DEF PutCode, users, NamesInv, At
  <2>4. \A i \in 1..Len(codes') : i \in 1..Len(codes) \/ i = Len(codes) + 1
    BY <2>1
  <2>5. NamedPrincipalsComplete'
    BY <2>1, <2>3, <2>4 DEF NamesInv, NamedPrincipalsComplete
  <2>6. QED
    BY <2>2, <2>3, <2>5, NamesStay DEF NamedOK
<1>11. ASSUME NEW h \in Handlers, AnswerCode(h) \/ AnswerPair(h)
       PROVE  NamesInv'
  <2>1. UNCHANGED <<users, pairs, codes>> /\ Leave(h)
    BY <1>11 DEF AnswerCode, AnswerPair
  <2>2. QED
    BY <2>1, NamesSame, NamesLeave DEF users
<1>12. ASSUME NEW h \in Handlers, NEW i \in codesOut, Redeem(h, i)
       PROVE  NamesInv'
  <2>1. i \in 1..Len(codes)
    BY DEF TypeInv, TypeOK
  <2>2. PICK r \in Jobs : /\ Move(h, r) /\ r.at = "consumecode"
                          /\ r.prn = codes[i].prn
    BY <1>12, <2>1, RedeemMove, CodeFields DEF Redeem
  <2>3. UNCHANGED <<users, pairs, codes>>
    BY <1>12 DEF Redeem
  <2>4. NamedOK(r)'
    BY <2>1, <2>2, <2>3
       DEF NamesInv, NamedPrincipalsComplete, NamedOK, Whole, users
  <2>5. QED
    BY <2>2, <2>3, <2>4, NamesSame, NamesStay DEF users
<1>13. ASSUME NEW h \in Handlers, ConsumeCode(h)
       PROVE  NamesInv'
  <2>1. UNCHANGED <<users, pairs>>
    BY <1>13 DEF ConsumeCode
  <2>2. NamedPrincipalsComplete'
    BY <1>13, <2>1, ConsumeCodeEffect, NamesSame
  <2>3. ASSUME Goto(h, "issue")
        PROVE  NamesInv'
    <3>1. PICK r \in Jobs : Move(h, r) /\ r.at = "issue"
                            /\ r.prn = job[h].prn
      BY <1>1, <2>3, GotoFields DEF Relabelled
    <3>2. NamedOK(r)'
      BY <1>13, <2>1, <3>1 DEF ConsumeCode, NamesInv, NamedOK, Whole, users, At
    <3>3. QED
      BY <2>1, <2>2, <3>1, <3>2, NamesStay DEF users
  <2>4. QED
    BY <1>13, <2>1, <2>2, <2>3, NamesLeave DEF ConsumeCode, users
<1>14. ASSUME NEW h \in Handlers, Issue(h) \/ Reissue(h)
       PROVE  NamesInv'
  <2>1. PICK first \in BOOLEAN, label \in {"answerpair", "rotate"} :
          IssuePair(h, first, label)
    BY <1>14 DEF Issue, Reissue
  <2>2. /\ UNCHANGED <<principals, members, link, codes, drawn>>
        /\ job[h].login \in Logins /\ label \in Labels
        /\ job[h].prn \in principals /\ job[h].prn \in members
    BY <1>1, <1>14 DEF Issue, Reissue, users, TypeInv, JobOK, NamesInv, At
  <2>3. /\ Len(pairs) \in Nat /\ Len(pairs') = Len(pairs) + 1
        /\ \A j \in 1..Len(pairs) : pairs'[j] = pairs[j]
        /\ pairs'[Len(pairs) + 1].prn = job[h].prn
    BY <2>1, <2>2, IssuePairEffect
  <2>4. PICK r \in Jobs : Move(h, r) /\ r.at = label
    BY <2>1, <2>2, IssuePairEffect
  <2>5. \A j \in 1..Len(pairs') : j \in 1..Len(pairs) \/ j = Len(pairs) + 1
    BY <2>3
  <2>6. NamedPrincipalsComplete'
    BY <2>2, <2>3, <2>5 DEF NamesInv, NamedPrincipalsComplete
  <2>7. QED
    BY <2>2, <2>4, <2>6, NamesStay DEF NamedOK
<1>15. ASSUME NEW h \in Handlers, NEW j \in pairsOut, Refresh(h, j)
       PROVE  NamesInv'
  <2>1. j \in Nat
    BY DEF TypeInv, TypeOK
  <2>2. PICK r \in Jobs : Move(h, r) /\ r.at = "scan"
    BY <1>15, <2>1, RefreshMove DEF Refresh
  <2>3. UNCHANGED <<users, pairs, codes>>
    BY <1>15 DEF Refresh
  <2>4. QED
    BY <2>2, <2>3, NamesSame, NamesStay DEF NamedOK, users
<1>16. ASSUME NEW h \in Handlers, Scan(h)
       PROVE  NamesInv'
  <2>1. job[h].item \in 1..Len(pairs)
    BY <1>16 DEF Scan, At, TypeInv, JobOK
  <2>2. UNCHANGED <<users, pairs, codes>>
    BY <1>16 DEF Scan
  <2>3. CASE Leave(h)
    BY <2>2, <2>3, NamesSame, NamesLeave DEF users
  <2>4. CASE ~Leave(h)
    <3>1. PICK r \in Jobs : /\ Move(h, r) /\ r.at = "reissue"
                            /\ r.prn = pairs[job[h].item].prn
      BY <1>16, <2>1, <2>4, ScanMove, PairFields DEF Scan
    <3>2. NamedOK(r)'
      BY <2>1, <2>2, <3>1
         DEF NamesInv, NamedPrincipalsComplete, NamedOK, Whole, users
    <3>3. QED
      BY <2>2, <3>1, <3>2, NamesSame, NamesStay DEF users
  <2>5. QED
    BY <2>3, <2>4
<1>17. ASSUME NEW h \in Handlers, Rotate(h)
       PROVE  NamesInv'
  <2>1. PICK r \in Jobs : Move(h, r) /\ r.at = "answerpair"
    BY <1>1, <1>17, GotoFields DEF Rotate, Relabelled
  <2>2. UNCHANGED <<users, pairs, codes>>
    BY <1>17 DEF Rotate
  <2>3. QED
    BY <2>1, <2>2, NamesSame, NamesStay DEF NamedOK, users
<1>18. CASE Crash
  <2>1. /\ UNCHANGED <<users, pairs, codes>>
        /\ \A h \in Handlers : job'[h].at = "idle"
    BY <1>18 DEF Crash, Idle
  <2>2. QED
    BY <2>1 DEF NamesInv, NamedPrincipalsComplete, users, At
<1>19. CASE UNCHANGED vars
  BY <1>19 DEF vars, users, NamesInv, NamedPrincipalsComplete, At
<1>20. QED
  BY <1>2, <1>3, <1>4, <1>5, <1>6, <1>7, <1>8, <1>9, <1>10, <1>11, <1>12,
     <1>13, <1>14, <1>15, <1>16, <1>17, <1>18, <1>19
     DEF Next


-----------------------------------------------------------------------------
(* A rotated refresh token stays dead. *)

\* A move of a handler that neither rotates nor answers keeps the invariant.
LEMMA RotationStays ==
  ASSUME TypeInv, RotationInv, NEW h \in Handlers, NEW r \in Jobs, Move(h, r),
         UNCHANGED <<rows, pairsOut>>,
         r.at \in {"scan", "reissue"} => r.item \in pairsOut,
         r.at \notin {"rotate", "answerpair"}
  PROVE  RotationInv'
<1>1. job'[h] = r /\ \A g \in Handlers \ {h} : job'[g] = job[g]
  BY MoveFacts DEF TypeInv, TypeOK
<1>2. QED
  BY <1>1 DEF RotationInv, At

LEMMA RotationLeave ==
  ASSUME TypeInv, RotationInv, NEW h \in Handlers, Leave(h),
         UNCHANGED <<rows, pairsOut>>
  PROVE  RotationInv'
<1>1. Idle \in Jobs /\ Idle.at = "idle"
  BY DEF Idle, Jobs, Labels
<1>2. QED
  BY <1>1, RotationStays DEF Leave

LEMMA RotationGoto ==
  ASSUME TypeInv, RotationInv, NEW h \in Handlers, NEW label \in Labels,
         Goto(h, label), UNCHANGED <<rows, pairsOut>>,
         label \notin {"scan", "reissue", "rotate", "answerpair"}
  PROVE  RotationInv'
<1>1. PICK r \in Jobs : Move(h, r) /\ Relabelled(r, job[h], label)
  BY GotoFields
<1>2. QED
  BY <1>1, RotationStays DEF Relabelled

\* A new pair has a number nobody holds yet.
LEMMA IssuePairRotation ==
  ASSUME TypeInv, RotationInv, NEW h \in Handlers, Issue(h) \/ Reissue(h)
  PROVE  RotationInv'
<1>1. PICK first \in BOOLEAN, label \in {"answerpair", "rotate"} :
        /\ IssuePair(h, first, label)
        /\ label = "rotate" => At(h, "reissue")
  BY DEF Issue, Reissue
<1>2. /\ UNCHANGED <<codes, drawn, pairsOut>> /\ job[h].login \in Logins
      /\ label \in Labels
  BY <1>1 DEF Issue, Reissue, users, clients, TypeInv, JobOK, At, Labels
<1>3. /\ Len(pairs) \in Nat
      /\ \E r \in Jobs : /\ Move(h, r)
                         /\ r.at = label /\ r.item = job[h].item
                         /\ r.new = Len(pairs) + 1
  BY <1>1, <1>2, IssuePairEffect
<1>4. PICK r \in Jobs : /\ Move(h, r)
                        /\ r.at = label /\ r.item = job[h].item
                        /\ r.new = Len(pairs) + 1
  BY <1>3
<1>5. job'[h] = r /\ \A g \in Handlers \ {h} : job'[g] = job[g]
  BY <1>4, MoveFacts DEF TypeInv, TypeOK
<1>6. rows' = rows \cup {Len(pairs) + 1} /\ Len(pairs) + 1 \notin pairsOut
  BY <1>1, <1>3 DEF IssuePair, TypeInv, TypeOK
<1>7. label = "rotate" => job[h].item \in pairsOut
  BY <1>1 DEF RotationInv, At
<1>8. \A g \in Handlers : job[g].at \in {"rotate", "answerpair"}
                            => job[g].new # Len(pairs) + 1
  BY <1>3 DEF TypeInv, JobOK
<1>9. QED
  BY <1>1, <1>2, <1>4, <1>5, <1>6, <1>7, <1>8 DEF RotationInv, At

\* The row that is deleted is of a pair a client has, so it is not the new
\* row of any rotation.
LEMMA RotateRotation ==
  ASSUME TypeInv, RotationInv, NEW h \in Handlers, Rotate(h)
  PROVE  RotationInv'
<1>1. PICK r \in Jobs : Move(h, r) /\ Relabelled(r, job[h], "answerpair")
  BY GotoFields DEF Rotate, Labels
<1>2. job'[h] = r /\ \A g \in Handlers \ {h} : job'[g] = job[g]
  BY <1>1, MoveFacts DEF TypeInv, TypeOK
<1>3. /\ job[h].at = "rotate" /\ pairsOut' = pairsOut
      /\ rows' = (rows \ {job[h].item}) \cup {job[h].new}
      /\ job[h].item \in pairsOut
  BY DEF Rotate, At, clients, RotationInv
<1>4. QED
  BY <1>1, <1>2, <1>3 DEF RotationInv, At, Relabelled

\* The pair that goes out is no other rotation's new pair.
LEMMA AnswerPairRotation ==
  ASSUME TypeInv, RotationInv, NEW h \in Handlers, AnswerPair(h)
  PROVE  RotationInv'
<1>1. /\ job[h].at = "answerpair" /\ rows' = rows
      /\ pairsOut \subseteq pairsOut'
      /\ \A j \in pairsOut' : j \in pairsOut \/ j = job[h].new
  BY DEF AnswerPair, At, sessions
<1>2. job'[h].at = "idle" /\ \A g \in Handlers \ {h} : job'[g] = job[g]
  BY MoveFacts DEF AnswerPair, Leave, Idle, TypeInv, TypeOK
<1>3. QED
  BY <1>1, <1>2 DEF RotationInv, At

LEMMA RotationStep == TypeInv /\ RotationInv /\ [Next]_vars => RotationInv'
<1> SUFFICES ASSUME TypeInv, RotationInv, [Next]_vars
             PROVE  RotationInv'
  OBVIOUS
<1> USE DEF sessions, clients
<1>1. {"fetch", "putmembership", "putlink", "putcode", "issue"}
        \subseteq Labels
  BY DEF Labels
<1>2. ASSUME NEW l \in Logins, StartLogin(l)
      PROVE  RotationInv'
  BY <1>2 DEF StartLogin, RotationInv, At
<1>3. ASSUME NEW h \in Handlers, NEW l \in Logins, Callback(h, l)
      PROVE  RotationInv'
  <2>1. PICK r \in Jobs : Move(h, r) /\ r.at = "consumetxn"
    BY <1>3, CallbackMove DEF Callback
  <2>2. QED
    BY <1>3, <2>1, RotationStays DEF Callback
<1>4. ASSUME NEW h \in Handlers, ConsumeTxn(h)
      PROVE  RotationInv'
  BY <1>1, <1>4, RotationGoto, RotationLeave DEF ConsumeTxn
<1>5. ASSUME NEW h \in Handlers, Fetch(h)
      PROVE  RotationInv'
  <2>1. ASSUME NEW u \in Users,
               Move(h, [job[h] EXCEPT !.at = "lookup", !.user = u])
        PROVE  RotationInv'
    <3>1. PICK r \in Jobs : Move(h, r) /\ r.at = "lookup"
      BY <2>1, FetchMove
    <3>2. QED
      BY <1>5, <3>1, RotationStays DEF Fetch
  <2>2. QED
    BY <1>5, <2>1, RotationLeave DEF Fetch
<1>6. ASSUME NEW h \in Handlers, Lookup(h)
      PROVE  RotationInv'
  <2>1. link[job[h].user] \in Nat /\ drawn \in Nat
    BY <1>6 DEF Lookup, At, TypeInv, TypeOK, JobOK, Winning
  <2>2. PICK r \in Jobs : Move(h, r) /\ r.at \in {"putcode", "putprincipal"}
    BY <1>6, <2>1, FoundMove, DrawnMove DEF Lookup
  <2>3. QED
    BY <1>6, <2>2, RotationStays DEF Lookup
<1>7. ASSUME NEW h \in Handlers,
             PutPrincipal(h) \/ PutMembership(h) \/ PutLink(h)
      PROVE  RotationInv'
  BY <1>1, <1>7, RotationGoto DEF PutPrincipal, PutMembership, PutLink
<1>8. ASSUME NEW h \in Handlers, PutCode(h)
      PROVE  RotationInv'
  <2>1. Len(codes) \in Nat
    BY DEF TypeInv, TypeOK
  <2>2. PICK r \in Jobs : Move(h, r) /\ r.at = "answercode"
    BY <1>8, <2>1, CodeMove DEF PutCode
  <2>3. QED
    BY <1>8, <2>2, RotationStays DEF PutCode
<1>9. ASSUME NEW h \in Handlers, AnswerCode(h)
      PROVE  RotationInv'
  BY <1>9, RotationLeave DEF AnswerCode
<1>10. ASSUME NEW h \in Handlers, NEW i \in codesOut, Redeem(h, i)
       PROVE  RotationInv'
  <2>1. i \in 1..Len(codes)
    BY DEF TypeInv, TypeOK
  <2>2. PICK r \in Jobs : Move(h, r) /\ r.at = "consumecode"
    BY <1>10, <2>1, RedeemMove, CodeFields DEF Redeem
  <2>3. QED
    BY <1>10, <2>2, RotationStays DEF Redeem
<1>11. ASSUME NEW h \in Handlers, ConsumeCode(h)
       PROVE  RotationInv'
  BY <1>1, <1>11, RotationGoto, RotationLeave DEF ConsumeCode
<1>12. ASSUME NEW h \in Handlers, NEW j \in pairsOut, Refresh(h, j)
       PROVE  RotationInv'
  <2>1. j \in Nat
    BY DEF TypeInv, TypeOK
  <2>2. PICK r \in Jobs : Move(h, r) /\ r.at = "scan" /\ r.item = j
    BY <1>12, <2>1, RefreshMove DEF Refresh
  <2>3. QED
    BY <1>12, <2>2, RotationStays DEF Refresh
<1>13. ASSUME NEW h \in Handlers, Scan(h)
       PROVE  RotationInv'
  <2>1. /\ job[h].item \in 1..Len(pairs) /\ job[h].item \in pairsOut
        /\ UNCHANGED <<rows, pairsOut>>
    BY <1>13 DEF Scan, At, TypeInv, JobOK, RotationInv
  <2>2. CASE Leave(h)
    BY <2>1, <2>2, RotationLeave
  <2>3. CASE ~Leave(h)
    <3>1. PICK r \in Jobs : /\ Move(h, r) /\ r.at = "reissue"
                            /\ r.item = job[h].item
      BY <1>13, <2>1, <2>3, ScanMove, PairFields DEF Scan
    <3>2. QED
      BY <2>1, <3>1, RotationStays
  <2>4. QED
    BY <2>2, <2>3
<1>14. CASE Crash
  <2>1. \A h \in Handlers : job'[h].at = "idle"
    BY <1>14 DEF Crash, Idle
  <2>2. QED
    BY <2>1 DEF RotationInv, At
<1>15. CASE UNCHANGED vars
  BY <1>15 DEF vars, RotationInv, At
<1>16. QED
  BY <1>2, <1>3, <1>4, <1>5, <1>6, <1>7, <1>8, <1>9, <1>10, <1>11, <1>12,
     <1>13, <1>14, <1>15, IssuePairRotation, RotateRotation,
     AnswerPairRotation
     DEF Next

\* A step in which no deleted row comes back.
NoneRevives == \A j \in 1..Len(pairs) : j \notin rows => j \notin rows'

LEMMA RevivalStep == TypeInv /\ RotationInv /\ [Next]_vars => NoneRevives
<1> SUFFICES ASSUME TypeInv, RotationInv, [Next]_vars
             PROVE  NoneRevives
  OBVIOUS
<1>1. Len(pairs) \in Nat
  BY DEF TypeInv, TypeOK
<1>2. ASSUME NEW h \in Handlers, Issue(h) \/ Reissue(h)
      PROVE  NoneRevives
  BY <1>1, <1>2 DEF Issue, Reissue, IssuePair, NoneRevives
<1>3. ASSUME NEW h \in Handlers, Rotate(h)
      PROVE  NoneRevives
  BY <1>3 DEF Rotate, RotationInv, NoneRevives
<1>4. CASE UNCHANGED rows
  BY <1>4 DEF NoneRevives
<1>5. QED
  BY <1>2, <1>3, <1>4
     DEF Next, vars, StartLogin, Callback, ConsumeTxn, Fetch, Lookup,
         PutPrincipal, PutMembership, PutLink, PutCode, AnswerCode, Redeem,
         ConsumeCode, Refresh, Scan, AnswerPair, Crash, sessions

-----------------------------------------------------------------------------
(* An island user is one principal. *)

\* A step of handler h that neither creates a principal nor names one anew.
OffPerson(h) ==
  /\ \A g \in Handlers \ {h} : job'[g] = job[g]
  /\ job'[h].at \notin {"putprincipal", "putmembership", "putlink", "putcode"}
  /\ link' = link /\ faults \subseteq faults'
  /\ Len(codes') = Len(codes)
  /\ \A i \in 1..Len(codes) : /\ codes'[i].user = codes[i].user
                              /\ codes'[i].prn = codes[i].prn

LEMMA OffPersonKeeps ==
  ASSUME PersonInv, NEW h \in Handlers, OffPerson(h)
  PROVE  PersonInv'
  BY DEF OffPerson, PersonInv, Creating, At

\* Whatever step moves a handler to such a label is one.
LEMMA MovesOffPerson ==
  ASSUME TypeInv, NEW h \in Handlers, NEW r \in Jobs, Move(h, r),
         r.at \notin {"putprincipal", "putmembership", "putlink", "putcode"},
         UNCHANGED <<link, codes>>, faults \subseteq faults'
  PROVE  OffPerson(h)
  BY MoveFacts DEF TypeInv, TypeOK, OffPerson

LEMMA LeaveIsMove ==
  ASSUME NEW h \in Handlers, Leave(h)
  PROVE  \E r \in Jobs : Move(h, r) /\ r.at = "idle"
  BY DEF Leave, Idle, Jobs, Labels

\* The steps of a handler that are not about the principal of its user.
OtherStep(h) ==
  \/ \E l \in Logins : Callback(h, l)
  \/ ConsumeTxn(h) \/ Fetch(h) \/ AnswerCode(h)
  \/ \E i \in codesOut : Redeem(h, i)
  \/ ConsumeCode(h) \/ Issue(h)
  \/ \E j \in pairsOut : Refresh(h, j)
  \/ Scan(h) \/ Reissue(h) \/ Rotate(h) \/ AnswerPair(h)

LEMMA OffPersonSteps ==
  ASSUME TypeInv, NEW h \in Handlers, OtherStep(h)
  PROVE  OffPerson(h)
<1>1. {"fetch", "issue", "rotate", "answerpair"} \subseteq Labels
  BY DEF Labels
<1>2. ASSUME NEW label \in {"fetch", "issue", "rotate", "answerpair"}, Goto(h, label)
      PROVE  \E r \in Jobs : Move(h, r) /\ r.at = label
  BY <1>1, <1>2, GotoFields DEF Relabelled
<1>3. ASSUME NEW l \in Logins, Callback(h, l)
      PROVE  OffPerson(h)
  <2>1. PICK r \in Jobs : Move(h, r) /\ r.at = "consumetxn"
    BY <1>3, CallbackMove DEF Callback
  <2>2. QED
    BY <1>3, <2>1, MovesOffPerson DEF Callback, users
<1>4. CASE ConsumeTxn(h)
  BY <1>2, <1>4, LeaveIsMove, MovesOffPerson DEF ConsumeTxn, users
<1>5. CASE Fetch(h)
  <2>1. \E r \in Jobs : Move(h, r) /\ r.at \in {"lookup", "idle"}
    <3>1. ASSUME NEW u \in Users,
                 Move(h, [job[h] EXCEPT !.at = "lookup", !.user = u])
          PROVE  \E r \in Jobs : Move(h, r) /\ r.at = "lookup"
      BY <3>1, FetchMove
    <3>2. QED
      BY <1>5, <3>1, LeaveIsMove DEF Fetch
  <2>2. QED
    BY <1>5, <2>1, MovesOffPerson DEF Fetch, users
<1>6. CASE AnswerCode(h)
  BY <1>6, LeaveIsMove, MovesOffPerson DEF AnswerCode, users
<1>7. ASSUME NEW i \in codesOut, Redeem(h, i)
      PROVE  OffPerson(h)
  <2>1. i \in 1..Len(codes)
    BY DEF TypeInv, TypeOK
  <2>2. PICK r \in Jobs : Move(h, r) /\ r.at = "consumecode"
    BY <1>7, <2>1, RedeemMove, CodeFields DEF Redeem
  <2>3. QED
    BY <1>7, <2>2, MovesOffPerson DEF Redeem, users
<1>8. CASE ConsumeCode(h)
  <2>1. \E r \in Jobs : Move(h, r) /\ r.at \in {"issue", "idle"}
    BY <1>2, <1>8, LeaveIsMove DEF ConsumeCode
  <2>2. UNCHANGED <<link, faults>>
    BY <1>8 DEF ConsumeCode, users
  <2>3. QED
    BY <1>8, <2>1, <2>2, ConsumeCodeEffect, MoveFacts
       DEF OffPerson, TypeInv, TypeOK
<1>9. CASE Issue(h) \/ Reissue(h)
  <2>1. PICK first \in BOOLEAN, label \in {"answerpair", "rotate"} :
          IssuePair(h, first, label)
    BY <1>9 DEF Issue, Reissue
  <2>2. /\ UNCHANGED <<link, codes, drawn, faults>> /\ label \in Labels
        /\ job[h].login \in Logins
    BY <1>1, <1>9 DEF Issue, Reissue, users, TypeInv, JobOK, At
  <2>3. PICK r \in Jobs : Move(h, r) /\ r.at = label
    BY <2>1, <2>2, IssuePairEffect
  <2>4. QED
    BY <2>2, <2>3, MovesOffPerson
<1>10. ASSUME NEW j \in pairsOut, Refresh(h, j)
       PROVE  OffPerson(h)
  <2>1. j \in Nat
    BY DEF TypeInv, TypeOK
  <2>2. PICK r \in Jobs : Move(h, r) /\ r.at = "scan"
    BY <1>10, <2>1, RefreshMove DEF Refresh
  <2>3. QED
    BY <1>10, <2>2, MovesOffPerson DEF Refresh, users
<1>11. CASE Scan(h)
  <2>1. job[h].item \in 1..Len(pairs)
    BY <1>11 DEF Scan, At, TypeInv, JobOK
  <2>2. \E r \in Jobs : Move(h, r) /\ r.at \in {"reissue", "idle"}
    <3>1. CASE Leave(h)
      BY <3>1, LeaveIsMove
    <3>2. CASE ~Leave(h)
      <4>1. PICK r \in Jobs : Move(h, r) /\ r.at = "reissue"
        BY <1>11, <2>1, <3>2, ScanMove, PairFields DEF Scan
      <4>2. QED
        BY <4>1
    <3>3. QED
      BY <3>1, <3>2
  <2>3. UNCHANGED <<link, codes>> /\ faults \subseteq faults'
    BY <1>11 DEF Scan, users
  <2>4. QED
    BY <2>2, <2>3, MovesOffPerson
<1>12. CASE Rotate(h)
  BY <1>2, <1>12, MovesOffPerson DEF Rotate, users
<1>13. CASE AnswerPair(h)
  <2>1. faults \subseteq faults'
    BY <1>13 DEF AnswerPair
  <2>2. QED
    BY <1>13, <2>1, LeaveIsMove, MovesOffPerson DEF AnswerPair, users
<1>14. QED
  BY <1>3, <1>4, <1>5, <1>6, <1>7, <1>8, <1>9, <1>10, <1>11, <1>12, <1>13
     DEF OtherStep

\* A user that is looked up while nobody creates its principal is created by
\* this handler alone.
LEMMA LookupPerson ==
  ASSUME TypeInv, PersonInv, NEW h \in Handlers, Lookup(h)
  PROVE  PersonInv'
<1> DEFINE u == job[h].user
<1>1. /\ At(h, "lookup") /\ u \in Users /\ link[u] \in Nat /\ drawn \in Nat
      /\ UNCHANGED <<link, codes>> /\ faults \subseteq faults'
  BY DEF Lookup, At, TypeInv, TypeOK, JobOK, Winning
<1>2. CASE link[u] # 0
  <2>1. PICK r \in Jobs : /\ Move(h, r) /\ r.at = "putcode"
                          /\ r.user = u /\ r.prn = link[u]
    BY <1>1, <1>2, FoundMove DEF Lookup
  <2>2. job'[h] = r /\ \A g \in Handlers \ {h} : job'[g] = job[g]
    BY <2>1, MoveFacts DEF TypeInv, TypeOK
  <2>3. QED
    BY <1>1, <1>2, <2>1, <2>2 DEF PersonInv, Creating, At
<1>3. CASE link[u] = 0
  <2>1. PICK r \in Jobs : Move(h, r) /\ r.at = "putprincipal" /\ r.user = u
    BY <1>1, <1>3, DrawnMove DEF Lookup
  <2>2. job'[h] = r /\ \A g \in Handlers \ {h} : job'[g] = job[g]
    BY <2>1, MoveFacts DEF TypeInv, TypeOK
  <2>3. "twologins" \notin faults' => \A d \in Handlers \ {h} : ~Creating(d, u)
    BY <1>3 DEF Lookup
  <2>4. ASSUME NEW g \in Handlers, NEW v \in Users, Creating(g, v)',
               "twologins" \notin faults'
        PROVE  link[v] = 0 /\ \A d \in Handlers : Creating(d, v)' => d = g
    <3>1. \A d \in Handlers \ {h} : Creating(d, v)' <=> Creating(d, v)
      BY <2>2 DEF Creating
    <3>2. Creating(h, v)' <=> v = u
      BY <2>1, <2>2 DEF Creating
    <3>3. QED
      BY <1>1, <1>3, <2>3, <2>4, <3>1, <3>2 DEF PersonInv
  <2>5. QED
    BY <1>1, <2>1, <2>2, <2>4 DEF PersonInv, At
<1>4. QED
  BY <1>2, <1>3

LEMMA PutLinkPerson ==
  ASSUME TypeInv, PersonInv, NEW h \in Handlers, PutLink(h)
  PROVE  PersonInv'
<1> DEFINE u == job[h].user
<1>1. PICK r \in Jobs : Move(h, r) /\ Relabelled(r, job[h], "putcode")
  BY GotoFields DEF PutLink, Labels
<1>2. job'[h] = r /\ \A g \in Handlers \ {h} : job'[g] = job[g]
  BY <1>1, MoveFacts DEF TypeInv, TypeOK
<1>3. /\ At(h, "putlink") /\ u \in Users /\ job[h].prn \in Nat
      /\ job[h].prn # 0 /\ UNCHANGED <<codes, faults>>
      /\ link' = [link EXCEPT ![u] = job[h].prn]
      /\ link \in [Users -> Nat]
  BY DEF PutLink, At, TypeInv, TypeOK, JobOK, Winning
<1>4. link'[u] = job[h].prn /\ \A v \in Users \ {u} : link'[v] = link[v]
  BY <1>3
<1>5. Creating(h, u)
  BY <1>3 DEF Creating, At
<1> SUFFICES ASSUME "twologins" \notin faults
             PROVE  PersonInv'
  BY <1>3 DEF PersonInv
<1>6. /\ link[u] = 0
      /\ \A g \in Handlers \ {h} : ~Creating(g, u)
  BY <1>3, <1>5 DEF PersonInv
<1>7. \A g \in Handlers, v \in Users : Creating(g, v)' => Creating(g, v) /\ v # u
  BY <1>1, <1>2, <1>6 DEF Creating, Relabelled
<1>8. \A i \in 1..Len(codes) : codes[i].user \in Users \ {u}
  BY <1>6, CodeFields DEF PersonInv
<1>9. \A g \in Handlers : At(g, "putcode") => job[g].user \in Users \ {u}
  BY <1>6 DEF PersonInv, TypeInv, JobOK, Winning, At
<1>10. \A g \in Handlers : At(g, "putcode")' => g = h \/ At(g, "putcode")
  BY <1>2 DEF At
<1>11. /\ \A g \in Handlers : At(g, "putcode")' =>
             job'[g].prn = link'[job'[g].user] /\ job'[g].prn # 0
       /\ \A i \in 1..Len(codes') :
             codes'[i].prn = link'[codes'[i].user] /\ codes'[i].prn # 0
  BY <1>1, <1>2, <1>3, <1>4, <1>8, <1>9, <1>10 DEF PersonInv, At, Relabelled
<1>12. \A g \in Handlers, v \in Users : Creating(g, v)' =>
          link'[v] = 0 /\ \A d \in Handlers : Creating(d, v)' => d = g
  BY <1>4, <1>7 DEF PersonInv
<1>13. QED
  BY <1>11, <1>12 DEF PersonInv

LEMMA PutCodePerson ==
  ASSUME TypeInv, PersonInv, NEW h \in Handlers, PutCode(h)
  PROVE  PersonInv'
<1>1. /\ Len(codes) \in Nat /\ Len(codes') = Len(codes) + 1
      /\ \A i \in 1..Len(codes) : codes'[i] = codes[i]
      /\ codes'[Len(codes) + 1].user = job[h].user
      /\ codes'[Len(codes) + 1].prn = job[h].prn
  BY PutCodeEffect
<1>2. PICK r \in Jobs : Move(h, r) /\ r.at = "answercode"
  BY <1>1, CodeMove DEF PutCode
<1>3. job'[h] = r /\ \A g \in Handlers \ {h} : job'[g] = job[g]
  BY <1>2, MoveFacts DEF TypeInv, TypeOK
<1>4. At(h, "putcode") /\ UNCHANGED <<link, faults>>
  BY DEF PutCode, users
<1>5. \A i \in 1..Len(codes') : i \in 1..Len(codes) \/ i = Len(codes) + 1
  BY <1>1
<1>6. QED
  BY <1>1, <1>2, <1>3, <1>4, <1>5 DEF PersonInv, Creating, At

LEMMA PersonStep == TypeInv /\ PersonInv /\ [Next]_vars => PersonInv'
<1> SUFFICES ASSUME TypeInv, PersonInv, [Next]_vars
             PROVE  PersonInv'
  OBVIOUS
<1>1. ASSUME NEW l \in Logins, StartLogin(l)
      PROVE  PersonInv'
  BY <1>1 DEF StartLogin, users, PersonInv, Creating, At
<1>2. ASSUME NEW h \in Handlers, NEW label \in {"putmembership", "putlink"},
             job[h].at \in {"putprincipal", "putmembership"}, Goto(h, label),
             UNCHANGED <<link, codes, faults>>
      PROVE  PersonInv'
  <2>1. PICK r \in Jobs : Move(h, r) /\ Relabelled(r, job[h], label)
    BY <1>2, GotoFields DEF Labels
  <2>2. job'[h] = r /\ \A g \in Handlers \ {h} : job'[g] = job[g]
    BY <2>1, MoveFacts DEF TypeInv, TypeOK
  <2>3. \A g \in Handlers, u \in Users : Creating(g, u)' <=> Creating(g, u)
    BY <1>2, <2>1, <2>2 DEF Creating, Relabelled
  <2>4. \A g \in Handlers : At(g, "putcode")' => g # h
    BY <1>2, <2>1, <2>2 DEF At, Relabelled
  <2>5. QED
    BY <1>2, <2>2, <2>3, <2>4 DEF PersonInv, At
<1>3. ASSUME NEW h \in Handlers, PutPrincipal(h) \/ PutMembership(h)
      PROVE  PersonInv'
  BY <1>2, <1>3 DEF PutPrincipal, PutMembership, At
<1>4. CASE Crash
  <2>1. \A h \in Handlers : job'[h].at = "idle"
    BY <1>4 DEF Crash, Idle
  <2>2. UNCHANGED <<link, codes>> /\ faults \subseteq faults'
    BY <1>4 DEF Crash, users
  <2>3. QED
    BY <2>1, <2>2 DEF PersonInv, Creating, At
<1>5. CASE UNCHANGED vars
  BY <1>5 DEF vars, users, PersonInv, Creating, At
<1>6. QED
  BY <1>1, <1>3, <1>4, <1>5, LookupPerson, PutLinkPerson, PutCodePerson,
     OffPersonSteps, OffPersonKeeps
     DEF Next, OtherStep

-----------------------------------------------------------------------------
(* A session has one usable pair, and keeps one. *)

\* A step of handler h that neither issues, rotates nor answers a pair.
OffSession(h) ==
  /\ \A g \in Handlers \ {h} : job'[g] = job[g]
  /\ job'[h].at \notin {"reissue", "rotate", "answerpair"}
  /\ UNCHANGED <<pairs, rows, pairsOut>> /\ faults \subseteq faults'

LEMMA MovesOffSession ==
  ASSUME TypeInv, NEW h \in Handlers, NEW r \in Jobs, Move(h, r),
         r.at \notin {"reissue", "rotate", "answerpair"},
         UNCHANGED <<pairs, rows, pairsOut>>, faults \subseteq faults'
  PROVE  OffSession(h)
  BY MoveFacts DEF TypeInv, TypeOK, OffSession

\* The steps of a handler that are not about pairs.
LoginStepOf(h) ==
  \/ \E l \in Logins : Callback(h, l)
  \/ ConsumeTxn(h) \/ Fetch(h) \/ Lookup(h)
  \/ PutPrincipal(h) \/ PutMembership(h) \/ PutLink(h)
  \/ PutCode(h) \/ AnswerCode(h)
  \/ \E i \in codesOut : Redeem(h, i)
  \/ ConsumeCode(h)
  \/ \E j \in pairsOut : Refresh(h, j)

\* A handler that has found the row of the refresh token it was given.
Found(h) == Scan(h) /\ ~Leave(h)

LEMMA OffSessionSteps ==
  ASSUME TypeInv, NEW h \in Handlers, LoginStepOf(h) \/ (Scan(h) /\ Leave(h))
  PROVE  OffSession(h)
<1> USE DEF sessions, clients
<1> DEFINE Labelled(label) == \E r \in Jobs : Move(h, r) /\ r.at = label
<1>1. {"fetch", "putmembership", "putlink", "putcode", "issue"}
        \subseteq Labels
  BY DEF Labels
<1>2. ASSUME NEW label \in {"fetch", "putmembership", "putlink", "putcode",
                            "issue"}, Goto(h, label)
      PROVE  Labelled(label)
  BY <1>1, <1>2, GotoFields DEF Relabelled
<1>3. Leave(h) => Labelled("idle")
  BY LeaveIsMove
<1>4. ASSUME NEW l \in Logins, Callback(h, l)
      PROVE  OffSession(h)
  <2>1. Labelled("consumetxn")
    BY <1>4, CallbackMove DEF Callback
  <2>2. QED
    BY <1>4, <2>1, MovesOffSession DEF Callback
<1>5. CASE ConsumeTxn(h)
  <2>1. Labelled("fetch") \/ Labelled("idle")
    BY <1>2, <1>3, <1>5 DEF ConsumeTxn
  <2>2. QED
    BY <1>5, <2>1, MovesOffSession DEF ConsumeTxn
<1>6. CASE Fetch(h)
  <2>1. ASSUME NEW u \in Users,
               Move(h, [job[h] EXCEPT !.at = "lookup", !.user = u])
        PROVE  Labelled("lookup")
    BY <2>1, FetchMove
  <2>2. Labelled("lookup") \/ Labelled("idle")
    BY <1>3, <1>6, <2>1 DEF Fetch
  <2>3. QED
    BY <1>6, <2>2, MovesOffSession DEF Fetch
<1>7. CASE Lookup(h)
  <2>1. link[job[h].user] \in Nat /\ drawn \in Nat
    BY <1>7 DEF Lookup, At, TypeInv, TypeOK, JobOK, Winning
  <2>2. PICK r \in Jobs : Move(h, r) /\ r.at \in {"putcode", "putprincipal"}
    BY <1>7, <2>1, FoundMove, DrawnMove DEF Lookup
  <2>3. UNCHANGED <<pairs, rows, pairsOut>> /\ faults \subseteq faults'
    BY <1>7 DEF Lookup
  <2>4. QED
    BY <2>2, <2>3, MovesOffSession
<1>8. CASE PutPrincipal(h)
  <2>1. Labelled("putmembership")
    BY <1>2, <1>8 DEF PutPrincipal
  <2>2. QED
    BY <1>8, <2>1, MovesOffSession DEF PutPrincipal
<1>9. CASE PutMembership(h)
  <2>1. Labelled("putlink")
    BY <1>2, <1>9 DEF PutMembership
  <2>2. QED
    BY <1>9, <2>1, MovesOffSession DEF PutMembership
<1>10. CASE PutLink(h)
  <2>1. Labelled("putcode")
    BY <1>2, <1>10 DEF PutLink
  <2>2. QED
    BY <1>10, <2>1, MovesOffSession DEF PutLink
<1>11. CASE PutCode(h)
  <2>1. Len(codes) \in Nat
    BY DEF TypeInv, TypeOK
  <2>2. Labelled("answercode")
    BY <1>11, <2>1, CodeMove DEF PutCode
  <2>3. QED
    BY <1>11, <2>2, MovesOffSession DEF PutCode
<1>12. CASE AnswerCode(h)
  BY <1>3, <1>12, MovesOffSession DEF AnswerCode
<1>13. ASSUME NEW i \in codesOut, Redeem(h, i)
       PROVE  OffSession(h)
  <2>1. i \in 1..Len(codes)
    BY DEF TypeInv, TypeOK
  <2>2. Labelled("consumecode")
    BY <1>13, <2>1, RedeemMove, CodeFields DEF Redeem
  <2>3. QED
    BY <1>13, <2>2, MovesOffSession DEF Redeem
<1>14. CASE ConsumeCode(h)
  <2>1. Labelled("issue") \/ Labelled("idle")
    BY <1>2, <1>3, <1>14 DEF ConsumeCode
  <2>2. QED
    BY <1>14, <2>1, MovesOffSession DEF ConsumeCode
<1>15. ASSUME NEW j \in pairsOut, Refresh(h, j)
       PROVE  OffSession(h)
  <2>1. j \in Nat
    BY DEF TypeInv, TypeOK
  <2>2. Labelled("scan")
    BY <1>15, <2>1, RefreshMove DEF Refresh
  <2>3. QED
    BY <1>15, <2>2, MovesOffSession DEF Refresh
<1>16. CASE Scan(h) /\ Leave(h)
  <2>1. faults \subseteq faults'
    BY <1>16 DEF Scan
  <2>2. QED
    BY <1>3, <1>16, <2>1, MovesOffSession DEF Scan
<1>17. QED
  BY <1>4, <1>5, <1>6, <1>7, <1>8, <1>9, <1>10, <1>11, <1>12, <1>13, <1>14,
     <1>15, <1>16
     DEF LoginStepOf

\* The steps that are about pairs, each with what it does to them.
LEMMA FoundEffect ==
  ASSUME TypeInv, NEW h \in Handlers, Found(h)
  PROVE  /\ \A g \in Handlers \ {h} : job'[g] = job[g]
         /\ job'[h].at = "reissue" /\ job'[h].item = job[h].item
         /\ job'[h].login = pairs[job[h].item].login
         /\ job[h].item \in rows
         /\ UNCHANGED <<pairs, rows, pairsOut>>
         /\ faults' = IF \E d \in Handlers \ {h} :
                           /\ job[d].item = job[h].item
                           /\ job[d].at \in {"reissue", "rotate"}
                        THEN faults \cup {"tworefresh"} ELSE faults
<1>1. job[h].item \in 1..Len(pairs)
  BY DEF Found, Scan, At, TypeInv, JobOK
<1>2. PICK r \in Jobs : /\ Move(h, r) /\ r.at = "reissue"
                        /\ r.item = job[h].item
                        /\ r.login = pairs[job[h].item].login
  BY <1>1, ScanMove, PairFields DEF Found, Scan
<1>3. job'[h] = r /\ \A g \in Handlers \ {h} : job'[g] = job[g]
  BY <1>2, MoveFacts DEF TypeInv, TypeOK
<1>4. QED
  BY <1>2, <1>3 DEF Found, Scan, sessions, clients

\* Issue and Reissue: pair number Len(pairs) + 1 is new, and h holds it.
LEMMA IssueEffect ==
  ASSUME TypeInv, NEW h \in Handlers, Issue(h) \/ Reissue(h)
  PROVE  /\ \A g \in Handlers \ {h} : job'[g] = job[g]
         /\ job'[h].at = IF Issue(h) THEN "answerpair" ELSE "rotate"
         /\ job'[h].item = job[h].item /\ job'[h].new = Len(pairs) + 1
         /\ Len(pairs) \in Nat /\ Len(pairs') = Len(pairs) + 1
         /\ \A j \in 1..Len(pairs) : pairs'[j] = pairs[j]
         /\ pairs'[Len(pairs) + 1].login = job[h].login
         /\ pairs'[Len(pairs) + 1].first <=> Issue(h)
         /\ rows' = rows \cup {Len(pairs) + 1}
         /\ UNCHANGED <<pairsOut, faults>>
<1>1. Issue(h) => ~Reissue(h)
  BY DEF Issue, Reissue, At
<1>2. PICK first \in BOOLEAN, label \in {"answerpair", "rotate"} :
        /\ IssuePair(h, first, label)
        /\ first = Issue(h)
        /\ label = IF Issue(h) THEN "answerpair" ELSE "rotate"
  BY <1>1 DEF Issue, Reissue
<1>3. /\ UNCHANGED <<codes, drawn, pairsOut, faults>> /\ label \in Labels
      /\ job[h].login \in Logins
  BY DEF Issue, Reissue, users, clients, TypeInv, JobOK, At, Labels
<1>4. /\ Len(pairs) \in Nat /\ Len(pairs') = Len(pairs) + 1
      /\ \A j \in 1..Len(pairs) : pairs'[j] = pairs[j]
      /\ pairs'[Len(pairs) + 1].login = job[h].login
      /\ pairs'[Len(pairs) + 1].first = first
  BY <1>2, <1>3, IssuePairEffect
<1>5. PICK r \in Jobs : /\ Move(h, r)
                        /\ r.at = label /\ r.item = job[h].item
                        /\ r.new = Len(pairs) + 1
  BY <1>2, <1>3, IssuePairEffect
<1>6. job'[h] = r /\ \A g \in Handlers \ {h} : job'[g] = job[g]
  BY <1>5, MoveFacts DEF TypeInv, TypeOK
<1>7. rows' = rows \cup {Len(pairs) + 1}
  BY <1>2 DEF IssuePair
<1>8. QED
  BY <1>2, <1>3, <1>4, <1>5, <1>6, <1>7

LEMMA RotateEffect ==
  ASSUME TypeInv, RotationInv, NEW h \in Handlers, Rotate(h)
  PROVE  /\ \A g \in Handlers \ {h} : job'[g] = job[g]
         /\ job[h].at = "rotate" /\ job'[h].at = "answerpair"
         /\ job'[h].item = job[h].item /\ job'[h].new = job[h].new
         /\ UNCHANGED <<pairs, pairsOut, faults>>
         /\ job[h].item \in pairsOut
         /\ job[h].new \in rows /\ job[h].new \notin pairsOut
         /\ rows' = rows \ {job[h].item}
<1>1. PICK r \in Jobs : Move(h, r) /\ Relabelled(r, job[h], "answerpair")
  BY GotoFields DEF Rotate, Labels
<1>2. job'[h] = r /\ \A g \in Handlers \ {h} : job'[g] = job[g]
  BY <1>1, MoveFacts DEF TypeInv, TypeOK
<1>3. /\ job[h].at = "rotate" /\ UNCHANGED <<pairs, pairsOut, faults>>
      /\ job[h].item \in pairsOut
      /\ job[h].new \in rows /\ job[h].new \notin pairsOut
      /\ rows' = (rows \ {job[h].item}) \cup {job[h].new}
  BY DEF Rotate, At, clients, RotationInv
<1>4. rows' = rows \ {job[h].item}
  BY <1>3
<1>5. QED
  BY <1>1, <1>2, <1>3, <1>4 DEF Relabelled

LEMMA AnswerPairEffect ==
  ASSUME TypeInv, NEW h \in Handlers, AnswerPair(h)
  PROVE  /\ \A g \in Handlers \ {h} : job'[g] = job[g]
         /\ job[h].at = "answerpair" /\ job'[h].at = "idle"
         /\ UNCHANGED <<pairs, rows>> /\ faults \subseteq faults'
         /\ pairsOut \subseteq pairsOut'
         /\ pairsOut' \subseteq pairsOut \cup {job[h].new}
         /\ \/ job[h].new \in pairsOut'
            \/ ~pairs[job[h].new].first => "lost" \in faults'
<1>1. job'[h].at = "idle" /\ \A g \in Handlers \ {h} : job'[g] = job[g]
  BY MoveFacts DEF AnswerPair, Leave, Idle, TypeInv, TypeOK
<1>2. job[h].at = "answerpair" /\ UNCHANGED <<pairs, rows>>
  BY DEF AnswerPair, At, sessions
<1>3. faults \subseteq faults'
  BY DEF AnswerPair
<1>4. /\ pairsOut \subseteq pairsOut'
      /\ pairsOut' \subseteq pairsOut \cup {job[h].new}
  BY DEF AnswerPair
<1>5. \/ job[h].new \in pairsOut'
      \/ ~pairs[job[h].new].first => "lost" \in faults'
  BY DEF AnswerPair, Replacing
<1>6. QED
  BY <1>1, <1>2, <1>3, <1>4, <1>5

LEMMA CrashEffect ==
  ASSUME Crash
  PROVE  /\ \A h \in Handlers : job'[h].at = "idle"
         /\ UNCHANGED <<pairs, rows, pairsOut>> /\ faults \subseteq faults'
         /\ \A h \in Handlers :
              At(h, "answerpair") /\ ~pairs[job[h].new].first
                => "lost" \in faults'
<1>1. faults \subseteq faults' /\ \A h \in Handlers : job'[h].at = "idle"
  BY DEF Crash, Idle
<1>2. UNCHANGED <<pairs, rows, pairsOut>>
  BY DEF Crash, sessions, clients
<1>3. \A h \in Handlers :
        At(h, "answerpair") /\ ~pairs[job[h].new].first => "lost" \in faults'
  BY DEF Crash, Replacing
<1>4. QED
  BY <1>1, <1>2, <1>3

\* Every step is one of those.
LEMMA SessionSteps ==
  ASSUME TypeInv, [Next]_vars
  PROVE  \/ UNCHANGED <<job, pairs, rows, pairsOut, faults>>
         \/ \E h \in Handlers :
              \/ OffSession(h) /\ ~At(h, "answerpair")
              \/ Found(h) \/ Issue(h) \/ Reissue(h) \/ Rotate(h)
              \/ AnswerPair(h)
         \/ Crash
<1>1. ASSUME NEW l \in Logins, StartLogin(l)
      PROVE  UNCHANGED <<job, pairs, rows, pairsOut, faults>>
  BY <1>1 DEF StartLogin, sessions, clients
<1>2. UNCHANGED vars => UNCHANGED <<job, pairs, rows, pairsOut, faults>>
  BY DEF vars
<1>3. ASSUME NEW h \in Handlers, LoginStepOf(h) \/ Scan(h)
      PROVE  ~At(h, "answerpair")
  BY <1>3 DEF LoginStepOf, Callback, ConsumeTxn, Fetch, Lookup, PutPrincipal,
              PutMembership, PutLink, PutCode, AnswerCode, Redeem,
              ConsumeCode, Refresh, Scan, At
<1>4. QED
  BY <1>1, <1>2, <1>3, OffSessionSteps DEF Next, LoginStepOf, Found

\* Old pairs are numbered 1..Len(pairs), and so is what the handlers hold.
LEMMA PairNumbers ==
  ASSUME TypeInv
  PROVE  /\ Len(pairs) \in Nat /\ pairsOut \subseteq 1..Len(pairs)
         /\ rows \subseteq 1..Len(pairs)
         /\ \A h \in Handlers :
              /\ job[h].at \in {"reissue", "rotate"}
                   => job[h].item \in 1..Len(pairs)
              /\ job[h].at \in {"rotate", "answerpair"}
                   => job[h].new \in 1..Len(pairs)
  BY DEF TypeInv, TypeOK, JobOK

LEMMA IssueLineage ==
  ASSUME TypeInv, LineageInv, NEW h \in Handlers, Issue(h) \/ Reissue(h),
         Issue(h) =>
           \A i \in 1..Len(pairs) : pairs[i].login # job[h].login,
         ~Issue(h) =>
           /\ job[h].item \in 1..Len(pairs)
           /\ pairs[job[h].item].login = job[h].login
           /\ \A g \in Handlers \ {h} :
                At(g, "answerpair") /\ pairs[job[g].new].first
                  => pairs[job[g].new].login # job[h].login
  PROVE  LineageInv'
<1> DEFINE n == Len(pairs)
<1>1. /\ n \in Nat /\ Len(pairs') = n + 1 /\ pairsOut \subseteq 1..n
      /\ \A i \in 1..n : pairs'[i] = pairs[i]
      /\ pairs'[n + 1].login = job[h].login
      /\ pairs'[n + 1].first <=> Issue(h)
      /\ job'[h].new = n + 1 /\ job'[h].item = job[h].item
      /\ pairsOut' = pairsOut
  BY IssueEffect, PairNumbers
<1>2. \A i \in 1..Len(pairs') : i \in 1..n \/ i = n + 1
  BY <1>1
<1>3. \A g \in Handlers \ {h} : job'[g] = job[g]
  BY IssueEffect
<1>4. job'[h].at = IF Issue(h) THEN "answerpair" ELSE "rotate"
  BY IssueEffect
<1>5. \A g \in Handlers : At(g, "reissue")' =>
        pairs'[job'[g].item].login = job'[g].login
  <2>1. \A g \in Handlers : At(g, "reissue")' =>
          /\ g # h /\ At(g, "reissue") /\ job[g].item \in 1..n
    BY <1>3, <1>4, PairNumbers DEF At
  <2>2. QED
    BY <1>1, <1>3, <2>1 DEF LineageInv
<1>6. \A g \in Handlers : At(g, "rotate")' =>
        /\ pairs'[job'[g].item].login = pairs'[job'[g].new].login
        /\ ~pairs'[job'[g].new].first
  <2>1. ASSUME NEW g \in Handlers \ {h}, At(g, "rotate")'
        PROVE  /\ At(g, "rotate") /\ job'[g] = job[g]
               /\ job[g].item \in 1..n /\ job[g].new \in 1..n
    BY <1>3, <2>1, PairNumbers DEF At
  <2>2. At(h, "rotate")' => ~Issue(h)
    BY <1>4 DEF At
  <2>3. QED
    BY <1>1, <2>1, <2>2 DEF LineageInv
<1>7. \A g \in Handlers : (At(g, "answerpair")' /\ pairs'[job'[g].new].first) =>
        \A i \in 1..Len(pairs') :
          pairs'[i].login = pairs'[job'[g].new].login => i = job'[g].new
  <2>1. ASSUME NEW g \in Handlers \ {h}, At(g, "answerpair")'
        PROVE  At(g, "answerpair") /\ job'[g] = job[g] /\ job[g].new \in 1..n
    BY <1>3, <2>1, PairNumbers DEF At
  <2>2. At(h, "answerpair")' => Issue(h)
    BY <1>4 DEF At
  <2>3. QED
    BY <1>1, <1>2, <2>1, <2>2 DEF LineageInv
<1>8. \A g \in Handlers : At(g, "answerpair")' =>
        job'[g].new \in rows' /\ job'[g].new \notin pairsOut'
  BY <1>1, <1>3, IssueEffect DEF LineageInv, At
<1>9. QED
  BY <1>5, <1>6, <1>7, <1>8 DEF LineageInv

\* The first pair of a session has no other beside it while it is answered.
LEMMA LineageStep ==
  TypeInv /\ LoginInv /\ RotationInv /\ LineageInv /\ [Next]_vars
    => LineageInv'
<1> SUFFICES ASSUME TypeInv, LoginInv, RotationInv, LineageInv, [Next]_vars
             PROVE  LineageInv'
  OBVIOUS
<1>1. CASE UNCHANGED <<job, pairs, rows, pairsOut, faults>>
  BY <1>1 DEF LineageInv, At
<1>2. ASSUME NEW h \in Handlers, OffSession(h)
      PROVE  LineageInv'
  BY <1>2 DEF OffSession, LineageInv, At
<1>3. ASSUME NEW h \in Handlers, Found(h)
      PROVE  LineageInv'
  BY <1>3, FoundEffect DEF LineageInv, At
<1>4. ASSUME NEW h \in Handlers, Issue(h)
      PROVE  LineageInv'
  <2>1. \A i \in 1..Len(pairs) : pairs[i].login # job[h].login
    BY <1>4 DEF Issue, LoginInv, CodeOnce, Issued
  <2>2. QED
    BY <1>4, <2>1, IssueLineage
<1>5. ASSUME NEW h \in Handlers, Reissue(h)
      PROVE  LineageInv'
  <2>1. /\ job[h].item \in pairsOut /\ job[h].item \in 1..Len(pairs)
        /\ pairs[job[h].item].login = job[h].login
    BY <1>5, PairNumbers DEF Reissue, RotationInv, LineageInv, At
  <2>2. \A g \in Handlers \ {h} :
          At(g, "answerpair") /\ pairs[job[g].new].first
            => pairs[job[g].new].login # job[h].login
    BY <2>1 DEF LineageInv, At
  <2>3. QED
    BY <1>5, <2>1, <2>2, IssueLineage DEF Issue, Reissue, At
<1>6. ASSUME NEW h \in Handlers, Rotate(h)
      PROVE  LineageInv'
  BY <1>6, RotateEffect DEF LineageInv, At
<1>7. ASSUME NEW h \in Handlers, AnswerPair(h)
      PROVE  LineageInv'
  <2>1. \A g \in Handlers \ {h} :
          At(g, "answerpair") => job[g].new # job[h].new
    BY <1>7, AnswerPairEffect DEF RotationInv, At
  <2>2. QED
    BY <1>7, <2>1, AnswerPairEffect DEF LineageInv, At
<1>8. CASE Crash
  BY <1>8, CrashEffect DEF LineageInv, At
<1>9. QED
  BY <1>1, <1>2, <1>3, <1>4, <1>5, <1>6, <1>7, <1>8, SessionSteps

\* Where a step leaves the usable pairs alone, or takes some away, and no
\* rotation begins, at most one remains.
LEMMA UsableKeeps ==
  ASSUME UsableInv, Usable' \subseteq Usable, pairs' = pairs, rows' = rows,
         faults \subseteq faults',
         \A h \in Handlers :
           job'[h].at \in {"reissue", "rotate"} => job'[h] = job[h]
  PROVE  UsableInv'
  BY DEF UsableInv

LEMMA IssueUsable ==
  ASSUME TypeInv, UsableInv, NEW h \in Handlers, Issue(h) \/ Reissue(h),
         Issue(h) =>
           \A i \in 1..Len(pairs) : pairs[i].login # job[h].login
  PROVE  UsableInv'
<1> DEFINE n == Len(pairs)
<1>1. /\ n \in Nat /\ Len(pairs') = n + 1 /\ pairsOut \subseteq 1..n
      /\ \A i \in 1..n : pairs'[i] = pairs[i]
      /\ pairs'[n + 1].login = job[h].login
      /\ job'[h].new = n + 1 /\ job'[h].item = job[h].item
      /\ rows' = rows \cup {n + 1}
      /\ UNCHANGED <<pairsOut, faults>>
  BY IssueEffect, PairNumbers
<1>2. \A g \in Handlers \ {h} : job'[g] = job[g]
  BY IssueEffect
<1>3. job'[h].at = IF Issue(h) THEN "answerpair" ELSE "rotate"
  BY IssueEffect
<1>4. Usable \subseteq 1..n
  BY DEF Usable
<1>5. \A i \in Usable' : i \in Usable \/ (i = n + 1 /\ Issue(h))
  <2>1. ASSUME NEW i \in Usable'
        PROVE  i \in 1..n \/ i = n + 1
    BY <1>1 DEF Usable
  <2>2. n + 1 \notin pairsOut /\ n + 1 \notin 1..n
    BY <1>1
  <2>3. \A g \in Handlers : At(g, "answerpair") => job[g].new \in 1..n
    BY PairNumbers DEF At
  <2>4. ASSUME NEW g \in Handlers, At(g, "answerpair")'
        PROVE  IF g = h THEN Issue(h) ELSE At(g, "answerpair")
    BY <1>2, <1>3, <2>4 DEF At
  <2>5. QED
    BY <1>1, <1>2, <2>1, <2>2, <2>3, <2>4 DEF Usable
<1>6. \A g \in Handlers :
        job'[g].at \in {"reissue", "rotate"}
          => job[g].at \in {"reissue", "rotate"} /\ job'[g].item = job[g].item
  <2>1. ~Issue(h) => job[h].at = "reissue"
    BY DEF Reissue, At
  <2>2. QED
    BY <1>1, <1>2, <1>3, <2>1
<1>7. SUFFICES ASSUME "tworefresh" \notin faults
               PROVE  UsableInv'
  BY <1>1 DEF UsableInv
<1>8. \A i, j \in Usable' : pairs'[i].login = pairs'[j].login => i = j
  <2>1. \A i, j \in Usable : pairs[i].login = pairs[j].login => i = j
    BY <1>7 DEF UsableInv
  <2>2. \A i \in Usable : /\ pairs'[i].login = pairs[i].login
                          /\ Issue(h) => pairs'[i].login # job[h].login
    BY <1>1, <1>4
  <2>3. QED
    BY <1>1, <1>5, <2>1, <2>2
<1>9. /\ \A g \in Handlers :
           job'[g].at \in {"reissue", "rotate"} => job'[g].item \in rows'
      /\ \A g, d \in Handlers :
           /\ job'[g].at \in {"reissue", "rotate"}
           /\ job'[d].at \in {"reissue", "rotate"}
           /\ job'[g].item = job'[d].item
           => g = d
  BY <1>1, <1>6, <1>7 DEF UsableInv
<1>10. QED
  BY <1>8, <1>9 DEF UsableInv

\* The pair rotated away was the usable one, and the new one takes its place.
LEMMA RotateUsable ==
  ASSUME TypeInv, RotationInv, LineageInv, UsableInv, NEW h \in Handlers,
         Rotate(h)
  PROVE  UsableInv'
<1> DEFINE old == job[h].item
           new == job[h].new
<1>1. /\ \A g \in Handlers \ {h} : job'[g] = job[g]
      /\ job[h].at = "rotate" /\ job'[h].at = "answerpair" /\ job'[h].new = new
      /\ UNCHANGED <<pairs, pairsOut, faults>>
      /\ old \in pairsOut /\ new \in rows /\ new \notin pairsOut
      /\ rows' = rows \ {old}
  BY RotateEffect
<1>2. pairs[old].login = pairs[new].login /\ old \in 1..Len(pairs)
  BY <1>1, PairNumbers DEF LineageInv, At
<1>3. \A i \in Usable' : i = new \/ (i \in Usable /\ i # old)
  <2>1. \A g \in Handlers : At(g, "answerpair") => job[g].new # old
    BY <1>1 DEF LineageInv
  <2>2. \A g \in Handlers : At(g, "answerpair")' =>
          job'[g].new = new \/ (At(g, "answerpair") /\ job'[g].new = job[g].new)
    BY <1>1 DEF At
  <2>3. QED
    BY <1>1, <2>1, <2>2 DEF Usable
<1>4. SUFFICES ASSUME "tworefresh" \notin faults
               PROVE  UsableInv'
  BY <1>1 DEF UsableInv
<1>5. /\ old \in rows
      /\ \A g \in Handlers \ {h} :
           job[g].at \in {"reissue", "rotate"} => job[g].item # old
  BY <1>1, <1>4 DEF UsableInv
<1>6. \A i, j \in Usable' : pairs'[i].login = pairs'[j].login => i = j
  <2>1. old \in Usable
    BY <1>1, <1>2, <1>5 DEF Usable
  <2>2. \A i, j \in Usable : pairs[i].login = pairs[j].login => i = j
    BY <1>4 DEF UsableInv
  <2>3. QED
    BY <1>1, <1>2, <1>3, <2>1, <2>2
<1>7. /\ \A g \in Handlers :
           job'[g].at \in {"reissue", "rotate"} => job'[g].item \in rows'
      /\ \A g, d \in Handlers :
           /\ job'[g].at \in {"reissue", "rotate"}
           /\ job'[d].at \in {"reissue", "rotate"}
           /\ job'[g].item = job'[d].item
           => g = d
  BY <1>1, <1>4, <1>5 DEF UsableInv
<1>8. QED
  BY <1>6, <1>7 DEF UsableInv

LEMMA UsableStep ==
  TypeInv /\ LoginInv /\ RotationInv /\ LineageInv /\ UsableInv /\ [Next]_vars
    => UsableInv'
<1> SUFFICES ASSUME TypeInv, LoginInv, RotationInv, LineageInv, UsableInv,
                    [Next]_vars
             PROVE  UsableInv'
  OBVIOUS
<1>1. CASE UNCHANGED <<job, pairs, rows, pairsOut, faults>>
  <2>1. Usable' = Usable
    BY <1>1 DEF Usable, At
  <2>2. QED
    BY <1>1, <2>1, UsableKeeps
<1>2. ASSUME NEW h \in Handlers, OffSession(h)
      PROVE  UsableInv'
  <2>1. Usable' \subseteq Usable
    BY <1>2 DEF OffSession, Usable, At
  <2>2. QED
    BY <1>2, <2>1, UsableKeeps DEF OffSession
<1>3. ASSUME NEW h \in Handlers, Found(h)
      PROVE  UsableInv'
  <2>1. Usable' \subseteq Usable
    BY <1>3, FoundEffect DEF Usable, At
  <2>2. QED
    BY <1>3, <2>1, FoundEffect DEF UsableInv
<1>4. ASSUME NEW h \in Handlers, Issue(h)
      PROVE  UsableInv'
  <2>1. \A i \in 1..Len(pairs) : pairs[i].login # job[h].login
    BY <1>4 DEF Issue, LoginInv, CodeOnce, Issued
  <2>2. QED
    BY <1>4, <2>1, IssueUsable
<1>5. ASSUME NEW h \in Handlers, Reissue(h)
      PROVE  UsableInv'
  <2>1. ~Issue(h)
    BY <1>5 DEF Issue, Reissue, At
  <2>2. QED
    BY <1>5, <2>1, IssueUsable
<1>6. ASSUME NEW h \in Handlers, AnswerPair(h)
      PROVE  UsableInv'
  <2>1. Usable' \subseteq Usable
    <3>1. ASSUME NEW g \in Handlers, At(g, "answerpair")'
          PROVE  At(g, "answerpair") /\ job'[g] = job[g]
      BY <1>6, <3>1, AnswerPairEffect DEF At
    <3>2. QED
      BY <1>6, <3>1, AnswerPairEffect DEF Usable, At
  <2>2. QED
    BY <1>6, <2>1, AnswerPairEffect, UsableKeeps
<1>7. CASE Crash
  <2>1. Usable' \subseteq Usable
    BY <1>7, CrashEffect DEF Usable, At
  <2>2. QED
    BY <1>7, <2>1, CrashEffect, UsableKeeps
<1>8. QED
  BY <1>1, <1>2, <1>3, <1>4, <1>5, <1>6, <1>7, RotateUsable, SessionSteps

\* A pair by which the session of pair i goes on.
CarriesOn(i, j) ==
  /\ j \in rows /\ pairs[j].login = pairs[i].login
  /\ \/ j \in pairsOut
     \/ \E h \in Handlers : At(h, "answerpair") /\ job[h].new = j

LEMMA SessionStep ==
  TypeInv /\ RotationInv /\ LineageInv /\ SessionSurvives /\ [Next]_vars
    => SessionSurvives'
<1> SUFFICES ASSUME TypeInv, RotationInv, LineageInv, SessionSurvives,
                    [Next]_vars, "lost" \notin faults',
                    NEW i \in pairsOut'
             PROVE  \E j \in rows' : CarriesOn(i, j)'
  BY DEF SessionSurvives, CarriesOn
<1>1. ASSUME "lost" \notin faults, NEW k \in pairsOut
      PROVE  \E j \in rows : CarriesOn(k, j)
  BY <1>1 DEF SessionSurvives, CarriesOn
<1>2. CASE UNCHANGED <<job, pairs, rows, pairsOut, faults>>
  BY <1>1, <1>2 DEF CarriesOn, At
<1>3. ASSUME NEW h \in Handlers,
             (OffSession(h) /\ ~At(h, "answerpair")) \/ Found(h)
      PROVE  \E j \in rows' : CarriesOn(i, j)'
  <2>1. /\ ~At(h, "answerpair") /\ faults \subseteq faults'
        /\ \A g \in Handlers \ {h} : job'[g] = job[g]
        /\ UNCHANGED <<pairs, rows, pairsOut>>
    BY <1>3, FoundEffect DEF OffSession, Found, Scan, At
  <2>2. \E j \in rows : CarriesOn(i, j)
    BY <1>1, <2>1
  <2>3. QED
    BY <2>1, <2>2 DEF CarriesOn, At
<1>4. ASSUME NEW h \in Handlers, Issue(h) \/ Reissue(h)
      PROVE  \E j \in rows' : CarriesOn(i, j)'
  <2>1. /\ i \in pairsOut /\ faults' = faults /\ pairsOut' = pairsOut
        /\ rows \subseteq rows'
        /\ \A j \in 1..Len(pairs) : pairs'[j] = pairs[j]
        /\ \A g \in Handlers \ {h} : job'[g] = job[g]
    BY <1>4, IssueEffect
  <2>2. PICK j \in rows : CarriesOn(i, j)
    BY <1>1, <2>1
  <2>3. ~At(h, "answerpair")
    BY <1>4 DEF Issue, Reissue, At
  <2>4. CarriesOn(i, j)'
    BY <2>1, <2>2, <2>3, PairNumbers DEF CarriesOn, At
  <2>5. QED
    BY <2>1, <2>4
<1>5. ASSUME NEW h \in Handlers, Rotate(h)
      PROVE  \E j \in rows' : CarriesOn(i, j)'
  <2>1. PICK j \in rows : CarriesOn(i, j)
    BY <1>1, <1>5, RotateEffect
  <2>2. CASE j # job[h].item
    BY <1>5, <2>1, <2>2, RotateEffect DEF CarriesOn, At
  <2>3. CASE j = job[h].item
    <3>1. PICK k \in rows : k = job[h].new
      BY <1>5, RotateEffect
    <3>2. pairs[j].login = pairs[k].login
      BY <1>5, <2>3, <3>1, RotateEffect DEF LineageInv, At
    <3>3. k \in rows' /\ CarriesOn(i, k)'
      BY <1>5, <2>1, <3>1, <3>2, RotateEffect DEF CarriesOn, At
    <3>4. QED
      BY <3>3
  <2>4. QED
    BY <2>2, <2>3
<1>6. ASSUME NEW h \in Handlers, At(h, "answerpair"),
             pairs[job[h].new].first, i \in pairsOut, NEW j, CarriesOn(i, j)
      PROVE  j # job[h].new
  BY <1>6, PairNumbers DEF LineageInv, CarriesOn
<1>7. ASSUME NEW h \in Handlers, AnswerPair(h)
      PROVE  \E j \in rows' : CarriesOn(i, j)'
  <2>1. /\ At(h, "answerpair")
        /\ \A g \in Handlers \ {h} : job'[g] = job[g]
        /\ UNCHANGED <<pairs, rows>> /\ "lost" \notin faults
        /\ pairsOut \subseteq pairsOut'
        /\ pairsOut' \subseteq pairsOut \cup {job[h].new}
        /\ job[h].new \in pairsOut' \/ pairs[job[h].new].first
    BY <1>7, AnswerPairEffect DEF At
  <2>2. CASE i \notin pairsOut
    <3>1. i = job[h].new /\ i \in rows
      BY <2>1, <2>2 DEF LineageInv
    <3>2. QED
      BY <2>1, <3>1 DEF CarriesOn
  <2>3. CASE i \in pairsOut
    <3>1. PICK j \in rows : CarriesOn(i, j)
      BY <1>1, <2>1, <2>3
    <3>2. j = job[h].new => j \in pairsOut'
      BY <1>6, <2>1, <2>3, <3>1
    <3>3. CarriesOn(i, j)'
      BY <2>1, <3>1, <3>2 DEF CarriesOn, At
    <3>4. QED
      BY <2>1, <3>3
  <2>4. QED
    BY <2>2, <2>3
<1>8. CASE Crash
  <2>1. /\ UNCHANGED <<pairs, rows, pairsOut>> /\ "lost" \notin faults
        /\ \A h \in Handlers :
             At(h, "answerpair") => pairs[job[h].new].first
    BY <1>8, CrashEffect
  <2>2. PICK j \in rows : CarriesOn(i, j)
    BY <1>1, <2>1
  <2>3. j \in pairsOut
    BY <1>6, <2>1, <2>2 DEF CarriesOn
  <2>4. QED
    BY <2>1, <2>2, <2>3 DEF CarriesOn
<1>9. QED
  BY <1>2, <1>3, <1>4, <1>5, <1>7, <1>8, SessionSteps

-----------------------------------------------------------------------------
(* The theorems. *)

\* Every variable keeps its type, and the locals of a handler hold what its
\* next statement needs.
THEOREM TypeCorrect == Spec => []TypeInv
<1>1. QED
  BY InitTypes, TypeStep, PTL DEF Spec

\* The right to go on with a login is in one place at a time: the open
\* transaction, a handler, a code, a handler (consume_federation_txn,
\* consume_auth_code).
THEOREM LoginInvariant == Spec => []LoginInv
<1>1. Init => LoginInv
  BY DEF Init, LoginInv, TxnOnce, CodeOnce, OneSessionPerLogin, At, Winning,
         Idle
<1>2. QED
  BY <1>1, LoginStep, TypeCorrect, PTL DEF Spec

\* A login opens at most one session, for any number of handlers, repeated
\* callbacks, repeated redemptions and crashes.
THEOREM SessionPerLogin == Spec => []OneSessionPerLogin
<1>1. LoginInv => OneSessionPerLogin
  BY DEF LoginInv
<1>2. QED
  BY <1>1, LoginInvariant, PTL

\* A handler names only a principal that is complete
\* (find_or_create_island_principal stores the link last).
THEOREM NamesInvariant == Spec => []NamesInv
<1>1. Init => NamesInv
  BY DEF Init, NamesInv, NamedPrincipalsComplete, At, Idle
<1>2. QED
  BY <1>1, NamesStep, TypeCorrect, PTL DEF Spec

\* Whoever a link, a code or a token names has a principal row and a
\* membership, wherever the process died.
THEOREM CompletePrincipals == Spec => []NamedPrincipalsComplete
<1>1. NamesInv => NamedPrincipalsComplete
  BY DEF NamesInv
<1>2. QED
  BY <1>1, NamesInvariant, PTL

\* The new pair of a rotation has its row and is with no client before the
\* rotation is done.
THEOREM RotationInvariant == Spec => []RotationInv
<1>1. Init => RotationInv
  BY DEF Init, RotationInv, At, Idle
<1>2. QED
  BY <1>1, RotationStep, TypeCorrect, PTL DEF Spec

\* A refresh token that was rotated away is never accepted again
\* (rotate_refresh), however many handlers present it at once.
THEOREM RotatedDead == Spec => RotatedStaysDead
<1>1. NoneRevives => (\A j \in 1..Len(pairs) : j \notin rows => j \notin rows')
  BY DEF NoneRevives
<1>2. QED
  BY <1>1, RevivalStep, TypeCorrect, RotationInvariant, PTL
     DEF Spec, RotatedStaysDead

\* What links, codes and the handlers that name a user say of its principal
\* agrees, unless two handlers looked the same unknown user up at once.
THEOREM PersonInvariant == Spec => []PersonInv
<1>1. Init => PersonInv
  BY DEF Init, PersonInv, Creating, At, Idle
<1>2. QED
  BY <1>1, PersonStep, TypeCorrect, PTL DEF Spec

\* An island user is the same principal in every login
\* (find_or_create_island_principal), however often the process died, unless
\* two handlers looked it up at once while it was unknown.
THEOREM OneUserIsOnePrincipal == Spec => []OneUserOnePrincipal
<1>1. PersonInv => OneUserOnePrincipal
  BY DEF PersonInv, OneUserOnePrincipal
<1>2. QED
  BY <1>1, PersonInvariant, PTL

\* A rotation stays within its session, and the first pair of a session is
\* alone until it is answered (refresh needs a token that was answered).
THEOREM LineageInvariant == Spec => []LineageInv
<1>1. Init => LineageInv
  BY DEF Init, LineageInv, At, Idle
<1>2. QED
  BY <1>1, LineageStep, TypeCorrect, LoginInvariant, RotationInvariant, PTL
     DEF Spec

\* A session has at most one usable pair, with its client or on its way there
\* (rotate_refresh), unless two handlers found the same refresh token.
THEOREM UsableInvariant == Spec => []UsableInv
<1>1. Init => UsableInv
  BY DEF Init, UsableInv, Usable, At, Idle
<1>2. QED
  BY <1>1, UsableStep, TypeCorrect, LoginInvariant, RotationInvariant,
     LineageInvariant, PTL DEF Spec

\* Of the pairs the client of a session was ever given, at most one is still
\* accepted, for any number of refreshes and crashes.
THEOREM UsablePairOnce == Spec => []OneUsablePair
<1>1. TypeInv /\ UsableInv => OneUsablePair
  BY DEF TypeInv, TypeOK, UsableInv, Usable, OneUsablePair
<1>2. QED
  BY <1>1, UsableInvariant, TypeCorrect, PTL

\* A client that was given a pair keeps one the server accepts, wherever the
\* process died, unless a rotated pair was lost on its way (refresh stores the
\* new pair before rotate_refresh deletes the old one).
THEOREM SessionKept == Spec => []SessionSurvives
<1>1. Init => SessionSurvives
  BY DEF Init, SessionSurvives
<1>2. QED
  BY <1>1, SessionStep, TypeCorrect, RotationInvariant, LineageInvariant, PTL
     DEF Spec

=============================================================================
