-------------------------- MODULE AccountsProofs --------------------------
(***************************************************************************)
(* Proofs about Accounts for every value of its constants: every account   *)
(* keeps a door, a Google token is the owner's, a replaced password opens  *)
(* nothing, and what belongs to somebody stays theirs.  About Buckets, for *)
(* every history of calls: the limits hold.  And about the harness: its    *)
(* bots report what happened, and the player they steer behaves.           *)
(***************************************************************************)
EXTENDS Accounts, Buckets, Harness, WellFoundedInduction, SequenceTheorems, FiniteSetTheorems,
        TLAPS

-----------------------------------------------------------------------------
(* The inductive invariant, part by part.                                   *)

IsFull(u) == u \in Users /\ row[u] # NoRow /\ ~row[u].guest

(* A guest has no password and no Google identity; a full account has one   *)
(* of them.                                                                 *)
RowInv ==
    /\ \A u \in Users : row[u] # NoRow /\ row[u].guest => row[u].pass = NoPassword
    /\ \A s \in Subjects : link[s] # Nobody => IsFull(link[s])
    /\ DoorForEveryAccount

(* The password was the account's at that version, or the version is old.   *)
WasPassword(u, ver, pass) ==
    /\ IsFull(u) /\ ver <= row[u].ver
    /\ ver = row[u].ver => row[u].pass = pass

GoodSession(t) ==
    t # NoToken =>
        /\ t.by \in Subjects => link[t.by] = t.sub
        /\ t.by \in Passwords => WasPassword(t.sub, t.ver, t.by)

GoodElevated(t) == t # NoToken => t.by \in Subjects /\ link[t.by] = t.sub

(* What a round trip is for was established when it was sealed.             *)
GoodFlow(f) ==
    f # NoFlow =>
        /\ f.purpose # "sign-in" => f.u \in Users
        /\ f.purpose = "link-full" => IsFull(f.u)

(* The handlers, by what they carry and have found out.                     *)
Naming == {"register", "register.create", "claim", "claim.taken", "claim.write"}
Proving == Naming \cup {"login", "login.compare", "link", "link.method", "link.verify", "set.note"}
Subjected == {"reauth", "reauth.mint", "link-full", "full.existing", "full.create",
              "full.owner", "link-guest", "guest.existing", "guest.address",
              "guest.write", "sign-in", "google.email", "google.create", "google.winner"}
OfUser == {"link", "link.method", "link.verify", "reauth-start", "reauth", "reauth.mint"}
OfFull == {"link-full", "full.existing", "full.create", "full.owner",
           "set.verify", "set.write", "set.note", "login.compare"}

GoodFrame(h) ==
    /\ h.pc \in Naming => h.name \in Names /\ h.email \in Emails
    /\ h.pc \in Proving => h.pass \in Passwords
    /\ h.pc \in Subjected => h.s \in Subjects
    /\ h.pc \in OfUser => h.u \in Users
    /\ h.pc \in OfFull => IsFull(h.u)
    /\ h.pc \in {"login.compare", "set.note"} => WasPassword(h.u, h.ver, h.pass)
    /\ h.pc = "reauth.mint" => link[h.s] = h.u
    /\ h.pc = "exchange" => h.flow \in Sealed /\ h.u = h.flow.u /\ GoodFlow(h.flow)

IInv ==
    /\ TypeOK
    /\ RowInv
    /\ \A b \in Browsers :
          GoodSession(sess[b]) /\ GoodElevated(elev[b]) /\ GoodFlow(cookie[b])
    /\ \A r \in Requests : req[r] # Idle => GoodFrame(req[r])

-----------------------------------------------------------------------------
(* What a step does, from the point of view of the invariant.               *)

(* A full account stays one, under its name and address, and a version      *)
(* stands for one password; an identity stays where it is.                  *)
Monotone ==
    /\ \A u \in Users :
          IsFull(u) =>
            /\ IsFull(u)'
            /\ row'[u].name = row[u].name /\ row'[u].email = row[u].email
            /\ \/ row'[u].ver > row[u].ver
               \/ row'[u].ver = row[u].ver /\ row'[u].pass = row[u].pass
    /\ \A s \in Subjects : link[s] # Nobody => link'[s] = link[s]

RowStep ==
    /\ row' \in [Users -> Row \cup {NoRow}]
    /\ link' \in [Subjects -> Users \cup {Nobody}]
    /\ Monotone
    /\ RowInv'

FrameStep ==
    /\ req' \in [Requests -> Frame \cup {Idle}]
    /\ \A r \in Requests : req'[r] = req[r] \/ (req'[r] # Idle => GoodFrame(req[r])')

SessionStep ==
    /\ sess' \in [Browsers -> Token \cup {NoToken}]
    /\ \A b \in Browsers : sess'[b] = sess[b] \/ GoodSession(sess[b])'

ElevatedStep ==
    /\ elev' \in [Browsers -> Token \cup {NoToken}]
    /\ \A b \in Browsers : elev'[b] = elev[b] \/ GoodElevated(elev[b])'

FlowStep ==
    /\ cookie' \in [Browsers -> Sealed \cup {NoFlow}]
    /\ \A b \in Browsers : cookie'[b] = cookie[b] \/ GoodFlow(cookie[b])'

RequestStep == FrameStep /\ SessionStep /\ ElevatedStep /\ FlowStep

(* The bounds and the rest of the types.                                    *)
CountStep ==
    /\ minVer' \in [Users -> 0..MaxVersion]
    /\ away' \subseteq [b : Browsers, sid : 1..MaxFlows]
    /\ flows' \in 0..MaxFlows
    /\ served' \in 0..MaxRequests

-----------------------------------------------------------------------------
(* Stability: what was good stays good, whatever the step does to the rows. *)

LEMMA RowType ==
    ASSUME TypeOK, NEW u \in Users, row[u] # NoRow
    PROVE  /\ row[u] \in Row /\ row[u].ver \in 0..MaxVersion /\ row[u].ver \in Nat
           /\ row[u].pass \in Passwords \cup {NoPassword} /\ row[u].guest \in BOOLEAN
           /\ row[u].name \in Names /\ row[u].email \in Emails \cup Users
<1>1. row[u] \in Row
  BY DEF TypeOK
<1>2. MaxVersion \in Nat
  BY AccountsAssumption
<1>. QED
  BY <1>1, <1>2 DEF Row

LEMMA WasPasswordStays ==
    ASSUME IInv, RowStep, NEW u, NEW ver \in 0..MaxVersion, NEW pass, WasPassword(u, ver, pass)
    PROVE  WasPassword(u, ver, pass)'
<1>1. IsFull(u) /\ u \in Users /\ row[u] # NoRow /\ ver <= row[u].ver
      /\ (ver = row[u].ver => row[u].pass = pass)
  BY DEF WasPassword, IsFull
<1>2. row[u].ver \in 0..MaxVersion
  BY <1>1, RowType DEF IInv
<1>3. /\ IsFull(u)'
      /\ \/ row'[u].ver > row[u].ver
         \/ row'[u].ver = row[u].ver /\ row'[u].pass = row[u].pass
  BY <1>1 DEF RowStep, Monotone
<1>4. row'[u] \in Row
  BY <1>1, <1>3 DEF RowStep, IsFull
<1>5. row'[u].ver \in 0..MaxVersion
  BY <1>4 DEF Row
<1>6. MaxVersion \in Nat
  BY AccountsAssumption
<1>7. ver <= row'[u].ver /\ (ver = row'[u].ver => row'[u].pass = pass)
  BY <1>1, <1>2, <1>3, <1>5, <1>6
<1>. QED
  BY <1>3, <1>7 DEF WasPassword

LEMMA SessionStays ==
    ASSUME IInv, RowStep, NEW t \in Token \cup {NoToken}, GoodSession(t)
    PROVE  GoodSession(t)'
<1> SUFFICES ASSUME t # NoToken
             PROVE  /\ t.by \in Subjects => link'[t.by] = t.sub
                    /\ t.by \in Passwords => WasPassword(t.sub, t.ver, t.by)'
  BY DEF GoodSession
<1>1. t.sub \in Users /\ t.ver \in 0..MaxVersion
  BY DEF Token
<1>2. ASSUME t.by \in Subjects PROVE link'[t.by] = t.sub
  <2>1. link[t.by] = t.sub /\ t.sub # Nobody
    BY <1>1, <1>2, AccountsAssumption DEF GoodSession
  <2>. QED
    BY <1>2, <2>1 DEF RowStep, Monotone
<1>3. ASSUME t.by \in Passwords PROVE WasPassword(t.sub, t.ver, t.by)'
  <2>1. WasPassword(t.sub, t.ver, t.by)
    BY <1>3 DEF GoodSession
  <2>. QED
    BY <1>1, <2>1, WasPasswordStays
<1>. QED
  BY <1>2, <1>3

LEMMA ElevatedStays ==
    ASSUME IInv, RowStep, NEW t \in Token \cup {NoToken}, GoodElevated(t)
    PROVE  GoodElevated(t)'
<1>1. t # NoToken => t.sub \in Users /\ t.sub # Nobody
  BY AccountsAssumption DEF Token
<1>. QED
  BY <1>1 DEF GoodElevated, RowStep, Monotone

LEMMA FlowStays ==
    ASSUME RowStep, NEW f, GoodFlow(f)
    PROVE  GoodFlow(f)'
<1>1. IsFull(f.u) => IsFull(f.u)'
  BY DEF RowStep, Monotone, IsFull
<1>. QED
  BY <1>1 DEF GoodFlow

LEMMA FrameStays ==
    ASSUME IInv, RowStep, NEW h \in Frame, GoodFrame(h)
    PROVE  GoodFrame(h)'
<1>1. IsFull(h.u) => IsFull(h.u)'
  BY DEF RowStep, Monotone, IsFull
<1>2. WasPassword(h.u, h.ver, h.pass) => WasPassword(h.u, h.ver, h.pass)'
  BY WasPasswordStays DEF Frame
<1>3. h.pc = "reauth.mint" => link'[h.s] = h.u
  <2>1. ASSUME h.pc = "reauth.mint" PROVE link'[h.s] = h.u
    <3>1. h.s \in Subjects /\ h.u \in Users /\ link[h.s] = h.u
      BY <2>1 DEF GoodFrame, Subjected, OfUser
    <3>. QED
      BY <3>1, AccountsAssumption DEF RowStep, Monotone
  <2>. QED
    BY <2>1
<1>4. GoodFlow(h.flow) => GoodFlow(h.flow)'
  BY FlowStays
<1>5. /\ h.pc \in Naming => h.name \in Names /\ h.email \in Emails
      /\ h.pc \in Proving => h.pass \in Passwords
      /\ h.pc \in Subjected => h.s \in Subjects
      /\ h.pc \in OfUser => h.u \in Users
      /\ h.pc \in OfFull => IsFull(h.u)
      /\ h.pc \in {"login.compare", "set.note"} => WasPassword(h.u, h.ver, h.pass)
      /\ h.pc = "exchange" => h.flow \in Sealed /\ h.u = h.flow.u /\ GoodFlow(h.flow)
  BY DEF GoodFrame
<1>. QED
  BY <1>1, <1>2, <1>3, <1>4, <1>5 DEF GoodFrame

(* So a step is judged by what it changes.                                  *)
LEMMA StepsPreserve ==
    ASSUME IInv, RowStep, CountStep, RequestStep
    PROVE  IInv'
<1>1. TypeOK'
  BY DEF RowStep, CountStep, RequestStep, FrameStep, SessionStep, ElevatedStep, FlowStep, TypeOK
<1>2. RowInv'
  BY DEF RowStep
<1>3. ASSUME NEW b \in Browsers PROVE GoodSession(sess[b])'
  <2>1. CASE sess'[b] = sess[b]
    <3>1. PICK t \in Token \cup {NoToken} : t = sess[b]
      BY DEF IInv, TypeOK
    <3>2. GoodSession(t)'
      BY <3>1, SessionStays DEF IInv
    <3>3. t = sess'[b]
      BY <2>1, <3>1
    <3>. QED
      BY <3>2, <3>3
  <2>. QED
    BY <2>1 DEF RequestStep, SessionStep
<1>4. ASSUME NEW b \in Browsers PROVE GoodElevated(elev[b])'
  <2>1. CASE elev'[b] = elev[b]
    <3>1. PICK t \in Token \cup {NoToken} : t = elev[b]
      BY DEF IInv, TypeOK
    <3>2. GoodElevated(t)'
      BY <3>1, ElevatedStays DEF IInv
    <3>3. t = elev'[b]
      BY <2>1, <3>1
    <3>. QED
      BY <3>2, <3>3
  <2>. QED
    BY <2>1 DEF RequestStep, ElevatedStep
<1>5. ASSUME NEW b \in Browsers PROVE GoodFlow(cookie[b])'
  <2>1. CASE cookie'[b] = cookie[b]
    <3>1. PICK f : f = cookie[b]
      OBVIOUS
    <3>2. GoodFlow(f)'
      BY <3>1, FlowStays DEF IInv
    <3>3. f = cookie'[b]
      BY <2>1, <3>1
    <3>. QED
      BY <3>2, <3>3
  <2>. QED
    BY <2>1 DEF RequestStep, FlowStep
<1>6. ASSUME NEW q \in Requests, req'[q] # Idle PROVE GoodFrame(req[q])'
  <2>1. CASE req'[q] = req[q]
    <3>1. PICK h \in Frame \cup {Idle} : h = req[q]
      BY DEF IInv, TypeOK
    <3>2. h = req'[q] /\ h \in Frame
      BY <1>6, <2>1, <3>1 DEF RequestStep, FrameStep
    <3>3. GoodFrame(h)
      BY <1>6, <3>1, <3>2 DEF IInv
    <3>4. GoodFrame(h)'
      BY <3>2, <3>3, FrameStays
    <3>. QED
      BY <3>2, <3>4
  <2>. QED
    BY <1>6, <2>1 DEF RequestStep, FrameStep
<1>. QED
  BY <1>1, <1>2, <1>3, <1>4, <1>5, <1>6 DEF IInv

-----------------------------------------------------------------------------
(* The pieces actions are made of.                                          *)

LEMMA RowKept ==
    ASSUME IInv, UNCHANGED <<row, link>>
    PROVE  RowStep
<1>1. row' \in [Users -> Row \cup {NoRow}] /\ link' \in [Subjects -> Users \cup {Nobody}]
  BY DEF IInv, TypeOK
<1>2. Monotone
  BY DEF Monotone, IsFull
<1>3. RowInv'
  BY DEF IInv, RowInv, IsFull, DoorForEveryAccount, Live, Linked
<1>. QED
  BY <1>1, <1>2, <1>3 DEF RowStep

LEMMA CountKept ==
    ASSUME IInv, UNCHANGED <<minVer, away, flows, served>>
    PROVE  CountStep
<1>. QED
  BY DEF IInv, TypeOK, CountStep

LEMMA AtFrame ==
    ASSUME IInv, NEW r \in Requests, NEW pc, At(r, pc)
    PROVE  req[r] \in Frame /\ req[r] # Idle /\ req[r].pc = pc /\ GoodFrame(req[r])
<1>. QED
  BY DEF IInv, TypeOK, At

(* The frame of r is replaced.                                              *)
LEMMA FrameMove ==
    ASSUME IInv, NEW r \in Requests, NEW g \in Frame \cup {Idle},
           req' = [req EXCEPT ![r] = g], g # Idle => GoodFrame(g)'
    PROVE  FrameStep
<1>1. req \in [Requests -> Frame \cup {Idle}]
  BY DEF IInv, TypeOK
<1>2. req'[r] = g
  BY <1>1
<1>3. req'[r] # Idle => GoodFrame(req[r])'
  BY <1>2
<1>4. \A q \in Requests : q # r => req'[q] = req[q]
  BY <1>1
<1>. QED
  BY <1>1, <1>3, <1>4 DEF FrameStep

LEMMA FrameKept ==
    ASSUME IInv, UNCHANGED req
    PROVE  FrameStep
<1>. QED
  BY DEF IInv, TypeOK, FrameStep

LEMMA SessionKept ==
    ASSUME IInv, UNCHANGED sess
    PROVE  SessionStep
<1>. QED
  BY DEF IInv, TypeOK, SessionStep

LEMMA ElevatedKept ==
    ASSUME IInv, UNCHANGED elev
    PROVE  ElevatedStep
<1>. QED
  BY DEF IInv, TypeOK, ElevatedStep

LEMMA FlowKept ==
    ASSUME IInv, UNCHANGED cookie
    PROVE  FlowStep
<1>. QED
  BY DEF IInv, TypeOK, FlowStep

LEMMA DoneSteps ==
    ASSUME IInv, NEW r \in Requests, Done(r)
    PROVE  FrameStep /\ FlowStep
<1>1. FrameStep
  <2>1. req' = [req EXCEPT ![r] = Idle]
    BY DEF Done
  <2>. QED
    BY <2>1, FrameMove
<1>2. ASSUME NEW b \in Browsers PROVE cookie'[b] = cookie[b] \/ cookie'[b] = NoFlow
  BY DEF Done, IInv, TypeOK
<1>3. cookie' \in [Browsers -> Sealed \cup {NoFlow}]
  BY DEF Done, IInv, TypeOK
<1>4. ASSUME NEW b \in Browsers, cookie'[b] = NoFlow PROVE GoodFlow(cookie[b])'
  BY <1>4 DEF GoodFlow
<1>. QED
  BY <1>1, <1>2, <1>3, <1>4 DEF FlowStep

LEMMA RefuseSteps ==
    ASSUME IInv, NEW r \in Requests, Refuse(r)
    PROVE  RequestStep
<1>. QED
  BY DoneSteps, SessionKept, ElevatedKept DEF Refuse, RequestStep

LEMMA TokenType ==
    ASSUME NEW u \in Users, NEW ver \in 0..MaxVersion, NEW by \in Grounds
    PROVE  [sub |-> u, ver |-> ver, by |-> by] \in Token
<1>. QED
  BY DEF Token

LEMMA IssueSteps ==
    ASSUME IInv, NEW r \in Requests, req[r] \in Frame,
           NEW u \in Users, NEW ver \in 0..MaxVersion, NEW by \in Grounds,
           issueToken(r, u, ver, by),
           GoodSession([sub |-> u, ver |-> ver, by |-> by])'
    PROVE  RequestStep
<1>. DEFINE t == [sub |-> u, ver |-> ver, by |-> by]
<1>1. t \in Token
  BY TokenType
<1>2. req[r].b \in Browsers
  BY DEF Frame
<1>3. PICK b \in Browsers : b = req[r].b
  BY <1>2
<1>4. sess' = [sess EXCEPT ![b] = t] /\ GoodSession(t)'
  BY <1>3 DEF issueToken
<1>. HIDE DEF t
<1>5. SessionStep
  <2>1. sess \in [Browsers -> Token \cup {NoToken}]
    BY DEF IInv, TypeOK
  <2>2. sess' \in [Browsers -> Token \cup {NoToken}]
    BY <1>1, <1>4, <2>1
  <2>3. ASSUME NEW d \in Browsers PROVE sess'[d] = sess[d] \/ GoodSession(sess[d])'
    <3>1. CASE d = b
      <4>1. sess'[d] = t
        BY <1>4, <2>1, <3>1
      <4>. QED
        BY <1>4, <4>1
    <3>2. CASE d # b
      BY <1>4, <2>1, <3>2
    <3>. QED
      BY <3>1, <3>2
  <2>. QED
    BY <2>2, <2>3 DEF SessionStep
<1>. QED
  BY <1>5, DoneSteps, ElevatedKept DEF issueToken, RequestStep

LEMMA GotoSteps ==
    ASSUME IInv, NEW r \in Requests, req[r] \in Frame, NEW pc \in Stages,
           UNCHANGED <<row, link>>, Goto(r, pc), Stays,
           \A h \in Frame : h = req[r] => GoodFrame([h EXCEPT !.pc = pc])
    PROVE  RequestStep
<1>1. PICK h \in Frame : h = req[r]
  OBVIOUS
<1>. DEFINE g == [h EXCEPT !.pc = pc]
<1>2. g \in Frame /\ GoodFrame(g)
  BY <1>1 DEF Frame
<1>3. req' = [req EXCEPT ![r] = g]
  BY <1>1 DEF Goto, IInv, TypeOK
<1>. HIDE DEF g
<1>4. GoodFrame(g)'
  BY <1>2, RowKept, FrameStays
<1>5. FrameStep
  BY <1>2, <1>3, <1>4, FrameMove
<1>. QED
  BY <1>5, SessionKept, ElevatedKept, FlowKept DEF Stays, RequestStep

LEMMA RetrySteps ==
    ASSUME IInv, NEW r \in Requests, req[r] \in Frame,
           UNCHANGED <<row, link>>, Retry(r), GoodFrame(req[r])
    PROVE  RequestStep
<1>1. CASE req[r].tries + 1 < USERNAME_ATTEMPTS
  <2>1. PICK h \in Frame : h = req[r]
    OBVIOUS
  <2>2. PICK n \in Nat : n = h.tries + 1
    BY DEF Frame
  <2>. DEFINE g == [h EXCEPT !.tries = n]
  <2>3. n \in 0..USERNAME_ATTEMPTS
    BY <1>1, <2>1, <2>2, AccountsAssumption
  <2>4. g \in Frame
    BY <2>3 DEF Frame
  <2>5. GoodFrame(g)
    <3>1. GoodFrame(h)
      BY <2>1
    <3>2. /\ g.pc = h.pc /\ g.name = h.name /\ g.email = h.email /\ g.pass = h.pass
          /\ g.s = h.s /\ g.u = h.u /\ g.ver = h.ver /\ g.flow = h.flow
      BY DEF Frame
    <3>. HIDE DEF g
    <3>. QED
      BY <3>1, <3>2 DEF GoodFrame
  <2>6. req' = [req EXCEPT ![r] = g] /\ UNCHANGED <<sess, elev, cookie>>
    BY <1>1, <2>1, <2>2 DEF Retry, IInv, TypeOK
  <2>. HIDE DEF g
  <2>7. GoodFrame(g)'
    BY <2>4, <2>5, RowKept, FrameStays
  <2>8. FrameStep
    BY <2>4, <2>6, <2>7, FrameMove
  <2>. QED
    BY <2>6, <2>8, SessionKept, ElevatedKept, FlowKept DEF RequestStep
<1>2. CASE ~(req[r].tries + 1 < USERNAME_ATTEMPTS)
  BY <1>2, RefuseSteps DEF Retry
<1>. QED
  BY <1>1, <1>2

(* A round trip starts for browser b.                                       *)
LEMMA StartSteps ==
    ASSUME IInv, NEW b \in Browsers, NEW purpose \in Purposes,
           NEW u \in Users \cup {Nobody}, start(b, purpose, u),
           UNCHANGED <<row, link, minVer, served>>,
           purpose # "sign-in" => u \in Users,
           purpose = "link-full" => IsFull(u)
    PROVE  FlowStep /\ CountStep
<1>0. flows \in 0..MaxFlows /\ MaxFlows \in Nat
  BY AccountsAssumption DEF IInv, TypeOK
<1>1. PICK n \in 1..MaxFlows : n = flows + 1
  BY <1>0 DEF start
<1>. DEFINE f == [sid |-> n, purpose |-> purpose, u |-> u]
<1>2. f \in Sealed
  BY DEF Sealed
<1>3. GoodFlow(f)
  BY DEF GoodFlow
<1>4. cookie' = [cookie EXCEPT ![b] = f]
  BY <1>1 DEF start
<1>5. CountStep
  <2>1. flows' \in 0..MaxFlows
    BY <1>0, <1>1 DEF start
  <2>2. away' \subseteq [b : Browsers, sid : 1..MaxFlows]
    BY <1>1 DEF start, IInv, TypeOK
  <2>. QED
    BY <2>1, <2>2 DEF CountStep, IInv, TypeOK
<1>. HIDE DEF f
<1>6. GoodFlow(f)'
  BY <1>3, RowKept, FlowStays
<1>7. cookie \in [Browsers -> Sealed \cup {NoFlow}]
  BY DEF IInv, TypeOK
<1>8. ASSUME NEW d \in Browsers PROVE cookie'[d] = cookie[d] \/ GoodFlow(cookie[d])'
  <2>1. CASE d = b
    <3>1. cookie'[d] = f
      BY <1>4, <1>7, <2>1
    <3>. QED
      BY <1>6, <3>1
  <2>2. CASE d # b
    BY <1>4, <1>7, <2>2
  <2>. QED
    BY <2>1, <2>2
<1>9. FlowStep
  BY <1>2, <1>4, <1>7, <1>8 DEF FlowStep
<1>. QED
  BY <1>5, <1>9

-----------------------------------------------------------------------------
(* The actions.  A request begins.                                          *)

Step == RowStep /\ CountStep /\ RequestStep

LEMMA ReadsSteps ==
    ASSUME IInv, Reads
    PROVE  RowStep /\ CountStep
<1>. QED
  BY RowKept, CountKept DEF Reads, dbVars

Starts == {"register", "claim", "login", "guest", "link", "set", "reauth-start", "exchange"}

LEMMA BeginSteps ==
    ASSUME IInv, NEW r \in Requests, NEW b \in Browsers, NEW pc \in Starts,
           NEW u \in Users \cup {Nobody}, NEW name \in Names \cup {NoName},
           NEW email \in Emails \cup {NoEmail}, NEW pass \in Passwords \cup {NoPassword},
           NEW flow \in Sealed \cup {NoFlow}, NEW elevated \in BOOLEAN,
           Begin(r, b, pc, u, name, email, pass, flow, elevated),
           pc \in {"register", "claim"} => name \in Names /\ email \in Emails,
           pc \in {"register", "claim", "login", "link"} => pass \in Passwords,
           pc \in {"link", "reauth-start"} => u \in Users,
           pc = "exchange" => flow \in Sealed /\ u = flow.u /\ GoodFlow(flow)',
           UNCHANGED <<row, link>>
    PROVE  FrameStep /\ served' \in 0..MaxRequests
<1>1. MaxVersion \in Nat /\ MaxRequests \in Nat /\ USERNAME_ATTEMPTS \in Nat
  BY AccountsAssumption
<1>s. pc \in Stages
  BY DEF Starts, Stages
<1>2. served' \in 0..MaxRequests
  BY <1>1 DEF Begin, IInv, TypeOK
<1>. DEFINE g == [pc |-> pc, b |-> b, u |-> u, name |-> name, email |-> email,
                  pass |-> pass, s |-> NoSubject, flow |-> flow, ver |-> 0,
                  tries |-> 0, elevated |-> elevated]
<1>3. g \in Frame
  BY <1>1, <1>s DEF Frame
<1>4. /\ g.pc = pc /\ g.name = name /\ g.email = email /\ g.pass = pass /\ g.u = u
      /\ g.flow = flow
  OBVIOUS
<1>5. req' = [req EXCEPT ![r] = g]
  BY DEF Begin
<1>. HIDE DEF g
<1>6. GoodFrame(g)'
  <2>1. pc # "login.compare" /\ pc # "set.note" /\ pc # "reauth.mint"
    BY DEF Starts
  <2>2. pc \notin Subjected
    BY DEF Starts, Subjected
  <2>3. pc \notin OfFull
    BY DEF Starts, OfFull
  <2>4. pc \in Naming => pc \in {"register", "claim"}
    BY DEF Starts, Naming
  <2>5. pc \in Proving => pc \in {"register", "claim", "login", "link"}
    BY DEF Starts, Proving, Naming
  <2>6. pc \in OfUser => pc \in {"link", "reauth-start"}
    BY DEF Starts, OfUser
  <2>. QED
    BY <1>4, <2>1, <2>2, <2>3, <2>4, <2>5, <2>6 DEF GoodFrame
<1>7. FrameStep
  BY <1>3, <1>5, <1>6, FrameMove
<1>. QED
  BY <1>2, <1>7

LEMMA BegunSteps ==
    ASSUME IInv, NEW r \in Requests, FrameStep, served' \in 0..MaxRequests,
           UNCHANGED <<dbVars, sess, elev, flowVars>>
    PROVE  Step
<1>1. RowStep
  BY RowKept DEF dbVars
<1>2. CountStep
  BY DEF dbVars, flowVars, CountStep, IInv, TypeOK
<1>3. SessionStep /\ ElevatedStep /\ FlowStep
  BY SessionKept, ElevatedKept, FlowKept DEF flowVars
<1>. QED
  BY <1>1, <1>2, <1>3 DEF Step, RequestStep

LEMMA BeginAsSteps ==
    ASSUME IInv, NEW r \in Requests, NEW b \in Browsers,
           NEW pc \in {"link", "set", "reauth-start"},
           NEW t \in Token \cup {NoToken}, NEW pass \in Passwords \cup {NoPassword},
           NEW elevated \in BOOLEAN, BeginAs(r, b, pc, t, pass, elevated),
           pc = "link" => pass \in Passwords
    PROVE  Step
<1>1. t.sub \in Users
  BY DEF BeginAs, Guard, Token
<1>2. PICK u \in Users : u = t.sub
  BY <1>1
<1>3. /\ pc \in Starts /\ pc \notin {"register", "claim"} /\ pc # "exchange"
      /\ pc \in {"register", "claim", "login", "link"} => pass \in Passwords
      /\ pc \in {"register", "claim"} => NoName \in Names /\ NoEmail \in Emails
      /\ pc \in {"link", "reauth-start"} => u \in Users
      /\ pc = "exchange" => NoFlow \in Sealed /\ u = NoFlow.u /\ GoodFlow(NoFlow)'
      /\ u \in Users \cup {Nobody} /\ NoName \in Names \cup {NoName}
      /\ NoEmail \in Emails \cup {NoEmail} /\ NoFlow \in Sealed \cup {NoFlow}
  BY DEF Starts
<1>4. /\ Begin(r, b, pc, u, NoName, NoEmail, pass, NoFlow, elevated)
      /\ UNCHANGED <<dbVars, sess, elev, flowVars>>
  BY <1>2 DEF BeginAs
<1>5. UNCHANGED <<row, link>>
  BY <1>4 DEF dbVars
<1>6. FrameStep /\ served' \in 0..MaxRequests
  <2>1. ASSUME Begin(r, b, pc, u, NoName, NoEmail, pass, NoFlow, TRUE)
        PROVE  FrameStep /\ served' \in 0..MaxRequests
    BY <1>3, <1>5, <2>1, BeginSteps
  <2>2. ASSUME Begin(r, b, pc, u, NoName, NoEmail, pass, NoFlow, FALSE)
        PROVE  FrameStep /\ served' \in 0..MaxRequests
    BY <1>3, <1>5, <2>2, BeginSteps
  <2>3. elevated = TRUE \/ elevated = FALSE
    OBVIOUS
  <2>. QED
    BY <1>4, <2>1, <2>2, <2>3, Zenon
<1>. QED
  BY <1>4, <1>6, BegunSteps

LEMMA AskSteps ==
    ASSUME IInv, NEW r \in Requests, NEW b \in Browsers, Ask(r, b)
    PROVE  Step
<1>0. sess[b] \in Token \cup {NoToken} /\ elev[b] \in Token \cup {NoToken}
  BY DEF IInv, TypeOK
<1>1. ASSUME NEW n \in Names, NEW e \in Emails, NEW w \in Passwords, register(r, b, n, e, w)
      PROVE  Step
  <2>1. /\ Begin(r, b, "register", Nobody, n, e, w, NoFlow, FALSE)
        /\ UNCHANGED <<dbVars, sess, elev, flowVars>> /\ UNCHANGED <<row, link>>
    BY <1>1 DEF register, dbVars
  <2>2. "register" \in Starts
    BY DEF Starts
  <2>3. FrameStep /\ served' \in 0..MaxRequests
    BY <2>1, <2>2, BeginSteps
  <2>. QED
    BY <2>1, <2>3, BegunSteps
<1>2. ASSUME NEW n \in Names, NEW e \in Emails, NEW w \in Passwords, claim(r, b, n, e, w)
      PROVE  Step
  <2>0. PICK u \in Users : u = sess[b].sub
    BY <1>0, <1>2 DEF claim, Guard, Token
  <2>1. /\ Begin(r, b, "claim", u, n, e, w, NoFlow, FALSE)
        /\ UNCHANGED <<dbVars, sess, elev, flowVars>> /\ UNCHANGED <<row, link>>
    BY <1>2, <2>0 DEF claim, dbVars
  <2>2. "claim" \in Starts
    BY DEF Starts
  <2>3. FrameStep /\ served' \in 0..MaxRequests
    BY <2>1, <2>2, BeginSteps
  <2>. QED
    BY <2>1, <2>3, BegunSteps
<1>3. ASSUME NEW n \in Names, NEW w \in Passwords, login(r, b, n, w)
      PROVE  Step
  <2>1. /\ Begin(r, b, "login", Nobody, n, NoEmail, w, NoFlow, FALSE)
        /\ UNCHANGED <<dbVars, sess, elev, flowVars>> /\ UNCHANGED <<row, link>>
    BY <1>3 DEF login, dbVars
  <2>2. "login" \in Starts
    BY DEF Starts
  <2>3. FrameStep /\ served' \in 0..MaxRequests
    BY <2>1, <2>2, BeginSteps
  <2>. QED
    BY <2>1, <2>3, BegunSteps
<1>4. ASSUME guest(r, b) PROVE Step
  <2>1. /\ Begin(r, b, "guest", Nobody, NoName, NoEmail, NoPassword, NoFlow, FALSE)
        /\ UNCHANGED <<dbVars, sess, elev, flowVars>> /\ UNCHANGED <<row, link>>
    BY <1>4 DEF guest, dbVars
  <2>2. "guest" \in Starts
    BY DEF Starts
  <2>3. FrameStep /\ served' \in 0..MaxRequests
    BY <2>1, <2>2, BeginSteps
  <2>. QED
    BY <2>1, <2>3, BegunSteps
<1>5. ASSUME NEW w \in Passwords, linkStart(r, b, w) PROVE Step
  <2>1. PICK t \in Token \cup {NoToken} : t = sess[b]
    BY <1>0
  <2>2. BeginAs(r, b, "link", t, w, FALSE)
    BY <1>5, <2>1 DEF linkStart
  <2>. QED
    BY <2>2, BeginAsSteps
<1>6. ASSUME NEW w \in Passwords, setPassword(r, b, w) PROVE Step
  <2>1. PICK t \in Token \cup {NoToken}, x \in BOOLEAN : BeginAs(r, b, "set", t, w, x)
    BY <1>0, <1>6 DEF setPassword
  <2>. QED
    BY <2>1, BeginAsSteps
<1>7. ASSUME reauthStart(r, b) PROVE Step
  <2>1. PICK t \in Token \cup {NoToken} : t = sess[b]
    BY <1>0
  <2>2. BeginAs(r, b, "reauth-start", t, NoPassword, FALSE)
    BY <1>7, <2>1 DEF reauthStart
  <2>. QED
    BY <2>2, BeginAsSteps
<1>8. ASSUME NEW sid \in 1..MaxFlows, callback(r, b, sid) PROVE Step
  <2>1. UNCHANGED <<row, link, minVer, sess, elev, flows>> /\ away' \subseteq away
    BY <1>8 DEF callback, dbVars
  <2>2. RowStep /\ SessionStep /\ ElevatedStep
    BY <2>1, RowKept, SessionKept, ElevatedKept
  <2>3. CASE cookie[b] # NoFlow /\ cookie[b].sid = sid
    <3>1. PICK f \in Sealed : f = cookie[b]
      BY <2>3 DEF IInv, TypeOK
    <3>2. f.u \in Users \cup {Nobody} /\ GoodFlow(f)
      BY <3>1 DEF Sealed, IInv
    <3>3. GoodFlow(f)'
      BY <2>2, <3>2, FlowStays
    <3>4. PICK u \in Users \cup {Nobody} : u = f.u
      BY <3>2
    <3>5. /\ Begin(r, b, "exchange", u, NoName, NoEmail, NoPassword, f, FALSE)
          /\ UNCHANGED cookie
      BY <1>8, <2>3, <3>1, <3>4 DEF callback
    <3>6. "exchange" \in Starts
      BY DEF Starts
    <3>7. UNCHANGED <<row, link>>
      BY <2>1
    <3>8. FrameStep /\ served' \in 0..MaxRequests
      BY <3>3, <3>4, <3>5, <3>6, <3>7, BeginSteps
    <3>9. CountStep
      BY <2>1, <3>8 DEF CountStep, IInv, TypeOK
    <3>. QED
      BY <2>2, <3>5, <3>8, <3>9, FlowKept DEF Step, RequestStep
  <2>4. CASE ~(cookie[b] # NoFlow /\ cookie[b].sid = sid)
    <3>1. cookie' = [cookie EXCEPT ![b] = NoFlow] /\ UNCHANGED <<req, served>>
      BY <1>8, <2>4 DEF callback
    <3>2. FrameStep
      <4>1. PICK h \in Frame \cup {Idle} : h = req[r]
        BY DEF IInv, TypeOK
      <4>2. h # Idle => GoodFrame(h)'
        <5>1. h # Idle => h \in Frame /\ GoodFrame(h)
          BY <4>1 DEF IInv
        <5>. QED
          BY <2>2, <5>1, FrameStays
      <4>3. req' = [req EXCEPT ![r] = h]
        BY <3>1, <4>1 DEF IInv, TypeOK
      <4>. QED
        BY <4>2, <4>3, FrameMove
    <3>3. FlowStep
      <4>1. cookie \in [Browsers -> Sealed \cup {NoFlow}]
        BY DEF IInv, TypeOK
      <4>2. ASSUME NEW d \in Browsers, cookie'[d] = NoFlow PROVE GoodFlow(cookie[d])'
        BY <4>2 DEF GoodFlow
      <4>. QED
        BY <3>1, <4>1, <4>2 DEF FlowStep
    <3>4. CountStep
      BY <2>1, <3>1 DEF CountStep, IInv, TypeOK
    <3>. QED
      BY <2>2, <3>2, <3>3, <3>4 DEF Step, RequestStep
  <2>. QED
    BY <2>3, <2>4
<1>. QED
  BY <1>1, <1>2, <1>3, <1>4, <1>5, <1>6, <1>7, <1>8 DEF Ask

-----------------------------------------------------------------------------
(* Reads: of what a handler found out, what it goes on with is true.        *)

(* A handler goes on, is over, or answers with a token; nothing else has    *)
(* changed.                                                                 *)
LEMMA GoesOn ==
    ASSUME IInv, NEW r \in Requests, NEW pc, At(r, pc), NEW to \in Stages,
           Goto(r, to), Stays, Reads,
           \A h \in Frame : h = req[r] /\ GoodFrame(h) /\ h.pc = pc =>
                GoodFrame([h EXCEPT !.pc = to])
    PROVE  Step
<1>1. req[r] \in Frame /\ req[r].pc = pc /\ GoodFrame(req[r])
  BY AtFrame
<1>2. UNCHANGED <<row, link>>
  BY DEF Reads, dbVars
<1>3. \A h \in Frame : h = req[r] => GoodFrame([h EXCEPT !.pc = to])
  BY <1>1
<1>4. RequestStep
  BY <1>1, <1>2, <1>3, GotoSteps
<1>. QED
  BY <1>4, ReadsSteps DEF Step

LEMMA Refused ==
    ASSUME IInv, NEW r \in Requests, Refuse(r), Reads
    PROVE  Step
<1>. QED
  BY RefuseSteps, ReadsSteps DEF Step

(* A frame that changes its stage only keeps what it carries.               *)
LEMMA StageFields ==
    ASSUME NEW h \in Frame, NEW to \in Stages
    PROVE  LET g == [h EXCEPT !.pc = to] IN
           /\ g.pc = to /\ g.name = h.name /\ g.email = h.email /\ g.pass = h.pass
           /\ g.u = h.u /\ g.s = h.s /\ g.ver = h.ver /\ g.flow = h.flow
<1>. QED
  BY DEF Frame

LEMMA Restage ==
    ASSUME NEW h \in Frame, GoodFrame(h), NEW to \in Stages,
           to \in Naming => h.pc \in Naming,
           to \in Proving => h.pc \in Proving,
           to \in Subjected => h.pc \in Subjected,
           to \in OfUser => h.pc \in OfUser \/ h.u \in Users,
           to \in OfFull => h.pc \in OfFull \/ IsFull(h.u),
           to \notin {"login.compare", "set.note", "exchange"},
           to = "reauth.mint" => link[h.s] = h.u
    PROVE  GoodFrame([h EXCEPT !.pc = to])
<1>. DEFINE g == [h EXCEPT !.pc = to]
<1>1. /\ g.pc = to /\ g.name = h.name /\ g.email = h.email /\ g.pass = h.pass
      /\ g.u = h.u /\ g.s = h.s /\ g.ver = h.ver /\ g.flow = h.flow
  BY StageFields
<1>. HIDE DEF g
<1>2. GoodFrame(g)
  BY <1>1 DEF GoodFrame
<1>. QED
  BY <1>2 DEF g

LEMMA GoesOnTo ==
    ASSUME IInv, NEW r \in Requests, NEW pc, At(r, pc), NEW to \in Stages,
           Goto(r, to), Stays, Reads,
           to \in Naming => pc \in Naming,
           to \in Proving => pc \in Proving,
           to \in Subjected => pc \in Subjected,
           to \in OfUser => pc \in OfUser \/ req[r].u \in Users,
           to \in OfFull => pc \in OfFull \/ IsFull(req[r].u),
           to \notin {"login.compare", "set.note", "exchange"},
           to = "reauth.mint" => link[req[r].s] = req[r].u
    PROVE  Step
<1>1. ASSUME NEW h \in Frame, h = req[r], GoodFrame(h), h.pc = pc
      PROVE  GoodFrame([h EXCEPT !.pc = to])
  BY <1>1, Restage
<1>. QED
  BY <1>1, GoesOn

LEMMA RegisterLookupStep ==
    ASSUME IInv, NEW r \in Requests, RegisterLookup(r)
    PROVE  Step
<1>1. /\ "register.create" \in Stages /\ "register.create" \in Naming
      /\ "register" \in Naming /\ "register" \in Proving
      /\ "register.create" \notin Subjected \cup OfUser \cup OfFull
  BY DEF Stages, Naming, Proving, Subjected, OfUser, OfFull
<1>. QED
  BY <1>1, GoesOnTo, Refused DEF RegisterLookup

LEMMA ClaimReadStep ==
    ASSUME IInv, NEW r \in Requests, ClaimRead(r) \/ ClaimTaken(r)
    PROVE  Step
<1>1. /\ {"claim.taken", "claim.write"} \subseteq Stages
      /\ {"claim", "claim.taken"} \subseteq Naming /\ {"claim", "claim.taken"} \subseteq Proving
      /\ {"claim.taken", "claim.write"} \cap (Subjected \cup OfUser \cup OfFull) = {}
  BY DEF Stages, Naming, Proving, Subjected, OfUser, OfFull
<1>2. CASE ClaimRead(r)
  BY <1>1, <1>2, GoesOnTo, Refused DEF ClaimRead
<1>3. CASE ClaimTaken(r)
  BY <1>1, <1>3, GoesOnTo, Refused DEF ClaimTaken
<1>. QED
  BY <1>2, <1>3

(* Whoever has a password, or a Google identity, is a full account.         *)
LEMMA MethodIsFull ==
    ASSUME IInv, NEW u \in Users \cup {Nobody}, Method(u) \in {"password", "google"}
    PROVE  IsFull(u)
<1>1. Exists(u) /\ u \in Users /\ row[u] # NoRow
  <2>1. Exists(u)
    BY DEF Method
  <2>. QED
    BY <2>1 DEF Exists
<1>2. CASE row[u].pass # NoPassword
  BY <1>1, <1>2, RowType DEF IInv, RowInv, IsFull
<1>3. CASE Linked(u)
  BY <1>1, <1>3 DEF Linked, Exists, IInv, RowInv
<1>. QED
  BY <1>1, <1>2, <1>3 DEF Method

LEMMA PasswordIsFull ==
    ASSUME IInv, NEW r \in Requests, req[r] \in Frame, PasswordMatches(r),
           req[r].pass \in Passwords
    PROVE  IsFull(req[r].u)
<1>1. /\ req[r].u \in Users /\ row[req[r].u] # NoRow
      /\ row[req[r].u].pass = req[r].pass
  BY DEF PasswordMatches, Exists, Frame
<1>2. row[req[r].u].pass # NoPassword
  BY <1>1, AccountsAssumption
<1>. QED
  BY <1>1, <1>2, RowType DEF IInv, RowInv, IsFull

LEMMA SetReadStep ==
    ASSUME IInv, NEW r \in Requests, SetMethod(r) \/ SetVerify(r)
    PROVE  Step
<1>1. /\ {"set.verify", "set.write"} \subseteq Stages /\ "set.verify" \in OfFull
      /\ {"set.verify", "set.write"} \cap (Naming \cup Proving \cup Subjected \cup OfUser) = {}
  BY DEF Stages, Naming, Proving, Subjected, OfUser, OfFull
<1>2. CASE SetMethod(r)
  <2>1. req[r].u \in Users \cup {Nobody}
    BY <1>2, AtFrame DEF SetMethod, Frame
  <2>2. Method(req[r].u) \in {"password", "google"} => IsFull(req[r].u)
    BY <2>1, MethodIsFull
  <2>3. CASE Refuse(r)
    BY <1>2, <2>3, Refused DEF SetMethod
  <2>4. CASE Method(req[r].u) \in {"password", "google"} /\ Goto(r, "set.verify") /\ Stays
    BY <1>1, <1>2, <2>2, <2>4, GoesOnTo DEF SetMethod
  <2>5. CASE Method(req[r].u) \in {"password", "google"} /\ Goto(r, "set.write") /\ Stays
    BY <1>1, <1>2, <2>2, <2>5, GoesOnTo DEF SetMethod
  <2>. QED
    BY <1>2, <2>3, <2>4, <2>5 DEF SetMethod
<1>3. CASE SetVerify(r)
  BY <1>1, <1>3, GoesOnTo, Refused DEF SetVerify
<1>. QED
  BY <1>2, <1>3

LEMMA LoginReadStep ==
    ASSUME IInv, NEW r \in Requests, LoginRead(r)
    PROVE  Step
<1>0. req[r] \in Frame /\ req[r].pc = "login" /\ GoodFrame(req[r]) /\ Reads /\ Stays
  BY AtFrame DEF LoginRead
<1>1. PICK h \in Frame : h = req[r]
  BY <1>0
<1>2. req \in [Requests -> Frame \cup {Idle}]
  BY DEF IInv, TypeOK
<1>3. CASE req' = [req EXCEPT ![r] = Idle]
  <2>1. FrameStep
    BY <1>3, FrameMove
  <2>. QED
    BY <1>0, <2>1, ReadsSteps, SessionKept, ElevatedKept, FlowKept DEF Stays, Step, RequestStep
<1>4. ASSUME NEW u \in Live, row[u].name = req[r].name, row[u].pass = req[r].pass,
             req' = [req EXCEPT ![r].pc = "login.compare", ![r].u = u, ![r].ver = row[u].ver]
      PROVE  Step
  <2>1. u \in Users /\ row[u] # NoRow /\ row[u].ver \in 0..MaxVersion
    BY <1>4, RowType DEF Live, IInv
  <2>2. PICK v \in 0..MaxVersion : v = row[u].ver
    BY <2>1
  <2>3. h.pass \in Passwords /\ row[u].pass = h.pass
    BY <1>0, <1>1, <1>4 DEF GoodFrame, Proving
  <2>4. IsFull(u)
    BY <2>1, <2>3, AccountsAssumption DEF IsFull, IInv, RowInv
  <2>5. "login.compare" \in Stages
    BY DEF Stages
  <2>. DEFINE g == [h EXCEPT !.pc = "login.compare", !.u = u, !.ver = v]
  <2>6. g \in Frame
    BY <2>1, <2>5 DEF Frame
  <2>7. /\ g.pc = "login.compare" /\ g.u = u /\ g.ver = v /\ g.pass = h.pass
    BY DEF Frame
  <2>8. req' = [req EXCEPT ![r] = g]
    BY <1>1, <1>2, <1>4, <2>2
  <2>. HIDE DEF g
  <2>9. WasPassword(u, v, h.pass)
    BY <2>1, <2>2, <2>3, <2>4, AccountsAssumption DEF WasPassword
  <2>10. /\ "login.compare" \notin Naming \cup Subjected \cup OfUser
         /\ "login.compare" \notin {"reauth.mint", "exchange"}
    BY DEF Naming, Subjected, OfUser
  <2>11. GoodFrame(g)
    BY <2>3, <2>4, <2>7, <2>9, <2>10 DEF GoodFrame
  <2>12. GoodFrame(g)'
    BY <1>0, <2>6, <2>11, ReadsSteps, FrameStays
  <2>13. FrameStep
    BY <2>6, <2>8, <2>12, FrameMove
  <2>. QED
    BY <1>0, <2>13, ReadsSteps, SessionKept, ElevatedKept, FlowKept DEF Stays, Step, RequestStep
<1>. QED
  BY <1>3, <1>4 DEF LoginRead

(* A read that ends in a token.                                             *)
LEMMA AnswersGiven ==
    ASSUME IInv, NEW r \in Requests, req[r] \in Frame, Reads,
           NEW u \in Users, NEW ver \in 0..MaxVersion, NEW by \in Grounds,
           issueToken(r, u, ver, by),
           GoodSession([sub |-> u, ver |-> ver, by |-> by])
    PROVE  Step
<1>1. RowStep /\ CountStep
  BY ReadsSteps
<1>. DEFINE t == [sub |-> u, ver |-> ver, by |-> by]
<1>2. t \in Token /\ GoodSession(t)
  BY TokenType
<1>. HIDE DEF t
<1>3. GoodSession(t)'
  BY <1>1, <1>2, SessionStays
<1>4. RequestStep
  BY <1>3, IssueSteps DEF t
<1>. QED
  BY <1>1, <1>4 DEF Step

(* A token granted on a password, and one granted to an identity's owner.   *)
LEMMA ByPassword ==
    ASSUME IInv, NEW u \in Users, NEW ver \in 0..MaxVersion, NEW pass \in Passwords,
           WasPassword(u, ver, pass)
    PROVE  GoodSession([sub |-> u, ver |-> ver, by |-> pass])
<1>. QED
  BY AccountsAssumption DEF GoodSession

LEMMA ByOwner ==
    ASSUME IInv, NEW u \in Users, NEW ver \in 0..MaxVersion, NEW s \in Subjects,
           link[s] = u
    PROVE  GoodSession([sub |-> u, ver |-> ver, by |-> s])
<1>. QED
  BY AccountsAssumption DEF GoodSession

LEMMA LoginAnswerStep ==
    ASSUME IInv, NEW r \in Requests, LoginAnswer(r)
    PROVE  Step
<1>0. req[r] \in Frame /\ req[r].pc = "login.compare" /\ GoodFrame(req[r]) /\ Reads
  BY AtFrame DEF LoginAnswer
<1>1. PICK h \in Frame : h = req[r]
  BY <1>0
<1>2. h.pass \in Passwords /\ WasPassword(h.u, h.ver, h.pass)
  BY <1>0, <1>1 DEF GoodFrame, Proving
<1>3. h.u \in Users /\ h.ver \in 0..MaxVersion /\ h.pass \in Grounds
  BY <1>2 DEF WasPassword, IsFull, Frame, Grounds
<1>4. PICK u \in Users, ver \in 0..MaxVersion, pass \in Passwords :
        u = h.u /\ ver = h.ver /\ pass = h.pass
  BY <1>2, <1>3
<1>5. GoodSession([sub |-> u, ver |-> ver, by |-> pass])
  BY <1>2, <1>4, ByPassword
<1>6. issueToken(r, u, ver, pass)
  BY <1>1, <1>4 DEF LoginAnswer
<1>. QED
  BY <1>0, <1>3, <1>4, <1>5, <1>6, AnswersGiven

-----------------------------------------------------------------------------
(* The reads of the Google handlers.                                        *)

LEMMA LinkHasGoogleStep ==
    ASSUME IInv, NEW r \in Requests, LinkHasGoogle(r)
    PROVE  Step
<1>1. /\ "link.method" \in Stages /\ "link" \in Proving /\ "link" \in OfUser
      /\ "link.method" \notin Naming \cup Subjected \cup OfFull
  BY DEF Stages, Naming, Proving, Subjected, OfUser, OfFull
<1>. QED
  BY <1>1, GoesOnTo, Refused DEF LinkHasGoogle

(* The handler answers with the redirect to Google.                         *)
LEMMA StartAnswered ==
    ASSUME IInv, NEW r \in Requests, req[r] \in Frame, NEW purpose \in Purposes \ {"sign-in"},
           StartAndAnswer(r, purpose), req[r].u \in Users,
           purpose = "link-full" => IsFull(req[r].u)
    PROVE  Step
<1>1. PICK b \in Browsers, u \in Users : b = req[r].b /\ u = req[r].u
  BY DEF Frame
<1>2. /\ start(b, purpose, u) /\ UNCHANGED <<row, link, minVer, served>>
      /\ UNCHANGED <<sess, elev>> /\ req' = [req EXCEPT ![r] = Idle]
  BY <1>1 DEF StartAndAnswer, dbVars
<1>3. purpose = "link-full" => IsFull(u)
  BY <1>1
<1>4. FlowStep /\ CountStep
  BY <1>2, <1>3, StartSteps
<1>5. FrameStep
  BY <1>2, FrameMove
<1>. QED
  BY <1>2, <1>4, <1>5, RowKept, SessionKept, ElevatedKept DEF Step, RequestStep

LEMMA LinkMethodStep ==
    ASSUME IInv, NEW r \in Requests, LinkMethod(r)
    PROVE  Step
<1>0. req[r] \in Frame /\ GoodFrame(req[r]) /\ req[r].pc = "link.method" /\ At(r, "link.method")
  BY AtFrame DEF LinkMethod
<1>1. /\ "link.verify" \in Stages /\ "link.method" \in Proving /\ "link.method" \in OfUser
      /\ "link.verify" \notin Naming \cup Subjected \cup OfFull
      /\ "link-guest" \in Purposes \ {"sign-in"} /\ "link-guest" # "link-full"
  BY DEF Stages, Naming, Proving, Subjected, OfUser, OfFull, Purposes
<1>2. CASE Goto(r, "link.verify") /\ Stays /\ Reads
  BY <1>0, <1>1, <1>2, GoesOnTo
<1>3. CASE Refuse(r) /\ Reads
  BY <1>3, Refused
<1>4. CASE StartAndAnswer(r, "link-guest")
  BY <1>0, <1>1, <1>4, StartAnswered DEF GoodFrame
<1>. QED
  BY <1>2, <1>3, <1>4 DEF LinkMethod

LEMMA LinkVerifyStep ==
    ASSUME IInv, NEW r \in Requests, LinkVerify(r)
    PROVE  Step
<1>0. req[r] \in Frame /\ GoodFrame(req[r]) /\ req[r].pc = "link.verify"
  BY AtFrame DEF LinkVerify
<1>1. "link.verify" \in Proving /\ "link.verify" \in OfUser /\ "link-full" \in Purposes \ {"sign-in"}
  BY DEF Proving, OfUser, Purposes
<1>2. CASE PasswordMatches(r) /\ StartAndAnswer(r, "link-full")
  BY <1>0, <1>1, <1>2, PasswordIsFull, StartAnswered DEF GoodFrame
<1>3. CASE Refuse(r) /\ Reads
  BY <1>3, Refused
<1>. QED
  BY <1>2, <1>3 DEF LinkVerify

LEMMA ReauthMethodStep ==
    ASSUME IInv, NEW r \in Requests, ReauthMethod(r)
    PROVE  Step
<1>0. req[r] \in Frame /\ GoodFrame(req[r]) /\ req[r].pc = "reauth-start"
  BY AtFrame DEF ReauthMethod
<1>1. "reauth-start" \in OfUser /\ "reauth" \in Purposes \ {"sign-in"} /\ "reauth" # "link-full"
  BY DEF OfUser, Purposes
<1>2. CASE StartAndAnswer(r, "reauth")
  BY <1>0, <1>1, <1>2, StartAnswered DEF GoodFrame
<1>3. CASE Refuse(r) /\ Reads
  BY <1>3, Refused
<1>. QED
  BY <1>2, <1>3 DEF ReauthMethod

(* The purpose sealed at the start names what the handler goes on with.     *)
LEMMA ExchangeStep ==
    ASSUME IInv, NEW r \in Requests, Exchange(r)
    PROVE  Step
<1>0. req[r] \in Frame /\ GoodFrame(req[r]) /\ req[r].pc = "exchange" /\ Reads
  BY AtFrame DEF Exchange
<1>1. CASE Refuse(r)
  BY <1>0, <1>1, Refused
<1>2. ASSUME NEW s \in Subjects, Stays,
             req' = [req EXCEPT ![r].s = s, ![r].pc = req[r].flow.purpose]
      PROVE  Step
  <2>1. PICK h \in Frame : h = req[r]
    BY <1>0
  <2>2. h.flow \in Sealed /\ h.u = h.flow.u /\ GoodFlow(h.flow)
    BY <1>0, <2>1 DEF GoodFrame
  <2>3. PICK p \in Purposes : p = h.flow.purpose
    BY <2>2 DEF Sealed
  <2>4. NoFlow \notin Sealed
    BY AbsentAssumption
  <2>5. /\ p # "sign-in" => h.u \in Users
        /\ p = "link-full" => IsFull(h.u)
    BY <2>2, <2>3, <2>4 DEF GoodFlow
  <2>. DEFINE g == [h EXCEPT !.s = s, !.pc = p]
  <2>6. g \in Frame
    BY DEF Frame, Stages
  <2>7. g.pc = p /\ g.s = s /\ g.u = h.u
    BY DEF Frame
  <2>8. req' = [req EXCEPT ![r] = g]
    BY <1>2, <2>1, <2>3 DEF IInv, TypeOK
  <2>. HIDE DEF g
  <2>9. /\ p \notin Naming \cup Proving \cup {"login.compare", "set.note", "reauth.mint", "exchange"}
        /\ p \in OfUser => p # "sign-in"
        /\ p \in OfFull => p = "link-full"
    BY DEF Purposes, Naming, Proving, OfUser, OfFull
  <2>10. GoodFrame(g)
    BY <2>5, <2>7, <2>9 DEF GoodFrame
  <2>11. GoodFrame(g)'
    BY <1>0, <2>6, <2>10, ReadsSteps, FrameStays
  <2>12. FrameStep
    BY <2>6, <2>8, <2>11, FrameMove
  <2>. QED
    BY <1>0, <1>2, <2>12, ReadsSteps, SessionKept, ElevatedKept, FlowKept
       DEF Stays, Step, RequestStep
<1>. QED
  BY <1>1, <1>2 DEF Exchange

LEMMA SubjectOwnerStep ==
    ASSUME IInv, NEW r \in Requests, googleSubjectOwner(r)
    PROVE  Step
<1>1. /\ "reauth.mint" \in Stages /\ "reauth" \in Subjected /\ "reauth" \in OfUser
      /\ "reauth.mint" \notin Naming \cup Proving \cup OfFull
      /\ "reauth.mint" \notin {"login.compare", "set.note", "exchange"}
  BY DEF Stages, Purposes, Naming, Proving, Subjected, OfUser, OfFull
<1>. QED
  BY <1>1, GoesOnTo, Refused DEF googleSubjectOwner

LEMMA MintStep ==
    ASSUME IInv, NEW r \in Requests, mintElevatedToken(r)
    PROVE  Step
<1>0. req[r] \in Frame /\ GoodFrame(req[r]) /\ req[r].pc = "reauth.mint" /\ Reads
  BY AtFrame DEF mintElevatedToken
<1>1. CASE Refuse(r)
  BY <1>0, <1>1, Refused
<1>2. ASSUME Exists(req[r].u), Done(r), UNCHANGED sess,
             elev' = [elev EXCEPT ![req[r].b] =
                 [sub |-> req[r].u, ver |-> row[req[r].u].ver, by |-> req[r].s]]
      PROVE  Step
  <2>1. req[r].s \in Subjects /\ req[r].u \in Users /\ link[req[r].s] = req[r].u
    BY <1>0 DEF GoodFrame, Subjected, OfUser
  <2>2. PICK b \in Browsers, u \in Users, s \in Subjects :
          b = req[r].b /\ u = req[r].u /\ s = req[r].s
    BY <1>0, <2>1 DEF Frame
  <2>3. row[u] # NoRow
    BY <1>2, <2>2 DEF Exists
  <2>4. PICK v \in 0..MaxVersion : v = row[u].ver
    BY <2>3, RowType DEF IInv
  <2>. DEFINE t == [sub |-> u, ver |-> v, by |-> s]
  <2>5. t \in Token
    BY TokenType DEF Grounds
  <2>6. GoodElevated(t)
    BY <2>1, <2>2 DEF GoodElevated
  <2>7. elev' = [elev EXCEPT ![b] = t]
    BY <1>2, <2>2, <2>4
  <2>. HIDE DEF t
  <2>8. RowStep /\ CountStep
    BY <1>0, ReadsSteps
  <2>9. GoodElevated(t)'
    BY <2>5, <2>6, <2>8, ElevatedStays
  <2>10. elev \in [Browsers -> Token \cup {NoToken}]
    BY DEF IInv, TypeOK
  <2>11. elev' \in [Browsers -> Token \cup {NoToken}]
    BY <2>5, <2>7, <2>10
  <2>12. ASSUME NEW d \in Browsers PROVE elev'[d] = elev[d] \/ GoodElevated(elev[d])'
    <3>1. CASE d = b
      <4>1. elev'[d] = t
        BY <2>7, <2>10, <3>1
      <4>. QED
        BY <2>9, <4>1
    <3>2. CASE d # b
      BY <2>7, <2>10, <3>2
    <3>. QED
      BY <3>1, <3>2
  <2>13. ElevatedStep
    BY <2>11, <2>12 DEF ElevatedStep
  <2>. QED
    BY <1>2, <2>8, <2>13, DoneSteps, SessionKept DEF Step, RequestStep
<1>. QED
  BY <1>1, <1>2 DEF mintElevatedToken

(* linkGoogleToFull.                                                        *)
LEMMA LinkFullReadStep ==
    ASSUME IInv, NEW r \in Requests, LinkFullRead(r)
    PROVE  Step
<1>0. req[r] \in Frame /\ GoodFrame(req[r]) /\ req[r].pc = "link-full" /\ Reads
  BY AtFrame DEF LinkFullRead
<1>1. CASE Refuse(r)
  BY <1>0, <1>1, Refused
<1>2. ASSUME Exists(req[r].u), Stays,
             req' = [req EXCEPT ![r].pc = "full.existing", ![r].ver = row[req[r].u].ver]
      PROVE  Step
  <2>1. PICK h \in Frame : h = req[r]
    BY <1>0
  <2>2. h.s \in Subjects /\ IsFull(h.u)
    BY <1>0, <2>1 DEF GoodFrame, Subjected, OfFull
  <2>3. PICK v \in 0..MaxVersion : v = row[h.u].ver
    BY <2>2, RowType DEF IsFull, IInv
  <2>. DEFINE g == [h EXCEPT !.pc = "full.existing", !.ver = v]
  <2>4. "full.existing" \in Stages
    BY DEF Stages
  <2>5. g \in Frame
    BY <2>4 DEF Frame
  <2>6. g.pc = "full.existing" /\ g.s = h.s /\ g.u = h.u
    BY DEF Frame
  <2>7. req' = [req EXCEPT ![r] = g]
    BY <1>2, <2>1, <2>3 DEF IInv, TypeOK
  <2>. HIDE DEF g
  <2>8. "full.existing" \notin Naming \cup Proving \cup OfUser
                               \cup {"login.compare", "set.note", "reauth.mint", "exchange"}
    BY DEF Naming, Proving, OfUser
  <2>9. GoodFrame(g)
    BY <2>2, <2>6, <2>8 DEF GoodFrame
  <2>10. GoodFrame(g)'
    BY <1>0, <2>5, <2>9, ReadsSteps, FrameStays
  <2>11. FrameStep
    BY <2>5, <2>7, <2>10, FrameMove
  <2>. QED
    BY <1>0, <1>2, <2>11, ReadsSteps, SessionKept, ElevatedKept, FlowKept
       DEF Stays, Step, RequestStep
<1>. QED
  BY <1>1, <1>2 DEF LinkFullRead

(* The answer of a link that the account turns out to have already.         *)
LEMMA AlreadyLinked ==
    ASSUME IInv, NEW r \in Requests, req[r] \in Frame, GoodFrame(req[r]), Reads,
           req[r].pc \in {"full.existing", "full.owner"},
           link[req[r].s] = req[r].u,
           issueToken(r, req[r].u, req[r].ver, req[r].s)
    PROVE  Step
<1>1. req[r].s \in Subjects /\ req[r].u \in Users /\ req[r].ver \in 0..MaxVersion
  BY DEF GoodFrame, Subjected, OfFull, IsFull, Frame
<1>2. PICK u \in Users, ver \in 0..MaxVersion, s \in Subjects :
        u = req[r].u /\ ver = req[r].ver /\ s = req[r].s
  BY <1>1
<1>3. GoodSession([sub |-> u, ver |-> ver, by |-> s])
  BY <1>2, ByOwner
<1>4. s \in Grounds /\ issueToken(r, u, ver, s)
  BY <1>2 DEF Grounds
<1>. QED
  BY <1>3, <1>4, AnswersGiven

LEMMA LinkFullAnswerStep ==
    ASSUME IInv, NEW r \in Requests, LinkFullExisting(r) \/ LinkFullOwner(r)
    PROVE  Step
<1>1. /\ "full.create" \in Stages /\ "full.existing" \in Subjected /\ "full.existing" \in OfFull
      /\ "full.create" \notin Naming \cup Proving \cup OfUser
      /\ "full.create" \notin {"login.compare", "set.note", "exchange", "reauth.mint"}
  BY DEF Stages, Naming, Proving, Subjected, OfUser, OfFull
<1>2. CASE LinkFullExisting(r)
  <2>0. req[r] \in Frame /\ GoodFrame(req[r]) /\ req[r].pc = "full.existing" /\ Reads
        /\ At(r, "full.existing")
    BY <1>2, AtFrame DEF LinkFullExisting
  <2>1. CASE Goto(r, "full.create") /\ Stays
    BY <1>1, <2>0, <2>1, GoesOnTo
  <2>2. CASE link[req[r].s] = req[r].u /\ issueToken(r, req[r].u, req[r].ver, req[r].s)
    BY <2>0, <2>2, AlreadyLinked
  <2>3. CASE Refuse(r)
    BY <2>0, <2>3, Refused
  <2>. QED
    BY <1>2, <2>1, <2>2, <2>3 DEF LinkFullExisting
<1>3. CASE LinkFullOwner(r)
  <2>0. req[r] \in Frame /\ GoodFrame(req[r]) /\ req[r].pc = "full.owner" /\ Reads
    BY <1>3, AtFrame DEF LinkFullOwner
  <2>1. CASE link[req[r].s] = req[r].u /\ issueToken(r, req[r].u, req[r].ver, req[r].s)
    BY <2>0, <2>1, AlreadyLinked
  <2>2. CASE Refuse(r)
    BY <2>0, <2>2, Refused
  <2>. QED
    BY <1>3, <2>1, <2>2 DEF LinkFullOwner
<1>. QED
  BY <1>2, <1>3

(* linkGoogleToGuest, up to its write.                                      *)
LEMMA LinkGuestReadStep ==
    ASSUME IInv, NEW r \in Requests,
           LinkGuestRead(r) \/ LinkGuestExisting(r) \/ LinkGuestAddress(r)
    PROVE  Step
<1>1. /\ {"guest.existing", "guest.address", "guest.write"} \subseteq Stages
      /\ {"link-guest", "guest.existing", "guest.address"} \subseteq Subjected
      /\ {"guest.existing", "guest.address", "guest.write"}
           \cap (Naming \cup Proving \cup OfUser \cup OfFull) = {}
  BY DEF Stages, Naming, Proving, Subjected, OfUser, OfFull
<1>2. CASE LinkGuestRead(r)
  BY <1>1, <1>2, GoesOnTo, Refused DEF LinkGuestRead
<1>3. CASE LinkGuestExisting(r)
  BY <1>1, <1>3, GoesOnTo, Refused DEF LinkGuestExisting
<1>4. CASE LinkGuestAddress(r)
  BY <1>1, <1>4, GoesOnTo, Refused DEF LinkGuestAddress
<1>. QED
  BY <1>2, <1>3, <1>4

(* signInWithGoogle: the session is the owner's.                            *)
LEMMA LinkedSessionStep ==
    ASSUME IInv, NEW r \in Requests, req[r] \in Frame, GoodFrame(req[r]), Reads,
           req[r].pc \in {"sign-in", "google.winner"},
           link[req[r].s] # Nobody, LinkedSession(r)
    PROVE  Step
<1>1. req[r].s \in Subjects
  BY DEF GoodFrame, Subjected
<1>2. IsFull(link[req[r].s])
  BY <1>1 DEF IInv, RowInv
<1>3. PICK s \in Subjects, u \in Users : s = req[r].s /\ u = link[req[r].s] /\ row[u] # NoRow
  BY <1>1, <1>2 DEF IsFull
<1>4. PICK ver \in 0..MaxVersion : ver = row[u].ver
  BY <1>3, RowType DEF IInv
<1>5. GoodSession([sub |-> u, ver |-> ver, by |-> s])
  BY <1>3, ByOwner
<1>6. s \in Grounds /\ issueToken(r, u, ver, s)
  BY <1>3, <1>4 DEF Grounds, LinkedSession
<1>. QED
  BY <1>5, <1>6, AnswersGiven

LEMMA SignInReadStep ==
    ASSUME IInv, NEW r \in Requests,
           findLinkedUser(r) \/ SignInEmailOwner(r) \/ SignInWinner(r)
    PROVE  Step
<1>1. /\ {"google.email", "google.create"} \subseteq Stages
      /\ {"sign-in", "google.email"} \subseteq Subjected
      /\ {"google.email", "google.create"}
           \cap (Naming \cup Proving \cup OfUser \cup OfFull) = {}
  BY DEF Stages, Naming, Proving, Subjected, OfUser, OfFull
<1>2. CASE findLinkedUser(r)
  <2>0. req[r] \in Frame /\ GoodFrame(req[r]) /\ req[r].pc = "sign-in" /\ Reads /\ At(r, "sign-in")
    BY <1>2, AtFrame DEF findLinkedUser
  <2>1. CASE link[req[r].s] # Nobody /\ LinkedSession(r)
    BY <2>0, <2>1, LinkedSessionStep
  <2>2. CASE Goto(r, "google.email") /\ Stays
    BY <1>1, <2>0, <2>2, GoesOnTo
  <2>. QED
    BY <1>2, <2>1, <2>2 DEF findLinkedUser
<1>3. CASE SignInEmailOwner(r)
  BY <1>1, <1>3, GoesOnTo, Refused DEF SignInEmailOwner
<1>4. CASE SignInWinner(r)
  <2>0. req[r] \in Frame /\ GoodFrame(req[r]) /\ req[r].pc = "google.winner" /\ Reads
    BY <1>4, AtFrame DEF SignInWinner
  <2>1. CASE link[req[r].s] # Nobody /\ LinkedSession(r)
    BY <2>0, <2>1, LinkedSessionStep
  <2>2. CASE Refuse(r)
    BY <2>0, <2>2, Refused
  <2>. QED
    BY <1>4, <2>1, <2>2 DEF SignInWinner
<1>. QED
  BY <1>2, <1>3, <1>4

-----------------------------------------------------------------------------
(* Writes.  A row is created or rewritten, and an identity that was         *)
(* nobody's may become its user's, in one step.                             *)

LEMMA RowWrite ==
    ASSUME IInv, NEW u \in Users, NEW g \in Row,
           row' = [row EXCEPT ![u] = g],
           link' \in [Subjects -> Users \cup {Nobody}],
           \A s \in Subjects : link'[s] # link[s] => link[s] = Nobody /\ link'[s] = u,
           \A s \in Subjects : link'[s] = u => ~g.guest,
           g.guest => g.pass = NoPassword,
           ~g.guest => g.pass # NoPassword \/ \E s \in Subjects : link'[s] = u,
           IsFull(u) =>
             /\ ~g.guest /\ g.name = row[u].name /\ g.email = row[u].email
             /\ \/ g.ver > row[u].ver
                \/ g.ver = row[u].ver /\ g.pass = row[u].pass
    PROVE  RowStep
<1>0. /\ row \in [Users -> Row \cup {NoRow}] /\ g # NoRow
      /\ link \in [Subjects -> Users \cup {Nobody}]
      /\ \A s \in Subjects : link[s] # Nobody => IsFull(link[s])
  BY AbsentAssumption DEF IInv, TypeOK, RowInv
<1>1. /\ row' \in [Users -> Row \cup {NoRow}] /\ row'[u] = g
      /\ \A v \in Users \ {u} : row'[v] = row[v]
  BY <1>0
<1>2. ASSUME NEW v \in Users, IsFull(v)
      PROVE  /\ IsFull(v)'
             /\ row'[v].name = row[v].name /\ row'[v].email = row[v].email
             /\ \/ row'[v].ver > row[v].ver
                \/ row'[v].ver = row[v].ver /\ row'[v].pass = row[v].pass
  <2>1. CASE v = u
    BY <1>0, <1>1, <1>2, <2>1 DEF IsFull
  <2>2. CASE v # u
    BY <1>1, <1>2, <2>2 DEF IsFull
  <2>. QED
    BY <2>1, <2>2
<1>3. \A s \in Subjects : link[s] # Nobody => link'[s] = link[s]
  OBVIOUS
<1>4. Monotone
  BY <1>2, <1>3 DEF Monotone
<1>5. ASSUME NEW v \in Users, row'[v] # NoRow, row'[v].guest PROVE row'[v].pass = NoPassword
  BY <1>1, <1>5 DEF IInv, RowInv
<1>6. ASSUME NEW s \in Subjects, link'[s] # Nobody PROVE IsFull(link[s])'
  <2>1. CASE link'[s] = u
    BY <1>0, <1>1, <2>1 DEF IsFull
  <2>2. CASE link'[s] # u
    <3>1. link'[s] = link[s] /\ IsFull(link[s]) /\ link[s] \in Users \ {u}
      BY <1>0, <1>6, <2>2 DEF IsFull
    <3>. QED
      BY <1>1, <3>1 DEF IsFull
  <2>. QED
    BY <2>1, <2>2
<1>7. DoorForEveryAccount'
  <2>1. ASSUME NEW v \in Users, row'[v] # NoRow, ~row'[v].guest
        PROVE  row'[v].pass # NoPassword \/ \E s \in Subjects : link'[s] = v
    <3>1. CASE v = u
      BY <1>1, <2>1, <3>1
    <3>2. CASE v # u
      <4>1. v \in Live /\ ~row[v].guest /\ row'[v] = row[v]
        BY <1>1, <2>1, <3>2 DEF Live
      <4>2. row[v].pass # NoPassword \/ \E s \in Subjects : link[s] = v
        BY <4>1 DEF IInv, RowInv, DoorForEveryAccount, Linked
      <4>3. v # Nobody
        BY AccountsAssumption
      <4>. QED
        BY <1>3, <4>1, <4>2, <4>3
    <3>. QED
      BY <3>1, <3>2
  <2>. QED
    BY <2>1 DEF DoorForEveryAccount, Live, Linked
<1>. QED
  BY <1>1, <1>4, <1>5, <1>6, <1>7 DEF RowStep, RowInv

(* A new account, under a fresh id.                                         *)
LEMMA FreshId ==
    ASSUME IInv, NEW u \in Users \ Live
    PROVE  u \in Users /\ ~IsFull(u) /\ \A s \in Subjects : link[s] # u
<1>1. row[u] = NoRow
  BY DEF Live
<1>2. u # Nobody
  BY AccountsAssumption
<1>. QED
  BY <1>1, <1>2 DEF IsFull, IInv, RowInv

(* A guest has no identity.                                                 *)
LEMMA GuestUnlinked ==
    ASSUME IInv, NEW u \in Users, StillGuest(u)
    PROVE  ~IsFull(u) /\ \A s \in Subjects : link[s] # u
<1>1. u # Nobody
  BY AccountsAssumption
<1>. QED
  BY <1>1 DEF StillGuest, Exists, IsFull, IInv, RowInv

(* A session opened on the password just written.                           *)
LEMMA NewPassword ==
    ASSUME IInv, NEW u \in Users, NEW g \in Row, row' = [row EXCEPT ![u] = g],
           ~g.guest, NEW pass \in Passwords, g.pass = pass,
           NEW ver \in 0..MaxVersion, ver = g.ver
    PROVE  WasPassword(u, ver, pass)' /\ GoodSession([sub |-> u, ver |-> ver, by |-> pass])'
<1>1. g # NoRow /\ row'[u] = g
  BY AbsentAssumption DEF IInv, TypeOK
<1>2. IsFull(u)'
  BY <1>1 DEF IsFull
<1>3. ver \in Int
  BY AccountsAssumption
<1>4. WasPassword(u, ver, pass)'
  BY <1>1, <1>2, <1>3 DEF WasPassword
<1>5. pass \notin Subjects
  BY AccountsAssumption
<1>. QED
  BY <1>4, <1>5 DEF GoodSession

LEMMA RegisterCreateStep ==
    ASSUME IInv, NEW r \in Requests, RegisterCreate(r)
    PROVE  Step
<1>0. req[r] \in Frame /\ GoodFrame(req[r]) /\ req[r].pc = "register.create"
      /\ UNCHANGED <<link, minVer, away, flows, served>>
  BY AtFrame DEF RegisterCreate
<1>1. CASE Refuse(r) /\ UNCHANGED row
  BY <1>0, <1>1, RowKept, CountKept, RefuseSteps DEF Step
<1>2. ASSUME NEW u \in Users \ Live,
             row' = [row EXCEPT ![u] =
                   [name |-> req[r].name, email |-> req[r].email,
                    pass |-> req[r].pass, guest |-> FALSE, ver |-> 0]],
             issueToken(r, u, 0, req[r].pass)
      PROVE  Step
  <2>1. req[r].name \in Names /\ req[r].email \in Emails /\ req[r].pass \in Passwords
    BY <1>0 DEF GoodFrame, Naming, Proving
  <2>2. PICK n \in Names, e \in Emails, w \in Passwords :
          n = req[r].name /\ e = req[r].email /\ w = req[r].pass
    BY <2>1
  <2>. DEFINE g == [name |-> n, email |-> e, pass |-> w, guest |-> FALSE, ver |-> 0]
  <2>3. 0 \in 0..MaxVersion
    BY AccountsAssumption
  <2>4. g \in Row /\ ~g.guest /\ g.pass = w /\ g.ver = 0
    BY <2>3 DEF Row
  <2>5. row' = [row EXCEPT ![u] = g] /\ issueToken(r, u, 0, w)
    BY <1>2, <2>2
  <2>. HIDE DEF g
  <2>6. u \in Users /\ ~IsFull(u) /\ \A s \in Subjects : link[s] # u
    BY FreshId
  <2>7. w # NoPassword /\ w \in Grounds
    BY AccountsAssumption DEF Grounds
  <2>8. link' = link /\ link' \in [Subjects -> Users \cup {Nobody}]
    BY <1>0 DEF IInv, TypeOK
  <2>9. RowStep
    BY <2>4, <2>5, <2>6, <2>7, <2>8, RowWrite
  <2>10. GoodSession([sub |-> u, ver |-> 0, by |-> w])'
    BY <2>3, <2>4, <2>5, <2>6, NewPassword
  <2>11. RequestStep
    BY <1>0, <2>3, <2>5, <2>6, <2>7, <2>10, IssueSteps
  <2>. QED
    BY <1>0, <2>9, <2>11, CountKept DEF Step
<1>. QED
  BY <1>1, <1>2 DEF RegisterCreate

LEMMA CreateGuestStep ==
    ASSUME IInv, NEW r \in Requests, createGuest(r)
    PROVE  Step
<1>0. req[r] \in Frame /\ GoodFrame(req[r]) /\ UNCHANGED <<link, minVer, away, flows, served>>
  BY AtFrame DEF createGuest
<1>1. CASE Retry(r) /\ UNCHANGED row
  BY <1>0, <1>1, RowKept, CountKept, RetrySteps DEF Step
<1>2. ASSUME NEW n \in Names, NEW u \in Users \ Live,
             row' = [row EXCEPT ![u] =
                     [name |-> n, email |-> u, pass |-> NoPassword,
                      guest |-> TRUE, ver |-> 0]],
             issueToken(r, u, 0, NoPassword)
      PROVE  Step
  <2>. DEFINE g == [name |-> n, email |-> u, pass |-> NoPassword, guest |-> TRUE, ver |-> 0]
  <2>1. 0 \in 0..MaxVersion /\ NoPassword \in Grounds
    BY AccountsAssumption DEF Grounds
  <2>2. g \in Row /\ g.guest = TRUE /\ g.pass = NoPassword
    BY <2>1 DEF Row
  <2>3. row' = [row EXCEPT ![u] = g]
    BY <1>2
  <2>. HIDE DEF g
  <2>4. u \in Users /\ ~IsFull(u) /\ \A s \in Subjects : link[s] # u
    BY FreshId
  <2>5. link' = link /\ link' \in [Subjects -> Users \cup {Nobody}]
    BY <1>0 DEF IInv, TypeOK
  <2>6. RowStep
    BY <2>2, <2>3, <2>4, <2>5, RowWrite
  <2>7. GoodSession([sub |-> u, ver |-> 0, by |-> NoPassword])'
    BY AccountsAssumption DEF GoodSession
  <2>8. RequestStep
    BY <1>0, <1>2, <2>1, <2>4, <2>7, IssueSteps
  <2>. QED
    BY <1>0, <2>6, <2>8, CountKept DEF Step
<1>. QED
  BY <1>1, <1>2 DEF createGuest

(* claimGuestAccount: the row was a guest's when the update met it.         *)
LEMMA ClaimWriteStep ==
    ASSUME IInv, NEW r \in Requests, ClaimWrite(r)
    PROVE  Step
<1>0. req[r] \in Frame /\ GoodFrame(req[r]) /\ req[r].pc = "claim.write"
      /\ UNCHANGED <<link, minVer, away, flows, served>>
  BY AtFrame DEF ClaimWrite
<1>1. CASE Refuse(r) /\ UNCHANGED row
  BY <1>0, <1>1, RowKept, CountKept, RefuseSteps DEF Step
<1>2. ASSUME StillGuest(req[r].u),
             row' = [row EXCEPT ![req[r].u] =
                 [name |-> req[r].name, email |-> req[r].email,
                  pass |-> req[r].pass, guest |-> FALSE, ver |-> row[req[r].u].ver]],
             issueToken(r, req[r].u, row[req[r].u].ver, req[r].pass)
      PROVE  Step
  <2>1. /\ req[r].name \in Names /\ req[r].email \in Emails /\ req[r].pass \in Passwords
        /\ req[r].u \in Users /\ row[req[r].u] # NoRow
    BY <1>0, <1>2 DEF GoodFrame, Naming, Proving, StillGuest, Exists, Frame
  <2>2. PICK n \in Names, e \in Emails, w \in Passwords, u \in Users :
          n = req[r].name /\ e = req[r].email /\ w = req[r].pass /\ u = req[r].u
    BY <2>1
  <2>3. PICK v \in 0..MaxVersion : v = row[u].ver
    BY <2>1, <2>2, RowType DEF IInv
  <2>. DEFINE g == [name |-> n, email |-> e, pass |-> w, guest |-> FALSE, ver |-> v]
  <2>4. g \in Row /\ ~g.guest /\ g.pass = w /\ g.ver = v
    BY DEF Row
  <2>5. row' = [row EXCEPT ![u] = g] /\ issueToken(r, u, v, w)
    BY <1>2, <2>2, <2>3
  <2>. HIDE DEF g
  <2>6. ~IsFull(u) /\ \A s \in Subjects : link[s] # u
    BY <1>2, <2>2, GuestUnlinked
  <2>7. w # NoPassword /\ w \in Grounds
    BY AccountsAssumption DEF Grounds
  <2>8. link' = link /\ link' \in [Subjects -> Users \cup {Nobody}]
    BY <1>0 DEF IInv, TypeOK
  <2>9. RowStep
    BY <2>4, <2>5, <2>6, <2>7, <2>8, RowWrite
  <2>10. GoodSession([sub |-> u, ver |-> v, by |-> w])'
    BY <2>4, <2>5, NewPassword
  <2>11. RequestStep
    BY <1>0, <2>5, <2>7, <2>10, IssueSteps
  <2>. QED
    BY <1>0, <2>9, <2>11, CountKept DEF Step
<1>. QED
  BY <1>1, <1>2 DEF ClaimWrite

(* A row and its identity are written, and the owner answered.              *)
LEMMA Adopts ==
    ASSUME IInv, NEW r \in Requests, req[r] \in Frame, NEW u \in Users, NEW g \in Row,
           NEW s \in Subjects, NEW ver \in 0..MaxVersion,
           row' = [row EXCEPT ![u] = g], link' = [link EXCEPT ![s] = u],
           link[s] = Nobody, ~g.guest,
           IsFull(u) => g = row[u],
           issueToken(r, u, ver, s),
           UNCHANGED <<minVer, away, flows, served>>
    PROVE  Step
<1>0. link \in [Subjects -> Users \cup {Nobody}] /\ MaxVersion \in Nat
  BY AccountsAssumption DEF IInv, TypeOK
<1>1. /\ link' \in [Subjects -> Users \cup {Nobody}] /\ link'[s] = u
      /\ \A x \in Subjects : link'[x] # link[x] => link[x] = Nobody /\ link'[x] = u
  BY <1>0
<1>2. IsFull(u) =>
        /\ ~g.guest /\ g.name = row[u].name /\ g.email = row[u].email
        /\ \/ g.ver > row[u].ver
           \/ g.ver = row[u].ver /\ g.pass = row[u].pass
  OBVIOUS
<1>3. RowStep
  BY <1>1, <1>2, RowWrite
<1>4. s \notin Passwords /\ s \in Grounds
  BY AccountsAssumption DEF Grounds
<1>5. GoodSession([sub |-> u, ver |-> ver, by |-> s])'
  BY <1>1, <1>4 DEF GoodSession
<1>6. RequestStep
  BY <1>4, <1>5, IssueSteps
<1>. QED
  BY <1>3, <1>6, CountKept DEF Step

LEMMA LinkFullCreateStep ==
    ASSUME IInv, NEW r \in Requests, LinkFullCreate(r)
    PROVE  Step
<1>0. /\ req[r] \in Frame /\ GoodFrame(req[r]) /\ req[r].pc = "full.create"
      /\ At(r, "full.create") /\ UNCHANGED <<row, minVer, away, flows, served>>
  BY AtFrame DEF LinkFullCreate
<1>1. /\ "full.owner" \in Stages /\ "full.create" \in Subjected /\ "full.create" \in OfFull
      /\ "full.owner" \notin Naming \cup Proving \cup OfUser
      /\ "full.owner" \notin {"login.compare", "set.note", "exchange", "reauth.mint"}
  BY DEF Stages, Naming, Proving, Subjected, OfUser, OfFull
<1>2. CASE Goto(r, "full.owner") /\ Stays /\ UNCHANGED link
  BY <1>0, <1>1, <1>2, GoesOnTo DEF Reads, dbVars
<1>3. CASE Refuse(r) /\ UNCHANGED link
  BY <1>0, <1>3, Refused DEF Reads, dbVars
<1>4. ASSUME link[req[r].s] = Nobody, link' = [link EXCEPT ![req[r].s] = req[r].u],
             issueToken(r, req[r].u, req[r].ver, req[r].s)
      PROVE  Step
  <2>1. req[r].s \in Subjects /\ IsFull(req[r].u) /\ req[r].ver \in 0..MaxVersion
    BY <1>0, <1>1 DEF GoodFrame, Frame
  <2>2. PICK s \in Subjects, u \in Users, ver \in 0..MaxVersion :
          s = req[r].s /\ u = req[r].u /\ ver = req[r].ver /\ IsFull(u)
    BY <2>1 DEF IsFull
  <2>3. PICK g \in Row : g = row[u] /\ ~g.guest
    BY <2>2, RowType DEF IsFull, IInv
  <2>4. row' = [row EXCEPT ![u] = g]
    BY <1>0, <2>3 DEF IInv, TypeOK
  <2>. QED
    BY <1>0, <1>4, <2>2, <2>3, <2>4, Adopts
<1>. QED
  BY <1>2, <1>3, <1>4 DEF LinkFullCreate

(* linkGoogleToGuest: the row was a guest's, and the identity nobody's,     *)
(* when the transaction met them.                                           *)
LEMMA LinkGuestWriteStep ==
    ASSUME IInv, NEW r \in Requests, LinkGuestWrite(r)
    PROVE  Step
<1>0. /\ req[r] \in Frame /\ GoodFrame(req[r]) /\ req[r].pc = "guest.write"
      /\ UNCHANGED <<minVer, away, flows, served>>
  BY AtFrame DEF LinkGuestWrite
<1>1. CASE Refuse(r) /\ UNCHANGED <<row, link>>
  BY <1>0, <1>1, RowKept, CountKept, RefuseSteps DEF Step
<1>2. CASE Retry(r) /\ UNCHANGED <<row, link>>
  BY <1>0, <1>2, RowKept, CountKept, RetrySteps DEF Step
<1>3. ASSUME NEW n \in Names, StillGuest(req[r].u), link[req[r].s] = Nobody,
             row' = [row EXCEPT ![req[r].u] = Promoted(@, n, EmailOf[req[r].s])],
             link' = [link EXCEPT ![req[r].s] = req[r].u],
             issueToken(r, req[r].u, row[req[r].u].ver, req[r].s)
      PROVE  Step
  <2>1. req[r].s \in Subjects /\ req[r].u \in Users /\ row[req[r].u] # NoRow
    BY <1>0, <1>3 DEF GoodFrame, Subjected, StillGuest, Exists, Frame
  <2>2. PICK s \in Subjects, u \in Users : s = req[r].s /\ u = req[r].u
    BY <2>1
  <2>3. PICK v \in 0..MaxVersion : v = row[u].ver
    BY <2>1, <2>2, RowType DEF IInv
  <2>4. PICK a \in Row : a = row[u]
    BY <2>1, <2>2, RowType DEF IInv
  <2>5. PICK e \in Emails : e = EmailOf[s]
    BY AccountsAssumption
  <2>. DEFINE g == Promoted(a, n, e)
  <2>6. g \in Row /\ ~g.guest
    BY DEF Promoted, Row
  <2>7. row' = [row EXCEPT ![u] = g]
    BY <1>3, <2>2, <2>4, <2>5 DEF IInv, TypeOK
  <2>8. /\ link[s] = Nobody /\ link' = [link EXCEPT ![s] = u]
        /\ issueToken(r, u, v, s)
    BY <1>3, <2>2, <2>3
  <2>. HIDE DEF g
  <2>9. ~IsFull(u)
    BY <1>3, <2>2, GuestUnlinked
  <2>. QED
    BY <1>0, <2>6, <2>7, <2>8, <2>9, Adopts
<1>4. ASSUME NEW n \in Names,
             CASE ~StillGuest(req[r].u) -> Refuse(r) /\ UNCHANGED <<row, link>>
               [] StillGuest(req[r].u) /\ NameTaken(n, req[r].u) ->
                    Retry(r) /\ UNCHANGED <<row, link>>
               [] StillGuest(req[r].u) /\ ~NameTaken(n, req[r].u)
                    /\ (EmailTaken(EmailOf[req[r].s], req[r].u) \/ link[req[r].s] # Nobody) ->
                    Refuse(r) /\ UNCHANGED <<row, link>>
               [] OTHER ->
                    /\ row' = [row EXCEPT ![req[r].u] = Promoted(@, n, EmailOf[req[r].s])]
                    /\ link' = [link EXCEPT ![req[r].s] = req[r].u]
                    /\ issueToken(r, req[r].u, row[req[r].u].ver, req[r].s)
      PROVE  Step
  BY <1>1, <1>2, <1>3, <1>4
<1>. QED
  BY <1>4 DEF LinkGuestWrite

(* createGoogleUser: likewise, with a fresh row.                            *)
LEMMA CreateGoogleUserStep ==
    ASSUME IInv, NEW r \in Requests, createGoogleUser(r)
    PROVE  Step
<1>0. /\ req[r] \in Frame /\ GoodFrame(req[r]) /\ req[r].pc = "google.create"
      /\ At(r, "google.create") /\ UNCHANGED <<minVer, away, flows, served>>
  BY AtFrame DEF createGoogleUser
<1>1. CASE Refuse(r) /\ UNCHANGED <<row, link>>
  BY <1>0, <1>1, RowKept, CountKept, RefuseSteps DEF Step
<1>2. CASE Retry(r) /\ UNCHANGED <<row, link>>
  BY <1>0, <1>2, RowKept, CountKept, RetrySteps DEF Step
<1>3. CASE Goto(r, "google.winner") /\ Stays /\ UNCHANGED <<row, link>>
  <2>1. /\ "google.winner" \in Stages /\ "google.create" \in Subjected
        /\ "google.winner" \notin Naming \cup Proving \cup OfUser \cup OfFull
        /\ "google.winner" \notin {"login.compare", "set.note", "exchange", "reauth.mint"}
    BY DEF Stages, Naming, Proving, Subjected, OfUser, OfFull
  <2>. QED
    BY <1>0, <1>3, <2>1, GoesOnTo DEF Reads, dbVars
<1>4. ASSUME NEW n \in Names, NEW u \in Users \ Live, link[req[r].s] = Nobody,
             row' = [row EXCEPT ![u] =
                       [name |-> n, email |-> EmailOf[req[r].s], pass |-> NoPassword,
                        guest |-> FALSE, ver |-> 0]],
             link' = [link EXCEPT ![req[r].s] = u],
             issueToken(r, u, 0, req[r].s)
      PROVE  Step
  <2>1. PICK s \in Subjects : s = req[r].s
    BY <1>0 DEF GoodFrame, Subjected
  <2>2. PICK e \in Emails : e = EmailOf[s]
    BY AccountsAssumption
  <2>3. 0 \in 0..MaxVersion
    BY AccountsAssumption
  <2>. DEFINE g == [name |-> n, email |-> e, pass |-> NoPassword, guest |-> FALSE, ver |-> 0]
  <2>4. g \in Row /\ ~g.guest
    BY <2>3 DEF Row
  <2>5. row' = [row EXCEPT ![u] = g]
    BY <1>4, <2>1, <2>2
  <2>. HIDE DEF g
  <2>6. u \in Users /\ ~IsFull(u)
    BY FreshId
  <2>7. link[s] = Nobody /\ link' = [link EXCEPT ![s] = u] /\ issueToken(r, u, 0, s)
    BY <1>4, <2>1
  <2>. QED
    BY <1>0, <2>3, <2>4, <2>5, <2>6, <2>7, Adopts
<1>5. ASSUME NEW n \in Names,
             CASE NameTaken(n, Nobody) -> Retry(r) /\ UNCHANGED <<row, link>>
               [] ~NameTaken(n, Nobody) /\ EmailTaken(EmailOf[req[r].s], Nobody) ->
                    Refuse(r) /\ UNCHANGED <<row, link>>
               [] ~NameTaken(n, Nobody) /\ ~EmailTaken(EmailOf[req[r].s], Nobody)
                    /\ link[req[r].s] # Nobody ->
                    Goto(r, "google.winner") /\ Stays /\ UNCHANGED <<row, link>>
               [] OTHER ->
                    \E u \in Users \ Live :
                      /\ row' = [row EXCEPT ![u] =
                           [name |-> n, email |-> EmailOf[req[r].s], pass |-> NoPassword,
                            guest |-> FALSE, ver |-> 0]]
                      /\ link' = [link EXCEPT ![req[r].s] = u]
                      /\ issueToken(r, u, 0, req[r].s)
      PROVE  Step
  BY <1>1, <1>2, <1>3, <1>4, <1>5
<1>. QED
  BY <1>5 DEF createGoogleUser

(* setPassword: the password and the version change together.               *)
LEMMA SetWriteStep ==
    ASSUME IInv, NEW r \in Requests, NEW w \in Passwords, SetWrite(r, w)
    PROVE  Step
<1>0. /\ req[r] \in Frame /\ GoodFrame(req[r]) /\ req[r].pc = "set.write"
      /\ UNCHANGED <<link, minVer, away, flows, served>>
  BY AtFrame DEF SetWrite
<1>1. CASE Refuse(r) /\ UNCHANGED row
  BY <1>0, <1>1, RowKept, CountKept, RefuseSteps DEF Step
<1>2. ASSUME row[req[r].u].ver < MaxVersion,
             row' = [row EXCEPT ![req[r].u].pass = w, ![req[r].u].ver = @ + 1],
             req' = [req EXCEPT ![r].pc = "set.note", ![r].pass = w,
                                ![r].ver = row[req[r].u].ver + 1],
             Stays
      PROVE  Step
  <2>1. PICK h \in Frame : h = req[r]
    BY <1>0
  <2>2. IsFull(h.u)
    BY <1>0, <2>1 DEF GoodFrame, OfFull
  <2>3. PICK u \in Users : u = h.u /\ IsFull(u) /\ row[u] # NoRow
    BY <2>2 DEF IsFull
  <2>4. PICK a \in Row : a = row[u] /\ ~a.guest
    BY <2>3, RowType DEF IsFull, IInv
  <2>5. a.ver \in 0..MaxVersion /\ MaxVersion \in Nat
    BY AccountsAssumption DEF Row
  <2>6. PICK v \in 0..MaxVersion : v = a.ver + 1
    BY <1>2, <2>1, <2>3, <2>4, <2>5
  <2>. DEFINE g == [a EXCEPT !.pass = w, !.ver = v]
              f == [h EXCEPT !.pc = "set.note", !.pass = w, !.ver = v]
  <2>7. /\ g \in Row /\ ~g.guest /\ g.name = a.name /\ g.email = a.email
        /\ g.pass = w /\ g.ver = v
    BY <2>4 DEF Row
  <2>8. row' = [row EXCEPT ![u] = g]
    BY <1>2, <2>1, <2>3, <2>4, <2>6 DEF IInv, TypeOK
  <2>9. "set.note" \in Stages
    BY DEF Stages
  <2>10. f \in Frame
    BY <2>9 DEF Frame
  <2>11. f.pc = "set.note" /\ f.pass = w /\ f.ver = v /\ f.u = u
    BY <2>3 DEF Frame
  <2>12. req' = [req EXCEPT ![r] = f]
    BY <1>2, <2>1, <2>3, <2>4, <2>6 DEF IInv, TypeOK
  <2>. HIDE DEF f, g
  <2>13. w # NoPassword
    BY AccountsAssumption
  <2>14. \A s \in Subjects : link'[s] = link[s]
    BY <1>0
  <2>15. link' \in [Subjects -> Users \cup {Nobody}]
    BY <1>0 DEF IInv, TypeOK
  <2>16. g.ver > row[u].ver
    BY <2>4, <2>5, <2>6, <2>7
  <2>17. RowStep
    BY <2>4, <2>7, <2>8, <2>13, <2>14, <2>15, <2>16, RowWrite
  <2>18. WasPassword(u, v, w)'
    BY <2>7, <2>8, NewPassword
  <2>19. "set.note" \notin Naming \cup Subjected \cup OfUser \cup {"reauth.mint", "exchange"}
    BY DEF Naming, Subjected, OfUser
  <2>20. GoodFrame(f)'
    BY <2>11, <2>18, <2>19 DEF GoodFrame, WasPassword
  <2>21. FrameStep
    BY <2>10, <2>12, <2>20, FrameMove
  <2>. QED
    BY <1>0, <1>2, <2>17, <2>21, CountKept, SessionKept, ElevatedKept, FlowKept
       DEF Stays, Step, RequestStep
<1>. QED
  BY <1>1, <1>2 DEF SetWrite

(* noteVersionBumped, and the fresh session of the browser that set it.     *)
LEMMA SetNoteStep ==
    ASSUME IInv, NEW r \in Requests, SetNote(r)
    PROVE  Step
<1>0. /\ req[r] \in Frame /\ GoodFrame(req[r]) /\ req[r].pc = "set.note"
      /\ UNCHANGED <<row, link, away, flows, served>>
      /\ issueToken(r, req[r].u, req[r].ver, req[r].pass)
      /\ minVer' = [minVer EXCEPT ![req[r].u] = IF @ >= req[r].ver THEN @ ELSE req[r].ver]
  BY AtFrame DEF SetNote
<1>1. /\ req[r].pass \in Passwords /\ req[r].ver \in 0..MaxVersion
      /\ WasPassword(req[r].u, req[r].ver, req[r].pass) /\ req[r].u \in Users
  BY <1>0 DEF GoodFrame, Proving, WasPassword, IsFull, Frame
<1>2. PICK u \in Users, ver \in 0..MaxVersion, pass \in Passwords :
        u = req[r].u /\ ver = req[r].ver /\ pass = req[r].pass
  BY <1>1
<1>3. RowStep
  BY <1>0, RowKept
<1>4. CountStep
  <2>1. minVer \in [Users -> 0..MaxVersion]
    BY DEF IInv, TypeOK
  <2>2. minVer' = [minVer EXCEPT ![u] = IF @ >= ver THEN @ ELSE ver]
    BY <1>0, <1>2
  <2>3. minVer' \in [Users -> 0..MaxVersion]
    BY <2>1, <2>2
  <2>. QED
    BY <1>0, <2>3 DEF CountStep, IInv, TypeOK
<1>. DEFINE t == [sub |-> u, ver |-> ver, by |-> pass]
<1>5. pass \in Grounds /\ t \in Token
  BY TokenType DEF Grounds
<1>6. GoodSession(t)
  BY <1>1, <1>2, ByPassword
<1>. HIDE DEF t
<1>7. GoodSession(t)'
  BY <1>3, <1>5, <1>6, SessionStays
<1>8. RequestStep
  BY <1>0, <1>2, <1>5, <1>7, IssueSteps DEF t
<1>. QED
  BY <1>3, <1>4, <1>8 DEF Step

-----------------------------------------------------------------------------
(* What happens without a request: a tab leaves for Google, a seal runs     *)
(* out, guests are swept.                                                   *)

LEMMA GoogleStartStep ==
    ASSUME IInv, NEW b \in Browsers, googleStart(b)
    PROVE  Step
<1>1. /\ start(b, "sign-in", Nobody) /\ UNCHANGED <<row, link, minVer, served>>
      /\ UNCHANGED <<sess, elev, req>>
  BY DEF googleStart, dbVars
<1>2. "sign-in" \in Purposes
  BY DEF Purposes
<1>3. FlowStep /\ CountStep
  BY <1>1, <1>2, StartSteps
<1>. QED
  BY <1>1, <1>3, RowKept, FrameKept, SessionKept, ElevatedKept DEF Step, RequestStep

LEMMA FlowExpiresStep ==
    ASSUME IInv, NEW b \in Browsers, FlowExpires(b)
    PROVE  Step
<1>1. /\ cookie' = [cookie EXCEPT ![b] = NoFlow]
      /\ UNCHANGED <<row, link, minVer, served, away, flows>> /\ UNCHANGED <<sess, elev, req>>
  BY DEF FlowExpires, dbVars
<1>2. FlowStep
  <2>1. cookie \in [Browsers -> Sealed \cup {NoFlow}]
    BY DEF IInv, TypeOK
  <2>2. ASSUME NEW d \in Browsers, cookie'[d] = NoFlow PROVE GoodFlow(cookie[d])'
    BY <2>2 DEF GoodFlow
  <2>. QED
    BY <1>1, <2>1, <2>2 DEF FlowStep
<1>. QED
  BY <1>1, <1>2, RowKept, CountKept, FrameKept, SessionKept, ElevatedKept DEF Step, RequestStep

(* A swept guest owned no identity, so none is lost with it.                *)
LEMMA SweepStep ==
    ASSUME IInv, sweep
    PROVE  Step
<1>1. PICK D \in SUBSET {u \in Live : row[u].guest} :
         /\ row' = [u \in Users |-> IF u \in D THEN NoRow ELSE row[u]]
         /\ link' = [s \in Subjects |-> IF link[s] \in D THEN Nobody ELSE link[s]]
  BY DEF sweep
<1>2. /\ row \in [Users -> Row \cup {NoRow}] /\ link \in [Subjects -> Users \cup {Nobody}]
      /\ \A s \in Subjects : link[s] # Nobody => IsFull(link[s])
  BY DEF IInv, TypeOK, RowInv
<1>3. D \subseteq Users /\ \A u \in D : row[u] # NoRow /\ row[u].guest
  BY DEF Live
<1>4. /\ row' \in [Users -> Row \cup {NoRow}]
      /\ \A u \in D : row'[u] = NoRow
      /\ \A u \in Users \ D : row'[u] = row[u]
  BY <1>1, <1>2, <1>3
<1>5. link' = link
  <2>1. ASSUME NEW s \in Subjects PROVE link[s] \notin D
    BY <1>2, <1>3, AccountsAssumption DEF IsFull
  <2>. QED
    BY <1>1, <1>2, <2>1
<1>6. ASSUME NEW u \in Users, IsFull(u) PROVE IsFull(u)' /\ row'[u] = row[u]
  BY <1>3, <1>4, <1>6 DEF IsFull
<1>7. Monotone
  BY <1>5, <1>6 DEF Monotone
<1>8. RowInv'
  <2>1. ASSUME NEW u \in Users, row'[u] # NoRow PROVE row'[u] = row[u] /\ u \in Live
    BY <1>4, <2>1 DEF Live
  <2>2. \A u \in Users : row'[u] # NoRow /\ row'[u].guest => row'[u].pass = NoPassword
    BY <2>1 DEF IInv, RowInv, Live
  <2>3. \A s \in Subjects : link'[s] # Nobody => IsFull(link[s])'
    <3>1. ASSUME NEW s \in Subjects, link'[s] # Nobody PROVE IsFull(link[s])'
      <4>1. PICK u \in Users : u = link[s] /\ u = link'[s] /\ IsFull(u)
        BY <1>2, <1>5, <3>1
      <4>2. IsFull(u)'
        BY <1>6, <4>1
      <4>. QED
        BY <4>1, <4>2
    <3>. QED
      BY <3>1
  <2>4. DoorForEveryAccount'
    BY <1>5, <2>1 DEF IInv, RowInv, DoorForEveryAccount, Live, Linked
  <2>. QED
    BY <2>2, <2>3, <2>4 DEF RowInv
<1>9. RowStep
  BY <1>2, <1>4, <1>5, <1>7, <1>8 DEF RowStep
<1>10. UNCHANGED <<minVer, sess, elev, cookie, away, flows, req, served>>
  BY DEF sweep, flowVars
<1>. QED
  BY <1>9, <1>10, CountKept, FrameKept, SessionKept, ElevatedKept, FlowKept DEF Step, RequestStep

-----------------------------------------------------------------------------
(* The invariant.                                                           *)

LEMMA InitInvariant == Init => IInv
<1> SUFFICES ASSUME Init PROVE IInv
  OBVIOUS
<1>1. {MaxVersion, MaxFlows, MaxRequests} \subseteq Nat
  BY AccountsAssumption
<1>2. TypeOK
  BY <1>1 DEF Init, TypeOK
<1>3. RowInv
  BY DEF Init, RowInv, DoorForEveryAccount, Live
<1>. QED
  BY <1>2, <1>3 DEF Init, IInv, GoodSession, GoodElevated, GoodFlow

LEMMA PasswordStep ==
    ASSUME IInv, NEW r \in Requests, Password(r)
    PROVE  Step
<1>. QED
  BY RegisterLookupStep, RegisterCreateStep, LoginReadStep, LoginAnswerStep, CreateGuestStep,
     ClaimReadStep, ClaimWriteStep, SetReadStep, SetNoteStep, SetWriteStep DEF Password

LEMMA GoogleStep ==
    ASSUME IInv, NEW r \in Requests, Google(r)
    PROVE  Step
<1>. QED
  BY LinkHasGoogleStep, LinkMethodStep, LinkVerifyStep, ReauthMethodStep, ExchangeStep,
     SubjectOwnerStep, MintStep, LinkFullReadStep, LinkFullAnswerStep, LinkFullCreateStep,
     LinkGuestReadStep, LinkGuestWriteStep, SignInReadStep, CreateGoogleUserStep DEF Google

LEMMA NextSteps ==
    ASSUME IInv, [Next]_vars
    PROVE  Step
<1>1. ASSUME NEW r \in Requests, NEW b \in Browsers, Ask(r, b) PROVE Step
  BY <1>1, AskSteps
<1>2. ASSUME NEW r \in Requests, Password(r) PROVE Step
  BY <1>2, PasswordStep
<1>3. ASSUME NEW r \in Requests, Google(r) PROVE Step
  BY <1>3, GoogleStep
<1>4. ASSUME NEW b \in Browsers, googleStart(b) PROVE Step
  BY <1>4, GoogleStartStep
<1>5. ASSUME NEW b \in Browsers, FlowExpires(b) PROVE Step
  BY <1>5, FlowExpiresStep
<1>6. CASE sweep
  BY <1>6, SweepStep
<1>7. CASE UNCHANGED vars
  BY <1>7, RowKept, CountKept, FrameKept, SessionKept, ElevatedKept, FlowKept
     DEF vars, Step, RequestStep
<1>. QED
  BY <1>1, <1>2, <1>3, <1>4, <1>5, <1>6, <1>7 DEF Next

(* The invariant holds throughout: whatever handlers interleave at their    *)
(* awaits, each still stands on what it found out before (AuthService).     *)
THEOREM Invariance == Spec => []IInv
<1>1. ASSUME IInv, [Next]_vars PROVE IInv'
  BY <1>1, NextSteps, StepsPreserve DEF Step
<1>. QED
  BY <1>1, InitInvariant, PTL DEF Spec

(* Every full account keeps a way in, a token granted on a Google identity  *)
(* is its owner's, and no admitted session rests on a replaced password     *)
(* (signInWithGoogle, linkGoogleToFull, linkGoogleToGuest, setPassword).    *)
THEOREM AccountSafety == Spec => []AccountsSound
<1>1. ASSUME IInv PROVE AccountsSound
  <2>1. DoorForEveryAccount /\ TypeOK
    BY <1>1 DEF IInv, RowInv
  <2>2. GoogleTokenIsOwners
    BY <1>1 DEF IInv, GoodSession, GoodElevated, GoogleTokenIsOwners
  <2>3. OldPasswordOpensNothing
    <3>1. ASSUME NEW t \in Token, GoodSession(t), t.by \in Passwords, t.ver >= row[t.sub].ver
          PROVE  row[t.sub].pass = t.by
      <4>0. t # NoToken
        BY AbsentAssumption
      <4>1. IsFull(t.sub) /\ t.ver <= row[t.sub].ver
            /\ (t.ver = row[t.sub].ver => row[t.sub].pass = t.by)
        BY <3>1, <4>0 DEF GoodSession, WasPassword
      <4>2. row[t.sub].ver \in Int /\ t.ver \in Int
        BY <1>1, <4>1, RowType DEF IsFull, IInv, Token
      <4>. QED
        BY <3>1, <4>1, <4>2
    <3>2. \A b \in Browsers : sess[b] # NoToken => sess[b] \in Token /\ GoodSession(sess[b])
      BY <1>1 DEF IInv, TypeOK
    <3>. QED
      BY <3>1, <3>2 DEF OldPasswordOpensNothing
  <2>. QED
    BY <2>1, <2>2, <2>3 DEF AccountsSound
<1>. QED
  BY <1>1, Invariance, PTL

(* No step renames, empties or deletes a full account, and none moves a     *)
(* Google identity, in whatever order claims, links and sweeps arrive.      *)
THEOREM OwnersKeep == Spec => AccountsKept
<1>1. ASSUME IInv, [Next]_vars
      PROVE  /\ \A u \in Live : ~row[u].guest =>
                  /\ row'[u] # NoRow
                  /\ [row'[u] EXCEPT !.pass = row[u].pass, !.ver = row[u].ver] = row[u]
             /\ \A s \in Subjects : link[s] # Nobody => link'[s] = link[s]
  <2>1. RowStep
    BY <1>1, NextSteps DEF Step
  <2>2. ASSUME NEW u \in Live, ~row[u].guest
        PROVE  /\ row'[u] # NoRow
               /\ [row'[u] EXCEPT !.pass = row[u].pass, !.ver = row[u].ver] = row[u]
    <3>1. u \in Users /\ IsFull(u) /\ row[u] \in Row
      BY <1>1, <2>2, RowType DEF Live, IsFull, IInv
    <3>2. IsFull(u)' /\ row'[u].name = row[u].name /\ row'[u].email = row[u].email
      BY <2>1, <3>1 DEF RowStep, Monotone
    <3>3. row'[u] # NoRow /\ row'[u] \in Row /\ ~row'[u].guest
      BY <2>1, <3>1, <3>2 DEF RowStep, IsFull
    <3>. QED
      BY <2>2, <3>1, <3>2, <3>3 DEF Row
  <2>. QED
    BY <2>1, <2>2 DEF RowStep, Monotone
<1>2. ASSUME IInv, [Next]_vars
      PROVE  [\A s \in Subjects : link[s] # Nobody => link'[s] = link[s]]_vars
  BY <1>1, <1>2
<1>3. ASSUME IInv, [Next]_vars
      PROVE  [\A u \in Live : ~row[u].guest =>
                /\ row'[u] # NoRow
                /\ [row'[u] EXCEPT !.pass = row[u].pass, !.ver = row[u].ver] = row[u]]_vars
  BY <1>1, <1>3
<1>. QED
  BY <1>2, <1>3, Invariance, PTL DEF Spec, AccountsKept, FullAccountKept, IdentityStays

-----------------------------------------------------------------------------
(* Histories of calls.  A recursion over a history is followed step by      *)
(* step: what holds of the state before the first call and is kept by every *)
(* call holds of the state after any number of them.                        *)
(* What holds at 0 and of each number after one it holds of holds up to n:  *)
(* there is no least exception.                                             *)
LEMMA CountedUp ==
    ASSUME NEW n \in Nat, NEW T, 0 \in T, \A i \in 1..n : i - 1 \in T => i \in T
    PROVE  0..n \subseteq T
<1> DEFINE out == {i \in Nat : i \in 0..n /\ i \notin T}
<1> SUFFICES ASSUME out # {} PROVE FALSE
  OBVIOUS
<1>1. out \subseteq Nat
  OBVIOUS
<1>2. PICK i \in out : \A j \in out : ~ (<<j, i>> \in OpToRel(<, Nat))
  <2> HIDE DEF out
  <2>. QED BY <1>1, WFMin, NatLessThanWellFounded
<1>3. i \in 1..n /\ i - 1 \in 0..n /\ i \notin T
  OBVIOUS
<1>4. i - 1 \in T
  <2>1. i - 1 < i /\ i - 1 \in Nat /\ i \in Nat
    BY <1>3
  <2>2. <<i - 1, i>> \in OpToRel(<, Nat)
    BY <2>1 DEF OpToRel
  <2>. QED BY <1>2, <1>3, <2>2, <2>1
<1>. QED BY <1>3, <1>4

(* g is the sequence of states the steps F lead through.                    *)
IsFold(g, S, n, init, F) ==
    /\ g \in [0..n -> S]
    /\ g[0] = init
    /\ \A i \in 1..n : g[i] = F[i][g[i - 1]]

(* Steps that never fail lead all the way.                                  *)
LEMMA FoldExists ==
    ASSUME NEW S, NEW n \in Nat, NEW init \in S, NEW F \in [1..n -> [S -> S]]
    PROVE  \E g : IsFold(g, S, n, init, F)
<1> DEFINE Good(g, m) == g \in [0..m -> S] /\ \A i \in 0..m : g[i] = IF i = 0 THEN init ELSE F[i][g[i - 1]]
           T == {m \in 0..n : \E g \in [0..m -> S] : Good(g, m)}
<1>1. 0 \in T
  <2>1. Good([i \in 0..0 |-> init], 0)
    OBVIOUS
  <2>2. [i \in 0..0 |-> init] \in [0..0 -> S] /\ 0 \in 0..n
    OBVIOUS
  <2> HIDE DEF Good
  <2>. QED BY <2>1, <2>2
<1>2. ASSUME NEW m \in 1..n, m - 1 \in T PROVE m \in T
  <2>1. PICK g \in [0..(m-1) -> S] : Good(g, m - 1)
    BY <1>2
  <2> DEFINE k == [i \in 0..m |-> IF i = m THEN F[m][g[m - 1]] ELSE g[i]]
  <2>2. g[m-1] \in S /\ F[m][g[m - 1]] \in S
    OBVIOUS
  <2>3. k \in [0..m -> S]
    BY <2>2
  <2>4. ASSUME NEW i \in 0..m PROVE k[i] = IF i = 0 THEN init ELSE F[i][k[i - 1]]
    <3>1. CASE i = m
      <4>1. i # 0 /\ i - 1 \in 0..m /\ i - 1 # m /\ i - 1 = m - 1
        BY <3>1
      <4>2. k[i] = F[m][g[m-1]] /\ k[i-1] = g[m-1]
        BY <4>1, <3>1
      <4>. QED BY <4>1, <4>2, <3>1
    <3>2. CASE i # m
      <4>1. i \in 0..(m-1) /\ (i # 0 => i - 1 \in 0..m /\ i - 1 # m)
        BY <3>2
      <4>2. k[i] = g[i] /\ (i # 0 => k[i-1] = g[i-1])
        BY <4>1, <3>2
      <4>. QED BY <4>1, <4>2, <2>1
    <3>. QED BY <3>1, <3>2
  <2>5. Good(k, m) /\ m \in 0..n
    <3> HIDE DEF k
    <3>. QED BY <2>3, <2>4
  <2> HIDE DEF Good, k
  <2>. QED BY <2>3, <2>5
<1>3. n \in T
  <2>1. 0..n \subseteq T
    <3> HIDE DEF T
    <3>. QED BY <1>1, <1>2, CountedUp
  <2>. QED BY <2>1
<1>4. PICK g \in [0..n -> S] : Good(g, n)
  BY <1>3
<1>5. g[0] = init /\ \A i \in 1..n : g[i] = F[i][g[i - 1]]
  BY <1>4
<1>. QED BY <1>5 DEF IsFold

(* An answer, once given, stays.                                            *)
LEMMA AnswersStay ==
    ASSUME NEW n \in Nat, NEW s, \A i \in 0..n : s[i] \in Seq(BOOLEAN),
           s[0] = <<>>, \A i \in 1..n : \E ok \in BOOLEAN : s[i] = Append(s[i - 1], ok)
    PROVE  \A j \in 0..n : Len(s[j]) = j /\ \A i \in 1..j : s[j][i] = s[i][i]
<1> DEFINE T == {j \in 0..n : Len(s[j]) = j /\ \A i \in 1..j : s[j][i] = s[i][i]}
<1>1. 0 \in T
  OBVIOUS
<1>2. ASSUME NEW j \in 1..n, j - 1 \in T PROVE j \in T
  <2>1. PICK ok \in BOOLEAN : s[j] = Append(s[j - 1], ok)
    OBVIOUS
  <2>2. s[j - 1] \in Seq(BOOLEAN) /\ Len(s[j - 1]) = j - 1
    BY <1>2
  <2>3. Len(s[j]) = j /\ \A i \in 1..(j - 1) : s[j][i] = s[j - 1][i]
    BY <2>1, <2>2, AppendProperties
  <2>4. \A i \in 1..j : s[j][i] = s[i][i]
    <3>1. \A i \in 1..(j - 1) : s[j][i] = s[i][i]
      BY <1>2, <2>3
    <3>2. \A i \in 1..j : i = j \/ i \in 1..(j - 1)
      OBVIOUS
    <3>. QED
      BY <3>1, <3>2
  <2>. QED
    BY <2>3, <2>4
<1>3. 0..n \subseteq T
  <2> HIDE DEF T
  <2>. QED
    BY <1>1, <1>2, CountedUp
<1>. QED
  BY <1>3

-----------------------------------------------------------------------------
(* The control bucket of a socket.                                          *)

Sockets == [tokens : Int, lastRefill : Int, said : Seq(BOOLEAN)]
NewSocket(now) == [tokens |-> BUCKET_CAPACITY, lastRefill |-> now, said |-> <<>>]

(* What a command leaves of the bucket.                                     *)
LEMMA TokenTaken ==
    ASSUME NEW st \in Sockets, NEW now \in Int
    PROVE  LET new == takeToken(st, now)
               ok == new.said[Len(new.said)] IN
           /\ new \in Sockets /\ ok \in BOOLEAN
           /\ new.lastRefill = now
           /\ new.said = Append(st.said, ok)
           /\ ok => new.tokens >= 0
           /\ new.tokens + (IF ok THEN One ELSE 0) <= BUCKET_CAPACITY
           /\ new.tokens + (IF ok THEN One ELSE 0)
                <= st.tokens + (now - st.lastRefill) * BUCKET_REFILL
<1> DEFINE all == st.tokens + (now - st.lastRefill) * BUCKET_REFILL
           tokens == Smaller(BUCKET_CAPACITY, all)
           new == takeToken(st, now)
           ok == new.said[Len(new.said)]
<1>1. BUCKET_CAPACITY = 12 /\ BUCKET_REFILL = 3 /\ One = 6
  BY DEF BUCKET_CAPACITY, BUCKET_REFILL, One
<1>2. st.tokens \in Int /\ st.lastRefill \in Int /\ st.said \in Seq(BOOLEAN)
  BY DEF Sockets
<1>3. all \in Int
  BY <1>1, <1>2
<1>4. tokens \in Int /\ tokens <= all /\ tokens <= BUCKET_CAPACITY
  <2> HIDE DEF all
  <2>. QED
    BY <1>1, <1>3 DEF Smaller
<1>5. new = [tokens |-> IF tokens < One THEN tokens ELSE tokens - One,
             lastRefill |-> now, said |-> Append(st.said, tokens >= One)]
  BY DEF takeToken
<1>6. Len(new.said) = Len(st.said) + 1 /\ ok = (tokens >= One) /\ new.said \in Seq(BOOLEAN)
  <2> HIDE DEF tokens
  <2>1. (tokens >= One) \in BOOLEAN
    BY <1>1, <1>4
  <2> DEFINE b == tokens >= One
  <2> HIDE DEF b
  <2>2. Append(st.said, b) \in Seq(BOOLEAN) /\ Len(Append(st.said, b)) = Len(st.said) + 1
        /\ Append(st.said, b)[Len(st.said) + 1] = b
    BY <1>2, <2>1, AppendProperties DEF b
  <2>3. new.said = Append(st.said, b)
    BY <1>5 DEF b
  <2> HIDE DEF new
  <2>. QED
    BY <2>2, <2>3 DEF b
<1>7. new.said = Append(st.said, ok)
  BY <1>5, <1>6
<1>8. new.tokens = (IF ok THEN tokens - One ELSE tokens) /\ new.lastRefill = now
  <2>1. /\ new.tokens = (IF tokens < One THEN tokens ELSE tokens - One)
        /\ new.lastRefill = now
    BY <1>5
  <2>2. ok = (tokens >= One)
    BY <1>6
  <2>3. tokens \in Int
    BY <1>4
  <2> HIDE DEF tokens, new, ok
  <2>4. CASE tokens < One
    <3>1. ~(tokens >= One)
      BY <1>1, <2>3, <2>4
    <3>2. ~ok
      BY <2>2, <3>1, Zenon
    <3>. QED
      BY <2>1, <2>4, <3>2
  <2>5. CASE ~(tokens < One)
    <3>1. tokens >= One
      BY <1>1, <2>3, <2>5
    <3>2. ok
      BY <2>2, <3>1, Zenon
    <3>. QED
      BY <2>1, <2>5, <3>2
  <2>. QED
    BY <2>4, <2>5
<1>9. (ok => tokens >= One) /\ ok \in BOOLEAN /\ tokens \in Int
  <2>1. ok = (tokens >= One)
    BY <1>6
  <2>2. tokens \in Int /\ (tokens >= One) \in BOOLEAN
    BY <1>1, <1>4
  <2> HIDE DEF tokens, new, ok
  <2>3. (ok => tokens >= One) /\ ok \in BOOLEAN
    BY <2>1, <2>2, Zenon
  <2>. QED
    BY <2>2, <2>3
<1>10. new.said \in Seq(BOOLEAN) /\ new = [tokens |-> new.tokens,
             lastRefill |-> new.lastRefill, said |-> new.said]
  BY <1>5, <1>6
<1>11. tokens <= all /\ tokens <= BUCKET_CAPACITY
  BY <1>4
<1> HIDE DEF tokens, all, new, ok
<1>12. ok \in BOOLEAN /\ new.tokens \in Int
  BY <1>1, <1>8, <1>9
<1>13. new \in Sockets
  BY <1>8, <1>10, <1>12 DEF Sockets
<1>14. /\ ok => new.tokens >= 0
       /\ new.tokens + (IF ok THEN One ELSE 0) = tokens
  <2>1. CASE ok
    BY <1>1, <1>8, <1>9, <2>1
  <2>2. CASE ~ok
    BY <1>1, <1>8, <1>9, <2>2
  <2>. QED
    BY <2>1, <2>2
<1>. QED
  BY <1>7, <1>8, <1>11, <1>12, <1>13, <1>14 DEF all, new, ok

(* A recursion over calls that answers each has a run.                      *)
LEMMA SocketRuns ==
    ASSUME NEW h \in Seq(Int), h # <<>>
    PROVE  \E v \in [0..Len(h) -> Sockets] :
              /\ v[0] = NewSocket(h[1])
              /\ \A i \in 1..Len(h) : v[i] = takeToken(v[i - 1], h[i])
              /\ Granted(h) = v[Len(h)].said
<1> DEFINE F == [i \in 1..Len(h) |-> [st \in Sockets |-> takeToken(st, h[i])]]
<1>1. \A i \in 1..Len(h), st \in Sockets : takeToken(st, h[i]) \in Sockets
  <2>1. \A i \in 1..Len(h) : h[i] \in Int
    OBVIOUS
  <2>. QED
    BY <2>1, TokenTaken
<1>2. F \in [1..Len(h) -> [Sockets -> Sockets]]
  BY <1>1
<1>3. Len(h) \in Nat /\ NewSocket(h[1]) \in Sockets
  <2>1. h[1] \in Int
    OBVIOUS
  <2>2. BUCKET_CAPACITY \in Int /\ <<>> \in Seq(BOOLEAN)
    BY DEF BUCKET_CAPACITY, One
  <2>. QED
    BY <2>1, <2>2 DEF NewSocket, Sockets
<1>4. PICK g : IsFold(g, Sockets, Len(h), NewSocket(h[1]), F)
  <2> HIDE DEF F
  <2>. QED
    BY <1>2, <1>3, FoldExists
<1> DEFINE IsRun(r) ==
        r = [i \in 0..Len(h) |->
               IF i = 0 THEN [tokens |-> BUCKET_CAPACITY, lastRefill |-> h[1], said |-> <<>>]
               ELSE takeToken(r[i - 1], h[i])]
<1>5. IsRun(g)
  <2>1. \A i \in 0..Len(h) : i # 0 => i \in 1..Len(h) /\ g[i - 1] \in Sockets
    <3>1. \A i \in 0..Len(h) : i # 0 => i \in 1..Len(h) /\ i - 1 \in 0..Len(h)
      BY <1>3
    <3> HIDE DEF F
    <3>. QED
      BY <1>4, <3>1 DEF IsFold
  <2>2. ASSUME NEW i \in 1..Len(h) PROVE g[i] = takeToken(g[i - 1], h[i])
    <3>1. g[i] = F[i][g[i - 1]]
      BY <1>4 DEF IsFold
    <3>2. g[i - 1] \in Sockets
      BY <2>1
    <3>. QED
      BY <3>1, <3>2
  <2>3. g[0] = NewSocket(h[1]) /\ g = [i \in 0..Len(h) |-> g[i]]
    BY <1>4 DEF IsFold
  <2>. QED
    BY <2>1, <2>2, <2>3 DEF NewSocket
<1> DEFINE v == CHOOSE r : IsRun(r)
<1>6. IsRun(v)
  <2> HIDE DEF IsRun
  <2>. QED
    BY <1>5
<1>7. Granted(h) = v[Len(h)].said
  BY DEF Granted
<1>8. /\ v = [i \in 0..Len(h) |-> v[i]] /\ v[0] = NewSocket(h[1])
      /\ \A i \in 1..Len(h) : v[i] = takeToken(v[i - 1], h[i])
  <2> HIDE DEF v
  <2>. QED
    BY <1>6 DEF NewSocket
<1> HIDE DEF v, IsRun
<1> DEFINE T == {i \in 0..Len(h) : v[i] \in Sockets}
<1>9. 0..Len(h) \subseteq T
  <2>1. 0 \in T
    BY <1>3, <1>8
  <2>2. ASSUME NEW i \in 1..Len(h), i - 1 \in T PROVE i \in T
    <3>1. i - 1 \in 0..Len(h) /\ i \in 0..Len(h)
      BY <1>3
    <3>2. v[i - 1] \in Sockets /\ v[i] = takeToken(v[i - 1], h[i])
      BY <1>8, <2>2
    <3>3. v[i] \in Sockets
      BY <1>1, <3>2
    <3>. QED
      BY <3>1, <3>3
  <2> HIDE DEF T
  <2>. QED
    BY <1>3, <2>1, <2>2, CountedUp
<1>10. v \in [0..Len(h) -> Sockets]
  BY <1>8, <1>9
<1>. QED
  BY <1>7, <1>8, <1>10

(* A socket is granted, in any stretch, the capacity and the refill.        *)
LEMMA GrantsBounded ==
    ASSUME NEW h \in Seq(Int), NEW i \in 1..Len(h), NEW j \in 1..Len(h), i <= j, Granted(h)[j]
    PROVE  One * Cardinality({k \in i..j : Granted(h)[k]})
              <= BUCKET_CAPACITY + (h[j] - h[i]) * BUCKET_REFILL
<1> DEFINE n == Len(h)
           said == Granted(h)
<1>1. n \in Nat /\ h # <<>> /\ \A k \in 1..n : h[k] \in Int
  OBVIOUS
<1>2. PICK v \in [0..n -> Sockets] :
          /\ v[0] = NewSocket(h[1])
          /\ \A k \in 1..n : v[k] = takeToken(v[k - 1], h[k])
          /\ said = v[n].said
  BY <1>1, SocketRuns
<1> DEFINE s == [k \in 0..n |-> v[k].said]
           ok(k) == s[k][Len(s[k])]
<1>3. ASSUME NEW k \in 1..n
      PROVE  /\ v[k] \in Sockets /\ v[k - 1] \in Sockets /\ ok(k) \in BOOLEAN
             /\ v[k].lastRefill = h[k]
             /\ s[k] = Append(s[k - 1], ok(k))
             /\ ok(k) => v[k].tokens >= 0
             /\ v[k].tokens + (IF ok(k) THEN One ELSE 0) <= BUCKET_CAPACITY
             /\ v[k].tokens + (IF ok(k) THEN One ELSE 0)
                  <= v[k - 1].tokens + (h[k] - v[k - 1].lastRefill) * BUCKET_REFILL
  <2>1. /\ k \in 0..n /\ k - 1 \in 0..n
        /\ v[k - 1] \in Sockets /\ v[k] \in Sockets
        /\ h[k] \in Int /\ v[k] = takeToken(v[k - 1], h[k])
    <3>1. k \in 0..n /\ k - 1 \in 0..n
      BY <1>1
    <3>2. v[k - 1] \in Sockets /\ v[k] \in Sockets
      <4> HIDE DEF n
      <4>. QED
        BY <1>2, <3>1
    <3>3. h[k] \in Int /\ v[k] = takeToken(v[k - 1], h[k])
      <4> HIDE DEF n
      <4>. QED
        BY <1>1, <1>2
    <3>. QED
      BY <3>1, <3>2, <3>3
  <2>2. s[k] = v[k].said /\ s[k - 1] = v[k - 1].said
    BY <2>1
  <2> DEFINE old == v[k - 1]
             new == v[k]
             now == h[k]
  <2>3. old \in Sockets /\ now \in Int /\ new = takeToken(old, now) /\ ok(k) = new.said[Len(new.said)]
    BY <2>1, <2>2
  <2> HIDE DEF old, new, now, ok
  <2> DEFINE p == ok(k)
  <2>4. p = new.said[Len(new.said)]
    BY <2>3
  <2> HIDE DEF p
  <2>5. /\ new \in Sockets /\ p \in BOOLEAN
        /\ new.lastRefill = now
        /\ new.said = Append(old.said, p)
        /\ p => new.tokens >= 0
        /\ new.tokens + (IF p THEN One ELSE 0) <= BUCKET_CAPACITY
        /\ new.tokens + (IF p THEN One ELSE 0)
             <= old.tokens + (now - old.lastRefill) * BUCKET_REFILL
    <3> DEFINE r == takeToken(old, now)
               q == r.said[Len(r.said)]
    <3>1. /\ r \in Sockets /\ q \in BOOLEAN
          /\ r.lastRefill = now
          /\ r.said = Append(old.said, q)
          /\ q => r.tokens >= 0
          /\ r.tokens + (IF q THEN One ELSE 0) <= BUCKET_CAPACITY
          /\ r.tokens + (IF q THEN One ELSE 0)
               <= old.tokens + (now - old.lastRefill) * BUCKET_REFILL
      BY <2>3, TokenTaken
    <3>2. r = new /\ q = p
      BY <2>3, <2>4
    <3> HIDE DEF r, q
    <3>. QED
      BY <3>1, <3>2
  <2>. QED
    BY <2>1, <2>2, <2>5 DEF old, new, now, p
<1>4. \A m \in 0..n : Len(s[m]) = m /\ \A k \in 1..m : s[m][k] = s[k][k]
  <2>1. \A k \in 0..n : s[k] \in Seq(BOOLEAN)
    BY <1>2 DEF Sockets
  <2>2. s[0] = <<>>
    BY <1>1, <1>2 DEF NewSocket
  <2>3. \A k \in 1..n : \E b \in BOOLEAN : s[k] = Append(s[k - 1], b)
    BY <1>3
  <2> HIDE DEF s
  <2>. QED
    BY <1>1, <2>1, <2>2, <2>3, AnswersStay
<1>5. \A k \in 1..n : said[k] = ok(k)
  <2>1. n \in 0..n /\ said = s[n]
    BY <1>1, <1>2
  <2>2. \A k \in 1..n : k \in 0..n
    OBVIOUS
  <2> HIDE DEF s, said
  <2>. QED
    BY <1>4, <2>1, <2>2
<1> HIDE DEF ok, said, s
<1> DEFINE G(m) == {k \in i..m : said[k]}
           T == {m \in 0..n : m >= i =>
                   /\ IsFiniteSet(G(m))
                   /\ v[m].tokens + One * Cardinality(G(m))
                        <= BUCKET_CAPACITY + (h[m] - h[i]) * BUCKET_REFILL}
<1>6. BUCKET_CAPACITY = 12 /\ BUCKET_REFILL = 3 /\ One = 6
  BY DEF BUCKET_CAPACITY, BUCKET_REFILL, One
<1>7. ASSUME NEW m \in 1..n, m >= i
      PROVE  G(m) = IF ok(m) THEN G(m - 1) \cup {m} ELSE G(m - 1)
  <2>1. \A k : k \in i..m <=> k \in i..(m - 1) \/ k = m
    BY <1>7
  <2>. QED
    BY <1>5, <2>1
<1>8. \A m \in 1..n : v[m].tokens \in Int /\ h[m] \in Int
  BY <1>1, <1>3 DEF Sockets
<1>9. 0 \in T
  OBVIOUS
<1>10. ASSUME NEW m \in 1..n, m - 1 \in T PROVE m \in T
  <2> SUFFICES ASSUME m >= i
               PROVE  /\ IsFiniteSet(G(m))
                      /\ v[m].tokens + One * Cardinality(G(m))
                           <= BUCKET_CAPACITY + (h[m] - h[i]) * BUCKET_REFILL
    OBVIOUS
  <2>1. IsFiniteSet(G(m - 1)) /\ m \notin G(m - 1) /\ Cardinality(G(m - 1)) \in Nat
    <3>1. IsFiniteSet(G(m - 1))
      <4>1. G(m - 1) \subseteq i..(m - 1) /\ i \in Int /\ m - 1 \in Int
        OBVIOUS
      <4>2. IsFiniteSet(i..(m - 1))
        BY <4>1, FS_Interval
      <4> HIDE DEF G
      <4>. QED
        BY <4>1, <4>2, FS_Subset
    <3>2. m \notin G(m - 1)
      OBVIOUS
    <3> HIDE DEF G
    <3>. QED
      BY <3>1, <3>2, FS_CardinalityType
  <2>2. /\ IsFiniteSet(G(m))
        /\ Cardinality(G(m)) = Cardinality(G(m - 1)) + (IF ok(m) THEN 1 ELSE 0)
    <3>1. ok(m) \in BOOLEAN
      BY <1>3
    <3>2. CASE ok(m)
      <4>1. G(m) = G(m - 1) \cup {m}
        BY <1>7, <3>2
      <4> HIDE DEF G
      <4>2. IsFiniteSet(G(m - 1) \cup {m}) /\ Cardinality(G(m - 1) \cup {m}) = Cardinality(G(m - 1)) + 1
        BY <2>1, FS_AddElement
      <4>. QED
        BY <3>2, <4>1, <4>2
    <3>3. CASE ~ok(m)
      <4>1. G(m) = G(m - 1)
        BY <1>7, <3>3
      <4> HIDE DEF G
      <4>. QED
        BY <2>1, <3>3, <4>1
    <3>. QED
      BY <3>1, <3>2, <3>3
  <2> DEFINE c == Cardinality(G(m - 1))
             d == IF ok(m) THEN 1 ELSE 0
             a == v[m].tokens
             b == v[m - 1].tokens
  <2>3. c \in Nat /\ d \in {0, 1} /\ a \in Int /\ h[m] \in Int /\ h[i] \in Int
    BY <1>1, <1>8, <2>1
  <2>4. a + 6 * d <= 12
    BY <1>3, <1>6
  <2>5. CASE m = i
    <3>1. G(m - 1) = {}
      BY <2>5
    <3>2. c = 0
      BY <3>1, FS_EmptySet
    <3>3. a + 6 * (c + d) <= 12 + (h[m] - h[i]) * 3
      <4> HIDE DEF a, c, d
      <4>. QED
        BY <2>3, <2>4, <2>5, <3>2
    <3>. QED
      BY <1>6, <2>2, <3>3
  <2>6. CASE m # i
    <3>1. m - 1 >= i /\ m - 1 \in 1..n
      BY <2>6
    <3>2. b + 6 * c <= 12 + (h[m - 1] - h[i]) * 3 /\ b \in Int /\ h[m - 1] \in Int
      BY <1>6, <1>8, <1>10, <3>1
    <3>3. v[m - 1].lastRefill = h[m - 1]
      BY <1>3, <3>1
    <3>4. a + 6 * d <= b + (h[m] - h[m - 1]) * 3
      BY <1>3, <1>6, <3>3
    <3>5. a + 6 * (c + d) <= 12 + (h[m] - h[i]) * 3
      <4> DEFINE x == h[m]
                 y == h[m - 1]
                 z == h[i]
      <4>1. /\ x \in Int /\ y \in Int /\ z \in Int /\ a \in Int /\ b \in Int /\ c \in Nat
            /\ d \in {0, 1} /\ b + 6 * c <= 12 + (y - z) * 3 /\ a + 6 * d <= b + (x - y) * 3
        BY <2>3, <3>2, <3>4
      <4> HIDE DEF a, b, c, d, x, y, z
      <4>2. a + 6 * (c + d) <= 12 + (x - z) * 3
        BY ONLY <4>1
      <4>. QED
        BY <4>2 DEF x, z
    <3>. QED
      BY <1>6, <2>2, <3>5
  <2>. QED
    BY <2>5, <2>6
<1>11. 0..n \subseteq T
  <2> HIDE DEF T
  <2>. QED
    BY <1>1, <1>9, <1>10, CountedUp
<1>12. /\ IsFiniteSet(G(j))
       /\ v[j].tokens + One * Cardinality(G(j)) <= BUCKET_CAPACITY + (h[j] - h[i]) * BUCKET_REFILL
  <2>1. j \in T /\ j >= i
    <3>1. j \in 0..n /\ j >= i
      OBVIOUS
    <3> HIDE DEF T
    <3>. QED
      BY <1>11, <3>1
  <2>. QED
    BY <2>1
<1>13. v[j].tokens >= 0
  <2>1. said[j]
    BY DEF said
  <2>. QED
    BY <1>3, <1>5, <2>1
<1>. QED
  <2>1. Cardinality(G(j)) \in Nat
    <3> HIDE DEF G
    <3>. QED
      BY <1>12, FS_CardinalityType
  <2> DEFINE c == Cardinality(G(j))
             a == v[j].tokens
  <2>2. One * c <= BUCKET_CAPACITY + (h[j] - h[i]) * BUCKET_REFILL
    <3>1. a \in Int /\ h[j] \in Int /\ h[i] \in Int /\ a >= 0
          /\ a + 6 * c <= 12 + (h[j] - h[i]) * 3
      BY <1>6, <1>8, <1>12, <1>13
    <3> HIDE DEF a, c
    <3>2. c \in Nat
      BY <2>1 DEF c
    <3>. QED
      BY <1>6, <3>1, <3>2
  <2>. QED
    BY <2>2 DEF said

-----------------------------------------------------------------------------
(* The guest route.                                                         *)

Bucket == [tokens : Int, at : Int]
GuestStates == [perIp : [Callers -> Bucket], whole : Bucket, said : Seq(BOOLEAN)]
GuestRequests == Arrivals(Int, BOOLEAN)

Cleaned(st, a) == IF a.swept THEN sweepRateBuckets(st, a.at) ELSE st
Agreed(st, a) == /\ peek(st.perIp[a.from], GuestCapacity, a.at)
                 /\ peek(st.whole, GlobalCapacity, a.at)
Handled(st, a) == guestRoute(Cleaned(st, a), a.from, a.at)

IsRun(r, h) ==
    r = [i \in 0..Len(h) |->
            IF i = 0 THEN GuestStart ELSE Handled(r[i - 1], h[i])]

(* The limits in parts of a token, and what an instant puts back.           *)
LEMMA Capacities ==
    /\ One = 6 /\ IdleTicks = 6 /\ GuestCapacity = 12 /\ GlobalCapacity = 18
    /\ GuestCapacity \div IdleTicks = 2 /\ GlobalCapacity \div IdleTicks = 3
BY DEF One, IdleTicks, GuestCapacity, GlobalCapacity

(* Every operation of a bucket leaves one.                                  *)
LEMMA BucketsStay ==
    ASSUME NEW b \in Bucket, NEW now \in Int, NEW cap \in {GuestCapacity, GlobalCapacity}
    PROVE  /\ Refilled(b, cap, now) \in Bucket
           /\ take(b, cap, now) \in Bucket
           /\ bucketSweep(b, now) \in Bucket
           /\ peek(b, cap, now) \in BOOLEAN
<1> DEFINE rate == cap \div IdleTicks
<1>1. cap \in Int /\ rate \in Int /\ One \in Int
  BY Capacities
<1>2. NoBucket \in Bucket
  BY DEF NoBucket, Bucket
<1> HIDE DEF rate
<1>3. Full(b, cap, now) \in Bucket
  BY <1>1 DEF Full, Bucket
<1> DEFINE e == Full(b, cap, now)
           m == Larger(0, now - e.at)
           s == e.tokens + m * rate
<1>4. m \in Int /\ e.tokens \in Int
  <2> HIDE DEF e
  <2>1. e.tokens \in Int /\ e.at \in Int
    BY <1>3 DEF e, Bucket
  <2>. QED
    BY <2>1 DEF Larger
<1>5. s \in Int
  <2> HIDE DEF e, m
  <2>. QED
    BY <1>1, <1>4
<1>6. Smaller(cap, s) \in Int
  <2> HIDE DEF s
  <2>. QED
    BY <1>1, <1>5 DEF Smaller
<1>7. Refilled(b, cap, now) = [tokens |-> Smaller(cap, s), at |-> now]
  BY DEF Refilled, rate
<1> HIDE DEF s, m, e
<1>8. Refilled(b, cap, now) \in Bucket
  BY <1>6, <1>7 DEF Bucket
<1> DEFINE r == Refilled(b, cap, now)
<1>9. take(b, cap, now) \in Bucket
  <2>1. take(b, cap, now) = IF r.tokens < One THEN r ELSE [r EXCEPT !.tokens = @ - One]
    BY DEF take
  <2> HIDE DEF r
  <2>2. r \in Bucket
    BY <1>8 DEF r
  <2>. QED
    BY <1>1, <2>1, <2>2 DEF Bucket
<1>10. bucketSweep(b, now) \in Bucket
  BY <1>2 DEF bucketSweep
<1>11. peek(b, cap, now) \in BOOLEAN
  <2>1. r.tokens \in Int
    BY <1>8 DEF Bucket
  <2> HIDE DEF r
  <2>2. peek(b, cap, now) = (r.tokens >= One)
    BY DEF peek, r
  <2>. QED
    BY <1>1, <2>1, <2>2
<1>. QED
  BY <1>8, <1>9, <1>10, <1>11

(* A swept state has the answers of the state before it.                    *)
LEMMA CleanedIs ==
    ASSUME NEW st \in GuestStates, NEW a \in GuestRequests
    PROVE  /\ Cleaned(st, a) \in GuestStates
           /\ Cleaned(st, a).said = st.said
           /\ \A c \in Callers : Cleaned(st, a).perIp[c] =
                  IF a.swept THEN bucketSweep(st.perIp[c], a.at) ELSE st.perIp[c]
           /\ Cleaned(st, a).whole =
                  IF a.swept THEN bucketSweep(st.whole, a.at) ELSE st.whole
<1>1. /\ a.at \in Int /\ a.swept \in BOOLEAN /\ st.perIp \in [Callers -> Bucket]
      /\ st.whole \in Bucket /\ st.said \in Seq(BOOLEAN)
      /\ st = [perIp |-> st.perIp, whole |-> st.whole, said |-> st.said]
  BY DEF GuestRequests, Arrivals, GuestStates
<1>2. ASSUME NEW b \in Bucket PROVE bucketSweep(b, a.at) \in Bucket
  BY <1>1, BucketsStay
<1>3. CASE a.swept
  <2> DEFINE p == [ip \in Callers |-> bucketSweep(st.perIp[ip], a.at)]
             w == bucketSweep(st.whole, a.at)
  <2>1. Cleaned(st, a) = [perIp |-> p, whole |-> w, said |-> st.said]
    BY <1>1, <1>3 DEF Cleaned, sweepRateBuckets
  <2>2. p \in [Callers -> Bucket] /\ w \in Bucket
    BY <1>1, <1>2
  <2>. QED
    BY <1>1, <1>3, <2>1, <2>2 DEF GuestStates
<1>4. CASE ~a.swept
  BY <1>4 DEF Cleaned
<1>. QED
  BY <1>1, <1>3, <1>4

(* A request leaves one answer, and charges both buckets or none.           *)
LEMMA RequestHandled ==
    ASSUME NEW st \in GuestStates, NEW a \in GuestRequests,
           NEW clean, clean = Cleaned(st, a), NEW ok, ok = Agreed(clean, a),
           NEW new, new = Handled(st, a)
    PROVE  /\ new \in GuestStates /\ ok \in BOOLEAN
           /\ new.said = Append(st.said, ok)
           /\ \A c \in Callers : new.perIp[c] =
                  IF ok /\ c = a.from THEN take(clean.perIp[c], GuestCapacity, a.at)
                                      ELSE clean.perIp[c]
           /\ new.whole = IF ok THEN take(clean.whole, GlobalCapacity, a.at)
                                ELSE clean.whole
<1>1. a.at \in Int /\ a.from \in Callers
  BY DEF GuestRequests, Arrivals
<1>2. /\ clean \in GuestStates /\ clean.said = st.said
  BY CleanedIs
<1>3. /\ clean.perIp \in [Callers -> Bucket] /\ clean.whole \in Bucket
      /\ clean.said \in Seq(BOOLEAN)
      /\ clean = [perIp |-> clean.perIp, whole |-> clean.whole, said |-> clean.said]
  BY <1>2 DEF GuestStates
<1>4. ok \in BOOLEAN
  <2>1. clean.perIp[a.from] \in Bucket
    BY <1>1, <1>3
  <2>2. /\ peek(clean.perIp[a.from], GuestCapacity, a.at) \in BOOLEAN
        /\ peek(clean.whole, GlobalCapacity, a.at) \in BOOLEAN
    BY <1>1, <1>3, <2>1, BucketsStay
  <2>. QED
    BY <2>2, Zenon DEF Agreed
<1> DEFINE p == [clean.perIp EXCEPT ![a.from] = take(@, GuestCapacity, a.at)]
           w == take(clean.whole, GlobalCapacity, a.at)
<1>5. p \in [Callers -> Bucket] /\ w \in Bucket
  <2>1. clean.perIp[a.from] \in Bucket
    BY <1>1, <1>3
  <2>2. take(clean.perIp[a.from], GuestCapacity, a.at) \in Bucket /\ w \in Bucket
    BY <1>1, <1>3, <2>1, BucketsStay
  <2>. QED
    BY <1>1, <1>3, <2>2
<1>6. \A c \in Callers : p[c] = IF c = a.from THEN take(clean.perIp[c], GuestCapacity, a.at)
                                ELSE clean.perIp[c]
  BY <1>1, <1>3
<1> DEFINE paid == [clean EXCEPT !.perIp[a.from] = take(@, GuestCapacity, a.at),
                                 !.whole = take(@, GlobalCapacity, a.at)]
<1>7. new = IF ok THEN Said(paid, TRUE) ELSE Said(clean, FALSE)
  BY DEF Handled, guestRoute, Agreed
<1>8. paid = [perIp |-> p, whole |-> w, said |-> clean.said]
  <2> DEFINE P == clean.perIp
             W == clean.whole
             S == clean.said
             q == take(P[a.from], GuestCapacity, a.at)
           X == [P EXCEPT ![a.from] = q]
  <2>1. clean = [perIp |-> P, whole |-> W, said |-> S]
    BY <1>3
  <2>2. paid = [clean EXCEPT !.perIp = X, !.whole = w] /\ p = X
    OBVIOUS
  <2> HIDE DEF P, W, S, q, w, paid, p, X
  <2>3. [clean EXCEPT !.perIp = X, !.whole = w] = [perIp |-> X, whole |-> w, said |-> S]
    <3> DEFINE y == [clean EXCEPT !.perIp = X]
    <3>1. [clean EXCEPT !.perIp = X, !.whole = w] = [y EXCEPT !.whole = w]
      OBVIOUS
    <3>2. y = [perIp |-> X, whole |-> W, said |-> S]
      BY <2>1
    <3> HIDE DEF y
    <3>3. [y EXCEPT !.whole = w] = [perIp |-> X, whole |-> w, said |-> S]
      BY <3>2
    <3>. QED
      BY <3>1, <3>3
  <2>. QED
    BY <2>2, <2>3 DEF S
<1> HIDE DEF p, w, paid
<1>9. CASE ok
  <2>1. ok = TRUE
    BY <1>4, <1>9, Zenon
  <2>2. new = Said(paid, ok)
    BY <1>7, <2>1, Zenon
  <2>3. new = [perIp |-> p, whole |-> w, said |-> Append(clean.said, ok)]
    <3> HIDE DEF paid
    <3>. QED
      BY <1>8, <2>2 DEF Said
  <2>4. new.perIp = p /\ new.whole = w /\ new.said = Append(clean.said, ok)
    BY <2>3
  <2>5. Append(clean.said, ok) \in Seq(BOOLEAN)
    BY <1>3, <1>4, AppendProperties
  <2>6. new \in GuestStates
    BY <1>5, <2>3, <2>5 DEF GuestStates
  <2>. QED
    BY <1>2, <1>4, <1>6, <1>9, <2>4, <2>6 DEF w
<1>10. CASE ~ok
  <2>1. ok = FALSE
    BY <1>4, <1>10, Zenon
  <2>2. new = Said(clean, ok)
    BY <1>7, <2>1, Zenon
  <2>3. new = [perIp |-> clean.perIp, whole |-> clean.whole, said |-> Append(clean.said, ok)]
    BY <1>3, <2>2 DEF Said
  <2>4. /\ new.perIp = clean.perIp /\ new.whole = clean.whole
        /\ new.said = Append(clean.said, ok)
    BY <2>3
  <2>5. Append(clean.said, ok) \in Seq(BOOLEAN)
    BY <1>3, <1>4, AppendProperties
  <2>6. new \in GuestStates
    BY <1>3, <2>3, <2>5 DEF GuestStates
  <2>. QED
    BY <1>2, <1>4, <1>10, <2>4, <2>6
<1>. QED
  BY <1>4, <1>9, <1>10

(* Before the first request.                                                *)
LEMMA StartsEmpty == GuestStart \in GuestStates /\ GuestStart.said = <<>>
<1>1. NoBucket \in Bucket /\ <<>> \in Seq(BOOLEAN)
  BY DEF NoBucket, Bucket
<1>. QED
  BY <1>1 DEF GuestStart, GuestStates

(* Every history of requests has a run, which is what it is answered by.    *)
LEMMA GuestRuns ==
    ASSUME NEW h \in Seq(GuestRequests)
    PROVE  \E v \in [0..Len(h) -> GuestStates] :
              /\ v[0] = GuestStart
              /\ \A i \in 1..Len(h) : v[i] = Handled(v[i - 1], h[i])
              /\ Answers(h) = v[Len(h)].said
<1> DEFINE F == [i \in 1..Len(h) |-> [st \in GuestStates |-> Handled(st, h[i])]]
<1>1. \A i \in 1..Len(h), st \in GuestStates : Handled(st, h[i]) \in GuestStates
  <2>1. \A i \in 1..Len(h) : h[i] \in GuestRequests
    OBVIOUS
  <2>. QED
    BY <2>1, RequestHandled
<1>2. F \in [1..Len(h) -> [GuestStates -> GuestStates]]
  BY <1>1
<1>3. Len(h) \in Nat
  OBVIOUS
<1>4. PICK g : IsFold(g, GuestStates, Len(h), GuestStart, F)
  <2> HIDE DEF F
  <2>. QED
    BY <1>2, <1>3, StartsEmpty, FoldExists
<1>5. IsRun(g, h)
  <2>1. \A i \in 0..Len(h) : i # 0 => i \in 1..Len(h) /\ g[i - 1] \in GuestStates
    <3>1. \A i \in 0..Len(h) : i # 0 => i \in 1..Len(h) /\ i - 1 \in 0..Len(h)
      BY <1>3
    <3> HIDE DEF F
    <3>. QED
      BY <1>4, <3>1 DEF IsFold
  <2>2. ASSUME NEW i \in 1..Len(h) PROVE g[i] = Handled(g[i - 1], h[i])
    <3>1. g[i] = F[i][g[i - 1]]
      BY <1>4 DEF IsFold
    <3>2. g[i - 1] \in GuestStates
      BY <2>1
    <3>. QED
      BY <3>1, <3>2
  <2>3. g[0] = GuestStart /\ g = [i \in 0..Len(h) |-> g[i]]
    BY <1>4 DEF IsFold
  <2>. QED
    BY <2>1, <2>2, <2>3 DEF IsRun
<1> DEFINE v == CHOOSE r : IsRun(r, h)
<1>6. IsRun(v, h)
  BY <1>5
<1>7. Answers(h) = v[Len(h)].said
  BY DEF Answers, IsRun, Handled, Cleaned
<1>8. /\ v = [i \in 0..Len(h) |-> v[i]] /\ v[0] = GuestStart
      /\ \A i \in 1..Len(h) : v[i] = Handled(v[i - 1], h[i])
  <2> HIDE DEF v
  <2>. QED
    BY <1>6 DEF IsRun
<1> HIDE DEF v
<1> DEFINE T == {i \in 0..Len(h) : v[i] \in GuestStates}
<1>9. 0..Len(h) \subseteq T
  <2>1. 0 \in T
    BY <1>3, <1>8, StartsEmpty
  <2>2. ASSUME NEW i \in 1..Len(h), i - 1 \in T PROVE i \in T
    <3>1. i - 1 \in 0..Len(h) /\ i \in 0..Len(h)
      BY <1>3
    <3>2. v[i - 1] \in GuestStates /\ v[i] = Handled(v[i - 1], h[i])
      BY <1>8, <2>2
    <3>3. v[i] \in GuestStates
      BY <1>1, <3>2
    <3>. QED
      BY <3>1, <3>3
  <2> HIDE DEF T
  <2>. QED
    BY <1>3, <2>1, <2>2, CountedUp
<1>10. v \in [0..Len(h) -> GuestStates]
  BY <1>8, <1>9
<1>. QED
  BY <1>7, <1>8, <1>10

(* Whatever follows the route's steps is the run.                           *)
LEMMA RunsAgree ==
    ASSUME NEW h \in Seq(GuestRequests), NEW w, w[0] = GuestStart,
           \A i \in 1..Len(h) : w[i] = Handled(w[i - 1], h[i])
    PROVE  Answers(h) = w[Len(h)].said
<1>1. PICK v \in [0..Len(h) -> GuestStates] :
          /\ v[0] = GuestStart
          /\ \A i \in 1..Len(h) : v[i] = Handled(v[i - 1], h[i])
          /\ Answers(h) = v[Len(h)].said
  BY GuestRuns
<1> DEFINE T == {i \in 0..Len(h) : v[i] = w[i]}
<1>2. Len(h) \in Nat
  OBVIOUS
<1>3. 0..Len(h) \subseteq T
  <2>1. 0 \in T
    BY <1>1, <1>2
  <2>2. ASSUME NEW i \in 1..Len(h), i - 1 \in T PROVE i \in T
    <3>1. i \in 0..Len(h)
      BY <1>2
    <3>2. v[i] = w[i]
      BY <1>1, <2>2
    <3>. QED
      BY <3>1, <3>2
  <2> HIDE DEF T
  <2>. QED
    BY <1>2, <2>1, <2>2, CountedUp
<1>4. Len(h) \in T
  BY <1>2, <1>3
<1>. QED
  BY <1>1, <1>4

(* A sequence without its i-th member.                                      *)
LEMMA Removed ==
    ASSUME NEW S, NEW s \in Seq(S), NEW i \in 1..Len(s)
    PROVE  /\ RemoveAt(s, i) \in Seq(S) /\ Len(RemoveAt(s, i)) = Len(s) - 1
           /\ \A k \in 1..(Len(s) - 1) :
                 RemoveAt(s, i)[k] = IF k < i THEN s[k] ELSE s[k + 1]
<1> DEFINE a == SubSeq(s, 1, i - 1)
           b == SubSeq(s, i + 1, Len(s))
<1>1. Len(s) \in Nat /\ \A k \in 1..Len(s) : s[k] \in S
  OBVIOUS
<1>2. a \in Seq(S) /\ Len(a) = i - 1 /\ \A k \in 1..(i - 1) : a[k] = s[k]
  <2>1. \A k \in 1..(i - 1) : k \in 1..Len(s)
    BY <1>1
  <2>. QED
    BY <1>1, <2>1, SubSeqProperties
<1>3. b \in Seq(S) /\ Len(b) = Len(s) - i /\ \A k \in 1..(Len(s) - i) : b[k] = s[k + i]
  <2>1. \A k \in (i + 1)..Len(s) : k \in 1..Len(s)
    BY <1>1
  <2>. QED
    BY <1>1, <2>1, SubSeqProperties
<1>4. RemoveAt(s, i) = a \o b
  BY DEF RemoveAt
<1> HIDE DEF a, b
<1>5. /\ a \o b \in Seq(S) /\ Len(a \o b) = Len(a) + Len(b)
      /\ \A k \in 1..(Len(a) + Len(b)) :
            (a \o b)[k] = IF k <= Len(a) THEN a[k] ELSE b[k - Len(a)]
  BY <1>2, <1>3, ConcatProperties
<1>6. ASSUME NEW k \in 1..(Len(s) - 1)
      PROVE  (a \o b)[k] = IF k < i THEN s[k] ELSE s[k + 1]
  <2>1. CASE k < i
    BY <1>1, <1>2, <1>3, <1>5, <2>1
  <2>2. CASE ~(k < i)
    <3>1. k - (i - 1) \in 1..(Len(s) - i) /\ (k - (i - 1)) + i = k + 1 /\ ~(k <= i - 1)
      BY <1>1, <2>2
    <3>2. (a \o b)[k] = b[k - (i - 1)]
      BY <1>1, <1>2, <1>3, <1>5, <3>1
    <3>. QED
      BY <1>3, <2>2, <3>1, <3>2
  <2>. QED
    BY <2>1, <2>2
<1>. QED
  BY <1>1, <1>2, <1>3, <1>4, <1>5, <1>6

(* Removing from a sequence that grows.                                     *)
LEMMA RemovedLast ==
    ASSUME NEW S, NEW s \in Seq(S), NEW x \in S
    PROVE  RemoveAt(Append(s, x), Len(s) + 1) = s
<1> DEFINE r == Append(s, x)
<1>1. r \in Seq(S) /\ Len(r) = Len(s) + 1 /\ \A k \in 1..Len(s) : r[k] = s[k]
  BY AppendProperties
<1> HIDE DEF r
<1> DEFINE q == RemoveAt(r, Len(s) + 1)
<1>2. /\ q \in Seq(S) /\ Len(q) = Len(s)
      /\ \A k \in 1..Len(s) : q[k] = s[k]
  <2>1. Len(s) + 1 \in 1..Len(r) /\ Len(r) - 1 = Len(s) /\ \A k \in 1..Len(s) : k < Len(s) + 1
    BY <1>1
  <2>. QED
    BY <1>1, <2>1, Removed
<1> HIDE DEF q
<1>3. q = s
  BY <1>2
<1>. QED
  BY <1>3 DEF q, r

(* The last member of a sequence that loses an earlier one.                 *)
LEMMA RemovedBefore ==
    ASSUME NEW S, NEW s \in Seq(S), NEW x \in S, NEW i \in 1..Len(s)
    PROVE  RemoveAt(Append(s, x), i) = Append(RemoveAt(s, i), x)
<1> DEFINE r == Append(s, x)
           p == RemoveAt(s, i)
           q == RemoveAt(r, i)
           z == Append(p, x)
           n == Len(s)
<1>1. r \in Seq(S) /\ Len(r) = n + 1 /\ r[n + 1] = x /\ \A k \in 1..n : r[k] = s[k]
  BY AppendProperties
<1>2. n \in Nat /\ i \in 1..n
  OBVIOUS
<1>3. p \in Seq(S) /\ Len(p) = n - 1 /\ \A k \in 1..(n - 1) : p[k] = IF k < i THEN s[k] ELSE s[k + 1]
  BY Removed
<1> HIDE DEF r, p
<1>4. q \in Seq(S) /\ Len(q) = n /\ \A k \in 1..n : q[k] = IF k < i THEN r[k] ELSE r[k + 1]
  <2>1. i \in 1..Len(r) /\ Len(r) - 1 = n
    BY <1>1, <1>2
  <2> HIDE DEF n
  <2>. QED
    BY <1>1, <2>1, Removed
<1>5. /\ z \in Seq(S) /\ Len(z) = Len(p) + 1 /\ z[Len(p) + 1] = x
      /\ \A k \in 1..Len(p) : z[k] = p[k]
  BY <1>3, AppendProperties
<1> HIDE DEF q, z, n
<1>6. ASSUME NEW k \in 1..n PROVE q[k] = z[k]
  <2>1. CASE k = n
    BY <1>1, <1>2, <1>3, <1>4, <1>5, <2>1
  <2>2. CASE k # n
    <3>1. k \in 1..(n - 1) /\ k + 1 \in 1..n
      BY <1>2, <2>2
    <3>. QED
      BY <1>1, <1>2, <1>3, <1>4, <1>5, <3>1
  <2>. QED
    BY <2>1, <2>2
<1>7. Len(z) = n
  BY <1>2, <1>3, <1>5
<1>8. q = z
  BY <1>4, <1>5, <1>6, <1>7
<1>. QED
  BY <1>8 DEF q, z, r, p

(* A state without its i-th answer.                                         *)
Without(st, i) == [perIp |-> st.perIp, whole |-> st.whole, said |-> RemoveAt(st.said, i)]

LEMMA StepsWithout ==
    ASSUME NEW st \in GuestStates, NEW a \in GuestRequests, ~a.swept,
           NEW i \in 1..Len(st.said)
    PROVE  Without(Handled(st, a), i) = Handled(Without(st, i), a)
<1> DEFINE other == Without(st, i)
           p == Agreed(st, a)
           new == Handled(st, a)
           next == Handled(other, a)
           x == RemoveAt(st.said, i)
<1>1. st.perIp \in [Callers -> Bucket] /\ st.whole \in Bucket /\ st.said \in Seq(BOOLEAN)
  BY DEF GuestStates
<1>2. x \in Seq(BOOLEAN)
  BY <1>1, Removed
<1> HIDE DEF x
<1>3. other = [perIp |-> st.perIp, whole |-> st.whole, said |-> x]
  BY DEF Without, x
<1>4. /\ other \in GuestStates /\ other.perIp = st.perIp /\ other.whole = st.whole
      /\ other.said = x
  <2> HIDE DEF other
  <2>. QED
    BY <1>1, <1>2, <1>3 DEF GuestStates
<1> HIDE DEF other
<1>5. Cleaned(st, a) = st /\ Cleaned(other, a) = other
  BY DEF Cleaned
<1>6. Agreed(other, a) = p
  BY <1>4 DEF Agreed
<1> HIDE DEF p
<1>7. /\ new \in GuestStates /\ p \in BOOLEAN
      /\ new.said = Append(st.said, p)
      /\ \A c \in Callers : new.perIp[c] =
             IF p /\ c = a.from THEN take(st.perIp[c], GuestCapacity, a.at) ELSE st.perIp[c]
      /\ new.whole = IF p THEN take(st.whole, GlobalCapacity, a.at) ELSE st.whole
  <2> HIDE DEF new
  <2>1. p = Agreed(st, a) /\ new = Handled(st, a)
    BY DEF p, new
  <2>. QED
    BY <1>5, <2>1, RequestHandled
<1>8. /\ next \in GuestStates
      /\ next.said = Append(x, p)
      /\ \A c \in Callers : next.perIp[c] =
             IF p /\ c = a.from THEN take(st.perIp[c], GuestCapacity, a.at) ELSE st.perIp[c]
      /\ next.whole = IF p THEN take(st.whole, GlobalCapacity, a.at) ELSE st.whole
  <2> HIDE DEF next
  <2>1. next = Handled(other, a)
    BY DEF next
  <2>2. /\ next \in GuestStates
        /\ next.said = Append(other.said, p)
        /\ \A c \in Callers : next.perIp[c] =
             IF p /\ c = a.from THEN take(other.perIp[c], GuestCapacity, a.at)
                                ELSE other.perIp[c]
        /\ next.whole = IF p THEN take(other.whole, GlobalCapacity, a.at) ELSE other.whole
    BY <1>4, <1>5, <1>6, <2>1, RequestHandled
  <2>. QED
    BY <1>4, <2>2
<1> HIDE DEF new, next
<1>9. new.perIp = next.perIp
  <2>1. new.perIp \in [Callers -> Bucket] /\ next.perIp \in [Callers -> Bucket]
    BY <1>7, <1>8 DEF GuestStates
  <2>2. \A c \in Callers : new.perIp[c] = next.perIp[c]
    BY <1>7, <1>8
  <2>. QED
    BY <2>1, <2>2
<1>10. RemoveAt(new.said, i) = next.said
  <2>1. RemoveAt(Append(st.said, p), i) = Append(RemoveAt(st.said, i), p)
    BY <1>1, <1>7, RemovedBefore
  <2>. QED
    BY <1>7, <1>8, <2>1 DEF x
<1>11. next = [perIp |-> next.perIp, whole |-> next.whole, said |-> next.said]
  BY <1>8 DEF GuestStates
<1>12. Without(new, i) = next
  BY <1>7, <1>8, <1>9, <1>10, <1>11 DEF Without
<1>. QED
  BY <1>12 DEF new, next, other

(* The answers of a run of requests that no sweep precedes.                 *)
LEMMA RefusalCostsNothing ==
    ASSUME NEW h \in Seq(Arrivals(Int, {FALSE})), NEW i \in 1..Len(h), ~Answers(h)[i]
    PROVE  Answers(RemoveAt(h, i)) = RemoveAt(Answers(h), i)
<1> DEFINE n == Len(h)
           g == RemoveAt(h, i)
<1>1. n \in Nat /\ h \in Seq(GuestRequests) /\ \A k \in 1..n : h[k] \in GuestRequests /\ ~h[k].swept
  <2>1. Arrivals(Int, {FALSE}) \subseteq GuestRequests
    BY DEF Arrivals, GuestRequests
  <2>2. \A k \in 1..n : h[k] \in Arrivals(Int, {FALSE})
    OBVIOUS
  <2>3. \A k \in 1..n : ~h[k].swept
    BY <2>2 DEF Arrivals
  <2>4. h \in Seq(GuestRequests)
    BY <2>1, <2>2, SeqDef
  <2>. QED
    BY <2>1, <2>2, <2>3, <2>4
<1>2. PICK v \in [0..n -> GuestStates] :
          /\ v[0] = GuestStart
          /\ \A k \in 1..n : v[k] = Handled(v[k - 1], h[k])
          /\ Answers(h) = v[n].said
  BY <1>1, GuestRuns
<1> DEFINE ok(k) == Agreed(v[k - 1], h[k])
<1>3. ASSUME NEW k \in 1..n
      PROVE  /\ k - 1 \in 0..n /\ k \in 0..n /\ v[k - 1] \in GuestStates
             /\ v[k] \in GuestStates
             /\ ok(k) \in BOOLEAN
             /\ v[k].said = Append(v[k - 1].said, ok(k))
             /\ ~ok(k) => v[k].perIp = v[k - 1].perIp /\ v[k].whole = v[k - 1].whole
             /\ v[k] = Handled(v[k - 1], h[k])
  <2> DEFINE st == v[k - 1]
             a == h[k]
             p == Agreed(st, a)
             new == Handled(st, a)
  <2>1. st \in GuestStates /\ a \in GuestRequests /\ ~a.swept /\ k - 1 \in 0..n /\ k \in 0..n
        /\ v[k] = new
    BY <1>1, <1>2
  <2>2. Cleaned(st, a) = st
    BY <2>1 DEF Cleaned
  <2> HIDE DEF st, a
  <2>3. /\ new \in GuestStates /\ p \in BOOLEAN
        /\ new.said = Append(st.said, p)
        /\ \A c \in Callers : new.perIp[c] =
                  IF p /\ c = a.from THEN take(st.perIp[c], GuestCapacity, a.at)
                                      ELSE st.perIp[c]
        /\ new.whole = IF p THEN take(st.whole, GlobalCapacity, a.at) ELSE st.whole
    <3> HIDE DEF p, new
    <3>1. p = Agreed(st, a) /\ new = Handled(st, a)
      BY DEF p, new
    <3>. QED
      BY <2>1, <2>2, <3>1, RequestHandled
  <2> HIDE DEF p, new
  <2>4. ~p => new.perIp = st.perIp
    <3>1. new.perIp \in [Callers -> Bucket] /\ st.perIp \in [Callers -> Bucket]
      BY <2>1, <2>3 DEF GuestStates
    <3>. QED
      BY <2>3, <3>1
  <2>. QED
    BY <2>1, <2>3, <2>4 DEF p, st, a, new
<1> HIDE DEF ok
<1> DEFINE s == [k \in 0..n |-> v[k].said]
<1>4. \A k \in 0..n : s[k] = v[k].said /\ s[k] \in Seq(BOOLEAN)
  BY <1>2 DEF GuestStates
<1>5. \A m \in 0..n : Len(s[m]) = m /\ \A k \in 1..m : s[m][k] = s[k][k]
  <2>1. s[0] = <<>>
    <3>1. 0 \in 0..n
      BY <1>1
    <3>. QED
      BY <1>2, <1>4, <3>1, StartsEmpty
  <2>2. \A k \in 1..n : \E b \in BOOLEAN : s[k] = Append(s[k - 1], b)
    BY <1>3, <1>4
  <2> HIDE DEF s
  <2>. QED
    BY <1>1, <1>4, <2>1, <2>2, AnswersStay
<1> HIDE DEF s
<1>6. /\ ~ok(i) /\ v[i].perIp = v[i - 1].perIp /\ v[i].whole = v[i - 1].whole
  <2>1. ~s[n][i]
    <3>1. n \in 0..n
      BY <1>1
    <3>. QED
      BY <1>2, <1>4, <3>1
  <2>2. s[n][i] = s[i][i] /\ Len(s[i - 1]) = i - 1 /\ s[i - 1] \in Seq(BOOLEAN)
        /\ s[i] = Append(s[i - 1], ok(i)) /\ ok(i) \in BOOLEAN
    <3>1. n \in 0..n /\ i \in 0..n /\ i - 1 \in 0..n /\ i \in 1..n
      BY <1>1
    <3>. QED
      BY <1>3, <1>4, <1>5, <3>1
  <2> DEFINE b == ok(i)
  <2> HIDE DEF b
  <2>3. s[i] = Append(s[i - 1], b)
    BY <2>2 DEF b
  <2>4. s[i][i] = b
    <3>1. Append(s[i - 1], b)[Len(s[i - 1]) + 1] = b
      BY <2>2, AppendProperties DEF b
    <3>2. Len(s[i - 1]) + 1 = i
      BY <2>2
    <3>. QED
      BY <2>3, <3>1, <3>2
  <2>5. ~ok(i)
    BY <2>1, <2>2, <2>4 DEF b
  <2>. QED
    BY <1>3, <2>5
<1>7. \A k \in 0..n : Len(v[k].said) = k
  BY <1>4, <1>5
<1>8. v[i - 1] = Without(v[i], i)
  <2> DEFINE old == v[i - 1]
             b == ok(i)
  <2>1. i - 1 \in 0..n /\ i - 1 + 1 = i /\ i \in 1..n
    BY <1>1
  <2>2. /\ old \in GuestStates /\ b \in BOOLEAN /\ v[i].said = Append(old.said, b)
        /\ Len(old.said) = i - 1 /\ v[i].perIp = old.perIp /\ v[i].whole = old.whole
    BY <1>3, <1>6, <1>7, <2>1
  <2> HIDE DEF old, b
  <2>3. old.said \in Seq(BOOLEAN) /\ old = [perIp |-> old.perIp, whole |-> old.whole, said |-> old.said]
    BY <2>2 DEF GuestStates
  <2>4. RemoveAt(Append(old.said, b), Len(old.said) + 1) = old.said
    BY <2>2, <2>3, RemovedLast
  <2>5. RemoveAt(v[i].said, i) = old.said
    BY <2>1, <2>2, <2>4
  <2>. QED
    BY <2>2, <2>3, <2>5 DEF Without, old
<1>9. ASSUME NEW k \in (i + 1)..n
      PROVE  Without(v[k], i) = Handled(Without(v[k - 1], i), h[k])
  <2>1. k \in 1..n /\ k - 1 \in 0..n /\ i \in 1..(k - 1)
    BY <1>1
  <2> DEFINE st == v[k - 1]
             a == h[k]
  <2>2. st \in GuestStates /\ a \in GuestRequests /\ ~a.swept /\ i \in 1..Len(st.said)
        /\ v[k] = Handled(st, a)
    BY <1>1, <1>3, <1>7, <2>1
  <2> HIDE DEF st, a
  <2>3. Without(Handled(st, a), i) = Handled(Without(st, i), a)
    BY <2>2, StepsWithout
  <2>. QED
    BY <2>2, <2>3 DEF st, a
<1> DEFINE w == [k \in 0..(n - 1) |-> IF k < i THEN v[k] ELSE Without(v[k + 1], i)]
<1>10. /\ g \in Seq(GuestRequests) /\ Len(g) = n - 1
       /\ \A k \in 1..(n - 1) : g[k] = IF k < i THEN h[k] ELSE h[k + 1]
  BY <1>1, Removed
<1>11. w[0] = GuestStart
  BY <1>1, <1>2
<1>12. \A k \in 0..(n - 1) : k >= i - 1 => w[k] = Without(v[k + 1], i)
  <2>1. ASSUME NEW k \in 0..(n - 1), k >= i - 1 PROVE w[k] = Without(v[k + 1], i)
    <3>1. CASE k < i
      <4>1. k = i - 1 /\ k + 1 = i
        BY <1>1, <2>1, <3>1
      <4>2. w[k] = v[k]
        BY <3>1
      <4> HIDE DEF w
      <4>. QED
        BY <1>8, <4>1, <4>2
    <3>2. CASE ~(k < i)
      BY <3>2
    <3>. QED
      BY <3>1, <3>2
  <2>. QED
    BY <2>1
<1>13. \A k \in 0..(n - 1) : k < i => w[k] = v[k]
  OBVIOUS
<1> HIDE DEF w, g
<1>14. ASSUME NEW k \in 1..(n - 1) PROVE w[k] = Handled(w[k - 1], g[k])
  <2>1. k \in 0..(n - 1) /\ k - 1 \in 0..(n - 1) /\ k \in 1..n /\ k - 1 + 1 = k /\ k + 1 - 1 = k
        /\ i \in Int /\ n \in Int
    BY <1>1
  <2>2. CASE k < i
    <3>1. k - 1 < i
      BY <2>1, <2>2
    <3>2. w[k] = v[k] /\ w[k - 1] = v[k - 1] /\ g[k] = h[k] /\ v[k] = Handled(v[k - 1], h[k])
      BY <1>2, <1>10, <1>13, <2>1, <2>2, <3>1
    <3>. QED
      BY <3>2
  <2>3. CASE ~(k < i)
    <3>1. k >= i - 1 /\ k - 1 >= i - 1 /\ k + 1 \in (i + 1)..n
      BY <2>1, <2>3
    <3>2. w[k] = Without(v[k + 1], i) /\ w[k - 1] = Without(v[k], i) /\ g[k] = h[k + 1]
      BY <1>10, <1>12, <2>1, <2>3, <3>1
    <3>3. Without(v[k + 1], i) = Handled(Without(v[k], i), h[k + 1])
      BY <1>9, <2>1, <3>1
    <3>. QED
      BY <3>2, <3>3
  <2>. QED
    BY <2>2, <2>3
<1>15. Answers(g) = w[n - 1].said
  BY <1>10, <1>11, <1>14, RunsAgree
<1>16. w[n - 1] = Without(v[n], i)
  <2>1. n - 1 \in 0..(n - 1) /\ n - 1 >= i - 1 /\ n - 1 + 1 = n
    BY <1>1
  <2>. QED
    BY <1>12, <2>1
<1>17. Answers(g) = RemoveAt(v[n].said, i)
  BY <1>15, <1>16 DEF Without
<1>. QED
  BY <1>2, <1>17 DEF g

-----------------------------------------------------------------------------
(* The hourly sweep.                                                        *)

Alive(c) == c \in Bucket /\ (c = NoBucket \/ c.tokens >= 0)

(* A bucket beside the one an unswept route keeps: the same, or dropped for *)
(* having been idle.                                                        *)
Beside(b, c, now) ==
    \/ b = c
    \/ b = NoBucket /\ c # NoBucket /\ now - c.at > IdleTicks

(* A bucket idle that long is full again.                                   *)
LEMMA FullAgain ==
    ASSUME NEW cap \in {GuestCapacity, GlobalCapacity}, NEW now \in Int,
           NEW b, NEW c, Alive(c), Beside(b, c, now)
    PROVE  Refilled(b, cap, now) = Refilled(c, cap, now)
<1>1. CASE b = c
  BY <1>1
<1>2. CASE b = NoBucket /\ c # NoBucket /\ now - c.at > IdleTicks
  <2> DEFINE rate == cap \div IdleTicks
             t == c.tokens
             s == c.at
  <2>1. cap \in Int /\ rate \in Int /\ cap >= 0 /\ rate >= 0 /\ 7 * rate >= cap /\ IdleTicks = 6
    BY Capacities
  <2>2. t \in Int /\ t >= 0 /\ s \in Int /\ now - s > 6
    BY <1>2, <2>1 DEF Alive, Bucket
  <2> HIDE DEF rate
  <2>3. Refilled(b, cap, now) = [tokens |-> Smaller(cap, cap + Larger(0, now - now) * rate), at |-> now]
    BY <1>2 DEF Refilled, Full, rate
  <2>4. Refilled(c, cap, now) = [tokens |-> Smaller(cap, t + Larger(0, now - s) * rate), at |-> now]
    BY <1>2 DEF Refilled, Full, rate
  <2> HIDE DEF t, s
  <2>5. Smaller(cap, cap + Larger(0, now - now) * rate) = cap
    <3>1. Larger(0, now - now) = 0
      BY DEF Larger
    <3>. QED
      BY <2>1, <3>1 DEF Smaller
  <2>6. Smaller(cap, t + Larger(0, now - s) * rate) = cap
    <3> DEFINE m == Larger(0, now - s)
               p == m * rate
    <3>1. m \in Int /\ m >= 7
      BY <2>2 DEF Larger
    <3>2. (cap = 12 /\ rate = 2) \/ (cap = 18 /\ rate = 3)
      BY Capacities DEF rate
    <3> HIDE DEF m
    <3>3. p \in Int /\ p >= cap
      BY <3>1, <3>2
    <3> HIDE DEF p
    <3>4. Smaller(cap, t + p) = cap
      BY <2>1, <2>2, <3>3 DEF Smaller
    <3>. QED
      BY <3>4 DEF p, m
  <2>. QED
    BY <2>3, <2>4, <2>5, <2>6
<1>. QED
  BY <1>1, <1>2 DEF Beside

(* A charged bucket has tokens or none, never a debt.                       *)
LEMMA AliveStays ==
    ASSUME NEW cap \in {GuestCapacity, GlobalCapacity}, NEW now \in Int,
           NEW c, Alive(c), peek(c, cap, now)
    PROVE  Alive(take(c, cap, now))
<1> DEFINE r == Refilled(c, cap, now)
<1>1. r \in Bucket /\ take(c, cap, now) \in Bucket
  BY BucketsStay DEF Alive
<1>2. r.tokens >= One /\ r.tokens \in Int
  BY <1>1 DEF peek, Bucket
<1>3. take(c, cap, now) = IF r.tokens < One THEN r ELSE [r EXCEPT !.tokens = @ - One]
  BY DEF take
<1> HIDE DEF r
<1>4. take(c, cap, now).tokens = r.tokens - One
  BY <1>1, <1>2, <1>3, Capacities DEF Bucket
<1>. QED
  BY <1>1, <1>2, <1>4, Capacities DEF Alive

(* What a sweep does to a bucket beside another.                            *)
LEMMA SweptBeside ==
    ASSUME NEW now \in Int, NEW b, NEW c, Alive(c), Beside(b, c, now)
    PROVE  Beside(bucketSweep(b, now), c, now)
<1>1. c.at \in Int
  BY DEF Alive, Bucket
<1>2. CASE b = c
  BY <1>1, <1>2 DEF bucketSweep, Beside
<1>3. CASE b = NoBucket /\ c # NoBucket /\ now - c.at > IdleTicks
  <2>1. bucketSweep(b, now) = NoBucket
    BY <1>3 DEF bucketSweep
  <2>. QED
    BY <1>3, <2>1 DEF Beside
<1>. QED
  BY <1>2, <1>3 DEF Beside

(* The state of a route that sweeps beside the state of one that does not.  *)
SweptBy(u, v, now) ==
    /\ u.said = v.said
    /\ \A c \in Callers : Alive(v.perIp[c]) /\ Beside(u.perIp[c], v.perIp[c], now)
    /\ Alive(v.whole) /\ Beside(u.whole, v.whole, now)

(* A bucket is idle for longer the later it is.                             *)
LEMMA BesideLater ==
    ASSUME NEW b, NEW c, Alive(c), NEW now \in Int, NEW afterwards \in Int, now <= afterwards,
           Beside(b, c, now)
    PROVE  Beside(b, c, afterwards)
BY Capacities DEF Alive, Bucket, Beside

(* The same of a request as it stands.                                      *)
HandledSo(st, a, clean, ok, new) ==
    /\ new \in GuestStates /\ ok \in BOOLEAN
    /\ new.said = Append(st.said, ok)
    /\ \A c \in Callers : new.perIp[c] =
           IF ok /\ c = a.from THEN take(clean.perIp[c], GuestCapacity, a.at)
                               ELSE clean.perIp[c]
    /\ new.whole = IF ok THEN take(clean.whole, GlobalCapacity, a.at) ELSE clean.whole

LEMMA HandledIs ==
    ASSUME NEW st \in GuestStates, NEW a \in GuestRequests
    PROVE  HandledSo(st, a, Cleaned(st, a), Agreed(Cleaned(st, a), a), Handled(st, a))
<1> DEFINE clean == Cleaned(st, a)
           ok == Agreed(clean, a)
           new == Handled(st, a)
<1> HIDE DEF clean, ok, new
<1>1. clean = Cleaned(st, a) /\ ok = Agreed(clean, a) /\ new = Handled(st, a)
  BY DEF clean, ok, new
<1>2. /\ new \in GuestStates /\ ok \in BOOLEAN
      /\ new.said = Append(st.said, ok)
      /\ \A c \in Callers : new.perIp[c] =
             IF ok /\ c = a.from THEN take(clean.perIp[c], GuestCapacity, a.at)
                                 ELSE clean.perIp[c]
      /\ new.whole = IF ok THEN take(clean.whole, GlobalCapacity, a.at) ELSE clean.whole
  BY <1>1, RequestHandled
<1>3. HandledSo(st, a, clean, ok, new)
  BY <1>2 DEF HandledSo
<1>. QED
  BY <1>3 DEF clean, ok, new

(* One request, after a sweep on one side.                                  *)
LEMMA SweptStep ==
    ASSUME NEW u \in GuestStates, NEW v \in GuestStates, NEW a \in GuestRequests,
           NEW b \in GuestRequests, b = [a EXCEPT !.swept = FALSE], SweptBy(u, v, a.at)
    PROVE  SweptBy(Handled(u, a), Handled(v, b), a.at)
<1> DEFINE cu == Cleaned(u, a)
           cv == Cleaned(v, b)
           p == Agreed(cu, a)
           q == Agreed(cv, b)
           nu == Handled(u, a)
           nv == Handled(v, b)
           now == a.at
<1>1. now \in Int /\ a.from \in Callers /\ b.at = now /\ b.from = a.from /\ ~b.swept
  BY DEF GuestRequests, Arrivals
<1>2. cv = v
  BY <1>1 DEF Cleaned
<1>3. \A c \in Callers : Beside(cu.perIp[c], v.perIp[c], now) /\ Alive(v.perIp[c])
  <2>1. ASSUME NEW c \in Callers PROVE Beside(cu.perIp[c], v.perIp[c], now)
    <3>1. Alive(v.perIp[c]) /\ Beside(u.perIp[c], v.perIp[c], now)
      BY DEF SweptBy
    <3>2. Beside(bucketSweep(u.perIp[c], now), v.perIp[c], now)
      BY <1>1, <3>1, SweptBeside
    <3>3. cu.perIp[c] = IF a.swept THEN bucketSweep(u.perIp[c], now) ELSE u.perIp[c]
      BY CleanedIs
    <3> HIDE DEF cu, now
    <3>. QED
      BY <3>1, <3>2, <3>3
  <2>. QED
    BY <2>1 DEF SweptBy
<1>4. Beside(cu.whole, v.whole, now) /\ Alive(v.whole)
  <2>1. Alive(v.whole) /\ Beside(u.whole, v.whole, now)
    BY DEF SweptBy
  <2>2. Beside(bucketSweep(u.whole, now), v.whole, now)
    BY <1>1, <2>1, SweptBeside
  <2>3. cu.whole = IF a.swept THEN bucketSweep(u.whole, now) ELSE u.whole
    BY CleanedIs
  <2> HIDE DEF cu, now
  <2>. QED
    BY <2>1, <2>2, <2>3
<1>5. /\ nu \in GuestStates /\ p \in BOOLEAN /\ nu.said = Append(u.said, p)
      /\ \A c \in Callers : nu.perIp[c] =
             IF p /\ c = a.from THEN take(cu.perIp[c], GuestCapacity, now) ELSE cu.perIp[c]
      /\ nu.whole = IF p THEN take(cu.whole, GlobalCapacity, now) ELSE cu.whole
  <2>1. HandledSo(u, a, cu, p, nu)
    BY HandledIs
  <2> HIDE DEF cu, p, nu
  <2>. QED
    BY <2>1 DEF HandledSo
<1>6. /\ nv \in GuestStates /\ q \in BOOLEAN /\ nv.said = Append(v.said, q)
      /\ \A c \in Callers : nv.perIp[c] =
             IF q /\ c = a.from THEN take(v.perIp[c], GuestCapacity, now) ELSE v.perIp[c]
      /\ nv.whole = IF q THEN take(v.whole, GlobalCapacity, now) ELSE v.whole
  <2>1. HandledSo(v, b, cv, q, nv)
    BY HandledIs
  <2> HIDE DEF cv, q, nv, now
  <2>. QED
    BY <1>1, <1>2, <2>1 DEF HandledSo
<1>7. /\ \A c \in Callers : Refilled(cu.perIp[c], GuestCapacity, now)
                                = Refilled(v.perIp[c], GuestCapacity, now)
      /\ Refilled(cu.whole, GlobalCapacity, now) = Refilled(v.whole, GlobalCapacity, now)
  <2> HIDE DEF cu, now
  <2>. QED
    BY <1>1, <1>3, <1>4, FullAgain
<1>8. /\ p = q
      /\ p => /\ peek(v.perIp[a.from], GuestCapacity, now)
              /\ peek(v.whole, GlobalCapacity, now)
  <2>1. /\ peek(cu.perIp[a.from], GuestCapacity, now) = peek(v.perIp[a.from], GuestCapacity, now)
        /\ peek(cu.whole, GlobalCapacity, now) = peek(v.whole, GlobalCapacity, now)
    <3> HIDE DEF cu, now
    <3>. QED
      BY <1>1, <1>7 DEF peek
  <2>2. /\ p = (peek(cu.perIp[a.from], GuestCapacity, now) /\ peek(cu.whole, GlobalCapacity, now))
        /\ q = (peek(v.perIp[a.from], GuestCapacity, now) /\ peek(v.whole, GlobalCapacity, now))
    BY <1>1, <1>2, Zenon DEF Agreed
  <2> HIDE DEF cu, now, p, q
  <2>. QED
    BY <2>1, <2>2, Zenon
<1>9. /\ \A c \in Callers : take(cu.perIp[c], GuestCapacity, now)
                                = take(v.perIp[c], GuestCapacity, now)
      /\ take(cu.whole, GlobalCapacity, now) = take(v.whole, GlobalCapacity, now)
  <2> HIDE DEF cu, now
  <2>. QED
    BY <1>7 DEF take
<1> HIDE DEF cu, cv, p, q, nu, nv, now
<1>10. nu.said = nv.said
  BY <1>5, <1>6, <1>8 DEF SweptBy
<1>11. ASSUME NEW c \in Callers
       PROVE  Alive(nv.perIp[c]) /\ Beside(nu.perIp[c], nv.perIp[c], now)
  <2>1. CASE p /\ c = a.from
    <3>1. nu.perIp[c] = take(v.perIp[c], GuestCapacity, now) /\ nv.perIp[c] = nu.perIp[c]
      BY <1>5, <1>6, <1>8, <1>9, <2>1
    <3>2. Alive(take(v.perIp[c], GuestCapacity, now))
      BY <1>1, <1>3, <1>8, <2>1, AliveStays
    <3>. QED
      BY <3>1, <3>2 DEF Beside
  <2>2. CASE ~(p /\ c = a.from)
    <3>1. nu.perIp[c] = cu.perIp[c] /\ nv.perIp[c] = v.perIp[c]
      BY <1>5, <1>6, <1>8, <2>2
    <3>. QED
      BY <1>3, <3>1
  <2>. QED
    BY <2>1, <2>2
<1>12. Alive(nv.whole) /\ Beside(nu.whole, nv.whole, now)
  <2>1. CASE p
    <3>1. nu.whole = take(v.whole, GlobalCapacity, now) /\ nv.whole = nu.whole
      BY <1>5, <1>6, <1>8, <1>9, <2>1
    <3>2. Alive(take(v.whole, GlobalCapacity, now))
      BY <1>1, <1>4, <1>8, <2>1, AliveStays
    <3>. QED
      BY <3>1, <3>2 DEF Beside
  <2>2. CASE ~p
    <3>1. nu.whole = cu.whole /\ nv.whole = v.whole
      BY <1>5, <1>6, <1>8, <2>2
    <3>. QED
      BY <1>4, <3>1
  <2>. QED
    BY <2>1, <2>2
<1>13. SweptBy(nu, nv, now)
  BY <1>10, <1>11, <1>12 DEF SweptBy
<1>. QED
  BY <1>13 DEF nu, nv, now

(* GuestRequests in the order of their instants.                                 *)
LEMMA SweepsUnnoticed ==
    ASSUME NEW h \in Seq(GuestRequests),
           \A i, j \in 1..Len(h) : i < j => h[i].at <= h[j].at
    PROVE  Answers(h) = Answers([i \in DOMAIN h |-> [h[i] EXCEPT !.swept = FALSE]])
<1> DEFINE n == Len(h)
           g == [i \in DOMAIN h |-> [h[i] EXCEPT !.swept = FALSE]]
<1>1. n \in Nat /\ DOMAIN h = 1..n /\ \A k \in 1..n : h[k] \in GuestRequests
  OBVIOUS
<1>2. \A k \in 1..n : g[k] = [h[k] EXCEPT !.swept = FALSE] /\ g[k] \in GuestRequests
  <2>1. \A k \in 1..n : [h[k] EXCEPT !.swept = FALSE] \in GuestRequests
    BY <1>1 DEF GuestRequests, Arrivals
  <2>. QED
    BY <1>1, <2>1
<1>3. g \in Seq(GuestRequests) /\ Len(g) = n
  <2>1. g \in [1..n -> GuestRequests]
    <3>1. g = [i \in 1..n |-> g[i]]
      BY <1>1
    <3> HIDE DEF g
    <3>. QED
      BY <1>2, <3>1
  <2> HIDE DEF g, n
  <2>. QED
    BY <1>1, <2>1, SeqDef, LenProperties
<1> HIDE DEF g
<1>4. PICK u \in [0..n -> GuestStates] :
          /\ u[0] = GuestStart
          /\ \A k \in 1..n : u[k] = Handled(u[k - 1], h[k])
          /\ Answers(h) = u[n].said
  BY GuestRuns
<1>5. PICK v \in [0..n -> GuestStates] :
          /\ v[0] = GuestStart
          /\ \A k \in 1..n : v[k] = Handled(v[k - 1], g[k])
          /\ Answers(g) = v[n].said
  BY <1>3, GuestRuns
<1> DEFINE T == {k \in 0..n : u[k].said = v[k].said /\ \A j \in (k + 1)..n : SweptBy(u[k], v[k], h[j].at)}
<1>6. 0 \in T
  <2>1. ASSUME NEW j \in 1..n PROVE SweptBy(GuestStart, GuestStart, h[j].at)
    <3>1. Alive(NoBucket)
      BY DEF Alive, NoBucket, Bucket
    <3>2. \A c \in Callers : GuestStart.perIp[c] = NoBucket
      BY DEF GuestStart
    <3>3. GuestStart.whole = NoBucket
      BY DEF GuestStart
    <3>. QED
      BY <3>1, <3>2, <3>3 DEF SweptBy, Beside
  <2>2. 0 \in 0..n
    BY <1>1
  <2>. QED
    BY <1>4, <1>5, <2>1, <2>2
<1>7. ASSUME NEW k \in 1..n, k - 1 \in T PROVE k \in T
  <2> DEFINE a == h[k]
             b == g[k]
             x == u[k - 1]
             y == v[k - 1]
  <2>1. /\ x \in GuestStates /\ y \in GuestStates /\ a \in GuestRequests /\ b \in GuestRequests
        /\ b = [a EXCEPT !.swept = FALSE] /\ u[k] = Handled(x, a) /\ v[k] = Handled(y, b)
        /\ k \in 0..n
    <3>1. k - 1 \in 0..n /\ k \in 0..n
      BY <1>1
    <3>. QED
      BY <1>1, <1>2, <1>4, <1>5, <3>1
  <2>2. SweptBy(x, y, a.at)
    <3>1. k \in ((k - 1) + 1)..n
      BY <1>1
    <3>. QED
      BY <1>7, <3>1
  <2> HIDE DEF a, b, x, y
  <2>3. SweptBy(Handled(x, a), Handled(y, b), a.at)
    BY <2>1, <2>2, SweptStep
  <2>4. ASSUME NEW j \in (k + 1)..n PROVE SweptBy(u[k], v[k], h[j].at)
    <3>1. j \in 1..n /\ k < j
      BY <1>1
    <3>2. a.at \in Int /\ h[j].at \in Int /\ a.at <= h[j].at
      BY <1>1, <3>1 DEF a, GuestRequests, Arrivals
    <3> DEFINE now == a.at
               afterwards == h[j].at
    <3>3. now \in Int /\ afterwards \in Int /\ now <= afterwards /\ SweptBy(u[k], v[k], now)
      BY <2>1, <2>3, <3>2
    <3> HIDE DEF now, afterwards
    <3>4. SweptBy(u[k], v[k], afterwards)
      <4>1. ASSUME NEW c \in Callers PROVE Beside(u[k].perIp[c], v[k].perIp[c], afterwards)
        BY <3>3, BesideLater DEF SweptBy
      <4>2. Beside(u[k].whole, v[k].whole, afterwards)
        BY <3>3, BesideLater DEF SweptBy
      <4>. QED
        BY <3>3, <4>1, <4>2 DEF SweptBy
    <3>. QED
      BY <3>4 DEF afterwards
  <2>5. u[k].said = v[k].said
    BY <2>1, <2>3 DEF SweptBy
  <2>. QED
    BY <2>1, <2>4, <2>5
<1>8. 0..n \subseteq T
  <2> HIDE DEF T
  <2>. QED
    BY <1>1, <1>6, <1>7, CountedUp
<1>9. n \in T
  BY <1>1, <1>8
<1>. QED
  BY <1>4, <1>5, <1>9 DEF g

-----------------------------------------------------------------------------
(* The key of a caller.                                                     *)
(* What the caller writes comes before its own address, and hops of the     *)
(* infrastructure come after it: the rightmost person is the caller.        *)
LEMMA CallerKept ==
    ASSUME NEW S, NEW written \in Seq(S), NEW me \in Callers,
           NEW hops \in Seq({"private", "unknown"}), NEW peer
    PROVE  clientIpFrom(peer, Absent, written \o <<me>> \o hops) = me
<1> DEFINE n == Len(written)
           m == Len(hops)
           one == written \o <<me>>
           parts == one \o hops
           people == {i \in 1..Len(parts) : ~isInfrastructureAddress(parts[i])}
           R == S \cup Callers \cup {"private", "unknown"}
<1>1. n \in Nat /\ m \in Nat
  OBVIOUS
<1>2. written \in Seq(R) /\ hops \in Seq(R) /\ <<me>> \in Seq(R)
  <2>1. written \in Seq(R)
    <3>1. \A i \in 1..n : written[i] \in R
      OBVIOUS
    <3> HIDE DEF R
    <3>. QED
      BY <1>1, <3>1, SeqDef
  <2>2. hops \in Seq(R)
    <3>1. \A i \in 1..m : hops[i] \in R
      OBVIOUS
    <3> HIDE DEF R
    <3>. QED
      BY <1>1, <3>1, SeqDef
  <2>. QED
    BY <2>1, <2>2
<1> HIDE DEF R
<1>3. one \in Seq(R) /\ Len(one) = n + 1 /\ one[n + 1] = me
  <2>1. Len(<<me>>) = 1 /\ <<me>>[1] = me
    OBVIOUS
  <2> DEFINE o == <<me>>
  <2> HIDE DEF o
  <2>2. written \in Seq(R) /\ o \in Seq(R) /\ Len(o) = 1 /\ o[1] = me
    BY <1>2, <2>1 DEF o
  <2>3. /\ written \o o \in Seq(R) /\ Len(written \o o) = n + Len(o)
        /\ \A i \in 1..(n + Len(o)) :
              (written \o o)[i] = IF i <= n THEN written[i] ELSE o[i - n]
    BY <2>2, ConcatProperties
  <2>4. n + 1 \in 1..(n + 1) /\ ~(n + 1 <= n) /\ (n + 1) - n = 1
    BY <1>1
  <2>. QED
    BY <2>2, <2>3, <2>4 DEF o
<1> HIDE DEF one
<1>4. /\ Len(parts) = n + 1 + m /\ parts[n + 1] = me
      /\ \A i \in (n + 2)..(n + 1 + m) : parts[i] = hops[i - (n + 1)]
  <2>1. /\ Len(parts) = Len(one) + m
        /\ \A i \in 1..(Len(one) + m) :
              parts[i] = IF i <= Len(one) THEN one[i] ELSE hops[i - Len(one)]
    BY <1>2, <1>3, ConcatProperties
  <2> HIDE DEF parts
  <2>2. n + 1 \in 1..(n + 1 + m) /\ \A i \in (n + 2)..(n + 1 + m) : i \in 1..(n + 1 + m) /\ ~(i <= n + 1)
    BY <1>1
  <2>. QED
    BY <1>1, <1>3, <2>1, <2>2
<1> HIDE DEF parts
<1>5. n + 1 \in people
  BY <1>1, <1>4 DEF isInfrastructureAddress, Callers
<1>6. \A i \in people : i <= n + 1 /\ i \in Int
  <2>1. ASSUME NEW i \in people, ~(i <= n + 1) PROVE FALSE
    <3>1. i \in (n + 2)..(n + 1 + m) /\ i - (n + 1) \in 1..m
      BY <1>1, <1>4, <2>1
    <3>2. parts[i] = hops[i - (n + 1)] /\ hops[i - (n + 1)] \in {"private", "unknown"}
      BY <1>4, <3>1
    <3>. QED
      BY <3>2 DEF isInfrastructureAddress
  <2>. QED
    BY <2>1
<1>7. clientIpFrom(peer, Absent, parts)
         = parts[CHOOSE i \in people : \A j \in people : j <= i]
  BY <1>5 DEF clientIpFrom
<1> HIDE DEF people
<1>8. (CHOOSE i \in people : \A j \in people : j <= i) = n + 1
  <2> DEFINE last == CHOOSE i \in people : \A j \in people : j <= i
  <2>1. last \in people /\ \A j \in people : j <= last
    BY <1>5, <1>6
  <2> HIDE DEF last
  <2>2. last = n + 1
    BY <1>1, <1>5, <1>6, <2>1
  <2>. QED
    BY <2>2 DEF last
<1>. QED
  BY <1>4, <1>7, <1>8 DEF parts, one

(* Whatever the history: any number of commands at any instants, guests in  *)
(* any number, swept or not, and a header of any length.                    *)
THEOREM LimitsSafety ==
    ASSUME trial.of = "controls" => trial.calls \in Seq(Int),
           trial.of = "guests" => trial.calls \in Seq(Arrivals(Int, {FALSE})),
           trial.of = "swept guests" =>
               trial.calls \in Ordered(Seq(Arrivals(Int, BOOLEAN))),
           trial.of = "headers" =>
               \E S : trial.calls[1] \in [written : Seq(S), me : Callers,
                                          hops : Seq({"private", "unknown"})]
    PROVE  LimitsHold
<1> DEFINE h == trial.calls
<1>1. ControlsBounded
  <2> SUFFICES ASSUME trial.of = "controls", NEW i \in 1..Len(h), NEW j \in 1..Len(h),
                      i <= j, Granted(h)[j]
               PROVE  One * Cardinality({k \in i..j : Granted(h)[k]})
                        <= BUCKET_CAPACITY + (h[j] - h[i]) * BUCKET_REFILL
    BY DEF ControlsBounded
  <2>1. h \in Seq(Int)
    OBVIOUS
  <2> HIDE DEF h
  <2>. QED
    BY <2>1, GrantsBounded
<1>2. RefusedCostsNothing
  <2> SUFFICES ASSUME trial.of = "guests", NEW i \in 1..Len(h), ~Answers(h)[i]
               PROVE  Answers(RemoveAt(h, i)) = RemoveAt(Answers(h), i)
    BY DEF RefusedCostsNothing
  <2>1. h \in Seq(Arrivals(Int, {FALSE}))
    OBVIOUS
  <2> HIDE DEF h
  <2>. QED
    BY <2>1, RefusalCostsNothing
<1>3. SweepUnnoticed
  <2> SUFFICES ASSUME trial.of = "swept guests"
               PROVE  Answers(h) = Answers([i \in DOMAIN h |-> [h[i] EXCEPT !.swept = FALSE]])
    BY DEF SweepUnnoticed
  <2>1. h \in Seq(GuestRequests) /\ \A i, j \in 1..Len(h) : i < j => h[i].at <= h[j].at
    BY DEF Ordered, GuestRequests
  <2> HIDE DEF h
  <2>. QED
    BY <2>1, SweepsUnnoticed
<1>4. KeyIsTheCallers
  <2> DEFINE x == h[1]
  <2> SUFFICES ASSUME trial.of = "headers"
               PROVE  /\ clientIpFrom("private", Absent, x.written \o <<x.me>> \o x.hops) = x.me
                      /\ clientIpFrom("private", x.me, x.written) = x.me
    BY DEF KeyIsTheCallers
  <2>1. PICK S : x \in [written : Seq(S), me : Callers, hops : Seq({"private", "unknown"})]
    OBVIOUS
  <2>2. x.written \in Seq(S) /\ x.me \in Callers /\ x.hops \in Seq({"private", "unknown"})
    BY <2>1
  <2> HIDE DEF x
  <2>3. clientIpFrom("private", Absent, x.written \o <<x.me>> \o x.hops) = x.me
    BY <2>2, CallerKept
  <2>4. x.me # Absent
    BY <2>2 DEF Callers, Absent
  <2>5. clientIpFrom("private", x.me, x.written) = x.me
    BY <2>4 DEF clientIpFrom
  <2>. QED
    BY <2>3, <2>5
<1>. QED
  BY <1>1, <1>2, <1>3, <1>4 DEF LimitsHold

LEMMA ArrivalsWithin ==
    ASSUME NEW I, NEW J, I \subseteq J, NEW K
    PROVE  Arrivals(I, K) \subseteq Arrivals(J, K)
BY DEF Arrivals

(* The histories the run tries are among those the theorem is about.        *)
THEOREM TrialsHold == trial \in Trials => LimitsHold
<1>1. ASSUME NEW S, NEW T, S \subseteq T, NEW n \in Nat, NEW h \in Histories(S, n)
      PROVE  h \in Seq(T)
  <2>1. PICK k \in 1..n : h \in [1..k -> S]
    BY DEF Histories
  <2>2. h \in [1..k -> T] /\ k \in Nat
    BY <1>1, <2>1
  <2>. QED
    BY <2>2, SeqDef
<1> DEFINE A == Histories(0..4, 5)
           B == Ordered(Histories(Arrivals({0, 2}, {FALSE}), 5))
           C == Ordered(Histories(Arrivals({0, 4, 7}, BOOLEAN), 4))
           D == {<<x>> : x \in Headers}
<1>0. ASSUME trial \in Trials
      PROVE  /\ trial.of = "controls" => trial.calls \in A
             /\ trial.of = "guests" => trial.calls \in B
             /\ trial.of = "swept guests" => trial.calls \in C
             /\ trial.of = "headers" => trial.calls \in D
  <2>1. trial \in {NoTrial}
            \cup [of : {"controls"}, calls : A] \cup [of : {"guests"}, calls : B]
            \cup [of : {"swept guests"}, calls : C] \cup [of : {"headers"}, calls : D]
    BY <1>0 DEF Trials
  <2> HIDE DEF A, B, C, D
  <2>2. CASE trial = NoTrial
    BY <2>2 DEF NoTrial
  <2>3. CASE trial \in [of : {"controls"}, calls : A]
    BY <2>3
  <2>4. CASE trial \in [of : {"guests"}, calls : B]
    BY <2>4
  <2>5. CASE trial \in [of : {"swept guests"}, calls : C]
    BY <2>5
  <2>6. CASE trial \in [of : {"headers"}, calls : D]
    BY <2>6
  <2>. QED
    BY <2>1, <2>2, <2>3, <2>4, <2>5, <2>6
<1>2. ASSUME trial \in Trials, trial.of = "controls" PROVE trial.calls \in Seq(Int)
  <2>1. trial.calls \in Histories(0..4, 5)
    BY <1>0, <1>2
  <2>. QED
    BY <1>1, <2>1
<1>3. ASSUME trial \in Trials, trial.of = "guests"
      PROVE  trial.calls \in Seq(Arrivals(Int, {FALSE}))
  <2>1. trial.calls \in Histories(Arrivals({0, 2}, {FALSE}), 5)
    BY <1>0, <1>3 DEF Ordered
  <2>2. Arrivals({0, 2}, {FALSE}) \subseteq Arrivals(Int, {FALSE})
    <3>1. {0, 2} \subseteq Int
      OBVIOUS
    <3>. QED
      BY <3>1, Zenon, ArrivalsWithin
  <2>. QED
    BY <1>1, <2>1, <2>2
<1>4. ASSUME trial \in Trials, trial.of = "swept guests"
      PROVE  trial.calls \in Ordered(Seq(Arrivals(Int, BOOLEAN)))
  <2>1. trial.calls \in Ordered(Histories(Arrivals({0, 4, 7}, BOOLEAN), 4))
    BY <1>0, <1>4
  <2>2. Arrivals({0, 4, 7}, BOOLEAN) \subseteq Arrivals(Int, BOOLEAN)
    <3>1. {0, 4, 7} \subseteq Int
      OBVIOUS
    <3>. QED
      BY <3>1, Zenon, ArrivalsWithin
  <2>3. trial.calls \in Seq(Arrivals(Int, BOOLEAN))
    BY <1>1, <2>1, <2>2 DEF Ordered
  <2>. QED
    BY <2>1, <2>3 DEF Ordered
<1>5. ASSUME trial \in Trials, trial.of = "headers"
      PROVE  \E S : trial.calls[1] \in [written : Seq(S), me : Callers,
                                        hops : Seq({"private", "unknown"})]
  <2>1. PICK x \in Headers : trial.calls = <<x>>
    BY <1>0, <1>5
  <2> DEFINE S == {"a", "b", "private", "unknown"}
             P == {"private", "unknown"}
  <2>2. /\ x.written \in {<<>>} \cup Histories(S, 3) /\ x.me \in Callers
        /\ x.hops \in {<<>>} \cup Histories(P, 2)
        /\ x = [written |-> x.written, me |-> x.me, hops |-> x.hops]
    BY DEF Headers
  <2>3. x.written \in Seq(S) /\ x.hops \in Seq(P)
    <3> HIDE DEF S, P
    <3>1. \A X : <<>> \in Seq(X)
      OBVIOUS
    <3>2. Histories(S, 3) \subseteq Seq(S) /\ Histories(P, 2) \subseteq Seq(P)
      <4>1. 3 \in Nat /\ 2 \in Nat /\ S \subseteq S /\ P \subseteq P
        OBVIOUS
      <4>. QED
        BY <1>1, <4>1
    <3>. QED
      BY <2>2, <3>1, <3>2
  <2>4. x \in [written : Seq(S), me : Callers, hops : Seq(P)]
    BY <2>2, <2>3
  <2>. QED
    BY <2>1, <2>4
<1>. QED
  BY <1>2, <1>3, <1>4, <1>5, LimitsSafety

(* The last of some numbers.                                                *)
LEMMA HasLast ==
    ASSUME NEW n \in Nat, NEW S, S \subseteq 1..n, S # {}
    PROVE  \E i \in S : \A j \in S : j <= i
<1> DEFINE Below(m) == {j \in S : j <= m}
           T == {m \in 0..n : Below(m) = {} \/ \E i \in Below(m) : \A j \in Below(m) : j <= i}
<1>0. \A j \in S : j \in Int /\ 1 <= j /\ j <= n
  OBVIOUS
<1>1. 0 \in T
  <2>1. \A j \in S : ~(j <= 0)
    BY <1>0
  <2>2. Below(0) = {}
    BY <2>1
  <2>. QED
    BY <2>2
<1>2. ASSUME NEW m \in 1..n, m - 1 \in T PROVE m \in T
  <2>1. CASE m \in S
    <3>1. m \in Below(m) /\ \A j \in Below(m) : j <= m
      BY <2>1
    <3> HIDE DEF Below
    <3>. QED
      BY <3>1
  <2>2. CASE m \notin S
    <3>1. \A j \in S : j <= m <=> j <= m - 1
      BY <1>0, <2>2
    <3>2. Below(m) = Below(m - 1)
      BY <3>1
    <3> HIDE DEF Below
    <3>. QED
      BY <1>2, <3>2
  <2>. QED
    BY <2>1, <2>2
<1>3. n \in T
  <2>1. 0..n \subseteq T
    <3> HIDE DEF T
    <3>. QED
      BY <1>1, <1>2, CountedUp
  <2>2. n \in 0..n
    OBVIOUS
  <2> HIDE DEF T
  <2>. QED
    BY <2>1, <2>2
<1>4. Below(n) = S
  BY <1>0
<1> HIDE DEF Below
<1>. QED
  BY <1>3, <1>4

-----------------------------------------------------------------------------
(* The simulated player.                                                    *)

Lifecycles == {"cued", "playing", "paused", "buffering"}
Players ==
    [lifecycle : Lifecycles, position : Int, lastAdvanceAt : Int, pendingUntil : Int,
     pending : Seq(Commands), stallUntil : Int]

(* A buffering player knows when it ends, and nothing has a debt of time.   *)
Settles(p) == p.lifecycle = "buffering" => p.stallUntil > 0

SimTypeOK ==
    /\ sim \in Players /\ clock \in Nat /\ frozen \in Int
    /\ landed \in [at : Int, to : Nat]
    /\ sim.pendingUntil >= 0

SimIInv ==
    /\ SimTypeOK
    /\ sim.lastAdvanceAt \in {-1, clock}
    /\ Settles(sim)
    /\ SimSound

LEMMA LastOfIs ==
    ASSUME NEW p \in Players, NEW kinds
    PROVE  LET i == LastOf(p, kinds) IN
           /\ i \in 0..Len(p.pending)
           /\ i # 0 => p.pending[i].do \in kinds
           /\ \A j \in 1..Len(p.pending) : j > i => p.pending[j].do \notin kinds
<1> DEFINE S == {i \in 1..Len(p.pending) : p.pending[i].do \in kinds}
           i == LastOf(p, kinds)
           n == Len(p.pending)
<1>1. n \in Nat
  BY DEF Players
<1>2. CASE S = {}
  BY <1>1, <1>2 DEF LastOf
<1>3. CASE S # {}
  <2>1. \E x \in S : \A j \in S : j <= x
    <3>1. S \subseteq 1..n
      OBVIOUS
    <3> HIDE DEF S, n
    <3>. QED
      BY <1>1, <1>3, <3>1, HasLast
  <2>2. i = CHOOSE x \in S : \A j \in S : j <= x
    BY <1>3 DEF LastOf
  <2>3. i \in S /\ \A j \in S : j <= i
    <3> HIDE DEF S, i
    <3>. QED
      BY <2>1, <2>2
  <2>4. i \in 1..n /\ p.pending[i].do \in kinds /\ n = Len(p.pending)
    BY <2>3
  <2>5. ASSUME NEW j \in 1..n, j > i, p.pending[j].do \in kinds PROVE FALSE
    <3>1. j \in S
      BY <2>5
    <3>2. j <= i
      BY <2>3, <3>1
    <3>. QED
      BY <1>1, <2>4, <2>5, <3>2
  <2> HIDE DEF i, S, n
  <2>6. i \in 0..n
    BY <1>1, <2>4
  <2>. QED
    BY <2>4, <2>5, <2>6 DEF i
<1>. QED
  BY <1>2, <1>3

(* A command that takes effect.                                             *)
LEMMA CommandTaken ==
    ASSUME NEW p \in Players, Settles(p), p.pendingUntil >= 0, NEW c \in Commands
    PROVE  LET q == Applied(p, c) IN
           /\ q \in Players /\ Settles(q)
           /\ q.pendingUntil = p.pendingUntil /\ q.lastAdvanceAt = p.lastAdvanceAt
           /\ q.pending = p.pending
           /\ q.position = IF c.do = "seek" THEN c.to ELSE p.position
           /\ c.do = "pause" => q.lifecycle = "paused"
           /\ c.do = "seek" /\ p.lifecycle = "paused" => q.lifecycle = "paused"
<1>1. /\ c.do \in {"play", "pause", "seek"} /\ c.to \in Int /\ c.settle \in Int
      /\ c.do = "seek" => c.settle >= 1
  BY DEF Commands, Targets, Delays
<1>2. CASE c.do = "play"
  <2>1. Applied(p, c) = [p EXCEPT !.lifecycle = "playing"]
    BY <1>2 DEF Applied
  <2>. QED
    BY <1>2, <2>1 DEF Players, Lifecycles, Settles
<1>3. CASE c.do = "pause"
  <2>1. Applied(p, c) = [p EXCEPT !.lifecycle = "paused"]
    BY <1>3 DEF Applied
  <2>. QED
    BY <1>3, <2>1 DEF Players, Lifecycles, Settles
<1>4. CASE c.do = "seek"
  <2> DEFINE m == [p EXCEPT !.position = c.to]
             u == p.pendingUntil + c.settle
             q == Applied(p, c)
  <2>1. /\ m \in Players /\ m.lifecycle = p.lifecycle /\ m.stallUntil = p.stallUntil
        /\ m.position = c.to /\ m.pendingUntil = p.pendingUntil
        /\ m.lastAdvanceAt = p.lastAdvanceAt /\ m.pending = p.pending
    BY <1>1 DEF Players
  <2>2. u \in Int /\ u > 0
    <3>1. p.pendingUntil \in Int
      BY DEF Players
    <3>. QED
      BY <1>1, <1>4, <3>1
  <2>3. q = seekTo(p, c)
    BY <1>4 DEF Applied
  <2>4. CASE p.lifecycle \in {"playing", "cued"}
    <3>1. q = [m EXCEPT !.lifecycle = "buffering", !.stallUntil = u]
      BY <2>3, <2>4 DEF seekTo
    <3> HIDE DEF m, u, q
    <3>2. q \in Players /\ q.stallUntil = u /\ q.pendingUntil = m.pendingUntil
          /\ q.lastAdvanceAt = m.lastAdvanceAt /\ q.pending = m.pending /\ q.position = m.position
      BY <2>1, <2>2, <3>1 DEF Players, Lifecycles
    <3>. QED
      BY <1>4, <2>1, <2>2, <2>4, <3>2 DEF Settles, q
  <2>5. CASE p.lifecycle \notin {"playing", "cued"}
    <3>1. q = m
      BY <2>3, <2>5 DEF seekTo
    <3> HIDE DEF m, q
    <3>. QED
      BY <1>4, <2>1, <3>1 DEF Settles, q
  <2>. QED
    BY <2>4, <2>5
<1>. QED
  BY <1>1, <1>2, <1>3, <1>4

(* Every pending command takes effect, in order.                            *)
LEMMA AllTaken ==
    ASSUME NEW p \in Players, Settles(p), p.pendingUntil >= 0,
           NEW i, i = LastOf(p, {"play", "pause"}), NEW k, k = LastOf(p, {"seek"})
    PROVE  LET q == AllApplied(p) IN
           /\ q \in Players /\ Settles(q) /\ q.pendingUntil = p.pendingUntil
           /\ q.lastAdvanceAt = p.lastAdvanceAt
           /\ q.position = IF k = 0 THEN p.position ELSE p.pending[k].to
           /\ i = 0 /\ p.lifecycle = "paused" => q.lifecycle = "paused"
           /\ i # 0 /\ p.pending[i].do = "pause" => q.lifecycle = "paused"
<1> DEFINE n == Len(p.pending)
           S == {q \in Players : Settles(q) /\ q.pendingUntil = p.pendingUntil
                                 /\ q.lastAdvanceAt = p.lastAdvanceAt}
           F == [j \in 1..n |-> [q \in S |-> Applied(q, p.pending[j])]]
           init == [p EXCEPT !.pending = <<>>]
<1>1. n \in Nat /\ \A j \in 1..n : p.pending[j] \in Commands
  BY DEF Players
<1>2. init \in S /\ init.position = p.position /\ init.lifecycle = p.lifecycle
  <2>1. <<>> \in Seq(Commands)
    OBVIOUS
  <2>. QED
    BY <2>1 DEF Players, Settles
<1>3. ASSUME NEW q \in S, NEW j \in 1..n
      PROVE  /\ Applied(q, p.pending[j]) \in S
             /\ Applied(q, p.pending[j]).position =
                    IF p.pending[j].do = "seek" THEN p.pending[j].to ELSE q.position
             /\ p.pending[j].do = "pause" => Applied(q, p.pending[j]).lifecycle = "paused"
             /\ p.pending[j].do = "seek" /\ q.lifecycle = "paused" =>
                    Applied(q, p.pending[j]).lifecycle = "paused"
  <2> DEFINE c == p.pending[j]
             r == Applied(q, c)
  <2>1. c \in Commands /\ q \in Players /\ Settles(q) /\ q.pendingUntil >= 0
    BY <1>1
  <2> HIDE DEF c
  <2>2. /\ r \in Players /\ Settles(r)
        /\ r.pendingUntil = q.pendingUntil /\ r.lastAdvanceAt = q.lastAdvanceAt
        /\ r.position = IF c.do = "seek" THEN c.to ELSE q.position
        /\ c.do = "pause" => r.lifecycle = "paused"
        /\ c.do = "seek" /\ q.lifecycle = "paused" => r.lifecycle = "paused"
    BY <2>1, CommandTaken
  <2> HIDE DEF r
  <2>3. r \in S
    BY <2>2
  <2>. QED
    BY <2>2, <2>3 DEF r, c
<1> HIDE DEF init
<1>4. F \in [1..n -> [S -> S]]
  BY <1>3
<1>5. PICK g : IsFold(g, S, n, init, F)
  <2> HIDE DEF F, S, n
  <2>. QED
    BY <1>1, <1>2, <1>4, FoldExists
<1> DEFINE RunOf(r) == r = [j \in 0..n |-> IF j = 0 THEN init ELSE Applied(r[j - 1], p.pending[j])]
<1>6. RunOf(g)
  <2>1. \A j \in 0..n : j # 0 => j \in 1..n /\ g[j - 1] \in S
    <3>1. \A j \in 0..n : j # 0 => j \in 1..n /\ j - 1 \in 0..n
      BY <1>1
    <3> HIDE DEF F, S, n
    <3>. QED
      BY <1>5, <3>1 DEF IsFold
  <2>2. ASSUME NEW j \in 1..n PROVE g[j] = Applied(g[j - 1], p.pending[j])
    <3>1. g[j] = F[j][g[j - 1]]
      <4> HIDE DEF F, S, n
      <4>. QED
        BY <1>5 DEF IsFold
    <3>2. g[j - 1] \in S
      BY <1>1, <2>1
    <3> HIDE DEF S
    <3>. QED
      BY <3>1, <3>2
  <2>3. g[0] = init /\ g = [j \in 0..n |-> g[j]]
    <3> HIDE DEF F, S, n
    <3>. QED
      BY <1>5 DEF IsFold
  <2> HIDE DEF n
  <2>. QED
    BY <2>1, <2>2, <2>3
<1> DEFINE v == CHOOSE r : RunOf(r)
<1>7. RunOf(v)
  <2> HIDE DEF RunOf
  <2>. QED
    BY <1>6
<1>8. AllApplied(p) = v[n]
  BY DEF AllApplied, init
<1>9. v[0] = init /\ \A j \in 1..n : v[j] = Applied(v[j - 1], p.pending[j])
  <2> HIDE DEF v
  <2>. QED
    BY <1>1, <1>7
<1> HIDE DEF v, RunOf
<1>10. /\ i \in 0..n /\ k \in 0..n
       /\ i # 0 => p.pending[i].do \in {"play", "pause"}
       /\ \A j \in 1..n : j > i => p.pending[j].do \notin {"play", "pause"}
       /\ k # 0 => p.pending[k].do = "seek"
       /\ \A j \in 1..n : j > k => p.pending[j].do # "seek"
  <2>1. i \in 0..n /\ (i # 0 => p.pending[i].do \in {"play", "pause"})
        /\ \A j \in 1..n : j > i => p.pending[j].do \notin {"play", "pause"}
    BY LastOfIs
  <2>2. k \in 0..n /\ (k # 0 => p.pending[k].do \in {"seek"})
        /\ \A j \in 1..n : j > k => p.pending[j].do \notin {"seek"}
    BY LastOfIs
  <2>. QED
    BY <2>1, <2>2
<1>11. \A j \in 1..n : p.pending[j].do \in {"play", "pause", "seek"}
  BY <1>1 DEF Commands
<1> DEFINE Rests == \/ i = 0 /\ p.lifecycle = "paused"
                    \/ i # 0 /\ p.pending[i].do = "pause"
           T == {j \in 0..n :
                    /\ v[j] \in S
                    /\ j >= k => v[j].position = IF k = 0 THEN p.position ELSE p.pending[k].to
                    /\ Rests /\ j >= i => v[j].lifecycle = "paused"}
<1>12. 0 \in T
  <2> HIDE DEF S
  <2>. QED
    BY <1>1, <1>2, <1>9, <1>10
<1>13. ASSUME NEW j \in 1..n, j - 1 \in T PROVE j \in T
  <2> DEFINE q == v[j - 1]
             c == p.pending[j]
             r == v[j]
  <2>1. /\ q \in S /\ j \in 0..n
        /\ j - 1 >= k => q.position = IF k = 0 THEN p.position ELSE p.pending[k].to
        /\ Rests /\ j - 1 >= i => q.lifecycle = "paused"
    <3> HIDE DEF S, Rests
    <3>. QED
      BY <1>1, <1>13
  <2>2. /\ r \in S /\ r.position = IF c.do = "seek" THEN c.to ELSE q.position
        /\ c.do = "pause" => r.lifecycle = "paused"
        /\ c.do = "seek" /\ q.lifecycle = "paused" => r.lifecycle = "paused"
    <3>1. r = Applied(q, c)
      BY <1>9
    <3> HIDE DEF S, r, q
    <3>. QED
      BY <1>3, <2>1, <3>1
  <2> HIDE DEF q, r, S
  <2>3. j >= k => r.position = IF k = 0 THEN p.position ELSE p.pending[k].to
    <3>1. CASE j = k
      BY <1>1, <1>10, <2>2, <3>1
    <3>2. CASE j > k
      <4>1. c.do # "seek" /\ j - 1 >= k
        BY <1>1, <1>10, <3>2
      <4>. QED
        BY <2>1, <2>2, <4>1
    <3>. QED
      BY <1>1, <1>10, <3>1, <3>2
  <2>4. Rests /\ j >= i => r.lifecycle = "paused"
    <3> SUFFICES ASSUME Rests, j >= i PROVE r.lifecycle = "paused"
      OBVIOUS
    <3>1. CASE j = i
      <4>1. c.do = "pause"
        BY <1>1, <3>1
      <4>. QED
        BY <2>2, <4>1
    <3>2. CASE j > i
      <4>1. c.do = "seek" /\ j - 1 >= i
        BY <1>1, <1>10, <1>11, <3>2
      <4>. QED
        BY <2>1, <2>2, <4>1
    <3>. QED
      BY <1>1, <1>10, <3>1, <3>2
  <2> HIDE DEF Rests
  <2>. QED
    BY <2>1, <2>2, <2>3, <2>4 DEF r
<1>14. n \in T
  <2>1. 0..n \subseteq T
    <3> HIDE DEF T, n
    <3>. QED
      BY <1>1, <1>12, <1>13, CountedUp
  <2>. QED
    BY <1>1, <2>1
<1>15. n >= k /\ n >= i
  BY <1>1, <1>10
<1>. QED
  BY <1>8, <1>14, <1>15

LEMMA SimInitial ==
    ASSUME SimInit
    PROVE  SimIInv
<1>1. <<>> \in Seq(Commands)
  OBVIOUS
<1>. QED
  BY <1>1 DEF SimInit, SimIInv, SimTypeOK, Players, Lifecycles, Settles, SimSound, PausedRests,
           BufferingEnds, NeverAhead

LEMMA LaterKept ==
    ASSUME SimIInv, NEW c \in Commands, later(c)
    PROVE  SimIInv'
<1>1. PICK latency \in Delays :
          sim' = [sim EXCEPT !.pendingUntil = clock + latency, !.pending = Append(@, c)]
  BY DEF later
<1>2. /\ sim \in Players /\ clock \in Nat /\ latency \in Nat
      /\ UNCHANGED <<clock, frozen, landed>>
  BY DEF SimIInv, SimTypeOK, later, Delays
<1> DEFINE u == clock + latency
           q == Append(sim.pending, c)
<1>3. u \in Int /\ u >= 0 /\ q \in Seq(Commands)
  <2>1. sim.pending \in Seq(Commands)
    BY <1>2 DEF Players
  <2>. QED
    BY <1>2, <2>1, AppendProperties
<1> HIDE DEF u, q
<1> DEFINE y == [sim EXCEPT !.pendingUntil = u]
<1>4. sim' = [y EXCEPT !.pending = q]
  BY <1>1, <1>2 DEF u, q, Players
<1>5. /\ y \in Players /\ y.pendingUntil = u /\ y.lifecycle = sim.lifecycle
      /\ y.position = sim.position /\ y.lastAdvanceAt = sim.lastAdvanceAt
      /\ y.stallUntil = sim.stallUntil
  BY <1>2, <1>3 DEF Players
<1> HIDE DEF y
<1>6. /\ sim' \in Players /\ sim'.pendingUntil = u /\ sim'.lifecycle = sim.lifecycle
      /\ sim'.position = sim.position /\ sim'.lastAdvanceAt = sim.lastAdvanceAt
      /\ sim'.stallUntil = sim.stallUntil
  BY <1>3, <1>4, <1>5 DEF Players
<1>. QED
  BY <1>2, <1>3, <1>6 DEF SimIInv, SimTypeOK, Settles, SimSound, PausedRests, BufferingEnds, NeverAhead

LEMMA StallKept ==
    ASSUME SimIInv, stall
    PROVE  SimIInv'
<1>1. PICK duration \in Delays :
          sim' = [sim EXCEPT !.lifecycle = "buffering", !.stallUntil = clock + duration]
  BY DEF stall
<1>2. /\ sim \in Players /\ clock \in Nat /\ duration \in Nat /\ duration > 0
      /\ UNCHANGED <<clock, frozen, landed>> /\ sim.lifecycle = "playing"
  BY DEF SimIInv, SimTypeOK, stall, Delays
<1> DEFINE u == clock + duration
<1>3. u \in Int /\ u > clock /\ u > 0
  BY <1>2
<1> HIDE DEF u
<1> DEFINE y == [sim EXCEPT !.lifecycle = "buffering"]
<1>4. sim' = [y EXCEPT !.stallUntil = u]
  BY <1>1, <1>2 DEF u, Players
<1>5. /\ y \in Players /\ y.lifecycle = "buffering" /\ y.pendingUntil = sim.pendingUntil
      /\ y.position = sim.position /\ y.lastAdvanceAt = sim.lastAdvanceAt
  BY <1>2 DEF Players, Lifecycles
<1> HIDE DEF y
<1>6. /\ sim' \in Players /\ sim'.pendingUntil = sim.pendingUntil /\ sim'.lifecycle = "buffering"
      /\ sim'.position = sim.position /\ sim'.lastAdvanceAt = sim.lastAdvanceAt
      /\ sim'.stallUntil = u
  BY <1>3, <1>4, <1>5 DEF Players
<1>. QED
  BY <1>2, <1>3, <1>6 DEF SimIInv, SimTypeOK, Settles, SimSound, PausedRests, BufferingEnds, NeverAhead

(* Time passes: commands that are due take effect, a buffering that is over *)
(* ends, and the media moves.                                               *)
LEMMA AdvanceKept ==
    ASSUME SimIInv, NEW d \in Delays, advance(d)
    PROVE  SimIInv'
<1> DEFINE t == clock + d
           ran == RunPending(sim, t)
           ended == EndStall(ran, t)
           i == LastOf(sim, {"play", "pause"})
           k == LastOf(sim, {"seek"})
<1>1. /\ sim \in Players /\ clock \in Nat /\ frozen \in Int /\ d \in Nat
      /\ landed \in [at : Int, to : Nat] /\ sim.pendingUntil >= 0
      /\ sim.lastAdvanceAt \in {-1, clock} /\ Settles(sim)
  BY DEF SimIInv, SimTypeOK, Delays
<1>2. /\ frozen # -1 => sim.lifecycle = "paused" /\ sim.position = frozen
      /\ sim.lifecycle = "buffering" => sim.stallUntil > clock
      /\ landed.to <= sim.position
      /\ sim.position <= landed.to + (clock - landed.at)
  BY DEF SimIInv, SimSound, PausedRests, BufferingEnds, NeverAhead
<1>3. /\ clock' = t /\ sim' = Move(ended, t)
      /\ Due(sim, t) =>
           /\ frozen' = IF IF i = 0 THEN frozen # -1 ELSE sim.pending[i].do = "pause"
                        THEN ran.position ELSE -1
           /\ landed' = IF k = 0 THEN landed ELSE [at |-> t, to |-> sim.pending[k].to]
      /\ ~Due(sim, t) => UNCHANGED <<frozen, landed>>
  BY DEF advance
<1>4. t \in Nat /\ t > clock
  <2>1. d > 0
    BY DEF Delays
  <2>. QED
    BY <1>1, <2>1
<1> HIDE DEF t, i, k
<1>5. i \in 0..Len(sim.pending) /\ k \in 0..Len(sim.pending) /\ Len(sim.pending) \in Nat
  <2>1. Len(sim.pending) \in Nat
    BY <1>1 DEF Players
  <2>. QED
    BY <1>1, <2>1, LastOfIs DEF i, k
(* What the player is once the due commands have taken effect.              *)
<1>6. /\ ran \in Players /\ Settles(ran) /\ ran.pendingUntil >= 0
      /\ frozen' \in Int /\ landed' \in [at : Int, to : Nat]
      /\ frozen' # -1 => ran.lifecycle = "paused" /\ ran.position = frozen'
      /\ ran.lastAdvanceAt \in {-1, clock, t}
      /\ landed'.to <= ran.position
      /\ ran.lastAdvanceAt = t => ran.position <= landed'.to + (t - landed'.at)
      /\ ran.lastAdvanceAt # t => ran.position <= landed'.to + (clock - landed'.at)
  <2>1. CASE ~Due(sim, t)
    <3>1. ran = sim /\ frozen' = frozen /\ landed' = landed
      BY <1>3, <2>1 DEF RunPending
    <3>2. sim.lastAdvanceAt # t
      BY <1>1, <1>4
    <3> HIDE DEF ran
    <3>. QED
      BY <1>1, <1>2, <3>1, <3>2
  <2>2. CASE Due(sim, t)
    <3> DEFINE all == AllApplied(sim)
    <3>1. /\ all \in Players /\ Settles(all) /\ all.pendingUntil = sim.pendingUntil
          /\ all.position = IF k = 0 THEN sim.position ELSE sim.pending[k].to
          /\ i = 0 /\ sim.lifecycle = "paused" => all.lifecycle = "paused"
          /\ i # 0 /\ sim.pending[i].do = "pause" => all.lifecycle = "paused"
      BY <1>1, AllTaken DEF i, k
    <3> HIDE DEF all
    <3>2. ran = [all EXCEPT !.lastAdvanceAt = t]
      BY <2>2 DEF RunPending, all
    <3>3. /\ ran \in Players /\ ran.lifecycle = all.lifecycle /\ ran.position = all.position
          /\ ran.stallUntil = all.stallUntil /\ ran.pendingUntil = all.pendingUntil
          /\ ran.lastAdvanceAt = t
      <4> HIDE DEF ran
      <4>. QED
        BY <1>4, <3>1, <3>2 DEF Players
    <3> HIDE DEF ran
    <3>4. /\ frozen' = IF IF i = 0 THEN frozen # -1 ELSE sim.pending[i].do = "pause"
                       THEN ran.position ELSE -1
          /\ landed' = IF k = 0 THEN landed ELSE [at |-> t, to |-> sim.pending[k].to]
      BY <1>3, <2>2
    <3>5. ran.position \in Int /\ sim.position \in Int
      BY <1>1, <3>3 DEF Players
    <3>6. k # 0 => sim.pending[k].to \in Nat
      <4>1. k # 0 => sim.pending[k] \in Commands
        BY <1>1, <1>5 DEF Players
      <4>. QED
        BY <4>1 DEF Commands, Targets
    <3>7. landed' \in [at : Int, to : Nat]
      BY <1>1, <1>4, <3>4, <3>6
    <3>8. frozen' \in Int /\ (frozen' # -1 => ran.lifecycle = "paused" /\ ran.position = frozen')
      <4>1. CASE i = 0
        BY <1>2, <3>1, <3>3, <3>4, <3>5, <4>1
      <4>2. CASE i # 0
        BY <3>1, <3>3, <3>4, <3>5, <4>2
      <4>. QED
        BY <4>1, <4>2
    <3>9. landed'.to <= ran.position /\ ran.position <= landed'.to + (t - landed'.at)
      <4>1. CASE k = 0
        <5>1. ran.position = sim.position /\ landed' = landed
          BY <3>1, <3>3, <3>4, <4>1
        <5> DEFINE x == sim.position
                   a == landed.at
                   b == landed.to
        <5>2. x \in Int /\ a \in Int /\ b \in Int /\ clock \in Int /\ t \in Int /\ t > clock
              /\ b <= x /\ x <= b + (clock - a)
          BY <1>1, <1>2, <1>4, <3>5
        <5> HIDE DEF x, a, b
        <5>3. b <= x /\ x <= b + (t - a)
          BY ONLY <5>2
        <5>. QED
          BY <5>1, <5>3 DEF x, a, b
      <4>2. CASE k # 0
        <5>1. ran.position = sim.pending[k].to /\ landed' = [at |-> t, to |-> sim.pending[k].to]
          BY <3>1, <3>3, <3>4, <4>2
        <5>. QED
          BY <1>4, <3>6, <4>2, <5>1
      <4>. QED
        BY <4>1, <4>2
    <3>10. Settles(ran) /\ ran.pendingUntil >= 0
      BY <1>1, <3>1, <3>3 DEF Settles
    <3>. QED
      BY <3>3, <3>7, <3>8, <3>9, <3>10
  <2>. QED
    BY <2>1, <2>2
<1> HIDE DEF ran
(* A buffering that is over ends in playing from now on.                    *)
<1>7. /\ ended \in Players /\ ended.position = ran.position
      /\ ended.pendingUntil = ran.pendingUntil
      /\ ended.lifecycle = "buffering" => ended.stallUntil > t
      /\ ran.lifecycle = "paused" => ended.lifecycle = "paused"
      /\ \/ ended.lastAdvanceAt = ran.lastAdvanceAt
         \/ ended.lastAdvanceAt = t
  <2>1. CASE ran.stallUntil > 0 /\ t >= ran.stallUntil /\ ran.lifecycle = "buffering"
    <3> DEFINE y == [ran EXCEPT !.lifecycle = "playing"]
               z == [y EXCEPT !.stallUntil = 0]
    <3>1. ended = [z EXCEPT !.lastAdvanceAt = t]
      BY <1>6, <2>1 DEF EndStall, Players
    <3>2. y \in Players /\ y.position = ran.position /\ y.lifecycle = "playing"
          /\ y.pendingUntil = ran.pendingUntil
      BY <1>6 DEF Players, Lifecycles
    <3> HIDE DEF y
    <3>3. z \in Players /\ z.position = ran.position /\ z.lifecycle = "playing"
          /\ z.pendingUntil = ran.pendingUntil
      BY <3>2 DEF Players
    <3> HIDE DEF z, ended
    <3>4. ended \in Players /\ ended.position = ran.position /\ ended.lifecycle = "playing"
          /\ ended.pendingUntil = ran.pendingUntil /\ ended.lastAdvanceAt = t
      BY <1>4, <3>1, <3>3 DEF Players
    <3>. QED
      BY <2>1, <3>4
  <2>2. CASE ~(ran.stallUntil > 0 /\ t >= ran.stallUntil /\ ran.lifecycle = "buffering")
    <3>1. ended = ran
      BY <2>2 DEF EndStall
    <3>2. ran.stallUntil \in Int
      BY <1>6 DEF Players
    <3>3. ran.lifecycle = "buffering" => ran.stallUntil > t
      BY <1>4, <1>6, <2>2, <3>2 DEF Settles
    <3> HIDE DEF ended
    <3>. QED
      BY <1>6, <3>1, <3>3
  <2>. QED
    BY <2>1, <2>2
<1> HIDE DEF ended
(* The media moves by what has passed since the last step, if at all.       *)
<1> DEFINE x == IF ended.lifecycle = "playing" /\ ended.lastAdvanceAt # -1
                THEN ended.position + (t - ended.lastAdvanceAt) ELSE ended.position
<1>8. /\ sim' \in Players /\ sim'.position = x /\ sim'.lastAdvanceAt = t
      /\ sim'.lifecycle = ended.lifecycle /\ sim'.stallUntil = ended.stallUntil
      /\ sim'.pendingUntil = ended.pendingUntil
  <2>1. x \in Int
    BY <1>4, <1>7 DEF Players
  <2> DEFINE y == [ended EXCEPT !.position = x]
  <2>2. sim' = [y EXCEPT !.lastAdvanceAt = t]
    BY <1>3, <1>7 DEF Move, Players
  <2> HIDE DEF x
  <2>3. y \in Players /\ y.position = x /\ y.lifecycle = ended.lifecycle
        /\ y.stallUntil = ended.stallUntil /\ y.pendingUntil = ended.pendingUntil
    BY <1>7, <2>1 DEF Players
  <2> HIDE DEF y
  <2>. QED
    BY <1>4, <2>2, <2>3 DEF Players
<1>9. landed'.to <= x /\ x <= landed'.to + (t - landed'.at)
  <2> DEFINE y == ran.position
             w == ended.lastAdvanceAt
             a == landed'.at
             b == landed'.to
  <2>1. y \in Int /\ w \in Int /\ a \in Int /\ b \in Int /\ t \in Int /\ clock \in Int /\ t > clock
        /\ clock >= 0
    BY <1>1, <1>4, <1>6, <1>7 DEF Players
  <2>2. /\ b <= y
        /\ w = t \/ ran.lastAdvanceAt = w
        /\ ran.lastAdvanceAt \in {-1, clock, t}
        /\ ran.lastAdvanceAt = t => y <= b + (t - a)
        /\ ran.lastAdvanceAt # t => y <= b + (clock - a)
    BY <1>6, <1>7
  <2>3. \/ x = y
        \/ x = y + (t - w) /\ w # -1
    BY <1>7
  <2> DEFINE r == ran.lastAdvanceAt
  <2> HIDE DEF x, y, w, a, b, r
  <2>4. /\ y \in Int /\ w \in Int /\ a \in Int /\ b \in Int /\ t \in Int /\ clock \in Int /\ t > clock
        /\ clock >= 0 /\ b <= y /\ (w = t \/ r = w) /\ r \in {-1, clock, t}
        /\ (r = t => y <= b + (t - a)) /\ (r # t => y <= b + (clock - a))
        /\ (x = y \/ (x = y + (t - w) /\ w # -1))
    BY <2>1, <2>2, <2>3 DEF r
  <2>5. b <= x /\ x <= b + (t - a)
    BY ONLY <2>4
  <2>. QED
    BY <2>5 DEF a, b
<1>10. frozen' # -1 => sim'.lifecycle = "paused" /\ sim'.position = frozen'
  <2>1. ended.lifecycle = "paused" => x = ran.position
    BY <1>7
  <2> HIDE DEF x
  <2>. QED
    BY <1>6, <1>7, <1>8, <2>1
<1> HIDE DEF x
<1>11. SimTypeOK'
  BY <1>3, <1>4, <1>6, <1>7, <1>8 DEF SimTypeOK
<1>12. Settles(sim')
  BY <1>4, <1>7, <1>8 DEF Settles, Players
<1>13. SimSound'
  BY <1>3, <1>7, <1>8, <1>9, <1>10 DEF SimSound, PausedRests, BufferingEnds, NeverAhead
<1>. QED
  BY <1>3, <1>8, <1>11, <1>12, <1>13 DEF SimIInv

(* The bots' player does what a player would, however many commands it is   *)
(* given and however long its bot waits between two steps (SimPlayer).      *)
THEOREM SimSafety == SimInit /\ [][SimNext]_simVars => []SimSound
<1>1. SimIInv /\ [SimNext]_simVars => SimIInv'
  <2> SUFFICES ASSUME SimIInv, [SimNext]_simVars PROVE SimIInv'
    OBVIOUS
  <2>1. CASE UNCHANGED simVars
    BY <2>1 DEF simVars, SimIInv, SimTypeOK, SimSound, PausedRests, BufferingEnds, NeverAhead
  <2>2. CASE SimNext
    BY <2>2, LaterKept, StallKept, AdvanceKept DEF SimNext
  <2>. QED
    BY <2>1, <2>2
<1>2. SimIInv => SimSound
  BY DEF SimIInv
<1>. QED
  BY <1>1, <1>2, SimInitial, PTL

-----------------------------------------------------------------------------
(* The bot fleet.                                                           *)

PushedTimelines ==
    [storeEpoch : Nat, seq : Nat, reason : {"join", "seek", "snapshot"}, mediaTime : Int]
Versions == Int \X Int
BotStates ==
    [conn : {"up", "quiet", "down"}, gen : Nat, room : BOOLEAN, inRoom : BOOLEAN,
     req : Nat, buffered : Nat, ans : Seq(PushedTimelines), pending : SUBSET Nat, latest : Int,
     reconnects : Nat, rejoinFailures : Nat,
     seen : SUBSET Versions, timeline : PushedTimelines \cup {NoVersion}, seqDuplicates : Nat,
     seqReorders : Nat, lastSeek : Int, controlCommits : SUBSET Versions, hears : Nat,
     got : SUBSET Versions]
SentControls == [cmd : FleetCmds, gen : Nat]

FleetTypeOK ==
    /\ fleetScope \in FleetScopes
    /\ plane \in {"node", "relay"} /\ dupControls \in BOOLEAN /\ dedups \in BOOLEAN
    /\ commits \in Seq(PushedTimelines)
    /\ bot \in [Bots -> BotStates]
    /\ wire \in Seq(SentControls) /\ stray \in Seq(SentControls)
    /\ scripted \subseteq FleetCmds /\ pairs \in Nat
    /\ overdue \in BOOLEAN /\ aborted \in BOOLEAN /\ drops \in Nat

(* The log h of a deployment: epochs in their order and, inside one, every  *)
(* seq from its birth on.                                                   *)
Older(x, y) == x.storeEpoch < y.storeEpoch \/ (x.storeEpoch = y.storeEpoch /\ x.seq < y.seq)
IsLog(h) ==
    /\ h \in Seq(PushedTimelines) /\ Len(h) >= 1
    /\ \A i, j \in 1..Len(h) : i < j => Older(h[i], h[j])
    /\ \A i \in 1..Len(h) : \A s \in 0..h[i].seq :
          \E j \in 1..Len(h) : h[j].storeEpoch = h[i].storeEpoch /\ h[j].seq = s

(* Seeks of the log are the commands served.                                *)
SeeksServed(h, obeyed) ==
    /\ \A i \in 1..Len(h) : h[i].reason = "seek" => h[i].mediaTime \in obeyed
    /\ \A c \in obeyed : \E i \in 1..Len(h) : h[i].reason = "seek" /\ h[i].mediaTime = c

(* What a bot makes of the log: everything it got is of the log and         *)
(* accounted for, its timeline is the last it got, and its witness the      *)
(* position of the last seek it got of that epoch.                          *)
GotAt(k, h, i) == i \in 1..Len(h) /\ Version(h[i]) \in k.got
SeekGotAt(k, h, i) ==
    GotAt(k, h, i) /\ h[i].reason = "seek" /\ h[i].storeEpoch = k.timeline.storeEpoch
Accounted(k, h) ==
    /\ k.seen = k.got
    /\ \A v \in k.got : \E i \in 1..Len(h) : GotAt(k, h, i) /\ v = Version(h[i])
    /\ \A v \in k.controlCommits : \E i \in 1..Len(h) :
          GotAt(k, h, i) /\ h[i].reason = "seek" /\ v = Version(h[i])
    /\ \A i \in 1..Len(h) : GotAt(k, h, i) /\ h[i].reason = "seek" =>
          Version(h[i]) \in k.controlCommits
FollowsLast(k, h) ==
    IF k.got = {} THEN k.timeline = NoVersion
    ELSE \E m \in 1..Len(h) :
            /\ GotAt(k, h, m) /\ k.timeline = h[m]
            /\ \A i \in 1..Len(h) : GotAt(k, h, i) => i <= m
WitnessHolds(k, h) ==
    k.seqReorders = 0 =>
        \A i \in 1..Len(h) :
            SeekGotAt(k, h, i) /\ (\A j \in 1..Len(h) : SeekGotAt(k, h, j) => j <= i) =>
                k.lastSeek = h[i].mediaTime
HeardOf(k, h) == Accounted(k, h) /\ FollowsLast(k, h) /\ WitnessHolds(k, h)

(* A bot and the room: answers on their way are the log's and come only     *)
(* while it is in the room, and it is in the room, waits or failed.         *)
JoinsWell(k, h, gaveUp) ==
    /\ IsFiniteSet(k.pending)
    /\ \A i \in 1..Len(k.ans) : \E j \in 1..Len(h) : k.ans[i] = h[j]
    /\ k.ans # <<>> => k.inRoom
    /\ k.conn = "up" /\ k.room /\ ~k.inRoom /\ k.pending = {} => gaveUp \/ k.rejoinFailures > 0

(* Controls on their way are of the connection they are on.                 *)
ControlsOfNow ==
    /\ \A i \in 1..Len(wire) : wire[i].gen = bot[Commander].gen
    /\ bot[Commander].conn = "down" => stray = <<>>
    /\ ~overdue

FleetIInv ==
    /\ FleetTypeOK
    /\ IsLog(commits) /\ SeeksServed(commits, arrived)
    /\ \A b \in Bots : HeardOf(bot[b], commits) /\ JoinsWell(bot[b], commits, aborted)
    /\ ControlsOfNow


(* What a bot is once it has received a timeline.                           *)
LEMMA ReceivedIs ==
    ASSUME NEW k \in BotStates, NEW tl \in PushedTimelines
    PROVE  LET q == Received(k, tl) IN
           /\ q \in BotStates
           /\ q.seen = k.seen \cup {Version(tl)} /\ q.got = k.got \cup {Version(tl)}
           /\ q.controlCommits =
                IF tl.reason = "seek" THEN k.controlCommits \cup {Version(tl)}
                ELSE k.controlCommits
           /\ q.lastSeek = IF tl.reason = "seek" /\ Newer(k, tl) THEN tl.mediaTime ELSE k.lastSeek
           /\ q.timeline = IF Newer(k, tl) THEN tl ELSE k.timeline
           /\ q.seqReorders =
                IF ~Newer(k, tl) /\ tl.storeEpoch = k.timeline.storeEpoch
                   /\ tl.seq # k.timeline.seq
                THEN k.seqReorders + 1 ELSE k.seqReorders
           /\ q.conn = k.conn /\ q.gen = k.gen /\ q.room = k.room /\ q.inRoom = k.inRoom
           /\ q.ans = k.ans /\ q.pending = k.pending /\ q.rejoinFailures = k.rejoinFailures
<1> DEFINE V == Version(tl)
           s == k.seen \cup {V}
           c == IF tl.reason = "seek" THEN k.controlCommits \cup {V} ELSE k.controlCommits
           l == IF tl.reason = "seek" /\ Newer(k, tl) THEN tl.mediaTime ELSE k.lastSeek
           g == k.got \cup {V}
           a1 == [k EXCEPT !.seen = s]
           a2 == [a1 EXCEPT !.controlCommits = c]
           a3 == [a2 EXCEPT !.lastSeek = l]
<1>1. V \in Versions /\ tl.mediaTime \in Int
  BY DEF PushedTimelines, Version, Versions
<1>2. s \in SUBSET Versions /\ c \in SUBSET Versions /\ l \in Int /\ g \in SUBSET Versions
  <2>1. k.seen \in SUBSET Versions /\ k.controlCommits \in SUBSET Versions
        /\ k.got \in SUBSET Versions /\ k.lastSeek \in Int
    BY DEF BotStates
  <2> HIDE DEF V
  <2>. QED
    BY <1>1, <2>1
<1> DEFINE noted == [k EXCEPT !.seen = s, !.controlCommits = c, !.lastSeek = l]
           q1 == Classified(noted, tl)
           q == Received(k, tl)
<1>3. q = [q1 EXCEPT !.got = @ \cup {V}]
  BY DEF Received, ingest
<1> DEFINE Same(x, y) ==
             /\ x.conn = y.conn /\ x.gen = y.gen /\ x.room = y.room /\ x.inRoom = y.inRoom
             /\ x.ans = y.ans /\ x.pending = y.pending /\ x.rejoinFailures = y.rejoinFailures
<1> HIDE DEF s, c, l, V
<1>4. /\ noted \in BotStates /\ noted.seen = s /\ noted.controlCommits = c /\ noted.lastSeek = l
      /\ noted.timeline = k.timeline /\ noted.seqReorders = k.seqReorders
      /\ noted.got = k.got /\ Same(noted, k) /\ noted.seqDuplicates = k.seqDuplicates
  <2>1. noted = [a3 EXCEPT !.got = k.got]
    BY DEF BotStates
  <2>2. a1 \in BotStates /\ a1.seen = s /\ a1.controlCommits = k.controlCommits
        /\ a1.lastSeek = k.lastSeek /\ a1.timeline = k.timeline /\ a1.seqReorders = k.seqReorders
        /\ a1.got = k.got /\ Same(a1, k) /\ a1.seqDuplicates = k.seqDuplicates
    BY <1>2 DEF BotStates
  <2> HIDE DEF a1
  <2>3. a2 \in BotStates /\ a2.seen = s /\ a2.controlCommits = c
        /\ a2.lastSeek = k.lastSeek /\ a2.timeline = k.timeline /\ a2.seqReorders = k.seqReorders
        /\ a2.got = k.got /\ Same(a2, k) /\ a2.seqDuplicates = k.seqDuplicates
    BY <1>2, <2>2 DEF BotStates
  <2> HIDE DEF a2
  <2>4. a3 \in BotStates /\ a3.seen = s /\ a3.controlCommits = c
        /\ a3.lastSeek = l /\ a3.timeline = k.timeline /\ a3.seqReorders = k.seqReorders
        /\ a3.got = k.got /\ Same(a3, k) /\ a3.seqDuplicates = k.seqDuplicates
    BY <1>2, <2>3 DEF BotStates
  <2> HIDE DEF a3, noted
  <2>5. noted = a3
    BY <2>1, <2>4 DEF BotStates
  <2>. QED
    BY <2>4, <2>5
<1> HIDE DEF noted
<1>5. Newer(noted, tl) <=> Newer(k, tl)
  BY <1>4 DEF Newer
<1>6. /\ q1 \in BotStates /\ q1.seen = s /\ q1.controlCommits = c /\ q1.lastSeek = l
      /\ q1.got = k.got /\ Same(q1, k)
      /\ q1.timeline = IF Newer(k, tl) THEN tl ELSE k.timeline
      /\ q1.seqReorders =
           IF ~Newer(k, tl) /\ tl.storeEpoch = k.timeline.storeEpoch /\ tl.seq # k.timeline.seq
           THEN k.seqReorders + 1 ELSE k.seqReorders
  <2>1. CASE Newer(k, tl)
    <3>1. q1 = [noted EXCEPT !.timeline = tl]
      BY <1>5, <2>1 DEF Classified
    <3> HIDE DEF q1
    <3>. QED
      BY <1>4, <2>1, <3>1 DEF BotStates
  <2>2. CASE ~Newer(k, tl) /\ tl.storeEpoch # k.timeline.storeEpoch
    <3>1. q1 = noted
      BY <1>4, <1>5, <2>2 DEF Classified
    <3> HIDE DEF q1
    <3>. QED
      BY <1>4, <2>2, <3>1
  <2>3. CASE ~Newer(k, tl) /\ tl.storeEpoch = k.timeline.storeEpoch /\ tl.seq = k.timeline.seq
    <3> DEFINE u == noted.seqDuplicates + 1
    <3>1. q1 = [noted EXCEPT !.seqDuplicates = u]
      BY <1>4, <1>5, <2>3 DEF Classified, BotStates
    <3>2. u \in Nat /\ noted.timeline \in PushedTimelines \cup {NoVersion}
      BY <1>4 DEF BotStates
    <3>3. k.seqReorders + 1 = noted.seqReorders + 1
      BY <1>4
    <3> HIDE DEF q1, u
    <3>4. /\ q1 \in BotStates /\ q1.seen = noted.seen /\ q1.controlCommits = noted.controlCommits
          /\ q1.lastSeek = noted.lastSeek /\ q1.got = noted.got /\ Same(q1, noted)
          /\ q1.timeline = noted.timeline /\ q1.seqReorders = noted.seqReorders
      BY <1>4, <3>1, <3>2 DEF BotStates
    <3>. QED
      BY <1>4, <2>3, <3>3, <3>4
  <2>4. CASE ~Newer(k, tl) /\ tl.storeEpoch = k.timeline.storeEpoch /\ tl.seq # k.timeline.seq
    <3> DEFINE u == noted.seqReorders + 1
    <3>1. q1 = [noted EXCEPT !.seqReorders = u]
      BY <1>4, <1>5, <2>4 DEF Classified, BotStates
    <3>2. u \in Nat /\ noted.timeline \in PushedTimelines \cup {NoVersion}
      BY <1>4 DEF BotStates
    <3>3. k.seqReorders + 1 = noted.seqReorders + 1
      BY <1>4
    <3> HIDE DEF q1, u
    <3>4. /\ q1 \in BotStates /\ q1.seen = noted.seen /\ q1.controlCommits = noted.controlCommits
          /\ q1.lastSeek = noted.lastSeek /\ q1.got = noted.got /\ Same(q1, noted)
          /\ q1.timeline = noted.timeline /\ q1.seqReorders = u
      BY <1>4, <3>1, <3>2 DEF BotStates
    <3>. QED
      BY <1>4, <2>4, <3>3, <3>4 DEF u
  <2>. QED
    BY <2>1, <2>2, <2>3, <2>4
<1> HIDE DEF q1
<1>7. q = [q1 EXCEPT !.got = g]
  BY <1>3, <1>6 DEF BotStates
<1> HIDE DEF q, g
<1>8. /\ q \in BotStates /\ q.seen = s /\ q.controlCommits = c /\ q.lastSeek = l
      /\ q.got = g /\ Same(q, k)
      /\ q.timeline = q1.timeline /\ q.seqReorders = q1.seqReorders
  BY <1>2, <1>6, <1>7 DEF BotStates
<1>. QED
  BY <1>6, <1>8 DEF q, g, s, c, l, V

(* Versions tell the commits of a log apart.                                *)
LEMMA VersionsDiffer ==
    ASSUME NEW h, IsLog(h), NEW i \in 1..Len(h), NEW j \in 1..Len(h),
           Version(h[i]) = Version(h[j])
    PROVE  i = j
<1>1. h[i].storeEpoch = h[j].storeEpoch /\ h[i].seq = h[j].seq
  BY DEF Version
<1>2. h[i] \in PushedTimelines /\ h[j] \in PushedTimelines /\ Len(h) \in Nat
  BY DEF IsLog
<1>3. ~(i < j)
  <2> SUFFICES ASSUME i < j PROVE FALSE
    OBVIOUS
  <2>1. Older(h[i], h[j])
    BY DEF IsLog
  <2>. QED
    BY <1>1, <1>2, <2>1 DEF Older, PushedTimelines
<1>4. ~(j < i)
  <2> SUFFICES ASSUME j < i PROVE FALSE
    OBVIOUS
  <2>1. Older(h[j], h[i])
    BY DEF IsLog
  <2>. QED
    BY <1>1, <1>2, <2>1 DEF Older, PushedTimelines
<1>. QED
  BY <1>2, <1>3, <1>4

(* A bot that hears of a commit accounts for it.                            *)
LEMMA HearsWell ==
    ASSUME NEW h, IsLog(h), NEW k \in BotStates, HeardOf(k, h), NEW v \in 1..Len(h)
    PROVE  HeardOf(Received(k, h[v]), h)
<1> DEFINE tl == h[v]
           q == Received(k, tl)
           V == Version(tl)
<1>1. tl \in PushedTimelines /\ Len(h) \in Nat
  BY DEF IsLog
<1>2. /\ q \in BotStates
      /\ q.seen = k.seen \cup {V} /\ q.got = k.got \cup {V}
      /\ q.controlCommits =
           IF tl.reason = "seek" THEN k.controlCommits \cup {V} ELSE k.controlCommits
      /\ q.lastSeek = IF tl.reason = "seek" /\ Newer(k, tl) THEN tl.mediaTime ELSE k.lastSeek
      /\ q.timeline = IF Newer(k, tl) THEN tl ELSE k.timeline
      /\ q.seqReorders =
           IF ~Newer(k, tl) /\ tl.storeEpoch = k.timeline.storeEpoch /\ tl.seq # k.timeline.seq
           THEN k.seqReorders + 1 ELSE k.seqReorders
  <2> HIDE DEF tl
  <2>. QED
    BY <1>1, ReceivedIs DEF V
<1>3. \A i \in 1..Len(h) : GotAt(q, h, i) <=> GotAt(k, h, i) \/ i = v
  <2>1. \A i \in 1..Len(h) : Version(h[i]) = V <=> i = v
    BY VersionsDiffer
  <2> HIDE DEF q, V
  <2>. QED
    BY <1>2, <2>1 DEF GotAt
<1>4. Accounted(q, h)
  <2> HIDE DEF q
  <2>1. q.seen = q.got
    BY <1>2 DEF HeardOf, Accounted
  <2>2. ASSUME NEW x \in q.got
        PROVE \E i \in 1..Len(h) : GotAt(q, h, i) /\ x = Version(h[i])
    <3>1. CASE x = V
      BY <1>3, <3>1
    <3>2. CASE x \in k.got
      <4>1. PICK i \in 1..Len(h) : GotAt(k, h, i) /\ x = Version(h[i])
        BY <3>2 DEF HeardOf, Accounted
      <4>. QED
        BY <1>3, <4>1
    <3>. QED
      BY <1>2, <3>1, <3>2
  <2>3. ASSUME NEW x \in q.controlCommits
        PROVE \E i \in 1..Len(h) : GotAt(q, h, i) /\ h[i].reason = "seek" /\ x = Version(h[i])
    <3>1. CASE x \in k.controlCommits
      <4>1. PICK i \in 1..Len(h) : GotAt(k, h, i) /\ h[i].reason = "seek" /\ x = Version(h[i])
        BY <3>1 DEF HeardOf, Accounted
      <4>. QED
        BY <1>3, <4>1
    <3>2. CASE x \notin k.controlCommits
      <4>1. x = V /\ tl.reason = "seek"
        BY <1>2, <3>2
      <4>. QED
        BY <1>3, <4>1
    <3>. QED
      BY <3>1, <3>2
  <2>4. ASSUME NEW i \in 1..Len(h), GotAt(q, h, i), h[i].reason = "seek"
        PROVE  Version(h[i]) \in q.controlCommits
    <3>1. CASE i = v
      BY <1>2, <2>4, <3>1
    <3>2. CASE i # v
      <4>1. Version(h[i]) \in k.controlCommits
        BY <1>3, <2>4, <3>2 DEF HeardOf, Accounted
      <4>. QED
        BY <1>2, <4>1
    <3>. QED
      BY <3>1, <3>2
  <2>. QED
    BY <2>1, <2>2, <2>3, <2>4 DEF Accounted
<1> HIDE DEF q
<1>5. V \in q.got /\ q.got # {} /\ GotAt(q, h, v)
  BY <1>2, <1>3
<1>6. CASE k.got = {}
  <2>1. k.timeline = NoVersion /\ Newer(k, tl)
    BY <1>6 DEF HeardOf, FollowsLast, Newer, Core!isNewer
  <2>2. \A i \in 1..Len(h) : GotAt(q, h, i) <=> i = v
    BY <1>3, <1>6 DEF GotAt
  <2>3. FollowsLast(q, h)
    <3>1. \A i \in 1..Len(h) : GotAt(q, h, i) => i <= v
      BY <1>1, <2>2
    <3>. QED
      BY <1>2, <1>5, <2>1, <3>1 DEF FollowsLast
  <2>4. WitnessHolds(q, h)
    <3>1. \A i \in 1..Len(h) : SeekGotAt(q, h, i) => i = v /\ q.lastSeek = h[v].mediaTime
      BY <1>2, <2>1, <2>2 DEF SeekGotAt
    <3>. QED
      BY <3>1 DEF WitnessHolds
  <2>. QED
    BY <1>4, <2>3, <2>4 DEF HeardOf, q
<1>7. CASE k.got # {}
  <2>1. PICK m \in 1..Len(h) :
            /\ GotAt(k, h, m) /\ k.timeline = h[m]
            /\ \A i \in 1..Len(h) : GotAt(k, h, i) => i <= m
    BY <1>7 DEF HeardOf, FollowsLast
  <2>2. h[m] \in PushedTimelines
    BY DEF IsLog
  <2>3. k.timeline # NoVersion
    BY <2>1, <2>2 DEF PushedTimelines, NoVersion
  <2>4. v > m => Older(h[m], h[v])
    BY DEF IsLog
  <2>5. v < m => Older(h[v], h[m])
    BY DEF IsLog
  <2>6. CASE v > m
    <3>1. Newer(k, tl) /\ q.timeline = tl
      BY <1>1, <1>2, <2>1, <2>2, <2>4, <2>6 DEF Newer, Core!isNewer, Older, PushedTimelines
    <3>2. \A i \in 1..Len(h) : GotAt(q, h, i) => i <= v
      BY <1>1, <1>3, <2>1, <2>6
    <3>3. FollowsLast(q, h)
      BY <1>5, <3>1, <3>2 DEF FollowsLast
    <3>4. WitnessHolds(q, h)
      <4> SUFFICES ASSUME q.seqReorders = 0, NEW i \in 1..Len(h), SeekGotAt(q, h, i),
                          \A j \in 1..Len(h) : SeekGotAt(q, h, j) => j <= i
                   PROVE  q.lastSeek = h[i].mediaTime
        BY DEF WitnessHolds
      <4>1. k.seqReorders = 0
        BY <1>2, <3>1
      <4>2. CASE tl.reason = "seek"
        <5>1. SeekGotAt(q, h, v) /\ v <= i /\ i <= v
          BY <1>5, <3>1, <3>2, <4>2 DEF SeekGotAt
        <5>. QED
          BY <1>1, <1>2, <3>1, <4>2, <5>1
      <4>3. CASE tl.reason # "seek"
        <5>1. i # v /\ GotAt(k, h, i) /\ i <= m /\ h[i].storeEpoch = tl.storeEpoch
          BY <1>3, <2>1, <3>1, <4>3 DEF SeekGotAt
        <5>2. h[m].storeEpoch = tl.storeEpoch
          <6>1. CASE i = m
            BY <5>1, <6>1
          <6>2. CASE i # m
            <7>1. Older(h[i], h[m]) /\ h[i] \in PushedTimelines
              BY <1>1, <5>1, <6>2 DEF IsLog
            <7>. QED
              BY <1>1, <2>2, <2>4, <2>6, <5>1, <7>1 DEF Older, PushedTimelines
          <6>. QED
            BY <6>1, <6>2
        <5>3. \A j \in 1..Len(h) : SeekGotAt(k, h, j) => SeekGotAt(q, h, j)
          BY <1>3, <2>1, <3>1, <5>2 DEF SeekGotAt
        <5>4. SeekGotAt(k, h, i)
          BY <2>1, <5>1, <5>2 DEF SeekGotAt
        <5>5. k.lastSeek = h[i].mediaTime
          BY <4>1, <5>3, <5>4 DEF HeardOf, WitnessHolds
        <5>. QED
          BY <1>2, <4>3, <5>5
      <4>. QED
        BY <4>2, <4>3
    <3>. QED
      BY <1>4, <3>3, <3>4 DEF HeardOf, q
  <2>7. CASE ~(v > m)
    <3>1. v = m \/ v < m
      BY <1>1, <2>7
    <3>2. ~Newer(k, tl)
      BY <1>1, <2>1, <2>2, <2>3, <2>5, <3>1 DEF Newer, Core!isNewer, Older, PushedTimelines
    <3>3. q.timeline = k.timeline /\ q.lastSeek = k.lastSeek
      BY <1>2, <3>2
    <3>4. FollowsLast(q, h)
      <4>1. \A i \in 1..Len(h) : GotAt(q, h, i) => i <= m
        BY <1>1, <1>3, <2>1, <2>7
      <4>2. GotAt(q, h, m)
        BY <1>3, <2>1
      <4>. QED
        BY <1>5, <2>1, <3>3, <4>1, <4>2 DEF FollowsLast
    <3>5. WitnessHolds(q, h)
      <4> SUFFICES ASSUME q.seqReorders = 0 PROVE WitnessHolds(q, h)
        BY DEF WitnessHolds
      <4>1. k.seqReorders \in Nat
        BY DEF BotStates
      <4>2. k.seqReorders = 0
        BY <1>2, <4>1
      <4>3. tl.storeEpoch # k.timeline.storeEpoch \/ tl.seq = k.timeline.seq
        BY <1>2, <3>2, <4>1
      <4>4. ASSUME NEW j \in 1..Len(h) PROVE SeekGotAt(q, h, j) <=> SeekGotAt(k, h, j)
        <5>1. CASE j = v /\ tl.storeEpoch # k.timeline.storeEpoch
          BY <3>3, <5>1 DEF SeekGotAt
        <5>2. CASE j = v /\ tl.storeEpoch = k.timeline.storeEpoch
          <6>1. Version(h[v]) = Version(h[m])
            BY <2>1, <4>3, <5>2 DEF Version
          <6>2. v = m
            BY <6>1, VersionsDiffer
          <6>. QED
            BY <1>3, <2>1, <3>3, <5>2, <6>2 DEF SeekGotAt
        <5>3. CASE j # v
          BY <1>3, <3>3, <5>3 DEF SeekGotAt
        <5>. QED
          BY <5>1, <5>2, <5>3
      <4>. QED
        BY <3>3, <4>2, <4>4 DEF HeardOf, WitnessHolds
    <3>. QED
      BY <1>4, <3>4, <3>5 DEF HeardOf, q
  <2>. QED
    BY <2>6, <2>7
<1>. QED
  BY <1>6, <1>7

(* The log grows by the next seq of its epoch or by a birth.                *)
LEMMA LogGrows ==
    ASSUME NEW h, IsLog(h), NEW e \in PushedTimelines, Older(h[Len(h)], e),
           e.seq = 0 \/ (e.storeEpoch = h[Len(h)].storeEpoch /\ e.seq = h[Len(h)].seq + 1)
    PROVE  LET g == Append(h, e) IN
           /\ IsLog(g) /\ Len(g) = Len(h) + 1 /\ g[Len(h) + 1] = e
           /\ \A i \in 1..Len(h) : g[i] = h[i]
           /\ \A i \in 1..Len(h) : Version(h[i]) # Version(e)
<1> DEFINE g == Append(h, e)
           n == Len(h)
           last == h[n]
<1>1. /\ h \in Seq(PushedTimelines) /\ n \in Nat /\ n >= 1 /\ n \in 1..n
      /\ \A i \in 1..n : h[i] \in PushedTimelines
  BY DEF IsLog
<1>2. /\ g \in Seq(PushedTimelines) /\ Len(g) = n + 1 /\ g[n + 1] = e
      /\ \A i \in 1..n : g[i] = h[i]
  BY <1>1, AppendProperties
<1> HIDE DEF g
<1>3. \A i \in 1..n : Older(h[i], e)
  <2> SUFFICES ASSUME NEW i \in 1..n PROVE Older(h[i], e)
    OBVIOUS
  <2>1. CASE i = n
    BY <2>1
  <2>2. CASE i # n
    <3>1. Older(h[i], last)
      <4>1. i < n
        BY <1>1, <2>2
      <4>. QED
        BY <1>1, <4>1 DEF IsLog
    <3>2. Older(last, e) /\ last \in PushedTimelines /\ h[i] \in PushedTimelines
      BY <1>1
    <3> HIDE DEF last
    <3>. QED
      BY <3>1, <3>2 DEF Older, PushedTimelines
  <2>. QED
    BY <2>1, <2>2
<1>4. \A i \in 1..(n + 1) : i \in 1..n \/ i = n + 1
  BY <1>1
<1>5. ASSUME NEW i \in 1..(n + 1), NEW j \in 1..(n + 1), i < j PROVE Older(g[i], g[j])
  <2>1. i \in 1..n
    BY <1>1, <1>4, <1>5
  <2>2. CASE j = n + 1
    BY <1>2, <1>3, <2>1, <2>2
  <2>3. CASE j \in 1..n
    <3>1. Older(h[i], h[j])
      BY <1>5, <2>1, <2>3 DEF IsLog
    <3>. QED
      BY <1>2, <2>1, <2>3, <3>1
  <2>. QED
    BY <1>4, <2>2, <2>3
<1>6. ASSUME NEW i \in 1..(n + 1), NEW s \in 0..g[i].seq
      PROVE  \E j \in 1..(n + 1) : g[j].storeEpoch = g[i].storeEpoch /\ g[j].seq = s
  <2>1. CASE i \in 1..n
    <3>1. PICK j \in 1..n : h[j].storeEpoch = h[i].storeEpoch /\ h[j].seq = s
      BY <1>2, <2>1 DEF IsLog
    <3>2. j \in 1..(n + 1) /\ g[j] = h[j] /\ g[i] = h[i]
      BY <1>1, <1>2, <2>1
    <3>. QED
      BY <3>1, <3>2
  <2>2. CASE i = n + 1
    <3>1. g[i] = e /\ e.seq \in Nat /\ n + 1 \in 1..(n + 1)
      BY <1>1, <1>2, <2>2 DEF PushedTimelines
    <3>2. CASE s = e.seq
      BY <3>1, <3>2, <2>2
    <3>3. CASE s # e.seq
      <4>1. e.storeEpoch = last.storeEpoch /\ s \in 0..last.seq
        <5>1. last.seq \in Nat
          BY <1>1 DEF PushedTimelines
        <5> HIDE DEF last
        <5>2. e.seq # 0
          BY <3>1, <3>3
        <5>3. e.storeEpoch = last.storeEpoch /\ e.seq = last.seq + 1
          BY <5>2 DEF last
        <5>. QED
          BY <3>1, <3>3, <5>1, <5>3
      <4>2. PICK j \in 1..n : h[j].storeEpoch = last.storeEpoch /\ h[j].seq = s
        BY <1>1, <4>1 DEF IsLog
      <4>3. j \in 1..(n + 1) /\ g[j] = h[j]
        BY <1>1, <1>2
      <4>. QED
        BY <3>1, <4>1, <4>2, <4>3
    <3>. QED
      BY <3>2, <3>3
  <2>. QED
    BY <1>4, <2>1, <2>2
<1>7. IsLog(g)
  BY <1>1, <1>2, <1>5, <1>6 DEF IsLog
<1>8. ASSUME NEW i \in 1..n PROVE Version(h[i]) # Version(e)
  <2>1. Older(h[i], e) /\ h[i] \in PushedTimelines
    BY <1>1, <1>3
  <2>. QED
    BY <2>1 DEF Older, PushedTimelines, Version
<1>. QED
  BY <1>2, <1>7, <1>8 DEF g

(* What a bot has made of the log stands when the log grows.                *)
LEMMA HeardLater ==
    ASSUME NEW h, IsLog(h), NEW e, NEW g, Len(g) = Len(h) + 1, g[Len(h) + 1] = e,
           \A i \in 1..Len(h) : g[i] = h[i],
           \A i \in 1..Len(h) : Version(h[i]) # Version(e),
           NEW k, HeardOf(k, h)
    PROVE  HeardOf(k, g)
<1> DEFINE n == Len(h)
<1>1. n \in Nat /\ \A i \in 1..Len(g) : i \in 1..n \/ i = n + 1
  BY DEF IsLog
<1>2. \A i \in 1..n : i \in 1..Len(g)
  BY <1>1
<1>3. ~GotAt(k, g, n + 1)
  <2>1. Version(e) \notin k.got
    BY DEF HeardOf, Accounted
  <2>. QED
    BY <2>1 DEF GotAt
<1>4. \A i : GotAt(k, g, i) <=> GotAt(k, h, i)
  BY <1>1, <1>2, <1>3 DEF GotAt
<1>5. \A i : GotAt(k, g, i) => i \in 1..n /\ i \in 1..Len(g) /\ g[i] = h[i]
  BY <1>2, <1>4 DEF GotAt
<1> HIDE DEF n
<1>6. Accounted(k, g)
  <2>1. k.seen = k.got
    BY DEF HeardOf, Accounted
  <2>2. ASSUME NEW v \in k.got PROVE \E i \in 1..Len(g) : GotAt(k, g, i) /\ v = Version(g[i])
    <3>1. PICK i \in 1..Len(h) : GotAt(k, h, i) /\ v = Version(h[i])
      BY DEF HeardOf, Accounted
    <3>. QED
      BY <1>4, <1>5, <3>1
  <2>3. ASSUME NEW v \in k.controlCommits
        PROVE  \E i \in 1..Len(g) : GotAt(k, g, i) /\ g[i].reason = "seek" /\ v = Version(g[i])
    <3>1. PICK i \in 1..Len(h) : GotAt(k, h, i) /\ h[i].reason = "seek" /\ v = Version(h[i])
      BY DEF HeardOf, Accounted
    <3>. QED
      BY <1>4, <1>5, <3>1
  <2>4. ASSUME NEW i \in 1..Len(g), GotAt(k, g, i), g[i].reason = "seek"
        PROVE  Version(g[i]) \in k.controlCommits
    BY <1>4, <1>5, <2>4 DEF HeardOf, Accounted, n
  <2>. QED
    BY <2>1, <2>2, <2>3, <2>4 DEF Accounted
<1>7. FollowsLast(k, g)
  <2>1. CASE k.got = {}
    BY <2>1 DEF HeardOf, FollowsLast
  <2>2. CASE k.got # {}
    <3>1. PICK m \in 1..Len(h) : /\ GotAt(k, h, m) /\ k.timeline = h[m]
                                 /\ \A i \in 1..Len(h) : GotAt(k, h, i) => i <= m
      BY <2>2 DEF HeardOf, FollowsLast
    <3>2. m \in 1..Len(g) /\ GotAt(k, g, m) /\ k.timeline = g[m]
      BY <1>4, <1>5, <3>1
    <3>3. \A i \in 1..Len(g) : GotAt(k, g, i) => i <= m
      BY <1>4, <1>5, <3>1 DEF n
    <3>. QED
      BY <2>2, <3>2, <3>3 DEF FollowsLast
  <2>. QED
    BY <2>1, <2>2
<1>8. WitnessHolds(k, g)
  <2>1. \A i : SeekGotAt(k, g, i) <=> SeekGotAt(k, h, i)
    BY <1>4, <1>5 DEF SeekGotAt
  <2>2. \A i : SeekGotAt(k, h, i) => i \in 1..Len(h) /\ i \in 1..Len(g) /\ g[i] = h[i]
    BY <1>4, <1>5 DEF SeekGotAt, n
  <2> SUFFICES ASSUME k.seqReorders = 0, NEW i \in 1..Len(g), SeekGotAt(k, g, i),
                      \A j \in 1..Len(g) : SeekGotAt(k, g, j) => j <= i
               PROVE  k.lastSeek = g[i].mediaTime
    BY DEF WitnessHolds
  <2>3. SeekGotAt(k, h, i) /\ i \in 1..Len(h) /\ g[i] = h[i]
    BY <2>1, <2>2
  <2>4. \A j \in 1..Len(h) : SeekGotAt(k, h, j) => j <= i
    BY <2>1, <2>2
  <2>. QED
    BY <2>3, <2>4 DEF HeardOf, WitnessHolds
<1>. QED
  BY <1>6, <1>7, <1>8 DEF HeardOf

(* It depends on nothing else of a bot.                                     *)
LEMMA HeardAlike ==
    ASSUME NEW h, NEW k, NEW q, HeardOf(k, h),
           q.seen = k.seen, q.got = k.got, q.controlCommits = k.controlCommits,
           q.timeline = k.timeline, q.seqReorders = k.seqReorders, q.lastSeek = k.lastSeek
    PROVE  HeardOf(q, h)
BY DEF HeardOf, Accounted, FollowsLast, WitnessHolds, GotAt, SeekGotAt

(* An answer that resolves n promises is heard n times.                     *)
BesidesHeard(q, k) ==
    /\ q.conn = k.conn /\ q.gen = k.gen /\ q.room = k.room /\ q.inRoom = k.inRoom
    /\ q.ans = k.ans /\ q.pending = k.pending /\ q.rejoinFailures = k.rejoinFailures

LEMMA ResolvedWell ==
    ASSUME NEW h, IsLog(h), NEW k \in BotStates, HeardOf(k, h), NEW v \in 1..Len(h), NEW n \in Nat
    PROVE  LET q == Resolved(k, h[v], n) IN
           q \in BotStates /\ HeardOf(q, h) /\ BesidesHeard(q, k)
<1> DEFINE tl == h[v]
           S == {q \in BotStates : HeardOf(q, h) /\ BesidesHeard(q, k)}
           F == [i \in 1..n |-> [q \in S |-> Received(q, tl)]]
<1>1. k \in S
  BY DEF BesidesHeard
<1>2. ASSUME NEW q \in S PROVE Received(q, tl) \in S
  <2>1. q \in BotStates /\ HeardOf(q, h) /\ BesidesHeard(q, k) /\ tl \in PushedTimelines
    BY DEF IsLog
  <2>2. HeardOf(Received(q, tl), h)
    BY <2>1, HearsWell
  <2> HIDE DEF tl
  <2>3. Received(q, tl) \in BotStates /\ BesidesHeard(Received(q, tl), q)
    BY <2>1, ReceivedIs DEF BesidesHeard
  <2>. QED
    BY <2>1, <2>2, <2>3 DEF BesidesHeard
<1>3. F \in [1..n -> [S -> S]]
  BY <1>2
<1>4. PICK g : IsFold(g, S, n, k, F)
  <2> HIDE DEF F, S
  <2>. QED
    BY <1>1, <1>3, FoldExists
<1> DEFINE RunOf(r) == r = [i \in 0..n |-> IF i = 0 THEN k ELSE Received(r[i - 1], tl)]
<1>5. RunOf(g)
  <2>1. \A i \in 0..n : i # 0 => i \in 1..n /\ i - 1 \in 0..n /\ g[i - 1] \in S
    <3>1. \A i \in 0..n : i # 0 => i \in 1..n /\ i - 1 \in 0..n
      OBVIOUS
    <3> HIDE DEF F, S
    <3>. QED
      BY <1>4, <3>1 DEF IsFold
  <2>2. ASSUME NEW i \in 1..n PROVE g[i] = Received(g[i - 1], tl)
    <3>1. g[i] = F[i][g[i - 1]]
      <4> HIDE DEF F, S
      <4>. QED
        BY <1>4 DEF IsFold
    <3>2. g[i - 1] \in S
      BY <2>1
    <3> HIDE DEF S, tl
    <3>. QED
      BY <3>1, <3>2
  <2>3. g[0] = k /\ g = [i \in 0..n |-> g[i]]
    <3> HIDE DEF F, S
    <3>. QED
      BY <1>4 DEF IsFold
  <2> HIDE DEF tl
  <2>. QED
    BY <2>1, <2>2, <2>3
<1> DEFINE u == CHOOSE r : RunOf(r)
<1>6. RunOf(u)
  <2> HIDE DEF RunOf
  <2>. QED
    BY <1>5
<1>7. Resolved(k, tl, n) = u[n]
  BY DEF Resolved
<1>8. u[0] = k /\ \A i \in 1..n : u[i] = Received(u[i - 1], tl)
  <2> HIDE DEF u, tl
  <2>. QED
    BY <1>6
<1> HIDE DEF u, RunOf
<1> DEFINE T == {i \in 0..n : u[i] \in S}
<1>9. 0 \in T
  <2> HIDE DEF S
  <2>. QED
    BY <1>1, <1>8
<1>10. ASSUME NEW i \in 1..n, i - 1 \in T PROVE i \in T
  <2> HIDE DEF S, tl
  <2>. QED
    BY <1>2, <1>8, <1>10
<1>11. n \in T
  <2>1. 0..n \subseteq T
    <3> HIDE DEF T
    <3>. QED
      BY <1>9, <1>10, CountedUp
  <2>. QED
    BY <2>1
<1>. QED
  BY <1>7, <1>11

(* What a step of one bot has to keep.                                      *)
LEMMA BotKept ==
    ASSUME FleetIInv, NEW b \in Bots, NEW k \in BotStates, Only(b, k),
           HeardOf(k, commits), JoinsWell(k, commits, aborted'),
           aborted => aborted', aborted' \in BOOLEAN, drops' \in Nat,
           UNCHANGED <<commits, arrived, overdue>>,
           wire' \in Seq(SentControls), stray' \in Seq(SentControls),
           b = Commander => /\ \A i \in 1..Len(wire') : wire'[i].gen = k.gen
                            /\ k.conn = "down" => stray' = <<>>,
           b # Commander => UNCHANGED <<wire, stray>>
    PROVE  FleetIInv'
<1>1. /\ bot' = [bot EXCEPT ![b] = k]
      /\ UNCHANGED <<fleetScope, plane, dupControls, dedups, scripted, pairs>>
  BY DEF Only
<1>2. Bots' = Bots /\ SentControls' = SentControls /\ FleetCmds' = FleetCmds /\ bot \in [Bots -> BotStates]
  BY <1>1 DEF Bots, SentControls, FleetCmds, FleetIInv, FleetTypeOK
<1>3. bot' \in [Bots -> BotStates] /\ bot'[b] = k /\ \A c \in Bots : c # b => bot'[c] = bot[c]
  BY <1>1, <1>2
<1>4. FleetTypeOK'
  BY <1>1, <1>2, <1>3 DEF FleetIInv, FleetTypeOK
<1>5. IsLog(commits)' /\ SeeksServed(commits, arrived)'
  BY DEF FleetIInv
<1>6. ASSUME NEW c \in Bots PROVE HeardOf(bot'[c], commits') /\ JoinsWell(bot'[c], commits', aborted')
  <2>1. CASE c = b
    BY <1>3, <2>1
  <2>2. CASE c # b
    <3>1. HeardOf(bot[c], commits) /\ JoinsWell(bot[c], commits, aborted)
      BY DEF FleetIInv
    <3>. QED
      BY <1>3, <2>2, <3>1 DEF JoinsWell
  <2>. QED
    BY <2>1, <2>2
<1>7. ControlsOfNow'
  <2>1. Commander \in Bots
    <3>1. fleetScope.bots \in Nat \ {0}
      BY FleetAssumption DEF FleetIInv, FleetTypeOK
    <3>. QED
      BY <3>1 DEF Commander, Bots
  <2>2. CASE b = Commander
    BY <1>3, <2>2 DEF FleetIInv, ControlsOfNow
  <2>3. CASE b # Commander
    <3>1. bot'[Commander] = bot[Commander]
      BY <1>3, <2>1, <2>3
    <3>. QED
      BY <2>3, <3>1 DEF FleetIInv, ControlsOfNow
  <2>. QED
    BY <2>2, <2>3
<1>. QED
  BY <1>2, <1>4, <1>5, <1>6, <1>7 DEF FleetIInv

HeardSame(q, k) ==
    /\ q.seen = k.seen /\ q.got = k.got /\ q.controlCommits = k.controlCommits
    /\ q.timeline = k.timeline /\ q.seqReorders = k.seqReorders /\ q.lastSeek = k.lastSeek

(* Facts every step of a bot starts from.                                   *)
LEMMA BotFacts ==
    ASSUME FleetIInv, NEW b \in Bots
    PROVE  /\ bot[b] \in BotStates /\ HeardOf(bot[b], commits)
           /\ JoinsWell(bot[b], commits, aborted)
           /\ IsLog(commits) /\ commits[Len(commits)] \in PushedTimelines
           /\ Len(commits) \in 1..Len(commits)
           /\ wire \in Seq(SentControls) /\ stray \in Seq(SentControls)
           /\ aborted \in BOOLEAN /\ drops \in Nat
           /\ b = Commander => /\ \A i \in 1..Len(wire) : wire[i].gen = bot[b].gen
                               /\ bot[b].conn = "down" => stray = <<>>
<1>1. IsLog(commits) /\ Len(commits) \in 1..Len(commits)
  BY DEF FleetIInv, IsLog
<1>2. commits[Len(commits)] \in PushedTimelines
  BY <1>1 DEF IsLog
<1>. QED
  BY <1>1, <1>2 DEF FleetIInv, FleetTypeOK, ControlsOfNow

LEMMA JoiningIs ==
    ASSUME NEW k \in BotStates, IsFiniteSet(k.pending)
    PROVE  LET q == Joining(k) IN
           /\ q \in BotStates /\ HeardSame(q, k)
           /\ q.pending = k.pending \cup {k.reconnects} /\ IsFiniteSet(q.pending)
           /\ q.conn = k.conn /\ q.gen = k.gen /\ q.inRoom = k.inRoom /\ q.ans = k.ans
           /\ q.rejoinFailures = k.rejoinFailures
<1> DEFINE yes == TRUE
           p == k.pending \cup {k.reconnects}
           n == k.reconnects
           r == IF k.conn = "up" THEN k.req + 1 ELSE k.req
           u == IF k.conn # "up" /\ plane = "node" THEN k.buffered + 1 ELSE k.buffered
           a1 == [k EXCEPT !.room = yes]
           a2 == [a1 EXCEPT !.pending = p]
           a3 == [a2 EXCEPT !.latest = n]
           a4 == [a3 EXCEPT !.req = r]
           a5 == [a4 EXCEPT !.buffered = u]
           q == Joining(k)
           Rest(x) == /\ HeardSame(x, k) /\ x.conn = k.conn /\ x.gen = k.gen /\ x.inRoom = k.inRoom
                      /\ x.ans = k.ans /\ x.rejoinFailures = k.rejoinFailures
                      /\ x.reconnects = k.reconnects /\ x.buffered = k.buffered /\ x.req = k.req
           Later(x) == /\ HeardSame(x, k) /\ x.conn = k.conn /\ x.gen = k.gen /\ x.inRoom = k.inRoom
                       /\ x.ans = k.ans /\ x.rejoinFailures = k.rejoinFailures
<1>1. yes \in BOOLEAN /\ p \in SUBSET Nat /\ n \in Nat /\ n \in Int /\ r \in Nat /\ u \in Nat
  BY DEF BotStates
<1>2. IsFiniteSet(p)
  BY FS_AddElement
<1>3. q = [k EXCEPT !.room = yes, !.pending = p, !.latest = n, !.req = r, !.buffered = u]
  BY DEF Joining, BotStates
<1> HIDE DEF q, yes, p, n, r, u
<1>4. q = a5
  BY <1>3 DEF BotStates
<1>5. a1 \in BotStates /\ Rest(a1)
  BY <1>1 DEF BotStates, HeardSame
<1> HIDE DEF a1
<1>6. a2 \in BotStates /\ Rest(a2) /\ a2.pending = p
  BY <1>1, <1>5 DEF BotStates, HeardSame
<1> HIDE DEF a2
<1>7. a3 \in BotStates /\ Rest(a3) /\ a3.pending = p
  BY <1>1, <1>6 DEF BotStates, HeardSame
<1> HIDE DEF a3
<1>8. a4 \in BotStates /\ Later(a4) /\ a4.pending = p
  BY <1>1, <1>7 DEF BotStates, HeardSame
<1> HIDE DEF a4
<1>9. a5 \in BotStates /\ Later(a5) /\ a5.pending = p
  BY <1>1, <1>8 DEF BotStates, HeardSame
<1> HIDE DEF a5
<1>. QED
  BY <1>2, <1>4, <1>9 DEF q, p

LEMMA JoinKept ==
    ASSUME FleetIInv, NEW b \in Bots, Join(b)
    PROVE  FleetIInv'
<1> DEFINE k == bot[b]
           q == Joining(k)
<1>1. Only(b, q) /\ UNCHANGED <<commits, wire, stray, arrived, overdue, aborted, drops>>
  BY DEF Join
<1>2. k \in BotStates /\ IsFiniteSet(k.pending)
  BY BotFacts DEF JoinsWell
<1> HIDE DEF k
<1>3. /\ q \in BotStates /\ HeardSame(q, k)
      /\ q.pending = k.pending \cup {k.reconnects} /\ IsFiniteSet(q.pending)
      /\ q.conn = k.conn /\ q.gen = k.gen /\ q.inRoom = k.inRoom /\ q.ans = k.ans
  BY <1>2, JoiningIs
<1> HIDE DEF q
<1>4. HeardOf(q, commits)
  BY <1>3, BotFacts, HeardAlike DEF HeardSame, k
<1>5. JoinsWell(q, commits, aborted')
  <2>1. JoinsWell(k, commits, aborted)
    BY BotFacts DEF k
  <2>2. q.pending # {}
    BY <1>3
  <2>. QED
    BY <1>1, <1>3, <2>1, <2>2 DEF JoinsWell
<1>. QED
  BY <1>1, <1>3, <1>4, <1>5, BotFacts, BotKept DEF k

LEMMA ServeJoinKept ==
    ASSUME FleetIInv, NEW b \in Bots, ServeJoin(b)
    PROVE  FleetIInv'
<1> DEFINE k == bot[b]
           n == k.req - 1
           yes == TRUE
           last == commits[Len(commits)]
           a == Append(k.ans, last)
           a1 == [k EXCEPT !.req = n]
           a2 == [a1 EXCEPT !.inRoom = yes]
           a3 == [a2 EXCEPT !.ans = a]
<1>1. /\ k.req > 0
      /\ \/ Only(b, [k EXCEPT !.req = @ - 1, !.inRoom = TRUE, !.ans = Append(@, commits[Len(commits)])])
         \/ Only(b, [k EXCEPT !.req = @ - 1])
      /\ UNCHANGED <<commits, wire, stray, arrived, overdue, aborted, drops>>
  BY DEF ServeJoin
<1>2. /\ k \in BotStates /\ HeardOf(k, commits) /\ JoinsWell(k, commits, aborted)
      /\ last \in PushedTimelines /\ Len(commits) \in 1..Len(commits)
  BY BotFacts
<1>3. n \in Nat /\ yes \in BOOLEAN /\ k.ans \in Seq(PushedTimelines)
  BY <1>1, <1>2 DEF BotStates
<1>4. /\ a \in Seq(PushedTimelines) /\ Len(a) = Len(k.ans) + 1 /\ a[Len(k.ans) + 1] = last
      /\ \A i \in 1..Len(k.ans) : a[i] = k.ans[i]
  BY <1>2, <1>3, AppendProperties
<1>5. \A i \in 1..Len(a) : \E j \in 1..Len(commits) : a[i] = commits[j]
  <2>1. \A i \in 1..Len(a) : i \in 1..Len(k.ans) \/ i = Len(k.ans) + 1
    BY <1>3, <1>4
  <2>. QED
    BY <1>2, <1>4, <2>1 DEF JoinsWell
<1>6. Only(b, a3) \/ Only(b, a1)
  <2>1. [k EXCEPT !.req = @ - 1] = a1
    BY <1>2 DEF BotStates
  <2>2. [k EXCEPT !.req = @ - 1, !.inRoom = TRUE, !.ans = Append(@, commits[Len(commits)])] = a3
    BY <1>2 DEF BotStates
  <2>. QED
    BY <1>1, <2>1, <2>2
<1> DEFINE Rest(x) == HeardSame(x, k) /\ x.conn = k.conn /\ x.gen = k.gen /\ x.room = k.room
                      /\ x.pending = k.pending /\ x.rejoinFailures = k.rejoinFailures
<1>7. yes
  OBVIOUS
<1> HIDE DEF k, n, yes, a, last
<1>8. a1 \in BotStates /\ Rest(a1) /\ a1.inRoom = k.inRoom /\ a1.ans = k.ans
  BY <1>2, <1>3 DEF BotStates, HeardSame
<1> HIDE DEF a1
<1>9. a2 \in BotStates /\ Rest(a2) /\ a2.inRoom = yes /\ a2.ans = k.ans
  BY <1>3, <1>8 DEF BotStates, HeardSame
<1> HIDE DEF a2
<1>10. a3 \in BotStates /\ Rest(a3) /\ a3.inRoom = yes /\ a3.ans = a
  BY <1>4, <1>9 DEF BotStates, HeardSame
<1> HIDE DEF a3
<1>11. HeardOf(a1, commits) /\ HeardOf(a3, commits)
  BY <1>2, <1>8, <1>10, HeardAlike DEF HeardSame
<1>12. JoinsWell(a1, commits, aborted)
  BY <1>2, <1>8 DEF JoinsWell
<1>13. JoinsWell(a3, commits, aborted)
  BY <1>2, <1>5, <1>7, <1>10 DEF JoinsWell
<1>14. CASE Only(b, a3)
  BY <1>1, <1>10, <1>11, <1>13, <1>14, BotFacts, BotKept DEF k
<1>15. CASE Only(b, a1)
  BY <1>1, <1>8, <1>11, <1>12, <1>15, BotFacts, BotKept DEF k
<1>. QED
  BY <1>6, <1>14, <1>15

LEMMA JoinAnswerKept ==
    ASSUME FleetIInv, NEW b \in Bots, JoinAnswer(b)
    PROVE  FleetIInv'
<1> DEFINE k == bot[b]
           t == Tail(k.ans)
           k1 == [k EXCEPT !.ans = t]
           done == IF plane = "node" THEN k1.pending ELSE k1.pending \cap {k1.latest}
           p == k1.pending \ done
           k2 == [k1 EXCEPT !.pending = p]
           n == Cardinality(done)
           tl == Head(k.ans)
           q == Resolved(k2, tl, n)
<1>1. /\ k.conn = "up" /\ k.ans # <<>> /\ Only(b, q)
      /\ UNCHANGED <<commits, wire, stray, arrived, overdue, aborted, drops>>
  <2>1. [k EXCEPT !.ans = Tail(@)] = k1 /\ [k1 EXCEPT !.pending = @ \ done] = k2
    BY BotFacts DEF BotStates
  <2>2. Up(b) /\ k.ans # <<>> /\ UNCHANGED <<commits, wire, stray, arrived, overdue, aborted, drops>>
        /\ LET k0 == [k EXCEPT !.ans = Tail(@)]
               done0 == IF plane = "node" THEN k0.pending ELSE k0.pending \cap {k0.latest}
           IN Only(b, Resolved([k0 EXCEPT !.pending = @ \ done0], Head(k.ans), Cardinality(done0)))
    BY DEF JoinAnswer
  <2>. QED
    BY <2>1, <2>2 DEF Up
<1>2. /\ k \in BotStates /\ HeardOf(k, commits) /\ JoinsWell(k, commits, aborted) /\ IsLog(commits)
  BY BotFacts
<1>3. /\ t \in Seq(PushedTimelines) /\ k.ans \in Seq(PushedTimelines) /\ Len(k.ans) \in Nat
      /\ Len(t) = Len(k.ans) - 1 /\ tl = k.ans[1] /\ 1 \in 1..Len(k.ans)
      /\ \A i \in 1..Len(t) : t[i] = k.ans[i + 1] /\ i + 1 \in 1..Len(k.ans)
  <2>1. k.ans \in Seq(PushedTimelines)
    BY <1>2 DEF BotStates
  <2>2. k.ans # <<>>
    BY <1>1
  <2> HIDE DEF k
  <2>3. t \in Seq(PushedTimelines) /\ Len(t) = Len(k.ans) - 1 /\ tl = k.ans[1]
        /\ \A i \in 1..Len(t) : t[i] = k.ans[i + 1]
    BY <2>1, <2>2, HeadTailProperties
  <2>4. Len(k.ans) \in Nat /\ Len(k.ans) # 0
    BY <2>1, <2>2, EmptySeq
  <2> HIDE DEF t, tl
  <2>. QED
    BY <2>1, <2>3, <2>4
<1>4. PICK v \in 1..Len(commits) : tl = commits[v]
  BY <1>2, <1>3 DEF JoinsWell
<1>5. \A i \in 1..Len(t) : \E j \in 1..Len(commits) : t[i] = commits[j]
  <2> HIDE DEF t, k
  <2>. QED
    BY <1>2, <1>3 DEF JoinsWell
<1>6. k.inRoom
  BY <1>1, <1>2 DEF JoinsWell
<1> HIDE DEF k, t, tl
<1>7. /\ k1 \in BotStates /\ HeardSame(k1, k) /\ k1.ans = t /\ k1.pending = k.pending
      /\ k1.inRoom = k.inRoom /\ k1.gen = k.gen /\ k1.conn = k.conn
  BY <1>2, <1>3 DEF BotStates, HeardSame
<1> HIDE DEF k1
<1>8. IsFiniteSet(done) /\ IsFiniteSet(p) /\ p \in SUBSET Nat
  <2>1. IsFiniteSet(k1.pending) /\ k1.pending \in SUBSET Nat
    BY <1>2, <1>7 DEF JoinsWell, BotStates
  <2>2. done \in SUBSET k1.pending /\ p \in SUBSET k1.pending
    OBVIOUS
  <2>. QED
    BY <2>1, <2>2, FS_Subset
<1>9. n \in Nat
  BY <1>8, FS_CardinalityType
<1> HIDE DEF done, p, n
<1>10. /\ k2 \in BotStates /\ HeardSame(k2, k) /\ k2.ans = t /\ k2.pending = p
       /\ k2.inRoom = k.inRoom /\ k2.gen = k.gen /\ k2.conn = k.conn
  BY <1>7, <1>8 DEF BotStates, HeardSame
<1> HIDE DEF k2
<1>11. HeardOf(k2, commits)
  BY <1>2, <1>10, HeardAlike DEF HeardSame
<1>12. q \in BotStates /\ HeardOf(q, commits) /\ BesidesHeard(q, k2)
  BY <1>2, <1>4, <1>9, <1>10, <1>11, ResolvedWell
<1> HIDE DEF q
<1>13. /\ q.ans = t /\ q.pending = p /\ q.inRoom /\ q.gen = k.gen /\ q.conn = k.conn
  BY <1>6, <1>10, <1>12 DEF BesidesHeard
<1>14. JoinsWell(q, commits, aborted)
  BY <1>5, <1>8, <1>13 DEF JoinsWell
<1>. QED
  BY <1>1, <1>12, <1>13, <1>14, BotFacts, BotKept DEF k

LEMMA JoinTimeoutKept ==
    ASSUME FleetIInv, NEW b \in Bots, NEW x \in bot[b].pending, JoinTimeout(b, x)
    PROVE  FleetIInv'
<1> DEFINE k == bot[b]
           p == k.pending \ {x}
           f == IF x = 0 THEN k.rejoinFailures ELSE k.rejoinFailures + 1
           k1 == [k EXCEPT !.pending = p]
           q == [k1 EXCEPT !.rejoinFailures = f]
<1>1. k \in BotStates /\ HeardOf(k, commits) /\ JoinsWell(k, commits, aborted) /\ aborted \in BOOLEAN
  BY BotFacts
<1>2. /\ Only(b, q) /\ aborted' = (aborted \/ x = 0)
      /\ UNCHANGED <<commits, wire, stray, arrived, overdue, drops>>
  <2>1. [k EXCEPT !.pending = @ \ {x}, !.rejoinFailures = IF x = 0 THEN @ ELSE @ + 1] = q
    BY <1>1 DEF BotStates
  <2>. QED
    BY <2>1 DEF JoinTimeout
<1>3. p \in SUBSET Nat /\ IsFiniteSet(p) /\ f \in Nat /\ (x # 0 => f > 0)
  <2>1. IsFiniteSet(p)
    BY <1>1, FS_RemoveElement DEF JoinsWell
  <2>2. k.pending \in SUBSET Nat /\ k.rejoinFailures \in Nat
    BY <1>1 DEF BotStates
  <2> HIDE DEF k
  <2>. QED
    BY <2>1, <2>2
<1> HIDE DEF k, p, f
<1> DEFINE Rest(y) == HeardSame(y, k) /\ y.conn = k.conn /\ y.gen = k.gen /\ y.room = k.room
                      /\ y.inRoom = k.inRoom /\ y.ans = k.ans /\ y.pending = p
<1>4. k1 \in BotStates /\ Rest(k1)
  BY <1>1, <1>3 DEF BotStates, HeardSame
<1> HIDE DEF k1
<1>5. q \in BotStates /\ Rest(q) /\ q.rejoinFailures = f
  BY <1>3, <1>4 DEF BotStates, HeardSame
<1> HIDE DEF q
<1>6. HeardOf(q, commits)
  BY <1>1, <1>5, HeardAlike DEF HeardSame
<1>7. JoinsWell(q, commits, aborted')
  BY <1>1, <1>2, <1>3, <1>5 DEF JoinsWell
<1>8. aborted' \in BOOLEAN /\ (aborted => aborted')
  BY <1>1, <1>2
<1>. QED
  BY <1>2, <1>5, <1>6, <1>7, <1>8, BotFacts, BotKept DEF k

LEMMA GoesQuietKept ==
    ASSUME FleetIInv, NEW b \in Bots, GoesQuiet(b)
    PROVE  FleetIInv'
<1> DEFINE k == bot[b]
           q == [k EXCEPT !.conn = "quiet"]
<1>1. /\ Only(b, q) /\ k.conn = "up"
      /\ UNCHANGED <<commits, wire, stray, arrived, overdue, aborted, drops>>
  BY DEF GoesQuiet, Up
<1>2. k \in BotStates /\ HeardOf(k, commits) /\ JoinsWell(k, commits, aborted)
  BY BotFacts
<1> HIDE DEF k
<1>3. /\ q \in BotStates /\ HeardSame(q, k) /\ q.conn = "quiet" /\ q.gen = k.gen /\ q.room = k.room
      /\ q.inRoom = k.inRoom /\ q.ans = k.ans /\ q.pending = k.pending
  BY <1>2 DEF BotStates, HeardSame
<1> HIDE DEF q
<1>4. HeardOf(q, commits)
  BY <1>2, <1>3, HeardAlike DEF HeardSame
<1>5. JoinsWell(q, commits, aborted')
  BY <1>1, <1>2, <1>3 DEF JoinsWell
<1>. QED
  BY <1>1, <1>3, <1>4, <1>5, BotFacts, BotKept DEF k

(* The disconnect takes the controls of the connection with it.             *)
LEMMA DropKept ==
    ASSUME FleetIInv, NEW b \in Bots, Drop(b)
    PROVE  FleetIInv'
<1> DEFINE k == bot[b]
           no == FALSE
           none == <<>>
           a1 == [k EXCEPT !.conn = "down"]
           a2 == [a1 EXCEPT !.inRoom = no]
           a3 == [a2 EXCEPT !.req = 0]
           q == [a3 EXCEPT !.ans = none]
<1>1. k \in BotStates /\ HeardOf(k, commits) /\ JoinsWell(k, commits, aborted)
  BY BotFacts
<1>2. /\ Only(b, q) /\ drops' = drops + 1
      /\ b = Commander => wire' = <<>> /\ stray' = <<>>
      /\ b # Commander => UNCHANGED <<wire, stray>>
      /\ UNCHANGED <<commits, arrived, overdue, aborted>>
  <2>1. [k EXCEPT !.conn = "down", !.inRoom = FALSE, !.req = 0, !.ans = <<>>] = q
    BY <1>1 DEF BotStates
  <2>. QED
    BY <2>1 DEF Drop, KeptControls
<1>3. no \in BOOLEAN /\ none \in Seq(PushedTimelines) /\ Len(none) = 0
  OBVIOUS
<1> DEFINE Rest(x) == HeardSame(x, k) /\ x.conn = "down" /\ x.pending = k.pending
<1> HIDE DEF k, no, none
<1>4. a1 \in BotStates /\ Rest(a1)
  BY <1>1 DEF BotStates, HeardSame
<1> HIDE DEF a1
<1>5. a2 \in BotStates /\ Rest(a2)
  BY <1>3, <1>4 DEF BotStates, HeardSame
<1> HIDE DEF a2
<1>6. a3 \in BotStates /\ Rest(a3)
  BY <1>5 DEF BotStates, HeardSame
<1> HIDE DEF a3
<1>7. q \in BotStates /\ Rest(q) /\ q.ans = none
  BY <1>3, <1>6 DEF BotStates, HeardSame
<1> HIDE DEF q
<1>8. HeardOf(q, commits)
  BY <1>1, <1>7, HeardAlike DEF HeardSame
<1>9. JoinsWell(q, commits, aborted')
  <2>1. \A i : i \notin 1..Len(q.ans)
    BY <1>3, <1>7
  <2>2. q.ans = <<>>
    BY <1>7 DEF none
  <2>. QED
    BY <1>1, <1>7, <2>1, <2>2 DEF JoinsWell
<1>10. /\ drops' \in Nat /\ wire' \in Seq(SentControls) /\ stray' \in Seq(SentControls)
       /\ b = Commander => \A i \in 1..Len(wire') : wire'[i].gen = q.gen
  <2>1. <<>> \in Seq(SentControls) /\ \A i : i \notin 1..Len(<<>>)
    OBVIOUS
  <2>2. drops \in Nat /\ wire \in Seq(SentControls) /\ stray \in Seq(SentControls)
    BY BotFacts
  <2>3. CASE b = Commander
    <3>1. wire' = <<>> /\ stray' = <<>> /\ drops' \in Nat
      BY <1>2, <2>2, <2>3
    <3>. QED
      BY <2>1, <3>1
  <2>4. CASE b # Commander
    <3>1. wire' = wire /\ stray' = stray /\ drops' \in Nat
      BY <1>2, <2>2, <2>4
    <3>. QED
      BY <2>2, <2>4, <3>1
  <2>. QED
    BY <2>3, <2>4
<1>11. aborted' \in BOOLEAN /\ aborted' = aborted
  BY <1>2, BotFacts
<1>. QED
  BY <1>2, <1>7, <1>8, <1>9, <1>10, <1>11, BotKept

LEMMA ReconnectKept ==
    ASSUME FleetIInv, NEW b \in Bots, Reconnect(b)
    PROVE  FleetIInv'
<1> DEFINE k == bot[b]
           g == k.gen + 1
           r == k.buffered
           n == k.reconnects + 1
           a1 == [k EXCEPT !.conn = "up"]
           a2 == [a1 EXCEPT !.gen = g]
           a3 == [a2 EXCEPT !.req = r]
           a4 == [a3 EXCEPT !.buffered = 0]
           a5 == [a4 EXCEPT !.reconnects = n]
           q == IF a5.room THEN Joining(a5) ELSE a5
           Rest(x) == /\ HeardSame(x, k) /\ x.conn = "up" /\ x.room = k.room /\ x.inRoom = k.inRoom
                      /\ x.ans = k.ans /\ x.pending = k.pending
<1>1. k \in BotStates /\ HeardOf(k, commits) /\ JoinsWell(k, commits, aborted)
  BY BotFacts
<1>2. g \in Nat /\ r \in Nat /\ n \in Nat
  <2>1. k.gen \in Nat /\ k.buffered \in Nat /\ k.reconnects \in Nat
    BY <1>1 DEF BotStates
  <2> HIDE DEF k
  <2>. QED
    BY <2>1
<1>3. /\ Only(b, onReconnect([k EXCEPT !.conn = "up", !.gen = @ + 1,
                                       !.req = bot[b].buffered, !.buffered = 0]))
      /\ k.conn = "down"
      /\ b = Commander => wire' = stray /\ stray' = <<>>
      /\ b # Commander => UNCHANGED <<wire, stray>>
      /\ UNCHANGED <<commits, arrived, overdue, aborted, drops>>
  BY DEF Reconnect
<1>4. [k EXCEPT !.conn = "up", !.gen = @ + 1, !.req = bot[b].buffered, !.buffered = 0] = a4
  BY <1>1 DEF BotStates
<1> HIDE DEF k, g, r, n
<1>5. a1 \in BotStates /\ Rest(a1) /\ a1.reconnects = k.reconnects
  BY <1>1 DEF BotStates, HeardSame
<1> HIDE DEF a1
<1>6. a2 \in BotStates /\ Rest(a2) /\ a2.reconnects = k.reconnects
  BY <1>2, <1>5 DEF BotStates, HeardSame
<1> HIDE DEF a2
<1>7. a3 \in BotStates /\ Rest(a3) /\ a3.reconnects = k.reconnects
  BY <1>2, <1>6 DEF BotStates, HeardSame
<1> HIDE DEF a3
<1>8. a4 \in BotStates /\ Rest(a4) /\ a4.reconnects = k.reconnects
  BY <1>7 DEF BotStates, HeardSame
<1> HIDE DEF a4
<1>9. a5 \in BotStates /\ Rest(a5)
  BY <1>2, <1>8 DEF BotStates, HeardSame
<1>10. onReconnect(a4) = q /\ a4.room = a5.room
  <2>1. [a4 EXCEPT !.reconnects = @ + 1] = a5
    BY <1>8 DEF BotStates, n
  <2>2. a4.room = a5.room
    BY <1>8, <1>9
  <2> HIDE DEF a5
  <2>. QED
    BY <2>1, <2>2 DEF onReconnect
<1> HIDE DEF a5
<1>11. /\ q \in BotStates /\ HeardSame(q, k) /\ q.conn = "up" /\ q.inRoom = k.inRoom /\ q.ans = k.ans
       /\ IsFiniteSet(q.pending)
       /\ q.room => q.pending # {}
  <2>1. CASE a5.room
    <3>1. IsFiniteSet(a5.pending)
      BY <1>1, <1>9 DEF JoinsWell
    <3>2. q = Joining(a5)
      BY <2>1
    <3> HIDE DEF q
    <3>3. q \in BotStates /\ HeardSame(q, a5) /\ q.pending = a5.pending \cup {a5.reconnects}
          /\ IsFiniteSet(q.pending) /\ q.conn = a5.conn /\ q.inRoom = a5.inRoom /\ q.ans = a5.ans
      BY <1>9, <3>1, <3>2, JoiningIs
    <3>. QED
      BY <1>9, <3>3 DEF HeardSame
  <2>2. CASE ~a5.room
    BY <1>1, <1>9, <2>2 DEF JoinsWell
  <2>. QED
    BY <2>1, <2>2
<1> HIDE DEF q
<1>12. HeardOf(q, commits)
  BY <1>1, <1>11, HeardAlike DEF HeardSame
<1>13. JoinsWell(q, commits, aborted')
  BY <1>1, <1>11 DEF JoinsWell
<1>14. /\ wire' \in Seq(SentControls) /\ stray' \in Seq(SentControls)
       /\ b = Commander => \A i \in 1..Len(wire') : wire'[i].gen = q.gen
  <2>1. <<>> \in Seq(SentControls) /\ \A i : i \notin 1..Len(<<>>)
    OBVIOUS
  <2>2. wire \in Seq(SentControls) /\ stray \in Seq(SentControls)
        /\ (b = Commander /\ k.conn = "down" => stray = <<>>)
    BY BotFacts DEF k
  <2>. QED
    BY <1>3, <2>1, <2>2
<1>15. aborted' \in BOOLEAN /\ aborted' = aborted /\ drops' \in Nat
  BY <1>3, BotFacts
<1>16. Only(b, q)
  BY <1>3, <1>4, <1>10
<1>. QED
  BY <1>3, <1>11, <1>12, <1>13, <1>14, <1>15, <1>16, BotKept

LEMMA PushKept ==
    ASSUME FleetIInv, NEW b \in Bots, NEW v \in 1..Len(commits), Push(b, v)
    PROVE  FleetIInv'
<1> DEFINE k == bot[b]
           r == Received(k, commits[v])
           n == r.hears + 1
           q == [r EXCEPT !.hears = n]
<1>1. k \in BotStates /\ HeardOf(k, commits) /\ JoinsWell(k, commits, aborted) /\ IsLog(commits)
      /\ k.inRoom
  BY BotFacts DEF Push
<1>2. commits[v] \in PushedTimelines
  BY <1>1 DEF IsLog
<1>3. HeardOf(r, commits)
  BY <1>1, HearsWell
<1>4. r \in BotStates /\ BesidesHeard(r, k)
  BY <1>1, <1>2, ReceivedIs DEF BesidesHeard
<1>5. Only(b, q) /\ UNCHANGED <<commits, wire, stray, arrived, overdue, aborted, drops>>
  <2>1. [r EXCEPT !.hears = @ + 1] = q
    BY <1>4 DEF BotStates
  <2>. QED
    BY <2>1 DEF Push
<1>6. n \in Nat
  BY <1>4 DEF BotStates
<1> HIDE DEF r, n, k
<1>7. q \in BotStates /\ HeardSame(q, r) /\ BesidesHeard(q, r)
  BY <1>4, <1>6 DEF BotStates, HeardSame, BesidesHeard
<1> HIDE DEF q
<1>8. HeardOf(q, commits)
  BY <1>3, <1>7, HeardAlike DEF HeardSame
<1>9. BesidesHeard(q, k)
  BY <1>4, <1>7 DEF BesidesHeard
<1>10. JoinsWell(q, commits, aborted')
  BY <1>1, <1>5, <1>9 DEF JoinsWell, BesidesHeard
<1>11. q.gen = k.gen /\ q.conn = k.conn
  BY <1>9 DEF BesidesHeard
<1>. QED
  BY <1>5, <1>7, <1>8, <1>10, <1>11, BotFacts, BotKept DEF k

-----------------------------------------------------------------------------
(* Controls and the deployment.                                             *)

(* What is sent goes on the connection at hand, or into its buffer.         *)
LEMMA ControlsSent ==
    ASSUME FleetIInv, NEW cmds \in Seq(FleetCmds), sendControl(cmds)
    PROVE  /\ wire' \in Seq(SentControls) /\ stray' \in Seq(SentControls)
           /\ \A i \in 1..Len(wire') : wire'[i].gen = bot[Commander].gen
           /\ bot[Commander].conn = "down" => stray' = <<>>
<1> DEFINE g == bot[Commander].gen
           ps == [i \in DOMAIN cmds |-> [cmd |-> cmds[i], gen |-> g]]
<1>1. Commander \in Bots
  <2>1. fleetScope.bots \in Nat \ {0}
    BY FleetAssumption DEF FleetIInv, FleetTypeOK
  <2>. QED
    BY <2>1 DEF Commander, Bots
<1>2. /\ bot[Commander] \in BotStates /\ wire \in Seq(SentControls) /\ stray \in Seq(SentControls)
      /\ \A i \in 1..Len(wire) : wire[i].gen = g
      /\ bot[Commander].conn = "down" => stray = <<>>
  BY <1>1, BotFacts
<1>3. g \in Nat /\ bot[Commander].conn \in {"up", "quiet", "down"}
  BY <1>2 DEF BotStates
<1>4. /\ bot[Commander].conn = "up" => wire' = wire \o ps /\ UNCHANGED stray
      /\ bot[Commander].conn = "quiet" => stray' = stray \o ps /\ UNCHANGED wire
      /\ bot[Commander].conn = "down" => UNCHANGED <<wire, stray>>
  BY DEF sendControl
<1> HIDE DEF g
<1>5. ps \in Seq(SentControls) /\ Len(ps) = Len(cmds) /\ \A i \in 1..Len(ps) : ps[i].gen = g
  <2>1. DOMAIN cmds = 1..Len(cmds) /\ Len(cmds) \in Nat
    OBVIOUS
  <2>2. \A i \in 1..Len(cmds) : [cmd |-> cmds[i], gen |-> g] \in SentControls
    BY <1>3 DEF SentControls
  <2>3. \E n \in Nat : ps \in [1..n -> SentControls]
    BY <2>1, <2>2
  <2>4. ps \in Seq(SentControls)
    <3> HIDE DEF ps
    <3>. QED
      BY <2>3
  <2>5. Len(ps) = Len(cmds)
    BY <2>1
  <2>. QED
    BY <2>1, <2>4, <2>5
<1> HIDE DEF ps
<1>6. /\ wire \o ps \in Seq(SentControls) /\ stray \o ps \in Seq(SentControls)
      /\ \A i \in 1..Len(wire \o ps) : (wire \o ps)[i].gen = g
  <2>1. /\ Len(wire \o ps) = Len(wire) + Len(ps) /\ Len(wire) \in Nat /\ Len(ps) \in Nat
        /\ \A i \in 1..Len(wire) : (wire \o ps)[i] = wire[i]
        /\ \A i \in (Len(wire) + 1)..(Len(wire) + Len(ps)) : (wire \o ps)[i] = ps[i - Len(wire)]
    <3>1. /\ Len(wire \o ps) = Len(wire) + Len(ps) /\ Len(wire) \in Nat /\ Len(ps) \in Nat
          /\ \A i \in 1..(Len(wire) + Len(ps)) :
                (wire \o ps)[i] = IF i <= Len(wire) THEN wire[i] ELSE ps[i - Len(wire)]
      <4>1. wire \in Seq(SentControls) /\ ps \in Seq(SentControls)
        BY <1>2, <1>5
      <4>2. Len(wire) \in Nat /\ Len(ps) \in Nat
        BY <4>1, LenProperties
      <4>. QED
        BY ONLY <4>1, <4>2, ConcatProperties
    <3> DEFINE m == Len(wire)
               n == Len(ps)
               w == wire \o ps
    <3>2. /\ Len(w) = m + n /\ m \in Nat /\ n \in Nat
          /\ \A i \in 1..(m + n) : w[i] = IF i <= m THEN wire[i] ELSE ps[i - m]
      BY <3>1
    <3> HIDE DEF m, n, w
    <3>3. /\ \A i \in 1..m : w[i] = wire[i]
          /\ \A i \in (m + 1)..(m + n) : w[i] = ps[i - m]
      BY <3>2
    <3>. QED
      BY <3>2, <3>3 DEF m, n, w
  <2>2. \A i \in 1..Len(wire \o ps) :
            i \in 1..Len(wire) \/ (i \in (Len(wire) + 1)..(Len(wire) + Len(ps))
                                   /\ i - Len(wire) \in 1..Len(ps))
    BY <2>1
  <2>3. wire \o ps \in Seq(SentControls) /\ stray \o ps \in Seq(SentControls)
    BY <1>2, <1>5
  <2>. QED
    BY <1>2, <1>5, <2>1, <2>2, <2>3
<1>7. CASE bot[Commander].conn = "up"
  <2>1. wire' = wire \o ps /\ stray' = stray /\ bot[Commander].conn # "down"
    BY <1>4, <1>7
  <2>. QED
    BY <1>2, <1>6, <2>1 DEF g
<1>8. CASE bot[Commander].conn = "quiet"
  <2>1. stray' = stray \o ps /\ wire' = wire /\ bot[Commander].conn # "down"
    BY <1>4, <1>8
  <2>. QED
    BY <1>2, <1>6, <2>1 DEF g
<1>9. CASE bot[Commander].conn = "down"
  BY <1>2, <1>4, <1>9 DEF g
<1>. QED
  BY <1>3, <1>7, <1>8, <1>9

LEMMA TwiceIs ==
    ASSUME NEW s \in Seq(FleetCmds)
    PROVE  Twice(s) \in Seq(FleetCmds)
BY DEF Twice

(* A step that leaves the bots alone.                                       *)
LEMMA BotsAlone ==
    ASSUME FleetIInv,
           UNCHANGED <<fleetScope, plane, dupControls, dedups, bot, aborted, drops>>,
           scripted' \subseteq FleetCmds, pairs' \in Nat,
           IsLog(commits'), SeeksServed(commits', arrived'),
           \A b \in Bots : HeardOf(bot[b], commits') /\ JoinsWell(bot[b], commits', aborted),
           wire' \in Seq(SentControls), stray' \in Seq(SentControls),
           \A i \in 1..Len(wire') : wire'[i].gen = bot[Commander].gen,
           bot[Commander].conn = "down" => stray' = <<>>,
           ~overdue', overdue' \in BOOLEAN
    PROVE  FleetIInv'
<1>1. Bots' = Bots /\ SentControls' = SentControls /\ FleetCmds' = FleetCmds
  BY DEF Bots, SentControls, FleetCmds
<1>2. FleetTypeOK'
  BY <1>1 DEF FleetIInv, FleetTypeOK, IsLog
<1>3. ControlsOfNow'
  BY DEF ControlsOfNow
<1>. QED
  BY <1>1, <1>2, <1>3 DEF FleetIInv

LEMMA SendKept ==
    ASSUME FleetIInv, NEW cmds \in Seq(FleetCmds), sendControl(cmds),
           scripted' \subseteq FleetCmds, pairs' \in Nat,
           UNCHANGED <<fleetScope, plane, dupControls, dedups, commits, bot, arrived, overdue,
                       aborted, drops>>
    PROVE  FleetIInv'
<1>1. /\ IsLog(commits') /\ SeeksServed(commits', arrived')
      /\ \A b \in Bots : HeardOf(bot[b], commits') /\ JoinsWell(bot[b], commits', aborted)
      /\ ~overdue' /\ overdue' \in BOOLEAN
  BY DEF FleetIInv, FleetTypeOK, ControlsOfNow
<1>. QED
  BY <1>1, ControlsSent, BotsAlone

LEMMA sendIntentKept ==
    ASSUME FleetIInv, NEW c \in FleetCmds, sendIntent(c)
    PROVE  FleetIInv'
<1>1. /\ scripted' = scripted \cup {c} /\ sendControl(Twice(<<c>>))
      /\ UNCHANGED <<fleetScope, plane, dupControls, dedups, commits, bot, pairs, arrived, overdue,
                     aborted, drops>>
  BY DEF sendIntent
<1>2. scripted' \subseteq FleetCmds /\ pairs' \in Nat
  BY <1>1 DEF FleetIInv, FleetTypeOK
<1>3. Twice(<<c>>) \in Seq(FleetCmds)
  <2>1. <<c>> \in Seq(FleetCmds)
    OBVIOUS
  <2>. QED
    BY <2>1, TwiceIs
<1>. QED
  BY <1>1, <1>2, <1>3, SendKept

LEMMA sendIntentSwappedPairKept ==
    ASSUME FleetIInv, NEW c \in FleetCmds, NEW d \in FleetCmds, sendIntentSwappedPair(c, d)
    PROVE  FleetIInv'
<1>1. /\ scripted' = {c, d} /\ pairs' = pairs + 1 /\ sendControl(Twice(<<d, c>>))
      /\ UNCHANGED <<fleetScope, plane, dupControls, dedups, commits, bot, arrived, overdue,
                     aborted, drops>>
  BY DEF sendIntentSwappedPair
<1>2. scripted' \subseteq FleetCmds /\ pairs' \in Nat
  BY <1>1 DEF FleetIInv, FleetTypeOK
<1>3. Twice(<<d, c>>) \in Seq(FleetCmds)
  <2>1. <<d, c>> \in Seq(FleetCmds)
    OBVIOUS
  <2>. QED
    BY <2>1, TwiceIs
<1>. QED
  BY <1>1, <1>2, <1>3, SendKept

(* A commit of any reason.                                                  *)
LEMMA CommitGrows ==
    ASSUME FleetIInv, NEW e \in PushedTimelines, commits' = Append(commits, e),
           \/ e.seq = 0 /\ e.storeEpoch = Latest.storeEpoch + 1
           \/ e.seq = Latest.seq + 1 /\ e.storeEpoch = Latest.storeEpoch,
           IF e.reason = "seek" THEN arrived' = arrived \cup {e.mediaTime} ELSE arrived' = arrived
    PROVE  /\ IsLog(commits') /\ SeeksServed(commits', arrived')
           /\ \A b \in Bots : HeardOf(bot[b], commits') /\ JoinsWell(bot[b], commits', aborted)
<1> DEFINE h == commits
           g == commits'
           n == Len(h)
<1>1. IsLog(h) /\ n \in 1..n /\ h[n] \in PushedTimelines /\ n \in Nat
  <2>1. IsLog(h)
    BY DEF FleetIInv
  <2>2. h \in Seq(PushedTimelines) /\ n \in Nat /\ n >= 1
    BY <2>1 DEF IsLog
  <2> HIDE DEF h
  <2>3. n \in 1..n
    BY <2>2
  <2> HIDE DEF n
  <2>4. h[n] \in PushedTimelines
    BY <2>2, <2>3 DEF n
  <2>. QED
    BY <2>1, <2>2, <2>3, <2>4
<1>2. Older(h[n], e)
  BY <1>1 DEF Older, Latest, PushedTimelines
<1>3. e.seq = 0 \/ (e.storeEpoch = h[n].storeEpoch /\ e.seq = h[n].seq + 1)
  BY DEF Latest
<1>4. /\ IsLog(g) /\ Len(g) = n + 1 /\ g[n + 1] = e
      /\ \A i \in 1..n : g[i] = h[i]
      /\ \A i \in 1..n : Version(h[i]) # Version(e)
  BY <1>1, <1>2, <1>3, LogGrows
<1> HIDE DEF h, g
<1>5. /\ \A i \in 1..Len(g) : i \in 1..n \/ i = n + 1
      /\ \A i \in 1..n : i \in 1..Len(g)
      /\ n + 1 \in 1..Len(g)
  BY <1>1, <1>4
<1>6. SeeksServed(g, arrived')
  <2>1. SeeksServed(h, arrived)
    BY DEF FleetIInv, h
  <2>2. ASSUME NEW i \in 1..Len(g), g[i].reason = "seek" PROVE g[i].mediaTime \in arrived'
    <3>1. CASE i \in 1..n
      BY <1>4, <2>1, <2>2, <3>1 DEF SeeksServed
    <3>2. CASE i = n + 1
      BY <1>4, <2>2, <3>2
    <3>. QED
      BY <1>5, <3>1, <3>2
  <2>3. ASSUME NEW c \in arrived' PROVE \E i \in 1..Len(g) : g[i].reason = "seek" /\ g[i].mediaTime = c
    <3>1. CASE c \in arrived
      <4>1. PICK i \in 1..n : h[i].reason = "seek" /\ h[i].mediaTime = c
        BY <2>1, <3>1 DEF SeeksServed
      <4>. QED
        BY <1>4, <1>5, <4>1
    <3>2. CASE c \notin arrived
      <4>1. e.reason = "seek" /\ c = e.mediaTime
        BY <3>2
      <4>. QED
        BY <1>4, <1>5, <4>1
    <3>. QED
      BY <3>1, <3>2
  <2>. QED
    BY <2>2, <2>3 DEF SeeksServed
<1>7. ASSUME NEW b \in Bots PROVE HeardOf(bot[b], g) /\ JoinsWell(bot[b], g, aborted)
  <2> DEFINE k == bot[b]
  <2>1. HeardOf(k, h) /\ JoinsWell(k, h, aborted)
    BY DEF FleetIInv, h
  <2> HIDE DEF k
  <2>2. HeardOf(k, g)
    BY <1>1, <1>4, <2>1, HeardLater
  <2>3. \A i \in 1..Len(k.ans) : \E j \in 1..Len(g) : k.ans[i] = g[j]
    <3> SUFFICES ASSUME NEW i \in 1..Len(k.ans) PROVE \E j \in 1..Len(g) : k.ans[i] = g[j]
      OBVIOUS
    <3>1. PICK j \in 1..n : k.ans[i] = h[j]
      BY <2>1 DEF JoinsWell
    <3>. QED
      BY <1>4, <1>5, <3>1
  <2>. QED
    BY <2>1, <2>2, <2>3 DEF JoinsWell, k
<1>. QED
  BY <1>4, <1>6, <1>7 DEF g

LEMMA ServeControlKept ==
    ASSUME FleetIInv, ServeControl
    PROVE  FleetIInv'
<1> DEFINE p == Head(wire)
<1>1. /\ wire # <<>> /\ wire' = Tail(wire)
      /\ UNCHANGED <<fleetScope, plane, dupControls, dedups, bot, stray, scripted, pairs, aborted, drops>>
      /\ IF bot[Commander].inRoom
         THEN /\ arrived' = arrived \cup {p.cmd}
              /\ overdue' = (overdue \/ p.gen # bot[Commander].gen)
              /\ IF dedups /\ p.cmd \in arrived THEN UNCHANGED commits ELSE Commit("seek", p.cmd)
         ELSE UNCHANGED <<commits, arrived, overdue>>
  BY DEF ServeControl
<1>2. /\ wire \in Seq(SentControls) /\ stray \in Seq(SentControls)
      /\ scripted \subseteq FleetCmds /\ pairs \in Nat /\ overdue \in BOOLEAN
      /\ \A i \in 1..Len(wire) : wire[i].gen = bot[Commander].gen
      /\ bot[Commander].conn = "down" => stray = <<>>
      /\ ~overdue
  BY DEF FleetIInv, FleetTypeOK, ControlsOfNow
<1>3. /\ p \in SentControls /\ p.gen = bot[Commander].gen
      /\ wire' \in Seq(SentControls)
      /\ \A i \in 1..Len(wire') : wire'[i].gen = bot[Commander].gen
  <2>1. /\ Head(wire) \in SentControls /\ Tail(wire) \in Seq(SentControls)
        /\ Len(Tail(wire)) = Len(wire) - 1 /\ Head(wire) = wire[1]
        /\ \A i \in 1..Len(Tail(wire)) : Tail(wire)[i] = wire[i + 1]
    BY <1>1, <1>2, HeadTailProperties
  <2>2. Len(wire) \in Nat /\ Len(wire) # 0
    BY <1>1, <1>2, EmptySeq
  <2>3. 1 \in 1..Len(wire) /\ \A i \in 1..(Len(wire) - 1) : i + 1 \in 1..Len(wire)
    BY <2>2
  <2>. QED
    BY <1>1, <1>2, <2>1, <2>3
<1>4. ~overdue' /\ overdue' \in BOOLEAN
  BY <1>1, <1>2, <1>3
<1> HIDE DEF p
<1>5. /\ IsLog(commits') /\ SeeksServed(commits', arrived')
      /\ \A b \in Bots : HeardOf(bot[b], commits') /\ JoinsWell(bot[b], commits', aborted)
  <2>1. CASE commits' = commits /\ arrived' = arrived
    BY <2>1 DEF FleetIInv
  <2>2. CASE commits' # commits \/ arrived' # arrived
    <3>1. bot[Commander].inRoom /\ arrived' = arrived \cup {p.cmd}
      BY <1>1, <2>2
    <3>2. ~(dedups /\ p.cmd \in arrived)
      <4> SUFFICES ASSUME dedups, p.cmd \in arrived PROVE FALSE
        OBVIOUS
      <4>1. commits' = commits /\ arrived' = arrived
        BY <1>1, <3>1
      <4>. QED
        BY <2>2, <4>1
    <3> DEFINE e == [Latest EXCEPT !.seq = @ + 1, !.reason = "seek", !.mediaTime = p.cmd]
    <3>3. commits' = Append(commits, e)
      BY <1>1, <3>1, <3>2 DEF Commit
    <3>4. Latest \in PushedTimelines /\ p.cmd \in Int
      <4>1. Latest \in PushedTimelines
        BY DEF FleetIInv, IsLog, Latest
      <4>2. p.cmd \in FleetCmds
        BY <1>3 DEF SentControls
      <4>. QED
        BY <4>1, <4>2 DEF FleetCmds
    <3>5. /\ e \in PushedTimelines /\ e.seq = Latest.seq + 1 /\ e.storeEpoch = Latest.storeEpoch
          /\ e.reason = "seek" /\ e.mediaTime = p.cmd
      <4> DEFINE x == Latest
                 s == x.seq + 1
                 c == p.cmd
                 e0 == [x EXCEPT !.seq = s, !.reason = "seek", !.mediaTime = c]
      <4>1. e = e0 /\ s \in Nat /\ x \in PushedTimelines /\ c \in Int
        BY <3>4 DEF PushedTimelines
      <4> HIDE DEF x, e, s, c
      <4>2. e0 \in PushedTimelines /\ e0.seq = s /\ e0.storeEpoch = x.storeEpoch /\ e0.reason = "seek"
            /\ e0.mediaTime = c
        BY <4>1 DEF PushedTimelines
      <4>. QED
        BY <4>1, <4>2 DEF x, s, c
    <3> HIDE DEF e
    <3>. QED
      BY <3>1, <3>3, <3>5, CommitGrows
  <2>. QED
    BY <2>1, <2>2
<1>6. stray' = stray /\ scripted' \subseteq FleetCmds /\ pairs' \in Nat
  BY <1>1, <1>2
<1>. QED
  BY <1>1, <1>2, <1>3, <1>4, <1>5, <1>6, BotsAlone

(* A commit no control made.                                                *)
LEMMA OwnCommitKept ==
    ASSUME FleetIInv, NEW e \in PushedTimelines, commits' = Append(commits, e), e.reason # "seek",
           \/ e.seq = 0 /\ e.storeEpoch = Latest.storeEpoch + 1
           \/ e.seq = Latest.seq + 1 /\ e.storeEpoch = Latest.storeEpoch,
           UNCHANGED <<fleetScope, plane, dupControls, dedups, bot, wire, stray, scripted, pairs,
                       arrived, overdue, aborted, drops>>
    PROVE  FleetIInv'
<1>1. /\ IsLog(commits') /\ SeeksServed(commits', arrived')
      /\ \A b \in Bots : HeardOf(bot[b], commits') /\ JoinsWell(bot[b], commits', aborted)
  BY CommitGrows
<1>2. /\ wire' \in Seq(SentControls) /\ stray' \in Seq(SentControls)
      /\ scripted' \subseteq FleetCmds /\ pairs' \in Nat /\ overdue' \in BOOLEAN
      /\ \A i \in 1..Len(wire') : wire'[i].gen = bot[Commander].gen
      /\ bot[Commander].conn = "down" => stray' = <<>>
      /\ ~overdue'
  BY DEF FleetIInv, FleetTypeOK, ControlsOfNow
<1>. QED
  BY <1>1, <1>2, BotsAlone

LEMMA SweepKept ==
    ASSUME FleetIInv, Sweep
    PROVE  FleetIInv'
<1> DEFINE e == [Latest EXCEPT !.seq = @ + 1, !.reason = "snapshot", !.mediaTime = Latest.mediaTime]
<1>1. /\ commits' = Append(commits, e)
      /\ UNCHANGED <<fleetScope, plane, dupControls, dedups, bot, wire, stray, scripted, pairs,
                     arrived, overdue, aborted, drops>>
  BY DEF Sweep, Commit
<1>2. Latest \in PushedTimelines
  BY DEF FleetIInv, IsLog, Latest
<1>3. /\ e \in PushedTimelines /\ e.seq = Latest.seq + 1 /\ e.storeEpoch = Latest.storeEpoch
      /\ e.reason # "seek"
  <2> DEFINE x == Latest
             s == x.seq + 1
             c == x.mediaTime
             e0 == [x EXCEPT !.seq = s, !.reason = "snapshot", !.mediaTime = c]
  <2>1. e = e0 /\ s \in Nat /\ x \in PushedTimelines /\ c \in Int
    BY <1>2 DEF PushedTimelines
  <2> HIDE DEF x, e, s, c
  <2>2. e0 \in PushedTimelines /\ e0.seq = s /\ e0.storeEpoch = x.storeEpoch /\ e0.reason = "snapshot"
    BY <2>1 DEF PushedTimelines
  <2>. QED
    BY <2>1, <2>2 DEF x, s
<1> HIDE DEF e
<1>. QED
  BY <1>1, <1>3, OwnCommitKept

LEMMA RebornKept ==
    ASSUME FleetIInv, Reborn
    PROVE  FleetIInv'
<1> DEFINE e == Birth(Latest.storeEpoch + 1)
<1>1. /\ commits' = Append(commits, e)
      /\ UNCHANGED <<fleetScope, plane, dupControls, dedups, bot, wire, stray, scripted, pairs,
                     arrived, overdue, aborted, drops>>
  BY DEF Reborn
<1>2. Latest \in PushedTimelines
  BY DEF FleetIInv, IsLog, Latest
<1>3. /\ e \in PushedTimelines /\ e.seq = 0 /\ e.storeEpoch = Latest.storeEpoch + 1
      /\ e.reason # "seek"
  BY <1>2 DEF Birth, PushedTimelines
<1> HIDE DEF e
<1>. QED
  BY <1>1, <1>3, OwnCommitKept

LEMMA FleetInitial ==
    ASSUME FleetInit
    PROVE  FleetIInv
<1>1. /\ commits = <<Birth(1)>> /\ bot = [b \in Bots |-> Fresh] /\ wire = <<>> /\ stray = <<>>
      /\ scripted = {} /\ pairs = 0 /\ arrived = {} /\ ~overdue /\ ~aborted /\ drops = 0
      /\ overdue \in BOOLEAN /\ aborted \in BOOLEAN
      /\ fleetScope \in FleetScopes /\ plane \in {"node", "relay"}
      /\ dupControls \in BOOLEAN /\ dedups \in BOOLEAN
  BY FleetAssumption DEF FleetInit
<1>2. /\ commits \in Seq(PushedTimelines) /\ Len(commits) = 1 /\ commits[1] = Birth(1)
  BY <1>1 DEF Birth, PushedTimelines
<1>3. Birth(1).storeEpoch = 1 /\ Birth(1).seq = 0 /\ Birth(1).reason = "join"
  BY DEF Birth
<1>4. Fresh \in BotStates
  <2>1. <<>> \in Seq(PushedTimelines)
    OBVIOUS
  <2>. QED
    BY <2>1 DEF Fresh, BotStates, Versions
<1>5. IsLog(commits)
  <2>1. \A i \in 1..Len(commits) : i = 1
    BY <1>2
  <2>. QED
    BY <1>2, <1>3, <2>1 DEF IsLog
<1>6. SeeksServed(commits, arrived)
  <2>1. \A i \in 1..Len(commits) : i = 1
    BY <1>2
  <2>. QED
    BY <1>1, <1>2, <1>3, <2>1 DEF SeeksServed
<1>7. HeardOf(Fresh, commits)
  BY DEF HeardOf, Accounted, FollowsLast, WitnessHolds, GotAt, SeekGotAt, Fresh
<1>8. JoinsWell(Fresh, commits, aborted)
  <2>1. IsFiniteSet({})
    BY FS_EmptySet
  <2>. QED
    BY <2>1 DEF JoinsWell, Fresh
<1>9. /\ wire \in Seq(SentControls) /\ stray \in Seq(SentControls)
      /\ \A i : i \notin 1..Len(wire)
  BY <1>1
<1>10. FleetTypeOK
  BY <1>1, <1>2, <1>4, <1>9 DEF FleetTypeOK
<1>. QED
  BY <1>1, <1>5, <1>6, <1>7, <1>8, <1>9, <1>10 DEF FleetIInv, ControlsOfNow

-----------------------------------------------------------------------------
(* The verdict.                                                             *)

(* Seqs of an epoch a bot got have a first and a last.                      *)
LEMMA SeqsEnds ==
    ASSUME FleetIInv, NEW b \in Bots, NEW w \in bot[b].seen
    PROVE  LET S == SeqsOf(bot[b], w[1]) IN
           /\ S \subseteq Nat
           /\ Min(S) \in S /\ \A s \in S : Min(S) <= s
           /\ Max(S) \in S /\ \A s \in S : s <= Max(S)
<1> DEFINE k == bot[b]
           e == w[1]
           S == SeqsOf(k, e)
           h == commits
<1>1. k.seen = k.got /\ \A v \in k.got : \E i \in 1..Len(h) : v = Version(h[i])
  BY DEF FleetIInv, HeardOf, Accounted
<1>2. IsLog(h) /\ Len(h) \in Nat /\ \A i \in 1..Len(h) : h[i] \in PushedTimelines
  BY DEF FleetIInv, IsLog
<1> HIDE DEF h
<1>3. \A v \in k.seen : v = <<v[1], v[2]>> /\ v[2] \in Nat
  <2> SUFFICES ASSUME NEW v \in k.seen PROVE v = <<v[1], v[2]>> /\ v[2] \in Nat
    OBVIOUS
  <2>1. PICK i \in 1..Len(h) : v = Version(h[i])
    BY <1>1
  <2>. QED
    BY <1>2, <2>1 DEF Version, PushedTimelines
<1>4. S \subseteq Nat /\ w[2] \in S
  BY <1>3 DEF SeqsOf
(* The commits of this epoch the bot got, by their place in the log.        *)
<1> DEFINE I == {i \in 1..Len(h) : h[i].storeEpoch = e /\ h[i].seq \in S}
<1>5. \A s \in S : \E i \in I : h[i].seq = s
  <2> SUFFICES ASSUME NEW s \in S PROVE \E i \in I : h[i].seq = s
    OBVIOUS
  <2>1. PICK v \in k.seen : v[1] = e /\ v[2] = s
    BY DEF SeqsOf
  <2>2. PICK i \in 1..Len(h) : v = Version(h[i])
    BY <1>1
  <2>. QED
    BY <2>1, <2>2 DEF Version
<1>6. \A i \in I, j \in I : i <= j => h[i].seq <= h[j].seq
  <2> SUFFICES ASSUME NEW i \in I, NEW j \in I, i <= j PROVE h[i].seq <= h[j].seq
    OBVIOUS
  <2>1. i \in 1..Len(h) /\ j \in 1..Len(h) /\ h[i] \in PushedTimelines /\ h[j] \in PushedTimelines
        /\ h[i].storeEpoch = h[j].storeEpoch
    BY <1>2
  <2>2. CASE i = j
    BY <2>1, <2>2 DEF PushedTimelines
  <2>3. CASE i # j
    <3>1. Older(h[i], h[j])
      BY <1>2, <2>1, <2>3 DEF IsLog
    <3>. QED
      BY <2>1, <3>1 DEF Older, PushedTimelines
  <2>. QED
    BY <2>2, <2>3
<1>7. I # {} /\ I \subseteq 1..Len(h)
  BY <1>4, <1>5
<1>8. \A i \in I : i \in 1..Len(h) /\ h[i].seq \in S /\ i \in Int
  BY <1>2
<1> HIDE DEF I, S, k, e
<1>9. PICK j \in I : \A i \in I : i <= j
  BY <1>2, <1>7, HasLast
<1>10. PICK first \in S : \A s \in S : first <= s
  <2>1. PICK s \in S : \A x \in S : ~ (<<x, s>> \in OpToRel(<, Nat))
    BY <1>4, WFMin, NatLessThanWellFounded
  <2>2. ASSUME NEW x \in S PROVE s <= x
    <3>1. x \in Nat /\ s \in Nat
      BY <1>4
    <3>2. ~(x < s)
      BY <2>1, <3>1 DEF OpToRel
    <3>. QED
      BY <3>1, <3>2
  <2>. QED
    BY <2>2
<1>11. h[j].seq \in S /\ \A s \in S : s <= h[j].seq
  <2>1. \A i \in I : h[i].seq <= h[j].seq
    BY <1>6, <1>9
  <2>. QED
    BY <1>5, <1>8, <2>1
<1>12. Min(S) \in S /\ \A s \in S : Min(S) <= s
  <2>1. Min(S) = CHOOSE x \in S : \A y \in S : x <= y
    BY DEF Min
  <2>. QED
    BY <1>10, <2>1
<1>13. Max(S) \in S /\ \A s \in S : s <= Max(S)
  <2>1. Max(S) = CHOOSE x \in S : \A y \in S : x >= y
    BY DEF Max
  <2>2. \E x \in S : \A y \in S : x >= y
    <3>1. \A y \in S : h[j].seq >= y
      BY <1>4, <1>11
    <3>. QED
      BY <1>11, <3>1
  <2>3. Max(S) \in S /\ \A y \in S : Max(S) >= y
    BY <2>1, <2>2
  <2>. QED
    BY <1>4, <2>3
<1>. QED
  BY <1>4, <1>12, <1>13 DEF S, k, e

(* What a report holds.                                                     *)
LEMMA ReportIs ==
    ASSUME FleetIInv, NEW b \in Bots, NEW e, NEW s \in Int
    PROVE  <<e, s>> \in report(bot[b]) <=>
               /\ <<e, s>> \notin bot[b].seen
               /\ \E lo, hi \in bot[b].seen : lo[1] = e /\ hi[1] = e /\ lo[2] < s /\ s < hi[2]
<1> DEFINE k == bot[b]
           S(f) == SeqsOf(k, f)
           Holes(f) == {<<f, x>> : x \in ((Min(S(f)) + 1)..(Max(S(f)) - 1)) \ S(f)}
<1>1. report(k) = UNION {Holes(f) : f \in {v[1] : v \in k.seen}}
  BY DEF report
<1>2. \A v \in k.seen : v = <<v[1], v[2]>> /\ v[2] \in Int
  <2>1. k \in BotStates
    BY BotFacts
  <2>. QED
    BY <2>1 DEF BotStates, Versions
<1>3. ASSUME NEW w \in k.seen
      PROVE  /\ S(w[1]) \subseteq Nat
             /\ Min(S(w[1])) \in S(w[1]) /\ \A x \in S(w[1]) : Min(S(w[1])) <= x
             /\ Max(S(w[1])) \in S(w[1]) /\ \A x \in S(w[1]) : x <= Max(S(w[1]))
  BY SeqsEnds
<1>4. \A x : x \in S(e) <=> \E v \in k.seen : v[1] = e /\ v[2] = x
  BY DEF SeqsOf
<1>5. ASSUME <<e, s>> \in report(k)
      PROVE  /\ <<e, s>> \notin k.seen
             /\ \E lo, hi \in k.seen : lo[1] = e /\ hi[1] = e /\ lo[2] < s /\ s < hi[2]
  <2>1. PICK w \in k.seen : <<e, s>> \in Holes(w[1])
    BY <1>1, <1>5
  <2>2. /\ e = w[1] /\ s \notin S(e) /\ s \in (Min(S(e)) + 1)..(Max(S(e)) - 1)
    BY <2>1
  <2>3. Min(S(e)) \in S(e) /\ Max(S(e)) \in S(e) /\ S(e) \subseteq Nat
    BY <1>3, <2>2
  <2> HIDE DEF k, S, Holes
  <2>4. Min(S(e)) < s /\ s < Max(S(e))
    BY <2>2, <2>3
  <2>5. PICK lo \in k.seen : lo[1] = e /\ lo[2] = Min(S(e))
    BY <1>4, <2>3
  <2>6. PICK hi \in k.seen : hi[1] = e /\ hi[2] = Max(S(e))
    BY <1>4, <2>3
  <2>7. <<e, s>> \notin k.seen
    <3>1. <<e, s>>[1] = e /\ <<e, s>>[2] = s
      OBVIOUS
    <3>. QED
      BY <1>4, <2>2, <3>1
  <2>. QED
    BY <2>4, <2>5, <2>6, <2>7
<1>6. ASSUME <<e, s>> \notin k.seen, NEW lo \in k.seen, NEW hi \in k.seen,
             lo[1] = e, hi[1] = e, lo[2] < s, s < hi[2]
      PROVE  <<e, s>> \in report(k)
  <2>1. s \notin S(e)
    <3> SUFFICES ASSUME s \in S(e) PROVE FALSE
      OBVIOUS
    <3>1. PICK v \in k.seen : v[1] = e /\ v[2] = s
      BY <1>4
    <3>2. v = <<e, s>>
      BY <1>2, <3>1
    <3>. QED
      BY <1>6, <3>1, <3>2
  <2>2. lo[2] \in S(e) /\ hi[2] \in S(e)
    BY <1>4, <1>6
  <2>3. /\ Min(S(e)) \in S(e) /\ Max(S(e)) \in S(e) /\ S(e) \subseteq Nat
        /\ Min(S(e)) <= lo[2] /\ hi[2] <= Max(S(e))
    BY <1>3, <1>6, <2>2
  <2>4. s \in (Min(S(e)) + 1)..(Max(S(e)) - 1)
    <3> DEFINE a == Min(S(e))
               z == Max(S(e))
               l == lo[2]
               r == hi[2]
    <3>1. a \in Int /\ z \in Int /\ l \in Int /\ r \in Int /\ a <= l /\ r <= z /\ l < s /\ s < r
      BY <1>2, <1>6, <2>3
    <3> HIDE DEF a, z, l, r
    <3>2. s \in (a + 1)..(z - 1)
      BY <3>1
    <3>. QED
      BY <3>2 DEF a, z
  <2>5. <<e, s>> \in Holes(e)
    BY <2>1, <2>4
  <2> HIDE DEF Holes
  <2>. QED
    BY <1>1, <1>6, <2>5
<1>. QED
  BY <1>5, <1>6

(* A gap is a commit that never came.                                       *)
LEMMA GapsAreLosses ==
    ASSUME FleetIInv
    PROVE  GapIsALoss
<1> SUFFICES ASSUME NEW b \in Bots
             PROVE  report(bot[b]) =
                        {v \in Committed \ bot[b].got :
                            \E lo, hi \in bot[b].got :
                                lo[1] = v[1] /\ hi[1] = v[1] /\ lo[2] < v[2] /\ v[2] < hi[2]}
  BY DEF GapIsALoss
<1> DEFINE k == bot[b]
           h == commits
           Lost(v) == \E lo, hi \in k.got :
                          lo[1] = v[1] /\ hi[1] = v[1] /\ lo[2] < v[2] /\ v[2] < hi[2]
<1>1. k.seen = k.got /\ \A v \in k.got : \E i \in 1..Len(h) : v = Version(h[i])
  BY DEF FleetIInv, HeardOf, Accounted
<1>2. IsLog(h) /\ \A i \in 1..Len(h) : h[i] \in PushedTimelines
  BY DEF FleetIInv, IsLog
<1>3. ASSUME NEW v \in report(k) PROVE v \in Committed \ k.got /\ Lost(v)
  <2>1. PICK e, s \in Int : v = <<e, s>>
    <3>1. PICK w \in k.seen : v \in {<<w[1], x>> :
              x \in ((Min(SeqsOf(k, w[1])) + 1)..(Max(SeqsOf(k, w[1])) - 1)) \ SeqsOf(k, w[1])}
      BY <1>3 DEF report
    <3>2. PICK x \in (Min(SeqsOf(k, w[1])) + 1)..(Max(SeqsOf(k, w[1])) - 1) : v = <<w[1], x>>
      BY <3>1
    <3>3. x \in Int /\ w[1] \in Int
      <4>1. k \in BotStates
        BY BotFacts
      <4>2. w \in Versions
        BY <4>1 DEF BotStates
      <4>3. Min(SeqsOf(k, w[1])) \in Int /\ Max(SeqsOf(k, w[1])) \in Int
        BY SeqsEnds
      <4> HIDE DEF k
      <4>. QED
        BY <4>2, <4>3 DEF Versions
    <3>. QED
      BY <3>2, <3>3
  <2>2. /\ v \notin k.seen
        /\ \E lo, hi \in k.seen : lo[1] = e /\ hi[1] = e /\ lo[2] < s /\ s < hi[2]
    BY <1>3, <2>1, ReportIs
  <2>3. PICK lo, hi \in k.seen : lo[1] = e /\ hi[1] = e /\ lo[2] < s /\ s < hi[2]
    BY <2>2
  <2>4. PICK i \in 1..Len(h) : hi = Version(h[i])
    BY <1>1
  <2>5. PICK j \in 1..Len(h) : lo = Version(h[j])
    BY <1>1
  <2>6. h[i].storeEpoch = e /\ s \in 0..h[i].seq
    BY <1>2, <2>3, <2>4, <2>5 DEF Version, PushedTimelines
  <2>7. PICK m \in 1..Len(h) : h[m].storeEpoch = e /\ h[m].seq = s
    BY <1>2, <2>6 DEF IsLog
  <2>8. v \in Committed
    BY <2>1, <2>7 DEF Committed, Version
  <2>9. v[1] = e /\ v[2] = s
    BY <2>1
  <2> HIDE DEF k
  <2>. QED
    BY <1>1, <2>2, <2>3, <2>8, <2>9
<1>4. ASSUME NEW v \in Committed \ k.got, Lost(v) PROVE v \in report(k)
  <2>1. PICK i \in 1..Len(h) : v = Version(h[i])
    BY DEF Committed
  <2>2. v = <<v[1], v[2]>> /\ v[2] \in Int
    BY <1>2, <2>1 DEF Version, PushedTimelines
  <2>3. v \notin k.seen /\ \E lo, hi \in k.seen : lo[1] = v[1] /\ hi[1] = v[1] /\ lo[2] < v[2] /\ v[2] < hi[2]
    BY <1>1, <1>4
  <2>. QED
    BY <2>2, <2>3, ReportIs
<1> HIDE DEF k, Lost
<1>5. report(k) = {v \in Committed \ k.got : Lost(v)}
  BY <1>3, <1>4
<1>. QED
  BY <1>5 DEF k, Lost

(* With no gap and some bot at both ends of every epoch, every commit was   *)
(* got by somebody.                                                         *)
LEMMA NothingMissed ==
    ASSUME FleetIInv, \A b \in Bots : report(bot[b]) = {}, Followed, NEW i \in 1..Len(commits)
    PROVE  \E b \in Bots : Version(commits[i]) \in bot[b].got
<1> DEFINE h == commits
           e == h[i].storeEpoch
           v == Version(h[i])
           S == {w \in Committed : w[1] = e}
           I == {j \in 1..Len(h) : h[j].storeEpoch = e}
<1>1. IsLog(h) /\ Len(h) \in Nat /\ \A j \in 1..Len(h) : h[j] \in PushedTimelines
  BY DEF FleetIInv, IsLog
<1>2. /\ v[1] = e /\ v[2] = h[i].seq /\ v \in Committed /\ v \in S /\ e \in {w[1] : w \in Committed}
  BY DEF Version, Committed
<1>3. \A w \in S : \E j \in I : w = Version(h[j]) /\ w[2] = h[j].seq
  <2> SUFFICES ASSUME NEW w \in S PROVE \E j \in I : w = Version(h[j]) /\ w[2] = h[j].seq
    OBVIOUS
  <2>1. PICK j \in 1..Len(h) : w = Version(h[j])
    BY DEF Committed
  <2>2. w[1] = h[j].storeEpoch /\ w[2] = h[j].seq
    BY <2>1 DEF Version
  <2>. QED
    BY <2>1, <2>2
<1>4. \A j \in I : Version(h[j]) \in S /\ Version(h[j])[2] = h[j].seq /\ h[j].seq \in Nat
  <2> SUFFICES ASSUME NEW j \in I
               PROVE  Version(h[j]) \in S /\ Version(h[j])[2] = h[j].seq /\ h[j].seq \in Nat
    OBVIOUS
  <2>1. Version(h[j]) \in Committed /\ Version(h[j])[1] = e /\ Version(h[j])[2] = h[j].seq
    BY DEF Committed, Version
  <2>2. h[j].seq \in Nat
    BY <1>1 DEF PushedTimelines
  <2>. QED
    BY <2>1, <2>2
<1>5. \A j \in I, m \in I : j <= m => h[j].seq <= h[m].seq
  <2> SUFFICES ASSUME NEW j \in I, NEW m \in I, j <= m PROVE h[j].seq <= h[m].seq
    OBVIOUS
  <2>1. CASE j = m
    BY <1>4, <2>1
  <2>2. CASE j # m
    <3>1. Older(h[j], h[m])
      BY <1>1, <2>2 DEF IsLog
    <3>2. h[j].storeEpoch = e /\ h[m].storeEpoch = e /\ h[j].storeEpoch \in Nat
          /\ h[j].seq \in Nat /\ h[m].seq \in Nat
      BY <1>1, <1>4 DEF PushedTimelines
    <3> HIDE DEF h, e, I
    <3>. QED
      BY <3>1, <3>2 DEF Older
  <2>. QED
    BY <2>1, <2>2
<1>6. i \in I /\ I \subseteq 1..Len(h)
  OBVIOUS
<1>7. PICK first \in I : h[first].seq = 0
  <2>1. 0 \in 0..h[i].seq
    BY <1>4, <1>6
  <2>2. PICK j \in 1..Len(h) : h[j].storeEpoch = h[i].storeEpoch /\ h[j].seq = 0
    BY <1>1, <2>1 DEF IsLog
  <2>. QED
    BY <2>2
<1>8. PICK last \in I : \A j \in I : j <= last
  <2> HIDE DEF I, h
  <2>. QED
    BY <1>1, <1>6, HasLast
<1>9. PICK b \in Bots : \A w \in S :
          (\A x \in S : w[2] <= x[2]) \/ (\A x \in S : w[2] >= x[2]) => w \in bot[b].got
  BY <1>2 DEF Followed
<1> DEFINE lo == Version(h[first])
           hi == Version(h[last])
<1>10. lo \in S /\ hi \in S /\ lo[2] = 0 /\ hi[2] = h[last].seq /\ lo[1] = e /\ hi[1] = e
  <2>1. lo \in S /\ hi \in S /\ lo[2] = h[first].seq /\ hi[2] = h[last].seq
    BY <1>4
  <2>. QED
    BY <1>7, <2>1
<1>11. lo \in bot[b].got
  <2>1. \A x \in S : x[2] \in Nat
    BY <1>3, <1>4
  <2>2. \A x \in S : lo[2] <= x[2]
    BY <1>10, <2>1
  <2> HIDE DEF lo, S
  <2>. QED
    BY <1>9, <1>10, <2>2
<1>12. hi \in bot[b].got
  <2>1. ASSUME NEW x \in S PROVE hi[2] >= x[2]
    <3>1. PICK j \in I : x[2] = h[j].seq
      BY <1>3
    <3>2. h[j].seq <= h[last].seq /\ h[j].seq \in Nat /\ h[last].seq \in Nat
      BY <1>4, <1>5, <1>8
    <3>. QED
      BY <1>10, <3>1, <3>2
  <2> HIDE DEF hi, S
  <2>. QED
    BY <1>9, <1>10, <2>1
<1>13. v \in bot[b].got
  <2> SUFFICES ASSUME v \notin bot[b].got PROVE FALSE
    OBVIOUS
  <2>1. v = <<e, v[2]>> /\ lo = <<e, lo[2]>> /\ hi = <<e, hi[2]>>
    BY <1>6 DEF Version
  <2>2. v[2] # lo[2] /\ v[2] # hi[2]
    BY <1>11, <1>12, <2>1
  <2>3. v[2] \in Nat /\ h[last].seq \in Nat /\ v[2] <= h[last].seq
    BY <1>2, <1>4, <1>5, <1>6, <1>8
  <2>4. lo[2] < v[2] /\ v[2] < hi[2]
    BY <1>10, <2>2, <2>3
  <2>5. v \in report(bot[b])
    <3>1. GapIsALoss
      BY GapsAreLosses
    <3>2. \E x, y \in bot[b].got : x[1] = v[1] /\ y[1] = v[1] /\ x[2] < v[2] /\ v[2] < y[2]
      BY <1>2, <1>10, <1>11, <1>12, <2>4
    <3> HIDE DEF v
    <3>. QED
      BY <1>2, <3>1, <3>2 DEF GapIsALoss
  <2>. QED
    BY <2>5
<1>. QED
  BY <1>13

(* As many versions as commands, and one for every command: one for each.   *)
LEMMA GateIsSound ==
    ASSUME FleetIInv
    PROVE  GateSound
<1> SUFFICES ASSUME Gate, Followed, scripted \subseteq arrived, NEW c \in scripted
             PROVE  Cardinality(CommitsOf(c)) = 1
  BY DEF GateSound
<1> DEFINE h == commits
           n == Len(h)
           V == UNION {bot[b].controlCommits : b \in Bots}
           IsOf(v, d) == \E i \in 1..n : h[i].reason = "seek" /\ h[i].mediaTime = d /\ v = Version(h[i])
           f == [d \in scripted |-> CHOOSE v \in V : IsOf(v, d)]
<1>1. IsLog(h) /\ n \in Nat /\ SeeksServed(h, arrived)
  BY DEF FleetIInv, IsLog
<1>2. ASSUME NEW i \in 1..n, h[i].reason = "seek" PROVE Version(h[i]) \in V
  <2>1. PICK b \in Bots : Version(h[i]) \in bot[b].got
    BY NothingMissed DEF Gate
  <2>2. Version(h[i]) \in bot[b].controlCommits
    <3>1. Accounted(bot[b], h)
      BY DEF FleetIInv, HeardOf
    <3>. QED
      BY <1>2, <2>1, <3>1 DEF Accounted, GotAt
  <2>. QED
    BY <2>2
<1>3. ASSUME NEW v \in V PROVE \E i \in 1..n : h[i].reason = "seek" /\ v = Version(h[i])
  <2>1. PICK b \in Bots : v \in bot[b].controlCommits
    OBVIOUS
  <2>2. Accounted(bot[b], h)
    BY DEF FleetIInv, HeardOf
  <2>. QED
    BY <2>1, <2>2 DEF Accounted
<1>4. IsFiniteSet(V)
  <2> DEFINE g == [i \in 1..n |-> Version(h[i])]
             W == {Version(h[i]) : i \in 1..n}
  <2>1. IsFiniteSet(1..n)
    BY <1>1, FS_Interval
  <2>2. g \in Surjection(1..n, W)
    BY DEF Surjection
  <2>3. IsFiniteSet(W)
    <3> HIDE DEF g, W
    <3>. QED
      BY <2>1, <2>2, FS_Surjection
  <2>4. V \in SUBSET W
    BY <1>3
  <2> HIDE DEF V, W
  <2>. QED
    BY <2>3, <2>4, FS_Subset
<1>5. IsFiniteSet(scripted)
  <2>1. scripted \in SUBSET FleetCmds
    BY DEF FleetIInv, FleetTypeOK
  <2>2. IsFiniteSet(FleetCmds)
    <3>1. fleetScope.cmds \in Int
      BY FleetAssumption DEF FleetIInv, FleetTypeOK
    <3>. QED
      BY <3>1, FS_Interval DEF FleetCmds
  <2>. QED
    BY <2>1, <2>2, FS_Subset
<1>6. ASSUME NEW d \in scripted PROVE f[d] \in V /\ IsOf(f[d], d)
  <2>1. PICK i \in 1..n : h[i].reason = "seek" /\ h[i].mediaTime = d
    BY <1>1 DEF SeeksServed
  <2>2. Version(h[i]) \in V /\ IsOf(Version(h[i]), d)
    BY <1>2, <2>1
  <2>3. f[d] = CHOOSE v \in V : IsOf(v, d)
    OBVIOUS
  <2> HIDE DEF V, IsOf, f
  <2>. QED
    BY <2>2, <2>3
(* A version is of one command only.                                        *)
<1>7. ASSUME NEW v, NEW d, NEW x, IsOf(v, d), IsOf(v, x) PROVE d = x
  BY <1>1, <1>7, VersionsDiffer
<1>8. f \in Injection(scripted, V)
  <2>1. f \in [scripted -> V]
    <3>1. \A d \in scripted : f[d] \in V
      BY <1>6
    <3> HIDE DEF V
    <3>. QED
      BY <3>1
  <2>2. \A d, x \in scripted : f[d] = f[x] => d = x
    <3> HIDE DEF f, IsOf
    <3>. QED
      BY <1>6, <1>7
  <2> HIDE DEF f, V
  <2>. QED
    BY <2>1, <2>2 DEF Injection, IsInjective
<1>9. f \in Surjection(scripted, V)
  <2>1. Cardinality(V) = Cardinality(scripted)
    BY DEF Gate
  <2> HIDE DEF f, V
  <2>. QED
    BY <1>4, <1>8, <2>1, FS_Injection
<1>10. \A v \in V : \E d \in scripted : f[d] = v
  <2> HIDE DEF f, V
  <2>. QED
    BY <1>9 DEF Surjection
<1>11. ASSUME NEW i \in CommitsOf(c) PROVE i \in 1..n /\ Version(h[i]) = f[c]
  <2>1. i \in 1..n /\ h[i].reason = "seek" /\ h[i].mediaTime = c
    BY DEF CommitsOf
  <2>2. Version(h[i]) \in V
    BY <1>2, <2>1
  <2>3. IsOf(Version(h[i]), c)
    BY <2>1
  <2>4. PICK d \in scripted : f[d] = Version(h[i])
    BY <1>10, <2>2
  <2>5. IsOf(f[d], d)
    BY <1>6
  <2> HIDE DEF f, IsOf
  <2>6. d = c
    BY <1>7, <2>3, <2>4, <2>5
  <2>. QED
    BY <2>1, <2>4, <2>6
<1>12. PICK i : i \in CommitsOf(c)
  <2>1. PICK i \in 1..n : h[i].reason = "seek" /\ h[i].mediaTime = c
    BY <1>1 DEF SeeksServed
  <2>. QED
    BY <2>1 DEF CommitsOf
<1>13. \A j \in CommitsOf(c) : j = i
  <2> HIDE DEF f
  <2>. QED
    BY <1>1, <1>11, <1>12, VersionsDiffer
<1>14. CommitsOf(c) = {i}
  BY <1>12, <1>13
<1>. QED
  BY <1>14, FS_Singleton

(* The witness of a swapped pair.                                           *)
LEMMA WitnessesNewest ==
    ASSUME FleetIInv
    PROVE  WitnessIsNewest
<1> DEFINE h == commits
           Seeks(b) == {i \in 1..Len(h) :
                           /\ h[i].reason = "seek" /\ Version(h[i]) \in bot[b].got
                           /\ h[i].storeEpoch = bot[b].timeline.storeEpoch}
<1> SUFFICES ASSUME NEW b \in Bots, Seeks(b) # {}, bot[b].seqReorders = 0
             PROVE  bot[b].lastSeek = h[Max(Seeks(b))].mediaTime
  BY DEF WitnessIsNewest
<1> DEFINE S == Seeks(b)
           m == Max(S)
<1>1. WitnessHolds(bot[b], h) /\ Len(h) \in Nat
  BY DEF FleetIInv, HeardOf, IsLog
<1>2. \A i : i \in S <=> i \in 1..Len(h) /\ SeekGotAt(bot[b], h, i)
  BY DEF SeekGotAt, GotAt
<1>3. S # {} /\ S \subseteq 1..Len(h)
  OBVIOUS
<1>4. m \in S /\ \A j \in S : j <= m
  <2> HIDE DEF S, h
  <2>1. PICK x \in S : \A y \in S : y <= x
    BY <1>1, <1>3, HasLast
  <2>2. \A y \in S : y \in Int
    BY <1>3
  <2>3. \A y \in S : x >= y
    BY <2>1, <2>2
  <2>4. m = CHOOSE z \in S : \A y \in S : z >= y
    BY DEF Max
  <2>5. m \in S /\ \A y \in S : m >= y
    BY <2>3, <2>4
  <2>. QED
    BY <2>2, <2>5
<1> HIDE DEF S, m
<1>5. m \in 1..Len(h) /\ SeekGotAt(bot[b], h, m)
      /\ \A j \in 1..Len(h) : SeekGotAt(bot[b], h, j) => j <= m
  BY <1>2, <1>4
<1>6. bot[b].lastSeek = h[m].mediaTime
  BY <1>1, <1>5 DEF WitnessHolds
<1>. QED
  BY <1>6 DEF m, S

LEMMA FleetStepKept ==
    ASSUME FleetIInv, FleetNext
    PROVE  FleetIInv'
<1>1. ASSUME NEW b \in Bots,
             \/ Join(b) \/ ServeJoin(b) \/ JoinAnswer(b)
             \/ GoesQuiet(b) \/ Drop(b) \/ Reconnect(b)
             \/ \E p \in bot[b].pending : JoinTimeout(b, p)
             \/ \E v \in 1..Len(commits) : Push(b, v)
      PROVE  FleetIInv'
  BY <1>1, JoinKept, ServeJoinKept, JoinAnswerKept, GoesQuietKept, DropKept, ReconnectKept,
     JoinTimeoutKept, PushKept
<1>2. CASE \E c \in FleetCmds : sendIntent(c)
  BY <1>2, sendIntentKept
<1>3. CASE \E c, d \in FleetCmds : sendIntentSwappedPair(c, d)
  BY <1>3, sendIntentSwappedPairKept
<1>4. CASE ServeControl \/ Sweep \/ Reborn
  BY <1>4, ServeControlKept, SweepKept, RebornKept
<1>. QED
  BY <1>1, <1>2, <1>3, <1>4 DEF FleetNext

(* The fleet's verdicts follow from what happened, in a run of any length   *)
(* with any number of bots and commands, over a deployment that loses,      *)
(* repeats and reorders what it broadcasts (bot-client.ts, run-bots.ts).    *)
THEOREM FleetSafety == FleetInit /\ [][FleetNext]_fleetVars => []FleetSound
<1>1. FleetIInv /\ [FleetNext]_fleetVars => FleetIInv'
  <2> SUFFICES ASSUME FleetIInv, [FleetNext]_fleetVars PROVE FleetIInv'
    OBVIOUS
  <2>1. CASE UNCHANGED fleetVars
    BY <2>1 DEF fleetVars, FleetIInv, FleetTypeOK, ControlsOfNow, Bots, SentControls, FleetCmds
  <2>2. CASE FleetNext
    BY <2>2, FleetStepKept
  <2>. QED
    BY <2>1, <2>2
<1>2. FleetIInv => FleetSound
  <2> SUFFICES ASSUME FleetIInv PROVE FleetSound
    OBVIOUS
  <2>1. GateSound /\ GapIsALoss /\ WitnessIsNewest
    BY GateIsSound, GapsAreLosses, WitnessesNewest
  <2>2. DeafIsCounted
    BY DEF FleetIInv, JoinsWell, DeafIsCounted, Up
  <2>3. FleetNoLateControl
    BY DEF FleetIInv, ControlsOfNow, FleetNoLateControl
  <2>. QED
    BY <2>1, <2>2, <2>3 DEF FleetSound
<1>. QED
  BY <1>1, <1>2, FleetInitial, PTL

-----------------------------------------------------------------------------
(* The harness can be believed: what its bots report, and the player they   *)
(* steer (Fleet, SimPlayer).                                                *)
THEOREM HarnessSafety ==
    FleetInit /\ [][FleetNext]_fleetVars /\ SimInit /\ [][SimNext]_simVars => []HarnessSound
<1>1. FleetSound /\ SimSound => HarnessSound
  BY DEF HarnessSound
<1>. QED
  BY <1>1, FleetSafety, SimSafety, PTL

=============================================================================
