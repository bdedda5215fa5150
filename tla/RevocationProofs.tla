------------------------- MODULE RevocationProofs -------------------------
(***************************************************************************)
(* Proofs about Revocation and Relay for every value of their constants:   *)
(* no instance forgets a revocation, and a rotation neither doubles a      *)
(* session nor carries it past a sign-out everywhere; in a relay nobody    *)
(* sends on a queue that was closed, no timeline is queued for a           *)
(* connection that is in another room, and a refresh loses no revocation   *)
(* it was told of.                                                         *)
(***************************************************************************)
EXTENDS Revocation, Relay, SequenceTheorems, TLAPS

-----------------------------------------------------------------------------
(* The inductive invariant.                                                 *)

(* A grant that rotates a token does not outclaim it.                       *)
Descends(g) ==
    g # NotMinted /\ g.parent # NoParent =>
        /\ minted[g.parent] # NotMinted
        /\ g.ver <= minted[g.parent].ver

TokensDescend == \A t \in Tokens : Descends(minted[t])
GrantsDescend == \A i \in Instances : \A k \in tasks[i] : Descends(k.grant)

(* A refresh in flight knows where it runs, and mints at a version the      *)
(* token it replaces could claim.                                           *)
RotationInFlight ==
    \A u \in Tabs : rotation[u].pc # "idle" =>
        /\ rotation[u].at \in Instances
        /\ rotation[u].token \in Tokens
        /\ minted[rotation[u].token] # NotMinted
        /\ rotation[u].ver <= minted[rotation[u].token].ver

(* Whatever anybody is yet to hear, Postgres knows.                         *)
InDb(k) == Covers(db, k)
NewsFromDb == \A r \in Receivers : \A event \in news[r] : InDb(event)
TasksFromDb == \A i \in Instances : \A k \in tasks[i] : InDb(k.event)

(* What the queries of a reload bring: what they have read, and for those   *)
(* that have not run yet what Postgres has.                                 *)
Loading(i) ==
    [tokens |-> IF "tokens" \in reload[i].left THEN db.tokens
                                               ELSE reload[i].read.tokens,
     version |-> IF "version" \in reload[i].left THEN db.version
                                                 ELSE reload[i].read.version]

(* An instance knows what it was told and what its last load began from,    *)
(* and so will it once the reload in flight replaces what it knows.         *)
Remembers(i) ==
    /\ InDb(told[i])
    /\ Covers(snap[i], told[i])
    /\ i \in loaded => Covers(snap[i], covered[i])
    /\ reload[i].pc = "reading" =>
          /\ Covers(Merge(Loading(i), pending[i]), told[i])
          /\ Covers(Loading(i), reload[i].from)

KnowledgeInv ==
    /\ NewsFromDb
    /\ TasksFromDb
    /\ \A i \in Instances : Remembers(i)

SessionInv ==
    /\ TokensDescend
    /\ GrantsDescend
    /\ RotationInFlight
    /\ RotatedOnce

IInv ==
    /\ TypeOK
    /\ SessionInv
    /\ KnowledgeInv

-----------------------------------------------------------------------------
(* What is known, and how it grows.                                         *)

(* Merging keeps the type and loses nothing.                                *)
LEMMA MergeFacts ==
    ASSUME NEW a \in Knowledge, NEW b \in Knowledge
    PROVE  /\ Merge(a, b) \in Knowledge
           /\ Merge(a, b).tokens = a.tokens \cup b.tokens
           /\ Merge(a, b).version >= a.version
           /\ Merge(a, b).version >= b.version
           /\ Merge(a, b).version \in {a.version, b.version}
BY RevocationAssumption DEF Merge, Knowledge

LEMMA KnowledgeTypes ==
    /\ Nothing \in Knowledge
    /\ \A t \in Tokens : Token(t) \in Knowledge
    /\ \A v \in 0..MaxVersion : User(v) \in Knowledge
BY RevocationAssumption DEF Knowledge, Nothing, Token, User

(* Knowing all that b knows is knowing all that c knows, if b does.         *)
LEMMA CoversTransitive ==
    ASSUME NEW a \in Knowledge, NEW b \in Knowledge, NEW c \in Knowledge,
           Covers(a, b), Covers(b, c)
    PROVE  Covers(a, c)
BY RevocationAssumption DEF Covers, Knowledge

LEMMA CoversMerge ==
    ASSUME NEW a \in Knowledge, NEW b \in Knowledge, NEW c \in Knowledge
    PROVE  /\ Covers(a, a)
           /\ Covers(a, Nothing)
           /\ Covers(Merge(a, b), a)
           /\ Covers(Merge(a, b), b)
           /\ Covers(a, b) /\ Covers(a, c) => Covers(a, Merge(b, c))
           /\ Covers(a, b) => Covers(Merge(a, c), Merge(b, c))
<1>1. /\ Merge(a, b).tokens = a.tokens \cup b.tokens
      /\ Merge(a, b).version >= a.version
      /\ Merge(a, b).version >= b.version
      /\ Merge(a, b) \in Knowledge
  BY MergeFacts
<1>2. /\ Merge(b, c).tokens = b.tokens \cup c.tokens
      /\ Merge(b, c).version \in {b.version, c.version}
  BY MergeFacts
<1>3. /\ Merge(a, c).tokens = a.tokens \cup c.tokens
      /\ Merge(a, c).version >= a.version
      /\ Merge(a, c).version >= c.version
      /\ Merge(a, c) \in Knowledge
  BY MergeFacts
<1> QED
  BY <1>1, <1>2, <1>3, RevocationAssumption DEF Covers, Knowledge, Nothing

-----------------------------------------------------------------------------
(* Types.                                                                   *)

(* Overwriting fields keeps the kind of a record.                           *)
LEMMA RecordKinds ==
    /\ NoRotation \in Rotation
    /\ NoReload \in Reload
    /\ \A x \in Rotation : [x EXCEPT !.pc = "claim"] \in Rotation
    /\ \A x \in Reload, k \in Knowledge, part \in {"tokens", "version"} :
          [x EXCEPT !.left = @ \ {part}, !.read = k] \in Reload
    /\ \A x \in Knowledge : [NoReload EXCEPT !.pc = "mirroring", !.read = x]
                               \in Reload
<1>1. Nothing \in Knowledge
  BY KnowledgeTypes
<1>2. NoRotation \in Rotation
  BY RevocationAssumption DEF NoRotation, Rotation
<1>3. NoReload \in Reload
  BY <1>1 DEF NoReload, Reload
<1>4. ASSUME NEW x \in Rotation PROVE [x EXCEPT !.pc = "claim"] \in Rotation
  BY DEF Rotation
<1>5. ASSUME NEW x \in Reload, NEW k \in Knowledge, NEW part \in {"tokens", "version"}
      PROVE  [x EXCEPT !.left = @ \ {part}, !.read = k] \in Reload
  BY DEF Reload
<1>6. ASSUME NEW x \in Knowledge
      PROVE  [NoReload EXCEPT !.pc = "mirroring", !.read = x] \in Reload
  BY <1>3 DEF Reload
<1> QED
  BY <1>2, <1>3, <1>4, <1>5, <1>6

LEMMA InitTypes == Init => TypeOK
<1> SUFFICES ASSUME Init PROVE TypeOK
  OBVIOUS
<1>1. Nothing \in Knowledge
  BY KnowledgeTypes
<1>2. scope.mishaps \in Nat
  BY RevocationAssumption DEF Init
<1> QED
  BY <1>1, <1>2, RevocationAssumption
  DEF Init, TypeOK, NoReload, NoRotation, Receivers, Grants, Task, Reload, Rotation

LEMMA RememberTypes ==
    ASSUME TypeOK, NEW i \in Instances, NEW e \in Knowledge, Remember(i, e)
    PROVE  /\ snap' \in [Instances -> Knowledge]
           /\ pending' \in [Instances -> Knowledge]
           /\ told' \in [Instances -> Knowledge]
<1>1. /\ Merge(snap[i], e) \in Knowledge
      /\ Merge(pending[i], e) \in Knowledge
      /\ Merge(told[i], e) \in Knowledge
  BY MergeFacts DEF TypeOK
<1> QED
  BY <1>1 DEF Remember, TypeOK

LEMMA RecordTypes ==
    ASSUME TypeOK, NEW i \in Instances, NEW e \in Knowledge, NEW g \in Grants,
           Record(i, e, g)
    PROVE  /\ db' \in Knowledge
           /\ snap' \in [Instances -> Knowledge]
           /\ pending' \in [Instances -> Knowledge]
           /\ told' \in [Instances -> Knowledge]
           /\ tasks' \in [Instances -> SUBSET Task]
<1>1. db' \in Knowledge
  BY MergeFacts DEF TypeOK, Record
<1>2. [event |-> e, pc |-> "mirror", grant |-> g] \in Task
  BY DEF Task
<1>3. tasks' \in [Instances -> SUBSET Task]
  BY <1>2 DEF Record, TypeOK
<1> QED
  BY <1>1, <1>3, RememberTypes DEF Record

LEMMA MintTypes ==
    ASSUME TypeOK, NEW g \in Grants, Mint(g)
    PROVE  minted' \in [Tokens -> Grants]
BY DEF Mint, TypeOK

(* A token that is accepted claims a version.                               *)
LEMMA ClaimIsNat ==
    ASSUME TypeOK, NEW t \in Tokens, minted[t] # NotMinted
    PROVE  minted[t].ver \in 0..MaxVersion
BY DEF TypeOK, Grants

LEMMA TypeStep ==
    ASSUME TypeOK, RotationInFlight, [Next]_vars
    PROVE  TypeOK'
<1> USE RevocationAssumption
<1>types. /\ db \in Knowledge
          /\ MaxVersion \in Nat
          /\ scope.mishaps \in Nat
          /\ \A t \in Tokens : Token(t) \in Knowledge
          /\ \A v \in 0..MaxVersion : User(v) \in Knowledge
          /\ Nothing \in Knowledge
          /\ NotMinted \in Grants
  BY KnowledgeTypes DEF TypeOK, Grants
<1>scope. CASE scope' = scope /\ Step
  <2>1. ASSUME SignIn PROVE TypeOK'
    <3>1. [ver |-> db.version, parent |-> NoParent] \in Grants
      BY <1>types DEF Grants, Knowledge
    <3> QED
      BY <2>1, <3>1, MintTypes, <1>scope
      DEF TypeOK, SignIn, cacheVars, connVars, histVars
  <2>2. ASSUME NEW i \in Instances, NEW t \in Tokens, Logout(i, t) PROVE TypeOK'
    BY <2>2, <1>types, RecordTypes, <1>scope
    DEF TypeOK, Logout, tokenVars, connVars
  <2>3. ASSUME NEW i \in Instances, NEW t \in Tokens, LogoutAll(i, t) PROVE TypeOK'
    <3>1. User(db.version + 1) \in Knowledge
      BY <2>3, <1>types DEF LogoutAll, Knowledge
    <3> QED
      BY <2>3, <3>1, <1>types, RecordTypes, <1>scope
      DEF TypeOK, LogoutAll, tokenVars, connVars
  <2>4. ASSUME NEW i \in Instances, NEW t \in Tokens, SetPassword(i, t) PROVE TypeOK'
    <3>1. db.version + 1 \in 0..MaxVersion
      BY <2>4, <1>types DEF SetPassword, Knowledge
    <3>2. [ver |-> db.version + 1, parent |-> NoParent] \in Grants
      BY <3>1 DEF Grants
    <3> QED
      BY <2>4, <3>1, <3>2, <1>types, RecordTypes, <1>scope
      DEF TypeOK, SetPassword, tokenVars, connVars
  <2>5. ASSUME NEW i \in Instances, NEW t \in Tokens, Connect(i, t) PROVE TypeOK'
    BY <2>5, <1>scope
    DEF TypeOK, Connect, tokenVars, cacheVars, histVars, Receivers
  <2>6. ASSUME NEW i \in Instances, NEW k, MirrorEvent(i, k) PROVE TypeOK'
    <3>1. k \in Task /\ k.event \in Knowledge
      BY <2>6 DEF MirrorEvent, TypeOK, Task
    <3>2. [k EXCEPT !.pc = "announce"] \in Task
      BY <3>1 DEF Task
    <3>3. tasks' \in [Instances -> SUBSET Task]
      BY <2>6, <3>2 DEF MirrorEvent, TypeOK
    <3>4. mirror' \in Knowledge /\ mishaps' \in 0..scope.mishaps
      BY <2>6, <3>1, <1>types DEF MirrorEvent, TypeOK, Knowledge, Mishap
    <3> QED
      BY <2>6, <3>3, <3>4, <1>scope
      DEF TypeOK, MirrorEvent, tokenVars, cacheVars, connVars, histVars
  <2>7. ASSUME NEW i \in Instances, NEW k, Announce(i, k) PROVE TypeOK'
    <3>1. k \in Task /\ k.event \in Knowledge /\ k.grant \in Grants
      BY <2>7 DEF Announce, TypeOK, Task
    <3>2. minted' \in [Tokens -> Grants]
      BY <2>7, <3>1, MintTypes DEF Announce
    <3>3. news' \in [Receivers -> SUBSET Knowledge]
      BY <2>7, <3>1 DEF Announce, TypeOK
    <3>4. socks' \in [Receivers -> SUBSET Tokens]
      BY <2>7 DEF Announce, TypeOK, Evicted
    <3>5. tasks' \in [Instances -> SUBSET Task]
      BY <2>7 DEF Announce, TypeOK
    <3> QED
      BY <2>7, <3>2, <3>3, <3>4, <3>5, <1>scope
      DEF TypeOK, Announce, cacheVars, histVars
  <2>8. ASSUME NEW i \in Instances, NEW e, ApplyEvent(i, e) PROVE TypeOK'
    <3>1. e \in Knowledge
      BY <2>8 DEF ApplyEvent, TypeOK, Receivers
    <3>2. news' \in [Receivers -> SUBSET Knowledge]
      BY <2>8 DEF ApplyEvent, TypeOK
    <3>3. socks' \in [Receivers -> SUBSET Tokens]
      BY <2>8 DEF ApplyEvent, TypeOK, Evicted
    <3> QED
      BY <2>8, <3>1, <3>2, <3>3, RememberTypes, <1>scope
      DEF TypeOK, ApplyEvent, tokenVars
  <2>9. ASSUME NEW u \in Tabs, NEW i \in Instances, NEW t \in Tokens,
               RefreshStart(u, i, t)
        PROVE  TypeOK'
    BY <2>9, <1>types, <1>scope
    DEF TypeOK, RefreshStart, Rotation, tokenVars, cacheVars, connVars, histVars,
        Knowledge
  <2>10. ASSUME NEW u \in Tabs, RefreshCheck(u) PROVE TypeOK'
    <3>1. /\ [rotation[u] EXCEPT !.pc = "claim"] \in Rotation
          /\ NoRotation \in Rotation
      BY <1>types, RecordKinds DEF TypeOK
    <3>2. rotation' \in [Tabs -> Rotation]
      BY <2>10, <3>1 DEF TypeOK, RefreshCheck
    <3> QED
      BY <2>10, <3>2, <1>scope
      DEF TypeOK, RefreshCheck, tokenVars, cacheVars, connVars, histVars
  <2>11. ASSUME NEW u \in Tabs, RefreshClaim(u) PROVE TypeOK'
    <3> DEFINE t == rotation[u].token
               v == rotation[u].ver
               i == rotation[u].at
    <3>1. t \in Tokens /\ v \in 0..MaxVersion /\ i \in Instances
      BY <2>11 DEF RefreshClaim, RotationInFlight, TypeOK, Rotation
    <3>2. ClaimAndMint(u, t, v)
      BY <2>11 DEF RefreshClaim
    <3>3. [ver |-> v, parent |-> t] \in Grants
      BY <3>1 DEF Grants
    <3>4. rotation' \in [Tabs -> Rotation]
      BY <3>2, RecordKinds DEF ClaimAndMint, TypeOK
    <3>5. wins' \in [Tokens -> Nat]
      BY <3>2 DEF ClaimAndMint, TypeOK
    <3> HIDE DEF t, v, i
    <3>6. /\ db' \in Knowledge
          /\ snap' \in [Instances -> Knowledge]
          /\ pending' \in [Instances -> Knowledge]
          /\ told' \in [Instances -> Knowledge]
          /\ tasks' \in [Instances -> SUBSET Task]
      <4>1. CASE Taken(t)
        BY <4>1, <3>1, <3>2, <1>types, RememberTypes DEF ClaimAndMint, TypeOK, i
      <4>2. CASE ~Taken(t)
        BY <4>2, <3>1, <3>2, <3>3, <1>types, RecordTypes DEF ClaimAndMint, i
      <4> QED
        BY <4>1, <4>2
    <3> QED
      BY <3>2, <3>4, <3>5, <3>6, <1>scope
      DEF TypeOK, ClaimAndMint, tokenVars, connVars
  <2>12. ASSUME NEW i \in Instances, ReloadStart(i) PROVE TypeOK'
    BY <2>12, <1>types, <1>scope
    DEF TypeOK, ReloadStart, Reload, tokenVars, connVars, histVars
  <2>13. ASSUME NEW i \in Instances, NEW part \in {"tokens", "version"},
                ReloadRead(i, part)
         PROVE  TypeOK'
    <3> DEFINE x == [reload[i] EXCEPT !.left = @ \ {part},
                                      !.read = Answer(@, part)]
    <3>1. Answer(reload[i].read, part) \in Knowledge
      BY <1>types DEF TypeOK, Knowledge, Reload, Answer
    <3>2. reload[i] \in Reload
      BY DEF TypeOK
    <3>3. x \in Reload
      BY <3>1, <3>2, RecordKinds
    <3>4. reload \in [Instances -> Reload] /\ reload' = [reload EXCEPT ![i] = x]
      BY <2>13 DEF ReloadRead, TypeOK
    <3> HIDE DEF x
    <3>5. reload' \in [Instances -> Reload]
      BY <3>3, <3>4
    <3> QED
      BY <2>13, <3>5, <1>scope
      DEF TypeOK, ReloadRead, tokenVars, connVars, histVars
  <2>14. ASSUME NEW i \in Instances, ReloadInstall(i) PROVE TypeOK'
    <3>1. Merge(reload[i].read, pending[i]) \in Knowledge
      BY MergeFacts DEF TypeOK, Reload
    <3>2. reload' \in [Instances -> Reload]
      BY <2>14, <3>1, RecordKinds DEF ReloadInstall, TypeOK
    <3>3. /\ snap' \in [Instances -> Knowledge]
          /\ covered' \in [Instances -> Knowledge]
      BY <2>14, <3>1 DEF ReloadInstall, TypeOK, Reload
    <3> QED
      BY <2>14, <3>2, <3>3, <1>scope
      DEF TypeOK, ReloadInstall, tokenVars, connVars
  <2>15. ASSUME NEW i \in Instances, ReloadMirror(i) PROVE TypeOK'
    BY <2>15, <1>types, RecordKinds, <1>scope
    DEF TypeOK, ReloadMirror, ReloadOver, Reload, tokenVars, connVars, histVars
  <2>16. ASSUME NEW i \in Instances, ReloadFails(i) PROVE TypeOK'
    <3>1. mishaps' \in 0..scope.mishaps
      BY <2>16, <1>types DEF ReloadFails, Mishap, TypeOK
    <3>2. /\ reload' \in [Instances -> Reload]
          /\ pending' \in [Instances -> Knowledge]
      BY <2>16, <1>types, RecordKinds DEF ReloadFails, ReloadOver, TypeOK
    <3> QED
      BY <2>16, <3>1, <3>2, <1>scope
      DEF TypeOK, ReloadFails, tokenVars, connVars, histVars
  <2>17. ASSUME NEW i \in Instances, Restart(i) PROVE TypeOK'
    <3>1. rotation' \in [Tabs -> Rotation]
      BY <2>17, RecordKinds DEF Restart, TypeOK
    <3>2. mishaps' \in 0..scope.mishaps
      BY <2>17, <1>types DEF Restart, TypeOK, Mishap
    <3>4. /\ news' \in [Receivers -> SUBSET Knowledge]
          /\ socks' \in [Receivers -> SUBSET Tokens]
          /\ tasks' \in [Instances -> SUBSET Task]
      BY <2>17 DEF Restart, TypeOK
    <3>3. reload' \in [Instances -> Reload]
      BY <2>17, RecordKinds DEF Restart, ReloadOver, TypeOK
    <3> QED
      BY <2>17, <3>1, <3>2, <3>3, <3>4, <1>types, <1>scope
      DEF TypeOK, Restart, ReloadOver, tokenVars
  <2>18. ASSUME NEW i \in Instances, ExpirySweep(i) PROVE TypeOK'
    BY <2>18, <1>scope
    DEF TypeOK, ExpirySweep, tokenVars, cacheVars, histVars
  <2>19. ASSUME NEW r \in Relays, NEW t \in Tokens,
                RelayAccept(r, t) \/ RelayRegister(r, t)
         PROVE  TypeOK'
    <3>1. /\ accepting' \in [Relays -> SUBSET Tokens]
          /\ socks' \in [Receivers -> SUBSET Tokens]
      BY <2>19 DEF TypeOK, RelayAccept, RelayRegister
    <3> QED
      BY <2>19, <3>1, <1>scope
      DEF TypeOK, RelayAccept, RelayRegister, tokenVars, cacheVars, histVars
  <2>20. ASSUME NEW r \in Relays, NEW e, RelayHears(r, e) PROVE TypeOK'
    BY <2>20, <1>scope
    DEF TypeOK, RelayHears, Evicted, tokenVars, cacheVars, histVars
  <2>21. ASSUME NEW r \in Relays, RelaySweep(r) PROVE TypeOK'
    BY <2>21, <1>scope
    DEF TypeOK, RelaySweep, tokenVars, cacheVars, histVars
  <2>22. ASSUME NEW t \in Tokens, Expire(t) PROVE TypeOK'
    BY <2>22, <1>scope
    DEF TypeOK, Expire, cacheVars, connVars, histVars
  <2>23. ASSUME SweepRows PROVE TypeOK'
    BY <2>23, <1>scope
    DEF TypeOK, SweepRows, Knowledge, tokenVars, cacheVars, connVars, histVars
  <2>24. ASSUME Flush PROVE TypeOK'
    BY <2>24, <1>types, <1>scope
    DEF TypeOK, Flush, Mishap, tokenVars, cacheVars, connVars, histVars
  <2> QED
    BY <1>scope, <2>1, <2>2, <2>3, <2>4, <2>5, <2>6, <2>7, <2>8, <2>9, <2>10,
       <2>11, <2>12, <2>13, <2>14, <2>15, <2>16, <2>17, <2>18, <2>19, <2>20,
       <2>21, <2>22, <2>23, <2>24
    DEF Step, InstanceNext, TaskStep, ReloadStep, RotationNext, RelayNext
<1>stutter. CASE UNCHANGED vars
  BY <1>stutter
  DEF vars, state, TypeOK
<1> QED
  BY <1>scope, <1>stutter DEF Next

-----------------------------------------------------------------------------
(* Sessions.                                                                *)

(* No minted token is ever minted again.                                    *)
MintedKept == \A t \in Tokens : minted[t] # NotMinted => minted'[t] = minted[t]

LEMMA MintKeeps ==
    ASSUME TypeOK, NEW g \in Grants, Mint(g)
    PROVE  /\ MintedKept
           /\ \A t \in Tokens : minted'[t] \in {minted[t], g}
BY DEF Mint, MintedKept, TypeOK

LEMMA DescendsKept ==
    ASSUME MintedKept, NEW g \in Grants, Descends(g)
    PROVE  Descends(g)'
BY DEF MintedKept, Descends, Grants

(* A grant that rotates nothing descends from nothing.                      *)
LEMMA FirstDescends ==
    ASSUME NEW v
    PROVE  /\ Descends([ver |-> v, parent |-> NoParent])
           /\ Descends(NotMinted)
BY DEF Descends

LEMMA SessionUnchanged ==
    ASSUME SessionInv, UNCHANGED <<minted, tasks, rotation, wins, expired, db>>
    PROVE  SessionInv'
BY DEF SessionInv, TokensDescend, GrantsDescend, RotationInFlight, RotatedOnce,
       Descends

(* What no step but a rotation does to the sessions: tokens are not minted  *)
(* again, refreshes in flight go no further, and rows of live tokens stay.  *)
LEMMA SessionSteps ==
    ASSUME TypeOK, TypeOK', SessionInv, MintedKept,
           \A t \in Tokens : minted'[t] = minted[t] \/ Descends(minted'[t]),
           \A i \in Instances : \A k \in tasks'[i] : Descends(k.grant),
           \A u \in Tabs : rotation'[u] \in {rotation[u], NoRotation},
           wins' = wins, expired \subseteq expired',
           db.tokens \ expired' \subseteq db'.tokens
    PROVE  SessionInv'
<1>1. TokensDescend'
  <2> SUFFICES ASSUME NEW t \in Tokens, NEW g, g = minted'[t] PROVE Descends(g)'
    BY DEF TokensDescend
  <2>1. g \in Grants
    BY DEF TypeOK
  <2>2. Descends(g)
    BY DEF SessionInv, TokensDescend
  <2> QED
    BY <2>1, <2>2, DescendsKept
<1>2. GrantsDescend'
  <2> SUFFICES ASSUME NEW i \in Instances, NEW k \in tasks'[i]
               PROVE  Descends(k.grant)'
    BY DEF GrantsDescend, Descends
  <2>1. k.grant \in Grants
    BY DEF TypeOK, Task
  <2> QED
    BY <2>1, DescendsKept
<1>3. RotationInFlight'
  BY DEF SessionInv, RotationInFlight, MintedKept, NoRotation
<1>4. RotatedOnce'
  BY DEF SessionInv, RotatedOnce
<1> QED
  BY <1>1, <1>2, <1>3, <1>4 DEF SessionInv

(* Recording a revocation leaves the sessions in order if what is to be     *)
(* minted for it descends from nothing.                                     *)
LEMMA RecordSession ==
    ASSUME TypeOK, TypeOK', SessionInv, NEW i \in Instances, NEW e \in Knowledge,
           NEW g, Descends(g), Record(i, e, g),
           UNCHANGED <<tokenVars, rotation, wins>>
    PROVE  SessionInv'
<1>1. MintedKept /\ \A t \in Tokens : minted'[t] = minted[t]
  BY DEF MintedKept, tokenVars
<1>2. \A j \in Instances : \A k \in tasks'[j] : Descends(k.grant)
  BY DEF Record, TypeOK, SessionInv, GrantsDescend
<1>3. db.tokens \ expired' \subseteq db'.tokens
  BY MergeFacts DEF Record, TypeOK
<1> QED
  BY <1>1, <1>2, <1>3, SessionSteps DEF tokenVars

LEMMA SessionStep ==
    ASSUME TypeOK, TypeOK', SessionInv, [Next]_vars
    PROVE  SessionInv'
<1> USE RevocationAssumption
<1>types. /\ db \in Knowledge
          /\ \A t \in Tokens : Token(t) \in Knowledge
          /\ \A v \in 0..MaxVersion : User(v) \in Knowledge
          /\ \A v : Descends([ver |-> v, parent |-> NoParent])
          /\ Descends(NotMinted)
  BY KnowledgeTypes, FirstDescends DEF TypeOK
<1>grants. \A i \in Instances : \A k \in tasks[i] : Descends(k.grant)
  BY DEF SessionInv, GrantsDescend
<1>1. ASSUME SignIn PROVE SessionInv'
  <2> DEFINE g == [ver |-> db.version, parent |-> NoParent]
  <2>1. g \in Grants /\ Descends(g) /\ Mint(g)
    BY <1>1, <1>types DEF Grants, Knowledge, SignIn
  <2> HIDE DEF g
  <2>2. /\ MintedKept
        /\ \A t \in Tokens : minted'[t] \in {minted[t], g}
    BY <2>1, MintKeeps
  <2> QED
    BY <1>1, <1>grants, <2>1, <2>2, SessionSteps DEF SignIn, histVars
<1>2. ASSUME NEW i \in Instances, NEW t \in Tokens,
             Logout(i, t) \/ LogoutAll(i, t) \/ SetPassword(i, t)
      PROVE  SessionInv'
  <2>1. PICK e, g : e \in Knowledge /\ Descends(g) /\ Record(i, e, g)
    <3>1. CASE Logout(i, t)
      BY <3>1, <1>types DEF Logout
    <3>2. CASE LogoutAll(i, t)
      <4>1. db.version + 1 \in 0..MaxVersion
        BY <3>2, <1>types DEF LogoutAll, Knowledge
      <4> QED
        BY <3>2, <4>1, <1>types DEF LogoutAll
    <3>3. CASE SetPassword(i, t)
      <4>1. db.version + 1 \in 0..MaxVersion
        BY <3>3, <1>types DEF SetPassword, Knowledge
      <4> QED
        BY <3>3, <4>1, <1>types DEF SetPassword
    <3> QED
      BY <1>2, <3>1, <3>2, <3>3
  <2>2. UNCHANGED <<tokenVars, rotation, wins>>
    BY <1>2 DEF Logout, LogoutAll, SetPassword
  <2> QED
    BY <2>1, <2>2, RecordSession
<1>3. ASSUME NEW i \in Instances, NEW k \in tasks[i], MirrorEvent(i, k)
      PROVE  SessionInv'
  <2>1. \A j \in Instances : \A m \in tasks'[j] : Descends(m.grant)
    <3>1. [k EXCEPT !.pc = "announce"].grant = k.grant
      BY DEF TypeOK, Task
    <3> QED
      BY <1>3, <3>1, <1>grants DEF MirrorEvent, TypeOK
  <2> QED
    BY <1>3, <2>1, SessionSteps DEF MirrorEvent, MintedKept, tokenVars, histVars
<1>4. ASSUME NEW i \in Instances, NEW k \in tasks[i], Announce(i, k)
      PROVE  SessionInv'
  <2>1. k.grant \in Grants /\ Descends(k.grant) /\ Mint(k.grant)
    BY <1>4, <1>grants DEF TypeOK, Task, Announce
  <2>2. /\ MintedKept
        /\ \A t \in Tokens : minted'[t] \in {minted[t], k.grant}
    BY <2>1, MintKeeps
  <2>3. \A j \in Instances : \A m \in tasks'[j] : Descends(m.grant)
    BY <1>4, <1>grants DEF Announce, TypeOK
  <2> QED
    BY <1>4, <2>1, <2>2, <2>3, SessionSteps DEF Announce, histVars
<1>5. ASSUME NEW u \in Tabs, NEW i \in Instances, NEW t \in Tokens,
             RefreshStart(u, i, t)
      PROVE  SessionInv'
  <2>1. UNCHANGED <<minted, tasks, wins, expired, db>>
    BY <1>5 DEF RefreshStart, tokenVars, histVars
  <2>2. RotationInFlight'
    <3>1. minted[t] # NotMinted /\ db.version <= minted[t].ver
      BY <1>5, ClaimIsNat, <1>types DEF RefreshStart, Admitted, Accepted, Knowledge
    <3> QED
      BY <1>5, <3>1, <2>1 DEF RefreshStart, RotationInFlight, SessionInv, TypeOK
  <2> QED
    BY <2>1, <2>2
    DEF SessionInv, TokensDescend, GrantsDescend, RotatedOnce, Descends
<1>6. ASSUME NEW u \in Tabs, RefreshCheck(u) PROVE SessionInv'
  <2>1. UNCHANGED <<minted, tasks, wins, expired, db>>
    BY <1>6 DEF RefreshCheck, tokenVars, histVars
  <2>3. \A v \in Tabs :
           \/ rotation'[v] \in {rotation[v], NoRotation}
           \/ /\ rotation[v].pc # "idle"
              /\ rotation'[v] = [rotation[v] EXCEPT !.pc = "claim"]
    BY <1>6 DEF RefreshCheck, TypeOK
  <2>4. RotationInFlight'
    <3> SUFFICES ASSUME NEW v \in Tabs, rotation'[v].pc # "idle"
                 PROVE  /\ rotation'[v].at \in Instances
                        /\ rotation'[v].token \in Tokens
                        /\ minted[rotation'[v].token] # NotMinted
                        /\ rotation'[v].ver <= minted[rotation'[v].token].ver
      BY <2>1 DEF RotationInFlight
    <3>1. rotation[v] \in Rotation
      BY DEF TypeOK
    <3>2. /\ rotation[v].pc # "idle"
          /\ rotation'[v].at = rotation[v].at
          /\ rotation'[v].token = rotation[v].token
          /\ rotation'[v].ver = rotation[v].ver
      <4>1. CASE rotation'[v] = rotation[v]
        BY <4>1
      <4>2. CASE rotation'[v] = [rotation[v] EXCEPT !.pc = "claim"]
                 /\ rotation[v].pc # "idle"
        BY <4>2, <3>1 DEF Rotation
      <4>3. NoRotation.pc = "idle"
        BY DEF NoRotation
      <4> QED
        BY <2>3, <4>1, <4>2, <4>3
    <3> QED
      BY <3>2 DEF SessionInv, RotationInFlight
  <2> QED
    BY <2>1, <2>4
    DEF SessionInv, TokensDescend, GrantsDescend, RotatedOnce, Descends
<1>7. ASSUME NEW u \in Tabs, RefreshClaim(u) PROVE SessionInv'
  <2> DEFINE t == rotation[u].token
             v == rotation[u].ver
             i == rotation[u].at
             g == [ver |-> v, parent |-> t]
  <2>1. /\ t \in Tokens /\ i \in Instances
        /\ minted[t] # NotMinted /\ v <= minted[t].ver
    BY <1>7 DEF RefreshClaim, SessionInv, RotationInFlight
  <2>2. ClaimAndMint(u, t, v)
    BY <1>7 DEF RefreshClaim
  <2>3. Descends(g)
    BY <2>1 DEF Descends
  <2> HIDE DEF t, v, i
  <2>4. UNCHANGED tokenVars /\ MintedKept
    BY <2>2 DEF ClaimAndMint, tokenVars, MintedKept
  <2>5. \A w \in Tabs : rotation'[w] \in {rotation[w], NoRotation}
    BY <2>2 DEF ClaimAndMint, TypeOK
  <2>6. CASE Taken(t)
    BY <2>2, <2>4, <2>5, <2>6, <1>grants, SessionSteps DEF ClaimAndMint, tokenVars
  <2>7. CASE ~Taken(t)
    <3>1. Record(i, Token(t), g) /\ wins' = [wins EXCEPT ![t] = @ + 1]
      BY <2>2, <2>7 DEF ClaimAndMint, i
    <3> HIDE DEF g
    <3>2. \A j \in Instances : \A k \in tasks'[j] : Descends(k.grant)
      BY <3>1, <2>1, <2>3, <1>grants DEF Record, TypeOK
    <3>3. TokensDescend' /\ GrantsDescend'
      BY <2>4, <3>2 DEF SessionInv, TokensDescend, GrantsDescend, Descends, tokenVars
    <3>4. RotationInFlight'
      BY <2>4, <2>5
      DEF SessionInv, RotationInFlight, NoRotation, tokenVars
    <3>5. db'.tokens = db.tokens \cup {t}
      BY <3>1, <2>1, <1>types, MergeFacts DEF Record, Token
    <3>6. RotatedOnce'
      <4> SUFFICES ASSUME NEW x \in Tokens \ expired
                   PROVE  wins'[x] <= 1 /\ (wins'[x] > 0 => x \in db'.tokens)
        BY <2>4 DEF RotatedOnce, tokenVars
      <4>1. wins[x] <= 1 /\ (wins[x] > 0 => x \in db.tokens) /\ wins[x] \in Nat
        BY DEF SessionInv, RotatedOnce, TypeOK
      <4>2. CASE x = t
        BY <4>1, <4>2, <2>7, <3>1, <3>5 DEF Taken, TypeOK
      <4>3. CASE x # t
        BY <4>1, <4>3, <3>1, <3>5 DEF TypeOK
      <4> QED
        BY <4>2, <4>3
    <3> QED
      BY <3>3, <3>4, <3>6 DEF SessionInv
  <2> QED
    BY <2>6, <2>7
<1>8. ASSUME NEW i \in Instances, Restart(i) PROVE SessionInv'
  <2>1. \A j \in Instances : \A k \in tasks'[j] : Descends(k.grant)
    BY <1>8, <1>grants DEF Restart, TypeOK
  <2>2. \A u \in Tabs : rotation'[u] \in {rotation[u], NoRotation}
    BY <1>8 DEF Restart
  <2> QED
    BY <1>8, <2>1, <2>2, SessionSteps DEF Restart, MintedKept, tokenVars
<1>9. ASSUME SweepRows PROVE SessionInv'
  BY <1>9, <1>grants, SessionSteps
  DEF SweepRows, MintedKept, tokenVars, histVars, TypeOK, Knowledge
<1>10. ASSUME NEW t \in Tokens, Expire(t) PROVE SessionInv'
  BY <1>10, <1>grants, SessionSteps DEF Expire, MintedKept, histVars
<1>11. CASE UNCHANGED <<minted, tasks, rotation, wins, expired, db>>
  BY <1>11, SessionUnchanged
<1>12. ASSUME NEW i \in Instances,
              \/ \E t \in Tokens : Connect(i, t)
              \/ \E e \in news[i] : ApplyEvent(i, e)
              \/ ReloadStep(i) \/ ReloadFails(i) \/ ExpirySweep(i)
       PROVE  UNCHANGED <<minted, tasks, rotation, wins, expired, db>>
  BY <1>12
  DEF Connect, ApplyEvent, ReloadStep, ReloadStart, ReloadRead, ReloadInstall,
      ReloadMirror, ReloadFails, ExpirySweep, tokenVars, histVars
<1>13. ASSUME NEW r \in Relays, RelayNext(r)
       PROVE  UNCHANGED <<minted, tasks, rotation, wins, expired, db>>
  BY <1>13
  DEF RelayNext, RelayAccept, RelayRegister, RelayHears, RelaySweep, tokenVars,
      histVars
<1>14. ASSUME Flush
       PROVE  UNCHANGED <<minted, tasks, rotation, wins, expired, db>>
  BY <1>14 DEF Flush, tokenVars, histVars
<1>15. ASSUME UNCHANGED vars
       PROVE  UNCHANGED <<minted, tasks, rotation, wins, expired, db>>
  BY <1>15 DEF vars, state
<1> QED
  BY <1>1, <1>2, <1>3, <1>4, <1>5, <1>6, <1>7, <1>8, <1>9, <1>10, <1>11, <1>12,
     <1>13, <1>14, <1>15
  DEF Next, Step, InstanceNext, TaskStep, RotationNext

-----------------------------------------------------------------------------
(* Knowledge.                                                               *)

(* Postgres forgets rows of expired tokens only.                            *)
DbGrows ==
    /\ expired \subseteq expired'
    /\ db.tokens \ expired' \subseteq db'.tokens
    /\ db.version <= db'.version

LEMMA CoversKept ==
    ASSUME NEW a \in Knowledge, NEW b \in Knowledge, Covers(a, b), DbGrows
    PROVE  Covers(a, b)'
BY DEF Covers, DbGrows

LEMMA InDbKept ==
    ASSUME db \in Knowledge, db' \in Knowledge, NEW k \in Knowledge, InDb(k), DbGrows
    PROVE  InDb(k)'
BY RevocationAssumption DEF Covers, DbGrows, InDb, Knowledge

LEMMA LoadingType ==
    ASSUME TypeOK, NEW i \in Instances
    PROVE  Loading(i) \in Knowledge
BY DEF TypeOK, Loading, Knowledge, Reload

(* Whatever a reload that did not move would have installed, it will.       *)
LEMMA LoadingGrows ==
    ASSUME TypeOK, TypeOK', DbGrows, NEW i \in Instances, reload'[i] = reload[i],
           NEW k \in Knowledge
    PROVE  /\ Covers(Loading(i), k) => Covers(Loading(i), k)'
           /\ Covers(Merge(Loading(i), pending[i]), k) /\ pending'[i] = pending[i]
                 => Covers(Merge(Loading(i), pending[i]), k)'
<1> DEFINE a == Loading(i)
           b == Loading(i)'
           p == pending[i]
<1>1. a \in Knowledge /\ b \in Knowledge /\ p \in Knowledge
  BY LoadingType DEF TypeOK, Loading, Knowledge, Reload
<1>2. a.tokens \ expired' \subseteq b.tokens /\ a.version <= b.version
  BY RevocationAssumption DEF Loading, DbGrows, TypeOK, Knowledge, Reload
<1>3. /\ Merge(a, p).tokens = a.tokens \cup p.tokens
      /\ Merge(b, p).tokens = b.tokens \cup p.tokens
      /\ Merge(a, p).version \in {a.version, p.version}
      /\ Merge(b, p).version >= b.version
      /\ Merge(b, p).version >= p.version
      /\ Merge(b, p).version \in 0..MaxVersion
      /\ Merge(a, p).version \in 0..MaxVersion
  BY <1>1, MergeFacts DEF Knowledge
<1> HIDE DEF a, b, p
<1>4. Covers(a, k) => k.tokens \ expired' \subseteq b.tokens /\ k.version <= b.version
  BY <1>1, <1>2, RevocationAssumption DEF Covers, DbGrows, Knowledge
<1>5. Covers(Merge(a, p), k) =>
         /\ k.tokens \ expired' \subseteq Merge(b, p).tokens
         /\ k.version <= Merge(b, p).version
  BY <1>1, <1>2, <1>3, RevocationAssumption DEF Covers, DbGrows, Knowledge
<1>6. Covers(a, k) => Covers(Loading(i), k)'
  BY <1>4 DEF Covers, b
<1>7. Covers(Merge(a, p), k) /\ pending'[i] = p => Covers(Merge(Loading(i), pending[i]), k)'
  BY <1>5 DEF Covers, b, Merge
<1> QED
  BY <1>6, <1>7 DEF a, p

(* An instance to which nothing happens.                                    *)
LEMMA RemembersUnchanged ==
    ASSUME TypeOK, TypeOK', DbGrows, NEW i \in Instances, Remembers(i),
           snap'[i] = snap[i], told'[i] = told[i], covered'[i] = covered[i],
           reload'[i] = reload[i], pending'[i] = pending[i],
           i \in loaded' => i \in loaded
    PROVE  Remembers(i)'
<1> DEFINE s == snap[i]
           t == told[i]
           c == covered[i]
           f == reload[i].from
<1>1. s \in Knowledge /\ t \in Knowledge /\ c \in Knowledge /\ f \in Knowledge
  BY DEF TypeOK, Reload
<1> HIDE DEF s, t, c, f
<1>2. InDb(t)'
  BY <1>1, InDbKept DEF Remembers, TypeOK, t
<1>3. Covers(s, t)'
  BY <1>1, CoversKept DEF Remembers, s, t
<1>4. i \in loaded' => Covers(s, c)'
  BY <1>1, CoversKept DEF Remembers, s, c
<1>5. reload'[i].pc = "reading" =>
         /\ Covers(Merge(Loading(i), pending[i]), t)'
         /\ Covers(Loading(i), f)'
  BY <1>1, LoadingGrows DEF Remembers, t, f
<1> QED
  BY <1>2, <1>3, <1>4, <1>5 DEF Remembers, s, t, c, f, InDb, Covers

(* An instance that is told e while the others' news stand.                 *)
LEMMA RemembersTold ==
    ASSUME TypeOK, TypeOK', DbGrows, NEW i \in Instances, Remembers(i),
           NEW e \in Knowledge, InDb(e)', Remember(i, e), expired' = expired,
           loaded' = loaded, covered' = covered, reload' = reload
    PROVE  Remembers(i)'
<1> DEFINE s == snap[i]
           t == told[i]
           c == covered[i]
           p == pending[i]
           l == Loading(i)
           n == Loading(i)'
<1>1. /\ s \in Knowledge /\ t \in Knowledge /\ c \in Knowledge /\ p \in Knowledge
      /\ l \in Knowledge /\ n \in Knowledge /\ db \in Knowledge /\ db' \in Knowledge
  BY LoadingType DEF TypeOK, Loading, Knowledge, Reload
<1>2. /\ snap'[i] = Merge(s, e)
      /\ told'[i] = Merge(t, e)
      /\ refreshing(i) => pending'[i] = Merge(p, e)
  BY DEF Remember, TypeOK
<1>3. /\ Merge(t, e) \in Knowledge /\ Merge(s, e) \in Knowledge
      /\ Merge(p, e) \in Knowledge
      /\ Merge(l, p) \in Knowledge /\ Merge(n, Merge(p, e)) \in Knowledge
      /\ Merge(n, p) \in Knowledge
  BY <1>1, MergeFacts
<1>4. \A a, b : Covers(a, b)' <=> Covers(a, b)
  BY DEF Covers
<1>5. InDb(told[i])'
  <2>1. Covers(db', t) /\ Covers(db', e)
    BY <1>1, <1>4, InDbKept DEF Remembers, InDb, t
  <2>2. Covers(db', Merge(t, e))
    BY <1>1, <2>1, CoversMerge
  <2> QED
    BY <1>2, <1>4, <2>2 DEF InDb
<1>6. Covers(snap[i], told[i])'
  <2>1. Covers(Merge(s, e), Merge(t, e))
    BY <1>1, CoversMerge DEF Remembers, s, t
  <2> QED
    BY <1>2, <1>4, <2>1
<1>7. i \in loaded' => Covers(snap[i], covered[i])'
  <2>1. i \in loaded => Covers(s, c)
    BY DEF Remembers
  <2>2. Covers(Merge(s, e), s)
    BY <1>1, CoversMerge
  <2>3. i \in loaded => Covers(Merge(s, e), c)
    BY <1>1, <1>3, <2>1, <2>2, CoversTransitive
  <2> QED
    BY <1>2, <1>4, <2>3
<1>8. ASSUME reload'[i].pc = "reading"
      PROVE  /\ Covers(Merge(Loading(i), pending[i]), told[i])'
             /\ Covers(Loading(i), reload[i].from)'
  <2>1. /\ Covers(Merge(l, p), t) /\ Covers(l, reload[i].from)
        /\ reload[i].from \in Knowledge
    BY <1>8 DEF Remembers, TypeOK, Reload
  <2>2. refreshing(i)
    BY <1>8 DEF refreshing
  <2>3. Covers(n, reload[i].from)
    BY <1>4, <2>1, LoadingGrows
  <2>4. n.tokens = (IF "tokens" \in reload[i].left THEN db'.tokens
                                                  ELSE reload[i].read.tokens)
        /\ n.version = (IF "version" \in reload[i].left THEN db'.version
                                                      ELSE reload[i].read.version)
    BY DEF Loading
  <2>5. l.tokens \ expired \subseteq n.tokens /\ l.version <= n.version
    BY RevocationAssumption DEF Loading, DbGrows, TypeOK, Knowledge, Reload
  <2> HIDE DEF l, n
  <2>6. Covers(n, l)
    BY <2>5 DEF Covers
  <2>7. Covers(Merge(n, p), t)
    <3>1. Covers(Merge(n, p), Merge(l, p))
      BY <1>1, <2>6, CoversMerge
    <3> QED
      BY <1>1, <1>3, <2>1, <3>1, CoversTransitive
  <2>8. Covers(Merge(n, Merge(p, e)), Merge(n, p)) /\ Covers(Merge(n, Merge(p, e)), e)
    BY <1>1, <1>3, MergeFacts, RevocationAssumption DEF Covers, Knowledge
  <2>9. Covers(Merge(n, Merge(p, e)), Merge(t, e))
    <3>1. Covers(Merge(n, Merge(p, e)), t)
      BY <1>1, <1>3, <2>7, <2>8, CoversTransitive
    <3> QED
      BY <1>1, <1>3, <2>8, <3>1, CoversMerge
  <2>10. Covers(Merge(Loading(i), pending[i]), told[i])'
         <=> Covers(Merge(n, pending'[i]), told'[i])
    BY <1>4 DEF n, Merge
  <2>11. Covers(Loading(i), reload[i].from)' <=> Covers(n, reload[i].from)
    BY <1>4 DEF n
  <2> QED
    BY <1>2, <2>2, <2>3, <2>9, <2>10, <2>11
<1> QED
  BY <1>5, <1>6, <1>7, <1>8 DEF Remembers

(* The steps of a reload, for the instance that takes them.                 *)
LEMMA RemembersReloadStart ==
    ASSUME TypeOK, NEW i \in Instances, Remembers(i), ReloadStart(i)
    PROVE  Remembers(i)'
<1>1. /\ UNCHANGED <<db, expired, snap, told, covered, loaded>>
      /\ pending'[i] = Nothing
      /\ reload'[i].left = {"tokens", "version"}
      /\ reload'[i].from = db
  BY DEF ReloadStart, tokenVars, histVars, TypeOK
<1>2. Loading(i)'.tokens = db.tokens /\ Loading(i)'.version = db.version
  BY <1>1 DEF Loading
<1>3. db \in Knowledge /\ Nothing \in Knowledge /\ Loading(i)' \in Knowledge
      /\ told[i] \in Knowledge
  BY <1>2, KnowledgeTypes DEF Loading, TypeOK, Knowledge
<1>4. Covers(Loading(i)', db)
  BY <1>2, <1>3, RevocationAssumption DEF Covers, Knowledge
<1>5. Covers(Merge(Loading(i)', Nothing), told[i])
  <2>1. Covers(db, told[i])
    BY DEF Remembers, InDb
  <2>2. /\ Covers(Merge(Loading(i)', Nothing), Loading(i)')
        /\ Merge(Loading(i)', Nothing) \in Knowledge
    BY <1>3, CoversMerge, MergeFacts
  <2> QED
    BY <1>3, <1>4, <2>1, <2>2, CoversTransitive
<1> QED
  BY <1>1, <1>4, <1>5 DEF Remembers, InDb, Covers, Merge

LEMMA RemembersReloadRead ==
    ASSUME TypeOK, TypeOK', NEW i \in Instances, Remembers(i),
           NEW part \in {"tokens", "version"}, ReloadRead(i, part)
    PROVE  Remembers(i)'
<1> DEFINE l == Loading(i)
           n == Loading(i)'
           p == pending[i]
           f == reload[i].from
           t == told[i]
<1>1. /\ UNCHANGED <<db, expired, snap, told, covered, loaded, pending>>
      /\ reload[i].pc = "reading"
      /\ part \in reload[i].left
      /\ reload'[i].left = reload[i].left \ {part}
      /\ reload'[i].read = Answer(reload[i].read, part)
      /\ reload'[i].from = f
  BY DEF ReloadRead, tokenVars, histVars, TypeOK, Reload
<1>2. /\ l \in Knowledge /\ n \in Knowledge /\ p \in Knowledge /\ f \in Knowledge
      /\ t \in Knowledge
  BY LoadingType DEF TypeOK, Loading, Knowledge, Reload
<1>3. l.tokens \ expired \subseteq n.tokens /\ l.version <= n.version
  <2>1. reload[i].read \in Knowledge /\ db \in Knowledge
    BY DEF TypeOK, Reload
  <2>2. CASE part = "tokens"
    <3>1. /\ reload'[i].read.tokens = db.tokens \ expired
          /\ reload'[i].read.version = reload[i].read.version
      BY <2>1, <2>2, <1>1 DEF Answer, Knowledge
    <3>2. l.tokens \ expired \subseteq n.tokens
      BY <3>1, <2>2, <1>1 DEF Loading
    <3>3. l.version = n.version
      BY <3>1, <2>2, <1>1 DEF Loading
    <3> QED
      BY <3>2, <3>3, <1>2 DEF Knowledge
  <2>3. CASE part = "version"
    <3>1. /\ reload'[i].read.tokens = reload[i].read.tokens
          /\ reload'[i].read.version = db.version
      BY <2>1, <2>3, <1>1 DEF Answer, Knowledge
    <3>2. l.tokens = n.tokens
      BY <3>1, <2>3, <1>1 DEF Loading
    <3>3. l.version = n.version
      BY <3>1, <2>3, <1>1 DEF Loading
    <3> QED
      BY <3>2, <3>3, <1>2 DEF Knowledge
  <2> QED
    BY <2>2, <2>3
<1>4. Covers(l, f) /\ Covers(Merge(l, p), t)
  BY <1>1 DEF Remembers
<1> HIDE DEF l, n, p, f, t
<1>5. Covers(n, l)
  BY <1>3 DEF Covers
<1>6. Covers(n, f)
  BY <1>2, <1>4, <1>5, CoversTransitive
<1>7. Covers(Merge(n, p), t)
  <2>1. Covers(Merge(n, p), Merge(l, p))
    BY <1>2, <1>5, CoversMerge
  <2>2. Merge(n, p) \in Knowledge /\ Merge(l, p) \in Knowledge
    BY <1>2, MergeFacts
  <2> QED
    BY <1>2, <1>4, <2>1, <2>2, CoversTransitive
<1>8. /\ Covers(Loading(i), reload[i].from)' <=> Covers(n, f)
      /\ Covers(Merge(Loading(i), pending[i]), told[i])' <=> Covers(Merge(n, p), t)
  BY <1>1 DEF Covers, Merge, n, f, p, t
<1> QED
  BY <1>1, <1>6, <1>7, <1>8 DEF Remembers, InDb, Covers

LEMMA RemembersReloadInstall ==
    ASSUME TypeOK, NEW i \in Instances, Remembers(i), ReloadInstall(i)
    PROVE  Remembers(i)'
<1> DEFINE p == pending[i]
           d == reload[i].read
           f == reload[i].from
<1>1. /\ UNCHANGED <<db, expired, told>>
      /\ snap'[i] = Merge(d, p)
      /\ covered'[i] = f
      /\ reload'[i].pc = "mirroring"
      /\ reload[i].pc = "reading" /\ reload[i].left = {}
  BY DEF ReloadInstall, tokenVars, TypeOK, NoReload
<1>2. d \in Knowledge /\ p \in Knowledge /\ f \in Knowledge
  BY DEF TypeOK, Reload
<1>3. Loading(i).tokens = d.tokens /\ Loading(i).version = d.version
  BY <1>1 DEF Loading
<1>4. Covers(d, f) /\ Covers(Merge(d, p), told[i])
  BY <1>1, <1>3 DEF Remembers, Covers, Merge
<1>5. Covers(Merge(d, p), f)
  <2> HIDE DEF d, p, f
  <2>1. Covers(Merge(d, p), d) /\ Merge(d, p) \in Knowledge
    BY <1>2, CoversMerge, MergeFacts
  <2> QED
    BY <1>2, <1>4, <2>1, CoversTransitive
<1> QED
  BY <1>1, <1>4, <1>5 DEF Remembers, InDb, Covers

(* A reload that ends, however it ends.                                     *)
LEMMA RemembersReloadOver ==
    ASSUME TypeOK, NEW i \in Instances, Remembers(i), ReloadOver(i),
           UNCHANGED <<db, expired, snap, told, covered, loaded>>
    PROVE  Remembers(i)'
<1>1. reload'[i].pc = "idle"
  BY DEF ReloadOver, NoReload, TypeOK
<1> QED
  BY <1>1 DEF Remembers, InDb, Covers

LEMMA RemembersRestart ==
    ASSUME TypeOK, NEW i \in Instances, Restart(i)
    PROVE  Remembers(i)'
<1>1. /\ reload'[i].pc = "idle"
      /\ told'[i] = Nothing /\ snap'[i] = Nothing /\ i \notin loaded'
      /\ UNCHANGED <<db, expired>>
  BY DEF Restart, ReloadOver, NoReload, TypeOK, tokenVars
<1>2. db \in Knowledge /\ Nothing \in Knowledge
  BY KnowledgeTypes DEF TypeOK
<1>3. Covers(db, Nothing) /\ Covers(Nothing, Nothing)
  BY <1>2, CoversMerge
<1> QED
  BY <1>1, <1>3 DEF Remembers, InDb, Covers

(* Everybody's news come from Postgres, as long as what is added does.      *)
LEMMA NewsKept ==
    ASSUME TypeOK, TypeOK', DbGrows, KnowledgeInv,
           NEW E \in SUBSET Knowledge, \A e \in E : InDb(e)',
           \A r \in Receivers : news'[r] \subseteq news[r] \cup E,
           \A i \in Instances : \A k \in tasks'[i] :
              k.event \in E \/ \E m \in tasks[i] : k.event = m.event
    PROVE  (NewsFromDb /\ TasksFromDb)'
<1>0. db \in Knowledge /\ db' \in Knowledge
  BY DEF TypeOK
<1>1. ASSUME NEW r \in Receivers, NEW e \in news'[r] PROVE InDb(e)'
  <2>1. CASE e \in E
    BY <2>1
  <2>2. CASE e \in news[r]
    <3>1. e \in Knowledge /\ InDb(e)
      BY <2>2 DEF TypeOK, KnowledgeInv, NewsFromDb
    <3> QED
      BY <1>0, <3>1, InDbKept
  <2> QED
    BY <2>1, <2>2
<1>2. ASSUME NEW i \in Instances, NEW k \in tasks'[i], NEW e, e = k.event PROVE InDb(e)'
  <2>1. CASE e \in E
    BY <2>1
  <2>2. CASE \E m \in tasks[i] : e = m.event
    <3>1. e \in Knowledge /\ InDb(e)
      BY <2>2 DEF TypeOK, KnowledgeInv, TasksFromDb, Task
    <3> QED
      BY <1>0, <3>1, InDbKept
  <2> QED
    BY <1>2, <2>1, <2>2
<1> QED
  BY <1>1, <1>2 DEF NewsFromDb, TasksFromDb, InDb

(* A revocation recorded by instance i.                                     *)
LEMMA RecordKnowledge ==
    ASSUME TypeOK, TypeOK', KnowledgeInv, NEW i \in Instances,
           NEW e \in Knowledge, NEW g, Record(i, e, g),
           UNCHANGED <<expired, loaded, covered, reload, news>>
    PROVE  KnowledgeInv'
<1>1. /\ db \in Knowledge /\ db' \in Knowledge
      /\ db' = Merge(db, e) /\ Remember(i, e)
  BY DEF TypeOK, Record
<1>2. DbGrows
  BY <1>1, MergeFacts DEF DbGrows
<1>3. InDb(e)'
  <2>1. Covers(Merge(db, e), e)
    BY <1>1, CoversMerge
  <2> QED
    BY <1>1, <2>1 DEF InDb, Covers
<1>4. (NewsFromDb /\ TasksFromDb)'
  <2> DEFINE E == {e}
  <2>1. \A j \in Instances : \A k \in tasks'[j] :
           k.event \in E \/ \E m \in tasks[j] : k.event = m.event
    BY DEF Record, TypeOK
  <2>2. E \in SUBSET Knowledge
    OBVIOUS
  <2>3. \A x \in E : InDb(x)'
    BY <1>3
  <2>4. \A r \in Receivers : news'[r] \subseteq news[r] \cup E
    OBVIOUS
  <2> HIDE DEF E
  <2> QED
    BY <1>2, <2>1, <2>2, <2>3, <2>4, NewsKept
<1>5. ASSUME NEW j \in Instances PROVE Remembers(j)'
  <2>1. Remembers(j)
    BY DEF KnowledgeInv
  <2>2. CASE j = i
    BY <1>1, <1>2, <1>3, <2>1, <2>2, RemembersTold
  <2>3. CASE j # i
    <3>1. /\ snap'[j] = snap[j] /\ told'[j] = told[j] /\ pending'[j] = pending[j]
      BY <1>1, <2>3 DEF Remember, TypeOK
    <3> QED
      BY <1>2, <2>1, <3>1, RemembersUnchanged
  <2> QED
    BY <2>2, <2>3
<1> QED
  BY <1>4, <1>5 DEF KnowledgeInv

(* Steps that change no instance but i, and add no news but E.              *)
LEMMA KnowledgeSteps ==
    ASSUME TypeOK, TypeOK', KnowledgeInv, DbGrows, NEW i \in Instances,
           Remembers(i)',
           \A j \in Instances \ {i} :
              /\ snap'[j] = snap[j] /\ told'[j] = told[j] /\ covered'[j] = covered[j]
              /\ reload'[j] = reload[j] /\ pending'[j] = pending[j]
              /\ j \in loaded' => j \in loaded,
           \A r \in Receivers : news'[r] \subseteq news[r],
           \A j \in Instances : tasks'[j] \subseteq tasks[j]
    PROVE  KnowledgeInv'
<1>1. (NewsFromDb /\ TasksFromDb)'
  BY NewsKept, {} \in SUBSET Knowledge, \A e \in {} : InDb(e)'
<1>2. ASSUME NEW j \in Instances PROVE Remembers(j)'
  BY RemembersUnchanged DEF KnowledgeInv
<1> QED
  BY <1>1, <1>2 DEF KnowledgeInv

(* ... and steps that change none.                                          *)
LEMMA KnowledgeUnchanged ==
    ASSUME TypeOK, TypeOK', KnowledgeInv, DbGrows,
           UNCHANGED <<cacheVars, told, covered>>,
           NEW E \in SUBSET Knowledge, \A e \in E : InDb(e)',
           \A r \in Receivers : news'[r] \subseteq news[r] \cup E,
           \A j \in Instances : \A k \in tasks'[j] :
              \E m \in tasks[j] : k.event = m.event
    PROVE  KnowledgeInv'
<1>1. (NewsFromDb /\ TasksFromDb)'
  BY NewsKept
<1>2. ASSUME NEW j \in Instances PROVE Remembers(j)'
  BY RemembersUnchanged DEF KnowledgeInv, cacheVars
<1> QED
  BY <1>1, <1>2 DEF KnowledgeInv

LEMMA KnowledgeStep ==
    ASSUME TypeOK, TypeOK', SessionInv, KnowledgeInv, [Next]_vars
    PROVE  KnowledgeInv'
<1>types. /\ db \in Knowledge /\ MaxVersion \in Nat
          /\ \A t \in Tokens : Token(t) \in Knowledge
          /\ \A v \in 0..MaxVersion : User(v) \in Knowledge
  BY KnowledgeTypes, RevocationAssumption DEF TypeOK
<1>same. ASSUME UNCHANGED <<db, expired>> PROVE DbGrows
  BY <1>same, <1>types DEF DbGrows, Knowledge
<1>1. ASSUME NEW i \in Instances, NEW t \in Tokens,
             Logout(i, t) \/ LogoutAll(i, t) \/ SetPassword(i, t)
      PROVE  KnowledgeInv'
  <2>1. PICK e, g : e \in Knowledge /\ Record(i, e, g)
    <3>1. CASE Logout(i, t)
      BY <3>1, <1>types DEF Logout
    <3>2. CASE LogoutAll(i, t)
      <4>1. db.version + 1 \in 0..MaxVersion
        BY <3>2, <1>types DEF LogoutAll, Knowledge
      <4> QED
        BY <3>2, <4>1, <1>types DEF LogoutAll
    <3>3. CASE SetPassword(i, t)
      <4>1. db.version + 1 \in 0..MaxVersion
        BY <3>3, <1>types DEF SetPassword, Knowledge
      <4> QED
        BY <3>3, <4>1, <1>types DEF SetPassword
    <3> QED
      BY <1>1, <3>1, <3>2, <3>3
  <2>2. UNCHANGED <<expired, loaded, covered, reload, news>>
    BY <1>1 DEF Logout, LogoutAll, SetPassword, tokenVars
  <2> QED
    BY <2>1, <2>2, RecordKnowledge
<1>2. ASSUME NEW u \in Tabs, RefreshClaim(u) PROVE KnowledgeInv'
  <2>1. PICK t \in Tokens, i \in Instances :
           t = rotation[u].token /\ i = rotation[u].at
    BY <1>2 DEF RefreshClaim, SessionInv, RotationInFlight
  <2>2. PICK v : ClaimAndMint(u, t, v)
    BY <1>2, <2>1 DEF RefreshClaim
  <2>3. UNCHANGED <<expired, loaded, covered, reload, news>>
    BY <2>2 DEF ClaimAndMint, tokenVars
  <2>4. Token(t) \in Knowledge
    BY <2>1, <1>types
  <2>5. CASE Taken(t)
    <3>1. Remember(i, Token(t)) /\ UNCHANGED <<db, tasks>>
      BY <2>1, <2>2, <2>5 DEF ClaimAndMint
    <3>2. DbGrows
      BY <2>3, <3>1, <1>same
    <3>3. InDb(Token(t))'
      <4>1. db'.tokens = db.tokens /\ db'.version = db.version /\ db.version \in Nat
        BY <3>1, <1>types DEF Knowledge
      <4>2. t \in db.tokens
        BY <2>5 DEF Taken
      <4> QED
        BY <4>1, <4>2 DEF InDb, Covers, Token
    <3>4. Remembers(i)'
      BY <2>1, <2>3, <2>4, <3>1, <3>2, <3>3, RemembersTold DEF KnowledgeInv
    <3>5. \A j \in Instances \ {i} :
             /\ snap'[j] = snap[j] /\ told'[j] = told[j]
             /\ pending'[j] = pending[j]
      BY <2>1, <3>1 DEF Remember, TypeOK
    <3> QED
      BY <2>1, <2>3, <3>1, <3>2, <3>4, <3>5, KnowledgeSteps
  <2>6. CASE ~Taken(t)
    <3>1. Record(i, Token(t), [ver |-> v, parent |-> t])
      BY <2>1, <2>2, <2>6 DEF ClaimAndMint
    <3> QED
      BY <2>1, <2>3, <2>4, <3>1, RecordKnowledge
  <2> QED
    BY <2>5, <2>6
<1>3. ASSUME NEW i \in Instances, NEW e \in news[i], ApplyEvent(i, e)
      PROVE  KnowledgeInv'
  <2>1. /\ e \in Knowledge /\ InDb(e) /\ Remember(i, e)
        /\ UNCHANGED <<db, expired, loaded, covered, reload, tasks>>
    BY <1>3 DEF ApplyEvent, tokenVars, TypeOK, Receivers, KnowledgeInv, NewsFromDb
  <2>2. DbGrows
    BY <2>1, <1>same
  <2>3. InDb(e)'
    BY <2>1 DEF InDb, Covers
  <2>4. Remembers(i)'
    BY <2>1, <2>2, <2>3, RemembersTold DEF KnowledgeInv
  <2>5. \A j \in Instances \ {i} :
           snap'[j] = snap[j] /\ told'[j] = told[j] /\ pending'[j] = pending[j]
    BY <2>1 DEF Remember, TypeOK
  <2>6. \A r \in Receivers : news'[r] \subseteq news[r]
    BY <1>3 DEF ApplyEvent, TypeOK
  <2> QED
    BY <2>1, <2>2, <2>4, <2>5, <2>6, KnowledgeSteps
<1>4. ASSUME NEW i \in Instances, ReloadStep(i) \/ ReloadFails(i)
      PROVE  KnowledgeInv'
  <2>1. UNCHANGED <<db, expired, tasks, news, told>>
    BY <1>4
    DEF ReloadStep, ReloadStart, ReloadRead, ReloadInstall, ReloadMirror,
        ReloadFails, tokenVars, histVars
  <2>2. DbGrows
    BY <2>1, <1>same
  <2>3. Remembers(i)
    BY DEF KnowledgeInv
  <2>4. Remembers(i)'
    <3>1. CASE ReloadStart(i)
      BY <2>3, <3>1, RemembersReloadStart
    <3>2. ASSUME NEW part \in {"tokens", "version"}, ReloadRead(i, part)
          PROVE  Remembers(i)'
      BY <2>3, <3>2, RemembersReloadRead
    <3>3. CASE ReloadInstall(i)
      BY <2>3, <3>3, RemembersReloadInstall
    <3>4. CASE ReloadMirror(i) \/ ReloadFails(i)
      <4>1. ReloadOver(i) /\ UNCHANGED <<snap, told, covered, loaded>>
        BY <3>4 DEF ReloadMirror, ReloadFails, histVars
      <4> QED
        BY <2>1, <2>3, <4>1, RemembersReloadOver
    <3> QED
      BY <1>4, <3>1, <3>2, <3>3, <3>4 DEF ReloadStep
  <2>5. \A j \in Instances \ {i} :
           /\ snap'[j] = snap[j] /\ covered'[j] = covered[j]
           /\ reload'[j] = reload[j] /\ pending'[j] = pending[j]
           /\ j \in loaded' => j \in loaded
    BY <1>4
    DEF ReloadStep, ReloadStart, ReloadRead, ReloadInstall, ReloadMirror,
        ReloadFails, ReloadOver, histVars, TypeOK
  <2> QED
    BY <2>1, <2>2, <2>4, <2>5, KnowledgeSteps
<1>5. ASSUME NEW i \in Instances, Restart(i) PROVE KnowledgeInv'
  <2>1. DbGrows
    BY <1>5, <1>same DEF Restart, tokenVars
  <2>2. Remembers(i)'
    BY <1>5, RemembersRestart
  <2>3. \A j \in Instances \ {i} :
           /\ snap'[j] = snap[j] /\ told'[j] = told[j] /\ covered'[j] = covered[j]
           /\ reload'[j] = reload[j] /\ pending'[j] = pending[j]
           /\ j \in loaded' => j \in loaded
    BY <1>5 DEF Restart, ReloadOver, TypeOK
  <2>4. /\ \A r \in Receivers : news'[r] \subseteq news[r]
        /\ \A j \in Instances : tasks'[j] \subseteq tasks[j]
    BY <1>5 DEF Restart, TypeOK
  <2> QED
    BY <2>1, <2>2, <2>3, <2>4, KnowledgeSteps
<1>6. ASSUME NEW i \in Instances, NEW k \in tasks[i], MirrorEvent(i, k)
      PROVE  KnowledgeInv'
  <2> DEFINE E == {}
  <2>1. \A j \in Instances : \A m \in tasks'[j] :
           \E n \in tasks[j] : m.event = n.event
    <3>1. [k EXCEPT !.pc = "announce"].event = k.event
      BY DEF TypeOK, Task
    <3> QED
      BY <1>6, <3>1 DEF MirrorEvent, TypeOK
  <2>2. DbGrows /\ UNCHANGED <<cacheVars, told, covered, news>>
    BY <1>6, <1>same DEF MirrorEvent, tokenVars, histVars
  <2>3. E \in SUBSET Knowledge /\ \A e \in E : InDb(e)'
    OBVIOUS
  <2> HIDE DEF E
  <2> QED
    BY <2>1, <2>2, <2>3, KnowledgeUnchanged
<1>7. ASSUME NEW i \in Instances, NEW k \in tasks[i], Announce(i, k)
      PROVE  KnowledgeInv'
  <2> DEFINE e == k.event
             E == {e}
  <2>1. e \in Knowledge /\ InDb(e)
    BY DEF TypeOK, Task, KnowledgeInv, TasksFromDb
  <2>2. DbGrows /\ UNCHANGED <<cacheVars, told, covered, db, expired>>
    BY <1>7, <1>same DEF Announce, histVars
  <2>3. E \in SUBSET Knowledge /\ \A x \in E : InDb(x)'
    BY <2>1, <2>2 DEF InDb, Covers
  <2>4. /\ \A r \in Receivers : news'[r] \subseteq news[r] \cup E
        /\ \A j \in Instances : \A m \in tasks'[j] :
              \E n \in tasks[j] : m.event = n.event
    BY <1>7 DEF Announce, TypeOK
  <2> HIDE DEF e, E
  <2> QED
    BY <2>2, <2>3, <2>4, KnowledgeUnchanged
<1>8. ASSUME DbGrows, UNCHANGED <<cacheVars, told, covered, tasks>>,
             \A r \in Receivers : news'[r] \subseteq news[r]
      PROVE  KnowledgeInv'
  <2> DEFINE E == {}
  <2>1. E \in SUBSET Knowledge /\ \A e \in E : InDb(e)'
    OBVIOUS
  <2>2. /\ \A r \in Receivers : news'[r] \subseteq news[r] \cup E
        /\ \A j \in Instances : \A m \in tasks'[j] :
              \E n \in tasks[j] : m.event = n.event
    BY <1>8
  <2> HIDE DEF E
  <2> QED
    BY <1>8, <2>1, <2>2, KnowledgeUnchanged
<1>9. ASSUME SweepRows PROVE KnowledgeInv'
  <2>1. DbGrows
    BY <1>9, <1>types DEF SweepRows, DbGrows, tokenVars, Knowledge
  <2> QED
    BY <1>8, <1>9, <2>1 DEF SweepRows, histVars
<1>10. ASSUME NEW t \in Tokens, Expire(t) PROVE KnowledgeInv'
  <2>1. DbGrows
    BY <1>10, <1>types DEF Expire, DbGrows, Knowledge
  <2> QED
    BY <1>8, <1>10, <2>1 DEF Expire, histVars
<1>11. ASSUME SignIn \/ Flush \/ UNCHANGED vars PROVE KnowledgeInv'
  <2>1. UNCHANGED <<db, expired, cacheVars, told, covered, tasks, news>>
    BY <1>11 DEF SignIn, Flush, vars, state, tokenVars, cacheVars, histVars
  <2> QED
    BY <1>8, <1>same, <2>1
<1>12. ASSUME NEW i \in Instances, (\E t \in Tokens : Connect(i, t)) \/ ExpirySweep(i)
       PROVE  KnowledgeInv'
  <2>1. UNCHANGED <<db, expired, cacheVars, told, covered, tasks, news>>
    BY <1>12 DEF Connect, ExpirySweep, tokenVars, histVars
  <2> QED
    BY <1>8, <1>same, <2>1
<1>13. ASSUME NEW u \in Tabs, RefreshCheck(u) \/ \E i \in Instances, t \in Tokens :
                                                   RefreshStart(u, i, t)
       PROVE  KnowledgeInv'
  <2>1. UNCHANGED <<db, expired, cacheVars, told, covered, tasks, news>>
    BY <1>13 DEF RefreshStart, RefreshCheck, tokenVars, histVars
  <2> QED
    BY <1>8, <1>same, <2>1
<1>14. ASSUME NEW r \in Relays, RelayNext(r) PROVE KnowledgeInv'
  <2>1. UNCHANGED <<db, expired, cacheVars, told, covered, tasks>>
    BY <1>14
    DEF RelayNext, RelayAccept, RelayRegister, RelayHears, RelaySweep, tokenVars,
        histVars
  <2>2. \A x \in Receivers : news'[x] \subseteq news[x]
    BY <1>14
    DEF RelayNext, RelayAccept, RelayRegister, RelayHears, RelaySweep, TypeOK
  <2> QED
    BY <1>8, <1>same, <2>1, <2>2
<1> QED
  BY <1>1, <1>2, <1>3, <1>4, <1>5, <1>6, <1>7, <1>9, <1>10, <1>11, <1>12, <1>13,
     <1>14
  DEF Next, Step, InstanceNext, TaskStep, RotationNext

-----------------------------------------------------------------------------
(* The theorems.                                                            *)

LEMMA InitInvariant == Init => IInv
<1> SUFFICES ASSUME Init PROVE IInv
  OBVIOUS
<1>1. TypeOK
  BY InitTypes
<1>2. SessionInv
  BY RevocationAssumption
  DEF Init, SessionInv, TokensDescend, GrantsDescend, RotationInFlight,
      RotatedOnce, Descends, NoRotation
<1>3. Nothing \in Knowledge
  BY KnowledgeTypes
<1>4. Covers(Nothing, Nothing)
  BY <1>3, CoversMerge
<1>5. KnowledgeInv
  BY <1>4
  DEF Init, KnowledgeInv, NewsFromDb, TasksFromDb, InDb, Remembers, NoReload
<1> QED
  BY <1>1, <1>2, <1>5 DEF IInv

(* The invariant holds along every behaviour.                               *)
THEOREM Invariance == Spec => []IInv
<1>1. IInv /\ [Next]_vars => IInv'
  <2> SUFFICES ASSUME IInv, [Next]_vars PROVE IInv'
    OBVIOUS
  <2>1. TypeOK'
    BY TypeStep DEF IInv, SessionInv
  <2>2. SessionInv'
    BY <2>1, SessionStep DEF IInv
  <2>3. KnowledgeInv'
    BY <2>1, KnowledgeStep DEF IInv
  <2> QED
    BY <2>1, <2>2, <2>3 DEF IInv
<1> QED
  BY <1>1, InitInvariant, PTL DEF Spec

(* The state is well typed; in particular no refresh loses its token        *)
(* between its checks and its claim.                                        *)
THEOREM TypeCorrect == Spec => []TypeOK
<1>1. IInv => TypeOK
  BY DEF IInv
<1> QED
  BY <1>1, Invariance, PTL

(* refresh, rememberToken, rememberVersion: neither what an instance was    *)
(* told nor what its last load was made from is ever forgotten, whatever    *)
(* reloads, announcements and failures come in between.                     *)
THEOREM Unforgetting == Spec => []NothingForgotten
<1>1. IInv => NothingForgotten
  BY DEF IInv, KnowledgeInv, Remembers, NothingForgotten, RevocationSticks,
         LoadCovers, TypeOK
<1> QED
  BY <1>1, Invariance, PTL

(* refreshSession, claimForRotation: however many tabs refresh a token, one *)
(* gets its successor, and never at a higher version than the token had.    *)
THEOREM RotationSafety == Spec => []RotationSound
<1>1. IInv => RotationSound
  BY DEF IInv, SessionInv, TokensDescend, GrantsDescend, Descends, RotationSound,
         NoLaundering
<1> QED
  BY <1>1, Invariance, PTL


-----------------------------------------------------------------------------
(* The relays: the inductive invariant, part by part.                       *)

(* A connection has its queue from Register to TearDown, and is in the room *)
(* its handler knows until leave; so whoever a broadcast finds in a room    *)
(* has a queue.                                                             *)
InPlace(c) ==
    /\ open[c] <=> conn[c].pc \notin {"none", "checked"}
    /\ conn[c].pc \in {"join", "control"} => conn[c].ask \in Rooms
    /\ conn[c].pc = "join" => conn[c].ask = conn[c].room
    /\ \A r \in Rooms : c \in rooms[r] =>
          /\ conn[c].pc \in {"read", "join", "control", "leave"}
          /\ conn[c].room = r

ConnInv == \A c \in Conns : InPlace(c)

(* The sweep's frame is for a room.                                         *)
SweepInv == swept # NoFrame => swept.room \in Rooms

(* What is announced is in the mirror already.                              *)
MirrorInv == wire \cup heard \subseteq redisMirror

(* What a refresh has read, with what was heard meanwhile, covers all that  *)
(* the relay was told of, half by half.                                     *)
RefreshInv ==
    /\ refresh.pc \in {"clear", "jtis"} => refresh.ok = {}
    /\ refresh.pc = "versions" => "versions" \notin refresh.ok
    /\ refresh.pc # "idle" /\ "jtis" \in refresh.ok =>
          heard \cap Jtis \subseteq refresh.got \cup pendingFacts
    /\ refresh.pc # "idle" /\ "versions" \in refresh.ok =>
          heard \cap Versions \subseteq refresh.got \cup pendingFacts

RelayIInv ==
    /\ RelayTypeOK
    /\ ConnInv
    /\ SweepInv
    /\ MirrorInv
    /\ RefreshInv
    /\ NeverPanics
    /\ HeardIsKnown

-----------------------------------------------------------------------------
(* Queues.                                                                  *)

(* The frame a step has queued for c, if it has queued one.                 *)
Queued(c, f) ==
    Len(queue'[c]) > Len(queue[c]) => queue'[c][Len(queue'[c])] = f

QueueType ==
    /\ queue \in [Conns -> Seq(Frame)]
    /\ \A c \in Conns : Len(queue[c]) <= SEND_BUFFER

LEMMA Appended ==
    ASSUME RelayTypeOK, NEW c \in Conns, NEW f \in Frame, HasSpace(c)
    PROVE  /\ Append(queue[c], f) \in Seq(Frame)
           /\ Len(Append(queue[c], f)) <= SEND_BUFFER
           /\ Append(queue[c], f)[Len(Append(queue[c], f))] = f
<1>1. queue[c] \in Seq(Frame) /\ Len(queue[c]) \in Nat /\ Len(queue[c]) < SEND_BUFFER
  BY LenProperties DEF RelayTypeOK, HasSpace
<1>2. /\ Append(queue[c], f) \in Seq(Frame)
      /\ Len(Append(queue[c], f)) = Len(queue[c]) + 1
      /\ Append(queue[c], f)[Len(queue[c]) + 1] = f
  BY <1>1, AppendProperties
<1>3. Len(queue[c]) + 1 <= SEND_BUFFER
  BY <1>1, RelayAssumption
<1>. QED
  BY <1>2, <1>3

LEMMA Lengths == ASSUME RelayTypeOK PROVE \A c \in Conns : Len(queue[c]) \in Nat
<1>. QED
  BY LenProperties DEF RelayTypeOK

LEMMA SentOne ==
    ASSUME RelayTypeOK, NEW c \in Conns, NEW f \in Frame, trySend(c, f)
    PROVE  /\ QueueType'
           /\ \E p \in {"read", "leave"} :
                 conn' = [conn EXCEPT ![c].pc = p, ![c].ask = NoRoom]
           /\ \A d \in Conns : d # c => queue'[d] = queue[d]
           /\ Queued(c, f)
<1>1. CASE HasSpace(c)
  <2>1. queue' = [queue EXCEPT ![c] = Append(queue[c], f)]
    BY <1>1 DEF trySend
  <2>2. /\ Append(queue[c], f) \in Seq(Frame)
        /\ Len(Append(queue[c], f)) <= SEND_BUFFER
        /\ Append(queue[c], f)[Len(Append(queue[c], f))] = f
    BY <1>1, Appended
  <2>. DEFINE q == Append(queue[c], f)
  <2>. HIDE DEF q
  <2>3. /\ queue' \in [Conns -> Seq(Frame)] /\ queue'[c] = q
        /\ \A d \in Conns : d # c => queue'[d] = queue[d]
    BY <2>1, <2>2 DEF RelayTypeOK, q
  <2>4. QueueType'
    BY <2>2, <2>3 DEF RelayTypeOK, QueueType, q
  <2>5. Queued(c, f)
    BY <2>2, <2>3 DEF Queued, q
  <2>6. conn' = [conn EXCEPT ![c].pc = "read", ![c].ask = NoRoom]
    BY <1>1 DEF trySend
  <2>. QED
    BY <2>3, <2>4, <2>5, <2>6
<1>2. CASE ~HasSpace(c)
  <2>1. /\ queue' = queue
        /\ conn' = [conn EXCEPT ![c].pc = "leave", ![c].ask = NoRoom]
    BY <1>2 DEF trySend
  <2>2. Len(queue[c]) \in Nat
    BY Lengths
  <2>. QED
    BY <2>1, <2>2 DEF RelayTypeOK, QueueType, Queued
<1>. QED
  BY <1>1, <1>2

LEMMA SentAll ==
    ASSUME RelayTypeOK, ConnInv, NEW room \in Rooms, NEW f \in Frame, broadcast(room, f)
    PROVE  /\ QueueType'
           /\ panicked' = panicked
           /\ \A d \in Conns : d \notin rooms[room] => queue'[d] = queue[d]
           /\ \A d \in Conns : Queued(d, f)
<1>1. \A d \in Conns : d \in rooms[room] => open[d]
  BY DEF ConnInv, InPlace
<1>2. panicked' = panicked
  BY <1>1 DEF broadcast, RelayTypeOK
<1>3. \A d \in Conns : queue'[d] = queue[d] \/
          (d \in rooms[room] /\ HasSpace(d) /\ queue'[d] = Append(queue[d], f))
  BY DEF broadcast
<1>4. ASSUME NEW d \in Conns
      PROVE  /\ queue'[d] \in Seq(Frame)
             /\ Len(queue'[d]) <= SEND_BUFFER
             /\ Queued(d, f)
  <2>1. CASE queue'[d] = queue[d]
    BY <2>1, Lengths DEF RelayTypeOK, Queued
  <2>2. CASE HasSpace(d) /\ queue'[d] = Append(queue[d], f)
    BY <2>2, Appended DEF Queued
  <2>. QED
    BY <1>3, <2>1, <2>2
<1>5. queue' \in [Conns -> Seq(Frame)]
  BY <1>4 DEF broadcast
<1>. QED
  BY <1>2, <1>3, <1>4, <1>5 DEF QueueType, broadcast

LEMMA FrameTypes ==
    ASSUME RelayTypeOK
    PROVE  /\ Pong \in Frame /\ Rejected \in Frame
           /\ \A kind \in {"ack", "timeline"}, room \in Rooms :
                 Timeline(kind, room) \in Frame
<1>1. MaxControls \in Nat
  BY RelayAssumption
<1>. QED
  BY <1>1 DEF RelayTypeOK, Frame, Pong, Rejected, Timeline

LEMMA ScopeType ==
    ASSUME RelayTypeOK, Spend \/ CallFails \/ relayScope' = relayScope
    PROVE  relayScope' \in [frames : Nat, facts : SUBSET Facts, errors : Nat]
<1>1. relayScope \in [frames : Nat, facts : SUBSET Facts, errors : Nat]
  BY DEF RelayTypeOK
<1>2. CASE Spend
  <2>1. relayScope.frames - 1 \in Nat
    BY <1>1, <1>2 DEF Spend
  <2>. QED
    BY <1>1, <1>2, <2>1 DEF Spend
<1>3. CASE CallFails
  <2>1. relayScope.errors - 1 \in Nat
    BY <1>1, <1>3 DEF CallFails
  <2>. QED
    BY <1>1, <1>3, <2>1 DEF CallFails
<1>. QED
  BY <1>1, <1>2, <1>3

-----------------------------------------------------------------------------
(* Steps of a connection.                                                   *)

(* What the steps that leave revocation alone need not prove again.         *)
ConnPart == RelayTypeOK /\ ConnInv /\ SweepInv /\ NeverPanics

LEMMA RevocationKept ==
    ASSUME RelayIInv, UNCHANGED <<revVars, impl>>
    PROVE  MirrorInv' /\ RefreshInv' /\ HeardIsKnown'
<1>. QED
  BY DEF RelayIInv, MirrorInv, RefreshInv, HeardIsKnown, revVars, snapVars

LEMMA HandlerType ==
    ASSUME RelayTypeOK, NEW c \in Conns, NEW p \in Pcs, NEW a \in Rooms \cup {NoRoom}
    PROVE  /\ [conn EXCEPT ![c].pc = p] \in [Conns -> Handler]
           /\ [conn EXCEPT ![c].pc = p, ![c].ask = a] \in [Conns -> Handler]
           /\ [conn EXCEPT ![c].pc = p, ![c].room = a] \in [Conns -> Handler]
<1>1. conn \in [Conns -> Handler] /\ conn[c] \in Handler
  BY DEF RelayTypeOK
<1>2. /\ [conn[c] EXCEPT !.pc = p] \in Handler
      /\ [conn[c] EXCEPT !.pc = p, !.ask = a] \in Handler
      /\ [conn[c] EXCEPT !.pc = p, !.room = a] \in Handler
  BY <1>1 DEF Handler
<1>3. [conn EXCEPT ![c].pc = p] \in [Conns -> Handler]
  BY <1>1, <1>2
<1>4. [conn EXCEPT ![c].pc = p, ![c].ask = a] \in [Conns -> Handler]
  BY <1>1, <1>2
<1>5. [conn EXCEPT ![c].pc = p, ![c].room = a] \in [Conns -> Handler]
  BY <1>1, <1>2
<1>. QED
  BY <1>3, <1>4, <1>5

LEMMA PcNames ==
    {"none", "checked", "read", "join", "control", "leave", "close"} = Pcs
<1>. QED
  BY DEF Pcs

(* A step of one connection takes no other one's queue and puts no other    *)
(* one into a room.                                                         *)
LEMMA OthersStay ==
    ASSUME ConnInv, NEW c \in Conns, InPlace(c)',
           \A d \in Conns : d # c => conn'[d] = conn[d] /\ open'[d] = open[d],
           \A d \in Conns : d # c =>
              \A r \in Rooms : d \in rooms'[r] => d \in rooms[r]
    PROVE  ConnInv'
<1>. QED
  BY DEF ConnInv, InPlace

(* A reply, and what the handler does when it is out or could not be sent.  *)
LEMMA Reply ==
    ASSUME ConnPart, NEW c \in Conns, NEW f \in Frame,
           conn[c].pc \in {"read", "join", "control"},
           trySend(c, f), Spend \/ CallFails \/ relayScope' = relayScope,
           UNCHANGED <<impl, open, evicted, rooms, conns, tl, sweepVars, seen,
                       revVars, panicked>>
    PROVE  ConnPart'
<1>. USE DEF ConnPart
<1>1. QueueType' /\ relayScope' \in [frames : Nat, facts : SUBSET Facts, errors : Nat]
  BY SentOne, ScopeType
<1>2. PICK p \in {"read", "leave"} : conn' = [conn EXCEPT ![c].pc = p, ![c].ask = NoRoom]
  BY SentOne
<1>3. conn' \in [Conns -> Handler]
  BY <1>2, HandlerType, PcNames
<1>4. RelayTypeOK'
  BY <1>1, <1>3 DEF RelayTypeOK, QueueType, sweepVars, revVars, snapVars
<1>5. /\ conn'[c] = [conn[c] EXCEPT !.pc = p, !.ask = NoRoom]
      /\ \A d \in Conns : d # c => conn'[d] = conn[d]
  BY <1>2 DEF RelayTypeOK
<1>6. conn'[c].pc = p /\ conn'[c].room = conn[c].room
  BY <1>5 DEF RelayTypeOK, Handler
<1>7. open' = open /\ rooms' = rooms
  OBVIOUS
<1>8. InPlace(c) /\ InPlace(c)'
  BY <1>6, <1>7 DEF ConnInv, InPlace
<1>9. ConnInv'
  BY <1>5, <1>7, <1>8, OthersStay
<1>. QED
  BY <1>4, <1>9 DEF NeverPanics, SweepInv, sweepVars

(* The handler goes from one point to another and touches nothing else.     *)
LEMMA Moves ==
    ASSUME ConnPart, NEW c \in Conns, NEW p \in {"checked", "read", "leave", "control"},
           NEW r \in Rooms \cup {NoRoom}, p = "control" => r \in Rooms,
           \/ p = "checked" /\ conn[c].pc = "none" /\ conn' = [conn EXCEPT ![c].pc = p]
           \/ p = "leave" /\ conn[c].pc = "read" /\ conn' = [conn EXCEPT ![c].pc = p]
           \/ /\ p = "read" /\ conn[c].pc = "join"
              /\ conn' = [conn EXCEPT ![c].pc = p, ![c].ask = NoRoom]
           \/ /\ p = "control" /\ conn[c].pc = "read"
              /\ conn' = [conn EXCEPT ![c].pc = p, ![c].ask = r],
           Spend \/ CallFails \/ relayScope' = relayScope,
           UNCHANGED <<impl, queue, open, evicted, rooms, conns, tl, sweepVars, seen,
                       revVars, panicked>>
    PROVE  ConnPart'
<1>. USE DEF ConnPart
<1>1. relayScope' \in [frames : Nat, facts : SUBSET Facts, errors : Nat]
  BY ScopeType
<1>2. conn' \in [Conns -> Handler]
  <2>1. p \in Pcs /\ NoRoom \in Rooms \cup {NoRoom}
    BY DEF Pcs
  <2>2. /\ [conn EXCEPT ![c].pc = p] \in [Conns -> Handler]
        /\ [conn EXCEPT ![c].pc = p, ![c].ask = NoRoom] \in [Conns -> Handler]
    BY <2>1, HandlerType
  <2>3. [conn EXCEPT ![c].pc = p, ![c].ask = r] \in [Conns -> Handler]
    BY <2>1, HandlerType
  <2>. QED
    BY <2>2, <2>3, Zenon
<1>3. RelayTypeOK'
  BY <1>1, <1>2 DEF RelayTypeOK, sweepVars, revVars, snapVars
<1>4. /\ conn'[c].pc = p /\ conn'[c].room = conn[c].room
      /\ p = "control" => conn'[c].ask \in Rooms
      /\ \A d \in Conns : d # c => conn'[d] = conn[d]
  BY DEF RelayTypeOK, Handler
<1>5. ConnInv'
  BY <1>4 DEF ConnInv, InPlace
<1>. QED
  BY <1>3, <1>5 DEF NeverPanics, SweepInv, sweepVars

LEMMA Arrives ==
    ASSUME ConnPart, NEW c \in Conns, Register(c)
    PROVE  ConnPart'
<1>. USE DEF ConnPart
<1>1. conn' \in [Conns -> Handler]
  BY HandlerType, PcNames DEF Register
<1>2. RelayTypeOK'
  BY <1>1 DEF Register, RelayTypeOK, sweepVars, revVars, snapVars
<1>3. /\ conn[c].pc = "checked" /\ conn'[c].pc = "read"
      /\ \A d \in Conns : d # c => conn'[d] = conn[d]
  BY DEF Register, RelayTypeOK, Handler
<1>4. ConnInv'
  BY <1>3 DEF ConnInv, InPlace, Register, RelayTypeOK
<1>. QED
  BY <1>2, <1>4 DEF Register, NeverPanics, SweepInv, sweepVars

LEMMA Joins ==
    ASSUME ConnPart, NEW c \in Conns, NEW r \in Rooms, Join(c, r)
    PROVE  ConnPart'
<1>. USE DEF ConnPart
<1>. DEFINE h == [pc |-> "join", room |-> r, ask |-> r]
<1>1. h \in Handler /\ conn' = [conn EXCEPT ![c] = h]
  BY DEF Join, Handler, Pcs
<1>2. conn' \in [Conns -> Handler] /\ conn'[c] = h
      /\ \A d \in Conns : d # c => conn'[d] = conn[d]
  BY <1>1 DEF RelayTypeOK
<1>3. rooms' = [x \in Rooms |-> IF x = r THEN rooms[x] \cup {c} ELSE rooms[x] \ {c}]
  BY DEF Join, joinRoom
<1>4. rooms' \in [Rooms -> SUBSET Conns]
  BY <1>3 DEF RelayTypeOK
<1>5. relayScope' \in [frames : Nat, facts : SUBSET Facts, errors : Nat]
  BY ScopeType DEF Join
<1>6. RelayTypeOK'
  BY <1>2, <1>4, <1>5 DEF Join, RelayTypeOK, sweepVars, revVars, snapVars
<1>7. conn[c].pc = "read" /\ open' = open
  BY DEF Join, Served, Receives
<1>8. ConnInv'
  BY <1>2, <1>3, <1>7 DEF ConnInv, InPlace
<1>. QED
  BY <1>6, <1>8 DEF Join, NeverPanics, SweepInv, sweepVars

LEMMA Leaves ==
    ASSUME ConnPart, NEW c \in Conns, leave(c)
    PROVE  ConnPart'
<1>. USE DEF ConnPart
<1>1. conn' \in [Conns -> Handler]
  BY HandlerType, PcNames DEF leave
<1>2. rooms' = [r \in Rooms |-> rooms[r] \ {c}] /\ rooms' \in [Rooms -> SUBSET Conns]
  BY DEF leave, RelayTypeOK
<1>3. RelayTypeOK'
  BY <1>1, <1>2 DEF leave, RelayTypeOK, sweepVars, revVars, snapVars
<1>4. /\ conn[c].pc = "leave" /\ conn'[c].pc = "close" /\ open' = open
      /\ \A d \in Conns : d # c => conn'[d] = conn[d]
  BY DEF leave, RelayTypeOK, Handler
<1>5. ConnInv'
  BY <1>2, <1>4 DEF ConnInv, InPlace
<1>. QED
  BY <1>3, <1>5 DEF leave, NeverPanics, SweepInv, sweepVars

LEMMA Ends ==
    ASSUME ConnPart, NEW c \in Conns, TearDown(c)
    PROVE  ConnPart'
<1>. USE DEF ConnPart
<1>1. conn' \in [Conns -> Handler]
  BY HandlerType, PcNames DEF TearDown
<1>2. queue' \in [Conns -> Seq(Frame)] /\ \A d \in Conns : Len(queue'[d]) <= SEND_BUFFER
  <2>1. <<>> \in Seq(Frame) /\ Len(<<>>) = 0
    BY EmptySeq
  <2>. QED
    BY <2>1, RelayAssumption DEF TearDown, RelayTypeOK
<1>3. RelayTypeOK'
  BY <1>1, <1>2 DEF TearDown, RelayTypeOK, sweepVars, revVars, snapVars
<1>4. /\ conn[c].pc = "close" /\ conn'[c].pc = "none" /\ rooms' = rooms
      /\ open' = [open EXCEPT ![c] = FALSE]
      /\ \A d \in Conns : d # c => conn'[d] = conn[d]
  BY DEF TearDown, RelayTypeOK, Handler
<1>5. InPlace(c)' /\ \A d \in Conns : d # c => open'[d] = open[d]
  BY <1>4 DEF ConnInv, InPlace, RelayTypeOK
<1>6. ConnInv'
  BY <1>4, <1>5, OthersStay
<1>. QED
  BY <1>3, <1>6 DEF TearDown, NeverPanics, SweepInv, sweepVars

LEMMA Writes ==
    ASSUME ConnPart, NEW c \in Conns, Write(c)
    PROVE  ConnPart'
<1>. USE DEF ConnPart
<1>1. queue[c] \in Seq(Frame) /\ queue[c] # <<>> /\ Len(queue[c]) <= SEND_BUFFER
  BY DEF Write, RelayTypeOK
<1>2. /\ Tail(queue[c]) \in Seq(Frame) /\ Head(queue[c]) \in Frame
      /\ Len(Tail(queue[c])) <= SEND_BUFFER
  <2>1. Len(queue[c]) \in Nat /\ Len(Tail(queue[c])) = Len(queue[c]) - 1
    BY <1>1, HeadTailProperties, LenProperties
  <2>. QED
    BY <1>1, <2>1, HeadTailProperties, RelayAssumption
<1>3. QueueType'
  BY <1>2 DEF Write, RelayTypeOK, QueueType
<1>4. seen' \in [Conns -> Frame \cup {NoFrame}]
  <2>1. \/ seen' = [seen EXCEPT ![c] = Head(queue[c])]
        \/ seen' = [seen EXCEPT ![c] = seen[c]]
    BY DEF Write
  <2>. QED
    BY <1>2, <2>1 DEF RelayTypeOK
<1>5. RelayTypeOK'
  BY <1>3, <1>4 DEF Write, RelayTypeOK, QueueType, sweepVars, revVars, snapVars
<1>6. ConnInv'
  BY DEF Write, ConnInv, InPlace
<1>. QED
  BY <1>5, <1>6 DEF Write, NeverPanics, SweepInv, sweepVars

LEMMA Applies ==
    ASSUME ConnPart, NEW c \in Conns, NEW playing \in BOOLEAN, ControlApplied(c, playing)
    PROVE  ConnPart'
<1>. USE DEF ConnPart
<1>. DEFINE room == conn[c].ask
            f == [kind |-> "timeline", room |-> room, n |-> tl[room].n + 1]
<1>1. /\ conn[c].pc = "control" /\ room \in Rooms /\ tl[room].n < MaxControls
      /\ broadcast(room, f)
      /\ conn' = [conn EXCEPT ![c].pc = "read", ![c].ask = NoRoom]
      /\ open' = open /\ rooms' = rooms
  BY DEF ControlApplied, ConnInv, InPlace
<1>2. tl[room].n + 1 \in 0..MaxControls
  BY <1>1, RelayAssumption DEF RelayTypeOK
<1>3. f \in Frame
  BY <1>1, <1>2 DEF Frame
<1>4. QueueType' /\ panicked' = panicked
  <2>. HIDE DEF f, room
  <2>. QED
    BY <1>1, <1>3, SentAll
<1>5. conn' \in [Conns -> Handler]
  BY <1>1, HandlerType, PcNames
<1>6. tl' \in [Rooms -> [n : 0..MaxControls, playing : BOOLEAN]]
  <2>1. tl' = [tl EXCEPT ![room] = [n |-> tl[room].n + 1, playing |-> playing]]
    BY DEF ControlApplied
  <2>. QED
    BY <1>1, <1>2, <2>1 DEF RelayTypeOK
<1>7. RelayTypeOK'
  BY <1>4, <1>5, <1>6 DEF ControlApplied, RelayTypeOK, QueueType, sweepVars, revVars, snapVars
<1>8. /\ conn'[c].pc = "read" /\ conn'[c].room = conn[c].room
      /\ \A d \in Conns : d # c => conn'[d] = conn[d]
  BY <1>1 DEF RelayTypeOK, Handler
<1>9. InPlace(c)'
  BY <1>1, <1>8 DEF ConnInv, InPlace
<1>10. ConnInv'
  BY <1>1, <1>8, <1>9, OthersStay
<1>. QED
  BY <1>4, <1>7, <1>10 DEF ControlApplied, NeverPanics, SweepInv, sweepVars

LEMMA HandleStep ==
    ASSUME RelayIInv, NEW c \in Conns, Handle(c) \/ Client(c) \/ Write(c)
    PROVE  RelayIInv'
<1>1. ConnPart
  BY DEF RelayIInv, ConnPart
<1>2. NoRoom \in Rooms \cup {NoRoom}
  OBVIOUS
<1>3. UNCHANGED <<revVars, impl>>
  BY DEF Handle, Client, Register, RefuseFrame, JoinAnswer, ControlAnswered,
         ControlApplied, Closes, Hangup, leave, TearDown, Accept, ClockPing, Control,
         Join, Write
<1>4. ConnPart'
  <2>1. CASE Register(c) \/ leave(c) \/ TearDown(c) \/ Write(c)
    BY <1>1, <2>1, Arrives, Leaves, Ends, Writes
  <2>2. CASE RefuseFrame(c) \/ Hangup(c)
    <3>1. conn[c].pc = "read" /\ conn' = [conn EXCEPT ![c].pc = "leave"]
      BY <2>2 DEF RefuseFrame, Receives, Hangup
    <3>2. /\ relayScope' = relayScope
          /\ UNCHANGED <<impl, queue, open, evicted, rooms, conns, tl, sweepVars, seen,
                         revVars, panicked>>
      BY <2>2 DEF RefuseFrame, Hangup
    <3>. QED
      BY <1>1, <1>2, <3>1, <3>2, Moves
  <2>3. CASE JoinAnswer(c)
    <3>1. conn[c].pc = "join" /\ conn[c].ask \in Rooms
      BY <1>1, <2>3 DEF JoinAnswer, ConnPart, ConnInv, InPlace
    <3>2. Timeline("ack", conn[c].ask) \in Frame
      BY <1>1, <3>1, FrameTypes DEF ConnPart
    <3>3. CASE trySend(c, Timeline("ack", conn[c].ask)) /\ relayScope' = relayScope
      BY <1>1, <2>3, <3>1, <3>2, <3>3, Reply DEF JoinAnswer
    <3>4. CASE /\ CallFails
               /\ conn' = [conn EXCEPT ![c].pc = "read", ![c].ask = NoRoom]
               /\ UNCHANGED queue
      <4>1. UNCHANGED <<impl, queue, open, evicted, rooms, conns, tl, sweepVars, seen,
                        revVars, panicked>>
        BY <2>3, <3>4 DEF JoinAnswer
      <4>. QED
        BY <1>1, <1>2, <3>1, <3>4, <4>1, Moves
    <3>. QED
      BY <2>3, <3>3, <3>4 DEF JoinAnswer
  <2>4. CASE ControlAnswered(c)
    <3>1. conn[c].pc = "control" /\ conn[c].ask \in Rooms
      BY <1>1, <2>4 DEF ControlAnswered, ConnPart, ConnInv, InPlace
    <3>2. Timeline("timeline", conn[c].ask) \in Frame /\ Rejected \in Frame
      BY <1>1, <3>1, FrameTypes DEF ConnPart
    <3>. QED
      BY <1>1, <2>4, <3>1, <3>2, Reply DEF ControlAnswered
  <2>5. CASE \E p \in BOOLEAN : ControlApplied(c, p)
    BY <1>1, <2>5, Applies
  <2>6. CASE Accept(c)
    BY <1>1, <1>2, <2>6, Moves DEF Accept
  <2>7. CASE ClockPing(c)
    BY <1>1, <2>7, Reply, FrameTypes DEF ClockPing, Served, Receives, ConnPart
  <2>8. CASE \E r \in Rooms : Control(c, r)
    <3>1. PICK r \in Rooms : Control(c, r)
      BY <2>8
    <3>. QED
      BY <1>1, <3>1, Moves DEF Control, Served, Receives
  <2>9. CASE \E r \in Rooms : Join(c, r)
    BY <1>1, <2>9, Joins
  <2>. QED
    BY <2>1, <2>2, <2>3, <2>4, <2>5, <2>6, <2>7, <2>8, <2>9 DEF Handle, Client, Closes
<1>5. MirrorInv' /\ RefreshInv' /\ HeardIsKnown'
  BY <1>3, RevocationKept
<1>. QED
  BY <1>4, <1>5 DEF RelayIInv, ConnPart

-----------------------------------------------------------------------------
(* The sweep.                                                               *)

LEMMA SweepStep ==
    ASSUME RelayIInv, Sweep
    PROVE  RelayIInv'
<1>1. ConnPart
  BY DEF RelayIInv, ConnPart
<1>2. UNCHANGED <<revVars, impl>>
  BY DEF Sweep, SweepTick, SweepRoom, SweepBroadcast
<1>3. conn' = conn /\ open' = open /\ rooms' = rooms
  BY DEF Sweep, SweepTick, SweepRoom, SweepBroadcast
<1>4. ConnInv'
  BY <1>1, <1>3 DEF ConnPart, ConnInv, InPlace
<1>5. ASSUME SweepTick PROVE ConnPart'
  BY <1>1, <1>4, <1>5
     DEF ConnPart, SweepTick, RelayTypeOK, SweepInv, NeverPanics, revVars, snapVars
<1>6. ASSUME \E r \in Rooms : SweepRoom(r) PROVE ConnPart'
  <2>1. PICK r \in Rooms : SweepRoom(r)
    BY <1>6
  <2>2. Timeline("timeline", r) \in Frame /\ Timeline("timeline", r).room = r
    BY <1>1, FrameTypes DEF ConnPart, Timeline
  <2>3. relayScope' \in [frames : Nat, facts : SUBSET Facts, errors : Nat]
    BY <1>1, <2>1, ScopeType DEF ConnPart, SweepRoom
  <2>4. /\ swept' = Timeline("timeline", r) \/ swept' = NoFrame
        /\ toSweep' = toSweep \ {r}
    BY <2>1 DEF SweepRoom
  <2>5. SweepInv'
    BY <2>2, <2>4 DEF SweepInv
  <2>6. RelayTypeOK'
    BY <1>1, <2>1, <2>2, <2>3, <2>4 DEF ConnPart, SweepRoom, RelayTypeOK, revVars, snapVars
  <2>. QED
    BY <1>1, <1>4, <2>1, <2>5, <2>6 DEF ConnPart, SweepRoom, NeverPanics
<1>7. ASSUME SweepBroadcast PROVE ConnPart'
  <2>1. swept.room \in Rooms /\ swept \in Frame /\ broadcast(swept.room, swept)
    BY <1>1, <1>7 DEF ConnPart, SweepInv, SweepBroadcast, RelayTypeOK
  <2>2. QueueType' /\ panicked' = panicked
    BY <1>1, <2>1, SentAll DEF ConnPart
  <2>3. RelayTypeOK'
    BY <1>1, <1>7, <2>2 DEF ConnPart, SweepBroadcast, RelayTypeOK, QueueType, revVars, snapVars
  <2>. QED
    BY <1>1, <1>4, <1>7, <2>2, <2>3 DEF ConnPart, SweepBroadcast, SweepInv, NeverPanics
<1>8. ConnPart'
  BY <1>5, <1>6, <1>7 DEF Sweep
<1>. QED
  BY <1>2, <1>8, RevocationKept DEF RelayIInv, ConnPart

-----------------------------------------------------------------------------
(* Revocation.                                                              *)

LEMMA RevocationConns ==
    ASSUME ConnPart, RelayTypeOK', UNCHANGED <<conn, open, rooms, swept, panicked>>
    PROVE  ConnPart'
<1>. QED
  BY DEF ConnPart, ConnInv, InPlace, SweepInv, NeverPanics

LEMMA TellStep ==
    ASSUME RelayIInv, NEW f \in Facts, Mirrored(f) \/ Announced(f) \/ Hear(f)
    PROVE  RelayIInv'
<1>1. ConnPart /\ impl' = impl /\ UNCHANGED <<conn, open, rooms, swept, panicked>>
  BY DEF RelayIInv, ConnPart, Mirrored, Announced, Hear, sweepVars
<1>2. CASE Mirrored(f)
  <2>1. RelayTypeOK'
    BY <1>1, <1>2 DEF ConnPart, Mirrored, RelayTypeOK, sweepVars, snapVars
  <2>2. MirrorInv' /\ RefreshInv' /\ HeardIsKnown'
    BY <1>2 DEF RelayIInv, Mirrored, MirrorInv, RefreshInv, HeardIsKnown, snapVars
  <2>. QED
    BY <1>1, <2>1, <2>2, RevocationConns DEF RelayIInv, ConnPart
<1>3. CASE Announced(f)
  <2>1. RelayTypeOK'
    BY <1>1, <1>3 DEF ConnPart, Announced, RelayTypeOK, sweepVars, snapVars
  <2>2. MirrorInv' /\ RefreshInv' /\ HeardIsKnown'
    BY <1>3 DEF RelayIInv, Announced, MirrorInv, RefreshInv, HeardIsKnown, snapVars
  <2>. QED
    BY <1>1, <2>1, <2>2, RevocationConns DEF RelayIInv, ConnPart
<1>4. CASE Hear(f)
  <2>1. /\ wire' \subseteq Facts /\ heard' \subseteq Facts /\ known' \subseteq Facts
        /\ pendingFacts' \subseteq Facts /\ evicted' \subseteq Conns
    BY <1>1, <1>4 DEF ConnPart, Hear, remember, evict, RelayTypeOK
  <2>2. RelayTypeOK'
    BY <1>1, <1>4, <2>1 DEF ConnPart, Hear, RelayTypeOK, sweepVars
  <2>3. MirrorInv'
    BY <1>4 DEF RelayIInv, Hear, MirrorInv
  <2>4. HeardIsKnown'
    BY <1>4 DEF RelayIInv, Hear, remember, HeardIsKnown
  <2>5. RefreshInv'
    BY <1>4 DEF RelayIInv, Hear, remember, RefreshInv
  <2>. QED
    BY <1>1, <2>2, <2>3, <2>4, <2>5, RevocationConns DEF RelayIInv, ConnPart
<1>. QED
  BY <1>2, <1>3, <1>4

(* One read of Redis: all that was told is in the mirror by then.           *)
LEMMA ReadStep ==
    ASSUME RelayIInv, NEW pc \in {"jtis", "versions"},
           NEW next \in {"versions", "install"}, NEW part \in {Jtis, Versions},
           pc = "jtis" => next = "versions" /\ part = Jtis,
           pc = "versions" => next = "install" /\ part = Versions,
           RefreshRead(pc, next, part)
    PROVE  RelayIInv'
<1>1. /\ ConnPart /\ impl' = impl /\ UNCHANGED <<conn, open, rooms, swept, panicked>>
      /\ UNCHANGED <<redisMirror, wire, known, pendingFacts, heard>> /\ refresh.pc = pc
  BY DEF RelayIInv, ConnPart, RefreshRead, sweepVars
<1>2. refresh \in Refresh /\ redisMirror \subseteq Facts /\ part \subseteq Facts
  BY <1>1 DEF ConnPart, RelayTypeOK, Facts
<1>3. /\ refresh' \in Refresh /\ refresh'.pc = next
      /\ \/ refresh'.ok = refresh.ok /\ refresh'.got = refresh.got
         \/ /\ refresh'.ok = refresh.ok \cup {pc}
            /\ refresh'.got = refresh.got \cup (redisMirror \cap part)
  <2>1. CASE refresh' = [refresh EXCEPT !.pc = next, !.ok = @ \cup {pc},
                                        !.got = @ \cup (redisMirror \cap part)]
    BY <1>2, <2>1 DEF Refresh
  <2>2. CASE refresh' = [refresh EXCEPT !.pc = next]
    BY <1>2, <2>2 DEF Refresh
  <2>. QED
    BY <2>1, <2>2 DEF RefreshRead
<1>4. relayScope' \in [frames : Nat, facts : SUBSET Facts, errors : Nat]
  BY <1>1, ScopeType DEF ConnPart, RefreshRead
<1>5. RelayTypeOK'
  BY <1>1, <1>3, <1>4 DEF ConnPart, RefreshRead, RelayTypeOK, sweepVars
<1>6. heard \subseteq redisMirror
  BY DEF RelayIInv, MirrorInv
<1>7. RefreshInv'
  <2>1. CASE pc = "jtis"
    BY <1>1, <1>3, <1>6, <2>1 DEF RelayIInv, RefreshInv
  <2>2. CASE pc = "versions"
    BY <1>1, <1>3, <1>6, <2>2 DEF RelayIInv, RefreshInv
  <2>. QED
    BY <2>1, <2>2
<1>8. MirrorInv' /\ HeardIsKnown'
  BY <1>1 DEF RelayIInv, MirrorInv, HeardIsKnown
<1>. QED
  BY <1>1, <1>5, <1>7, <1>8, RevocationConns DEF RelayIInv, ConnPart

LEMMA RefreshStep ==
    ASSUME RelayIInv, Refreshes
    PROVE  RelayIInv'
<1>1. ConnPart
  BY DEF RelayIInv, ConnPart
<1>2. CASE RefreshBegin
  <2>1. /\ UNCHANGED <<conn, open, rooms, swept, panicked>>
        /\ refresh' = [pc |-> "clear", got |-> {}, ok |-> {}]
    BY <1>2 DEF RefreshBegin, sweepVars, NoRefresh
  <2>2. RelayTypeOK'
    <3>1. refresh' \in Refresh
      BY <2>1 DEF Refresh
    <3>. QED
      BY <1>1, <1>2, <3>1 DEF ConnPart, RefreshBegin, RelayTypeOK, sweepVars
  <2>3. MirrorInv' /\ RefreshInv' /\ HeardIsKnown'
    BY <1>2, <2>1 DEF RelayIInv, RefreshBegin, MirrorInv, RefreshInv, HeardIsKnown
  <2>. QED
    BY <1>1, <2>1, <2>2, <2>3, RevocationConns DEF RelayIInv, ConnPart
<1>3. CASE RefreshClear
  <2>1. /\ UNCHANGED <<conn, open, rooms, swept, panicked>> /\ refresh.pc = "clear"
        /\ refresh' = [refresh EXCEPT !.pc = "jtis"]
    BY <1>3 DEF RefreshClear, sweepVars
  <2>2. refresh' \in Refresh /\ refresh'.pc = "jtis" /\ refresh'.ok = {}
    BY <1>1, <2>1 DEF ConnPart, RelayTypeOK, Refresh, RelayIInv, RefreshInv
  <2>3. RelayTypeOK'
    BY <1>1, <1>3, <2>2 DEF ConnPart, RefreshClear, RelayTypeOK, sweepVars
  <2>4. MirrorInv' /\ RefreshInv' /\ HeardIsKnown'
    BY <1>3, <2>2 DEF RelayIInv, RefreshClear, MirrorInv, RefreshInv, HeardIsKnown
  <2>. QED
    BY <1>1, <2>1, <2>3, <2>4, RevocationConns DEF RelayIInv, ConnPart
<1>4. CASE RefreshJtis
  BY <1>4, ReadStep DEF RefreshJtis
<1>5. CASE RefreshVersions
  BY <1>5, ReadStep DEF RefreshVersions
<1>6. CASE RefreshInstall
  <2>1. /\ UNCHANGED <<conn, open, rooms, swept, panicked, heard, impl, wire, redisMirror>>
        /\ refresh' = [pc |-> "idle", got |-> {}, ok |-> {}] /\ pendingFacts' = {}
        /\ known' = Installed(Jtis, "jtis") \cup Installed(Versions, "versions")
        /\ refresh.pc = "install"
    BY <1>6 DEF RefreshInstall, sweepVars, NoRefresh
  <2>2. known' \subseteq Facts
    BY <1>1, <2>1 DEF ConnPart, RelayTypeOK, Installed, Refresh, Facts
  <2>3. RelayTypeOK'
    BY <1>1, <1>6, <2>1, <2>2 DEF ConnPart, RefreshInstall, RelayTypeOK, Refresh, sweepVars
  <2>4. impl = "rs" => heard \cap Jtis \subseteq Installed(Jtis, "jtis")
    BY <2>1 DEF RelayIInv, RefreshInv, HeardIsKnown, Installed
  <2>5. impl = "rs" => heard \cap Versions \subseteq Installed(Versions, "versions")
    BY <2>1 DEF RelayIInv, RefreshInv, HeardIsKnown, Installed
  <2>6. HeardIsKnown'
    BY <1>1, <2>1, <2>4, <2>5 DEF HeardIsKnown, ConnPart, RelayTypeOK, Facts
  <2>7. MirrorInv' /\ RefreshInv'
    BY <2>1 DEF RelayIInv, MirrorInv, RefreshInv
  <2>. QED
    BY <1>1, <2>1, <2>3, <2>6, <2>7, RevocationConns DEF RelayIInv, ConnPart
<1>. QED
  BY <1>2, <1>3, <1>4, <1>5, <1>6 DEF Refreshes

LEMMA EvictStep ==
    ASSUME RelayIInv, RevocationSweep
    PROVE  RelayIInv'
<1>1. ConnPart /\ UNCHANGED <<conn, open, rooms, swept, panicked>>
  BY DEF RelayIInv, ConnPart, RevocationSweep, sweepVars
<1>2. RelayTypeOK'
  BY <1>1 DEF ConnPart, RevocationSweep, evict, RelayTypeOK, sweepVars, revVars, snapVars
<1>3. MirrorInv' /\ RefreshInv' /\ HeardIsKnown'
  BY RevocationKept DEF RevocationSweep
<1>. QED
  BY <1>1, <1>2, <1>3, RevocationConns DEF RelayIInv, ConnPart

-----------------------------------------------------------------------------
(* Frames and rooms.                                                        *)

(* The frame a step queues for c, if any, is of its room or answers it.     *)
Expected(c, f) ==
    f.kind \in {"timeline", "ack"} =>
        \/ conn[c].room = f.room
        \/ f.kind = "timeline" /\ AnswersOwnControl(c, f.room)

NotStray(c) ==
    Len(queue'[c]) > Len(queue[c]) => Expected(c, queue'[c][Len(queue'[c])])

LEMMA NoneQueued ==
    ASSUME RelayTypeOK, NEW c \in Conns, queue'[c] = queue[c]
    PROVE  NotStray(c)
<1>. QED
  BY Lengths DEF NotStray

LEMMA ReplyNotStray ==
    ASSUME RelayTypeOK, NEW c \in Conns, NEW f \in Frame, trySend(c, f),
           Expected(c, f)
    PROVE  \A d \in Conns : NotStray(d)
<1>1. NotStray(c)
  BY SentOne DEF Queued, NotStray
<1>2. ASSUME NEW d \in Conns, d # c PROVE NotStray(d)
  BY <1>2, SentOne, NoneQueued
<1>. QED
  BY <1>1, <1>2

LEMMA BroadcastNotStray ==
    ASSUME RelayTypeOK, ConnInv, NEW r \in Rooms, NEW f \in Frame, f.room = r, broadcast(r, f)
    PROVE  \A d \in Conns : NotStray(d)
<1>1. SUFFICES ASSUME NEW d \in Conns PROVE NotStray(d)
  OBVIOUS
<1>2. CASE d \in rooms[r]
  <2>1. conn[d].room = r
    BY <1>2 DEF ConnInv, InPlace
  <2>2. Queued(d, f)
    BY SentAll
  <2>. QED
    BY <2>1, <2>2 DEF Queued, NotStray, Expected
<1>3. CASE d \notin rooms[r]
  BY <1>3, SentAll, NoneQueued
<1>. QED
  BY <1>2, <1>3

LEMMA ConnNotStray ==
    ASSUME RelayIInv, NEW c \in Conns, Handle(c) \/ Client(c) \/ Write(c)
    PROVE  \A d \in Conns : NotStray(d)
<1>. USE DEF RelayIInv
<1>1. CASE queue' = queue
  BY <1>1, NoneQueued
<1>2. CASE TearDown(c) \/ Write(c)
  <2>1. \A d \in Conns : d # c => queue'[d] = queue[d]
    BY <1>2 DEF TearDown, Write, RelayTypeOK
  <2>2. Len(queue[c]) \in Nat /\ queue[c] \in Seq(Frame)
    BY Lengths DEF RelayTypeOK
  <2>3. ~(Len(queue'[c]) > Len(queue[c]))
    <3>1. CASE TearDown(c)
      <4>1. Len(queue'[c]) = 0
        BY <3>1, EmptySeq DEF TearDown, RelayTypeOK
      <4>. QED
        BY <2>2, <4>1
    <3>2. CASE Write(c)
      <4>1. queue'[c] = Tail(queue[c]) /\ queue[c] # <<>>
        BY <3>2 DEF Write, RelayTypeOK
      <4>2. Len(Tail(queue[c])) = Len(queue[c]) - 1
        BY <2>2, <4>1, HeadTailProperties
      <4>. QED
        BY <2>2, <4>1, <4>2
    <3>. QED
      BY <1>2, <3>1, <3>2
  <2>4. NotStray(c)
    BY <2>3 DEF NotStray
  <2>. QED
    BY <2>1, <2>4, NoneQueued
<1>3. CASE JoinAnswer(c) /\ trySend(c, Timeline("ack", conn[c].ask))
  <2>1. conn[c].ask \in Rooms /\ conn[c].ask = conn[c].room
    BY <1>3 DEF JoinAnswer, ConnInv, InPlace
  <2>2. /\ Timeline("ack", conn[c].ask) \in Frame
        /\ Expected(c, Timeline("ack", conn[c].ask))
    BY <2>1, FrameTypes DEF Timeline, Expected
  <2>. QED
    BY <1>3, <2>2, ReplyNotStray
<1>4. CASE ControlAnswered(c)
  <2>1. conn[c].ask \in Rooms /\ conn[c].pc = "control"
    BY <1>4 DEF ControlAnswered, ConnInv, InPlace
  <2>2. conn'[c].ask = NoRoom
    BY <1>4 DEF ControlAnswered, trySend, RelayTypeOK, Handler
  <2>3. /\ Timeline("timeline", conn[c].ask) \in Frame
        /\ Expected(c, Timeline("timeline", conn[c].ask))
    BY <2>1, <2>2, FrameTypes DEF Timeline, Expected, AnswersOwnControl
  <2>4. Rejected \in Frame /\ Expected(c, Rejected)
    BY FrameTypes DEF Rejected, Expected
  <2>. QED
    BY <1>4, <2>3, <2>4, ReplyNotStray DEF ControlAnswered
<1>5. CASE ClockPing(c)
  <2>1. Pong \in Frame /\ Expected(c, Pong)
    BY FrameTypes DEF Pong, Expected
  <2>. QED
    BY <1>5, <2>1, ReplyNotStray DEF ClockPing
<1>6. CASE \E p \in BOOLEAN : ControlApplied(c, p)
  <2>1. PICK p \in BOOLEAN : ControlApplied(c, p)
    BY <1>6
  <2>. DEFINE r == conn[c].ask
              f == [kind |-> "timeline", room |-> r, n |-> tl[r].n + 1]
  <2>2. r \in Rooms /\ tl[r].n < MaxControls /\ broadcast(r, f)
    BY <2>1 DEF ControlApplied, ConnInv, InPlace
  <2>3. tl[r].n + 1 \in 0..MaxControls
    BY <2>2, RelayAssumption DEF RelayTypeOK
  <2>4. f \in Frame /\ f.room = r
    BY <2>2, <2>3 DEF Frame
  <2>. HIDE DEF f, r
  <2>. QED
    BY <2>2, <2>4, BroadcastNotStray
<1>. QED
  BY <1>1, <1>2, <1>3, <1>4, <1>5, <1>6
     DEF Handle, Client, Register, RefuseFrame, JoinAnswer, Closes, Hangup, leave,
         Accept, Control, Join

LEMMA NextNotStray ==
    ASSUME RelayIInv, [RelayStep]_relayVars
    PROVE  \A c \in Conns : NotStray(c)
<1>1. CASE queue' = queue
  BY <1>1, NoneQueued DEF RelayIInv
<1>2. CASE SweepBroadcast
  <2>1. swept.room \in Rooms /\ swept \in Frame /\ broadcast(swept.room, swept)
    BY <1>2 DEF RelayIInv, SweepInv, SweepBroadcast, RelayTypeOK
  <2>. QED
    BY <2>1, BroadcastNotStray DEF RelayIInv
<1>3. CASE \E c \in Conns : Handle(c) \/ Client(c) \/ Write(c)
  BY <1>3, ConnNotStray
<1>4. queue' = queue \/ SweepBroadcast \/ \E c \in Conns : Handle(c) \/ Client(c) \/ Write(c)
  BY DEF RelayStep, Sweep, SweepTick, SweepRoom, Refreshes, RefreshBegin, RefreshClear,
         RefreshJtis, RefreshVersions, RefreshRead, RefreshInstall, RevocationSweep,
         Mirrored, Announced, Hear, relayVars
<1>. QED
  BY <1>1, <1>2, <1>3, <1>4

-----------------------------------------------------------------------------
(* The theorems.                                                            *)

LEMMA RelayInitInv == ASSUME RelayInit PROVE RelayIInv
<1>1. <<>> \in Seq(Frame) /\ Len(<<>>) = 0
  BY EmptySeq
<1>2. NoRefresh \in Refresh
  BY DEF NoRefresh, Refresh
<1>3. relayScope \in [frames : Nat, facts : SUBSET Facts, errors : Nat]
  BY RelayAssumption DEF RelayInit
<1>4. RelayTypeOK
  <2>1. [pc |-> "none", room |-> NoRoom, ask |-> NoRoom] \in Handler
    BY DEF Handler, Pcs
  <2>2. [n |-> 0, playing |-> FALSE] \in [n : 0..MaxControls, playing : BOOLEAN]
    BY RelayAssumption
  <2>3. /\ conn \in [Conns -> Handler]
        /\ tl \in [Rooms -> [n : 0..MaxControls, playing : BOOLEAN]]
    BY <2>1, <2>2 DEF RelayInit
  <2>4. QueueType
    BY <1>1, RelayAssumption DEF RelayInit, QueueType
  <2>. QED
    BY <1>2, <1>3, <2>3, <2>4 DEF RelayInit, RelayTypeOK, QueueType
<1>. QED
  BY <1>4 DEF RelayInit, RelayIInv, ConnInv, InPlace, SweepInv, MirrorInv, RefreshInv, NoRefresh,
              NeverPanics, HeardIsKnown

LEMMA RelayNextInv == ASSUME RelayIInv, [RelayStep]_relayVars PROVE RelayIInv'
<1>1. CASE UNCHANGED relayVars
  BY <1>1 DEF relayVars, sweepVars, snapVars, revVars, RelayIInv, RelayTypeOK, ConnInv, InPlace, SweepInv,
              MirrorInv, RefreshInv, NeverPanics, HeardIsKnown
<1>. QED
  BY <1>1, HandleStep, SweepStep, RefreshStep, EvictStep, TellStep DEF RelayStep

(* The inductive invariant of the relays holds of every behaviour: who has  *)
(* a queue, who is in a room, and what a refresh in flight has covered      *)
(* (relay-go room.go and main.go, relay-rs main.rs).                        *)
THEOREM RelayInvariance == RelaySpec => []RelayIInv
<1>1. RelayIInv /\ [RelayStep]_relayVars => RelayIInv'
  BY RelayNextInv
<1>2. RelayInit => RelayIInv
  BY RelayInitInv
<1>. QED
  BY <1>1, <1>2, PTL DEF RelaySpec

(* Queues and revocations survive each other, for any connections, rooms,   *)
(* tokens and buffers: nothing is sent on a queue that was closed, and a    *)
(* refresh loses nothing the relay was told of (evict, tearDown,            *)
(* refresh_snapshot, remember_jti).                                         *)
THEOREM QueuesAndRevocations == RelaySpec => []RelaySound
<1>1. RelayIInv => RelaySound
  BY DEF RelayIInv, RelaySound
<1>. QED
  BY <1>1, RelayInvariance, PTL

(* A timeline is only ever queued for a connection that is in its room then *)
(* (broadcast, sweep), or for the one whose own control for that room it    *)
(* answers (a control applied before, trySend).                             *)
THEOREM FramesInRoom == RelaySpec => NoStrayFrames
<1>1. RelayIInv /\ [RelayStep]_relayVars => \A c \in Conns : NotStray(c)
  BY NextNotStray
<1>2. RelayIInv /\ [RelayStep]_relayVars =>
        [\A c \in Conns :
            LET f == queue'[c][Len(queue'[c])] IN
            Len(queue'[c]) > Len(queue[c]) /\ f.kind \in {"timeline", "ack"}
              => \/ conn[c].room = f.room
                 \/ f.kind = "timeline" /\ AnswersOwnControl(c, f.room)]_relayVars
  BY <1>1 DEF NotStray, Expected
<1>. QED
  BY <1>2, RelayInvariance, PTL DEF RelaySpec, NoStrayFrames

=============================================================================
