----------------------- MODULE RoomLifecycleProofs -----------------------
(***************************************************************************)
(* Proofs about the rooms for every value of the constants.  RoomLifecycle:*)
(* without Redis, a room somebody is in has its state, and whoever it was  *)
(* told controls it can.  RoomPages: a room ends whole and for its own     *)
(* pages only, its settings are what was last chosen, and a message is     *)
(* shown once.                                                             *)
(***************************************************************************)
EXTENDS RoomLifecycle, RoomPages, WellFoundedInduction, SequenceTheorems,
        FiniteSetTheorems, TLAPS

-----------------------------------------------------------------------------
(* The inductive invariant, part by part.                                   *)

Came(s) == \E k \in 1..Len(arrivals) : arrivals[k] = s

(* Only sockets that have come are anywhere, and those that are still here  *)
(* have not begun to leave.                                                 *)
SockInv ==
    /\ live \subseteq site.socks
    /\ \A s \in Socks :
          /\ s \in live => Came(s) /\ leave[s] = "no"
          /\ join[s] # "no" => Came(s) /\ s \in site.socks
          /\ leave[s] # "no" => Came(s) /\ s \in site.socks
          /\ s \in userRooms => join[s] \in {"queued", "ensured", "reclaimed", "done"}
          /\ \A t \in snap[s] : Came(t)
          /\ join[s] \in {"looked", "queued"} => seenRow[s].video \in Videos

Releasing == {"queued", "got", "cleared"}

(* The gate holds each operation once, while its handler waits for it, and  *)
(* only the first has begun.                                                *)
Waits(g, i, k) ==
    /\ site.inst[g.sock] = i
    /\ g.op = "ensure" => join[g.sock] = "queued"
    /\ g.op = "release" => leave[g.sock] \in Releasing
    /\ g.op = "release" /\ k # 1 => leave[g.sock] = "queued"

GateInv ==
    \A i \in Instances :
        /\ \A k \in 1..Len(gate[i]) : Waits(gate[i][k], i, k)
        /\ \A k, m \in 1..Len(gate[i]) : gate[i][k] = gate[i][m] => k = m

ReleaseInv ==
    \A s \in Socks : leave[s] \in Releasing =>
        \E k \in 1..Len(gate[site.inst[s]]) :
            gate[site.inst[s]][k] = [op |-> "release", sock |-> s]

(* In one process.  A release that is queued behind somebody's ensureRoom   *)
(* was decided after that socket had gone; so it never meets a room that    *)
(* somebody has got past ensureRoom and is still in.                        *)
Behind ==
    \A i \in Instances : \A k, m \in 1..Len(gate[i]) :
        k < m /\ gate[i][k].op = "ensure" /\ gate[i][m].op = "release"
          => gate[i][k].sock \notin InRoom

Past == {"ensured", "reclaimed", "done"}

Hydrated(s) ==
    /\ meta[site.inst[s]] # NoMeta /\ tl # NoVideo
    /\ \A k \in 1..Len(gate[site.inst[s]]) : gate[site.inst[s]][k].op = "ensure"

StateInv ==
    /\ Behind
    /\ \A s \in InRoom : join[s] \in Past => Hydrated(s)
    /\ \A s \in Socks :
          /\ leave[s] \notin {"fetching", "fetched"}
          /\ leave[s] = "cleared" => meta[site.inst[s]] = NoMeta

(* A stand-in the room was told of is in the meta; while a tear-down is     *)
(* pending there is none.                                                   *)
StandIn == controller \notin {Nobody, Creator}
ControllerInv ==
    StandIn =>
        /\ \A s \in Socks : leave[s] \notin {"queued", "got"}
        /\ \A s \in site.socks :
              meta[site.inst[s]] # NoMeta /\ meta[site.inst[s]].active = controller

IInv ==
    /\ TypeOK
    /\ SockInv
    /\ GateInv
    /\ ReleaseInv
    /\ site.inMemory => StateInv /\ ControllerInv

-----------------------------------------------------------------------------
(* The queue of a room: what its end gains and its head loses.              *)

LEMMA SiteType ==
    ASSUME TypeOK
    PROVE  /\ site \in Sites /\ site \in Site
           /\ site.inMemory \in BOOLEAN /\ site.socks \subseteq Socks
           /\ site.inst \in [Socks -> Instances]
           /\ site.videos \subseteq Videos /\ site.patches \in Nat
           /\ site.inMemory => \A a, b \in site.socks : site.inst[a] = site.inst[b]
<1>1. site \in Sites /\ site \in Site
  BY SitesAssumption DEF TypeOK
<1>2. site.inMemory => \A a, b \in site.socks : site.inst[a] = site.inst[b]
  BY <1>1, SitesAssumption
<1>. QED
  BY <1>1, <1>2 DEF Site

LEMMA AppendedAt ==
    ASSUME NEW S, NEW q \in Seq(S), NEW e \in S
    PROVE  /\ Append(q, e) \in Seq(S)
           /\ Len(Append(q, e)) = Len(q) + 1
           /\ \A k \in 1..Len(q) : Append(q, e)[k] = q[k]
           /\ Append(q, e)[Len(q) + 1] = e
<1>. QED
  BY AppendProperties

Op == [op : {"ensure", "release"}, sock : Socks]

(* The operation at the gate's head is the one that leaves it.              *)
LEMMA UngatedHead ==
    ASSUME TypeOK, GateInv, NEW i \in Instances, NEW op, NEW s,
           AtGate(i, op, s), Ungate(i, op, s)
    PROVE  /\ gate' = [gate EXCEPT ![i] = Tail(gate[i])]
           /\ gate[i][1] = [op |-> op, sock |-> s]
           /\ 1 \in 1..Len(gate[i])
           /\ Tail(gate[i]) \in Seq(Op)
           /\ Len(Tail(gate[i])) = Len(gate[i]) - 1
           /\ \A k \in 1..Len(Tail(gate[i])) : Tail(gate[i])[k] = gate[i][k + 1]
<1>. DEFINE q == gate[i]
            g == [op |-> op, sock |-> s]
            k == CHOOSE k \in 1..Len(q) : q[k] = g
<1>1. q \in Seq(Op) /\ q # <<>>
  BY DEF TypeOK, AtGate, Op
<1>2. Len(q) \in Nat /\ Len(q) # 0
  BY <1>1, EmptySeq, LenProperties
<1>3. 1 \in 1..Len(q) /\ q[1] = g
  BY <1>1, <1>2 DEF AtGate
<1>4. k \in 1..Len(q) /\ q[k] = g
  BY <1>3
<1>5. \A j, m \in 1..Len(q) : q[j] = q[m] => j = m
  BY DEF GateInv
<1>6. k = 1
  BY <1>3, <1>4, <1>5
<1>7. gate' = [gate EXCEPT ![i] = SubSeq(q, 1, k - 1) \o SubSeq(q, k + 1, Len(q))]
  BY DEF Ungate
<1>8. gate' = [gate EXCEPT ![i] = SubSeq(q, 1, 0) \o SubSeq(q, 2, Len(q))]
  <2>. HIDE DEF k, q, g
  <2>. QED
    BY <1>6, <1>7
<1>. HIDE DEF q, g, k
<1>9. SubSeq(q, 1, 0) = <<>>
  BY <1>1, SubSeqEmpty
<1>10. Tail(q) = SubSeq(q, 2, Len(q)) /\ Tail(q) \in Seq(Op)
  BY <1>1, TailIsSubSeq, HeadTailProperties
<1>11. SubSeq(q, 1, 0) \o SubSeq(q, 2, Len(q)) = Tail(q)
  BY <1>9, <1>10, ConcatEmptySeq
<1>12. /\ Len(Tail(q)) = Len(q) - 1
       /\ \A j \in 1..Len(Tail(q)) : Tail(q)[j] = q[j + 1]
  BY <1>1, <1>2, HeadTailProperties
<1>. QED
  BY <1>3, <1>8, <1>10, <1>11, <1>12 DEF q, g

(* Whoever has been in the room longest is in the room.                     *)
LEMMA LongestIsThere ==
    ASSUME TypeOK, NEW S, S # {}, \A t \in S : Came(t)
    PROVE  LongestConnected(S) \in S /\ LongestConnected(S) \in Socks
<1>. DEFINE n == Len(arrivals)
            T == {k \in 1..n : arrivals[k] \in S}
            First(k) == /\ arrivals[k] \in S
                        /\ \A j \in 1..k-1 : arrivals[j] \notin S
<1>1. arrivals \in Seq(Socks) /\ n \in Nat
  BY LenProperties DEF TypeOK
<1>2. T \subseteq Nat /\ T # {}
  <2>1. PICK t \in S : Came(t)
    OBVIOUS
  <2>2. PICK k \in 1..n : arrivals[k] = t
    BY <2>1 DEF Came
  <2>. QED
    BY <1>1, <2>1, <2>2
<1>3. PICK m \in T : \A k \in T : ~ (<<k, m>> \in OpToRel(<, Nat))
  <2>. HIDE DEF T
  <2>. QED
    BY <1>2, NatLessThanWellFounded, WFMin
<1>4. m \in 1..n /\ First(m)
  <2>1. \A k \in T : ~ (k < m)
    BY <1>2, <1>3 DEF OpToRel
  <2>2. SUFFICES ASSUME NEW j \in 1..m-1, arrivals[j] \in S PROVE FALSE
    OBVIOUS
  <2>3. j \in T /\ j < m
    BY <1>1, <2>2
  <2>. QED
    BY <2>1, <2>3
<1>. DEFINE c == CHOOSE k \in 1..n : First(k)
<1>5. c \in 1..n /\ First(c)
  BY <1>4
<1>6. LongestConnected(S) = arrivals[c]
  BY DEF LongestConnected
<1>7. arrivals[c] \in Socks
  <2>. HIDE DEF c, First
  <2>. QED
    BY <1>1, <1>5, ElementOfSeq
<1>. QED
  BY <1>5, <1>6, <1>7

-----------------------------------------------------------------------------
(* Types.                                                                   *)

LEMMA InitInv == ASSUME Init PROVE IInv
<1>1. /\ site \in Site /\ site \in Sites
      /\ site.patches \in Nat /\ site.videos \subseteq Videos
  BY SitesAssumption DEF Init, Site
<1>2. TypeOK
  <2>1. <<>> \in Seq(Op) /\ <<>> \in Seq(Socks)
    BY EmptySeq
  <2>2. "no" \in JoinStates /\ "no" \in LeaveStates
    BY DEF JoinStates, LeaveStates
  <2>3. row \in Videos /\ patches \in 0..site.patches
    BY <1>1 DEF Init
  <2>. QED
    BY <1>1, <2>1, <2>2, <2>3 DEF Init, TypeOK, Op
<1>3. SockInv
  BY DEF Init, SockInv
<1>4. \A i \in Instances : Len(gate[i]) = 0
  BY EmptySeq DEF Init
<1>5. GateInv
  BY <1>4 DEF GateInv
<1>6. ReleaseInv
  BY DEF Init, ReleaseInv, Releasing
<1>7. StateInv
  <2>1. Behind
    BY <1>4 DEF Behind
  <2>. QED
    BY <2>1 DEF Init, StateInv, InRoom
<1>8. ControllerInv
  BY DEF Init, ControllerInv, StandIn
<1>. QED
  BY <1>2, <1>3, <1>5, <1>6, <1>7, <1>8 DEF IInv

Meta == [active : Users \cup {Nobody}, guests : BOOLEAN]

(* What a leave handler changes when it resumes.                            *)
LEMMA ResumeType ==
    ASSUME TypeOK, NEW s \in Socks, NEW S, \A t \in S : Came(t), Resume(s, S)
    PROVE  /\ meta' \in [Instances -> Meta \cup {NoMeta}]
           /\ gate' \in [Instances -> Seq(Op)]
           /\ leave' \in [Socks -> LeaveStates]
           /\ controller' \in Users \cup {Nobody}
<1>. DEFINE i == site.inst[s]
<1>1. i \in Instances
  BY SiteType
<1>2. "queued" \in LeaveStates /\ "marking" \in LeaveStates
  BY DEF LeaveStates
<1>3. CASE S = {}
  <2>1. [op |-> "release", sock |-> s] \in Op
    BY DEF Op
  <2>2. Append(gate[i], [op |-> "release", sock |-> s]) \in Seq(Op)
    BY <1>1, <2>1, AppendedAt DEF TypeOK, Op
  <2>. QED
    BY <1>1, <1>2, <1>3, <2>2 DEF Resume, TypeOK, Meta, Op
<1>4. CASE S # {}
  <2>. DEFINE u == UserOf[LongestConnected(S)]
              next == succession(i, UserOf[s], u)
  <2>1. u \in Users
    BY <1>4, LongestIsThere, SocksAssumption
  <2>2. next \in Users \cup {Nobody}
    BY <2>1 DEF succession
  <2>3. next # Nobody => meta[i] # NoMeta /\ meta[i] \in Meta
    BY <1>1 DEF succession, TypeOK, Meta
  <2>4. /\ leave' = [leave EXCEPT ![s] = "marking"]
        /\ meta' = IF next = Nobody THEN meta ELSE [meta EXCEPT ![i].active = next]
        /\ controller' = IF next = Nobody THEN controller ELSE next
        /\ gate' = gate
    BY <1>4 DEF Resume
  <2>. HIDE DEF next
  <2>5. meta' \in [Instances -> Meta \cup {NoMeta}]
    <3>1. CASE next = Nobody
      BY <2>4, <3>1 DEF TypeOK, Meta
    <3>2. CASE next # Nobody
      <4>1. [meta[i] EXCEPT !.active = next] \in Meta
        BY <2>2, <2>3, <3>2 DEF Meta
      <4>. QED
        BY <1>1, <2>4, <3>2, <4>1 DEF TypeOK, Meta
    <3>. QED
      BY <3>1, <3>2
  <2>. QED
    BY <1>2, <2>2, <2>4, <2>5 DEF TypeOK, Op
<1>. QED
  BY <1>3, <1>4

LEMMA JoinType ==
    ASSUME TypeOK, GateInv, NEW s \in site.socks, JoinStep(s), UNCHANGED restVars
    PROVE  TypeOK'
<1>. USE DEF restVars
<1>. DEFINE i == site.inst[s]
<1>1. s \in Socks /\ i \in Instances
  BY SiteType
<1>2. {"refused", "looked", "queued", "ensured", "reclaimed", "done"} \subseteq JoinStates
  BY DEF JoinStates
<1>3. CASE LookUp(s)
  <2>1. [video |-> row, guests |-> guests] \in
            [video : Videos \cup {NoVideo}, guests : BOOLEAN]
    BY DEF TypeOK
  <2>2. seenRow' \in [Socks -> [video : Videos \cup {NoVideo}, guests : BOOLEAN]]
    BY <1>1, <1>3, <2>1 DEF LookUp, TypeOK
  <2>3. join' \in [Socks -> JoinStates]
    BY <1>1, <1>2, <1>3 DEF LookUp, TypeOK
  <2>. QED
    BY <1>3, <2>2, <2>3 DEF LookUp, TypeOK, roomVars
<1>4. CASE Enter(s)
  <2>1. [op |-> "ensure", sock |-> s] \in Op
    BY <1>1 DEF Op
  <2>2. Append(gate[i], [op |-> "ensure", sock |-> s]) \in Seq(Op)
    BY <1>1, <2>1, AppendedAt DEF TypeOK, Op
  <2>3. gate' \in [Instances -> Seq(Op)]
    BY <1>1, <1>4, <2>2 DEF Enter, TypeOK, Op
  <2>. QED
    BY <1>1, <1>2, <1>4, <2>3 DEF Enter, TypeOK, Op
<1>5. CASE EnsureRoom(s)
  <2>1. gate' \in [Instances -> Seq(Op)]
    <3>1. AtGate(i, "ensure", s) /\ Ungate(i, "ensure", s)
      BY <1>5 DEF EnsureRoom
    <3>2. gate' = [gate EXCEPT ![i] = Tail(gate[i])] /\ Tail(gate[i]) \in Seq(Op)
      BY <1>1, <3>1, UngatedHead
    <3>. QED
      BY <1>1, <3>2 DEF TypeOK, Op
  <2>2. meta' \in [Instances -> Meta \cup {NoMeta}]
    <3>1. [active |-> Nobody, guests |-> seenRow[s].guests] \in Meta
      BY <1>1 DEF TypeOK, Meta
    <3>. QED
      BY <1>1, <1>5, <3>1 DEF EnsureRoom, TypeOK, Meta
  <2>3. tl' \in Videos \cup {NoVideo}
    BY <1>1, <1>5 DEF EnsureRoom, TypeOK
  <2>. QED
    BY <1>1, <1>2, <1>5, <2>1, <2>2, <2>3 DEF EnsureRoom, TypeOK, Op, Meta
<1>6. CASE Reclaim(s)
  <2>1. meta' \in [Instances -> Meta \cup {NoMeta}]
    <3>1. meta[i] # NoMeta => [meta[i] EXCEPT !.active = Nobody] \in Meta
      BY <1>1 DEF TypeOK, Meta
    <3>. QED
      BY <1>1, <1>6, <3>1 DEF Reclaim, TypeOK, Meta
  <2>. QED
    BY <1>1, <1>2, <1>6, <2>1, CreatorAssumption DEF Reclaim, TypeOK, Meta
<1>7. CASE Upsert(s)
  BY <1>1, <1>2, <1>7, SocksAssumption DEF Upsert, TypeOK
<1>. QED
  BY <1>3, <1>4, <1>5, <1>6, <1>7 DEF JoinStep

(* A tear-down that has begun is at the head of the gate.                   *)
LEMMA RunningIsFirst ==
    ASSUME TypeOK, GateInv, ReleaseInv, NEW s \in Socks, leave[s] \in {"got", "cleared"}
    PROVE  AtGate(site.inst[s], "release", s)
<1>. DEFINE q == gate[site.inst[s]]
            g == [op |-> "release", sock |-> s]
<1>1. site.inst[s] \in Instances
  BY SiteType
<1>2. PICK k \in 1..Len(q) : q[k] = g
  BY DEF ReleaseInv, Releasing
<1>3. k = 1
  BY <1>1, <1>2 DEF GateInv, Waits
<1>4. q \in Seq(Op)
  BY <1>1 DEF TypeOK, Op
<1>5. q # <<>> /\ Head(q) = g
  <2>. HIDE DEF q, g
  <2>. QED
    BY <1>2, <1>3, <1>4, EmptySeq
<1>. QED
  BY <1>5 DEF AtGate

LEMMA LeaveType ==
    ASSUME TypeOK, SockInv, GateInv, ReleaseInv, NEW s \in site.socks, LeaveStep(s),
           UNCHANGED restVars
    PROVE  TypeOK'
<1>. USE DEF restVars
<1>. DEFINE i == site.inst[s]
<1>1. s \in Socks /\ i \in Instances
  BY SiteType
<1>2. LeaveStates = {"no", "fetching", "fetched", "queued", "got", "cleared",
                     "marking", "done"}
  BY DEF LeaveStates
<1>3. CASE Fetch(s)
  <2>1. InRoom \subseteq Socks
    BY DEF InRoom, TypeOK
  <2>2. snap' \in [Socks -> SUBSET Socks] /\ leave' \in [Socks -> LeaveStates]
    BY <1>1, <1>2, <1>3, <2>1 DEF Fetch, TypeOK
  <2>. QED
    BY <1>3, <2>2 DEF Fetch, TypeOK, roomVars
<1>4. CASE Fetched(s)
  <2>1. \A t \in snap[s] : Came(t)
    BY <1>1 DEF SockInv
  <2>2. Resume(s, snap[s])
    BY <1>4 DEF Fetched
  <2>3. /\ meta' \in [Instances -> Meta \cup {NoMeta}]
        /\ gate' \in [Instances -> Seq(Op)]
        /\ leave' \in [Socks -> LeaveStates]
        /\ controller' \in Users \cup {Nobody}
    BY <1>1, <2>1, <2>2, ResumeType
  <2>. QED
    BY <1>1, <1>4, <2>3 DEF Fetched, TypeOK, Op, Meta
<1>5. CASE ReleaseGet(s)
  BY <1>1, <1>2, <1>5 DEF ReleaseGet, TypeOK
<1>6. CASE ReleaseClear(s)
  BY <1>1, <1>2, <1>6 DEF ReleaseClear, TypeOK
<1>7. CASE ReleasePersist(s)
  <2>1. AtGate(i, "release", s) /\ Ungate(i, "release", s)
    BY <1>1, <1>7, RunningIsFirst DEF ReleasePersist
  <2>2. gate' = [gate EXCEPT ![i] = Tail(gate[i])] /\ Tail(gate[i]) \in Seq(Op)
    BY <1>1, <2>1, UngatedHead
  <2>3. gate' \in [Instances -> Seq(Op)]
    BY <1>1, <2>2 DEF TypeOK, Op
  <2>4. row' \in Videos
    BY <1>1, <1>7 DEF ReleasePersist, TypeOK
  <2>. QED
    BY <1>1, <1>2, <1>7, <2>3, <2>4 DEF ReleasePersist, TypeOK, Op
<1>8. CASE MarkInactive(s)
  BY <1>1, <1>2, <1>8 DEF MarkInactive, TypeOK
<1>. QED
  BY <1>3, <1>4, <1>5, <1>6, <1>7, <1>8 DEF LeaveStep

LEMMA OtherType ==
    ASSUME TypeOK, SockInv, NEW s \in site.socks,
           Connect(s) \/ Disconnect(s) \/ SetVideo(s), UNCHANGED restVars
    PROVE  TypeOK'
<1>. USE DEF restVars
<1>. DEFINE i == site.inst[s]
<1>1. s \in Socks /\ i \in Instances
  BY SiteType
<1>2. {"done", "fetching"} \subseteq LeaveStates
  BY DEF LeaveStates
<1>3. CASE Connect(s)
  <2>1. Append(arrivals, s) \in Seq(Socks)
    BY <1>1, AppendedAt DEF TypeOK
  <2>. QED
    BY <1>1, <1>3, <2>1 DEF Connect, TypeOK, roomVars
<1>4. CASE Disconnect(s)
  <2>1. /\ meta' \in [Instances -> Meta \cup {NoMeta}]
        /\ gate' \in [Instances -> Seq(Op)]
        /\ leave' \in [Socks -> LeaveStates]
        /\ controller' \in Users \cup {Nobody}
    <3>1. CASE Resume(s, InRoom \ {s})
      <4>1. \A t \in InRoom \ {s} : Came(t)
        BY DEF InRoom, SockInv, TypeOK
      <4>. QED
        BY <1>1, <3>1, <4>1, ResumeType
    <3>2. CASE /\ \E l \in {"done", "fetching"} : leave' = [leave EXCEPT ![s] = l]
               /\ UNCHANGED <<meta, gate, controller>>
      <4>1. leave' \in [Socks -> LeaveStates]
        BY <1>1, <1>2, <3>2 DEF TypeOK
      <4>. QED
        BY <3>2, <4>1 DEF TypeOK, Meta, Op
    <3>. QED
      BY <1>4, <3>1, <3>2 DEF Disconnect
  <2>. QED
    BY <1>1, <1>4, <2>1 DEF Disconnect, TypeOK, Op, Meta
<1>5. CASE SetVideo(s)
  BY <1>1, <1>5, SiteType DEF SetVideo, TypeOK, sockVars
<1>. QED
  BY <1>3, <1>4, <1>5

LEMMA PersistType ==
    ASSUME TypeOK, NEW i \in Instances, PersistStep(i), UNCHANGED restVars
    PROVE  TypeOK'
<1>. USE DEF restVars
<1>1. CASE PersistGet(i)
  <2>1. [due |-> FALSE, held |-> tl] \in [due : BOOLEAN, held : Videos \cup {NoVideo}]
    BY DEF TypeOK
  <2>. QED
    BY <1>1, <2>1 DEF PersistGet, TypeOK, sockVars
<1>2. CASE PersistWrite(i)
  BY <1>2 DEF PersistWrite, TypeOK, sockVars
<1>. QED
  BY <1>1, <1>2 DEF PersistStep

LEMMA PatchType ==
    ASSUME TypeOK, updateGuestControl
    PROVE  TypeOK'
<1>1. patches \in 0..site.patches /\ site.patches \in Nat
  BY SiteType DEF TypeOK
<1>2. patches' = patches + 1 /\ patches < site.patches /\ site' = site
  BY DEF updateGuestControl
<1>3. patches' \in 0..site'.patches
  BY <1>1, <1>2
<1>4. guests' \in BOOLEAN
  BY DEF updateGuestControl
<1>. QED
  BY <1>3, <1>4 DEF updateGuestControl, TypeOK, roomVars, sockVars

-----------------------------------------------------------------------------
(* Sockets.                                                                 *)

LEMMA CameKept ==
    ASSUME TypeOK, NEW t, Came(t),
           \/ arrivals' = arrivals
           \/ \E s \in Socks : arrivals' = Append(arrivals, s)
    PROVE  Came(t)'
<1>1. CASE arrivals' = arrivals
  BY <1>1 DEF Came
<1>2. CASE \E s \in Socks : arrivals' = Append(arrivals, s)
  <2>1. PICK s \in Socks : arrivals' = Append(arrivals, s)
    BY <1>2
  <2>2. PICK k \in 1..Len(arrivals) : arrivals[k] = t
    BY DEF Came
  <2>3. /\ Len(arrivals') = Len(arrivals) + 1 /\ Len(arrivals) \in Nat
        /\ arrivals'[k] = t
    BY <2>1, <2>2, AppendedAt, LenProperties DEF TypeOK
  <2>4. k \in 1..Len(arrivals')
    BY <2>2, <2>3
  <2>. QED
    BY <2>3, <2>4 DEF Came
<1>. QED
  BY <1>1, <1>2

LEMMA ConnectSock ==
    ASSUME TypeOK, SockInv, NEW s \in site.socks, Connect(s), UNCHANGED restVars
    PROVE  SockInv'
<1>. USE DEF restVars
<1>1. s \in Socks
  BY SiteType
<1>2. \A t : Came(t) => Came(t)'
  BY <1>1, CameKept DEF Connect
<1>3. Came(s)'
  <2>1. /\ arrivals' = Append(arrivals, s) /\ arrivals \in Seq(Socks)
        /\ Len(arrivals) \in Nat
    BY LenProperties DEF Connect, TypeOK
  <2>2. Len(arrivals') = Len(arrivals) + 1 /\ arrivals'[Len(arrivals) + 1] = s
    BY <1>1, <2>1, AppendedAt
  <2>3. Len(arrivals) + 1 \in 1..Len(arrivals')
    BY <2>1, <2>2
  <2>. QED
    BY <2>2, <2>3 DEF Came
<1>4. leave[s] = "no"
  BY <1>1 DEF Connect, SockInv, Came
<1>. QED
  BY <1>1, <1>2, <1>3, <1>4 DEF SockInv, Connect, roomVars

LEMMA JoinSock ==
    ASSUME TypeOK, SockInv, GateInv, NEW s \in site.socks, JoinStep(s),
           UNCHANGED restVars
    PROVE  SockInv'
<1>. USE DEF restVars
<1>1. s \in Socks /\ site.inst[s] \in Instances
  BY SiteType
<1>2. \A t : Came(t) => Came(t)'
  BY DEF JoinStep, LookUp, Enter, EnsureRoom, Reclaim, Upsert, Came
<1>3. CASE LookUp(s)
  BY <1>1, <1>2, <1>3 DEF LookUp, SockInv, TypeOK, roomVars
<1>4. CASE Enter(s)
  BY <1>1, <1>2, <1>4 DEF Enter, SockInv, TypeOK
<1>5. CASE EnsureRoom(s)
  <2>1. AtGate(site.inst[s], "ensure", s) /\ Ungate(site.inst[s], "ensure", s)
    BY <1>5 DEF EnsureRoom
  <2>2. /\ gate[site.inst[s]][1] = [op |-> "ensure", sock |-> s]
        /\ 1 \in 1..Len(gate[site.inst[s]])
    BY <1>1, <2>1, UngatedHead
  <2>3. join[s] = "queued"
    BY <1>1, <2>2 DEF GateInv, Waits
  <2>. QED
    BY <1>1, <1>2, <1>5, <2>3 DEF EnsureRoom, SockInv, TypeOK
<1>6. CASE Reclaim(s)
  BY <1>1, <1>2, <1>6 DEF Reclaim, SockInv, TypeOK
<1>7. CASE Upsert(s)
  BY <1>1, <1>2, <1>7 DEF Upsert, SockInv, TypeOK
<1>. QED
  BY <1>3, <1>4, <1>5, <1>6, <1>7 DEF JoinStep

(* What a resumed leave handler does to its socket.                         *)
LEMMA ResumeSock ==
    ASSUME TypeOK, NEW s \in Socks, NEW S, Resume(s, S)
    PROVE  \E l \in {"queued", "marking"} : leave' = [leave EXCEPT ![s] = l]
<1>. QED
  BY DEF Resume

LEMMA DisconnectSock ==
    ASSUME TypeOK, SockInv, NEW s \in site.socks, Disconnect(s), UNCHANGED restVars
    PROVE  SockInv'
<1>. USE DEF restVars
<1>1. s \in Socks
  BY SiteType
<1>2. \A t : Came(t) => Came(t)'
  BY DEF Disconnect, Came
<1>3. PICK l \in {"done", "fetching", "queued", "marking"} :
          leave' = [leave EXCEPT ![s] = l]
  BY <1>1, ResumeSock DEF Disconnect
<1>. QED
  BY <1>1, <1>2, <1>3 DEF Disconnect, SockInv, TypeOK

LEMMA LeaveSock ==
    ASSUME TypeOK, SockInv, GateInv, ReleaseInv, NEW s \in site.socks, LeaveStep(s),
           UNCHANGED restVars
    PROVE  SockInv'
<1>. USE DEF restVars
<1>1. s \in Socks
  BY SiteType
<1>2. \A t : Came(t) => Came(t)'
  BY DEF LeaveStep, Fetch, Fetched, ReleaseGet, ReleaseClear, ReleasePersist,
         MarkInactive, Came
<1>3. PICK l : leave' = [leave EXCEPT ![s] = l]
  BY <1>1, ResumeSock DEF LeaveStep, Fetch, Fetched, ReleaseGet, ReleaseClear,
                          ReleasePersist, MarkInactive
<1>4. leave[s] # "no"
  BY DEF LeaveStep, Fetch, Fetched, ReleaseGet, ReleaseClear, ReleasePersist, MarkInactive
<1>5. /\ live' = live /\ userRooms' = userRooms /\ join' = join
      /\ seenRow' = seenRow /\ arrivals' = arrivals /\ site' = site
  BY DEF LeaveStep, Fetch, Fetched, ReleaseGet, ReleaseClear, ReleasePersist, MarkInactive
<1>6. \A t \in Socks : \A r \in snap'[t] : Came(r)
  <2>1. snap' = snap \/ snap' = [snap EXCEPT ![s] = InRoom]
                     \/ snap' = [snap EXCEPT ![s] = {}]
    BY DEF LeaveStep, Fetch, Fetched, ReleaseGet, ReleaseClear, ReleasePersist, MarkInactive
  <2>2. \A r \in InRoom : Came(r)
    BY DEF InRoom, SockInv, TypeOK
  <2>. QED
    BY <1>1, <2>1, <2>2 DEF SockInv, TypeOK
<1>. QED
  BY <1>1, <1>2, <1>3, <1>4, <1>5, <1>6 DEF SockInv, TypeOK

-----------------------------------------------------------------------------
(* The gate.                                                                *)

LEMMA GateElements ==
    ASSUME TypeOK, NEW i \in Instances, NEW k \in 1..Len(gate[i])
    PROVE  gate[i][k] \in Op /\ gate[i][k].sock \in Socks
<1>1. gate[i] \in Seq(Op)
  BY DEF TypeOK, Op
<1>2. gate[i][k] \in Op
  BY <1>1, ElementOfSeq
<1>. QED
  BY <1>2 DEF Op

LEMMA GateKept ==
    ASSUME TypeOK, GateInv, ReleaseInv, gate' = gate, site' = site,
           \A t \in Socks :
              /\ join[t] = "queued" => join'[t] = "queued"
              /\ (leave[t] \in Releasing \/ leave'[t] \in Releasing) => leave'[t] = leave[t]
    PROVE  GateInv' /\ ReleaseInv'
<1>1. \A i \in Instances : \A k \in 1..Len(gate[i]) : gate[i][k] \in Op
  BY GateElements
<1>2. ReleaseInv'
  BY DEF ReleaseInv
<1>3. GateInv'
  <2>1. \A i \in Instances : \A k \in 1..Len(gate[i]) : gate[i][k].sock \in Socks
    BY <1>1 DEF Op
  <2>2. "queued" \in Releasing
    BY DEF Releasing
  <2>. QED
    BY <2>1, <2>2 DEF GateInv, Waits
<1>. QED
  BY <1>2, <1>3

LEMMA GateGrows ==
    ASSUME TypeOK, GateInv, ReleaseInv, NEW e \in Op, site' = site,
           gate' = [gate EXCEPT ![site.inst[e.sock]] = Append(@, e)],
           \/ /\ e.op = "ensure" /\ join[e.sock] # "queued"
              /\ join'[e.sock] = "queued" /\ leave' = leave
           \/ /\ e.op = "release" /\ leave[e.sock] \notin Releasing
              /\ leave'[e.sock] = "queued" /\ join' = join,
           \A t \in Socks \ {e.sock} : join'[t] = join[t] /\ leave'[t] = leave[t]
    PROVE  GateInv' /\ ReleaseInv'
<1>. DEFINE i == site.inst[e.sock]
            q == gate[i]
<1>1. e.sock \in Socks /\ i \in Instances /\ q \in Seq(Op) /\ Len(q) \in Nat
  BY SiteType, LenProperties DEF Op, TypeOK
<1>2. /\ gate'[i] = Append(q, e)
      /\ \A j \in Instances \ {i} : gate'[j] = gate[j]
  BY <1>1 DEF TypeOK
<1>3. /\ Len(gate'[i]) = Len(q) + 1
      /\ \A k \in 1..Len(q) : gate'[i][k] = q[k]
      /\ gate'[i][Len(q) + 1] = e
  BY <1>1, <1>2, AppendedAt
<1>4. \A j \in Instances : \A k \in 1..Len(gate[j]) :
          gate[j][k] \in Op /\ gate[j][k].sock \in Socks /\ gate[j][k] # e
  <2>1. SUFFICES ASSUME NEW j \in Instances, NEW k \in 1..Len(gate[j])
                 PROVE  gate[j][k] \in Op /\ gate[j][k].sock \in Socks /\ gate[j][k] # e
    OBVIOUS
  <2>2. gate[j][k] \in Op
    BY <2>1, GateElements
  <2>3. gate[j][k].op = "ensure" => join[gate[j][k].sock] = "queued"
    BY <2>1 DEF GateInv, Waits
  <2>4. gate[j][k].op = "release" => leave[gate[j][k].sock] \in Releasing
    BY <2>1 DEF GateInv, Waits
  <2>. QED
    BY <2>2, <2>3, <2>4 DEF Op
<1>5. GateInv'
  <2>1. SUFFICES ASSUME NEW j \in Instances
                 PROVE  /\ \A k \in 1..Len(gate'[j]) : Waits(gate[j][k], j, k)'
                        /\ \A k, m \in 1..Len(gate'[j]) :
                              gate'[j][k] = gate'[j][m] => k = m
    BY DEF GateInv
  <2>2. \A k \in 1..Len(gate[j]) : \A g : g = gate[j][k] => Waits(g, j, k)'
    <3>1. SUFFICES ASSUME NEW k \in 1..Len(gate[j]), NEW g, g = gate[j][k]
                   PROVE  Waits(g, j, k)'
      OBVIOUS
    <3>2. Waits(g, j, k)
      BY <2>1, <3>1 DEF GateInv
    <3>3. g.sock \in Socks /\ g \in Op /\ g # e
      BY <1>4, <3>1
    <3>4. g.op = "ensure" => join'[g.sock] = "queued"
      BY <3>2, <3>3 DEF Waits
    <3>5. g.op = "release" => leave'[g.sock] = leave[g.sock]
      BY <3>2, <3>3 DEF Waits, Op
    <3>. QED
      BY <3>2, <3>4, <3>5 DEF Waits
  <2>3. \A k, m \in 1..Len(gate[j]) : gate[j][k] = gate[j][m] => k = m
    BY DEF GateInv
  <2>4. CASE j # i
    BY <1>2, <2>2, <2>3, <2>4
  <2>5. CASE j = i
    <3>1. \A k \in 1..Len(gate'[i]) : k \in 1..Len(q) \/ k = Len(q) + 1
      BY <1>1, <1>3
    <3>2. \A k : Waits(e, i, k)'
      BY DEF Releasing, Waits, Op
    <3>. HIDE DEF q
    <3>3. \A k, m \in 1..Len(gate'[j]) : gate'[j][k] = gate'[j][m] => k = m
      BY <1>3, <1>4, <2>3, <2>5, <3>1 DEF q
    <3>4. \A k \in 1..Len(gate'[j]) :
              \/ gate'[j][k] = e
              \/ k \in 1..Len(gate[j]) /\ gate'[j][k] = gate[j][k]
      BY <1>3, <2>5, <3>1 DEF q
    <3>5. SUFFICES ASSUME NEW k \in 1..Len(gate'[j])
                   PROVE  Waits(gate[j][k], j, k)'
      BY <3>3
    <3>6. PICK g : g = gate'[j][k]
      OBVIOUS
    <3>7. Waits(g, j, k)'
      BY <2>2, <2>5, <3>2, <3>4, <3>6
    <3>. QED
      BY <3>6, <3>7
  <2>. QED
    BY <2>4, <2>5
<1>6. ReleaseInv'
  <2>1. SUFFICES ASSUME NEW t \in Socks, leave'[t] \in Releasing
                 PROVE  \E k \in 1..Len(gate'[site'.inst[t]]) :
                            gate'[site'.inst[t]][k] = [op |-> "release", sock |-> t]
    BY DEF ReleaseInv
  <2>2. site.inst[t] \in Instances
    BY SiteType
  <2>3. CASE leave[t] \in Releasing
    <3>1. PICK k \in 1..Len(gate[site.inst[t]]) :
                  gate[site.inst[t]][k] = [op |-> "release", sock |-> t]
      BY <2>3 DEF ReleaseInv
    <3>2. site.inst[t] # i => gate'[site.inst[t]] = gate[site.inst[t]]
      BY <1>2, <2>2
    <3>3. site.inst[t] = i => k \in 1..Len(gate'[i]) /\ gate'[i][k] = gate[i][k]
      BY <1>1, <1>3, <3>1
    <3>. QED
      BY <3>1, <3>2, <3>3
  <2>4. CASE leave[t] \notin Releasing
    <3>1. t = e.sock /\ e.op = "release"
      BY <2>1, <2>4
    <3>2. e = [op |-> "release", sock |-> t]
      BY <3>1 DEF Op
    <3>3. Len(q) + 1 \in 1..Len(gate'[i])
      BY <1>1, <1>3
    <3>. QED
      BY <1>3, <3>1, <3>2, <3>3
  <2>. QED
    BY <2>3, <2>4
<1>. QED
  BY <1>5, <1>6

LEMMA GateShrinks ==
    ASSUME TypeOK, GateInv, ReleaseInv, NEW s \in Socks, NEW op \in {"ensure", "release"},
           AtGate(site.inst[s], op, s), Ungate(site.inst[s], op, s), site' = site,
           \/ op = "ensure" /\ leave' = leave
           \/ op = "release" /\ join' = join /\ leave'[s] \notin Releasing,
           \A t \in Socks \ {s} : join'[t] = join[t] /\ leave'[t] = leave[t]
    PROVE  GateInv' /\ ReleaseInv'
<1>. DEFINE i == site.inst[s]
            q == gate[i]
            r == Tail(q)
<1>1. i \in Instances /\ q \in Seq(Op) /\ Len(q) \in Nat
  BY SiteType, LenProperties DEF Op, TypeOK
<1>2. /\ gate' = [gate EXCEPT ![i] = r] /\ 1 \in 1..Len(q)
      /\ q[1] = [op |-> op, sock |-> s]
      /\ Len(r) = Len(q) - 1
      /\ \A k \in 1..Len(r) : r[k] = q[k + 1]
  <2>1. i \in Instances /\ AtGate(i, op, s) /\ Ungate(i, op, s)
    BY <1>1
  <2>. HIDE DEF i
  <2>2. /\ gate' = [gate EXCEPT ![i] = Tail(gate[i])]
        /\ gate[i][1] = [op |-> op, sock |-> s]
        /\ 1 \in 1..Len(gate[i])
        /\ Len(Tail(gate[i])) = Len(gate[i]) - 1
    BY <2>1, UngatedHead
  <2>3. \A k \in 1..Len(Tail(gate[i])) : Tail(gate[i])[k] = gate[i][k + 1]
    BY <2>1, UngatedHead
  <2>. QED
    BY <2>2, <2>3
<1>3. /\ gate'[i] = r
      /\ \A j \in Instances \ {i} : gate'[j] = gate[j]
  BY <1>1, <1>2 DEF TypeOK
<1>. HIDE DEF r
<1>4. \A j \in Instances : \A k \in 1..Len(gate[j]) :
          gate[j][k] = [op |-> op, sock |-> s] => j = i /\ k = 1
  <2>1. SUFFICES ASSUME NEW j \in Instances, NEW k \in 1..Len(gate[j]),
                        gate[j][k] = [op |-> op, sock |-> s]
                 PROVE  j = i /\ k = 1
    OBVIOUS
  <2>2. j = i
    BY <2>1 DEF GateInv, Waits
  <2>3. \A m, n \in 1..Len(q) : q[m] = q[n] => m = n
    BY <1>1 DEF GateInv
  <2>. QED
    BY <1>2, <2>1, <2>2, <2>3
<1>5. GateInv'
  <2>1. SUFFICES ASSUME NEW j \in Instances
                 PROVE  /\ \A k \in 1..Len(gate'[j]) : Waits(gate[j][k], j, k)'
                        /\ \A k, m \in 1..Len(gate'[j]) :
                              gate'[j][k] = gate'[j][m] => k = m
    BY DEF GateInv
  <2>2. ASSUME NEW k \in 1..Len(gate[j]), NEW g, g = gate[j][k],
               g # [op |-> op, sock |-> s]
        PROVE  Waits(g, j, k)'
    <3>1. Waits(g, j, k) /\ g \in Op /\ g.sock \in Socks
      BY <2>2, GateElements DEF GateInv
    <3>2. g.op = op => g.sock # s
      BY <2>2, <3>1 DEF Op
    <3>3. g.op = "ensure" => join'[g.sock] = join[g.sock]
      BY <3>1, <3>2
    <3>4. g.op = "release" => leave'[g.sock] = leave[g.sock]
      BY <3>1, <3>2
    <3>. QED
      BY <3>1, <3>3, <3>4 DEF Waits
  <2>3. \A k, m \in 1..Len(gate[j]) : gate[j][k] = gate[j][m] => k = m
    BY DEF GateInv
  <2>4. CASE j # i
    <3>1. gate'[j] = gate[j]
      BY <1>3, <2>4
    <3>2. ASSUME NEW k \in 1..Len(gate'[j]) PROVE Waits(gate[j][k], j, k)'
      <4>1. PICK g : g = gate[j][k]
        OBVIOUS
      <4>2. g # [op |-> op, sock |-> s] /\ k \in 1..Len(gate[j])
        BY <1>4, <2>4, <3>1, <4>1
      <4>. QED
        BY <2>2, <3>1, <4>1, <4>2
    <3>. QED
      BY <2>3, <3>1, <3>2
  <2>5. CASE j = i
    <3>1. \A k \in 1..Len(r) : k + 1 \in 1..Len(q) /\ k + 1 # 1
      BY <1>1, <1>2
    <3>2. ASSUME NEW k \in 1..Len(gate'[j]) PROVE Waits(gate[j][k], j, k)'
      <4>1. PICK g : g = q[k + 1]
        OBVIOUS
      <4>2. k + 1 \in 1..Len(gate[j]) /\ k + 1 # 1 /\ g = gate[j][k + 1]
        BY <1>3, <2>5, <3>1, <4>1
      <4>3. g # [op |-> op, sock |-> s]
        BY <1>4, <4>2
      <4>4. Waits(g, j, k + 1)'
        BY <2>2, <4>2, <4>3
      <4>5. Waits(g, j, k)'
        BY <4>2, <4>4 DEF Waits, Releasing
      <4>. QED
        BY <1>2, <1>3, <2>5, <4>1, <4>5
    <3>3. \A k, m \in 1..Len(r) : r[k] = r[m] => k = m
      <4>1. SUFFICES ASSUME NEW k \in 1..Len(r), NEW m \in 1..Len(r), r[k] = r[m]
                     PROVE  k = m
        OBVIOUS
      <4>2. q[k + 1] = q[m + 1] /\ k + 1 \in 1..Len(q) /\ m + 1 \in 1..Len(q)
        BY <1>2, <3>1, <4>1
      <4>3. k + 1 = m + 1
        BY <2>3, <2>5, <4>2
      <4>4. k \in Int /\ m \in Int
        BY <4>1
      <4>. QED
        BY <4>3, <4>4
    <3>. QED
      BY <1>3, <2>5, <3>2, <3>3
  <2>. QED
    BY <2>4, <2>5
<1>6. ReleaseInv'
  <2>1. SUFFICES ASSUME NEW t \in Socks, leave'[t] \in Releasing
                 PROVE  \E k \in 1..Len(gate'[site'.inst[t]]) :
                            gate'[site'.inst[t]][k] = [op |-> "release", sock |-> t]
    BY DEF ReleaseInv
  <2>. DEFINE h == site.inst[t]
  <2>2. leave[t] \in Releasing /\ h \in Instances
    BY <2>1, SiteType
  <2>3. PICK k \in 1..Len(gate[h]) : gate[h][k] = [op |-> "release", sock |-> t]
    BY <2>2 DEF ReleaseInv
  <2>4. CASE h # i
    BY <1>3, <2>2, <2>3, <2>4
  <2>5. CASE h = i
    <3>1. [op |-> "release", sock |-> t] # [op |-> op, sock |-> s]
      BY <2>1
    <3>2. k # 1 /\ k \in 1..Len(q) /\ q[k] = [op |-> "release", sock |-> t]
      BY <1>2, <2>3, <2>5, <3>1
    <3>3. k - 1 \in 1..Len(r) /\ (k - 1) + 1 = k
      BY <1>1, <1>2, <3>2
    <3>4. r[k - 1] = [op |-> "release", sock |-> t]
      BY <1>2, <3>2, <3>3
    <3>5. gate'[site'.inst[t]] = r
      BY <1>3, <2>5
    <3>. QED
      BY <3>3, <3>4, <3>5
  <2>. QED
    BY <2>4, <2>5
<1>. QED
  BY <1>5, <1>6

LEMMA GateAdvances ==
    ASSUME TypeOK, GateInv, ReleaseInv, NEW s \in Socks,
           AtGate(site.inst[s], "release", s), gate' = gate, site' = site, join' = join,
           leave[s] \in Releasing, leave'[s] \in Releasing,
           \A t \in Socks \ {s} : leave'[t] = leave[t]
    PROVE  GateInv' /\ ReleaseInv'
<1>. DEFINE i == site.inst[s]
            g0 == [op |-> "release", sock |-> s]
<1>1. i \in Instances /\ gate[i] \in Seq(Op) /\ gate[i] # <<>> /\ Head(gate[i]) = g0
  BY SiteType DEF Op, TypeOK, AtGate
<1>2. gate[i][1] = g0 /\ 1 \in 1..Len(gate[i])
  BY <1>1, EmptySeq, LenProperties
<1>3. ReleaseInv'
  BY DEF ReleaseInv
<1>4. GateInv'
  <2>1. SUFFICES ASSUME NEW j \in Instances, NEW k \in 1..Len(gate[j])
                 PROVE  Waits(gate[j][k], j, k)'
    BY DEF GateInv
  <2>2. PICK g : g = gate[j][k]
    OBVIOUS
  <2>3. Waits(g, j, k) /\ g \in Op /\ g.sock \in Socks
    BY <2>1, <2>2, GateElements DEF GateInv
  <2>4. g = g0 => j = i /\ k = 1
    <3>1. g = g0 => j = i
      BY <2>3 DEF Waits
    <3>2. \A m, n \in 1..Len(gate[i]) : gate[i][m] = gate[i][n] => m = n
      BY <1>1 DEF GateInv
    <3>. HIDE DEF g0
    <3>. QED
      BY <1>2, <2>2, <3>1, <3>2
  <2>5. g.op = "release" /\ g.sock = s => k = 1
    BY <2>3, <2>4 DEF Op
  <2>6. Waits(g, j, k)'
    BY <2>3, <2>5 DEF Waits
  <2>. QED
    BY <2>2, <2>6
<1>. QED
  BY <1>3, <1>4

(* The leave handler resumes: its release is queued, or nothing is.         *)
LEMMA ResumeGate ==
    ASSUME TypeOK, GateInv, ReleaseInv, NEW s \in Socks, NEW S, Resume(s, S),
           site' = site, join' = join, leave[s] \notin Releasing
    PROVE  GateInv' /\ ReleaseInv'
<1>. DEFINE e == [op |-> "release", sock |-> s]
<1>1. CASE S = {}
  <2>1. /\ gate' = [gate EXCEPT ![site.inst[s]] = Append(@, e)]
        /\ leave' = [leave EXCEPT ![s] = "queued"]
    BY <1>1 DEF Resume
  <2>2. /\ e \in Op /\ e.op = "release" /\ e.sock = s
        /\ leave'[s] = "queued"
        /\ \A t \in Socks \ {s} : leave'[t] = leave[t]
    BY <2>1 DEF Op, TypeOK
  <2>. HIDE DEF e
  <2>. QED
    BY <2>1, <2>2, GateGrows
<1>2. CASE S # {}
  <2>1. gate' = gate /\ leave' = [leave EXCEPT ![s] = "marking"]
    BY <1>2 DEF Resume
  <2>2. \A t \in Socks :
         (leave[t] \in Releasing \/ leave'[t] \in Releasing) => leave'[t] = leave[t]
    BY <2>1 DEF TypeOK, Releasing
  <2>. QED
    BY <2>1, <2>2, GateKept
<1>. QED
  BY <1>1, <1>2

LEMMA JoinGate ==
    ASSUME TypeOK, GateInv, ReleaseInv, NEW s \in site.socks, JoinStep(s),
           UNCHANGED restVars
    PROVE  GateInv' /\ ReleaseInv'
<1>1. s \in Socks /\ site.inst[s] \in Instances /\ site' = site
  BY SiteType DEF restVars
<1>2. CASE Enter(s)
  <2>. DEFINE e == [op |-> "ensure", sock |-> s]
  <2>1. /\ e \in Op /\ e.op = "ensure" /\ e.sock = s
        /\ gate' = [gate EXCEPT ![site.inst[s]] = Append(@, e)]
        /\ join[s] # "queued" /\ join'[s] = "queued" /\ leave' = leave
        /\ \A t \in Socks \ {s} : join'[t] = join[t]
    BY <1>1, <1>2 DEF Enter, Op, TypeOK
  <2>. HIDE DEF e
  <2>. QED
    BY <1>1, <2>1, GateGrows
<1>3. CASE EnsureRoom(s)
  <2>1. /\ AtGate(site.inst[s], "ensure", s) /\ Ungate(site.inst[s], "ensure", s)
        /\ leave' = leave
        /\ \A t \in Socks \ {s} : join'[t] = join[t]
    BY <1>1, <1>3 DEF EnsureRoom, TypeOK
  <2>2. "ensure" \in {"ensure", "release"}
    OBVIOUS
  <2>. QED
    BY <1>1, <2>1, <2>2, GateShrinks
<1>4. CASE LookUp(s) \/ Reclaim(s) \/ Upsert(s)
  <2>1. gate' = gate /\ leave' = leave
    BY <1>4 DEF LookUp, Reclaim, Upsert, roomVars
  <2>2. \A t \in Socks : join[t] = "queued" => join'[t] = "queued"
    BY <1>1, <1>4 DEF LookUp, Reclaim, Upsert, TypeOK
  <2>. QED
    BY <1>1, <2>1, <2>2, GateKept
<1>. QED
  BY <1>2, <1>3, <1>4 DEF JoinStep

LEMMA LeaveGate ==
    ASSUME TypeOK, GateInv, ReleaseInv, NEW s \in site.socks, LeaveStep(s),
           UNCHANGED restVars
    PROVE  GateInv' /\ ReleaseInv'
<1>1. s \in Socks /\ site.inst[s] \in Instances /\ site' = site
  BY SiteType DEF restVars
<1>2. join' = join
  BY DEF LeaveStep, Fetch, Fetched, ReleaseGet, ReleaseClear, ReleasePersist, MarkInactive
<1>3. CASE Fetched(s)
  BY <1>1, <1>2, <1>3, ResumeGate DEF Fetched, Releasing
<1>4. CASE ReleaseGet(s) \/ ReleaseClear(s)
  <2>1. AtGate(site.inst[s], "release", s)
    BY <1>1, <1>4, RunningIsFirst DEF ReleaseGet, ReleaseClear
  <2>2. gate' = gate /\ leave[s] \in Releasing
    BY <1>4 DEF ReleaseGet, ReleaseClear, Releasing
  <2>3. leave'[s] \in Releasing /\ \A t \in Socks \ {s} : leave'[t] = leave[t]
    BY <1>1, <1>4 DEF ReleaseGet, ReleaseClear, TypeOK, Releasing
  <2>. QED
    BY <1>1, <1>2, <2>1, <2>2, <2>3, GateAdvances
<1>5. CASE ReleasePersist(s)
  <2>1. AtGate(site.inst[s], "release", s) /\ Ungate(site.inst[s], "release", s)
    BY <1>1, <1>5, RunningIsFirst DEF ReleasePersist
  <2>2. leave'[s] \notin Releasing /\ \A t \in Socks \ {s} : leave'[t] = leave[t]
    BY <1>1, <1>5 DEF ReleasePersist, TypeOK, Releasing
  <2>3. "release" \in {"ensure", "release"}
    OBVIOUS
  <2>. QED
    BY <1>1, <1>2, <2>1, <2>2, <2>3, GateShrinks
<1>6. CASE Fetch(s) \/ MarkInactive(s)
  <2>1. gate' = gate
    BY <1>6 DEF Fetch, MarkInactive, roomVars
  <2>2. \A t \in Socks :
         (leave[t] \in Releasing \/ leave'[t] \in Releasing) => leave'[t] = leave[t]
    BY <1>1, <1>6 DEF Fetch, MarkInactive, TypeOK, Releasing
  <2>. QED
    BY <1>1, <1>2, <2>1, <2>2, GateKept
<1>. QED
  BY <1>3, <1>4, <1>5, <1>6 DEF LeaveStep

LEMMA OtherGate ==
    ASSUME TypeOK, SockInv, GateInv, ReleaseInv, NEW s \in site.socks,
           Connect(s) \/ Disconnect(s) \/ SetVideo(s), UNCHANGED restVars
    PROVE  GateInv' /\ ReleaseInv'
<1>1. s \in Socks /\ site' = site
  BY SiteType DEF restVars
<1>2. join' = join
  BY DEF Connect, Disconnect, SetVideo, sockVars
<1>3. CASE Connect(s) \/ SetVideo(s)
  <2>1. gate' = gate /\ leave' = leave
    BY <1>3 DEF Connect, SetVideo, roomVars, sockVars
  <2>. QED
    BY <1>1, <1>2, <2>1, GateKept
<1>4. CASE Disconnect(s)
  <2>1. leave[s] = "no"
    BY <1>1, <1>4 DEF Disconnect, SockInv
  <2>2. CASE Resume(s, InRoom \ {s})
    BY <1>1, <1>2, <2>1, <2>2, ResumeGate DEF Releasing
  <2>3. CASE /\ \E l \in {"done", "fetching"} : leave' = [leave EXCEPT ![s] = l]
             /\ gate' = gate
    <3>1. \A t \in Socks :
           (leave[t] \in Releasing \/ leave'[t] \in Releasing) => leave'[t] = leave[t]
      BY <1>1, <2>1, <2>3 DEF TypeOK, Releasing
    <3>. QED
      BY <1>1, <1>2, <2>3, <3>1, GateKept
  <2>. QED
    BY <1>4, <2>2, <2>3 DEF Disconnect
<1>. QED
  BY <1>3, <1>4

(* What touches neither sockets nor the gate.                               *)
LEMMA QuietSteps ==
    ASSUME TypeOK, SockInv, GateInv, ReleaseInv, UNCHANGED <<sockVars, gate, site>>
    PROVE  SockInv' /\ GateInv' /\ ReleaseInv'
<1>1. SockInv'
  BY DEF SockInv, Came, sockVars
<1>2. join' = join /\ leave' = leave /\ gate' = gate /\ site' = site
  BY DEF sockVars
<1>. QED
  BY <1>1, <1>2, GateKept

-----------------------------------------------------------------------------
(* The room's state, in one process.                                        *)

(* Whoever has left by the time their ensureRoom is overtaken stays out.    *)
LEMMA BehindKept ==
    ASSUME TypeOK, Behind, gate' = gate, (InRoom)' \subseteq InRoom
    PROVE  Behind'
<1>. QED
  BY DEF Behind

LEMMA BehindTail ==
    ASSUME TypeOK, Behind, NEW i \in Instances, (InRoom)' \subseteq InRoom,
           gate' = [gate EXCEPT ![i] = Tail(gate[i])],
           1 \in 1..Len(gate[i]), Len(Tail(gate[i])) = Len(gate[i]) - 1,
           \A k \in 1..Len(Tail(gate[i])) : Tail(gate[i])[k] = gate[i][k + 1]
    PROVE  Behind'
<1>. DEFINE r == Tail(gate[i])
<1>1. gate[i] \in Seq(Op) /\ Len(gate[i]) \in Nat
  BY LenProperties DEF TypeOK, Op
<1>2. gate'[i] = r /\ \A j \in Instances \ {i} : gate'[j] = gate[j]
  BY DEF TypeOK
<1>3. \A k \in 1..Len(r) : k + 1 \in 1..Len(gate[i]) /\ r[k] = gate[i][k + 1]
  BY <1>1
<1>. HIDE DEF r
<1>4. SUFFICES ASSUME NEW j \in Instances,
                      NEW k \in 1..Len(gate'[j]), NEW m \in 1..Len(gate'[j]),
                      k < m, gate'[j][k].op = "ensure", gate'[j][m].op = "release"
               PROVE  gate'[j][k].sock \notin InRoom
  BY DEF Behind
<1>5. CASE j # i
  BY <1>2, <1>4, <1>5 DEF Behind
<1>6. CASE j = i
  <2>1. /\ k + 1 \in 1..Len(gate[i]) /\ m + 1 \in 1..Len(gate[i]) /\ k + 1 < m + 1
        /\ gate'[j][k] = gate[i][k + 1] /\ gate'[j][m] = gate[i][m + 1]
    <3>1. gate'[j] = r /\ k \in 1..Len(r) /\ m \in 1..Len(r)
      BY <1>2, <1>4, <1>6
    <3>2. k \in Int /\ m \in Int
      BY <3>1
    <3>3. k + 1 < m + 1
      BY <1>4, <3>2
    <3>. QED
      BY <1>3, <3>1, <3>3
  <2>. QED
    BY <1>4, <2>1 DEF Behind
<1>. QED
  BY <1>5, <1>6

(* A step that keeps the gate, lets nobody in and unmakes nothing.          *)
LEMMA StateKept ==
    ASSUME TypeOK, StateInv, gate' = gate, site' = site, (InRoom)' \subseteq InRoom,
           \A s \in InRoom : join'[s] \in Past => join[s] \in Past,
           \A i \in Instances : meta'[i] = NoMeta <=> meta[i] = NoMeta,
           tl # NoVideo => tl' # NoVideo,
           \A s \in Socks : /\ leave'[s] \notin {"fetching", "fetched"}
                            /\ leave'[s] = "cleared" => leave[s] = "cleared"
    PROVE  StateInv'
<1>1. Behind'
  BY BehindKept DEF StateInv
<1>2. InRoom \subseteq Socks /\ \A s \in Socks : site.inst[s] \in Instances
  BY SiteType DEF InRoom, TypeOK
<1>3. ASSUME NEW s \in Socks, leave'[s] = "cleared"
      PROVE  meta'[site'.inst[s]] = NoMeta
  BY <1>2, <1>3 DEF StateInv
<1>4. ASSUME NEW s \in (InRoom)', join'[s] \in Past
      PROVE  Hydrated(s)'
  BY <1>2, <1>4 DEF StateInv, Hydrated
<1>. QED
  BY <1>1, <1>3, <1>4 DEF StateInv

LEMMA EnterState ==
    ASSUME TypeOK, SockInv, GateInv, StateInv, NEW s \in site.socks, Enter(s),
           UNCHANGED restVars
    PROVE  StateInv'
<1>. DEFINE i == site.inst[s]
            e == [op |-> "ensure", sock |-> s]
            n == Len(gate[i])
<1>1. s \in Socks /\ i \in Instances /\ site' = site /\ gate[i] \in Seq(Op) /\ n \in Nat
      /\ e \in Op
  BY SiteType, LenProperties DEF restVars, TypeOK, Op
<1>2. /\ gate'[i] = Append(gate[i], e)
      /\ \A j \in Instances \ {i} : gate'[j] = gate[j]
  BY <1>1 DEF Enter, TypeOK
<1>3. /\ Len(gate'[i]) = n + 1
      /\ \A k \in 1..n : gate'[i][k] = gate[i][k]
      /\ gate'[i][n + 1] = e
  BY <1>1, <1>2, AppendedAt
<1>4. \A k \in 1..Len(gate'[i]) : k \in 1..n \/ k = n + 1
  BY <1>1, <1>3
<1>5. (InRoom)' \subseteq InRoom \cup {s} /\ InRoom \subseteq Socks
  BY <1>1 DEF Enter, InRoom, TypeOK
<1>6. join[s] = "looked" /\ join' = [join EXCEPT ![s] = "queued"]
  BY DEF Enter
<1>7. \A j \in Instances : \A k \in 1..Len(gate[j]) :
          gate[j][k].op = "ensure" => gate[j][k].sock # s
  BY <1>6 DEF GateInv, Waits
<1>. HIDE DEF e, n
<1>8. Behind'
  <2>1. SUFFICES ASSUME NEW j \in Instances,
                        NEW k \in 1..Len(gate'[j]), NEW m \in 1..Len(gate'[j]),
                        k < m, gate'[j][k].op = "ensure", gate'[j][m].op = "release"
                 PROVE  gate'[j][k].sock \notin (InRoom)'
    BY DEF Behind
  <2>2. CASE j # i
    BY <1>2, <1>5, <1>7, <2>1, <2>2 DEF StateInv, Behind
  <2>3. CASE j = i
    <3>1. m \in 1..n
      BY <1>3, <1>4, <2>1, <2>3 DEF e
    <3>2. k \in 1..n
      BY <1>1, <1>4, <2>1, <2>3, <3>1
    <3>3. gate[i][k].sock \notin InRoom /\ gate[i][k].sock # s
      BY <1>1, <1>3, <1>7, <2>1, <2>3, <3>1, <3>2 DEF StateInv, Behind, n
    <3>. QED
      BY <1>3, <1>5, <2>3, <3>2, <3>3
  <2>. QED
    BY <2>2, <2>3
<1>9. ASSUME NEW t \in (InRoom)', join'[t] \in Past
      PROVE  Hydrated(t)'
  <2>1. t # s /\ t \in InRoom /\ join[t] \in Past
    BY <1>1, <1>5, <1>6, <1>9 DEF TypeOK, Past
  <2>2. Hydrated(t) /\ site.inst[t] \in Instances
    BY <1>5, <2>1, SiteType DEF StateInv
  <2>3. \A k \in 1..Len(gate'[site.inst[t]]) : gate'[site.inst[t]][k].op = "ensure"
    <3>1. e.op = "ensure"
      BY DEF e
    <3>2. CASE site.inst[t] # i
      BY <1>2, <2>2, <3>2 DEF Hydrated
    <3>3. CASE site.inst[t] = i
      <4>1. \A k \in 1..n : gate[i][k].op = "ensure"
        BY <2>2, <3>3 DEF Hydrated, n
      <4>2. \A k \in 1..Len(gate'[i]) : gate'[i][k].op = "ensure"
        BY <1>3, <1>4, <3>1, <4>1
      <4>. QED
        BY <3>3, <4>2
    <3>. QED
      BY <3>2, <3>3
  <2>. QED
    BY <1>1, <2>2, <2>3 DEF Hydrated, Enter
<1>. QED
  BY <1>1, <1>8, <1>9 DEF StateInv, Enter

(* ensureRoom runs: no release is behind it for a socket that is still in   *)
(* the room, and none has cleared what it finds.                            *)
LEMMA EnsureState ==
    ASSUME TypeOK, SockInv, GateInv, ReleaseInv, StateInv, site.inMemory,
           NEW s \in site.socks, EnsureRoom(s), UNCHANGED restVars
    PROVE  StateInv'
<1>. DEFINE i == site.inst[s]
            q == gate[i]
            r == Tail(q)
<1>1. /\ s \in Socks /\ i \in Instances /\ site' = site
      /\ AtGate(i, "ensure", s) /\ Ungate(i, "ensure", s)
      /\ \A t \in site.socks : site.inst[t] = i
  BY SiteType DEF restVars, EnsureRoom
<1>2. /\ gate' = [gate EXCEPT ![i] = r] /\ 1 \in 1..Len(q)
      /\ q[1] = [op |-> "ensure", sock |-> s] /\ Len(r) = Len(q) - 1
  <2>. HIDE DEF i
  <2>1. /\ gate' = [gate EXCEPT ![i] = Tail(gate[i])]
        /\ gate[i][1] = [op |-> "ensure", sock |-> s]
        /\ 1 \in 1..Len(gate[i])
        /\ Len(Tail(gate[i])) = Len(gate[i]) - 1
    BY <1>1, UngatedHead
  <2>. QED
    BY <2>1
<1>3. \A k \in 1..Len(r) : r[k] = q[k + 1]
  BY <1>1, UngatedHead
<1>4. live' = live /\ userRooms' = userRooms /\ leave' = leave
      /\ join' = [join EXCEPT ![s] = "ensured"] /\ (InRoom)' = InRoom
  BY DEF EnsureRoom, InRoom
<1>5. q \in Seq(Op) /\ Len(q) \in Nat /\ gate'[i] = r
  BY <1>1, <1>2, LenProperties DEF TypeOK, Op
<1>6. \A k \in 1..Len(r) : k + 1 \in 1..Len(q) /\ 1 < k + 1
  BY <1>2, <1>5
<1>7. Behind'
  BY <1>1, <1>2, <1>3, <1>4, BehindTail DEF StateInv
<1>8. \A t \in Socks : leave[t] # "cleared"
  <2>1. SUFFICES ASSUME NEW t \in Socks, leave[t] = "cleared" PROVE FALSE
    OBVIOUS
  <2>2. t \in site.socks
    BY <2>1 DEF SockInv
  <2>3. AtGate(i, "release", t)
    BY <1>1, <2>1, <2>2, RunningIsFirst
  <2>. QED
    BY <1>1, <2>3 DEF AtGate
<1>. HIDE DEF r, q
<1>9. ASSUME NEW t \in InRoom, join'[t] \in Past
      PROVE  Hydrated(t)'
  <2>1. t \in site.socks /\ t \in Socks /\ site.inst[t] = i
    BY <1>1, <1>9 DEF InRoom, SockInv, TypeOK
  <2>2. meta'[i] # NoMeta
    <3>1. [active |-> Nobody, guests |-> seenRow[s].guests] # NoMeta
      BY <1>1, AbsentAssumption DEF TypeOK
    <3>. QED
      BY <1>1, <3>1 DEF EnsureRoom, TypeOK
  <2>3. tl' # NoVideo
    <3>1. join[s] = "queued"
      BY <1>1, <1>2 DEF GateInv, Waits, q
    <3>2. seenRow[s].video # NoVideo
      BY <1>1, <3>1, AbsentAssumption DEF SockInv
    <3>. QED
      BY <3>2 DEF EnsureRoom
  <2>4. \A k \in 1..Len(r) : r[k].op = "ensure"
    <3>1. SUFFICES ASSUME NEW k \in 1..Len(r), r[k].op # "ensure" PROVE FALSE
      OBVIOUS
    <3>2. q[k + 1].op = "release" /\ k + 1 \in 1..Len(q) /\ 1 < k + 1
      <4>1. q[k + 1] \in Op
        BY <1>1, <1>6, <3>1, GateElements DEF q
      <4>. QED
        BY <1>3, <1>6, <3>1, <4>1 DEF Op
    <3>3. CASE t = s
      BY <1>1, <1>2, <1>9, <3>2, <3>3 DEF StateInv, Behind, q
    <3>4. CASE t # s
      <4>1. join[t] \in Past
        BY <1>1, <1>4, <1>9, <2>1, <3>4 DEF TypeOK
      <4>2. \A m \in 1..Len(q) : q[m].op = "ensure"
        BY <1>9, <2>1, <4>1 DEF StateInv, Hydrated, q
      <4>. QED
        BY <3>2, <4>2
    <3>. QED
      BY <3>3, <3>4
  <2>. QED
    BY <1>1, <1>5, <2>1, <2>2, <2>3, <2>4 DEF Hydrated
<1>. QED
  BY <1>1, <1>4, <1>7, <1>8, <1>9 DEF StateInv

LEMMA JoinState ==
    ASSUME TypeOK, SockInv, GateInv, ReleaseInv, StateInv, site.inMemory,
           NEW s \in site.socks, JoinStep(s), UNCHANGED restVars
    PROVE  StateInv'
<1>1. s \in Socks /\ site.inst[s] \in Instances /\ site' = site
  BY SiteType DEF restVars
<1>2. CASE LookUp(s) \/ Reclaim(s) \/ Upsert(s)
  <2>1. /\ gate' = gate /\ leave' = leave /\ tl' = tl
        /\ live' = live /\ userRooms' = userRooms
    BY <1>2 DEF LookUp, Reclaim, Upsert, roomVars
  <2>2. \A t \in InRoom : join'[t] \in Past => join[t] \in Past
    BY <1>1, <1>2 DEF LookUp, Reclaim, Upsert, TypeOK, InRoom, Past
  <2>3. \A j \in Instances : meta'[j] = NoMeta <=> meta[j] = NoMeta
    <3>1. CASE meta' = meta
      BY <3>1
    <3>2. CASE /\ meta[site.inst[s]] # NoMeta
               /\ meta' = [meta EXCEPT ![site.inst[s]].active = Nobody]
      <4>1. [meta[site.inst[s]] EXCEPT !.active = Nobody] # NoMeta
        BY <1>1, <3>2, AbsentAssumption DEF TypeOK
      <4>. QED
        BY <1>1, <3>2, <4>1 DEF TypeOK
    <3>. QED
      BY <1>2, <3>1, <3>2 DEF LookUp, Reclaim, Upsert, roomVars
  <2>4. (InRoom)' = InRoom
    BY <2>1 DEF InRoom
  <2>5. \A t \in Socks : leave'[t] \notin {"fetching", "fetched"}
    BY <2>1 DEF StateInv
  <2>. QED
    BY <1>1, <2>1, <2>2, <2>3, <2>4, <2>5, StateKept
<1>. QED
  BY <1>2, EnterState, EnsureState DEF JoinStep

LEMMA LeaveState ==
    ASSUME TypeOK, SockInv, GateInv, ReleaseInv, StateInv, site.inMemory,
           NEW s \in site.socks, LeaveStep(s), UNCHANGED restVars
    PROVE  StateInv'
<1>. DEFINE i == site.inst[s]
<1>1. /\ s \in Socks /\ i \in Instances /\ site' = site
      /\ \A t \in site.socks : site.inst[t] = i
  BY SiteType DEF restVars
<1>2. ~Fetch(s) /\ ~Fetched(s)
  BY <1>1 DEF Fetch, Fetched, StateInv
<1>3. join' = join /\ live' = live /\ userRooms' = userRooms /\ (InRoom)' = InRoom
  BY DEF LeaveStep, Fetch, Fetched, ReleaseGet, ReleaseClear, ReleasePersist, MarkInactive,
         InRoom
<1>4. \A t \in Socks : leave'[t] \notin {"fetching", "fetched"}
  BY <1>1, <1>2 DEF LeaveStep, ReleaseGet, ReleaseClear, ReleasePersist, MarkInactive,
                    StateInv, TypeOK
<1>5. CASE ReleaseGet(s) \/ MarkInactive(s)
  <2>1. gate' = gate /\ meta' = meta /\ tl' = tl
    BY <1>5 DEF ReleaseGet, MarkInactive
  <2>2. \A t \in Socks : leave'[t] = "cleared" => leave[t] = "cleared"
    BY <1>1, <1>5 DEF ReleaseGet, MarkInactive, TypeOK
  <2>. QED
    BY <1>1, <1>3, <1>4, <2>1, <2>2, StateKept
<1>6. leave[s] \in {"got", "cleared"} =>
          \A t \in InRoom : join[t] \notin Past
  <2>1. SUFFICES ASSUME leave[s] \in {"got", "cleared"}, NEW t \in InRoom, join[t] \in Past
                 PROVE  FALSE
    OBVIOUS
  <2>2. AtGate(i, "release", s) /\ gate[i] \in Seq(Op)
    BY <1>1, <2>1, RunningIsFirst DEF TypeOK, Op
  <2>3. gate[i][1].op = "release" /\ 1 \in 1..Len(gate[i])
    BY <2>2, EmptySeq, LenProperties DEF AtGate
  <2>4. site.inst[t] = i
    BY <1>1, <2>1 DEF InRoom, SockInv
  <2>. QED
    BY <2>1, <2>3, <2>4 DEF StateInv, Hydrated
<1>7. CASE ReleaseClear(s)
  <2>1. /\ gate' = gate /\ leave[s] = "got" /\ leave' = [leave EXCEPT ![s] = "cleared"]
        /\ meta' = [meta EXCEPT ![i] = NoMeta]
    BY <1>7 DEF ReleaseClear
  <2>2. Behind'
    BY <1>3, <2>1, BehindKept DEF StateInv
  <2>3. \A t \in Socks : leave'[t] = "cleared" => meta'[site.inst[t]] = NoMeta
    <3>1. SUFFICES ASSUME NEW t \in Socks, leave'[t] = "cleared"
                   PROVE  meta'[site.inst[t]] = NoMeta
      OBVIOUS
    <3>2. t = s \/ leave[t] = "cleared"
      BY <1>1, <2>1, <3>1 DEF TypeOK
    <3>3. t = s \/ meta[site.inst[t]] = NoMeta
      BY <3>2 DEF StateInv
    <3>4. site.inst[t] \in Instances
      BY SiteType
    <3>. QED
      BY <1>1, <2>1, <3>3, <3>4 DEF TypeOK
  <2>4. \A t \in (InRoom)' : join'[t] \in Past => Hydrated(t)'
    BY <1>3, <1>6, <2>1
  <2>. QED
    BY <1>1, <1>4, <2>2, <2>3, <2>4 DEF StateInv
<1>8. CASE ReleasePersist(s)
  <2>1. /\ leave[s] = "cleared" /\ leave' = [leave EXCEPT ![s] = "marking"]
        /\ meta' = meta /\ Ungate(i, "release", s)
    BY <1>8 DEF ReleasePersist
  <2>2. AtGate(i, "release", s)
    BY <1>1, <2>1, RunningIsFirst
  <2>3. Behind'
    <3>. HIDE DEF i
    <3>1. /\ gate' = [gate EXCEPT ![i] = Tail(gate[i])]
          /\ 1 \in 1..Len(gate[i])
          /\ Len(Tail(gate[i])) = Len(gate[i]) - 1
      BY <1>1, <2>1, <2>2, UngatedHead
    <3>2. \A k \in 1..Len(Tail(gate[i])) : Tail(gate[i])[k] = gate[i][k + 1]
      BY <1>1, <2>1, <2>2, UngatedHead
    <3>. QED
      BY <1>1, <1>3, <3>1, <3>2, BehindTail DEF StateInv
  <2>4. \A t \in Socks : leave'[t] = "cleared" => meta'[site.inst[t]] = NoMeta
    BY <1>1, <2>1 DEF StateInv, TypeOK
  <2>5. \A t \in (InRoom)' : join'[t] \in Past => Hydrated(t)'
    BY <1>3, <1>6, <2>1
  <2>. QED
    BY <1>1, <1>4, <2>3, <2>4, <2>5 DEF StateInv
<1>. QED
  BY <1>2, <1>5, <1>7, <1>8 DEF LeaveStep

(* Nobody is left when the last one's release is queued.                    *)
LEMMA DisconnectState ==
    ASSUME TypeOK, SockInv, StateInv, site.inMemory, NEW s \in site.socks,
           Disconnect(s), UNCHANGED restVars
    PROVE  StateInv'
<1>. DEFINE i == site.inst[s]
            S == InRoom \ {s}
<1>1. s \in Socks /\ i \in Instances /\ site' = site
  BY SiteType DEF restVars
<1>2. (InRoom)' = S /\ join' = join /\ tl' = tl /\ leave[s] = "no"
  BY <1>1 DEF Disconnect, InRoom, SockInv
<1>3. \A t \in Socks : /\ leave'[t] \notin {"fetching", "fetched"}
                       /\ leave'[t] = "cleared" => leave[t] = "cleared"
  <2>1. \E l \in {"done", "queued", "marking"} : leave' = [leave EXCEPT ![s] = l]
    BY <1>1, ResumeSock DEF Disconnect
  <2>. QED
    BY <1>1, <2>1 DEF StateInv, TypeOK
<1>4. CASE S = {} /\ Resume(s, S)
  <2>1. (InRoom)' = {} /\ meta' = meta
    BY <1>2, <1>4 DEF Resume
  <2>2. Behind'
    BY <2>1 DEF Behind
  <2>3. \A t \in Socks : leave'[t] = "cleared" => meta'[site.inst[t]] = NoMeta
    BY <1>3, <2>1 DEF StateInv
  <2>. QED
    BY <1>1, <1>3, <2>1, <2>2, <2>3 DEF StateInv
<1>5. CASE S # {} /\ Resume(s, S)
  <2>1. gate' = gate
    BY <1>5 DEF Resume
  <2>2. \A j \in Instances : meta'[j] = NoMeta <=> meta[j] = NoMeta
    <3>. DEFINE next == succession(i, UserOf[s], UserOf[LongestConnected(S)])
    <3>1. meta' = IF next = Nobody THEN meta ELSE [meta EXCEPT ![i].active = next]
      BY <1>5 DEF Resume
    <3>2. next # Nobody => meta[i] # NoMeta
      BY DEF succession
    <3>3. next \in Users \cup {Nobody}
      <4>1. \A t \in S : Came(t)
        BY DEF InRoom, SockInv, TypeOK
      <4>2. UserOf[LongestConnected(S)] \in Users
        BY <1>5, <4>1, LongestIsThere, SocksAssumption
      <4>. QED
        BY <4>2 DEF succession
    <3>. HIDE DEF next
    <3>4. next # Nobody => [meta[i] EXCEPT !.active = next] # NoMeta
      BY <1>1, <3>2, <3>3, AbsentAssumption DEF TypeOK
    <3>. QED
      BY <1>1, <3>1, <3>2, <3>4 DEF TypeOK
  <2>. QED
    BY <1>1, <1>2, <1>3, <2>1, <2>2, StateKept
<1>6. CASE UNCHANGED <<meta, gate, controller>>
  <2>1. gate' = gate /\ meta' = meta
    BY <1>6
  <2>. QED
    BY <1>1, <1>2, <1>3, <2>1, StateKept
<1>. QED
  BY <1>4, <1>5, <1>6 DEF Disconnect

(* A socket that comes is in no room yet; a video is not a missing one.     *)
LEMMA OtherState ==
    ASSUME TypeOK, SockInv, StateInv, site.inMemory, NEW s \in site.socks,
           Connect(s) \/ SetVideo(s), UNCHANGED restVars
    PROVE  StateInv'
<1>1. /\ gate' = gate /\ meta' = meta /\ leave' = leave /\ join' = join /\ site' = site
  BY DEF Connect, SetVideo, roomVars, sockVars, restVars
<1>2. tl # NoVideo => tl' # NoVideo
  BY SiteType, AbsentAssumption DEF Connect, SetVideo, roomVars
<1>3. (InRoom)' \subseteq InRoom
  <2>1. CASE SetVideo(s)
    BY <2>1 DEF SetVideo, sockVars, InRoom
  <2>2. CASE Connect(s)
    <3>1. s \in Socks /\ s \notin userRooms
      BY <2>2, SiteType DEF Connect, SockInv, Came
    <3>. QED
      BY <2>2, <3>1 DEF Connect, InRoom
  <2>. QED
    BY <2>1, <2>2
<1>4. \A t \in Socks : leave'[t] \notin {"fetching", "fetched"}
  BY <1>1 DEF StateInv
<1>. QED
  BY <1>1, <1>2, <1>3, <1>4, StateKept

-----------------------------------------------------------------------------
(* The room's controller, in one process.                                   *)

LEMMA ControllerKept ==
    ASSUME ControllerInv, controller' = controller, site' = site,
           \A s \in Socks : leave'[s] \in {"queued", "got"} => leave[s] \in {"queued", "got"},
           \/ meta' = meta
           \/ \A i \in Instances : meta[i] # NoMeta => meta'[i] = meta[i],
           \A s \in site.socks : site.inst[s] \in Instances
    PROVE  ControllerInv'
<1>. QED
  BY DEF ControllerInv, StandIn

LEMMA JoinController ==
    ASSUME TypeOK, ControllerInv, NEW s \in site.socks, JoinStep(s), UNCHANGED restVars
    PROVE  ControllerInv'
<1>1. /\ s \in Socks /\ site.inst[s] \in Instances /\ site' = site
      /\ \A t \in site.socks : site.inst[t] \in Instances
  BY SiteType DEF restVars
<1>2. leave' = leave
  BY DEF JoinStep, LookUp, Enter, EnsureRoom, Reclaim, Upsert
<1>3. CASE Reclaim(s) /\ controller' = Creator
  BY <1>3 DEF ControllerInv, StandIn
<1>4. CASE Reclaim(s) /\ meta' = meta /\ controller' = controller
  BY <1>1, <1>2, <1>4, ControllerKept
<1>5. CASE LookUp(s) \/ Enter(s) \/ Upsert(s)
  <2>1. meta' = meta /\ controller' = controller
    BY <1>5 DEF LookUp, Enter, Upsert, roomVars
  <2>. QED
    BY <1>1, <1>2, <2>1, ControllerKept
<1>6. CASE EnsureRoom(s)
  <2>1. controller' = controller
    BY <1>6 DEF EnsureRoom
  <2>2. \A i \in Instances : meta[i] # NoMeta => meta'[i] = meta[i]
    BY <1>1, <1>6 DEF EnsureRoom, TypeOK
  <2>. QED
    BY <1>1, <1>2, <2>1, <2>2, ControllerKept
<1>. QED
  BY <1>3, <1>4, <1>5, <1>6 DEF JoinStep, Reclaim

LEMMA LeaveController ==
    ASSUME TypeOK, StateInv, ControllerInv, NEW s \in site.socks, LeaveStep(s),
           UNCHANGED restVars
    PROVE  ControllerInv'
<1>1. /\ s \in Socks /\ site' = site
      /\ \A t \in site.socks : site.inst[t] \in Instances
  BY SiteType DEF restVars
<1>2. ~Fetch(s) /\ ~Fetched(s)
  BY <1>1 DEF Fetch, Fetched, StateInv
<1>3. controller' = controller
  BY <1>2 DEF LeaveStep, ReleaseGet, ReleaseClear, ReleasePersist, MarkInactive
<1>4. CASE ReleaseGet(s) \/ ReleasePersist(s) \/ MarkInactive(s)
  <2>1. meta' = meta
    BY <1>4 DEF ReleaseGet, ReleasePersist, MarkInactive
  <2>2. \A t \in Socks : leave'[t] \in {"queued", "got"} => leave[t] \in {"queued", "got"}
    BY <1>1, <1>4 DEF ReleaseGet, ReleasePersist, MarkInactive, TypeOK
  <2>. QED
    BY <1>1, <1>3, <2>1, <2>2, ControllerKept
<1>5. CASE ReleaseClear(s)
  BY <1>1, <1>3, <1>5 DEF ReleaseClear, ControllerInv, StandIn
<1>. QED
  BY <1>2, <1>4, <1>5 DEF LeaveStep

(* A stand-in is named only while no tear-down is pending: in one process a *)
(* pending one has cleared the meta by the time another event is handled.   *)
LEMMA DisconnectController ==
    ASSUME TypeOK, SockInv, GateInv, ReleaseInv, StateInv, ControllerInv,
           site.inMemory, NEW s \in site.socks, Disconnect(s), UNCHANGED restVars
    PROVE  ControllerInv'
<1>. DEFINE i == site.inst[s]
            S == InRoom \ {s}
            next == succession(i, UserOf[s], UserOf[LongestConnected(S)])
<1>1. /\ s \in Socks /\ i \in Instances /\ site' = site
      /\ \A t \in site.socks : site.inst[t] \in Instances /\ site.inst[t] = i
  BY SiteType DEF restVars
<1>2. CASE S = {} /\ Resume(s, S)
  <2>1. controller' = Nobody
    BY <1>2 DEF Resume
  <2>. QED
    BY <2>1 DEF ControllerInv, StandIn
<1>3. ASSUME \E l \in {"done", "marking"} : leave' = [leave EXCEPT ![s] = l]
      PROVE  \A t \in Socks : leave'[t] \in {"queued", "got"} =>
                 leave[t] \in {"queued", "got"}
  BY <1>1, <1>3 DEF TypeOK
<1>4. CASE S # {} /\ Resume(s, S) /\ next = Nobody
  <2>1. /\ controller' = controller /\ meta' = meta
        /\ leave' = [leave EXCEPT ![s] = "marking"]
    BY <1>4 DEF Resume
  <2>. QED
    BY <1>1, <1>3, <2>1, ControllerKept
<1>5. CASE S # {} /\ Resume(s, S) /\ next # Nobody
  <2>1. /\ controller' = next /\ leave' = [leave EXCEPT ![s] = "marking"]
        /\ meta' = [meta EXCEPT ![i].active = next]
    BY <1>5 DEF Resume
  <2>2. meta[i] # NoMeta
    BY <1>5 DEF succession
  <2>3. next \in Users
    <3>1. \A t \in S : Came(t)
      BY DEF InRoom, SockInv, TypeOK
    <3>2. UserOf[LongestConnected(S)] \in Users
      BY <1>5, <3>1, LongestIsThere, SocksAssumption
    <3>. QED
      BY <1>5, <3>2 DEF succession
  <2>4. \A t \in Socks : leave[t] \notin {"queued", "got"}
    <3>1. SUFFICES ASSUME NEW t \in Socks, leave[t] \in {"queued", "got"} PROVE FALSE
      OBVIOUS
    <3>2. t \in site.socks /\ site.inst[t] = i
      BY <1>1, <3>1 DEF SockInv
    <3>3. \E k \in 1..Len(gate[i]) : gate[i][k] = [op |-> "release", sock |-> t]
      BY <3>1, <3>2 DEF ReleaseInv, Releasing
    <3>4. gate[i] \in Seq(Op) /\ gate[i] # <<>>
      <4>1. gate[i] \in Seq(Op)
        BY <1>1 DEF TypeOK, Op
      <4>2. Len(gate[i]) \in Nat /\ Len(gate[i]) # 0
        BY <3>3, <4>1, LenProperties
      <4>. QED
        BY <4>1, <4>2, EmptySeq
    <3>5. leave[Head(gate[i]).sock] = "cleared"
      BY <1>1, <3>4 DEF Disconnect, Settled
    <3>6. PICK h : h = Head(gate[i]).sock
      OBVIOUS
    <3>7. h \in Socks
      <4>1. Head(gate[i]) \in Op
        BY <3>4, HeadTailProperties
      <4>. QED
        BY <3>6, <4>1 DEF Op
    <3>8. h \in site.socks /\ meta[site.inst[h]] = NoMeta
      BY <3>5, <3>6, <3>7 DEF SockInv, StateInv
    <3>. QED
      BY <1>1, <2>2, <3>8
  <2>5. \A t \in Socks : leave'[t] \notin {"queued", "got"}
    BY <1>1, <2>1, <2>4 DEF TypeOK
  <2>. HIDE DEF next
  <2>6. meta'[i] # NoMeta /\ meta'[i].active = next
    <3>1. /\ meta'[i] = [meta[i] EXCEPT !.active = next]
          /\ meta[i] \in [active : Users \cup {Nobody}, guests : BOOLEAN]
      BY <1>1, <2>1, <2>2 DEF TypeOK
    <3>2. /\ [meta[i] EXCEPT !.active = next] \in
                 [active : Users \cup {Nobody}, guests : BOOLEAN]
          /\ [meta[i] EXCEPT !.active = next].active = next
      BY <2>3, <3>1
    <3>. QED
      BY <3>1, <3>2, AbsentAssumption
  <2>. QED
    BY <1>1, <2>1, <2>5, <2>6 DEF ControllerInv
<1>6. CASE UNCHANGED <<meta, gate, controller>> /\ leave' = [leave EXCEPT ![s] = "done"]
  <2>1. meta' = meta /\ controller' = controller
    BY <1>6
  <2>. QED
    BY <1>1, <1>3, <1>6, <2>1, ControllerKept
<1>. QED
  BY <1>2, <1>4, <1>5, <1>6 DEF Disconnect

-----------------------------------------------------------------------------
(* The theorems.                                                            *)

LEMMA NextInv ==
    ASSUME IInv, [Next]_vars
    PROVE  IInv'
<1>. USE DEF IInv
<1>1. ASSUME NEW s \in site.socks, Connect(s) \/ SetVideo(s), UNCHANGED restVars
      PROVE  IInv'
  <2>1. TypeOK' /\ GateInv' /\ ReleaseInv'
    BY <1>1, OtherType, OtherGate
  <2>2. SockInv'
    <3>1. CASE Connect(s)
      BY <1>1, <3>1, ConnectSock
    <3>2. CASE SetVideo(s)
      <4>1. UNCHANGED <<sockVars, gate, site>>
        BY <1>1, <3>2 DEF SetVideo, restVars
      <4>. QED
        BY <4>1, QuietSteps
    <3>. QED
      BY <1>1, <3>1, <3>2
  <2>3. ASSUME site.inMemory PROVE StateInv' /\ ControllerInv'
    <3>1. StateInv'
      BY <1>1, <2>3, OtherState
    <3>2. /\ controller' = controller /\ meta' = meta /\ leave' = leave /\ site' = site
          /\ \A t \in site.socks : site.inst[t] \in Instances
      BY <1>1, SiteType DEF Connect, SetVideo, roomVars, sockVars, restVars
    <3>. QED
      BY <2>3, <3>1, <3>2, ControllerKept
  <2>4. site' = site
    BY <1>1 DEF restVars
  <2>. QED
    BY <2>1, <2>2, <2>3, <2>4
<1>2. ASSUME NEW s \in site.socks, Disconnect(s), UNCHANGED restVars
      PROVE  IInv'
  <2>1. TypeOK' /\ SockInv' /\ GateInv' /\ ReleaseInv'
    BY <1>2, OtherType, OtherGate, DisconnectSock
  <2>2. site.inMemory => StateInv' /\ ControllerInv'
    BY <1>2, DisconnectState, DisconnectController
  <2>3. site' = site
    BY <1>2 DEF restVars
  <2>. QED
    BY <2>1, <2>2, <2>3
<1>3. ASSUME NEW s \in site.socks, JoinStep(s), UNCHANGED restVars
      PROVE  IInv'
  <2>1. TypeOK' /\ SockInv' /\ GateInv' /\ ReleaseInv'
    BY <1>3, JoinType, JoinSock, JoinGate
  <2>2. site.inMemory => StateInv' /\ ControllerInv'
    BY <1>3, JoinState, JoinController
  <2>3. site' = site
    BY <1>3 DEF restVars
  <2>. QED
    BY <2>1, <2>2, <2>3
<1>4. ASSUME NEW s \in site.socks, LeaveStep(s), UNCHANGED restVars
      PROVE  IInv'
  <2>1. TypeOK' /\ SockInv' /\ GateInv' /\ ReleaseInv'
    BY <1>4, LeaveType, LeaveSock, LeaveGate
  <2>2. site.inMemory => StateInv' /\ ControllerInv'
    BY <1>4, LeaveState, LeaveController
  <2>3. site' = site
    BY <1>4 DEF restVars
  <2>. QED
    BY <2>1, <2>2, <2>3
<1>5. ASSUME TypeOK', UNCHANGED <<sockVars, gate, site, meta, tl, controller>>
      PROVE  IInv'
  <2>1. SockInv' /\ GateInv' /\ ReleaseInv'
    BY <1>5, QuietSteps
  <2>2. /\ gate' = gate /\ site' = site /\ meta' = meta /\ tl' = tl /\ leave' = leave
        /\ join' = join /\ (InRoom)' = InRoom /\ controller' = controller
    BY <1>5 DEF sockVars, InRoom
  <2>3. ASSUME site.inMemory PROVE StateInv' /\ ControllerInv'
    <3>1. \A t \in Socks : leave'[t] \notin {"fetching", "fetched"}
      BY <2>2, <2>3 DEF StateInv
    <3>2. StateInv'
      BY <2>2, <2>3, <3>1, StateKept
    <3>3. ControllerInv'
      BY <2>2, <2>3, SiteType, ControllerKept
    <3>. QED
      BY <3>2, <3>3
  <2>. QED
    BY <1>5, <2>1, <2>2, <2>3
<1>6. ASSUME NEW j \in Instances, PersistStep(j), UNCHANGED restVars
      PROVE  IInv'
  <2>1. UNCHANGED <<sockVars, gate, site, meta, tl, controller>>
    BY <1>6 DEF PersistStep, PersistGet, PersistWrite, restVars
  <2>. QED
    BY <1>5, <1>6, <2>1, PersistType
<1>7. CASE updateGuestControl
  <2>1. UNCHANGED <<sockVars, gate, site, meta, tl, controller>>
    BY <1>7 DEF updateGuestControl, roomVars
  <2>. QED
    BY <1>5, <1>7, <2>1, PatchType
<1>8. CASE UNCHANGED vars
  <2>1. TypeOK' /\ UNCHANGED <<sockVars, gate, site, meta, tl, controller>>
    BY <1>8 DEF vars, restVars, sockVars, TypeOK
  <2>. QED
    BY <1>5, <2>1
<1>. QED
  BY <1>1, <1>2, <1>3, <1>4, <1>6, <1>7, <1>8 DEF Next

LEMMA Usable == ASSUME IInv PROVE RoomUsable
<1>1. ASSUME site.inMemory PROVE LiveRoomHasState
  BY <1>1 DEF IInv, StateInv, Hydrated, LiveRoomHasState, Past
<1>2. ASSUME site.inMemory PROVE PromotedCanControl
  <2>1. SUFFICES ASSUME NEW s \in InRoom, UserOf[s] = controller, join[s] = "done"
                 PROVE  /\ meta[site.inst[s]] # NoMeta
                        /\ allowedToControl(site.inst[s], controller)
    BY DEF PromotedCanControl
  <2>2. meta[site.inst[s]] # NoMeta
    BY <1>1, <1>2, <2>1 DEF LiveRoomHasState
  <2>3. s \in site.socks /\ s \in Socks
    BY <2>1 DEF InRoom, IInv, TypeOK, SockInv
  <2>4. controller # Nobody
    BY <2>1, <2>3, SocksAssumption, CreatorAssumption
  <2>5. controller = Creator \/ controller = meta[site.inst[s]].active
    BY <1>2, <2>3, <2>4 DEF IInv, ControllerInv, StandIn
  <2>. QED
    BY <2>2, <2>5 DEF allowedToControl
<1>. QED
  BY <1>1, <1>2 DEF RoomUsable, IInv, LiveRoomHasState, PromotedCanControl

(* The inductive invariant of a room's life holds of every behaviour: what  *)
(* the gate holds, what a tear-down may still meet, and where the stand-in  *)
(* is written (ensureRoom, releaseRoom, handleDisconnect, succession).      *)
THEOREM Invariance == Spec => []IInv
<1>1. Init => IInv
  BY InitInv
<1>2. IInv /\ [Next]_vars => IInv'
  BY NextInv
<1>. QED
  BY <1>1, <1>2, PTL DEF Spec

(* A room somebody is in can be used, by whom it says, for any number of    *)
(* sockets, users, instances and videos: no interleaving of joins, leaves,  *)
(* tear-downs, successions and settings leaves it without its state or      *)
(* without its controller (ensureRoom, releaseRoom, succession, reclaim).   *)
THEOREM Safety == Spec => []RoomUsable
<1>1. IInv => RoomUsable
  BY Usable
<1>. QED
  BY <1>1, Invariance, PTL

-----------------------------------------------------------------------------
(* Rooms as pages see them (RoomPages).                                     *)

(* Lists: adding, replacing and removing an entry.                          *)
LEMMA AppendedSet ==
    ASSUME NEW S, NEW s \in Seq(S), NEW e \in S
    PROVE  /\ Append(s, e) \in Seq(S)
           /\ ToSet(Append(s, e)) = ToSet(s) \cup {e}
           /\ IsInjective(s) /\ e \notin ToSet(s) => IsInjective(Append(s, e))
<1> DEFINE a == Append(s, e)
           n == Len(s)
<1>1. /\ n \in Nat /\ DOMAIN s = 1..n /\ a \in Seq(S) /\ DOMAIN a = 1..(n + 1)
      /\ a[n + 1] = e /\ \A i \in 1..n : a[i] = s[i]
  OBVIOUS
<1> HIDE DEF a, n
<1>2. ToSet(a) = ToSet(s) \cup {e}
  <2>1. \A i \in 1..(n + 1) : i \in 1..n \/ i = n + 1
    BY <1>1
  <2>2. \A i \in 1..n : i \in 1..(n + 1)
    BY <1>1
  <2>3. n + 1 \in 1..(n + 1)
    BY <1>1
  <2>4. QED
    BY <1>1, <2>1, <2>2, <2>3 DEF ToSet
<1>3. ASSUME IsInjective(s), e \notin ToSet(s) PROVE IsInjective(a)
  <2>1. SUFFICES ASSUME NEW i \in 1..(n + 1), NEW k \in 1..(n + 1), a[i] = a[k] PROVE i = k
    BY <1>1 DEF IsInjective
  <2>2. \A j \in 1..n : a[j] # e
    BY <1>1, <1>3 DEF ToSet
  <2>3. i = n + 1 <=> k = n + 1
    BY <1>1, <2>1, <2>2
  <2>4. QED
    BY <1>1, <1>3, <2>1, <2>3 DEF IsInjective
<1>4. QED
  BY <1>1, <1>2, <1>3 DEF a

LEMMA RemovedEntries ==
    ASSUME NEW S, NEW s \in Seq(S), NEW k \in DOMAIN s
    PROVE  /\ RemoveAt(s, k) \in Seq(S) /\ Len(RemoveAt(s, k)) = Len(s) - 1
           /\ \A i \in 1..(Len(s) - 1) :
                RemoveAt(s, k)[i] = IF i < k THEN s[i] ELSE s[i + 1]
<1> DEFINE n == Len(s)
           a == SubSeq(s, 1, k - 1)
           b == SubSeq(s, k + 1, n)
<1>1. n \in Nat /\ DOMAIN s = 1..n /\ k \in 1..n /\ \A i \in 1..n : s[i] \in S
  OBVIOUS
<1> HIDE DEF n
<1>2. a \in Seq(S) /\ Len(a) = k - 1 /\ \A i \in 1..(k - 1) : a[i] = s[i]
  <2>1. \A i \in 1..(k - 1) : s[i] \in S
    BY <1>1
  <2>2. /\ a \in Seq(S) /\ Len(a) = IF 1 <= k - 1 THEN (k - 1) - 1 + 1 ELSE 0
        /\ \A i \in 1..((k - 1) - 1 + 1) : a[i] = s[1 + i - 1]
    BY <1>1, <2>1, SubSeqProperties
  <2> HIDE DEF a
  <2>3. QED
    BY <1>1, <2>2
<1>3. b \in Seq(S) /\ Len(b) = n - k /\ \A i \in 1..(n - k) : b[i] = s[k + i]
  <2>1. \A i \in (k + 1)..n : s[i] \in S
    BY <1>1
  <2>2. /\ b \in Seq(S) /\ Len(b) = IF k + 1 <= n THEN n - (k + 1) + 1 ELSE 0
        /\ \A i \in 1..(n - (k + 1) + 1) : b[i] = s[(k + 1) + i - 1]
    BY <1>1, <2>1, SubSeqProperties
  <2> HIDE DEF b
  <2>3. n - (k + 1) + 1 = n - k /\ (~(k + 1 <= n) => n - k = 0)
    BY <1>1
  <2>4. \A i \in 1..(n - k) : (k + 1) + i - 1 = k + i
    BY <1>1
  <2>5. QED
    BY <1>1, <2>2, <2>3, <2>4
<1>4. RemoveAt(s, k) = a \o b
  BY DEF RemoveAt, n
<1> HIDE DEF a, b
<1>5. /\ a \o b \in Seq(S) /\ Len(a \o b) = n - 1
      /\ \A i \in 1..(n - 1) : (a \o b)[i] = IF i <= k - 1 THEN a[i] ELSE b[i - (k - 1)]
  <2>1. /\ a \o b \in Seq(S) /\ Len(a \o b) = Len(a) + Len(b)
        /\ \A i \in 1..(Len(a) + Len(b)) :
             (a \o b)[i] = IF i <= Len(a) THEN a[i] ELSE b[i - Len(a)]
    BY <1>2, <1>3, ConcatProperties
  <2>2. Len(a) + Len(b) = n - 1
    BY <1>1, <1>2, <1>3
  <2>3. QED
    BY <1>2, <2>1, <2>2
<1>6. \A i \in 1..(n - 1) : (a \o b)[i] = IF i < k THEN s[i] ELSE s[i + 1]
  <2>1. SUFFICES ASSUME NEW i \in 1..(n - 1)
                 PROVE  (a \o b)[i] = IF i < k THEN s[i] ELSE s[i + 1]
    OBVIOUS
  <2>2. CASE i < k
    BY <1>1, <1>2, <1>5, <2>2
  <2>3. CASE ~(i < k)
    <3>1. i - (k - 1) \in 1..(n - k) /\ k + (i - (k - 1)) = i + 1
      BY <1>1, <2>3
    <3>2. (a \o b)[i] = b[i - (k - 1)]
      <4>1. ~(i <= k - 1)
        BY <1>1, <2>3
      <4>2. QED
        BY <1>5, <4>1
    <3>3. QED
      BY <1>3, <2>3, <3>1, <3>2
  <2>4. QED
    BY <2>2, <2>3
<1>7. QED
  BY <1>4, <1>5, <1>6 DEF n

LEMMA RemovedSet ==
    ASSUME NEW S, NEW s \in Seq(S), NEW k \in DOMAIN s
    PROVE  /\ RemoveAt(s, k) \in Seq(S) /\ Len(RemoveAt(s, k)) = Len(s) - 1
           /\ ToSet(RemoveAt(s, k)) \subseteq ToSet(s)
           /\ IsInjective(s) => /\ IsInjective(RemoveAt(s, k))
                                /\ s[k] \notin ToSet(RemoveAt(s, k))
<1> DEFINE n == Len(s)
           a == RemoveAt(s, k)
           p(i) == IF i < k THEN i ELSE i + 1
<1>1. n \in Nat /\ DOMAIN s = 1..n /\ k \in 1..n
  OBVIOUS
<1>2. /\ a \in Seq(S) /\ Len(a) = n - 1
      /\ \A i \in 1..(n - 1) : a[i] = IF i < k THEN s[i] ELSE s[i + 1]
  BY RemovedEntries
<1> HIDE DEF n, a
<1>3. DOMAIN a = 1..(n - 1)
  BY <1>1, <1>2, LenProperties
<1>4. \A i \in 1..(n - 1) : p(i) \in 1..n /\ p(i) # k /\ a[i] = s[p(i)]
  BY <1>1, <1>2
<1>5. \A i, j \in 1..(n - 1) : p(i) = p(j) => i = j
  BY <1>1
<1> HIDE DEF p
<1>6. ToSet(a) \subseteq ToSet(s)
  BY <1>1, <1>3, <1>4 DEF ToSet
<1>7. ASSUME IsInjective(s) PROVE IsInjective(a) /\ s[k] \notin ToSet(a)
  <2>1. IsInjective(a)
    BY <1>1, <1>3, <1>4, <1>5, <1>7 DEF IsInjective
  <2>2. \A i \in 1..(n - 1) : a[i] # s[k]
    BY <1>1, <1>4, <1>7 DEF IsInjective
  <2>3. QED
    BY <1>3, <2>1, <2>2 DEF ToSet
<1>8. QED
  BY <1>2, <1>6, <1>7 DEF n, a

LEMMA PutSet ==
    ASSUME NEW S, NEW s \in Seq(S), NEW k \in DOMAIN s, NEW e \in S
    PROVE  /\ [s EXCEPT ![k] = e] \in Seq(S)
           /\ ToSet([s EXCEPT ![k] = e]) \subseteq ToSet(s) \cup {e}
<1>1. [s EXCEPT ![k] = e] \in Seq(S)
  BY ExceptSeq
<1>2. DOMAIN [s EXCEPT ![k] = e] = DOMAIN s
  OBVIOUS
<1>3. \A i \in DOMAIN s : [s EXCEPT ![k] = e][i] = IF i = k THEN e ELSE s[i]
  OBVIOUS
<1>4. QED
  BY <1>1, <1>2, <1>3 DEF ToSet

(* A history is the end of the messages; one more message moves it on.      *)
LEMMA HistoryOf ==
    ASSUME NEW s \in Seq(Texts)
    PROVE  /\ History(s) \in Seq(Texts)
           /\ ToSet(History(s)) \subseteq ToSet(s)
           /\ IsInjective(s) => IsInjective(History(s))
<1> DEFINE n == Len(s)
           m == IF n > HistoryTake THEN n - HistoryTake + 1 ELSE 1
           h == SubSeq(s, m, n)
<1>1. n \in Nat /\ DOMAIN s = 1..n /\ \A i \in 1..n : s[i] \in Texts
  OBVIOUS
<1>2. History(s) = h
  BY DEF History
<1> HIDE DEF n
<1>3. m \in Nat /\ m >= 1
  BY <1>1, LimitsAssumption
<1> HIDE DEF m
<1>4. \A i \in m..n : s[i] \in Texts
  BY <1>1, <1>3
<1>5. /\ h \in Seq(Texts) /\ Len(h) = (IF m <= n THEN n - m + 1 ELSE 0)
      /\ \A i \in 1..(n - m + 1) : h[i] = s[m + i - 1]
  BY <1>1, <1>3, <1>4, SubSeqProperties
<1> HIDE DEF h
<1>6. DOMAIN h = 1..(n - m + 1)
  BY <1>1, <1>3, <1>5, LenProperties
<1>7. \A i \in 1..(n - m + 1) : m + i - 1 \in 1..n
  BY <1>1, <1>3
<1>8. \A i, j \in 1..(n - m + 1) : m + i - 1 = m + j - 1 => i = j
  BY <1>1, <1>3
<1>9. ToSet(h) \subseteq ToSet(s)
  BY <1>1, <1>5, <1>6, <1>7 DEF ToSet
<1>10. ASSUME IsInjective(s) PROVE IsInjective(h)
  BY <1>1, <1>5, <1>6, <1>7, <1>8, <1>10 DEF IsInjective
<1>11. QED
  BY <1>2, <1>5, <1>9, <1>10

LEMMA HistoryMoves ==
    ASSUME NEW s \in Seq(Texts), NEW e \in Texts
    PROVE  ToSet(History(Append(s, e))) \subseteq ToSet(History(s)) \cup {e}
<1> DEFINE n == Len(s)
           a == Append(s, e)
           m == IF n > HistoryTake THEN n - HistoryTake + 1 ELSE 1
           l == IF n + 1 > HistoryTake THEN (n + 1) - HistoryTake + 1 ELSE 1
           h == SubSeq(s, m, n)
           g == SubSeq(a, l, n + 1)
<1>1. /\ n \in Nat /\ DOMAIN s = 1..n /\ a \in Seq(Texts) /\ Len(a) = n + 1
      /\ a[n + 1] = e /\ \A i \in 1..n : a[i] = s[i] /\ s[i] \in Texts
  OBVIOUS
<1>2. History(s) = h /\ History(a) = g
  <2>1. History(s) = h
    BY DEF History
  <2>2. Len(a) = n + 1
    BY <1>1
  <2> HIDE DEF a, n
  <2>3. History(a) = g
    BY <2>2 DEF History
  <2>4. QED
    BY <2>1, <2>3 DEF n
<1> HIDE DEF n, a
<1>3. m \in Nat /\ l \in Nat /\ m >= 1 /\ m <= l
  BY <1>1, LimitsAssumption
<1> HIDE DEF m, l
<1>4. (\A i \in m..n : s[i] \in Texts) /\ (\A i \in l..(n + 1) : a[i] \in Texts)
  <2>1. \A i \in 1..(n + 1) : a[i] \in Texts
    BY <1>1
  <2>2. QED
    BY <1>1, <1>3, <2>1
<1>5. /\ h \in Seq(Texts) /\ Len(h) = (IF m <= n THEN n - m + 1 ELSE 0)
      /\ \A i \in 1..(n - m + 1) : h[i] = s[m + i - 1]
  BY <1>1, <1>3, <1>4, SubSeqProperties
<1>6. /\ g \in Seq(Texts) /\ Len(g) = (IF l <= n + 1 THEN (n + 1) - l + 1 ELSE 0)
      /\ \A i \in 1..((n + 1) - l + 1) : g[i] = a[l + i - 1]
  BY <1>1, <1>3, <1>4, SubSeqProperties
<1> HIDE DEF h, g
<1>7. DOMAIN h = 1..(n - m + 1) /\ DOMAIN g = 1..((n + 1) - l + 1)
  BY <1>1, <1>3, <1>5, <1>6, LenProperties
<1>8. \A i \in 1..((n + 1) - l + 1) : g[i] = e \/ g[i] \in ToSet(h)
  <2>1. SUFFICES ASSUME NEW i \in 1..((n + 1) - l + 1), l + i - 1 # n + 1
                 PROVE  g[i] \in ToSet(h)
    BY <1>1, <1>6
  <2>2. l + i - 1 \in 1..n /\ l + i - m \in 1..(n - m + 1) /\ m + (l + i - m) - 1 = l + i - 1
    BY <1>1, <1>3, <2>1
  <2>3. g[i] = s[l + i - 1]
    BY <1>1, <1>6, <2>2
  <2>4. h[l + i - m] = s[l + i - 1]
    BY <1>5, <2>2
  <2>5. QED
    BY <1>7, <2>2, <2>3, <2>4 DEF ToSet
<1>9. QED
  BY <1>2, <1>7, <1>8 DEF ToSet, a

(* The recent list: each room once, never past its limit.                   *)
LEMMA Forgotten ==
    ASSUME NEW s \in Seq(Rooms), NEW r \in Rooms, IsInjective(s)
    PROVE  /\ forgetRoom(s, r) \in Seq(Rooms) /\ IsInjective(forgetRoom(s, r))
           /\ Len(forgetRoom(s, r)) <= Len(s) /\ r \notin ToSet(forgetRoom(s, r))
<1>1. CASE r \notin ToSet(s)
  BY <1>1 DEF forgetRoom
<1>2. CASE r \in ToSet(s)
  <2> DEFINE i == CHOOSE i \in DOMAIN s : s[i] = r
  <2>1. i \in DOMAIN s /\ s[i] = r
    BY <1>2 DEF ToSet
  <2>2. forgetRoom(s, r) = RemoveAt(s, i)
    BY <1>2 DEF forgetRoom
  <2> HIDE DEF i
  <2>3. QED
    BY <2>1, <2>2, RemovedSet
<1>3. QED
  BY <1>1, <1>2

LEMMA Remembered ==
    ASSUME NEW s \in Seq(Rooms), NEW r \in Rooms, IsInjective(s)
    PROVE  /\ rememberRoom(s, r) \in Seq(Rooms) /\ IsInjective(rememberRoom(s, r))
           /\ Len(rememberRoom(s, r)) <= Limit
<1> DEFINE f == forgetRoom(s, r)
           a == <<r>> \o f
           n == Len(f)
           m == IF Len(a) < Limit THEN Len(a) ELSE Limit
           b == SubSeq(a, 1, m)
<1>1. f \in Seq(Rooms) /\ IsInjective(f) /\ r \notin ToSet(f)
  BY Forgotten
<1>2. rememberRoom(s, r) = b
  BY DEF rememberRoom
<1> HIDE DEF f
<1>3. n \in Nat /\ DOMAIN f = 1..n
  BY <1>1, LenProperties
<1>4. <<r>> \in Seq(Rooms) /\ Len(<<r>>) = 1 /\ <<r>>[1] = r
  OBVIOUS
<1>5. /\ a \in Seq(Rooms) /\ Len(a) = 1 + n
      /\ \A i \in 1..(1 + n) : a[i] = IF i <= 1 THEN <<r>>[i] ELSE f[i - 1]
  BY <1>1, <1>4, ConcatProperties
<1> HIDE DEF n, a
<1>6. m \in Nat /\ m <= Limit /\ m <= 1 + n
  BY <1>3, <1>5, LimitsAssumption
<1> HIDE DEF m
<1>7. \A i \in 1..(1 + n) : a[i] \in Rooms
  BY <1>3, <1>5, LenProperties
<1>8. \A i \in 1..m : a[i] \in Rooms
  BY <1>3, <1>6, <1>7
<1>9. /\ b \in Seq(Rooms) /\ Len(b) = (IF 1 <= m THEN m - 1 + 1 ELSE 0)
      /\ \A i \in 1..(m - 1 + 1) : b[i] = a[1 + i - 1]
  BY <1>6, <1>8, SubSeqProperties
<1> HIDE DEF b
<1>10. Len(b) = m /\ DOMAIN b = 1..m /\ \A i \in 1..m : b[i] = a[i]
  BY <1>6, <1>9, LenProperties
<1>11. \A i, j \in 1..m : a[i] = a[j] => i = j
  <2>1. SUFFICES ASSUME NEW i \in 1..m, NEW j \in 1..m, a[i] = a[j] PROVE i = j
    OBVIOUS
  <2>2. \A q \in 1..n : f[q] # r
    BY <1>1, <1>3 DEF ToSet
  <2>3. a[i] = (IF i = 1 THEN r ELSE f[i - 1]) /\ a[j] = (IF j = 1 THEN r ELSE f[j - 1])
    BY <1>3, <1>4, <1>5, <1>6
  <2>4. (i # 1 => i - 1 \in 1..n) /\ (j # 1 => j - 1 \in 1..n)
    BY <1>3, <1>6
  <2>5. (i = 1) <=> (j = 1)
    BY <2>1, <2>2, <2>3, <2>4
  <2>6. i # 1 => i - 1 = j - 1
    BY <1>1, <1>3, <2>1, <2>3, <2>4, <2>5 DEF IsInjective
  <2>7. QED
    BY <1>6, <2>5, <2>6
<1>12. QED
  BY <1>2, <1>6, <1>9, <1>10, <1>11 DEF IsInjective

LEMMA RoomsInitial ==
    ASSUME RoomsInit
    PROVE  RoomsIInv
<1>1. /\ scope \in Scopes /\ scope \in Scope
      /\ used = [b \in Budgets |-> 0]
      /\ channel = [r \in Rooms |-> {}] /\ fetches = {} /\ joins = [t \in Tabs |-> <<>>]
      /\ send = [x \in Texts |-> Unsent] /\ del = [t \in Tabs |-> NoDelete]
      /\ save = [t \in Tabs |-> NoSave] /\ recents = [u \in People |-> <<>>]
      /\ ejected = {} /\ meant = [r \in Rooms |-> Plain] /\ overlap = [t \in Tabs |-> {}]
  BY PageScopesAssumption DEF RoomsInit
<1>2. /\ rows \in [Rooms -> Row]
      /\ \A r \in Rooms : rows[r].phase = "unborn" /\ rows[r].msgs = <<>> /\ rows[r].setting = Plain
  <2> DEFINE p == [u \in People |-> "none"]
             w == [phase |-> "unborn", creator |-> NoCreator, setting |-> Plain,
                   msgs |-> <<>>, parts |-> p]
  <2>1. rows = [r \in Rooms |-> w]
    BY DEF RoomsInit
  <2>2. Plain \in Setting
    BY DEF Plain, Setting
  <2>3. p \in [People -> {"none", "in", "out"}] /\ <<>> \in Seq(Texts)
    OBVIOUS
  <2> HIDE DEF p
  <2>4. w \in Row
    BY <2>2, <2>3 DEF Row
  <2>5. w.phase = "unborn" /\ w.msgs = <<>> /\ w.setting = Plain
    OBVIOUS
  <2> HIDE DEF w
  <2>6. QED
    BY <2>1, <2>4, <2>5
<1>3. /\ tab \in [Tabs -> TabState]
      /\ \A t \in Tabs : /\ tab[t].where = "home" /\ tab[t].room = NoRoom
                         /\ tab[t].shown = NoSetting /\ tab[t].chat = <<>>
                         /\ tab[t].joined = FALSE /\ tab[t].form.open = FALSE
  <2>1. tab = [t \in Tabs |-> [AtHome EXCEPT !.conn = t \in scope.online]]
    BY DEF RoomsInit
  <2>2. ASSUME NEW b \in BOOLEAN PROVE [AtHome EXCEPT !.conn = b] \in TabState
    <3>1. /\ NoForm \in [open : BOOLEAN, init : Setting \cup {NoSetting},
                         val : Setting \cup {NoSetting}]
          /\ {} \in SUBSET Rooms /\ <<>> \in Seq(Texts)
      BY DEF NoForm
    <3>2. AtHome \in TabState
      BY <3>1 DEF AtHome, TabState
    <3>3. QED
      BY <3>2 DEF TabState
  <2>3. \A t \in Tabs : (t \in scope.online) \in BOOLEAN
    OBVIOUS
  <2>4. \A b : LET h == [AtHome EXCEPT !.conn = b] IN
          /\ h.where = "home" /\ h.room = NoRoom /\ h.shown = NoSetting /\ h.chat = <<>>
          /\ h.joined = FALSE /\ h.form.open = FALSE
    BY DEF AtHome, NoForm
  <2>5. QED
    BY <2>1, <2>2, <2>3, <2>4
<1>4. \A b \in Budgets : 0 <= scope[b]
  BY <1>1 DEF Scope, Budgets
<1>5. PagesTyped
  <2>1. used \in [Budgets -> Nat] /\ \A b \in Budgets : used[b] <= scope[b]
    BY <1>1, <1>4
  <2>2. Unsent \in Message /\ NoDelete \in DeleteTask /\ NoSave \in SaveTask /\ Plain \in Setting
    BY DEF Unsent, Message, NoDelete, DeleteTask, NoSave, SaveTask, Plain, Setting
  <2>3. QED
    BY <1>1, <1>2, <1>3, <2>1, <2>2 DEF PagesTyped
<1>6. \A r \in Rooms : RowSound(r)
  BY <1>1, <1>2 DEF RowSound, IsInjective, ToSet
<1>7. \A x \in Texts : MessageSound(x)
  BY <1>1 DEF MessageSound, Unsent
<1>8. \A t \in Tabs : PlaceSound(t) /\ ToldSound(t) /\ ChatSound(t)
  BY <1>3 DEF PlaceSound, ToldSound, ChatSound, ToSet
<1>9. \A t \in Tabs : RequestSound(t)
  BY <1>1 DEF RequestSound, NoDelete, NoSave
<1>10. \A t \in Tabs : ToSet(joins[t]) = {}
  BY <1>1 DEF ToSet
<1>11. ChannelSound /\ EjectedOnlyFromEnded
  BY <1>1 DEF ChannelSound, EjectedOnlyFromEnded
<1>12. RecentsSound
  BY <1>1, LimitsAssumption DEF RecentsSound, IsInjective
<1>13. QED
  BY <1>1, <1>5, <1>6, <1>7, <1>8, <1>9, <1>10, <1>11, <1>12 DEF RoomsIInv

-----------------------------------------------------------------------------
(* What no step undoes: a room that was born, and what has been announced.  *)
RowsGrow ==
    \A r \in Rooms :
        /\ rows[r].phase # "unborn" => rows'[r].phase # "unborn"
        /\ rows[r].phase # "unborn" /\ rows'[r].phase = "live" =>
              rows[r].phase = "live" /\ ToSet(rows[r].msgs) \subseteq ToSet(rows'[r].msgs)
        /\ rows[r].phase = "gone" => rows'[r].phase = "gone"

SendsGrow ==
    \A x \in Texts : send[x].st \in Announced =>
        send'[x].st \in Announced /\ send'[x].room = send[x].room

OverlapGrows == \A t \in Tabs : overlap[t] \subseteq overlap'[t]

(* Most steps leave the rooms' messages and what was announced alone, the   *)
(* tab's connection, and its page, or the page after has joined nothing.    *)
SameTexts ==
    /\ \A r \in Rooms : rows'[r].msgs = rows[r].msgs
    /\ \A x \in Texts : send[x].st \in Announced => send'[x].st = send[x].st

StillOn(t) ==
    /\ tab[t].conn => tab'[t].conn
    /\ \A r \in Rooms : t \in channel[r] => t \in channel'[r]

SamePage(t) ==
    /\ tab'[t].where = tab[t].where /\ tab'[t].room = tab[t].room
    /\ tab'[t].joined = tab[t].joined /\ tab'[t].chat = tab[t].chat
    /\ tab[t].shown # NoSetting => tab'[t].shown # NoSetting

UnjoinedPage(t) == tab'[t].joined = FALSE /\ tab'[t].chat \in {<<>>, tab[t].chat}

LEMMA RowsStay ==
    ASSUME rows' = rows
    PROVE  RowsGrow
BY DEF RowsGrow

LEMMA SendsStay ==
    ASSUME send' = send
    PROVE  SendsGrow
BY DEF SendsGrow

LEMMA KeptStays ==
    ASSUME NEW x \in Texts, MessageSound(x), Kept(x), RowsGrow, SendsGrow
    PROVE  Kept(x)'
<1>1. send[x].st \in Announced /\ send[x].st # "idle"
  BY DEF Kept, Announced
<1>2. send[x].room \in Rooms /\ rows[send[x].room].phase # "unborn"
  BY <1>1 DEF MessageSound
<1>3. send'[x].st \in Announced /\ send'[x].room = send[x].room
  BY <1>1 DEF SendsGrow
<1>4. QED
  BY <1>2, <1>3 DEF Kept, RowsGrow

LEMMA RowFrame ==
    ASSUME PagesTyped, NEW r \in Rooms, RowSound(r), rows'[r] = rows[r], meant'[r] = meant[r],
           SendsGrow
    PROVE  RowSound(r)'
<1>1. rows[r].msgs \in Seq(Texts)
  BY DEF Row, PagesTyped
<1>2. \A x \in ToSet(rows[r].msgs) : x \in Texts
  BY <1>1 DEF ToSet
<1>3. QED
  BY <1>2 DEF RowSound, SendsGrow

LEMMA MessageFrame ==
    ASSUME NEW x \in Texts, MessageSound(x), send'[x] = send[x], RowsGrow, SendsGrow
    PROVE  MessageSound(x)'
<1>1. ASSUME send'[x].st = "saved" PROVE Kept(x)'
  BY <1>1, KeptStays DEF MessageSound
<1>2. QED
  BY <1>1 DEF MessageSound, RowsGrow

LEMMA ToldFrame ==
    ASSUME NEW t \in Tabs, ToldSound(t), (StillOn(t) /\ SamePage(t)) \/ UnjoinedPage(t), PagesTyped,
           PlaceSound(t), \A x \in Texts : MessageSound(x), RowsGrow, SendsGrow
    PROVE  ToldSound(t)'
<1>1. tab[t].chat \in Seq(Texts)
  BY DEF PagesTyped, TabState
<1>2. \A x \in ToSet(tab[t].chat) : x \in Texts
  BY <1>1 DEF ToSet
<1>3. \A x \in ToSet(tab[t].chat) : Kept(x)'
  BY <1>2, KeptStays DEF ToldSound
<1>4. CASE UnjoinedPage(t)
  <2>1. \A x \in ToSet(<<>>) : Kept(x)'
    BY DEF ToSet
  <2>2. QED
    BY <1>3, <1>4, <2>1 DEF UnjoinedPage, ToldSound
<1>5. CASE StillOn(t) /\ SamePage(t)
  <2>1. tab[t].joined => tab[t].room \in Rooms
    BY DEF ToldSound, Panel, PlaceSound, PagesTyped, TabState
  <2>2. tab'[t].joined => Panel(t)' /\ t \in channel'[tab'[t].room]
    BY <1>5, <2>1 DEF SamePage, ToldSound, Panel, StillOn
  <2>3. QED
    BY <1>3, <1>5, <2>2 DEF SamePage, ToldSound
<1>6. QED
  BY <1>4, <1>5

LEMMA JoinFrame ==
    ASSUME NEW t \in Tabs, NEW j \in JoinTask, JoinSound(t, j), StillOn(t),
           \A x \in Texts : MessageSound(x), RowsGrow, SendsGrow
    PROVE  JoinSound(t, j)'
<1>1. j.hist \in Seq(Texts) /\ j.room \in Rooms
  BY DEF JoinTask
<1>2. \A x \in ToSet(j.hist) : x \in Texts
  BY <1>1 DEF ToSet
<1>3. \A x \in ToSet(j.hist) : Kept(x)'
  BY <1>2, KeptStays DEF JoinSound
<1>4. QED
  BY <1>1, <1>3 DEF JoinSound, StillOn

(* The messages of a room that shows no other ones.                         *)
LEMMA SameMessages ==
    ASSUME PagesTyped, NEW r \in Rooms, RowSound(r), SameTexts
    PROVE  /\ rows'[r].msgs = rows[r].msgs
           /\ \A x \in ToSet(rows[r].msgs) : x \in Texts /\ send'[x].st = send[x].st
<1>1. rows[r].msgs \in Seq(Texts)
  BY DEF PagesTyped, Row
<1>2. \A x \in ToSet(rows[r].msgs) : x \in Texts
  BY <1>1 DEF ToSet
<1>3. QED
  BY <1>2 DEF SameTexts, RowSound

LEMMA ChatFrame ==
    ASSUME NEW t \in Tabs, ChatSound(t), (StillOn(t) /\ SamePage(t)) \/ UnjoinedPage(t), PagesTyped,
           PlaceSound(t), ToldSound(t), \A r \in Rooms : RowSound(r), SameTexts, OverlapGrows
    PROVE  ChatSound(t)'
<1>1. CASE UnjoinedPage(t)
  BY <1>1 DEF UnjoinedPage, ChatSound
<1>2. CASE SamePage(t)
  <2>1. SUFFICES ASSUME tab[t].joined PROVE ChatSound(t)'
    BY <1>2 DEF ChatSound, SamePage
  <2>2. tab[t].room \in Rooms
    BY <2>1 DEF ToldSound, Panel, PlaceSound, PagesTyped, TabState
  <2>3. /\ rows'[tab[t].room].msgs = rows[tab[t].room].msgs
        /\ \A x \in ToSet(rows[tab[t].room].msgs) : x \in Texts /\ send'[x].st = send[x].st
    BY <2>2, SameMessages
  <2>4. QED
    BY <1>2, <2>1, <2>3 DEF ChatSound, SamePage, OverlapGrows
<1>3. QED
  BY <1>1, <1>2

LEMMA HistoryFrame ==
    ASSUME NEW t \in Tabs, NEW j \in JoinTask, HistorySound(t, j), PagesTyped,
           \A r \in Rooms : RowSound(r), SameTexts, OverlapGrows
    PROVE  HistorySound(t, j)'
<1>1. j.room \in Rooms
  BY DEF JoinTask
<1>2. /\ rows'[j.room].msgs = rows[j.room].msgs
      /\ \A x \in ToSet(rows[j.room].msgs) : x \in Texts /\ send'[x].st = send[x].st
  BY <1>1, SameMessages
<1>3. QED
  BY <1>2 DEF HistorySound, OverlapGrows

LEMMA RequestFrame ==
    ASSUME NEW t \in Tabs, RequestSound(t), del'[t] = del[t], save'[t] = save[t], RowsGrow
    PROVE  RequestSound(t)'
<1>1. del[t].pc = "ok" => rows'[del[t].room].phase = "gone"
  BY DEF RequestSound, RowsGrow
<1>2. QED
  BY <1>1 DEF RequestSound

LEMMA PlaceFrame ==
    ASSUME PagesTyped, NEW t \in Tabs, PlaceSound(t), tab'[t] = tab[t], RowsGrow
    PROVE  PlaceSound(t)'
<1>1. tab[t].shown # NoSetting => tab[t].room \in Rooms
  BY DEF PlaceSound, PagesTyped, TabState
<1>2. QED
  BY <1>1 DEF PlaceSound, RowsGrow

LEMMA FetchFrame ==
    ASSUME NEW f \in FetchTask, FetchSound(f), tab'[f.tab].where = tab[f.tab].where,
           tab'[f.tab].room = tab[f.tab].room, RowsGrow
    PROVE  FetchSound(f)'
<1>1. f.room \in Rooms
  BY DEF FetchTask
<1>2. QED
  BY <1>1 DEF FetchSound, RowsGrow

LEMMA JoinsTyped ==
    ASSUME PagesTyped
    PROVE  \A t \in Tabs : \A j \in ToSet(joins[t]) : j \in JoinTask
<1>1. \A t \in Tabs : joins[t] \in Seq(JoinTask)
  BY DEF PagesTyped
<1>2. QED
  BY <1>1 DEF ToSet

(* The common part of the steps: what a step does not say anew about a tab, *)
(* its joins or a fetch stays.                                              *)
LEMMA StepFrame ==
    ASSUME RoomsIInv, PagesTyped', RowsGrow, SendsGrow, OverlapGrows, SameTexts,
           \A r \in Rooms : RowSound(r)', \A x \in Texts : MessageSound(x)',
           \A t \in Tabs : PlaceSound(t)' /\ RequestSound(t)',
           \A t \in Tabs : \/ (StillOn(t) /\ SamePage(t)) \/ UnjoinedPage(t)
                           \/ ToldSound(t)' /\ ChatSound(t)',
           \A f \in fetches' : FetchSound(f)',
           \A t \in Tabs : \A j \in ToSet(joins'[t]) :
              \/ j \in ToSet(joins[t]) /\ StillOn(t)
              \/ JoinSound(t, j)' /\ HistorySound(t, j)',
           ChannelSound', RecentsSound', EjectedOnlyFromEnded'
    PROVE  RoomsIInv'
<1>1. /\ PagesTyped /\ (\A r \in Rooms : RowSound(r)) /\ (\A x \in Texts : MessageSound(x))
      /\ \A t \in Tabs : PlaceSound(t) /\ ToldSound(t) /\ ChatSound(t)
      /\ \A t \in Tabs : \A j \in ToSet(joins[t]) : JoinSound(t, j) /\ HistorySound(t, j)
  BY DEF RoomsIInv
<1>2. ASSUME NEW t \in Tabs PROVE ToldSound(t)' /\ ChatSound(t)'
  BY <1>1, ToldFrame, ChatFrame
<1>3. ASSUME NEW t \in Tabs, NEW j \in ToSet(joins'[t])
      PROVE  JoinSound(t, j)' /\ HistorySound(t, j)'
  BY <1>1, JoinsTyped, JoinFrame, HistoryFrame
<1>4. QED
  BY <1>2, <1>3 DEF RoomsIInv

-----------------------------------------------------------------------------
(* Pages: going home, opening a room.                                       *)
LEMMA HomePage ==
    ASSUME NEW tb \in TabState
    PROVE  /\ Home(tb) \in TabState /\ Home(tb).conn = tb.conn
           /\ Home(tb).where = "home" /\ Home(tb).room = NoRoom
           /\ Home(tb).shown = NoSetting /\ Home(tb).chat = <<>>
           /\ Home(tb).joined = FALSE /\ Home(tb).form.open = FALSE
<1>1. /\ NoForm \in [open : BOOLEAN, init : Setting \cup {NoSetting},
                     val : Setting \cup {NoSetting}]
      /\ <<>> \in Seq(Texts) /\ NoForm.open = FALSE
  BY DEF NoForm
<1>2. QED
  BY <1>1 DEF Home, TabState

LEMMA OpenedPage ==
    ASSUME NEW tb \in TabState, NEW r \in Rooms
    PROVE  /\ RoomPage(tb, r) \in TabState /\ RoomPage(tb, r).conn = tb.conn
           /\ RoomPage(tb, r).where = "room" /\ RoomPage(tb, r).room = r
           /\ RoomPage(tb, r).shown = NoSetting /\ RoomPage(tb, r).chat = <<>>
           /\ RoomPage(tb, r).joined = FALSE /\ RoomPage(tb, r).form.open = FALSE
<1> DEFINE h == Home(tb)
           w == [h EXCEPT !.where = "room"]
<1>1. /\ h \in TabState /\ h.conn = tb.conn
      /\ h.shown = NoSetting /\ h.chat = <<>> /\ h.joined = FALSE /\ h.form.open = FALSE
  BY HomePage
<1>2. RoomPage(tb, r) = [w EXCEPT !.room = r]
  BY DEF RoomPage
<1> HIDE DEF h
<1>3. /\ w \in TabState /\ w.conn = tb.conn /\ w.where = "room"
      /\ w.shown = NoSetting /\ w.chat = <<>> /\ w.joined = FALSE /\ w.form.open = FALSE
  BY <1>1 DEF TabState
<1> HIDE DEF w
<1>4. QED
  BY <1>2, <1>3 DEF TabState

LEMMA TabReplaced ==
    ASSUME PagesTyped, NEW t \in Tabs, NEW e \in TabState, tab' = [tab EXCEPT ![t] = e]
    PROVE  /\ tab' \in [Tabs -> TabState] /\ tab'[t] = e
           /\ \A s \in Tabs : s # t => tab'[s] = tab[s]
BY DEF PagesTyped

LEMMA Spent ==
    ASSUME PagesTyped, NEW b \in Budgets, Spend(b), scope' = scope
    PROVE  used' \in [Budgets -> Nat] /\ \A c \in Budgets : used'[c] <= scope'[c]
<1>1. scope \in Scope
  BY PageScopesAssumption DEF PagesTyped
<1>2. \A c \in Budgets : scope[c] \in Nat
  BY <1>1 DEF Scope, Budgets
<1>3. /\ used \in [Budgets -> Nat] /\ \A c \in Budgets : used[c] <= scope[c]
      /\ used[b] < scope[b] /\ used' = [used EXCEPT ![b] = used[b] + 1]
  BY DEF PagesTyped, Spend
<1>4. QED
  BY <1>2, <1>3

LEMMA RequestsStay ==
    ASSUME RoomsIInv, UNCHANGED <<del, save>>, RowsGrow
    PROVE  /\ del' \in [Tabs -> DeleteTask] /\ save' \in [Tabs -> SaveTask]
           /\ \A t \in Tabs : RequestSound(t)'
BY RequestFrame DEF RoomsIInv, PagesTyped

(* The fetches of a tab that leaves its page.                               *)
LEMMA UnmountedFetches ==
    ASSUME PagesTyped, NEW t \in Tabs
    PROVE  /\ Unmounted(t) \subseteq FetchTask
           /\ \A f \in Unmounted(t) : \/ f \in fetches /\ f.tab # t
                                      \/ \E g \in fetches : /\ f.tab = g.tab /\ f.mine = FALSE
                                                            /\ f.st = g.st /\ f.val = g.val
                                                            /\ f.room = g.room
<1>1. SUFFICES ASSUME NEW g \in fetches,
                      NEW f, f = IF g.tab = t THEN [g EXCEPT !.mine = FALSE] ELSE g
               PROVE  /\ f \in FetchTask
                      /\ \/ f \in fetches /\ f.tab # t
                         \/ /\ f.tab = g.tab /\ f.mine = FALSE
                            /\ f.st = g.st /\ f.val = g.val /\ f.room = g.room
  BY DEF Unmounted
<1>2. g \in FetchTask
  BY DEF PagesTyped
<1>3. CASE g.tab = t
  BY <1>1, <1>2, <1>3 DEF FetchTask
<1>4. CASE g.tab # t
  BY <1>1, <1>2, <1>4
<1>5. QED
  BY <1>3, <1>4

LEMMA UnmountedSound ==
    ASSUME PagesTyped, NEW t \in Tabs, \A f \in fetches : FetchSound(f), RowsGrow,
           \A s \in Tabs : s # t => tab'[s] = tab[s]
    PROVE  \A f \in Unmounted(t) : FetchSound(f)'
<1>1. SUFFICES ASSUME NEW f \in Unmounted(t) PROVE FetchSound(f)'
  OBVIOUS
<1>2. f \in FetchTask
  BY UnmountedFetches
<1>3. CASE f \in fetches /\ f.tab # t
  BY <1>2, <1>3, FetchFrame DEF FetchTask
<1>4. ASSUME NEW g \in fetches, f.tab = g.tab, f.mine = FALSE, f.st = g.st, f.val = g.val,
             f.room = g.room
      PROVE  FetchSound(f)'
  BY <1>2, <1>4 DEF FetchSound, RowsGrow, FetchTask
<1>5. QED
  BY <1>3, <1>4, UnmountedFetches

(* A step that leaves rooms, messages, joins and connections alone.         *)
LEMMA QuietStep ==
    ASSUME RoomsIInv, scope' = scope,
           used' \in [Budgets -> Nat], \A b \in Budgets : used'[b] <= scope'[b],
           UNCHANGED <<rows, meant, send, joins, channel, overlap>>,
           tab' \in [Tabs -> TabState], \A t \in Tabs : tab'[t].conn = tab[t].conn,
           \A t \in Tabs : SamePage(t) \/ UnjoinedPage(t), \A t \in Tabs : PlaceSound(t)',
           fetches' \subseteq FetchTask, \A f \in fetches' : FetchSound(f)',
           del' \in [Tabs -> DeleteTask], save' \in [Tabs -> SaveTask],
           \A t \in Tabs : RequestSound(t)',
           recents' \in [People -> Seq(Rooms)], RecentsSound', EjectedOnlyFromEnded'
    PROVE  RoomsIInv'
<1>1. PagesTyped'
  BY DEF RoomsIInv, PagesTyped
<1>2. RowsGrow /\ SendsGrow /\ OverlapGrows /\ SameTexts
  BY RowsStay, SendsStay DEF OverlapGrows, SameTexts
<1>3. (\A r \in Rooms : RowSound(r)') /\ \A x \in Texts : MessageSound(x)'
  BY <1>2, RowFrame, MessageFrame DEF RoomsIInv
<1>4. ASSUME NEW t \in Tabs
      PROVE  /\ StillOn(t) /\ (SamePage(t) \/ UnjoinedPage(t))
             /\ \A j \in ToSet(joins'[t]) : j \in ToSet(joins[t]) /\ StillOn(t)
  BY DEF StillOn
<1>5. ChannelSound'
  <2>1. ChannelSound /\ channel \in [Rooms -> SUBSET Tabs]
    BY DEF RoomsIInv, PagesTyped
  <2>2. QED
    BY <2>1 DEF ChannelSound
<1>6. QED
  BY <1>1, <1>2, <1>3, <1>4, <1>5, StepFrame

(* One tab changes its page, and the rest is as it was.                     *)
LEMMA PageStep ==
    ASSUME RoomsIInv, NEW t \in Tabs, NEW e \in TabState, tab' = [tab EXCEPT ![t] = e],
           e.conn = tab[t].conn, SamePage(t) \/ UnjoinedPage(t), PlaceSound(t)', scope' = scope,
           used' \in [Budgets -> Nat], \A b \in Budgets : used'[b] <= scope'[b],
           UNCHANGED <<rows, meant, send, joins, channel, overlap, recents, ejected, ended>>,
           fetches' \subseteq FetchTask, \A f \in fetches' : FetchSound(f)',
           del' \in [Tabs -> DeleteTask], save' \in [Tabs -> SaveTask],
           \A s \in Tabs : RequestSound(s)'
    PROVE  RoomsIInv'
<1>1. PagesTyped
  BY DEF RoomsIInv
<1>2. /\ tab' \in [Tabs -> TabState] /\ tab'[t] = e
      /\ \A s \in Tabs : s # t => tab'[s] = tab[s]
  BY <1>1, TabReplaced
<1>3. \A s \in Tabs : tab'[s].conn = tab[s].conn
  BY <1>2
<1>4. ASSUME NEW s \in Tabs PROVE SamePage(s) \/ UnjoinedPage(s)
  BY <1>2 DEF SamePage
<1>5. ASSUME NEW s \in Tabs PROVE PlaceSound(s)'
  BY <1>1, <1>2, RowsStay, PlaceFrame DEF RoomsIInv
<1>6. recents' \in [People -> Seq(Rooms)] /\ RecentsSound' /\ EjectedOnlyFromEnded'
  BY DEF RoomsIInv, PagesTyped, RecentsSound, EjectedOnlyFromEnded
<1>7. QED
  BY <1>2, <1>3, <1>4, <1>5, <1>6, QuietStep

-----------------------------------------------------------------------------
(* The steps of the pages.                                                  *)
LEMMA OpensStep ==
    ASSUME RoomsIInv, NEW t \in Tabs, NEW r \in Rooms, Opens(t, r), RowsGrow
    PROVE  /\ RoomPage(tab[t], r) \in TabState
           /\ tab' = [tab EXCEPT ![t] = RoomPage(tab[t], r)]
           /\ RoomPage(tab[t], r).conn = tab[t].conn
           /\ UnjoinedPage(t) /\ PlaceSound(t)'
           /\ fetches' \subseteq FetchTask /\ \A f \in fetches' : FetchSound(f)'
<1> DEFINE e == RoomPage(tab[t], r)
<1>1. PagesTyped /\ tab[t] \in TabState
  BY DEF RoomsIInv, PagesTyped
<1>2. /\ e \in TabState /\ e.conn = tab[t].conn /\ e.where = "room" /\ e.room = r
      /\ e.shown = NoSetting /\ e.chat = <<>> /\ e.joined = FALSE /\ e.form.open = FALSE
  BY <1>1, OpenedPage
<1>3. tab' = [tab EXCEPT ![t] = e] /\ fetches' = Unmounted(t) \cup {FetchOf(t, r)}
  BY DEF Opens
<1> HIDE DEF e
<1>4. tab'[t] = e /\ \A s \in Tabs : s # t => tab'[s] = tab[s]
  BY <1>1, <1>2, <1>3, TabReplaced
<1>5. UnjoinedPage(t) /\ PlaceSound(t)'
  BY <1>2, <1>4, NothingAssumption DEF UnjoinedPage, PlaceSound
<1>6. FetchOf(t, r) \in FetchTask /\ FetchSound(FetchOf(t, r))'
  BY <1>2, <1>4 DEF FetchOf, FetchTask, FetchSound
<1>7. Unmounted(t) \subseteq FetchTask /\ \A f \in Unmounted(t) : FetchSound(f)'
  BY <1>1, <1>4, UnmountedFetches, UnmountedSound DEF RoomsIInv
<1>8. fetches' \subseteq FetchTask /\ \A f \in fetches' : FetchSound(f)'
  BY <1>3, <1>6, <1>7
<1>9. QED
  BY <1>2, <1>3, <1>5, <1>8 DEF e

LEMMA HomeStep ==
    ASSUME RoomsIInv, NEW t \in Tabs, tab' = [tab EXCEPT ![t] = Home(tab[t])]
    PROVE  /\ Home(tab[t]) \in TabState /\ Home(tab[t]).conn = tab[t].conn
           /\ tab' \in [Tabs -> TabState] /\ \A s \in Tabs : s # t => tab'[s] = tab[s]
           /\ UnjoinedPage(t) /\ PlaceSound(t)'
<1> DEFINE e == Home(tab[t])
<1>1. PagesTyped /\ tab[t] \in TabState
  BY DEF RoomsIInv, PagesTyped
<1>2. /\ e \in TabState /\ e.conn = tab[t].conn /\ e.where = "home" /\ e.room = NoRoom
      /\ e.shown = NoSetting /\ e.chat = <<>> /\ e.joined = FALSE /\ e.form.open = FALSE
  BY <1>1, HomePage
<1>3. tab' = [tab EXCEPT ![t] = e]
  OBVIOUS
<1> HIDE DEF e
<1>4. tab' \in [Tabs -> TabState] /\ tab'[t] = e /\ \A s \in Tabs : s # t => tab'[s] = tab[s]
  BY <1>1, <1>2, <1>3, TabReplaced
<1>5. UnjoinedPage(t) /\ PlaceSound(t)'
  BY <1>2, <1>4 DEF UnjoinedPage, PlaceSound
<1>6. QED
  BY <1>2, <1>4, <1>5 DEF e

(* A tab whose page no fetch is for.                                        *)
LEMMA FetchesStay ==
    ASSUME RoomsIInv, NEW t \in Tabs, tab[t].where # "room", fetches' = fetches, RowsGrow,
           \A s \in Tabs : s # t => tab'[s] = tab[s]
    PROVE  fetches' \subseteq FetchTask /\ \A f \in fetches' : FetchSound(f)'
<1>1. fetches \subseteq FetchTask /\ \A f \in fetches : FetchSound(f) /\ f.tab \in Tabs
  BY DEF RoomsIInv, PagesTyped, FetchTask
<1>2. SUFFICES ASSUME NEW f \in fetches PROVE FetchSound(f)'
  BY <1>1
<1>3. CASE f.tab = t
  <2>1. ~f.mine
    BY <1>1, <1>3 DEF FetchSound
  <2>2. QED
    BY <1>1, <2>1 DEF FetchSound, RowsGrow, FetchTask
<1>4. CASE f.tab # t
  BY <1>1, <1>4, FetchFrame
<1>5. QED
  BY <1>3, <1>4

LEMMA OpenCardStep ==
    ASSUME RoomsIInv, NEW t \in Tabs, NEW r \in Rooms, OpenCard(t, r)
    PROVE  RoomsIInv'
<1>1. /\ Spend("moves") /\ Opens(t, r) /\ scope' = scope
      /\ UNCHANGED <<rows, meant, send, joins, channel, overlap, recents, ejected, ended>>
      /\ UNCHANGED <<del, save>> /\ RowsGrow
  BY RowsStay DEF OpenCard, pastVars
<1>2. used' \in [Budgets -> Nat] /\ \A b \in Budgets : used'[b] <= scope'[b]
  BY <1>1, Spent DEF RoomsIInv, Budgets
<1> DEFINE e == RoomPage(tab[t], r)
<1>3. /\ e \in TabState /\ tab' = [tab EXCEPT ![t] = e] /\ e.conn = tab[t].conn
      /\ UnjoinedPage(t) /\ PlaceSound(t)'
      /\ fetches' \subseteq FetchTask /\ \A f \in fetches' : FetchSound(f)'
  BY <1>1, OpensStep
<1>4. /\ del' \in [Tabs -> DeleteTask] /\ save' \in [Tabs -> SaveTask]
      /\ \A s \in Tabs : RequestSound(s)'
  BY <1>1, RequestsStay
<1> HIDE DEF e
<1>5. QED
  BY <1>1, <1>2, <1>3, <1>4, PageStep

LEMMA GoToDoorStep ==
    ASSUME RoomsIInv, NEW t \in Tabs, NEW r \in Rooms, GoToDoor(t, r)
    PROVE  RoomsIInv'
<1> DEFINE e == [tab[t] EXCEPT !.where = "door", !.room = r]
<1>1. /\ Spend("moves") /\ scope' = scope /\ tab[t].where = "home"
      /\ tab' = [tab EXCEPT ![t] = e] /\ fetches' = fetches
      /\ UNCHANGED <<rows, meant, send, joins, channel, overlap, recents, ejected, ended>>
      /\ UNCHANGED <<del, save>> /\ RowsGrow
  BY RowsStay DEF GoToDoor, pastVars
<1>2. used' \in [Budgets -> Nat] /\ \A b \in Budgets : used'[b] <= scope'[b]
  BY <1>1, Spent DEF RoomsIInv, Budgets
<1>3. PagesTyped /\ tab[t] \in TabState /\ PlaceSound(t) /\ ToldSound(t)
  BY DEF RoomsIInv, PagesTyped
<1>4. /\ e \in TabState /\ e.conn = tab[t].conn /\ e.where = "door" /\ e.room = r
      /\ e.shown = tab[t].shown /\ e.form = tab[t].form /\ e.joined = tab[t].joined
      /\ e.chat = tab[t].chat
  BY <1>3 DEF TabState
<1> HIDE DEF e
<1>5. tab'[t] = e /\ \A s \in Tabs : s # t => tab'[s] = tab[s]
  BY <1>1, <1>3, <1>4, TabReplaced
<1>6. /\ fetches' \subseteq FetchTask /\ \A f \in fetches' : FetchSound(f)'
  BY <1>1, <1>5, FetchesStay
<1>7. /\ del' \in [Tabs -> DeleteTask] /\ save' \in [Tabs -> SaveTask]
      /\ \A s \in Tabs : RequestSound(s)'
  BY <1>1, RequestsStay
<1>8. tab[t].shown = NoSetting /\ tab[t].joined = FALSE
  BY <1>1, <1>3 DEF PlaceSound, ToldSound, Panel, TabState
<1>9. PlaceSound(t)'
  BY <1>3, <1>4, <1>5, <1>8, NothingAssumption DEF PlaceSound
<1>10. QED
  BY <1>1, <1>2, <1>3, <1>4, <1>5, <1>6, <1>7, <1>8, <1>9, PageStep DEF UnjoinedPage

LEMMA FetchRoomInfoStep ==
    ASSUME RoomsIInv, NEW t \in Tabs, fetchRoomInfo(t)
    PROVE  RoomsIInv'
<1> DEFINE e == [tab[t] EXCEPT !.info = TRUE]
<1>1. /\ scope' = scope /\ used' = used /\ tab[t].where = "door"
      /\ tab' = [tab EXCEPT ![t] = e] /\ fetches' = fetches
      /\ UNCHANGED <<rows, meant, send, joins, channel, overlap, recents, ejected, ended>>
      /\ UNCHANGED <<del, save>> /\ RowsGrow
  BY RowsStay DEF fetchRoomInfo, pastVars
<1>2. used' \in [Budgets -> Nat] /\ \A b \in Budgets : used'[b] <= scope'[b]
  BY <1>1 DEF RoomsIInv, PagesTyped
<1>3. PagesTyped /\ tab[t] \in TabState /\ PlaceSound(t)
  BY DEF RoomsIInv, PagesTyped
<1>4. /\ e \in TabState /\ e.conn = tab[t].conn /\ e.where = tab[t].where
      /\ e.room = tab[t].room /\ e.shown = tab[t].shown /\ e.form = tab[t].form
      /\ e.joined = tab[t].joined /\ e.chat = tab[t].chat
  BY <1>3 DEF TabState
<1> HIDE DEF e
<1>5. tab'[t] = e /\ \A s \in Tabs : s # t => tab'[s] = tab[s]
  BY <1>1, <1>3, <1>4, TabReplaced
<1>6. /\ fetches' \subseteq FetchTask /\ \A f \in fetches' : FetchSound(f)'
  BY <1>1, <1>5, FetchesStay
<1>7. /\ del' \in [Tabs -> DeleteTask] /\ save' \in [Tabs -> SaveTask]
      /\ \A s \in Tabs : RequestSound(s)'
  BY <1>1, RequestsStay
<1>8. PlaceSound(t)' /\ SamePage(t)
  BY <1>1, <1>3, <1>4, <1>5 DEF PlaceSound, SamePage
<1>9. QED
  BY <1>1, <1>2, <1>4, <1>6, <1>7, <1>8, PageStep

LEMMA HandleJoinRoomStep ==
    ASSUME RoomsIInv, NEW t \in Tabs, handleJoinRoom(t)
    PROVE  RoomsIInv'
<1>1. /\ scope' = scope /\ tab[t].where = "door"
      /\ UNCHANGED <<rows, meant, send, joins, channel, overlap, recents, ejected, ended>>
      /\ UNCHANGED <<del, save>> /\ RowsGrow
  BY RowsStay DEF handleJoinRoom, pastVars
<1>2. /\ del' \in [Tabs -> DeleteTask] /\ save' \in [Tabs -> SaveTask]
      /\ \A s \in Tabs : RequestSound(s)'
  BY <1>1, RequestsStay
<1>3. PagesTyped /\ tab[t] \in TabState /\ PlaceSound(t)
  BY DEF RoomsIInv, PagesTyped
<1>4. CASE Opens(t, tab[t].room) /\ used' = used
  <2> DEFINE e == RoomPage(tab[t], tab[t].room)
  <2>1. tab[t].room \in Rooms
    BY <1>1, <1>3 DEF PlaceSound, TabState
  <2>2. /\ e \in TabState /\ tab' = [tab EXCEPT ![t] = e] /\ e.conn = tab[t].conn
        /\ UnjoinedPage(t) /\ PlaceSound(t)'
        /\ fetches' \subseteq FetchTask /\ \A f \in fetches' : FetchSound(f)'
    BY <1>1, <1>4, <2>1, OpensStep
  <2>3. used' \in [Budgets -> Nat] /\ \A b \in Budgets : used'[b] <= scope'[b]
    BY <1>1, <1>4 DEF RoomsIInv, PagesTyped
  <2> HIDE DEF e
  <2>4. QED
    BY <1>1, <1>2, <2>2, <2>3, PageStep
<1>5. CASE Spend("moves") /\ tab' = [tab EXCEPT ![t] = Home(tab[t])] /\ fetches' = fetches
  <2> DEFINE e == Home(tab[t])
  <2>1. used' \in [Budgets -> Nat] /\ \A b \in Budgets : used'[b] <= scope'[b]
    BY <1>1, <1>3, <1>5, Spent DEF Budgets
  <2>2. /\ e \in TabState /\ e.conn = tab[t].conn /\ tab' = [tab EXCEPT ![t] = e]
        /\ \A s \in Tabs : s # t => tab'[s] = tab[s]
        /\ UnjoinedPage(t) /\ PlaceSound(t)'
    BY <1>5, HomeStep
  <2>3. /\ fetches' \subseteq FetchTask /\ \A f \in fetches' : FetchSound(f)'
    BY <1>1, <1>5, <2>2, FetchesStay
  <2> HIDE DEF e
  <2>4. QED
    BY <1>1, <1>2, <2>1, <2>2, <2>3, PageStep
<1>6. QED
  BY <1>4, <1>5 DEF handleJoinRoom

LEMMA HandleLeaveRoomStep ==
    ASSUME RoomsIInv, NEW t \in Tabs, handleLeaveRoom(t)
    PROVE  RoomsIInv'
<1> DEFINE e == Home(tab[t])
<1>1. /\ scope' = scope /\ Spend("moves") /\ tab' = [tab EXCEPT ![t] = Home(tab[t])]
      /\ fetches' = Unmounted(t)
      /\ UNCHANGED <<rows, meant, send, joins, channel, overlap, recents, ejected, ended>>
      /\ UNCHANGED <<del, save>> /\ RowsGrow
  BY RowsStay DEF handleLeaveRoom, pastVars
<1>2. used' \in [Budgets -> Nat] /\ \A b \in Budgets : used'[b] <= scope'[b]
  BY <1>1, Spent DEF RoomsIInv, Budgets
<1>3. /\ e \in TabState /\ e.conn = tab[t].conn /\ tab' = [tab EXCEPT ![t] = e]
      /\ \A s \in Tabs : s # t => tab'[s] = tab[s]
      /\ UnjoinedPage(t) /\ PlaceSound(t)'
  BY <1>1, HomeStep
<1>4. /\ fetches' \subseteq FetchTask /\ \A f \in fetches' : FetchSound(f)'
  BY <1>1, <1>3, UnmountedFetches, UnmountedSound DEF RoomsIInv
<1>5. /\ del' \in [Tabs -> DeleteTask] /\ save' \in [Tabs -> SaveTask]
      /\ \A s \in Tabs : RequestSound(s)'
  BY <1>1, RequestsStay
<1> HIDE DEF e
<1>6. QED
  BY <1>1, <1>2, <1>3, <1>4, <1>5, PageStep

(* A step of which the tabs' pages know nothing.                            *)
LEMMA BackgroundStep ==
    ASSUME RoomsIInv, scope' = scope,
           used' \in [Budgets -> Nat], \A b \in Budgets : used'[b] <= scope'[b],
           UNCHANGED <<rows, meant, send, joins, channel, overlap, recents, ejected, ended, tab>>,
           fetches' \subseteq FetchTask, \A f \in fetches' : FetchSound(f)',
           del' \in [Tabs -> DeleteTask], save' \in [Tabs -> SaveTask],
           \A s \in Tabs : RequestSound(s)'
    PROVE  RoomsIInv'
<1>1. PagesTyped
  BY DEF RoomsIInv
<1>2. tab' \in [Tabs -> TabState] /\ \A s \in Tabs : tab'[s].conn = tab[s].conn
  BY <1>1 DEF PagesTyped
<1>3. ASSUME NEW s \in Tabs PROVE SamePage(s) /\ PlaceSound(s)'
  BY <1>1, RowsStay, PlaceFrame DEF RoomsIInv, SamePage
<1>4. recents' \in [People -> Seq(Rooms)] /\ RecentsSound' /\ EjectedOnlyFromEnded'
  BY DEF RoomsIInv, PagesTyped, RecentsSound, EjectedOnlyFromEnded
<1>5. QED
  BY <1>2, <1>3, <1>4, QuietStep

LEMMA FetchesUnchanged ==
    ASSUME RoomsIInv, fetches' = fetches, RowsGrow,
           \A s \in Tabs : tab'[s].where = tab[s].where /\ tab'[s].room = tab[s].room
    PROVE  fetches' \subseteq FetchTask /\ \A f \in fetches' : FetchSound(f)'
<1>1. fetches \subseteq FetchTask /\ \A f \in fetches : FetchSound(f) /\ f.tab \in Tabs
  BY DEF RoomsIInv, PagesTyped, FetchTask
<1>2. QED
  BY <1>1, FetchFrame

LEMMA BudgetsStay ==
    ASSUME RoomsIInv, UNCHANGED <<scope, used>>
    PROVE  used' \in [Budgets -> Nat] /\ \A b \in Budgets : used'[b] <= scope'[b]
BY DEF RoomsIInv, PagesTyped

LEMMA RereadStep ==
    ASSUME RoomsIInv, NEW t \in Tabs, Reread(t)
    PROVE  RoomsIInv'
<1>1. /\ scope' = scope /\ Spend("rereads") /\ tab[t].where = "room"
      /\ fetches' = fetches \cup {FetchOf(t, tab[t].room)}
      /\ UNCHANGED <<rows, meant, send, joins, channel, overlap, recents, ejected, ended, tab>>
      /\ UNCHANGED <<del, save>> /\ RowsGrow
  BY RowsStay DEF Reread, pastVars
<1>2. used' \in [Budgets -> Nat] /\ \A b \in Budgets : used'[b] <= scope'[b]
  BY <1>1, Spent DEF RoomsIInv, Budgets
<1>3. PagesTyped /\ tab[t] \in TabState /\ PlaceSound(t)
  BY DEF RoomsIInv, PagesTyped
<1>4. tab[t].room \in Rooms
  BY <1>1, <1>3 DEF PlaceSound, TabState
<1>5. FetchOf(t, tab[t].room) \in FetchTask /\ FetchSound(FetchOf(t, tab[t].room))'
  BY <1>1, <1>4 DEF FetchOf, FetchTask, FetchSound
<1>6. fetches \subseteq FetchTask /\ \A f \in fetches : FetchSound(f)'
  <2>1. fetches \subseteq FetchTask /\ \A f \in fetches : FetchSound(f) /\ f.tab \in Tabs
    BY DEF RoomsIInv, PagesTyped, FetchTask
  <2>2. QED
    BY <1>1, <2>1, FetchFrame
<1>7. /\ del' \in [Tabs -> DeleteTask] /\ save' \in [Tabs -> SaveTask]
      /\ \A s \in Tabs : RequestSound(s)'
  BY <1>1, RequestsStay
<1>8. fetches' \subseteq FetchTask /\ \A f \in fetches' : FetchSound(f)'
  BY <1>1, <1>5, <1>6
<1>9. QED
  BY <1>1, <1>2, <1>7, <1>8, BackgroundStep

LEMMA GetRoomByCodeStep ==
    ASSUME RoomsIInv, NEW f \in fetches, getRoomByCode(f)
    PROVE  RoomsIInv'
<1> DEFINE found == [f EXCEPT !.st = "found", !.val = rows[f.room].setting]
           missing == [f EXCEPT !.st = "missing"]
<1>1. /\ UNCHANGED <<scope, used>> /\ f.st = "asked"
      /\ fetches' = (fetches \ {f}) \cup {IF rows[f.room].phase = "live" THEN found ELSE missing}
      /\ UNCHANGED <<rows, meant, send, joins, channel, overlap, recents, ejected, ended, tab>>
      /\ UNCHANGED <<del, save>> /\ RowsGrow
  BY RowsStay DEF getRoomByCode, pastVars
<1>2. /\ fetches \subseteq FetchTask /\ f \in FetchTask /\ f.room \in Rooms
      /\ \A g \in fetches : FetchSound(g) /\ g.tab \in Tabs
  BY DEF RoomsIInv, PagesTyped, FetchTask
<1>3. rows[f.room].setting \in Setting
  BY <1>2 DEF RoomsIInv, PagesTyped, Row
<1>4. \A g \in fetches : FetchSound(g)'
  BY <1>1, <1>2, FetchFrame
<1>5. PICK g : g = IF rows[f.room].phase = "live" THEN found ELSE missing
  OBVIOUS
<1>6. /\ g \in FetchTask /\ g.tab = f.tab /\ g.room = f.room /\ g.mine = f.mine
      /\ g.st = "found" => rows[f.room].phase = "live" /\ g.val \in Setting
  BY <1>2, <1>3, <1>5 DEF FetchTask
<1>7. fetches' = (fetches \ {f}) \cup {g}
  BY <1>1, <1>5
<1> HIDE DEF found, missing
<1>8. FetchSound(g)'
  BY <1>1, <1>2, <1>6 DEF FetchSound
<1>9. fetches' \subseteq FetchTask /\ \A h \in fetches' : FetchSound(h)'
  BY <1>2, <1>4, <1>6, <1>7, <1>8
<1>10. /\ del' \in [Tabs -> DeleteTask] /\ save' \in [Tabs -> SaveTask]
       /\ \A s \in Tabs : RequestSound(s)'
  BY <1>1, RequestsStay
<1>11. used' \in [Budgets -> Nat] /\ \A b \in Budgets : used'[b] <= scope'[b]
  BY <1>1, BudgetsStay
<1>12. QED
  BY <1>1, <1>9, <1>10, <1>11, BackgroundStep

(* A step about a tab's form or its lists.                                  *)
LEMMA FormStep ==
    ASSUME RoomsIInv, NEW t \in Tabs, NEW e \in TabState, tab' = [tab EXCEPT ![t] = e],
           e.conn = tab[t].conn, e.where = tab[t].where, e.room = tab[t].room,
           e.shown = tab[t].shown, e.chat = tab[t].chat, e.joined = tab[t].joined,
           e.form.open => e.shown # NoSetting /\ e.form.val \in Setting,
           UNCHANGED <<scope, used>>,
           UNCHANGED <<rows, meant, send, joins, channel, overlap, recents, ejected, ended>>,
           fetches' \subseteq FetchTask, \A f \in fetches' : f \notin fetches => FetchSound(f)',
           del' \in [Tabs -> DeleteTask], save' \in [Tabs -> SaveTask],
           \A s \in Tabs : RequestSound(s)'
    PROVE  RoomsIInv'
<1>1. PagesTyped /\ PlaceSound(t)
  BY DEF RoomsIInv
<1>2. tab'[t] = e /\ \A s \in Tabs : s # t => tab'[s] = tab[s]
  BY <1>1, TabReplaced
<1>3. SamePage(t) /\ PlaceSound(t)'
  BY <1>1, <1>2 DEF SamePage, PlaceSound
<1>4. \A f \in fetches : FetchSound(f)'
  <2>1. fetches \subseteq FetchTask /\ \A f \in fetches : FetchSound(f) /\ f.tab \in Tabs
    BY DEF RoomsIInv, PagesTyped, FetchTask
  <2>2. \A s \in Tabs : tab'[s].where = tab[s].where /\ tab'[s].room = tab[s].room
    BY <1>2
  <2>3. QED
    BY <2>1, <2>2, RowsStay, FetchFrame
<1>5. used' \in [Budgets -> Nat] /\ \A b \in Budgets : used'[b] <= scope'[b]
  BY BudgetsStay
<1>6. QED
  BY <1>3, <1>4, <1>5, PageStep

LEMMA PollStep ==
    ASSUME RoomsIInv, NEW t \in Tabs, Poll(t)
    PROVE  RoomsIInv'
<1> DEFINE q == getUserRooms(OwnerOf[t]) \cup getPublicRooms
           e == [tab[t] EXCEPT !.wait = TRUE, !.answer = q]
<1>1. /\ UNCHANGED <<scope, used>>
      /\ UNCHANGED <<rows, meant, send, joins, channel, overlap, recents, ejected, ended>>
      /\ fetches' = fetches /\ tab' = [tab EXCEPT ![t] = e]
      /\ UNCHANGED <<del, save>> /\ RowsGrow
  BY RowsStay DEF Poll, pastVars
<1>2. tab[t] \in TabState /\ PlaceSound(t) /\ fetches \subseteq FetchTask
  BY DEF RoomsIInv, PagesTyped
<1>3. q \in SUBSET Rooms
  BY DEF getUserRooms, getPublicRooms
<1> HIDE DEF q
<1>4. /\ e \in TabState /\ e.conn = tab[t].conn /\ e.where = tab[t].where
      /\ e.room = tab[t].room /\ e.shown = tab[t].shown /\ e.form = tab[t].form
      /\ e.joined = tab[t].joined /\ e.chat = tab[t].chat
  BY <1>2, <1>3 DEF TabState
<1> HIDE DEF e
<1>5. e.form.open => e.shown # NoSetting /\ e.form.val \in Setting
  BY <1>2, <1>4 DEF PlaceSound
<1>6. /\ del' \in [Tabs -> DeleteTask] /\ save' \in [Tabs -> SaveTask]
      /\ \A s \in Tabs : RequestSound(s)'
  BY <1>1, RequestsStay
<1>7. QED
  BY <1>1, <1>2, <1>4, <1>5, <1>6, FormStep

LEMMA PollAnswerStep ==
    ASSUME RoomsIInv, NEW t \in Tabs, PollAnswer(t)
    PROVE  RoomsIInv'
<1> DEFINE w == [tab[t] EXCEPT !.wait = FALSE, !.answer = {}]
           e == [w EXCEPT !.listed = tab[t].answer]
<1>1. /\ UNCHANGED <<scope, used>>
      /\ UNCHANGED <<rows, meant, send, joins, channel, overlap, recents, ejected, ended>>
      /\ fetches' = fetches /\ tab' = [tab EXCEPT ![t] = e]
      /\ UNCHANGED <<del, save>> /\ RowsGrow
  BY RowsStay DEF PollAnswer, pastVars
<1>2. /\ tab[t] \in TabState /\ PlaceSound(t) /\ fetches \subseteq FetchTask
      /\ tab[t].answer \in SUBSET Rooms
  BY DEF RoomsIInv, PagesTyped, TabState
<1>3. /\ w \in TabState /\ w.conn = tab[t].conn /\ w.where = tab[t].where
      /\ w.room = tab[t].room /\ w.shown = tab[t].shown /\ w.form = tab[t].form
      /\ w.joined = tab[t].joined /\ w.chat = tab[t].chat
  BY <1>2 DEF TabState
<1> HIDE DEF w
<1>4. /\ e \in TabState /\ e.conn = tab[t].conn /\ e.where = tab[t].where
      /\ e.room = tab[t].room /\ e.shown = tab[t].shown /\ e.form = tab[t].form
      /\ e.joined = tab[t].joined /\ e.chat = tab[t].chat
  BY <1>2, <1>3 DEF TabState
<1> HIDE DEF e
<1>5. e.form.open => e.shown # NoSetting /\ e.form.val \in Setting
  BY <1>2, <1>4 DEF PlaceSound
<1>6. /\ del' \in [Tabs -> DeleteTask] /\ save' \in [Tabs -> SaveTask]
      /\ \A s \in Tabs : RequestSound(s)'
  BY <1>1, RequestsStay
<1>7. QED
  BY <1>1, <1>2, <1>4, <1>5, <1>6, FormStep

LEMMA OpenSettingsStep ==
    ASSUME RoomsIInv, NEW t \in Tabs, OpenSettings(t)
    PROVE  RoomsIInv'
<1> DEFINE f == [open |-> TRUE, init |-> tab[t].shown, val |-> tab[t].shown]
           e == [tab[t] EXCEPT !.form = f]
<1>1. /\ UNCHANGED <<scope, used>> /\ Panel(t)
      /\ UNCHANGED <<rows, meant, send, joins, channel, overlap, recents, ejected, ended>>
      /\ fetches' = fetches /\ tab' = [tab EXCEPT ![t] = e]
      /\ UNCHANGED <<del, save>> /\ RowsGrow
  BY RowsStay DEF OpenSettings, pastVars
<1>2. /\ tab[t] \in TabState /\ fetches \subseteq FetchTask
      /\ tab[t].shown \in Setting \cup {NoSetting} /\ tab[t].shown # NoSetting
  BY <1>1 DEF RoomsIInv, PagesTyped, TabState, Panel
<1>3. /\ f \in [open : BOOLEAN, init : Setting \cup {NoSetting}, val : Setting \cup {NoSetting}]
      /\ f.val = tab[t].shown
  BY <1>2
<1> HIDE DEF f
<1>4. /\ e \in TabState /\ e.conn = tab[t].conn /\ e.where = tab[t].where
      /\ e.room = tab[t].room /\ e.shown = tab[t].shown /\ e.form = f
      /\ e.joined = tab[t].joined /\ e.chat = tab[t].chat
  BY <1>2, <1>3 DEF TabState
<1> HIDE DEF e
<1>5. e.form.open => e.shown # NoSetting /\ e.form.val \in Setting
  BY <1>2, <1>3, <1>4
<1>6. /\ del' \in [Tabs -> DeleteTask] /\ save' \in [Tabs -> SaveTask]
      /\ \A s \in Tabs : RequestSound(s)'
  BY <1>1, RequestsStay
<1>7. QED
  BY <1>1, <1>2, <1>4, <1>5, <1>6, FormStep

LEMMA ToggleStep ==
    ASSUME RoomsIInv, NEW t \in Tabs, NEW f \in Fields, Toggle(t, f)
    PROVE  RoomsIInv'
<1> DEFINE v == [tab[t].form.val EXCEPT ![f] = ~tab[t].form.val[f]]
           g == [tab[t].form EXCEPT !.val = v]
           e == [tab[t] EXCEPT !.form = g]
<1>1. /\ UNCHANGED <<scope, used>> /\ tab[t].form.open
      /\ UNCHANGED <<rows, meant, send, joins, channel, overlap, recents, ejected, ended>>
      /\ fetches' = fetches /\ tab' = [tab EXCEPT ![t] = e]
      /\ UNCHANGED <<del, save>> /\ RowsGrow
  BY RowsStay DEF Toggle, pastVars
<1>2. /\ tab[t] \in TabState /\ PlaceSound(t) /\ fetches \subseteq FetchTask
      /\ tab[t].form \in [open : BOOLEAN, init : Setting \cup {NoSetting},
                          val : Setting \cup {NoSetting}]
      /\ tab[t].form.val \in Setting /\ tab[t].shown # NoSetting
  BY <1>1 DEF RoomsIInv, PagesTyped, TabState, PlaceSound
<1>3. v \in Setting
  BY <1>2 DEF Setting
<1> HIDE DEF v
<1>4. /\ g \in [open : BOOLEAN, init : Setting \cup {NoSetting}, val : Setting \cup {NoSetting}]
      /\ g.val = v
  BY <1>2, <1>3
<1> HIDE DEF g
<1>5. /\ e \in TabState /\ e.conn = tab[t].conn /\ e.where = tab[t].where
      /\ e.room = tab[t].room /\ e.shown = tab[t].shown /\ e.form = g
      /\ e.joined = tab[t].joined /\ e.chat = tab[t].chat
  BY <1>2, <1>4 DEF TabState
<1> HIDE DEF e
<1>6. /\ del' \in [Tabs -> DeleteTask] /\ save' \in [Tabs -> SaveTask]
      /\ \A s \in Tabs : RequestSound(s)'
  BY <1>1, RequestsStay
<1>7. QED
  BY <1>1, <1>2, <1>3, <1>4, <1>5, <1>6, FormStep

-----------------------------------------------------------------------------
(* The steps of the requests.                                               *)
LEMMA DeletePut ==
    ASSUME RoomsIInv, NEW t \in Tabs, NEW d \in DeleteTask, del' = [del EXCEPT ![t] = d],
           save' = save, RowsGrow, d.pc # "none" => d.room \in Rooms,
           d.pc = "ok" => rows'[d.room].phase = "gone"
    PROVE  /\ del' \in [Tabs -> DeleteTask] /\ save' \in [Tabs -> SaveTask]
           /\ \A s \in Tabs : RequestSound(s)'
<1>1. del \in [Tabs -> DeleteTask] /\ save \in [Tabs -> SaveTask]
  BY DEF RoomsIInv, PagesTyped
<1>2. /\ del' \in [Tabs -> DeleteTask] /\ save' \in [Tabs -> SaveTask]
      /\ del'[t] = d /\ \A s \in Tabs : s # t => del'[s] = del[s]
  BY <1>1
<1>3. RequestSound(t)'
  <2>1. RequestSound(t)
    BY DEF RoomsIInv
  <2>2. QED
    BY <1>2, <2>1 DEF RequestSound
<1>4. ASSUME NEW s \in Tabs, s # t PROVE RequestSound(s)'
  BY <1>2, <1>4, RequestFrame DEF RoomsIInv
<1>5. QED
  BY <1>2, <1>3, <1>4

LEMMA SavePut ==
    ASSUME RoomsIInv, NEW t \in Tabs, NEW v \in SaveTask, save' = [save EXCEPT ![t] = v],
           del' = del, RowsGrow, v.pc # "none" => v.room \in Rooms /\ v.val \in Setting,
           v.fields \subseteq v.chosen
    PROVE  /\ del' \in [Tabs -> DeleteTask] /\ save' \in [Tabs -> SaveTask]
           /\ \A s \in Tabs : RequestSound(s)'
<1>1. del \in [Tabs -> DeleteTask] /\ save \in [Tabs -> SaveTask]
  BY DEF RoomsIInv, PagesTyped
<1>2. /\ del' \in [Tabs -> DeleteTask] /\ save' \in [Tabs -> SaveTask]
      /\ save'[t] = v /\ \A s \in Tabs : s # t => save'[s] = save[s]
  BY <1>1
<1>3. RequestSound(t)'
  <2>1. RequestSound(t)
    BY DEF RoomsIInv
  <2>2. del[t].pc = "ok" => rows'[del[t].room].phase = "gone"
    BY <2>1 DEF RequestSound, RowsGrow
  <2>3. QED
    BY <1>2, <2>1, <2>2 DEF RequestSound
<1>4. ASSUME NEW s \in Tabs, s # t PROVE RequestSound(s)'
  BY <1>2, <1>4, RequestFrame DEF RoomsIInv
<1>5. QED
  BY <1>2, <1>3, <1>4

LEMMA FetchesSame ==
    ASSUME RoomsIInv, UNCHANGED <<fetches, tab>>, RowsGrow
    PROVE  fetches' \subseteq FetchTask /\ \A f \in fetches' : FetchSound(f)'
BY FetchesUnchanged

LEMMA HandleUpdateSettingsStep ==
    ASSUME RoomsIInv, NEW t \in Tabs, handleUpdateSettings(t)
    PROVE  RoomsIInv'
<1> DEFINE v == [pc |-> "asked", room |-> tab[t].room, fields |-> Changed(t),
                 chosen |-> Chosen(t), val |-> tab[t].form.val]
<1>1. /\ scope' = scope /\ Spend("saves") /\ tab[t].form.open
      /\ UNCHANGED <<rows, meant, send, joins, channel, overlap, recents, ejected, ended, tab>>
      /\ UNCHANGED <<fetches, tab>>
      /\ save' = [save EXCEPT ![t] = v] /\ del' = del /\ RowsGrow
  BY RowsStay DEF handleUpdateSettings, pastVars
<1>2. used' \in [Budgets -> Nat] /\ \A b \in Budgets : used'[b] <= scope'[b]
  BY <1>1, Spent DEF RoomsIInv, Budgets
<1>3. /\ tab[t] \in TabState /\ PlaceSound(t) /\ tab[t].shown # NoSetting
      /\ tab[t].form.val \in Setting
  BY <1>1 DEF RoomsIInv, PagesTyped, PlaceSound
<1>4. tab[t].room \in Rooms
  BY <1>3 DEF PlaceSound, TabState
<1>5. Changed(t) \subseteq Fields /\ Chosen(t) \subseteq Fields /\ Changed(t) \subseteq Chosen(t)
  BY DEF Changed, Chosen
<1>6. /\ v \in SaveTask /\ v.room = tab[t].room /\ v.val = tab[t].form.val
      /\ v.fields = Changed(t) /\ v.chosen = Chosen(t)
  BY <1>3, <1>4, <1>5 DEF SaveTask
<1> HIDE DEF v
<1>7. /\ del' \in [Tabs -> DeleteTask] /\ save' \in [Tabs -> SaveTask]
      /\ \A s \in Tabs : RequestSound(s)'
  BY <1>1, <1>3, <1>4, <1>5, <1>6, SavePut
<1>8. fetches' \subseteq FetchTask /\ \A f \in fetches' : FetchSound(f)'
  BY <1>1, FetchesSame
<1>9. QED
  BY <1>1, <1>2, <1>7, <1>8, BackgroundStep

LEMMA UpdateRoomByCodeStep ==
    ASSUME RoomsIInv, NEW t \in Tabs, updateRoomByCode(t)
    PROVE  RoomsIInv'
<1> DEFINE v == [save[t] EXCEPT !.pc = IF MayChange(t, save[t].room) THEN "checked" ELSE "failed"]
<1>1. /\ UNCHANGED <<scope, used>> /\ save[t].pc = "asked"
      /\ UNCHANGED <<rows, meant, send, joins, channel, overlap, recents, ejected, ended, tab>>
      /\ UNCHANGED <<fetches, tab>>
      /\ save' = [save EXCEPT ![t] = v] /\ del' = del /\ RowsGrow
  BY RowsStay DEF updateRoomByCode, pastVars
<1>2. used' \in [Budgets -> Nat] /\ \A b \in Budgets : used'[b] <= scope'[b]
  BY <1>1, BudgetsStay
<1>3. save[t] \in SaveTask /\ RequestSound(t)
  BY DEF RoomsIInv, PagesTyped
<1>4. /\ v \in SaveTask /\ v.room = save[t].room /\ v.val = save[t].val
      /\ v.fields = save[t].fields /\ v.chosen = save[t].chosen
  BY <1>3 DEF SaveTask
<1> HIDE DEF v
<1>5. /\ del' \in [Tabs -> DeleteTask] /\ save' \in [Tabs -> SaveTask]
      /\ \A s \in Tabs : RequestSound(s)'
  BY <1>1, <1>3, <1>4, SavePut DEF RequestSound
<1>6. fetches' \subseteq FetchTask /\ \A f \in fetches' : FetchSound(f)'
  BY <1>1, FetchesSame
<1>7. QED
  BY <1>1, <1>2, <1>5, <1>6, BackgroundStep

LEMMA SaveAnswerStep ==
    ASSUME RoomsIInv, NEW t \in Tabs, SaveAnswer(t)
    PROVE  RoomsIInv'
<1> DEFINE here == Panel(t) /\ tab[t].room = save[t].room
           new == [FetchOf(t, save[t].room) EXCEPT !.mine = here]
           f == IF here THEN NoForm ELSE tab[t].form
           e == [tab[t] EXCEPT !.form = f]
<1>1. /\ UNCHANGED <<scope, used>> /\ save[t].pc \in {"ok", "failed"}
      /\ UNCHANGED <<rows, meant, send, joins, channel, overlap, recents, ejected, ended>>
      /\ save' = [save EXCEPT ![t] = NoSave] /\ del' = del /\ RowsGrow
  BY RowsStay DEF SaveAnswer, pastVars
<1>2. \/ fetches' = fetches \cup {new} /\ tab' = [tab EXCEPT ![t] = e]
      \/ UNCHANGED <<fetches, tab>>
  BY DEF SaveAnswer
<1>3. used' \in [Budgets -> Nat] /\ \A b \in Budgets : used'[b] <= scope'[b]
  BY <1>1, BudgetsStay
<1>4. NoSave \in SaveTask /\ NoSave.pc = "none" /\ NoSave.fields = {}
  BY DEF NoSave, SaveTask
<1>5. /\ del' \in [Tabs -> DeleteTask] /\ save' \in [Tabs -> SaveTask]
      /\ \A s \in Tabs : RequestSound(s)'
  BY <1>1, <1>4, SavePut
<1>6. CASE UNCHANGED <<fetches, tab>>
  <2>1. fetches' \subseteq FetchTask /\ \A g \in fetches' : FetchSound(g)'
    BY <1>1, <1>6, FetchesSame
  <2>2. QED
    BY <1>1, <1>3, <1>5, <1>6, <2>1, BackgroundStep
<1>7. CASE fetches' = fetches \cup {new} /\ tab' = [tab EXCEPT ![t] = e]
  <2>1. /\ PagesTyped /\ tab[t] \in TabState /\ PlaceSound(t) /\ save[t].room \in Rooms
        /\ fetches \subseteq FetchTask
    BY <1>1 DEF RoomsIInv, PagesTyped, RequestSound
  <2>2. /\ f \in [open : BOOLEAN, init : Setting \cup {NoSetting}, val : Setting \cup {NoSetting}]
        /\ f.open => tab[t].form.open /\ f = tab[t].form
    BY <2>1 DEF TabState, NoForm
  <2> HIDE DEF f
  <2>3. /\ e \in TabState /\ e.conn = tab[t].conn /\ e.where = tab[t].where
        /\ e.room = tab[t].room /\ e.shown = tab[t].shown /\ e.form = f
        /\ e.joined = tab[t].joined /\ e.chat = tab[t].chat
    BY <2>1, <2>2 DEF TabState
  <2>4. e.form.open => e.shown # NoSetting /\ e.form.val \in Setting
    BY <2>1, <2>2, <2>3 DEF PlaceSound
  <2>5. PICK g : g = new
    OBVIOUS
  <2>6. /\ g \in FetchTask /\ g.tab = t /\ g.room = save[t].room /\ g.st = "asked"
        /\ g.mine = here
    <3>1. here \in BOOLEAN
      BY DEF Panel
    <3> HIDE DEF here
    <3>2. QED
      BY <2>1, <2>5, <3>1 DEF FetchOf, FetchTask
  <2>7. fetches' = fetches \cup {g} /\ tab' = [tab EXCEPT ![t] = e]
    BY <1>7, <2>5
  <2>8. g.mine => tab[t].where = "room" /\ tab[t].room = g.room
    BY <2>6 DEF Panel
  <2> HIDE DEF here, new, e
  <2>9. tab'[t] = e
    BY <2>1, <2>3, <2>7, TabReplaced
  <2>10. FetchSound(g)'
    BY <2>3, <2>6, <2>8, <2>9 DEF FetchSound
  <2>11. fetches' \subseteq FetchTask /\ \A h \in fetches' : h \notin fetches => FetchSound(h)'
    BY <2>1, <2>6, <2>7, <2>10
  <2>12. QED
    BY <1>1, <1>5, <2>3, <2>4, <2>7, <2>11, FormStep
<1>8. QED
  BY <1>2, <1>6, <1>7

LEMMA HandleEndRoomStep ==
    ASSUME RoomsIInv, NEW t \in Tabs, NEW r \in Rooms, handleEndRoom(t, r)
    PROVE  RoomsIInv'
<1> DEFINE d == [NoDelete EXCEPT !.pc = "asked", !.room = r, !.from = tab[t].where]
<1>1. /\ scope' = scope /\ Spend("ends")
      /\ UNCHANGED <<rows, meant, send, joins, channel, overlap, recents, ejected, ended, tab>>
      /\ UNCHANGED <<fetches, tab>>
      /\ del' = [del EXCEPT ![t] = d] /\ save' = save /\ RowsGrow
  BY RowsStay DEF handleEndRoom, pastVars
<1>2. used' \in [Budgets -> Nat] /\ \A b \in Budgets : used'[b] <= scope'[b]
  BY <1>1, Spent DEF RoomsIInv, Budgets
<1>3. tab[t].where \in {"home", "room"}
  BY DEF handleEndRoom, Panel
<1>4. d \in DeleteTask /\ d.room = r /\ d.pc = "asked"
  BY <1>3 DEF NoDelete, DeleteTask
<1> HIDE DEF d
<1>5. /\ del' \in [Tabs -> DeleteTask] /\ save' \in [Tabs -> SaveTask]
      /\ \A s \in Tabs : RequestSound(s)'
  BY <1>1, <1>4, DeletePut
<1>6. fetches' \subseteq FetchTask /\ \A f \in fetches' : FetchSound(f)'
  BY <1>1, FetchesSame
<1>7. QED
  BY <1>1, <1>2, <1>5, <1>6, BackgroundStep

LEMMA DeleteMessagesStep ==
    ASSUME RoomsIInv, NEW t \in Tabs, DeleteMessages(t)
    PROVE  RoomsIInv'
<1> DEFINE m == ToSet(rows[del[t].room].msgs)
           d == [del[t] EXCEPT !.pc = "msgs", !.texts = m]
<1>1. /\ UNCHANGED <<scope, used>> /\ del[t].pc = "told"
      /\ UNCHANGED <<rows, meant, send, joins, channel, overlap, recents, ejected, ended, tab>>
      /\ UNCHANGED <<fetches, tab>>
      /\ del' = [del EXCEPT ![t] = d] /\ save' = save /\ RowsGrow
  BY RowsStay DEF DeleteMessages, pastVars
<1>2. used' \in [Budgets -> Nat] /\ \A b \in Budgets : used'[b] <= scope'[b]
  BY <1>1, BudgetsStay
<1>3. del[t] \in DeleteTask /\ RequestSound(t) /\ del[t].room \in Rooms
  BY <1>1 DEF RoomsIInv, PagesTyped, RequestSound
<1>4. m \in SUBSET Texts
  <2>1. rows[del[t].room].msgs \in Seq(Texts)
    BY <1>3 DEF RoomsIInv, PagesTyped, Row
  <2>2. QED
    BY <2>1 DEF ToSet
<1> HIDE DEF m
<1>5. d \in DeleteTask /\ d.room = del[t].room /\ d.pc = "msgs"
  BY <1>3, <1>4 DEF DeleteTask
<1> HIDE DEF d
<1>6. /\ del' \in [Tabs -> DeleteTask] /\ save' \in [Tabs -> SaveTask]
      /\ \A s \in Tabs : RequestSound(s)'
  BY <1>1, <1>3, <1>5, DeletePut
<1>7. fetches' \subseteq FetchTask /\ \A f \in fetches' : FetchSound(f)'
  BY <1>1, FetchesSame
<1>8. QED
  BY <1>1, <1>2, <1>6, <1>7, BackgroundStep

LEMMA DeleteParticipantsStep ==
    ASSUME RoomsIInv, NEW t \in Tabs, DeleteParticipants(t)
    PROVE  RoomsIInv'
<1> DEFINE m == {u \in People : rows[del[t].room].parts[u] # "none"}
           d == [del[t] EXCEPT !.pc = "parts", !.users = m]
<1>1. /\ UNCHANGED <<scope, used>> /\ del[t].pc = "msgs"
      /\ UNCHANGED <<rows, meant, send, joins, channel, overlap, recents, ejected, ended, tab>>
      /\ UNCHANGED <<fetches, tab>>
      /\ del' = [del EXCEPT ![t] = d] /\ save' = save /\ RowsGrow
  BY RowsStay DEF DeleteParticipants, pastVars
<1>2. used' \in [Budgets -> Nat] /\ \A b \in Budgets : used'[b] <= scope'[b]
  BY <1>1, BudgetsStay
<1>3. del[t] \in DeleteTask /\ RequestSound(t) /\ del[t].room \in Rooms
  BY <1>1 DEF RoomsIInv, PagesTyped, RequestSound
<1>4. m \in SUBSET People
  OBVIOUS
<1> HIDE DEF m
<1>5. d \in DeleteTask /\ d.room = del[t].room /\ d.pc = "parts"
  BY <1>3, <1>4 DEF DeleteTask
<1> HIDE DEF d
<1>6. /\ del' \in [Tabs -> DeleteTask] /\ save' \in [Tabs -> SaveTask]
      /\ \A s \in Tabs : RequestSound(s)'
  BY <1>1, <1>3, <1>5, DeletePut
<1>7. fetches' \subseteq FetchTask /\ \A f \in fetches' : FetchSound(f)'
  BY <1>1, FetchesSame
<1>8. QED
  BY <1>1, <1>2, <1>6, <1>7, BackgroundStep

LEMMA DeleteAnswerStep ==
    ASSUME RoomsIInv, NEW t \in Tabs, DeleteAnswer(t)
    PROVE  RoomsIInv'
<1> DEFINE w == [tab[t] EXCEPT !.wait = FALSE, !.answer = {}]
           e == Home(tab[t])
<1>1. /\ UNCHANGED <<scope, used>>
      /\ UNCHANGED <<rows, meant, send, joins, channel, overlap, recents, ejected, ended>>
      /\ del' = [del EXCEPT ![t] = NoDelete] /\ save' = save /\ RowsGrow
  BY RowsStay DEF DeleteAnswer, pastVars
<1>2. used' \in [Budgets -> Nat] /\ \A b \in Budgets : used'[b] <= scope'[b]
  BY <1>1, BudgetsStay
<1>3. NoDelete \in DeleteTask /\ NoDelete.pc = "none"
  BY DEF NoDelete, DeleteTask
<1>4. /\ del' \in [Tabs -> DeleteTask] /\ save' \in [Tabs -> SaveTask]
      /\ \A s \in Tabs : RequestSound(s)'
  BY <1>1, <1>3, DeletePut
<1>5. CASE tab' = [tab EXCEPT ![t] = e] /\ fetches' = Unmounted(t)
  <2>1. /\ e \in TabState /\ e.conn = tab[t].conn /\ tab' = [tab EXCEPT ![t] = e]
        /\ \A s \in Tabs : s # t => tab'[s] = tab[s]
        /\ UnjoinedPage(t) /\ PlaceSound(t)'
    BY <1>5, HomeStep
  <2>2. /\ fetches' \subseteq FetchTask /\ \A f \in fetches' : FetchSound(f)'
    BY <1>1, <1>5, <2>1, UnmountedFetches, UnmountedSound DEF RoomsIInv
  <2> HIDE DEF e
  <2>3. QED
    BY <1>1, <1>2, <1>4, <2>1, <2>2, PageStep
<1>6. CASE tab' = [tab EXCEPT ![t] = w] /\ fetches' = fetches
  <2>1. tab[t] \in TabState /\ PlaceSound(t) /\ fetches \subseteq FetchTask
    BY DEF RoomsIInv, PagesTyped
  <2>2. /\ w \in TabState /\ w.conn = tab[t].conn /\ w.where = tab[t].where
        /\ w.room = tab[t].room /\ w.shown = tab[t].shown /\ w.form = tab[t].form
        /\ w.joined = tab[t].joined /\ w.chat = tab[t].chat
    BY <2>1 DEF TabState
  <2> HIDE DEF w
  <2>3. w.form.open => w.shown # NoSetting /\ w.form.val \in Setting
    BY <2>1, <2>2 DEF PlaceSound
  <2>4. QED
    BY <1>1, <1>4, <1>6, <2>1, <2>2, <2>3, FormStep
<1>7. QED
  BY <1>5, <1>6 DEF DeleteAnswer

LEMMA DeleteTellStep ==
    ASSUME RoomsIInv, NEW t \in Tabs, DeleteTell(t)
    PROVE  RoomsIInv'
<1> DEFINE r == del[t].room
           out == onClosed(r)
           d == [del[t] EXCEPT !.pc = "told"]
           n == [del[t] EXCEPT !.pc = "failed"]
<1>1. /\ UNCHANGED <<scope, used>> /\ del[t].pc = "asked"
      /\ UNCHANGED <<rows, meant, send, joins, channel, overlap>> /\ save' = save /\ RowsGrow
  BY RowsStay DEF DeleteTell
<1>2. used' \in [Budgets -> Nat] /\ \A b \in Budgets : used'[b] <= scope'[b]
  BY <1>1, BudgetsStay
<1>3. /\ PagesTyped /\ del[t] \in DeleteTask /\ r \in Rooms
      /\ \A s \in Tabs : tab[s] \in TabState /\ PlaceSound(s)
      /\ \A f \in fetches : FetchSound(f) /\ f \in FetchTask /\ f.tab \in Tabs
  BY <1>1 DEF RoomsIInv, PagesTyped, RequestSound, FetchTask
<1>4. /\ d \in DeleteTask /\ d.room = r /\ d.pc = "told"
      /\ n \in DeleteTask /\ n.room = r /\ n.pc = "failed"
  BY <1>3 DEF DeleteTask
<1>5. CASE del' = [del EXCEPT ![t] = n] /\ UNCHANGED <<tab, fetches, recents, ejected, ended>>
  <2> HIDE DEF r, d, n
  <2>1. /\ del' \in [Tabs -> DeleteTask] /\ save' \in [Tabs -> SaveTask]
        /\ \A s \in Tabs : RequestSound(s)'
    BY <1>1, <1>3, <1>4, <1>5, DeletePut
  <2>2. fetches' \subseteq FetchTask /\ \A f \in fetches' : FetchSound(f)'
    BY <1>1, <1>5, FetchesSame
  <2>3. QED
    BY <1>1, <1>2, <1>5, <2>1, <2>2, BackgroundStep
<1>6. CASE /\ del' = [del EXCEPT ![t] = d] /\ ended' = ended \cup {r}
           /\ tab' = [s \in Tabs |-> IF s \in out THEN Home(tab[s]) ELSE tab[s]]
           /\ fetches' = {IF f.tab \in out THEN [f EXCEPT !.mine = FALSE] ELSE f : f \in fetches}
           /\ recents' = [u \in People |-> IF \E s \in out : OwnerOf[s] = u
                                           THEN forgetRoom(recents[u], r) ELSE recents[u]]
           /\ ejected' = ejected \cup {<<s, tab[s].room>> : s \in out}
  <2>1. \A s \in out : tab[s].room = r
    BY DEF onClosed
  <2> HIDE DEF r, d, n, out
  <2>2. /\ del' \in [Tabs -> DeleteTask] /\ save' \in [Tabs -> SaveTask]
        /\ \A s \in Tabs : RequestSound(s)'
    BY <1>1, <1>3, <1>4, <1>6, DeletePut
  <2>3. /\ tab' \in [Tabs -> TabState]
        /\ \A s \in Tabs : /\ tab'[s].conn = tab[s].conn /\ PlaceSound(s)'
                           /\ SamePage(s) \/ UnjoinedPage(s)
    <3>1. SUFFICES ASSUME NEW s \in Tabs
                   PROVE  /\ tab'[s] \in TabState /\ tab'[s].conn = tab[s].conn
                          /\ PlaceSound(s)' /\ (SamePage(s) \/ UnjoinedPage(s))
      BY <1>6
    <3>2. CASE s \in out
      <4> DEFINE h == Home(tab[s])
      <4>1. /\ h \in TabState /\ h.conn = tab[s].conn /\ h.where = "home" /\ h.room = NoRoom
            /\ h.shown = NoSetting /\ h.chat = <<>> /\ h.joined = FALSE /\ h.form.open = FALSE
        <5>1. tab[s] \in TabState
          BY <1>3
        <5>2. QED
          BY <5>1, HomePage
      <4> HIDE DEF h
      <4>0. tab'[s] = h
        BY <1>6, <3>2 DEF h
      <4>2. /\ tab'[s] \in TabState /\ tab'[s].conn = tab[s].conn
            /\ tab'[s].where = "home" /\ tab'[s].room = NoRoom
            /\ tab'[s].shown = NoSetting /\ tab'[s].chat = <<>>
            /\ tab'[s].joined = FALSE /\ tab'[s].form.open = FALSE
        BY <4>0, <4>1
      <4>3. PlaceSound(s)'
        BY <4>2 DEF PlaceSound
      <4>4. UnjoinedPage(s)
        BY <4>2 DEF UnjoinedPage
      <4>5. QED
        BY <4>2, <4>3, <4>4
    <3>3. CASE s \notin out
      <4>1. tab'[s] = tab[s]
        BY <1>6, <3>3
      <4>2. QED
        BY <1>1, <1>3, <4>1, PlaceFrame DEF SamePage
    <3>4. QED
      BY <3>2, <3>3
  <2>4. fetches' \subseteq FetchTask /\ \A f \in fetches' : FetchSound(f)'
    <3>1. SUFFICES ASSUME NEW g \in fetches,
                          NEW f, f = IF g.tab \in out THEN [g EXCEPT !.mine = FALSE] ELSE g
                   PROVE  f \in FetchTask /\ FetchSound(f)'
      BY <1>6
    <3>2. CASE g.tab \in out
      <4>1. /\ f \in FetchTask /\ f.mine = FALSE /\ f.st = g.st /\ f.val = g.val
            /\ f.room = g.room /\ g.room \in Rooms
        BY <1>3, <3>1, <3>2 DEF FetchTask
      <4>2. QED
        BY <1>1, <1>3, <4>1 DEF FetchSound, RowsGrow
    <3>3. CASE g.tab \notin out
      <4>1. f = g /\ tab'[g.tab] = tab[g.tab]
        BY <1>3, <1>6, <3>1, <3>3
      <4>2. QED
        BY <1>1, <1>3, <4>1, FetchFrame
    <3>4. QED
      BY <3>2, <3>3
  <2>5. recents' \in [People -> Seq(Rooms)] /\ RecentsSound'
    <3>1. ASSUME NEW u \in People
          PROVE  /\ recents'[u] \in Seq(Rooms) /\ IsInjective(recents'[u])
                 /\ Len(recents'[u]) <= Limit
      <4>1. recents[u] \in Seq(Rooms) /\ IsInjective(recents[u]) /\ Len(recents[u]) <= Limit
        BY DEF RoomsIInv, PagesTyped, RecentsSound
      <4>2. /\ forgetRoom(recents[u], r) \in Seq(Rooms) /\ IsInjective(forgetRoom(recents[u], r))
            /\ Len(forgetRoom(recents[u], r)) <= Len(recents[u])
        BY <1>3, <4>1, Forgotten
      <4>3. recents'[u] = recents[u] \/ recents'[u] = forgetRoom(recents[u], r)
        BY <1>6
      <4>4. CASE recents'[u] = recents[u]
        BY <4>1, <4>4
      <4>5. CASE recents'[u] = forgetRoom(recents[u], r)
        <5>1. Len(recents[u]) \in Nat /\ Len(forgetRoom(recents[u], r)) \in Nat
          BY <4>1, <4>2, LenProperties
        <5>2. QED
          BY <4>1, <4>2, <4>5, <5>1, LimitsAssumption
      <4>6. QED
        BY <4>3, <4>4, <4>5
    <3>2. QED
      BY <1>6, <3>1 DEF RecentsSound
  <2>6. EjectedOnlyFromEnded'
    <3>1. EjectedOnlyFromEnded
      BY DEF RoomsIInv
    <3>2. QED
      BY <1>6, <2>1, <3>1 DEF EjectedOnlyFromEnded
  <2>7. QED
    BY <1>1, <1>2, <2>2, <2>3, <2>4, <2>5, <2>6, QuietStep
<1>7. QED
  BY <1>5, <1>6 DEF DeleteTell

-----------------------------------------------------------------------------
(* The steps of a join: its queue, its room's rows, its socket's channel.   *)
LEMMA GoesOn ==
    ASSUME PagesTyped, NEW t \in Tabs, NEW k \in DOMAIN joins[t], NEW j \in JoinTask,
           Goes(t, k, j)
    PROVE  /\ joins' \in [Tabs -> Seq(JoinTask)]
           /\ ToSet(joins'[t]) \subseteq ToSet(joins[t]) \cup {j}
           /\ \A s \in Tabs : s # t => joins'[s] = joins[s]
<1>1. joins \in [Tabs -> Seq(JoinTask)]
  BY DEF PagesTyped
<1>2. joins' = [joins EXCEPT ![t] = [joins[t] EXCEPT ![k] = j]]
  BY DEF Goes
<1> DEFINE q == [joins[t] EXCEPT ![k] = j]
<1>3. q \in Seq(JoinTask) /\ ToSet(q) \subseteq ToSet(joins[t]) \cup {j}
  BY <1>1, PutSet
<1> HIDE DEF q
<1>4. joins' = [joins EXCEPT ![t] = q]
  BY <1>2 DEF q
<1>5. QED
  BY <1>1, <1>3, <1>4

LEMMA EndsNow ==
    ASSUME PagesTyped, NEW t \in Tabs, NEW k \in DOMAIN joins[t], Ends(t, k)
    PROVE  /\ joins' \in [Tabs -> Seq(JoinTask)]
           /\ ToSet(joins'[t]) \subseteq ToSet(joins[t])
           /\ \A s \in Tabs : s # t => joins'[s] = joins[s]
<1>1. joins \in [Tabs -> Seq(JoinTask)]
  BY DEF PagesTyped
<1> DEFINE q == RemoveAt(joins[t], k)
<1>2. q \in Seq(JoinTask) /\ ToSet(q) \subseteq ToSet(joins[t])
  BY <1>1, RemovedSet
<1>3. joins' = [joins EXCEPT ![t] = q]
  BY DEF Ends
<1> HIDE DEF q
<1>4. QED
  BY <1>1, <1>2, <1>3

LEMMA TheJoin ==
    ASSUME RoomsIInv, NEW t \in Tabs, NEW k \in DOMAIN joins[t]
    PROVE  /\ joins[t][k] \in JoinTask /\ joins[t][k] \in ToSet(joins[t])
           /\ JoinSound(t, joins[t][k]) /\ HistorySound(t, joins[t][k])
<1>1. joins[t] \in Seq(JoinTask) /\ joins[t][k] \in ToSet(joins[t])
  BY DEF RoomsIInv, PagesTyped, ToSet
<1>2. \A j \in ToSet(joins[t]) : JoinSound(t, j) /\ HistorySound(t, j)
  BY DEF RoomsIInv
<1>3. QED
  BY <1>1, <1>2

LEMMA HandlerStep ==
    ASSUME RoomsIInv, PagesTyped',
           UNCHANGED <<send, fetches, del, save, recents, ejected, ended>>,
           RowsGrow, SameTexts, OverlapGrows, \A r \in Rooms : RowSound(r)',
           \A s \in Tabs : StillOn(s) /\ SamePage(s) /\ PlaceSound(s)',
           \A s \in Tabs : \A j \in ToSet(joins'[s]) :
              j \in ToSet(joins[s]) \/ (JoinSound(s, j)' /\ HistorySound(s, j)'),
           ChannelSound'
    PROVE  RoomsIInv'
<1>1. SendsGrow
  BY SendsStay
<1>2. \A x \in Texts : MessageSound(x)'
  BY <1>1, MessageFrame DEF RoomsIInv
<1>3. \A s \in Tabs : RequestSound(s)'
  BY RequestsStay
<1>4. \A f \in fetches' : FetchSound(f)'
  BY FetchesUnchanged DEF SamePage
<1>5. RecentsSound' /\ EjectedOnlyFromEnded'
  BY DEF RoomsIInv, RecentsSound, EjectedOnlyFromEnded
<1>6. QED
  BY <1>1, <1>2, <1>3, <1>4, <1>5, StepFrame

(* ... and one that leaves rows, channels and pages alone.                  *)
LEMMA QueueStep ==
    ASSUME RoomsIInv, NEW t \in Tabs,
           UNCHANGED <<scope, used, rows, meant, tab, channel>>,
           UNCHANGED <<send, fetches, del, save, recents, ejected, ended>>,
           OverlapGrows, overlap' \in [Tabs -> SUBSET Texts],
           joins' \in [Tabs -> Seq(JoinTask)],
           \A s \in Tabs : s # t => joins'[s] = joins[s],
           \A j \in ToSet(joins'[t]) :
              j \in ToSet(joins[t]) \/ (JoinSound(t, j)' /\ HistorySound(t, j)')
    PROVE  RoomsIInv'
<1>1. PagesTyped /\ PagesTyped'
  BY DEF RoomsIInv, PagesTyped
<1>2. RowsGrow /\ SendsGrow /\ SameTexts
  BY RowsStay, SendsStay DEF SameTexts
<1>3. \A r \in Rooms : RowSound(r)'
  BY <1>1, <1>2, RowFrame DEF RoomsIInv
<1>4. \A s \in Tabs : StillOn(s) /\ SamePage(s) /\ PlaceSound(s)'
  BY <1>1, <1>2, PlaceFrame DEF RoomsIInv, StillOn, SamePage
<1>5. ChannelSound'
  BY DEF RoomsIInv, ChannelSound
<1>6. ASSUME NEW s \in Tabs, NEW j \in ToSet(joins'[s])
      PROVE  j \in ToSet(joins[s]) \/ (JoinSound(s, j)' /\ HistorySound(s, j)')
  <2>1. CASE s = t
    BY <2>1
  <2>2. CASE s # t
    BY <2>2
  <2>3. QED
    BY <2>1, <2>2
<1>7. QED
  BY <1>1, <1>2, <1>3, <1>4, <1>5, <1>6, HandlerStep

(* A handler that ends is one join less.                                    *)
LEMMA EndsStep ==
    ASSUME RoomsIInv, NEW t \in Tabs, NEW k \in DOMAIN joins[t], Ends(t, k),
           UNCHANGED <<scope, used, rows, meant, tab, channel, overlap>>,
           UNCHANGED <<send, fetches, del, save, recents, ejected, ended>>
    PROVE  RoomsIInv'
<1>1. /\ joins' \in [Tabs -> Seq(JoinTask)] /\ ToSet(joins'[t]) \subseteq ToSet(joins[t])
      /\ \A s \in Tabs : s # t => joins'[s] = joins[s]
  BY EndsNow DEF RoomsIInv
<1>2. OverlapGrows /\ overlap' \in [Tabs -> SUBSET Texts]
  BY DEF OverlapGrows, RoomsIInv, PagesTyped
<1>3. QED
  BY <1>1, <1>2, QueueStep

LEMMA JoinLookStep ==
    ASSUME RoomsIInv, NEW t \in Tabs, NEW k \in DOMAIN joins[t], JoinLook(t, k)
    PROVE  RoomsIInv'
<1> DEFINE j == joins[t][k]
<1>1. /\ UNCHANGED <<scope, used, rows, meant, tab, channel, overlap>>
      /\ UNCHANGED <<send, fetches, del, save, recents, ejected, ended>>
      /\ j.pc = "look"
  BY DEF JoinLook, pastVars
<1>2. CASE Ends(t, k)
  BY <1>1, <1>2, EndsStep
<1>3. CASE Goes(t, k, [j EXCEPT !.pc = "enter"])
  <2>1. PagesTyped /\ j \in JoinTask /\ JoinSound(t, j)
    BY TheJoin DEF RoomsIInv
  <2>2. PICK g : g = [j EXCEPT !.pc = "enter"]
    OBVIOUS
  <2>3. g \in JoinTask /\ g.pc = "enter" /\ g.live = j.live /\ g.room = j.room /\ g.hist = j.hist
    BY <2>1, <2>2 DEF JoinTask
  <2>4. Goes(t, k, g)
    BY <1>3, <2>2
  <2>5. /\ joins' \in [Tabs -> Seq(JoinTask)]
        /\ ToSet(joins'[t]) \subseteq ToSet(joins[t]) \cup {g}
        /\ \A s \in Tabs : s # t => joins'[s] = joins[s]
    BY <2>1, <2>3, <2>4, GoesOn
  <2>6. JoinSound(t, g)
    BY <2>1, <2>3 DEF JoinSound
  <2>7. JoinSound(t, g)'
    BY <1>1, <2>6 DEF JoinSound, Kept
  <2>8. HistorySound(t, g)'
    BY <2>3 DEF HistorySound
  <2>9. OverlapGrows /\ overlap' \in [Tabs -> SUBSET Texts]
    BY <1>1, <2>1 DEF OverlapGrows, PagesTyped
  <2>10. QED
    BY <1>1, <2>5, <2>7, <2>8, <2>9, QueueStep
<1>4. QED
  BY <1>2, <1>3 DEF JoinLook

(* client.join: a socket that is still there is in the channel now.         *)
LEMMA JoinEnterStep ==
    ASSUME RoomsIInv, NEW t \in Tabs, NEW k \in DOMAIN joins[t], JoinEnter(t, k)
    PROVE  RoomsIInv'
<1> DEFINE j == joins[t][k]
           c == IF j.live THEN channel[j.room] \cup {t} ELSE channel[j.room]
           e == [tab[t] EXCEPT !.last = IF j.live THEN j.room ELSE tab[t].last]
<1>1. /\ UNCHANGED <<scope, used, rows, meant, overlap>>
      /\ UNCHANGED <<send, fetches, del, save, recents, ejected, ended>>
      /\ j.pc = "enter" /\ Goes(t, k, [j EXCEPT !.pc = "upsert"])
      /\ channel' = [channel EXCEPT ![j.room] = c] /\ tab' = [tab EXCEPT ![t] = e]
  BY DEF JoinEnter, pastVars
<1>2. /\ PagesTyped /\ j \in JoinTask /\ JoinSound(t, j) /\ ChannelSound /\ tab[t] \in TabState
      /\ channel \in [Rooms -> SUBSET Tabs] /\ j.room \in Rooms
      /\ \A x \in Texts : MessageSound(x)
      /\ \A s \in Tabs : PlaceSound(s)
  BY TheJoin DEF RoomsIInv, PagesTyped, JoinTask
<1>3. PICK g : g = [j EXCEPT !.pc = "upsert"]
  OBVIOUS
<1>4. g \in JoinTask /\ g.pc = "upsert" /\ g.live = j.live /\ g.room = j.room /\ g.hist = j.hist
  BY <1>2, <1>3 DEF JoinTask
<1>5. Goes(t, k, g)
  BY <1>1, <1>3
<1>6. /\ joins' \in [Tabs -> Seq(JoinTask)]
      /\ ToSet(joins'[t]) \subseteq ToSet(joins[t]) \cup {g}
      /\ \A s \in Tabs : s # t => joins'[s] = joins[s]
  BY <1>2, <1>4, <1>5, GoesOn
<1>7. /\ e \in TabState /\ e.conn = tab[t].conn /\ e.where = tab[t].where
      /\ e.room = tab[t].room /\ e.shown = tab[t].shown /\ e.form = tab[t].form
      /\ e.joined = tab[t].joined /\ e.chat = tab[t].chat
  BY <1>2 DEF TabState
<1> HIDE DEF j, e
<1>8. /\ tab' \in [Tabs -> TabState] /\ tab'[t] = e
      /\ \A s \in Tabs : s # t => tab'[s] = tab[s]
  BY <1>1, <1>2, <1>7, TabReplaced
<1>9. /\ channel' \in [Rooms -> SUBSET Tabs]
      /\ \A r \in Rooms : channel[r] \subseteq channel'[r] /\ channel'[r] \subseteq channel[r] \cup {t}
      /\ j.live => t \in channel'[j.room]
      /\ ~j.live => channel' = channel
  <2>1. c \in SUBSET Tabs /\ channel[j.room] \subseteq c /\ c \subseteq channel[j.room] \cup {t}
        /\ (j.live => t \in c) /\ (~j.live => c = channel[j.room])
    BY <1>2
  <2> HIDE DEF c
  <2>2. QED
    BY <1>1, <1>2, <2>1
<1>10. ChannelSound'
  <2>1. j.live => tab[t].conn
    BY <1>2 DEF JoinSound
  <2>2. \A s \in Tabs : tab[s].conn => tab'[s].conn
    BY <1>7, <1>8
  <2>3. ASSUME NEW r \in Rooms, NEW s \in channel'[r] PROVE tab'[s].conn
    <3>1. CASE s \in channel[r]
      BY <1>2, <2>2, <3>1 DEF ChannelSound
    <3>2. CASE s \notin channel[r]
      BY <1>9, <2>1, <2>2, <2>3, <3>2
    <3>3. QED
      BY <3>1, <3>2
  <2>4. QED
    BY <2>3 DEF ChannelSound
<1>11. PagesTyped'
  BY <1>1, <1>2, <1>6, <1>8, <1>9 DEF PagesTyped
<1>12. RowsGrow /\ SendsGrow /\ SameTexts /\ OverlapGrows
  BY <1>1, RowsStay, SendsStay DEF SameTexts, OverlapGrows
<1>13. \A r \in Rooms : RowSound(r)'
  BY <1>1, <1>2, <1>12, RowFrame DEF RoomsIInv
<1>14. ASSUME NEW s \in Tabs PROVE StillOn(s) /\ SamePage(s) /\ PlaceSound(s)'
  <2>1. StillOn(s)
    BY <1>7, <1>8, <1>9 DEF StillOn
  <2>2. CASE s = t
    <3>1. SamePage(t)
      BY <1>7, <1>8 DEF SamePage
    <3>2. PlaceSound(t)'
      BY <1>1, <1>2, <1>7, <1>8 DEF PlaceSound
    <3>3. QED
      BY <2>1, <2>2, <3>1, <3>2
  <2>3. CASE s # t
    <3>1. SamePage(s)
      BY <1>8, <2>3 DEF SamePage
    <3>2. PlaceSound(s)'
      BY <1>2, <1>8, <1>12, <2>3, PlaceFrame
    <3>3. QED
      BY <2>1, <3>1, <3>2
  <2>4. QED
    BY <2>2, <2>3
<1>15. JoinSound(t, g)' /\ HistorySound(t, g)'
  <2>1. \A x \in ToSet(g.hist) : Kept(x)'
    BY <1>1, <1>2, <1>4 DEF JoinSound, Kept
  <2>2. g.live => tab'[t].conn
    BY <1>2, <1>4, <1>7, <1>8 DEF JoinSound
  <2>3. QED
    BY <1>4, <1>9, <2>1, <2>2 DEF JoinSound, HistorySound
<1>16. ASSUME NEW s \in Tabs, NEW q \in ToSet(joins'[s])
       PROVE  q \in ToSet(joins[s]) \/ (JoinSound(s, q)' /\ HistorySound(s, q)')
  BY <1>6, <1>15
<1>17. QED
  BY <1>1, <1>10, <1>11, <1>12, <1>13, <1>14, <1>16, HandlerStep

(* participant.upsert changes nothing of the room but who is in it.         *)
LEMMA JoinUpsertStep ==
    ASSUME RoomsIInv, NEW t \in Tabs, NEW k \in DOMAIN joins[t], JoinUpsert(t, k)
    PROVE  RoomsIInv'
<1> DEFINE j == joins[t][k]
           p == [rows[j.room].parts EXCEPT ![OwnerOf[t]] = "in"]
           w == [rows[j.room] EXCEPT !.parts = p]
<1>1. /\ UNCHANGED <<scope, used, meant, tab, channel, overlap>>
      /\ UNCHANGED <<send, fetches, del, save, recents, ejected, ended>> /\ j.pc = "upsert"
  BY DEF JoinUpsert, pastVars
<1>2. CASE Ends(t, k) /\ UNCHANGED rows
  BY <1>1, <1>2, EndsStep
<1>3. CASE /\ rows[j.room].phase = "live" /\ rows' = [rows EXCEPT ![j.room] = w]
           /\ Goes(t, k, [j EXCEPT !.pc = "read"])
  <2>1. /\ PagesTyped /\ j \in JoinTask /\ JoinSound(t, j) /\ j.room \in Rooms
        /\ rows \in [Rooms -> Row] /\ OwnerOf[t] \in People /\ rows[j.room] \in Row
        /\ (\A x \in Texts : MessageSound(x)) /\ \A r \in Rooms : RowSound(r)
    BY TheJoin, OwnerAssumption DEF RoomsIInv, PagesTyped, JoinTask
  <2>2. PICK g : g = [j EXCEPT !.pc = "read"]
    OBVIOUS
  <2>3. g \in JoinTask /\ g.pc = "read" /\ g.live = j.live /\ g.room = j.room /\ g.hist = j.hist
    BY <2>1, <2>2 DEF JoinTask
  <2>4. Goes(t, k, g)
    BY <1>3, <2>2
  <2>5. /\ joins' \in [Tabs -> Seq(JoinTask)]
        /\ ToSet(joins'[t]) \subseteq ToSet(joins[t]) \cup {g}
        /\ \A s \in Tabs : s # t => joins'[s] = joins[s]
    BY <2>1, <2>3, <2>4, GoesOn
  <2>6. p \in [People -> {"none", "in", "out"}]
    BY <2>1 DEF Row
  <2> HIDE DEF p
  <2>7. /\ w \in Row /\ w.phase = rows[j.room].phase /\ w.msgs = rows[j.room].msgs
        /\ w.setting = rows[j.room].setting
    BY <2>1, <2>6 DEF Row
  <2> HIDE DEF j, w
  <2>8. /\ rows' \in [Rooms -> Row] /\ rows'[j.room] = w
        /\ \A r \in Rooms : r # j.room => rows'[r] = rows[r]
    BY <1>3, <2>1, <2>7
  <2>9. \A r \in Rooms : /\ rows'[r].phase = rows[r].phase /\ rows'[r].msgs = rows[r].msgs
                         /\ rows'[r].setting = rows[r].setting
    BY <2>7, <2>8
  <2>10. RowsGrow /\ SendsGrow /\ SameTexts /\ OverlapGrows
    BY <1>1, <2>9, SendsStay DEF RowsGrow, SameTexts, OverlapGrows
  <2>11. ASSUME NEW r \in Rooms PROVE RowSound(r)'
    <3>1. CASE r = j.room
      BY <1>1, <1>3, <2>1, <2>9, <3>1 DEF RowSound
    <3>2. CASE r # j.room
      BY <1>1, <2>1, <2>8, <2>10, <3>2, RowFrame
    <3>3. QED
      BY <3>1, <3>2
  <2>12. PagesTyped'
    BY <1>1, <2>1, <2>5, <2>8 DEF PagesTyped
  <2>13. ASSUME NEW s \in Tabs PROVE StillOn(s) /\ SamePage(s) /\ PlaceSound(s)'
    BY <1>1, <2>1, <2>10, PlaceFrame DEF RoomsIInv, StillOn, SamePage
  <2>14. JoinSound(t, g)' /\ HistorySound(t, g)'
    <3>1. JoinSound(t, g)
      BY <2>1, <2>3, <1>1 DEF JoinSound, j
    <3>2. QED
      BY <2>1, <2>3, <2>10, <2>13, <3>1, JoinFrame DEF HistorySound
  <2>15. ASSUME NEW s \in Tabs, NEW q \in ToSet(joins'[s])
         PROVE  q \in ToSet(joins[s]) \/ (JoinSound(s, q)' /\ HistorySound(s, q)')
    BY <2>5, <2>14
  <2>16. ChannelSound'
    BY <1>1 DEF RoomsIInv, ChannelSound
  <2>17. QED
    BY <1>1, <2>10, <2>11, <2>12, <2>13, <2>15, <2>16, HandlerStep
<1>4. QED
  BY <1>2, <1>3 DEF JoinUpsert

(* A history is read: whatever is saved and not announced meets it.         *)
LEMMA HistoryReadStep ==
    ASSUME RoomsIInv, NEW t \in Tabs, NEW k \in DOMAIN joins[t], HistoryRead(t, k)
    PROVE  RoomsIInv'
<1> DEFINE j == joins[t][k]
           m == rows[j.room].msgs
<1>1. /\ UNCHANGED <<scope, used, rows, meant, tab, channel>>
      /\ UNCHANGED <<send, fetches, del, save, recents, ejected, ended>> /\ j.pc = "read"
  BY DEF HistoryRead
<1>2. CASE Ends(t, k) /\ UNCHANGED overlap
  BY <1>1, <1>2, EndsStep
<1>3. CASE /\ Goes(t, k, [j EXCEPT !.pc = "emit", !.hist = History(m)])
           /\ overlap' = [overlap EXCEPT ![t] = overlap[t] \cup Unannounced]
           /\ rows[j.room].phase = "live"
  <2>1. /\ PagesTyped /\ j \in JoinTask /\ JoinSound(t, j) /\ j.room \in Rooms
        /\ RowSound(j.room) /\ overlap \in [Tabs -> SUBSET Texts] /\ m \in Seq(Texts)
        /\ Unannounced \in SUBSET Texts
    BY TheJoin DEF RoomsIInv, PagesTyped, JoinTask, Row, Unannounced
  <2>2. PICK h : h = History(m)
    OBVIOUS
  <2>3. h \in Seq(Texts) /\ ToSet(h) \subseteq ToSet(m) /\ IsInjective(h)
    BY <2>1, <2>2, HistoryOf DEF RowSound
  <2>4. PICK g : g = [j EXCEPT !.pc = "emit", !.hist = h]
    OBVIOUS
  <2>5. g \in JoinTask /\ g.pc = "emit" /\ g.live = j.live /\ g.room = j.room /\ g.hist = h
    BY <2>1, <2>3, <2>4 DEF JoinTask
  <2>6. Goes(t, k, g)
    BY <1>3, <2>2, <2>4
  <2>7. /\ joins' \in [Tabs -> Seq(JoinTask)]
        /\ ToSet(joins'[t]) \subseteq ToSet(joins[t]) \cup {g}
        /\ \A s \in Tabs : s # t => joins'[s] = joins[s]
    BY <2>1, <2>5, <2>6, GoesOn
  <2>8. /\ overlap' \in [Tabs -> SUBSET Texts] /\ OverlapGrows
        /\ \A x \in Texts : send[x].st = "saved" => x \in overlap'[t]
    <3>1. overlap' = [overlap EXCEPT ![t] = overlap[t] \cup Unannounced]
      BY <1>3
    <3>2. \A x \in Texts : send[x].st = "saved" => x \in Unannounced
      BY DEF Unannounced
    <3>3. QED
      BY <2>1, <3>1, <3>2 DEF OverlapGrows
  <2>9. \A x \in ToSet(m) : x \in Texts /\ send[x].st \in Announced /\ send[x].room = j.room
    <3>1. \A x \in ToSet(m) : x \in Texts
      BY <2>1 DEF ToSet
    <3>2. QED
      BY <2>1, <3>1 DEF RowSound
  <2>10. JoinSound(t, g)'
    <3>1. \A x \in ToSet(h) : Kept(x)'
      BY <1>1, <2>3, <2>9 DEF Kept
    <3>2. QED
      BY <1>1, <2>1, <2>5, <3>1 DEF JoinSound
  <2>11. HistorySound(t, g)'
    <3>1. \A x \in ToSet(m) \ overlap'[t] : send[x].st = "done"
      BY <2>8, <2>9 DEF Announced
    <3> DEFINE hm == ToSet(History(rows[g.room].msgs))
    <3>2. \A x \in hm : x \in ToSet(h)
      BY <2>2, <2>5
    <3> HIDE DEF hm
    <3>3. \A x \in ToSet(rows[g.room].msgs) \ overlap'[t] :
             send[x].st = "done" /\ (x \in hm => x \in ToSet(g.hist))
      BY <2>5, <3>1, <3>2
    <3>4. QED
      BY <1>1, <2>3, <2>5, <3>3 DEF HistorySound, hm
  <2>12. QED
    BY <1>1, <2>7, <2>8, <2>10, <2>11, QueueStep
<1>4. QED
  BY <1>2, <1>3 DEF HistoryRead

(* A history is shown in place of what the page had.                        *)
LEMMA HistoryEmitStep ==
    ASSUME RoomsIInv, NEW t \in Tabs, NEW k \in DOMAIN joins[t], HistoryEmit(t, k)
    PROVE  RoomsIInv'
<1> DEFINE j == joins[t][k]
           e == onHistory(tab[t], j.room, j.hist)
<1>1. /\ UNCHANGED <<scope, used, rows, meant, channel, overlap>>
      /\ UNCHANGED <<send, fetches, del, save, recents, ejected, ended>>
      /\ j.pc = "emit" /\ Ends(t, k)
  BY DEF HistoryEmit, pastVars
<1>2. CASE tab' = tab
  BY <1>1, <1>2, EndsStep
<1>3. CASE j.live /\ Panel(t) /\ tab' = [tab EXCEPT ![t] = e]
  <2>1. /\ PagesTyped /\ j \in JoinTask /\ JoinSound(t, j) /\ HistorySound(t, j)
        /\ j.hist \in Seq(Texts) /\ j.room \in Rooms /\ tab[t] \in TabState
        /\ \A s \in Tabs : PlaceSound(s)
    BY TheJoin DEF RoomsIInv, PagesTyped, JoinTask
  <2>2. /\ joins' \in [Tabs -> Seq(JoinTask)] /\ ToSet(joins'[t]) \subseteq ToSet(joins[t])
        /\ \A s \in Tabs : s # t => joins'[s] = joins[s]
    BY <1>1, <2>1, EndsNow
  <2>3. PICK q : q = j
    OBVIOUS
  <2>4. /\ e \in TabState /\ e.conn = tab[t].conn /\ e.where = tab[t].where
        /\ e.room = tab[t].room /\ e.shown = tab[t].shown /\ e.form = tab[t].form
        /\ e.joined = (q.room = tab[t].room) /\ e.chat = q.hist
    BY <2>1, <2>3 DEF onHistory, TabState
  <2> HIDE DEF e
  <2>5. /\ tab' \in [Tabs -> TabState] /\ tab'[t] = e
        /\ \A s \in Tabs : s # t => tab'[s] = tab[s]
    BY <1>3, <2>1, <2>4, TabReplaced
  <2>6. RowsGrow /\ SendsGrow /\ SameTexts /\ OverlapGrows
    BY <1>1, RowsStay, SendsStay DEF SameTexts, OverlapGrows
  <2>7. PagesTyped'
    BY <1>1, <2>1, <2>2, <2>5 DEF PagesTyped
  <2>8. (\A r \in Rooms : RowSound(r)') /\ \A x \in Texts : MessageSound(x)'
    BY <1>1, <2>1, <2>6, RowFrame, MessageFrame DEF RoomsIInv
  <2>9. \A s \in Tabs : RequestSound(s)'
    BY <1>1, <2>6, RequestsStay
  <2>10. \A s \in Tabs : tab'[s].where = tab[s].where /\ tab'[s].room = tab[s].room
                         /\ tab'[s].conn = tab[s].conn
    BY <2>4, <2>5
  <2>11. \A f \in fetches' : FetchSound(f)'
    BY <1>1, <2>6, <2>10, FetchesUnchanged
  <2>12. ASSUME NEW s \in Tabs PROVE PlaceSound(s)' /\ StillOn(s)
    <3>1. StillOn(s)
      BY <1>1, <2>10 DEF StillOn
    <3>2. PlaceSound(t)'
      BY <1>1, <2>1, <2>4, <2>5 DEF PlaceSound
    <3>3. s # t => PlaceSound(s)'
      BY <2>1, <2>5, <2>6, PlaceFrame
    <3>4. QED
      BY <3>1, <3>2, <3>3
  <2>13. ToldSound(t)'
    <3>1. tab'[t].joined => Panel(t)' /\ t \in channel'[tab'[t].room]
      <4>1. Panel(t)'
        BY <1>3, <2>4, <2>5 DEF Panel
      <4>2. tab'[t].joined => q.room = tab[t].room
        BY <2>4, <2>5
      <4>3. t \in channel[q.room]
        BY <1>1, <1>3, <2>1, <2>3 DEF JoinSound
      <4>4. QED
        BY <1>1, <2>10, <4>1, <4>2, <4>3
    <3>2. \A x \in ToSet(q.hist) : Kept(x)'
      BY <1>1, <2>1, <2>3 DEF JoinSound, Kept
    <3>3. QED
      BY <2>4, <2>5, <3>1, <3>2 DEF ToldSound
  <2>14. ChatSound(t)'
    <3>1. HistorySound(t, q) /\ q.pc = "emit"
      BY <1>1, <2>1, <2>3
    <3>2. HistorySound(t, q)'
      BY <1>1, <3>1 DEF HistorySound
    <3>3. SUFFICES ASSUME tab'[t].joined PROVE ChatSound(t)'
      BY DEF ChatSound
    <3>4. q.room = tab'[t].room /\ q.hist = tab'[t].chat
      BY <2>4, <2>5, <3>3
    <3>5. QED
      BY <3>1, <3>2, <3>4 DEF HistorySound, ChatSound, IsInjective
  <2>15. ASSUME NEW s \in Tabs
         PROVE  (StillOn(s) /\ SamePage(s)) \/ UnjoinedPage(s) \/ (ToldSound(s)' /\ ChatSound(s)')
    <3>1. s # t => SamePage(s)
      BY <2>5 DEF SamePage
    <3>2. QED
      BY <2>12, <2>13, <2>14, <3>1
  <2>16. \A s \in Tabs : \A i \in ToSet(joins'[s]) : i \in ToSet(joins[s]) /\ StillOn(s)
    BY <2>2, <2>12
  <2>17. ChannelSound' /\ RecentsSound' /\ EjectedOnlyFromEnded'
    <3>1. ChannelSound /\ RecentsSound /\ EjectedOnlyFromEnded /\ channel \in [Rooms -> SUBSET Tabs]
      BY DEF RoomsIInv, PagesTyped
    <3>2. ChannelSound'
      BY <1>1, <2>10, <3>1 DEF ChannelSound
    <3>3. QED
      BY <1>1, <3>1, <3>2 DEF RecentsSound, EjectedOnlyFromEnded
  <2>18. QED
    BY <2>6, <2>7, <2>8, <2>9, <2>11, <2>12, <2>15, <2>16, <2>17, StepFrame
<1>4. QED
  BY <1>2, <1>3 DEF HistoryEmit

(* The answer to a fetch: the page shows the room and joins it, or goes     *)
(* home.                                                                    *)
LEMMA FetchShownStep ==
    ASSUME RoomsIInv, NEW f \in fetches, f.st = "found", f.mine,
           fetches' = fetches \ {f},
           tab' = [tab EXCEPT ![f.tab].shown = f.val],
           recents' = [recents EXCEPT ![OwnerOf[f.tab]] =
                          rememberRoom(recents[OwnerOf[f.tab]], f.room)],
           joins' = [joins EXCEPT ![f.tab] = IF tab[f.tab].conn
                                             THEN Append(joins[f.tab], JoinOf(f.room))
                                             ELSE joins[f.tab]],
           UNCHANGED <<scope, used, rows, meant, channel, overlap>>,
           UNCHANGED <<send, del, save, ejected, ended>>
    PROVE  RoomsIInv'
<1> DEFINE t == f.tab
           e == [tab[t] EXCEPT !.shown = f.val]
           u == OwnerOf[t]
           l == rememberRoom(recents[u], f.room)
           n == JoinOf(f.room)
           q == IF tab[t].conn THEN Append(joins[t], n) ELSE joins[t]
<1>1. /\ PagesTyped /\ f \in FetchTask /\ FetchSound(f) /\ t \in Tabs /\ f.room \in Rooms
      /\ tab[t] \in TabState /\ u \in People /\ joins \in [Tabs -> Seq(JoinTask)]
      /\ recents \in [People -> Seq(Rooms)] /\ RecentsSound
      /\ \A s \in Tabs : PlaceSound(s)
  BY OwnerAssumption DEF RoomsIInv, PagesTyped, FetchTask
<1>2. /\ f.val \in Setting /\ rows[f.room].phase # "unborn"
      /\ tab[t].where = "room" /\ tab[t].room = f.room
  BY <1>1 DEF FetchSound
<1>3. /\ e \in TabState /\ e.conn = tab[t].conn /\ e.where = tab[t].where
      /\ e.room = tab[t].room /\ e.shown = f.val /\ e.form = tab[t].form
      /\ e.joined = tab[t].joined /\ e.chat = tab[t].chat
  BY <1>1, <1>2 DEF TabState
<1>4. l \in Seq(Rooms) /\ IsInjective(l) /\ Len(l) <= Limit
  BY <1>1, Remembered DEF RecentsSound
<1>5. /\ n \in JoinTask /\ n.pc = "look" /\ n.live = TRUE /\ n.hist = <<>>
  BY <1>1 DEF JoinOf, JoinTask
<1> HIDE DEF n
<1>6. q \in Seq(JoinTask) /\ ToSet(q) \subseteq ToSet(joins[t]) \cup {n}
      /\ (~tab[t].conn => q = joins[t])
  BY <1>1, <1>5, AppendedSet
<1>7. /\ tab' = [tab EXCEPT ![t] = e] /\ recents' = [recents EXCEPT ![u] = l]
      /\ joins' = [joins EXCEPT ![t] = q]
  BY DEF n
<1> HIDE DEF t, e, u, l, q
<1>8. /\ tab' \in [Tabs -> TabState] /\ tab'[t] = e
      /\ \A s \in Tabs : s # t => tab'[s] = tab[s]
  BY <1>1, <1>3, <1>7, TabReplaced
<1>9. /\ recents' \in [People -> Seq(Rooms)] /\ RecentsSound'
  <2>1. recents \in [People -> Seq(Rooms)] /\ u \in People /\ recents' = [recents EXCEPT ![u] = l]
    BY <1>1, <1>7
  <2>2. /\ recents' \in [People -> Seq(Rooms)] /\ recents'[u] = l
        /\ \A v \in People : v # u => recents'[v] = recents[v]
    BY <1>4, <2>1
  <2>3. QED
    BY <1>1, <1>4, <2>2 DEF RecentsSound
<1>10. /\ joins' \in [Tabs -> Seq(JoinTask)] /\ joins'[t] = q
       /\ \A s \in Tabs : s # t => joins'[s] = joins[s]
  <2>1. joins \in [Tabs -> Seq(JoinTask)] /\ t \in Tabs /\ joins' = [joins EXCEPT ![t] = q]
    BY <1>1, <1>7
  <2>2. QED
    BY <1>6, <2>1
<1>11. PagesTyped'
  BY <1>1, <1>8, <1>9, <1>10 DEF PagesTyped
<1>12. RowsGrow /\ SendsGrow /\ SameTexts /\ OverlapGrows
  BY RowsStay, SendsStay DEF SameTexts, OverlapGrows
<1>13. (\A r \in Rooms : RowSound(r)') /\ \A x \in Texts : MessageSound(x)'
  BY <1>1, <1>12, RowFrame, MessageFrame DEF RoomsIInv
<1>14. \A s \in Tabs : RequestSound(s)'
  BY <1>12, RequestsStay
<1>15. \A s \in Tabs : tab'[s].where = tab[s].where /\ tab'[s].room = tab[s].room
                       /\ tab'[s].conn = tab[s].conn
  BY <1>3, <1>8
<1>16. \A g \in fetches' : FetchSound(g)'
  <2>1. fetches \subseteq FetchTask /\ \A g \in fetches : FetchSound(g) /\ g.tab \in Tabs
    BY DEF RoomsIInv, PagesTyped, FetchTask
  <2>2. QED
    BY <1>12, <1>15, <2>1, FetchFrame
<1>17. f.val # NoSetting
  BY <1>2, NothingAssumption
<1>18. ASSUME NEW s \in Tabs PROVE PlaceSound(s)' /\ StillOn(s) /\ SamePage(s)
  <2>1. StillOn(s)
    BY <1>15 DEF StillOn
  <2>2. PlaceSound(t)'
    <3>1. tab[t].form.open => tab[t].form.val \in Setting
      BY <1>1 DEF PlaceSound
    <3>2. tab[t].where = "home" <=> tab[t].room = NoRoom
      BY <1>1 DEF PlaceSound
    <3>3. rows'[tab'[t].room].phase # "unborn"
      BY <1>2, <1>15, <1>1
    <3>4. QED
      BY <1>2, <1>3, <1>8, <1>17, <3>1, <3>2, <3>3 DEF PlaceSound
  <2>3. s # t => PlaceSound(s)'
    BY <1>1, <1>8, <1>12, PlaceFrame
  <2>4. SamePage(s)
    BY <1>3, <1>8, <1>17 DEF SamePage
  <2>5. QED
    BY <2>1, <2>2, <2>3, <2>4
<1>19. ASSUME NEW s \in Tabs, NEW j \in ToSet(joins'[s])
       PROVE  \/ j \in ToSet(joins[s]) /\ StillOn(s)
              \/ JoinSound(s, j)' /\ HistorySound(s, j)'
  <2>1. CASE j \in ToSet(joins[s])
    BY <1>18, <2>1
  <2>2. CASE j \notin ToSet(joins[s])
    <3>1. s = t /\ j = n /\ tab[t].conn
      BY <1>6, <1>10, <1>19, <2>2
    <3>2. ToSet(<<>>) = {}
      BY DEF ToSet
    <3>3. JoinSound(s, j)' /\ HistorySound(s, j)'
      BY <1>5, <1>15, <3>1, <3>2 DEF JoinSound, HistorySound
    <3>4. QED
      BY <3>3
  <2>3. QED
    BY <2>1, <2>2
<1>20. ChannelSound' /\ EjectedOnlyFromEnded'
  <2>1. ChannelSound /\ EjectedOnlyFromEnded /\ channel \in [Rooms -> SUBSET Tabs]
    BY DEF RoomsIInv, PagesTyped
  <2>2. QED
    BY <1>15, <2>1 DEF ChannelSound, EjectedOnlyFromEnded
<1>21. QED
  BY <1>9, <1>11, <1>12, <1>13, <1>14, <1>16, <1>18, <1>19, <1>20, StepFrame

LEMMA FetchRoomDetailsStep ==
    ASSUME RoomsIInv, NEW f \in fetches, fetchRoomDetails(f)
    PROVE  RoomsIInv'
<1> DEFINE t == f.tab
           e == Home(tab[t])
<1>1. /\ UNCHANGED <<scope, used, rows, meant, channel, overlap>>
      /\ UNCHANGED <<send, del, save, ejected, ended>> /\ RowsGrow
  BY RowsStay DEF fetchRoomDetails, pastVars
<1>2. PagesTyped /\ f \in FetchTask /\ t \in Tabs
  BY DEF RoomsIInv, PagesTyped, FetchTask
<1>3. used' \in [Budgets -> Nat] /\ \A b \in Budgets : used'[b] <= scope'[b]
  BY <1>1, BudgetsStay
<1>4. /\ del' \in [Tabs -> DeleteTask] /\ save' \in [Tabs -> SaveTask]
      /\ \A s \in Tabs : RequestSound(s)'
  BY <1>1, RequestsStay
<1>5. CASE /\ f.st = "found" /\ f.mine
           /\ tab' = [tab EXCEPT ![t].shown = f.val]
           /\ recents' = [recents EXCEPT ![OwnerOf[t]] = rememberRoom(@, f.room)]
           /\ joins' = [joins EXCEPT ![t] =
                          IF tab[t].conn THEN Append(@, JoinOf(f.room)) ELSE @]
  <2>1. fetches' = fetches \ {f}
    BY <1>5 DEF fetchRoomDetails
  <2>2. QED
    BY <1>1, <1>5, <2>1, FetchShownStep
<1>6. CASE f.st = "found" /\ ~f.mine /\ UNCHANGED <<tab, recents, joins>>
  <2>1. fetches' = fetches \ {f}
    BY <1>6 DEF fetchRoomDetails
  <2>2. fetches' \subseteq FetchTask /\ \A g \in fetches' : FetchSound(g)'
    <3>1. fetches \subseteq FetchTask /\ \A g \in fetches : FetchSound(g) /\ g.tab \in Tabs
      BY DEF RoomsIInv, PagesTyped, FetchTask
    <3>2. QED
      BY <1>1, <1>6, <2>1, <3>1, FetchFrame
  <2>3. QED
    BY <1>1, <1>3, <1>4, <1>6, <2>2, BackgroundStep
<1>7. CASE f.st = "missing" /\ tab' = [tab EXCEPT ![t] = Home(@)] /\ UNCHANGED <<recents, joins>>
  <2>1. fetches' \subseteq Unmounted(t)
    BY <1>7 DEF fetchRoomDetails
  <2>2. /\ e \in TabState /\ e.conn = tab[t].conn /\ tab' = [tab EXCEPT ![t] = e]
        /\ \A s \in Tabs : s # t => tab'[s] = tab[s]
        /\ UnjoinedPage(t) /\ PlaceSound(t)'
    BY <1>2, <1>7, HomeStep
  <2>3. Unmounted(t) \subseteq FetchTask /\ \A g \in Unmounted(t) : FetchSound(g)'
    BY <1>1, <1>2, <2>2, UnmountedFetches, UnmountedSound DEF RoomsIInv
  <2>4. fetches' \subseteq FetchTask /\ \A g \in fetches' : FetchSound(g)'
    BY <2>1, <2>3
  <2> HIDE DEF e, t
  <2>5. QED
    BY <1>1, <1>2, <1>3, <1>4, <1>7, <2>2, <2>4, PageStep
<1>8. QED
  BY <1>5, <1>6, <1>7 DEF fetchRoomDetails

-----------------------------------------------------------------------------
(* The steps that write rooms.                                              *)
LEMMA HandleSubmitStep ==
    ASSUME RoomsIInv, NEW t \in Tabs, NEW r \in Rooms, handleSubmit(t, r)
    PROVE  RoomsIInv'
<1>1. /\ Spend("moves") /\ scope' = scope /\ Opens(t, r) /\ rows[r].phase = "unborn"
      /\ UNCHANGED <<channel, joins, send, del, save, recents, ejected, ended, overlap>>
  BY DEF handleSubmit
<1>2. PICK s \in Setting : /\ createRoom(r, OwnerOf[t], s)
                           /\ meant' = [meant EXCEPT ![r] = s]
  <2>1. \A public \in BOOLEAN : NewSetting(public) \in Setting
    BY DEF NewSetting, Setting, Plain
  <2>2. QED
    BY <2>1 DEF handleSubmit
<1> DEFINE a == [rows[r] EXCEPT !.phase = "live"]
           b == [a EXCEPT !.creator = OwnerOf[t]]
           w == [b EXCEPT !.setting = s]
           e == RoomPage(tab[t], r)
<1>3. /\ PagesTyped /\ rows \in [Rooms -> Row] /\ meant \in [Rooms -> Setting]
      /\ rows[r] \in Row /\ OwnerOf[t] \in People
      /\ (\A q \in Rooms : RowSound(q)) /\ (\A x \in Texts : MessageSound(x))
      /\ \A v \in Tabs : PlaceSound(v)
  BY OwnerAssumption DEF RoomsIInv, PagesTyped
<1>4. a \in Row /\ a.phase = "live" /\ a.msgs = rows[r].msgs
  BY <1>3 DEF Row
<1>5. rows' = [rows EXCEPT ![r] = w]
  BY <1>2 DEF createRoom
<1> HIDE DEF a
<1>6. b \in Row /\ b.phase = "live" /\ b.msgs = rows[r].msgs
  BY <1>3, <1>4 DEF Row
<1> HIDE DEF b
<1>7. w \in Row /\ w.phase = "live" /\ w.msgs = rows[r].msgs /\ w.setting = s
  BY <1>6 DEF Row
<1> HIDE DEF w
<1>8. /\ rows' \in [Rooms -> Row] /\ rows'[r] = w
      /\ \A q \in Rooms : q # r => rows'[q] = rows[q]
  BY <1>3, <1>5, <1>7
<1>9. /\ meant' \in [Rooms -> Setting] /\ meant'[r] = s
      /\ \A q \in Rooms : q # r => meant'[q] = meant[q]
  BY <1>2, <1>3
<1>10. RowsGrow /\ SendsGrow /\ SameTexts /\ OverlapGrows
  <2>1. RowsGrow
    BY <1>1, <1>8 DEF RowsGrow
  <2>2. SameTexts
    BY <1>1, <1>7, <1>8 DEF SameTexts
  <2>3. QED
    BY <1>1, <2>1, <2>2, SendsStay DEF OverlapGrows
<1>11. ASSUME NEW q \in Rooms PROVE RowSound(q)'
  <2>1. CASE q = r
    <3>1. RowSound(r)
      BY <1>3
    <3>2. QED
      BY <1>1, <1>7, <1>8, <1>9, <2>1, <3>1 DEF RowSound
  <2>2. CASE q # r
    BY <1>3, <1>8, <1>9, <1>10, <2>2, RowFrame
  <2>3. QED
    BY <2>1, <2>2
<1>12. \A x \in Texts : MessageSound(x)'
  BY <1>1, <1>3, <1>10, MessageFrame
<1>13. /\ e \in TabState /\ tab' = [tab EXCEPT ![t] = e] /\ e.conn = tab[t].conn
       /\ UnjoinedPage(t) /\ PlaceSound(t)'
       /\ fetches' \subseteq FetchTask /\ \A f \in fetches' : FetchSound(f)'
  BY <1>1, <1>10, OpensStep
<1> HIDE DEF e
<1>14. /\ tab' \in [Tabs -> TabState] /\ tab'[t] = e
       /\ \A v \in Tabs : v # t => tab'[v] = tab[v]
  BY <1>3, <1>13, TabReplaced
<1>15. used' \in [Budgets -> Nat] /\ \A c \in Budgets : used'[c] <= scope'[c]
  BY <1>1, <1>3, Spent DEF Budgets
<1>16. PagesTyped'
  BY <1>1, <1>3, <1>8, <1>9, <1>13, <1>14, <1>15 DEF PagesTyped
<1>17. \A v \in Tabs : RequestSound(v)'
  BY <1>1, <1>10, RequestsStay
<1>18. ASSUME NEW v \in Tabs
       PROVE  /\ PlaceSound(v)' /\ StillOn(v)
              /\ (StillOn(v) /\ SamePage(v)) \/ UnjoinedPage(v)
  <2>1. StillOn(v)
    BY <1>1, <1>13, <1>14 DEF StillOn
  <2>2. v # t => PlaceSound(v)' /\ SamePage(v)
    BY <1>3, <1>10, <1>14, PlaceFrame DEF SamePage
  <2>3. QED
    BY <1>13, <2>1, <2>2
<1>19. \A v \in Tabs : \A j \in ToSet(joins'[v]) : j \in ToSet(joins[v]) /\ StillOn(v)
  BY <1>1, <1>18
<1>20. ChannelSound' /\ RecentsSound' /\ EjectedOnlyFromEnded'
  <2>1. /\ ChannelSound /\ RecentsSound /\ EjectedOnlyFromEnded
        /\ channel \in [Rooms -> SUBSET Tabs]
    BY DEF RoomsIInv, PagesTyped
  <2>2. \A v \in Tabs : tab'[v].conn = tab[v].conn
    BY <1>13, <1>14
  <2>3. ChannelSound'
    BY <1>1, <2>1, <2>2 DEF ChannelSound
  <2>4. QED
    BY <1>1, <2>1, <2>3 DEF RecentsSound, EjectedOnlyFromEnded
<1>21. QED
  BY <1>10, <1>11, <1>12, <1>13, <1>16, <1>17, <1>18, <1>19, <1>20, StepFrame

(* Only messages and requests move on: the pages, their joins and fetches   *)
(* are as they were.                                                        *)
LEMMA ServerStep ==
    ASSUME RoomsIInv, UNCHANGED <<scope, used, tab, channel, fetches, joins>>,
           UNCHANGED <<recents, ejected, ended, overlap>>,
           rows' \in [Rooms -> Row], meant' \in [Rooms -> Setting],
           send' \in [Texts -> Message],
           del' \in [Tabs -> DeleteTask], save' \in [Tabs -> SaveTask],
           RowsGrow, SendsGrow, SameTexts,
           \A r \in Rooms : RowSound(r)', \A x \in Texts : MessageSound(x)',
           \A s \in Tabs : RequestSound(s)'
    PROVE  RoomsIInv'
<1>1. PagesTyped /\ PagesTyped'
  BY DEF RoomsIInv, PagesTyped
<1>2. OverlapGrows
  BY DEF OverlapGrows
<1>3. ASSUME NEW s \in Tabs PROVE StillOn(s) /\ SamePage(s) /\ PlaceSound(s)'
  BY <1>1, PlaceFrame DEF RoomsIInv, StillOn, SamePage
<1>4. \A f \in fetches' : FetchSound(f)'
  BY FetchesSame
<1>5. \A s \in Tabs : \A j \in ToSet(joins'[s]) : j \in ToSet(joins[s]) /\ StillOn(s)
  BY <1>3
<1>6. ChannelSound' /\ RecentsSound' /\ EjectedOnlyFromEnded'
  BY DEF RoomsIInv, ChannelSound, RecentsSound, EjectedOnlyFromEnded
<1>7. QED
  BY <1>1, <1>2, <1>3, <1>4, <1>5, <1>6, StepFrame

LEMMA SendMessageStep ==
    ASSUME RoomsIInv, NEW t \in Tabs, NEW x \in Texts, sendMessage(t, x)
    PROVE  RoomsIInv'
<1> DEFINE c == IF tab[t].conn THEN "sent" ELSE "buffered"
           m == [st |-> c, tab |-> t, room |-> tab[t].room]
<1>1. /\ UNCHANGED <<scope, used, tab, channel, fetches, joins>>
      /\ UNCHANGED <<recents, ejected, ended, overlap>> /\ UNCHANGED <<del, save>>
      /\ rows' = rows /\ meant' = meant /\ Panel(t) /\ send[x].st = "idle"
      /\ send' = [send EXCEPT ![x] = m]
  BY DEF sendMessage, pastVars
<1>2. /\ PagesTyped /\ PlaceSound(t) /\ tab[t] \in TabState /\ send \in [Texts -> Message]
      /\ (\A r \in Rooms : RowSound(r)) /\ (\A y \in Texts : MessageSound(y))
      /\ rows \in [Rooms -> Row] /\ meant \in [Rooms -> Setting]
  BY DEF RoomsIInv, PagesTyped
<1>3. tab[t].room \in Rooms /\ rows[tab[t].room].phase # "unborn"
  BY <1>1, <1>2 DEF PlaceSound, Panel, TabState
<1>4. m \in Message /\ m.st \in {"sent", "buffered"} /\ m.room = tab[t].room
  BY <1>3 DEF Message
<1> HIDE DEF m
<1>5. /\ send' \in [Texts -> Message] /\ send'[x] = m
      /\ \A y \in Texts : y # x => send'[y] = send[y]
  BY <1>1, <1>2, <1>4
<1>6. RowsGrow /\ SendsGrow /\ SameTexts
  <2>1. send[x].st \notin Announced
    BY <1>1 DEF Announced
  <2>2. SendsGrow /\ SameTexts
    BY <1>1, <1>5, <2>1 DEF SendsGrow, SameTexts
  <2>3. QED
    BY <1>1, <2>2, RowsStay
<1>7. \A r \in Rooms : RowSound(r)'
  BY <1>1, <1>2, <1>6, RowFrame
<1>8. ASSUME NEW y \in Texts PROVE MessageSound(y)'
  <2>1. CASE y = x
    BY <1>1, <1>3, <1>4, <1>5, <2>1 DEF MessageSound
  <2>2. CASE y # x
    BY <1>2, <1>5, <1>6, <2>2, MessageFrame
  <2>3. QED
    BY <2>1, <2>2
<1>9. /\ del' \in [Tabs -> DeleteTask] /\ save' \in [Tabs -> SaveTask]
      /\ \A s \in Tabs : RequestSound(s)'
  BY <1>1, <1>6, RequestsStay
<1>10. QED
  BY <1>1, <1>2, <1>5, <1>6, <1>7, <1>8, <1>9, ServerStep

LEMMA ChatLookStep ==
    ASSUME RoomsIInv, NEW x \in Texts, ChatLook(x)
    PROVE  RoomsIInv'
<1> DEFINE m == [send[x] EXCEPT !.st = IF rows[send[x].room].phase = "live" THEN "found" ELSE "done"]
<1>1. /\ UNCHANGED <<scope, used, tab, channel, fetches, joins>>
      /\ UNCHANGED <<recents, ejected, ended, overlap>> /\ UNCHANGED <<del, save>>
      /\ rows' = rows /\ meant' = meant /\ send[x].st = "sent"
      /\ send' = [send EXCEPT ![x] = m]
  BY DEF ChatLook, pastVars
<1>2. /\ PagesTyped /\ send \in [Texts -> Message] /\ send[x] \in Message
      /\ (\A r \in Rooms : RowSound(r)) /\ (\A y \in Texts : MessageSound(y))
      /\ rows \in [Rooms -> Row] /\ meant \in [Rooms -> Setting]
  BY DEF RoomsIInv, PagesTyped
<1>3. send[x].room \in Rooms /\ rows[send[x].room].phase # "unborn"
  BY <1>1, <1>2 DEF MessageSound
<1>4. m \in Message /\ m.st \in {"found", "done"} /\ m.room = send[x].room
  BY <1>2 DEF Message
<1> HIDE DEF m
<1>5. /\ send' \in [Texts -> Message] /\ send'[x] = m
      /\ \A y \in Texts : y # x => send'[y] = send[y]
  BY <1>1, <1>2, <1>4
<1>6. RowsGrow /\ SendsGrow /\ SameTexts
  <2>1. send[x].st \notin Announced
    BY <1>1 DEF Announced
  <2>2. SendsGrow /\ SameTexts
    BY <1>1, <1>5, <2>1 DEF SendsGrow, SameTexts
  <2>3. QED
    BY <1>1, <2>2, RowsStay
<1>7. \A r \in Rooms : RowSound(r)'
  BY <1>1, <1>2, <1>6, RowFrame
<1>8. ASSUME NEW y \in Texts PROVE MessageSound(y)'
  <2>1. CASE y = x
    BY <1>1, <1>3, <1>4, <1>5, <2>1 DEF MessageSound
  <2>2. CASE y # x
    BY <1>2, <1>5, <1>6, <2>2, MessageFrame
  <2>3. QED
    BY <2>1, <2>2
<1>9. /\ del' \in [Tabs -> DeleteTask] /\ save' \in [Tabs -> SaveTask]
      /\ \A s \in Tabs : RequestSound(s)'
  BY <1>1, <1>6, RequestsStay
<1>10. QED
  BY <1>1, <1>2, <1>5, <1>6, <1>7, <1>8, <1>9, ServerStep

(* The fields that came were chosen by somebody.                            *)
LEMMA UpdateRoomStep ==
    ASSUME RoomsIInv, NEW t \in Tabs, updateRoom(t)
    PROVE  RoomsIInv'
<1> DEFINE r == save[t].room
           d == [save[t] EXCEPT !.pc = "ok"]
           n == [save[t] EXCEPT !.pc = "failed"]
           v == [f \in Fields |-> IF f \in save[t].fields THEN save[t].val[f]
                                  ELSE rows[r].setting[f]]
           g == [f \in Fields |-> IF f \in save[t].fields \cap save[t].chosen
                                  THEN save[t].val[f] ELSE meant[r][f]]
           w == [rows[r] EXCEPT !.setting = v]
<1>1. /\ UNCHANGED <<scope, used, tab, channel, fetches, joins>>
      /\ UNCHANGED <<recents, ejected, ended, overlap>> /\ del' = del /\ send' = send
      /\ save[t].pc = "checked"
  BY DEF updateRoom
<1>2. /\ PagesTyped /\ save[t] \in SaveTask /\ r \in Rooms /\ save[t].val \in Setting
      /\ save[t].fields \subseteq save[t].chosen
      /\ rows \in [Rooms -> Row] /\ rows[r] \in Row /\ meant \in [Rooms -> Setting]
      /\ send \in [Texts -> Message]
      /\ (\A q \in Rooms : RowSound(q)) /\ (\A y \in Texts : MessageSound(y))
  BY <1>1 DEF RoomsIInv, PagesTyped, RequestSound
<1>3. /\ d \in SaveTask /\ d.room = r /\ d.val = save[t].val /\ d.fields = save[t].fields
      /\ d.chosen = save[t].chosen
      /\ n \in SaveTask /\ n.room = r /\ n.val = save[t].val /\ n.fields = save[t].fields
      /\ n.chosen = save[t].chosen
  BY <1>2 DEF SaveTask
<1>4. SendsGrow
  BY <1>1, SendsStay
<1>5. CASE save' = [save EXCEPT ![t] = n] /\ UNCHANGED <<rows, meant>>
  <2> HIDE DEF d, n, v, g, w
  <2>1. RowsGrow /\ SameTexts
    BY <1>1, <1>5, RowsStay DEF SameTexts
  <2>2. (\A q \in Rooms : RowSound(q)') /\ \A y \in Texts : MessageSound(y)'
    BY <1>1, <1>2, <1>4, <1>5, <2>1, RowFrame, MessageFrame
  <2>3. /\ del' \in [Tabs -> DeleteTask] /\ save' \in [Tabs -> SaveTask]
        /\ \A s \in Tabs : RequestSound(s)'
    BY <1>1, <1>2, <1>3, <1>5, <2>1, SavePut
  <2>4. QED
    BY <1>1, <1>2, <1>4, <1>5, <2>1, <2>2, <2>3, ServerStep
<1>6. CASE /\ save' = [save EXCEPT ![t] = d] /\ rows' = [rows EXCEPT ![r] = w]
           /\ meant' = [meant EXCEPT ![r] = g]
  <2>1. v \in Setting /\ g = v
    <3>1. rows[r].setting \in Setting /\ meant[r] = rows[r].setting
      BY <1>2 DEF RowSound, Row
    <3>2. v \in Setting
      BY <1>2, <3>1 DEF Setting
    <3>3. g = v
      BY <1>2, <3>1
    <3>4. QED
      BY <3>2, <3>3
  <2> HIDE DEF v, g, d, n
  <2>2. /\ w \in Row /\ w.phase = rows[r].phase /\ w.msgs = rows[r].msgs
        /\ w.parts = rows[r].parts /\ w.setting = v
    BY <1>2, <2>1 DEF Row
  <2> HIDE DEF w, r
  <2>3. /\ rows' \in [Rooms -> Row] /\ rows'[r] = w
        /\ \A q \in Rooms : q # r => rows'[q] = rows[q]
    BY <1>2, <1>6, <2>2
  <2>4. /\ meant' \in [Rooms -> Setting] /\ meant'[r] = v
        /\ \A q \in Rooms : q # r => meant'[q] = meant[q]
    BY <1>2, <1>6, <2>1
  <2>5. \A q \in Rooms : rows'[q].phase = rows[q].phase /\ rows'[q].msgs = rows[q].msgs
    BY <2>2, <2>3
  <2>6. RowsGrow /\ SameTexts
    BY <1>1, <2>5 DEF RowsGrow, SameTexts
  <2>7. ASSUME NEW q \in Rooms PROVE RowSound(q)'
    <3>1. CASE q = r
      <4>1. RowSound(r)
        BY <1>2
      <4>2. QED
        BY <1>1, <2>2, <2>3, <2>4, <3>1, <4>1 DEF RowSound
    <3>2. CASE q # r
      BY <1>2, <1>4, <2>3, <2>4, <3>2, RowFrame
    <3>3. QED
      BY <3>1, <3>2
  <2>8. \A y \in Texts : MessageSound(y)'
    BY <1>1, <1>2, <1>4, <2>6, MessageFrame
  <2>9. /\ del' \in [Tabs -> DeleteTask] /\ save' \in [Tabs -> SaveTask]
        /\ \A s \in Tabs : RequestSound(s)'
    BY <1>1, <1>2, <1>3, <1>6, <2>6, SavePut
  <2>10. QED
    BY <1>1, <1>2, <1>4, <2>3, <2>4, <2>6, <2>7, <2>8, <2>9, ServerStep
<1>7. QED
  <2>1. CASE /\ rows[r].phase = "live"
             /\ rows' = [rows EXCEPT ![r].setting =
                          [f \in Fields |-> IF f \in save[t].fields THEN save[t].val[f] ELSE @[f]]]
             /\ meant' = [meant EXCEPT ![r] =
                             [f \in Fields |-> IF f \in save[t].fields \cap save[t].chosen
                                               THEN save[t].val[f] ELSE @[f]]]
             /\ save' = [save EXCEPT ![t].pc = "ok"]
    BY <1>6, <2>1
  <2>2. CASE save' = [save EXCEPT ![t].pc = "failed"] /\ UNCHANGED <<rows, meant>>
    BY <1>5, <2>2
  <2>3. QED
    BY <2>1, <2>2 DEF updateRoom

(* The transaction's end: the room and its messages go at once, or nothing. *)
LEMMA DeleteRowStep ==
    ASSUME RoomsIInv, NEW t \in Tabs, DeleteRow(t)
    PROVE  RoomsIInv'
<1> DEFINE r == del[t].room
           d == [del[t] EXCEPT !.pc = "ok"]
           n == [del[t] EXCEPT !.pc = "failed"]
           p == [u \in People |-> "none"]
           a == [rows[r] EXCEPT !.phase = "gone"]
           b == [a EXCEPT !.msgs = <<>>]
           w == [b EXCEPT !.parts = p]
<1>1. /\ UNCHANGED <<scope, used, tab, channel, fetches, joins>>
      /\ UNCHANGED <<recents, ejected, ended, overlap>> /\ save' = save /\ send' = send
      /\ meant' = meant /\ del[t].pc = "parts"
  BY DEF DeleteRow, pastVars
<1>2. /\ PagesTyped /\ del[t] \in DeleteTask /\ r \in Rooms
      /\ rows \in [Rooms -> Row] /\ rows[r] \in Row /\ meant \in [Rooms -> Setting]
      /\ send \in [Texts -> Message]
      /\ (\A q \in Rooms : RowSound(q)) /\ (\A y \in Texts : MessageSound(y))
      /\ \A s \in Tabs : PlaceSound(s) /\ ToldSound(s) /\ ChatSound(s)
      /\ \A s \in Tabs : \A j \in ToSet(joins[s]) : /\ JoinSound(s, j) /\ HistorySound(s, j)
                                                    /\ j \in JoinTask
  BY <1>1, JoinsTyped DEF RoomsIInv, PagesTyped, RequestSound
<1>3. /\ d \in DeleteTask /\ d.room = r /\ d.pc = "ok"
      /\ n \in DeleteTask /\ n.room = r /\ n.pc = "failed"
  BY <1>2 DEF DeleteTask
<1>4. SendsGrow
  BY <1>1, SendsStay
<1>5. CASE del' = [del EXCEPT ![t] = n] /\ rows' = rows
  <2> HIDE DEF d, n, w
  <2>1. RowsGrow /\ SameTexts
    BY <1>1, <1>5, RowsStay DEF SameTexts
  <2>2. (\A q \in Rooms : RowSound(q)') /\ \A y \in Texts : MessageSound(y)'
    BY <1>1, <1>2, <1>4, <1>5, <2>1, RowFrame, MessageFrame
  <2>3. /\ del' \in [Tabs -> DeleteTask] /\ save' \in [Tabs -> SaveTask]
        /\ \A s \in Tabs : RequestSound(s)'
    BY <1>1, <1>2, <1>3, <1>5, <2>1, DeletePut
  <2>4. QED
    BY <1>1, <1>2, <1>4, <1>5, <2>1, <2>2, <2>3, ServerStep
<1>6. CASE /\ rows[r].phase = "live" /\ rows' = [rows EXCEPT ![r] = w]
           /\ del' = [del EXCEPT ![t] = d]
  <2>1. p \in [People -> {"none", "in", "out"}] /\ (\A u \in People : p[u] = "none")
        /\ <<>> \in Seq(Texts)
    OBVIOUS
  <2> HIDE DEF p, d, n
  <2>2. a \in Row /\ a.phase = "gone" /\ a.setting = rows[r].setting
    BY <1>2 DEF Row
  <2> HIDE DEF a
  <2>3. b \in Row /\ b.phase = "gone" /\ b.setting = rows[r].setting /\ b.msgs = <<>>
    BY <2>1, <2>2 DEF Row
  <2> HIDE DEF b
  <2>4. /\ w \in Row /\ w.phase = "gone" /\ w.setting = rows[r].setting /\ w.msgs = <<>>
        /\ w.parts = p
    BY <2>1, <2>3 DEF Row
  <2> HIDE DEF w, r
  <2>5. /\ rows' \in [Rooms -> Row] /\ rows'[r] = w
        /\ \A q \in Rooms : q # r => rows'[q] = rows[q]
    BY <1>2, <1>6, <2>4
  <2>6. RowsGrow
    BY <1>6, <2>4, <2>5 DEF RowsGrow
  <2>7. ToSet(<<>>) = {} /\ IsInjective(<<>>)
    BY DEF ToSet, IsInjective
  <2>8. ASSUME NEW q \in Rooms PROVE RowSound(q)'
    <3>1. CASE q = r
      BY <1>1, <1>2, <2>1, <2>4, <2>5, <2>7, <3>1 DEF RowSound
    <3>2. CASE q # r
      BY <1>1, <1>2, <1>4, <2>5, <3>2, RowFrame
    <3>3. QED
      BY <3>1, <3>2
  <2>9. \A y \in Texts : MessageSound(y)'
    BY <1>1, <1>2, <1>4, <2>6, MessageFrame
  <2>10. /\ del' \in [Tabs -> DeleteTask] /\ save' \in [Tabs -> SaveTask]
         /\ \A s \in Tabs : RequestSound(s)'
    BY <1>1, <1>2, <1>3, <1>6, <2>4, <2>5, <2>6, DeletePut
  <2>11. PagesTyped'
    BY <1>1, <1>2, <2>5, <2>10 DEF PagesTyped
  <2>12. ASSUME NEW s \in Tabs
         PROVE  StillOn(s) /\ SamePage(s) /\ PlaceSound(s)' /\ ToldSound(s)'
    <3>1. StillOn(s) /\ SamePage(s)
      BY <1>1 DEF StillOn, SamePage
    <3>2. PlaceSound(s)'
      BY <1>1, <1>2, <2>6, PlaceFrame
    <3>3. ToldSound(s)'
      BY <1>2, <1>4, <2>6, <3>1, ToldFrame
    <3>4. QED
      BY <3>1, <3>2, <3>3
  <2>13. ASSUME NEW s \in Tabs PROVE ChatSound(s)'
    <3>1. SUFFICES ASSUME tab[s].joined PROVE ChatSound(s)'
      BY <1>1 DEF ChatSound
    <3>2. CASE tab[s].room = r
      BY <1>1, <2>4, <2>5, <2>7, <3>2 DEF ChatSound
    <3>3. CASE tab[s].room # r
      <4>1. tab[s].room \in Rooms
        BY <1>2, <3>1 DEF ToldSound, Panel, PlaceSound, PagesTyped, TabState
      <4>2. rows'[tab[s].room] = rows[tab[s].room]
        BY <2>5, <3>3, <4>1
      <4>3. ChatSound(s)
        BY <1>2
      <4>4. QED
        BY <1>1, <4>2, <4>3 DEF ChatSound
    <3>4. QED
      BY <3>2, <3>3
  <2>14. ASSUME NEW s \in Tabs, NEW j \in ToSet(joins'[s])
         PROVE  JoinSound(s, j)' /\ HistorySound(s, j)'
    <3>1. j \in JoinTask /\ JoinSound(s, j) /\ HistorySound(s, j) /\ j.room \in Rooms
      BY <1>1, <1>2 DEF JoinTask
    <3>2. JoinSound(s, j)'
      BY <1>2, <1>4, <2>6, <2>12, <3>1, JoinFrame
    <3>3. CASE j.room = r
      <4>1. j.pc = "emit" => IsInjective(j.hist)
        BY <3>1 DEF HistorySound
      <4>2. QED
        BY <2>4, <2>5, <2>7, <3>2, <3>3, <4>1 DEF HistorySound
    <3>4. CASE j.room # r
      <4>1. rows'[j.room] = rows[j.room]
        BY <2>5, <3>1, <3>4
      <4>2. QED
        BY <1>1, <3>1, <3>2, <4>1 DEF HistorySound
    <3>5. QED
      BY <3>3, <3>4
  <2>15. \A f \in fetches' : FetchSound(f)'
    BY <1>1, <2>6, FetchesSame
  <2>16. ChannelSound' /\ RecentsSound' /\ EjectedOnlyFromEnded'
    BY <1>1 DEF RoomsIInv, ChannelSound, RecentsSound, EjectedOnlyFromEnded
  <2>17. QED
    BY <1>1, <2>8, <2>9, <2>10, <2>11, <2>12, <2>13, <2>14, <2>15, <2>16 DEF RoomsIInv
<1>7. QED
  BY <1>5, <1>6 DEF DeleteRow

-----------------------------------------------------------------------------
(* The steps of the socket.                                                 *)

(* What is lost or sent of a tab's messages is nothing that was announced.  *)
LEMMA WireStep ==
    ASSUME RoomsIInv, NEW t \in Tabs, NEW a \in {"sent", "buffered"}, NEW b \in {"lost", "sent"},
           send' = [x \in Texts |-> IF send[x].tab = t /\ send[x].st = a
                                    THEN [send[x] EXCEPT !.st = b] ELSE send[x]],
           RowsGrow
    PROVE  /\ send' \in [Texts -> Message] /\ SendsGrow
           /\ \A x \in Texts : send[x].st \in Announced => send'[x].st = send[x].st
           /\ \A x \in Texts : MessageSound(x)'
<1>1. /\ send \in [Texts -> Message] /\ \A x \in Texts : MessageSound(x)
  BY DEF RoomsIInv, PagesTyped
<1>2. a \notin Announced /\ b # "idle" /\ a # "idle" /\ b # "saved"
  BY DEF Announced
<1>3. ASSUME NEW x \in Texts
      PROVE  /\ send'[x] \in Message /\ send'[x].room = send[x].room
             /\ send'[x] = send[x] \/ (send[x].st = a /\ send'[x].st = b)
  <2>1. send[x] \in Message
    BY <1>1
  <2>2. CASE send[x].tab = t /\ send[x].st = a
    <3>1. send'[x] = [send[x] EXCEPT !.st = b]
      BY <2>2
    <3>2. PICK m : m = [send[x] EXCEPT !.st = b]
      OBVIOUS
    <3>3. m \in Message /\ m.st = b /\ m.room = send[x].room
      BY <2>1, <3>2 DEF Message
    <3>4. QED
      BY <2>2, <3>1, <3>2, <3>3
  <2>3. CASE ~(send[x].tab = t /\ send[x].st = a)
    BY <2>1, <2>3
  <2>4. QED
    BY <2>2, <2>3
<1>4. send' \in [Texts -> Message]
  BY <1>3
<1>5. \A x \in Texts : send[x].st \in Announced => send'[x].st = send[x].st
  BY <1>2, <1>3
<1>6. SendsGrow
  BY <1>3, <1>5 DEF SendsGrow
<1>7. ASSUME NEW x \in Texts PROVE MessageSound(x)'
  <2>1. CASE send'[x] = send[x]
    BY <1>1, <1>6, <2>1, MessageFrame
  <2>2. CASE send[x].st = a /\ send'[x].st = b
    BY <1>1, <1>2, <1>3, <2>2 DEF MessageSound, RowsGrow
  <2>3. QED
    BY <1>3, <2>1, <2>2
<1>8. QED
  BY <1>4, <1>5, <1>6, <1>7

(* Who is in a room is not what a row is sound for, as long as it is there. *)
LEMMA LoseConnectionStep ==
    ASSUME RoomsIInv, NEW t \in Tabs, LoseConnection(t)
    PROVE  RoomsIInv'
<1> DEFINE r == tab[t].last
           u == OwnerOf[t]
           a == [tab[t] EXCEPT !.conn = FALSE]
           b == [a EXCEPT !.joined = FALSE]
           e == [b EXCEPT !.last = NoRoom]
           q == [k \in DOMAIN joins[t] |-> [joins[t][k] EXCEPT !.live = FALSE]]
<1>1. /\ Spend("drops") /\ scope' = scope
      /\ UNCHANGED <<fetches, del, save, recents, ejected, ended, meant, overlap>>
      /\ tab' = [tab EXCEPT ![t] = e]
      /\ channel' = [p \in Rooms |-> channel[p] \ {t}]
      /\ joins' = [joins EXCEPT ![t] = q]
      /\ send' = [x \in Texts |-> IF send[x].tab = t /\ send[x].st = "sent"
                                  THEN [send[x] EXCEPT !.st = "lost"] ELSE send[x]]
      /\ rows' = [p \in Rooms |-> IF p = r /\ rows[p].parts[u] = "in"
                                  THEN [rows[p] EXCEPT !.parts[u] = "out"] ELSE rows[p]]
  BY DEF LoseConnection, pastVars
<1>2. /\ PagesTyped /\ tab[t] \in TabState /\ rows \in [Rooms -> Row] /\ u \in People
      /\ channel \in [Rooms -> SUBSET Tabs] /\ joins \in [Tabs -> Seq(JoinTask)]
      /\ joins[t] \in Seq(JoinTask) /\ ChannelSound
      /\ (\A p \in Rooms : RowSound(p)) /\ (\A x \in Texts : MessageSound(x))
      /\ (\A s \in Tabs : PlaceSound(s)) /\ meant \in [Rooms -> Setting]
  BY OwnerAssumption DEF RoomsIInv, PagesTyped
<1>3. a \in TabState /\ a.conn = FALSE /\ a.where = tab[t].where /\ a.room = tab[t].room
      /\ a.shown = tab[t].shown /\ a.form = tab[t].form /\ a.chat = tab[t].chat
  BY <1>2 DEF TabState
<1> HIDE DEF a
<1>4. b \in TabState /\ b.conn = FALSE /\ b.where = tab[t].where /\ b.room = tab[t].room
      /\ b.shown = tab[t].shown /\ b.form = tab[t].form /\ b.chat = tab[t].chat
      /\ b.joined = FALSE
  BY <1>3 DEF TabState
<1> HIDE DEF b
<1>5. e \in TabState /\ e.conn = FALSE /\ e.where = tab[t].where /\ e.room = tab[t].room
      /\ e.shown = tab[t].shown /\ e.form = tab[t].form /\ e.chat = tab[t].chat
      /\ e.joined = FALSE
  BY <1>4 DEF TabState
<1> HIDE DEF e
<1>6. /\ tab' \in [Tabs -> TabState] /\ tab'[t] = e
      /\ \A s \in Tabs : s # t => tab'[s] = tab[s]
  BY <1>1, <1>2, <1>5, TabReplaced
<1>7. /\ rows' \in [Rooms -> Row]
      /\ \A p \in Rooms : /\ rows'[p].phase = rows[p].phase /\ rows'[p].msgs = rows[p].msgs
                          /\ rows'[p].setting = rows[p].setting
                          /\ rows'[p] = rows[p] \/ rows[p].parts[u] = "in"
  <2>1. ASSUME NEW p \in Rooms
        PROVE  /\ rows'[p] \in Row
               /\ rows'[p].phase = rows[p].phase /\ rows'[p].msgs = rows[p].msgs
               /\ rows'[p].setting = rows[p].setting
               /\ rows'[p] = rows[p] \/ rows[p].parts[u] = "in"
    <3>1. rows[p] \in Row
      BY <1>2
    <3>2. CASE p = r /\ rows[p].parts[u] = "in"
      <4> DEFINE l == [rows[p].parts EXCEPT ![u] = "out"]
      <4>1. rows'[p] = [rows[p] EXCEPT !.parts = l]
        BY <1>1, <3>2
      <4>2. l \in [People -> {"none", "in", "out"}]
        BY <1>2, <3>1 DEF Row
      <4>3. PICK w : w = [rows[p] EXCEPT !.parts = l]
        OBVIOUS
      <4> HIDE DEF l
      <4>4. /\ w \in Row /\ w.phase = rows[p].phase /\ w.msgs = rows[p].msgs
            /\ w.setting = rows[p].setting
        BY <3>1, <4>2, <4>3 DEF Row
      <4>5. QED
        BY <3>2, <4>1, <4>3, <4>4
    <3>3. CASE ~(p = r /\ rows[p].parts[u] = "in")
      <4>1. rows'[p] = rows[p]
        BY <1>1, <3>3
      <4>2. QED
        BY <3>1, <4>1
    <3>4. QED
      BY <3>2, <3>3
  <2>2. QED
    BY <1>1, <2>1
<1>8. RowsGrow
  BY <1>7 DEF RowsGrow
<1>9. /\ send' \in [Texts -> Message] /\ SendsGrow
      /\ \A x \in Texts : send[x].st \in Announced => send'[x].st = send[x].st
      /\ \A x \in Texts : MessageSound(x)'
  BY <1>1, <1>8, WireStep
<1>10. SameTexts /\ OverlapGrows
  BY <1>1, <1>7, <1>9 DEF SameTexts, OverlapGrows
<1>11. ASSUME NEW p \in Rooms PROVE RowSound(p)'
  <2>1. CASE rows'[p] = rows[p]
    BY <1>1, <1>2, <1>9, <2>1, RowFrame
  <2>2. CASE rows[p].parts[u] = "in"
    <3>1. RowSound(p) /\ rows[p].phase # "gone"
      BY <1>2, <2>2 DEF RowSound
    <3>2. \A x \in ToSet(rows[p].msgs) : send'[x].st \in Announced /\ send'[x].room = p
      <4>1. rows[p].msgs \in Seq(Texts)
        BY <1>2 DEF Row
      <4>2. \A x \in ToSet(rows[p].msgs) : x \in Texts
        BY <4>1 DEF ToSet
      <4>3. QED
        BY <1>9, <3>1, <4>2 DEF SendsGrow, RowSound
    <3>3. QED
      BY <1>1, <1>7, <3>1, <3>2 DEF RowSound
  <2>3. QED
    BY <1>7, <2>1, <2>2
<1>12. used' \in [Budgets -> Nat] /\ \A c \in Budgets : used'[c] <= scope'[c]
  BY <1>1, <1>2, Spent DEF Budgets
<1>13. /\ q \in Seq(JoinTask)
       /\ \A j \in ToSet(q) : /\ j.live = FALSE /\ j \in JoinTask
                              /\ \E i \in ToSet(joins[t]) : /\ j.pc = i.pc /\ j.room = i.room
                                                            /\ j.hist = i.hist
  <2>1. DOMAIN joins[t] = 1..Len(joins[t]) /\ Len(joins[t]) \in Nat
    BY <1>2, LenProperties
  <2>2. ASSUME NEW k \in DOMAIN joins[t]
        PROVE  /\ q[k] \in JoinTask /\ q[k].live = FALSE /\ q[k].pc = joins[t][k].pc
               /\ q[k].room = joins[t][k].room /\ q[k].hist = joins[t][k].hist
    <3>1. joins[t][k] \in JoinTask
      BY <1>2
    <3>2. q[k] = [joins[t][k] EXCEPT !.live = FALSE]
      OBVIOUS
    <3> HIDE DEF q
    <3>3. PICK i : i = joins[t][k]
      OBVIOUS
    <3>4. q[k] = [i EXCEPT !.live = FALSE] /\ i \in JoinTask
      BY <3>1, <3>2, <3>3
    <3>5. QED
      BY <3>3, <3>4 DEF JoinTask
  <2>3. DOMAIN q = 1..Len(joins[t]) /\ q = [k \in 1..Len(joins[t]) |-> q[k]]
    BY <2>1
  <2> HIDE DEF q
  <2>4. q \in [1..Len(joins[t]) -> JoinTask]
    BY <2>1, <2>2, <2>3
  <2>5. q \in Seq(JoinTask)
    BY <2>1, <2>4, SeqDef
  <2>6. ASSUME NEW j \in ToSet(q)
        PROVE  /\ j.live = FALSE /\ j \in JoinTask
               /\ \E i \in ToSet(joins[t]) : j.pc = i.pc /\ j.room = i.room /\ j.hist = i.hist
    <3>1. PICK k \in DOMAIN joins[t] : j = q[k]
      BY <2>1, <2>3 DEF ToSet
    <3>2. joins[t][k] \in ToSet(joins[t])
      BY DEF ToSet
    <3>3. QED
      BY <2>2, <3>1, <3>2
  <2>7. QED
    BY <2>5, <2>6
<1> HIDE DEF q
<1>14. /\ joins' \in [Tabs -> Seq(JoinTask)] /\ joins'[t] = q
       /\ \A s \in Tabs : s # t => joins'[s] = joins[s]
  BY <1>1, <1>2, <1>13
<1>15. /\ channel' \in [Rooms -> SUBSET Tabs]
       /\ \A p \in Rooms : t \notin channel'[p]
       /\ \A s \in Tabs : s # t => \A p \in Rooms : s \in channel[p] <=> s \in channel'[p]
  BY <1>1, <1>2
<1>16. PagesTyped'
  BY <1>1, <1>2, <1>6, <1>7, <1>9, <1>12, <1>14, <1>15 DEF PagesTyped
<1>17. ASSUME NEW s \in Tabs
       PROVE  /\ PlaceSound(s)' /\ (s # t => StillOn(s))
              /\ (StillOn(s) /\ SamePage(s)) \/ UnjoinedPage(s)
  <2>1. CASE s = t
    <3>1. UnjoinedPage(t)
      BY <1>5, <1>6 DEF UnjoinedPage
    <3>2. PlaceSound(t) /\ (tab[t].shown # NoSetting => tab[t].room \in Rooms)
      BY <1>2 DEF PlaceSound, TabState
    <3>3. PlaceSound(t)'
      BY <1>5, <1>6, <1>8, <3>2 DEF PlaceSound, RowsGrow
    <3>4. QED
      BY <2>1, <3>1, <3>3
  <2>2. CASE s # t
    <3>1. StillOn(s) /\ SamePage(s)
      BY <1>6, <1>15, <2>2 DEF StillOn, SamePage
    <3>2. PlaceSound(s)'
      BY <1>2, <1>6, <1>8, <2>2, PlaceFrame
    <3>3. QED
      BY <3>1, <3>2
  <2>3. QED
    BY <2>1, <2>2
<1>18. ASSUME NEW s \in Tabs, NEW j \in ToSet(joins'[s])
       PROVE  \/ j \in ToSet(joins[s]) /\ StillOn(s)
              \/ JoinSound(s, j)' /\ HistorySound(s, j)'
  <2>1. CASE s # t
    BY <1>14, <1>17, <2>1
  <2>2. CASE s = t
    <3>1. PICK i \in ToSet(joins[t]) : j.pc = i.pc /\ j.room = i.room /\ j.hist = i.hist
      BY <1>13, <1>14, <2>2
    <3>2. j.live = FALSE /\ i \in JoinTask /\ JoinSound(t, i) /\ HistorySound(t, i)
      BY <1>2, <1>13, <1>14, <2>2, JoinsTyped DEF RoomsIInv
    <3>3. HistorySound(t, i)'
      BY <1>2, <1>10, <3>2, HistoryFrame
    <3>4. HistorySound(t, j)'
      BY <3>1, <3>3 DEF HistorySound
    <3>5. \A x \in ToSet(j.hist) : x \in Texts /\ Kept(x)
      <4>1. i.hist \in Seq(Texts)
        BY <3>2 DEF JoinTask
      <4>2. QED
        BY <3>1, <3>2, <4>1 DEF JoinSound, ToSet
    <3>6. \A x \in ToSet(j.hist) : Kept(x)'
      BY <1>2, <1>8, <1>9, <3>5, KeptStays
    <3>7. JoinSound(t, j)'
      BY <3>2, <3>6 DEF JoinSound
    <3>8. QED
      BY <2>2, <3>4, <3>7
  <2>3. QED
    BY <2>1, <2>2
<1>19. \A f \in fetches' : FetchSound(f)'
  <2>1. \A s \in Tabs : tab'[s].where = tab[s].where /\ tab'[s].room = tab[s].room
    BY <1>5, <1>6
  <2>2. QED
    BY <1>1, <1>8, <2>1, FetchesUnchanged
<1>20. \A s \in Tabs : RequestSound(s)'
  BY <1>1, <1>8, RequestsStay
<1>21. ChannelSound'
  <2>1. ASSUME NEW p \in Rooms, NEW s \in channel'[p] PROVE tab'[s].conn
    <3>1. s \in Tabs /\ s # t /\ s \in channel[p]
      BY <1>15, <2>1
    <3>2. QED
      BY <1>2, <1>6, <3>1 DEF ChannelSound
  <2>2. QED
    BY <2>1 DEF ChannelSound
<1>22. RecentsSound' /\ EjectedOnlyFromEnded'
  BY <1>1 DEF RoomsIInv, RecentsSound, EjectedOnlyFromEnded
<1>23. QED
  BY <1>8, <1>9, <1>10, <1>11, <1>16, <1>17, <1>18, <1>19, <1>20, <1>21, <1>22, StepFrame

LEMMA ReconnectStep ==
    ASSUME RoomsIInv, NEW t \in Tabs, Reconnect(t)
    PROVE  RoomsIInv'
<1> DEFINE n == JoinOf(tab[t].room)
           e == [tab[t] EXCEPT !.conn = TRUE]
           q == IF tab[t].shown # NoSetting THEN Append(joins[t], n) ELSE joins[t]
<1>1. /\ UNCHANGED <<scope, used, rows, meant, channel, overlap>>
      /\ UNCHANGED <<fetches, del, save, recents, ejected, ended>>
      /\ tab' = [tab EXCEPT ![t] = e] /\ joins' = [joins EXCEPT ![t] = q]
      /\ send' = [x \in Texts |-> IF send[x].tab = t /\ send[x].st = "buffered"
                                  THEN [send[x] EXCEPT !.st = "sent"] ELSE send[x]]
  BY DEF Reconnect, pastVars
<1>2. /\ PagesTyped /\ tab[t] \in TabState /\ joins \in [Tabs -> Seq(JoinTask)]
      /\ joins[t] \in Seq(JoinTask) /\ ChannelSound /\ channel \in [Rooms -> SUBSET Tabs]
      /\ (\A p \in Rooms : RowSound(p)) /\ (\A s \in Tabs : PlaceSound(s))
  BY DEF RoomsIInv, PagesTyped
<1>3. /\ e \in TabState /\ e.conn = TRUE /\ e.where = tab[t].where /\ e.room = tab[t].room
      /\ e.shown = tab[t].shown /\ e.form = tab[t].form /\ e.chat = tab[t].chat
      /\ e.joined = tab[t].joined
  BY <1>2 DEF TabState
<1> HIDE DEF e
<1>4. /\ tab' \in [Tabs -> TabState] /\ tab'[t] = e
      /\ \A s \in Tabs : s # t => tab'[s] = tab[s]
  BY <1>1, <1>2, <1>3, TabReplaced
<1>5. PICK g : g = n
  OBVIOUS
<1>6. tab[t].shown # NoSetting => g \in JoinTask
  <2>1. tab[t].shown # NoSetting => tab[t].room \in Rooms
    BY <1>2 DEF PlaceSound, TabState
  <2>2. QED
    BY <1>5, <2>1 DEF JoinOf, JoinTask
<1>7. g.pc = "look" /\ g.hist = <<>>
  BY <1>5 DEF JoinOf
<1> HIDE DEF n
<1>8. q \in Seq(JoinTask) /\ ToSet(q) \subseteq ToSet(joins[t]) \cup {g}
  BY <1>2, <1>5, <1>6, AppendedSet
<1> HIDE DEF q
<1>9. /\ joins' \in [Tabs -> Seq(JoinTask)] /\ joins'[t] = q
      /\ \A s \in Tabs : s # t => joins'[s] = joins[s]
  BY <1>1, <1>2, <1>8
<1>10. RowsGrow
  BY <1>1, RowsStay
<1>11. /\ send' \in [Texts -> Message] /\ SendsGrow
       /\ \A x \in Texts : send[x].st \in Announced => send'[x].st = send[x].st
       /\ \A x \in Texts : MessageSound(x)'
  BY <1>1, <1>10, WireStep
<1>12. SameTexts /\ OverlapGrows
  BY <1>1, <1>11 DEF SameTexts, OverlapGrows
<1>13. \A p \in Rooms : RowSound(p)'
  BY <1>1, <1>2, <1>11, RowFrame
<1>14. PagesTyped'
  BY <1>1, <1>2, <1>4, <1>9, <1>11 DEF PagesTyped
<1>15. ASSUME NEW s \in Tabs PROVE PlaceSound(s)' /\ StillOn(s) /\ SamePage(s)
  <2>1. StillOn(s)
    BY <1>1, <1>3, <1>4 DEF StillOn
  <2>2. SamePage(s)
    BY <1>3, <1>4 DEF SamePage
  <2>3. PlaceSound(t)'
    BY <1>1, <1>2, <1>3, <1>4 DEF PlaceSound
  <2>4. s # t => PlaceSound(s)'
    BY <1>2, <1>4, <1>10, PlaceFrame
  <2>5. QED
    BY <2>1, <2>2, <2>3, <2>4
<1>16. ASSUME NEW s \in Tabs, NEW j \in ToSet(joins'[s])
       PROVE  \/ j \in ToSet(joins[s]) /\ StillOn(s)
              \/ JoinSound(s, j)' /\ HistorySound(s, j)'
  <2>1. CASE j \in ToSet(joins[s])
    BY <1>15, <2>1
  <2>2. CASE j \notin ToSet(joins[s])
    <3>1. s = t /\ j = g
      BY <1>8, <1>9, <2>2
    <3>2. ToSet(<<>>) = {}
      BY DEF ToSet
    <3>3. JoinSound(s, j)' /\ HistorySound(s, j)'
      BY <1>3, <1>4, <1>7, <3>1, <3>2 DEF JoinSound, HistorySound
    <3>4. QED
      BY <3>3
  <2>3. QED
    BY <2>1, <2>2
<1>17. \A f \in fetches' : FetchSound(f)'
  <2>1. \A s \in Tabs : tab'[s].where = tab[s].where /\ tab'[s].room = tab[s].room
    BY <1>3, <1>4
  <2>2. QED
    BY <1>1, <1>10, <2>1, FetchesUnchanged
<1>18. \A s \in Tabs : RequestSound(s)'
  BY <1>1, <1>10, RequestsStay
<1>19. ChannelSound' /\ RecentsSound' /\ EjectedOnlyFromEnded'
  <2>1. \A s \in Tabs : tab[s].conn => tab'[s].conn
    BY <1>3, <1>4
  <2>2. ChannelSound'
    BY <1>1, <1>2, <2>1 DEF ChannelSound
  <2>3. QED
    BY <1>1, <2>2 DEF RoomsIInv, RecentsSound, EjectedOnlyFromEnded
<1>20. QED
  BY <1>10, <1>11, <1>12, <1>13, <1>14, <1>15, <1>16, <1>17, <1>18, <1>19, StepFrame

-----------------------------------------------------------------------------
(* The steps of a message: saved, then told.                                *)

(* A saved message is new to every page, and meets the histories on their   *)
(* way.                                                                     *)
LEMMA ChatSaveStep ==
    ASSUME RoomsIInv, NEW x \in Texts, ChatSave(x)
    PROVE  RoomsIInv'
<1> DEFINE r == send[x].room
           d == [send[x] EXCEPT !.st = "done"]
           n == [send[x] EXCEPT !.st = "saved"]
           l == Append(rows[r].msgs, x)
           w == [rows[r] EXCEPT !.msgs = l]
<1>1. /\ UNCHANGED <<scope, used, tab, channel, fetches, joins>>
      /\ UNCHANGED <<recents, ejected, ended>> /\ UNCHANGED <<del, save>>
      /\ meant' = meant /\ send[x].st = "found"
  BY DEF ChatSave
<1>2. /\ PagesTyped /\ send \in [Texts -> Message] /\ send[x] \in Message
      /\ (\A p \in Rooms : RowSound(p)) /\ (\A y \in Texts : MessageSound(y))
      /\ rows \in [Rooms -> Row] /\ meant \in [Rooms -> Setting]
      /\ overlap \in [Tabs -> SUBSET Texts]
      /\ (\A s \in Tabs : PlaceSound(s) /\ ToldSound(s) /\ ChatSound(s))
      /\ \A s \in Tabs : \A j \in ToSet(joins[s]) : /\ JoinSound(s, j) /\ HistorySound(s, j)
                                                    /\ j \in JoinTask
  BY JoinsTyped DEF RoomsIInv, PagesTyped
<1>3. /\ r \in Rooms /\ rows[r].phase # "unborn" /\ send[x].st \notin Announced
      /\ rows[r] \in Row
  BY <1>1, <1>2 DEF MessageSound, Announced
<1>4. /\ d \in Message /\ d.st = "done" /\ d.room = r
      /\ n \in Message /\ n.st = "saved" /\ n.room = r
  BY <1>2 DEF Message
<1>5. CASE send' = [send EXCEPT ![x] = d] /\ UNCHANGED <<rows, overlap>> /\ rows[r].phase = "gone"
  <2> HIDE DEF d, n, l, w
  <2>1. /\ send' \in [Texts -> Message] /\ send'[x] = d
        /\ \A y \in Texts : y # x => send'[y] = send[y]
    BY <1>2, <1>4, <1>5
  <2>2. RowsGrow /\ SendsGrow /\ SameTexts
    <3>1. SendsGrow /\ SameTexts
      BY <1>3, <1>5, <2>1 DEF SendsGrow, SameTexts
    <3>2. QED
      BY <1>5, <3>1, RowsStay
  <2>3. \A p \in Rooms : RowSound(p)'
    BY <1>1, <1>2, <1>5, <2>2, RowFrame
  <2>4. ASSUME NEW y \in Texts PROVE MessageSound(y)'
    <3>1. CASE y = x
      BY <1>3, <1>4, <1>5, <2>1, <3>1 DEF MessageSound
    <3>2. CASE y # x
      BY <1>2, <2>1, <2>2, <3>2, MessageFrame
    <3>3. QED
      BY <3>1, <3>2
  <2>5. /\ del' \in [Tabs -> DeleteTask] /\ save' \in [Tabs -> SaveTask]
        /\ \A s \in Tabs : RequestSound(s)'
    BY <1>1, <2>2, RequestsStay
  <2>6. QED
    BY <1>1, <1>2, <1>5, <2>1, <2>2, <2>3, <2>4, <2>5, ServerStep
<1>6. CASE /\ rows[r].phase = "live" /\ rows' = [rows EXCEPT ![r] = w]
           /\ send' = [send EXCEPT ![x] = n]
           /\ overlap' = [t \in Tabs |-> IF \E k \in DOMAIN joins[t] : joins[t][k].pc = "emit"
                                         THEN overlap[t] \cup {x} ELSE overlap[t]]
  <2> HIDE DEF d, n
  <2>1. /\ send' \in [Texts -> Message] /\ send'[x] = n
        /\ \A y \in Texts : y # x => send'[y] = send[y]
    BY <1>2, <1>4, <1>6
  <2>2. SendsGrow
    BY <1>3, <2>1 DEF SendsGrow
  <2>3. rows[r].msgs \in Seq(Texts) /\ IsInjective(rows[r].msgs) /\ x \notin ToSet(rows[r].msgs)
    BY <1>2, <1>3 DEF Row, RowSound
  <2>4. /\ l \in Seq(Texts) /\ IsInjective(l) /\ ToSet(l) = ToSet(rows[r].msgs) \cup {x}
        /\ ToSet(History(l)) \subseteq ToSet(History(rows[r].msgs)) \cup {x}
    BY <2>3, AppendedSet, HistoryMoves
  <2> HIDE DEF l
  <2>5. /\ w \in Row /\ w.phase = rows[r].phase /\ w.setting = rows[r].setting /\ w.msgs = l
        /\ w.parts = rows[r].parts
    BY <1>3, <2>4 DEF Row
  <2> HIDE DEF w
  <2>6. PICK q : q = r
    OBVIOUS
  <2>7. /\ rows' \in [Rooms -> Row] /\ rows'[q] = w
        /\ \A p \in Rooms : p # q => rows'[p] = rows[p]
    <3>1. rows' = [rows EXCEPT ![q] = w] /\ q \in Rooms
      BY <1>3, <1>6, <2>6
    <3>2. QED
      BY <1>2, <2>5, <3>1
  <2>8. /\ rows'[q].phase = "live" /\ rows'[q].setting = rows[q].setting
        /\ rows'[q].msgs = l /\ rows[q].phase = "live" /\ q \in Rooms
        /\ send[x].room = q /\ send'[x].room = q /\ send'[x].st = "saved"
        /\ IsInjective(l) /\ ToSet(l) = ToSet(rows[q].msgs) \cup {x} /\ x \notin ToSet(rows[q].msgs)
        /\ ToSet(History(l)) \subseteq ToSet(History(rows[q].msgs)) \cup {x}
    BY <1>3, <1>4, <1>6, <2>1, <2>3, <2>4, <2>5, <2>6, <2>7
  <2> HIDE DEF r
  <2>9. RowsGrow
    BY <2>7, <2>8 DEF RowsGrow
  <2>10. ASSUME NEW p \in Rooms PROVE RowSound(p)'
    <3>1. CASE p = q
      <4>1. RowSound(q)
        BY <2>8, <1>2
      <4>2. \A y \in ToSet(l) : send'[y].st \in Announced /\ send'[y].room = q
        <5>1. rows[q].msgs \in Seq(Texts)
          BY <1>2, <2>8 DEF Row
        <5>2. \A y \in ToSet(rows[q].msgs) : y \in Texts
          BY <5>1 DEF ToSet
        <5>3. "saved" \in Announced
          BY DEF Announced
        <5>4. QED
          BY <2>2, <2>8, <4>1, <5>2, <5>3 DEF SendsGrow, RowSound
      <4>3. QED
        BY <1>1, <2>8, <3>1, <4>1, <4>2 DEF RowSound
    <3>2. CASE p # q
      BY <1>1, <1>2, <2>2, <2>7, <3>2, RowFrame
    <3>3. QED
      BY <3>1, <3>2
  <2>11. ASSUME NEW y \in Texts PROVE MessageSound(y)'
    <3>1. CASE y = x
      BY <2>8, <3>1 DEF MessageSound, Kept, Announced
    <3>2. CASE y # x
      BY <1>2, <2>1, <2>2, <2>9, <3>2, MessageFrame
    <3>3. QED
      BY <3>1, <3>2
  <2>12. /\ overlap' \in [Tabs -> SUBSET Texts] /\ OverlapGrows
         /\ \A s \in Tabs : \A j \in ToSet(joins[s]) : j.pc = "emit" => x \in overlap'[s]
    <3>1. overlap' \in [Tabs -> SUBSET Texts] /\ OverlapGrows
      BY <1>2, <1>6 DEF OverlapGrows
    <3>2. ASSUME NEW s \in Tabs, NEW j \in ToSet(joins[s]), j.pc = "emit"
          PROVE  x \in overlap'[s]
      <4>1. PICK k \in DOMAIN joins[s] : joins[s][k] = j
        BY DEF ToSet
      <4>2. QED
        BY <1>6, <3>2, <4>1
    <3>3. QED
      BY <3>1, <3>2
  <2>13. /\ del' \in [Tabs -> DeleteTask] /\ save' \in [Tabs -> SaveTask]
         /\ \A s \in Tabs : RequestSound(s)'
    BY <1>1, <2>9, RequestsStay
  <2>14. PagesTyped'
    BY <1>1, <1>2, <2>1, <2>7, <2>12, <2>13 DEF PagesTyped
  <2>15. ASSUME NEW s \in Tabs
         PROVE  StillOn(s) /\ SamePage(s) /\ PlaceSound(s)' /\ ToldSound(s)'
    <3>1. StillOn(s) /\ SamePage(s)
      BY <1>1 DEF StillOn, SamePage
    <3>2. PlaceSound(s)'
      BY <1>1, <1>2, <2>9, PlaceFrame
    <3>3. ToldSound(s)'
      BY <1>2, <2>2, <2>9, <3>1, ToldFrame
    <3>4. QED
      BY <3>1, <3>2, <3>3
  <2>16. ASSUME NEW s \in Tabs PROVE ChatSound(s)'
    <3>1. SUFFICES ASSUME tab[s].joined PROVE ChatSound(s)'
      BY <1>1 DEF ChatSound
    <3>2. /\ tab[s].room \in Rooms /\ ChatSound(s)
          /\ \A y \in ToSet(tab[s].chat) : send[y].st \in Announced
      BY <1>2, <3>1 DEF ToldSound, Panel, PlaceSound, PagesTyped, TabState, Kept
    <3>3. x \notin ToSet(tab[s].chat)
      BY <1>3, <3>2
    <3>4. \A y \in ToSet(rows[tab[s].room].msgs) : y \in Texts
      <4>1. rows[tab[s].room].msgs \in Seq(Texts)
        BY <1>2, <3>2 DEF Row
      <4>2. QED
        BY <4>1 DEF ToSet
    <3>5. CASE tab[s].room # q
      <4>1. rows'[tab[s].room] = rows[tab[s].room]
        BY <2>7, <3>2, <3>5
      <4>2. x \notin ToSet(rows[tab[s].room].msgs)
        BY <1>2, <1>3, <3>2 DEF RowSound
      <4>3. \A y \in ToSet(rows[tab[s].room].msgs) : send'[y] = send[y]
        BY <2>1, <3>4, <4>2
      <4>4. QED
        BY <1>1, <2>12, <3>1, <3>2, <4>1, <4>3 DEF ChatSound, OverlapGrows
    <3>6. CASE tab[s].room = q
      <4>1. \A i, k \in DOMAIN tab[s].chat : tab[s].chat[i] = x /\ tab[s].chat[k] = x => i = k
        BY <3>3 DEF ToSet
      <4>2. ASSUME NEW y \in ToSet(l) \ overlap'[s]
            PROVE  /\ \A i, k \in DOMAIN tab[s].chat :
                        tab[s].chat[i] = y /\ tab[s].chat[k] = y => i = k
                   /\ send'[y].st = "saved" => y \notin ToSet(tab[s].chat)
                   /\ send'[y].st = "done" /\ y \in ToSet(History(l)) => y \in ToSet(tab[s].chat)
        <5>1. CASE y = x
          BY <2>8, <3>3, <4>1, <5>1
        <5>2. CASE y # x
          <6>1. /\ y \in ToSet(rows[q].msgs) \ overlap[s] /\ send'[y] = send[y]
                /\ y \in ToSet(History(l)) => y \in ToSet(History(rows[q].msgs))
            BY <2>1, <2>8, <2>12, <3>4, <3>6, <4>2, <5>2 DEF OverlapGrows
          <6>2. QED
            BY <3>1, <3>2, <3>6, <6>1 DEF ChatSound
        <5>3. QED
          BY <5>1, <5>2
      <4>3. QED
        BY <1>1, <2>8, <3>6, <4>2 DEF ChatSound
    <3>7. QED
      BY <3>5, <3>6
  <2>17. ASSUME NEW s \in Tabs, NEW j \in ToSet(joins'[s])
         PROVE  JoinSound(s, j)' /\ HistorySound(s, j)'
    <3>1. /\ j \in JoinTask /\ JoinSound(s, j) /\ HistorySound(s, j) /\ j.room \in Rooms
          /\ j \in ToSet(joins[s])
      BY <1>1, <1>2 DEF JoinTask
    <3>2. JoinSound(s, j)'
      BY <1>2, <2>2, <2>9, <2>15, <3>1, JoinFrame
    <3>3. SUFFICES ASSUME j.pc = "emit" PROVE HistorySound(s, j)'
      BY <3>2 DEF HistorySound
    <3>4. x \in overlap'[s]
      BY <2>12, <3>1, <3>3
    <3>5. \A y \in ToSet(rows[j.room].msgs) : y \in Texts
      <4>1. rows[j.room].msgs \in Seq(Texts)
        BY <1>2, <3>1 DEF Row
      <4>2. QED
        BY <4>1 DEF ToSet
    <3>6. CASE j.room # q
      <4>1. rows'[j.room] = rows[j.room]
        BY <2>7, <3>1, <3>6
      <4>2. x \notin ToSet(rows[j.room].msgs)
        BY <1>2, <1>3, <3>1 DEF RowSound
      <4>3. \A y \in ToSet(rows[j.room].msgs) : send'[y] = send[y]
        BY <2>1, <3>5, <4>2
      <4>4. QED
        BY <2>12, <3>1, <3>3, <4>1, <4>3 DEF HistorySound, OverlapGrows
    <3>7. CASE j.room = q
      <4>1. ASSUME NEW y \in ToSet(l) \ overlap'[s]
            PROVE  send'[y].st = "done" /\ (y \in ToSet(History(l)) => y \in ToSet(j.hist))
        <5>1. y # x
          BY <3>4, <4>1
        <5>2. /\ y \in ToSet(rows[q].msgs) \ overlap[s] /\ send'[y] = send[y]
              /\ y \in ToSet(History(l)) => y \in ToSet(History(rows[q].msgs))
          BY <2>1, <2>8, <2>12, <3>5, <3>7, <4>1, <5>1 DEF OverlapGrows
        <5>3. QED
          BY <3>1, <3>3, <3>7, <5>2 DEF HistorySound
      <4>2. QED
        BY <2>8, <3>1, <3>3, <3>7, <4>1 DEF HistorySound
    <3>8. QED
      BY <3>6, <3>7
  <2>18. \A f \in fetches' : FetchSound(f)'
    BY <1>1, <2>9, FetchesSame
  <2>19. ChannelSound' /\ RecentsSound' /\ EjectedOnlyFromEnded'
    BY <1>1 DEF RoomsIInv, ChannelSound, RecentsSound, EjectedOnlyFromEnded
  <2>20. QED
    BY <1>1, <2>10, <2>11, <2>13, <2>14, <2>15, <2>16, <2>17, <2>18, <2>19 DEF RoomsIInv
<1>7. QED
  BY <1>5, <1>6 DEF ChatSave

(* A list with one more entry at its end holds any other one where it did.  *)
LEMMA AppendedOnce ==
    ASSUME NEW s \in Seq(Texts), NEW x \in Texts
    PROVE  /\ x \notin ToSet(s) =>
                \A i, k \in DOMAIN Append(s, x) :
                    Append(s, x)[i] = x /\ Append(s, x)[k] = x => i = k
           /\ \A y \in Texts \ {x} :
                (\A i, k \in DOMAIN s : s[i] = y /\ s[k] = y => i = k) =>
                \A i, k \in DOMAIN Append(s, x) :
                    Append(s, x)[i] = y /\ Append(s, x)[k] = y => i = k
<1> DEFINE n == Len(s)
           a == Append(s, x)
<1>1. /\ n \in Nat /\ DOMAIN s = 1..n /\ DOMAIN a = 1..(n + 1) /\ a[n + 1] = x
      /\ \A i \in 1..n : a[i] = s[i]
  OBVIOUS
<1> HIDE DEF n, a
<1>2. \A i \in 1..(n + 1) : i \in 1..n \/ i = n + 1
  BY <1>1
<1>3. x \notin ToSet(s) => \A i \in 1..n : a[i] # x
  BY <1>1 DEF ToSet
<1>4. x \notin ToSet(s) => \A i, k \in DOMAIN a : a[i] = x /\ a[k] = x => i = k
  BY <1>1, <1>2, <1>3
<1>5. ASSUME NEW y \in Texts \ {x}, \A i, k \in DOMAIN s : s[i] = y /\ s[k] = y => i = k,
             NEW i \in DOMAIN a, NEW k \in DOMAIN a, a[i] = y, a[k] = y
      PROVE  i = k
  BY <1>1, <1>2, <1>5
<1>6. QED
  BY <1>4, <1>5 DEF a

LEMMA ChatEmitStep ==
    ASSUME RoomsIInv, NEW x \in Texts, ChatEmit(x)
    PROVE  RoomsIInv'
<1> DEFINE m == [send[x] EXCEPT !.st = "done"]
           hears(t) == t \in channel[send[x].room] /\ Panel(t)
<1>1. /\ UNCHANGED <<scope, used, rows, meant, channel, overlap>>
      /\ UNCHANGED <<fetches, joins, recents, ejected, ended>> /\ UNCHANGED <<del, save>>
      /\ send[x].st = "saved" /\ send' = [send EXCEPT ![x] = m]
      /\ tab' = [t \in Tabs |-> IF hears(t) THEN onChatMessage(tab[t], x) ELSE tab[t]]
  BY DEF ChatEmit, pastVars
<1>2. /\ PagesTyped /\ send \in [Texts -> Message] /\ send[x] \in Message
      /\ (\A p \in Rooms : RowSound(p)) /\ (\A y \in Texts : MessageSound(y))
      /\ rows \in [Rooms -> Row] /\ ChannelSound /\ channel \in [Rooms -> SUBSET Tabs]
      /\ (\A s \in Tabs : PlaceSound(s) /\ ToldSound(s) /\ ChatSound(s) /\ tab[s] \in TabState)
      /\ \A s \in Tabs : \A j \in ToSet(joins[s]) : /\ JoinSound(s, j) /\ HistorySound(s, j)
                                                    /\ j \in JoinTask
  BY JoinsTyped DEF RoomsIInv, PagesTyped
<1>3. Kept(x)
  BY <1>1, <1>2 DEF MessageSound
<1>4. m \in Message /\ m.st = "done" /\ m.room = send[x].room
  BY <1>2 DEF Message
<1> HIDE DEF m
<1>5. /\ send' \in [Texts -> Message] /\ send'[x].st = "done" /\ send'[x].room = send[x].room
      /\ \A y \in Texts : y # x => send'[y] = send[y]
  BY <1>1, <1>2, <1>4
<1>6. RowsGrow /\ SendsGrow
  <2>1. "done" \in Announced
    BY DEF Announced
  <2>2. SendsGrow
    BY <1>5, <2>1 DEF SendsGrow
  <2>3. QED
    BY <1>1, <2>2, RowsStay
<1>7. Kept(x)'
  BY <1>2, <1>3, <1>6, KeptStays
<1>8. \A p \in Rooms : RowSound(p)'
  BY <1>1, <1>2, <1>6, RowFrame
<1>9. ASSUME NEW y \in Texts PROVE MessageSound(y)'
  <2>1. CASE y = x
    <3>1. send[x].room \in Rooms /\ rows[send[x].room].phase # "unborn"
      BY <1>1, <1>2 DEF MessageSound
    <3>2. QED
      BY <1>1, <1>5, <2>1, <3>1 DEF MessageSound
  <2>2. CASE y # x
    BY <1>2, <1>5, <1>6, <2>2, MessageFrame
  <2>3. QED
    BY <2>1, <2>2
<1>10. ASSUME NEW s \in Tabs
       PROVE  /\ tab'[s] \in TabState /\ tab'[s].conn = tab[s].conn
              /\ tab'[s].where = tab[s].where /\ tab'[s].room = tab[s].room
              /\ tab'[s].shown = tab[s].shown /\ tab'[s].form = tab[s].form
              /\ tab'[s].joined = tab[s].joined
              /\ tab'[s].chat = IF hears(s) THEN Append(tab[s].chat, x) ELSE tab[s].chat
  <2>1. CASE hears(s)
    <3> DEFINE c == Append(tab[s].chat, x)
    <3>1. tab[s].chat \in Seq(Texts) /\ tab[s] \in TabState
      BY <1>2 DEF TabState
    <3>2. c \in Seq(Texts)
      BY <3>1
    <3>3. tab'[s] = [tab[s] EXCEPT !.chat = c]
      BY <1>1, <2>1 DEF onChatMessage
    <3>4. PICK e : e = [tab[s] EXCEPT !.chat = c]
      OBVIOUS
    <3>5. PICK d : d = c
      OBVIOUS
    <3> HIDE DEF c, hears
    <3>6. /\ e \in TabState /\ e.conn = tab[s].conn
          /\ e.where = tab[s].where /\ e.room = tab[s].room
          /\ e.shown = tab[s].shown /\ e.form = tab[s].form
          /\ e.joined = tab[s].joined /\ e.chat = d
      BY <3>1, <3>2, <3>4, <3>5 DEF TabState
    <3>7. QED
      BY <2>1, <3>3, <3>4, <3>5, <3>6 DEF c
  <2>2. CASE ~hears(s)
    <3>1. tab'[s] = tab[s]
      BY <1>1, <2>2
    <3> HIDE DEF hears
    <3>2. QED
      BY <1>2, <2>2, <3>1
  <2>3. QED
    BY <2>1, <2>2
<1>11. PagesTyped'
  <2>1. tab' \in [Tabs -> TabState]
    BY <1>1, <1>10
  <2>2. QED
    BY <1>1, <1>2, <1>5, <2>1 DEF PagesTyped
<1>12. ASSUME NEW s \in Tabs PROVE PlaceSound(s)' /\ StillOn(s)
  <2>1. PlaceSound(s)
    BY <1>2
  <2>2. PlaceSound(s)'
    BY <1>1, <1>10, <2>1 DEF PlaceSound
  <2>3. StillOn(s)
    BY <1>1, <1>10 DEF StillOn
  <2>4. QED
    BY <2>2, <2>3
<1>13. ASSUME NEW s \in Tabs PROVE tab[s].chat \in Seq(Texts) /\ ToSet(tab[s].chat) \subseteq Texts
  <2>1. tab[s].chat \in Seq(Texts)
    BY <1>2 DEF TabState
  <2>2. QED
    BY <2>1 DEF ToSet
<1>14. ASSUME NEW s \in Tabs PROVE ToldSound(s)'
  <2>1. ToldSound(s)
    BY <1>2
  <2>2. ASSUME NEW y \in ToSet(tab'[s].chat) PROVE Kept(y)'
    <3>1. y \in ToSet(tab[s].chat) \/ y = x
      <4>1. ToSet(Append(tab[s].chat, x)) = ToSet(tab[s].chat) \cup {x}
        BY <1>13, AppendedSet
      <4>2. QED
        BY <1>10, <2>2, <4>1
    <3>2. y \in ToSet(tab[s].chat) => Kept(y)'
      BY <1>2, <1>6, <1>13, <2>1, KeptStays DEF ToldSound
    <3>3. QED
      BY <1>7, <3>1, <3>2
  <2>3. tab'[s].joined => Panel(s)' /\ s \in channel'[tab'[s].room]
    BY <1>1, <1>10, <2>1 DEF ToldSound, Panel
  <2>4. QED
    BY <2>2, <2>3 DEF ToldSound
<1>15. ASSUME NEW s \in Tabs PROVE ChatSound(s)'
  <2>1. SUFFICES ASSUME tab[s].joined PROVE ChatSound(s)'
    BY <1>10 DEF ChatSound
  <2>2. ToldSound(s) /\ ChatSound(s) /\ PlaceSound(s) /\ tab[s] \in TabState
    BY <1>2
  <2>3. tab[s].room \in Rooms /\ Panel(s) /\ s \in channel[tab[s].room]
    BY <2>1, <2>2 DEF ToldSound, Panel, PlaceSound, TabState
  <2>4. PICK q : q = rows[tab[s].room].msgs
    OBVIOUS
  <2>5. PICK c : c = tab[s].chat
    OBVIOUS
  <2>6. PICK d : d = tab'[s].chat
    OBVIOUS
  <2>7. /\ c \in Seq(Texts)
        /\ d = Append(c, x) \/ d = c
        /\ x \in ToSet(q) => d = Append(c, x)
    <3>1. x \in ToSet(q) => send[x].room = tab[s].room
      BY <1>2, <2>3, <2>4 DEF RowSound
    <3>2. x \in ToSet(q) => hears(s)
      BY <2>3, <3>1
    <3> HIDE DEF hears
    <3>3. QED
      BY <1>10, <1>13, <2>5, <2>6, <3>2
  <2>8. \A y \in ToSet(q) : y \in Texts
    <3>1. q \in Seq(Texts)
      BY <1>2, <2>3, <2>4 DEF Row
    <3>2. QED
      BY <3>1 DEF ToSet
  <2>9. \A y \in ToSet(q) \ overlap[s] :
            /\ \A i, k \in DOMAIN c : c[i] = y /\ c[k] = y => i = k
            /\ send[y].st = "saved" => y \notin ToSet(c)
            /\ send[y].st = "done" /\ y \in ToSet(History(q)) => y \in ToSet(c)
    BY <2>1, <2>2, <2>4, <2>5 DEF ChatSound
  <2>10. ASSUME NEW y \in ToSet(q) \ overlap[s]
         PROVE  /\ \A i, k \in DOMAIN d : d[i] = y /\ d[k] = y => i = k
                /\ send'[y].st = "saved" => y \notin ToSet(d)
                /\ send'[y].st = "done" /\ y \in ToSet(History(q)) => y \in ToSet(d)
    <3>1. ToSet(Append(c, x)) = ToSet(c) \cup {x}
      BY <2>7, AppendedSet
    <3>2. CASE y = x
      <4>1. d = Append(c, x) /\ x \notin ToSet(c)
        BY <1>1, <2>7, <2>9, <2>10, <3>2
      <4>2. \A i, k \in DOMAIN d : d[i] = x /\ d[k] = x => i = k
        BY <2>7, <4>1, AppendedOnce
      <4>3. QED
        BY <1>5, <3>1, <3>2, <4>1, <4>2
    <3>3. CASE y # x
      <4>1. y \in Texts /\ send'[y] = send[y]
        BY <1>5, <2>8, <2>10, <3>3
      <4>2. \A i, k \in DOMAIN d : d[i] = y /\ d[k] = y => i = k
        <5>1. CASE d = c
          BY <2>9, <2>10, <5>1
        <5>2. CASE d = Append(c, x)
          <6>1. \A i, k \in DOMAIN c : c[i] = y /\ c[k] = y => i = k
            BY <2>9, <2>10
          <6>2. QED
            BY <2>7, <3>3, <4>1, <5>2, <6>1, AppendedOnce
        <5>3. QED
          BY <2>7, <5>1, <5>2
      <4>3. y \in ToSet(d) <=> y \in ToSet(c)
        BY <2>7, <3>1, <3>3
      <4>4. QED
        BY <2>9, <2>10, <4>1, <4>2, <4>3
    <3>4. QED
      BY <3>2, <3>3
  <2>11. rows'[tab'[s].room].msgs = q /\ overlap'[s] = overlap[s]
    BY <1>1, <1>10, <2>4
  <2>12. QED
    BY <2>6, <2>10, <2>11 DEF ChatSound
<1>16. ASSUME NEW s \in Tabs, NEW j \in ToSet(joins'[s])
       PROVE  JoinSound(s, j)' /\ HistorySound(s, j)'
  <2>1. /\ j \in JoinTask /\ JoinSound(s, j) /\ HistorySound(s, j) /\ j.room \in Rooms
    BY <1>1, <1>2 DEF JoinTask
  <2>2. JoinSound(s, j)'
    BY <1>2, <1>6, <1>12, <2>1, JoinFrame
  <2>3. \A y \in ToSet(rows[j.room].msgs) : y \in Texts
    <3>1. rows[j.room].msgs \in Seq(Texts)
      BY <1>2, <2>1 DEF Row
    <3>2. QED
      BY <3>1 DEF ToSet
  <2>4. \A y \in Texts : send[y].st = "done" => send'[y].st = "done"
    BY <1>1, <1>5
  <2>5. HistorySound(s, j)'
    BY <1>1, <2>1, <2>3, <2>4 DEF HistorySound
  <2>6. QED
    BY <2>2, <2>5
<1>17. \A f \in fetches' : FetchSound(f)'
  BY <1>1, <1>6, <1>10, FetchesUnchanged
<1>18. \A s \in Tabs : RequestSound(s)'
  BY <1>1, <1>6, RequestsStay
<1>19. ChannelSound' /\ RecentsSound' /\ EjectedOnlyFromEnded'
  <2>1. ChannelSound'
    BY <1>1, <1>2, <1>10 DEF ChannelSound
  <2>2. QED
    BY <1>1, <2>1 DEF RoomsIInv, RecentsSound, EjectedOnlyFromEnded
<1>20. QED
  BY <1>8, <1>9, <1>11, <1>12, <1>14, <1>15, <1>16, <1>17, <1>18, <1>19 DEF RoomsIInv

-----------------------------------------------------------------------------
(* The invariant of the pages.                                              *)
LEMMA StutterStep ==
    ASSUME RoomsIInv, UNCHANGED pageVars
    PROVE  RoomsIInv'
<1>1. /\ UNCHANGED <<scope, used>> /\ UNCHANGED <<fetches, tab>> /\ UNCHANGED <<del, save>>
      /\ UNCHANGED <<rows, meant, send, joins, channel, overlap, recents, ejected, ended, tab>>
      /\ RowsGrow
  BY RowsStay DEF pageVars
<1>2. used' \in [Budgets -> Nat] /\ \A b \in Budgets : used'[b] <= scope'[b]
  BY <1>1, BudgetsStay
<1>3. fetches' \subseteq FetchTask /\ \A f \in fetches' : FetchSound(f)'
  BY <1>1, FetchesSame
<1>4. /\ del' \in [Tabs -> DeleteTask] /\ save' \in [Tabs -> SaveTask]
      /\ \A s \in Tabs : RequestSound(s)'
  BY <1>1, RequestsStay
<1>5. QED
  BY <1>1, <1>2, <1>3, <1>4, BackgroundStep

LEMMA RoomsSteps ==
    ASSUME RoomsIInv, [RoomsNext]_pageVars
    PROVE  RoomsIInv'
<1>1. scope.tabs \subseteq Tabs /\ scope.rooms \subseteq Rooms
  BY PageScopesAssumption DEF RoomsIInv, PagesTyped, Scope
<1>2. CASE UNCHANGED pageVars
  BY <1>2, StutterStep
<1>3. ASSUME NEW t \in scope.tabs, PageNext(t) PROVE RoomsIInv'
  <2>1. t \in Tabs
    BY <1>1
  <2>2. ASSUME NEW r \in scope.rooms,
               handleSubmit(t, r) \/ OpenCard(t, r) \/ GoToDoor(t, r) \/ handleEndRoom(t, r)
        PROVE  RoomsIInv'
    BY <1>1, <2>1, <2>2, HandleSubmitStep, OpenCardStep, GoToDoorStep, HandleEndRoomStep
  <2>3. CASE fetchRoomInfo(t) \/ handleJoinRoom(t) \/ handleLeaveRoom(t)
    BY <2>1, <2>3, FetchRoomInfoStep, HandleJoinRoomStep, HandleLeaveRoomStep
  <2>4. CASE Reread(t) \/ LoseConnection(t) \/ Reconnect(t)
    BY <2>1, <2>4, RereadStep, LoseConnectionStep, ReconnectStep
  <2>5. CASE OpenSettings(t) \/ handleUpdateSettings(t)
    BY <2>1, <2>5, OpenSettingsStep, HandleUpdateSettingsStep
  <2>6. ASSUME NEW f \in Fields, Toggle(t, f) PROVE RoomsIInv'
    BY <2>1, <2>6, ToggleStep
  <2>7. ASSUME NEW x \in Texts, sendMessage(t, x) PROVE RoomsIInv'
    BY <2>1, <2>7, SendMessageStep
  <2>8. CASE Poll(t) \/ PollAnswer(t)
    BY <2>1, <2>8, PollStep, PollAnswerStep
  <2>9. QED
    BY <1>3, <2>2, <2>3, <2>4, <2>5, <2>6, <2>7, <2>8 DEF PageNext
<1>4. ASSUME NEW t \in scope.tabs, JoinNext(t) PROVE RoomsIInv'
  <2>1. PICK k \in DOMAIN joins[t] :
           \/ JoinLook(t, k) \/ JoinEnter(t, k) \/ JoinUpsert(t, k)
           \/ HistoryRead(t, k) \/ HistoryEmit(t, k)
    BY <1>4 DEF JoinNext
  <2>2. t \in Tabs
    BY <1>1
  <2>3. QED
    BY <2>1, <2>2, JoinLookStep, JoinEnterStep, JoinUpsertStep, HistoryReadStep, HistoryEmitStep
<1>5. ASSUME NEW t \in scope.tabs, RequestNext(t) PROVE RoomsIInv'
  <2>1. t \in Tabs
    BY <1>1
  <2>2. CASE DeleteTell(t) \/ DeleteMessages(t) \/ DeleteParticipants(t)
    BY <2>1, <2>2, DeleteTellStep, DeleteMessagesStep, DeleteParticipantsStep
  <2>3. CASE DeleteRow(t) \/ DeleteAnswer(t)
    BY <2>1, <2>3, DeleteRowStep, DeleteAnswerStep
  <2>4. CASE updateRoomByCode(t) \/ updateRoom(t) \/ SaveAnswer(t)
    BY <2>1, <2>4, UpdateRoomByCodeStep, UpdateRoomStep, SaveAnswerStep
  <2>5. QED
    BY <1>5, <2>2, <2>3, <2>4 DEF RequestNext
<1>6. ASSUME NEW f \in fetches, getRoomByCode(f) \/ fetchRoomDetails(f) PROVE RoomsIInv'
  BY <1>6, GetRoomByCodeStep, FetchRoomDetailsStep
<1>7. ASSUME NEW x \in Texts, ChatLook(x) \/ ChatSave(x) \/ ChatEmit(x) PROVE RoomsIInv'
  BY <1>7, ChatLookStep, ChatSaveStep, ChatEmitStep
<1>8. QED
  BY <1>2, <1>3, <1>4, <1>5, <1>6, <1>7 DEF RoomsNext

(* In every behaviour of the pages: what was announced in a room is in its  *)
(* rows as long as the room is there, a joined page's socket is in the      *)
(* room's channel, a history on its way is short only of what it met, and   *)
(* no settings form undoes another's choice.                                *)
THEOREM RoomsInvariance == RoomsSpec => []RoomsIInv
<1>1. RoomsInit => RoomsIInv
  BY RoomsInitial
<1>2. RoomsIInv /\ [RoomsNext]_pageVars => RoomsIInv'
  BY RoomsSteps
<1>3. QED
  BY <1>1, <1>2, PTL DEF RoomsSpec

LEMMA RoomsAreSound ==
    ASSUME RoomsIInv
    PROVE  RoomsSound
<1>1. PagesTyped /\ scope \in Scope
  BY PageScopesAssumption DEF RoomsIInv, PagesTyped
<1>2. RoomsTypeOK
  <2>1. scope \in Scopes /\ \A b \in Budgets : used[b] \in 0..scope[b]
    <3>1. \A b \in Budgets : scope[b] \in Nat
      BY <1>1 DEF Scope, Budgets
    <3>2. QED
      BY <1>1, <3>1 DEF PagesTyped
  <2>2. ASSUME NEW r \in Rooms
        PROVE  /\ rows[r].phase \in {"unborn", "live", "gone"}
               /\ rows[r].creator \in People \cup {NoCreator}
               /\ rows[r].setting \in Setting
               /\ rows[r].msgs \in Seq(Texts) /\ IsInjective(rows[r].msgs)
               /\ rows[r].parts \in [People -> {"none", "in", "out"}]
    <3>1. rows[r] \in Row /\ IsInjective(rows[r].msgs)
      BY <1>1 DEF PagesTyped, RoomsIInv, RowSound
    <3>2. QED
      BY <3>1 DEF Row
  <2>3. ASSUME NEW t \in Tabs
        PROVE  /\ tab[t] \in TabState
               /\ tab[t].where = "home" <=> tab[t].room = NoRoom
               /\ tab[t].form.open => tab[t].shown # NoSetting
               /\ joins[t] \in Seq(JoinTask)
    BY <1>1 DEF PagesTyped, RoomsIInv, PlaceSound
  <2>4. channel \in [Rooms -> SUBSET {t \in Tabs : tab[t].conn}]
    <3>1. channel \in [Rooms -> SUBSET Tabs] /\ \A r \in Rooms : \A t \in channel[r] : tab[t].conn
      BY <1>1 DEF PagesTyped, RoomsIInv, ChannelSound
    <3>2. \A r \in Rooms : channel[r] \in SUBSET {t \in Tabs : tab[t].conn}
      BY <3>1
    <3>3. QED
      BY <3>1, <3>2
  <2>5. ASSUME NEW u \in People
        PROVE  recents[u] \in Seq(Rooms) /\ IsInjective(recents[u]) /\ Len(recents[u]) <= Limit
    BY <1>1 DEF PagesTyped, RoomsIInv, RecentsSound
  <2>6. overlap \in [Tabs -> SUBSET Texts] /\ meant \in [Rooms -> Setting]
    BY <1>1 DEF PagesTyped
  <2>7. QED
    BY <2>1, <2>2, <2>3, <2>4, <2>5, <2>6 DEF RoomsTypeOK
<1>3. EndsWhole
  <2>1. ASSUME NEW r \in Rooms, rows[r].phase = "gone"
        PROVE  rows[r].msgs = <<>> /\ \A u \in People : rows[r].parts[u] = "none"
    BY <2>1 DEF RoomsIInv, RowSound
  <2>2. ASSUME NEW r \in Rooms, NEW t \in Tabs, NEW x \in Texts,
               rows[r].phase = "live", x \in ToSet(tab[t].chat), send[x].room = r
        PROVE  x \in ToSet(rows[r].msgs)
    BY <2>2 DEF RoomsIInv, ToldSound, Kept
  <2>3. ASSUME NEW t \in Tabs, del[t].pc = "ok" PROVE rows[del[t].room].phase = "gone"
    BY <2>3 DEF RoomsIInv, RequestSound
  <2>4. QED
    BY <2>1, <2>2, <2>3 DEF EndsWhole
<1>4. SettingsAsChosen
  BY DEF RoomsIInv, RowSound, SettingsAsChosen
<1>5. QED
  BY <1>2, <1>3, <1>4 DEF RoomsIInv, RoomsSound

(* A room is one thing to everybody: nobody is sent home but from a room    *)
(* whose creator ended it, a room is ended whole, and its settings are what *)
(* was last chosen (RoomsService, EnhancedRoomPage, RoomSettings), whatever *)
(* the tabs, rooms and bounds.                                              *)
THEOREM RoomsSafety == RoomsSpec => []RoomsSound
<1>1. RoomsIInv => RoomsSound
  BY RoomsAreSound
<1>2. QED
  BY <1>1, RoomsInvariance, PTL

(* How often an entry is in a list, from which entries equal it.            *)
LEMMA ShownTimes ==
    ASSUME NEW t, NEW x, \A i, k \in DOMAIN tab[t].chat :
                            tab[t].chat[i] = x /\ tab[t].chat[k] = x => i = k
    PROVE  Shown(t, x) <= 1 /\ (x \in ToSet(tab[t].chat) => Shown(t, x) = 1)
<1> DEFINE S == {k \in DOMAIN tab[t].chat : tab[t].chat[k] = x}
<1>1. CASE S = {}
  <2>1. Shown(t, x) = 0
    BY <1>1, FS_EmptySet DEF Shown
  <2>2. x \notin ToSet(tab[t].chat)
    BY <1>1 DEF ToSet
  <2>3. QED
    BY <2>1, <2>2
<1>2. CASE S # {}
  <2>1. PICK k : S = {k}
    BY <1>2
  <2>2. Shown(t, x) = 1
    BY <2>1, FS_Singleton DEF Shown
  <2>3. QED
    BY <2>2
<1>3. QED
  BY <1>1, <1>2

LEMMA ChatIsSound ==
    ASSUME RoomsIInv
    PROVE  ChatShownOnce
<1>1. SUFFICES ASSUME NEW t \in Tabs, tab[t].joined
               PROVE  LET msgs == rows[tab[t].room].msgs IN
                      /\ \A x \in ToSet(msgs) \ overlap[t] : Shown(t, x) <= 1
                      /\ \A x \in ToSet(History(msgs)) \ overlap[t] :
                            send[x].st = "done" => Shown(t, x) = 1
  BY DEF ChatShownOnce
<1>2. ChatSound(t) /\ ToldSound(t) /\ PlaceSound(t) /\ tab[t] \in TabState
  BY DEF RoomsIInv, PagesTyped
<1>3. tab[t].room \in Rooms
  BY <1>1, <1>2 DEF ToldSound, Panel, PlaceSound, TabState
<1>4. rows[tab[t].room].msgs \in Seq(Texts)
  BY <1>3 DEF RoomsIInv, PagesTyped, Row
<1>5. PICK m : m = rows[tab[t].room].msgs
  OBVIOUS
<1>6. \A x \in ToSet(m) \ overlap[t] :
         /\ \A i, k \in DOMAIN tab[t].chat : tab[t].chat[i] = x /\ tab[t].chat[k] = x => i = k
         /\ send[x].st = "done" /\ x \in ToSet(History(m)) => x \in ToSet(tab[t].chat)
  BY <1>1, <1>2, <1>5 DEF ChatSound
<1>7. ToSet(History(m)) \subseteq ToSet(m)
  BY <1>4, <1>5, HistoryOf
<1>8. \A x \in ToSet(m) \ overlap[t] : Shown(t, x) <= 1
  BY <1>6, ShownTimes
<1>9. \A x \in ToSet(History(m)) \ overlap[t] : send[x].st = "done" => Shown(t, x) = 1
  BY <1>6, <1>7, ShownTimes
<1>10. QED
  BY <1>5, <1>8, <1>9

(* A page that has joined its room shows each message of the room at most   *)
(* once, and each of the newest exactly once when it has been announced,    *)
(* but for what met a history on its way to the page (handleChatMessage,    *)
(* handleGetMessageHistory, ChatPanel).                                     *)
THEOREM ChatToldOnce == RoomsSpec => []ChatShownOnce
<1>1. RoomsIInv => ChatShownOnce
  BY ChatIsSound
<1>2. QED
  BY <1>1, RoomsInvariance, PTL

=============================================================================
