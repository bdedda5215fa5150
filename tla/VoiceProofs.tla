---------------------------- MODULE VoiceProofs ----------------------------
(***************************************************************************)
(* Proofs about Voice for every value of its constants: everybody in the   *)
(* room comes to see who is on the call, two users on it end up with one   *)
(* peer each of opposite roles, and nobody who is heard is shown as muted. *)
(***************************************************************************)
EXTENDS Voice, SequenceTheorems, TLAPS

-----------------------------------------------------------------------------
(* The inductive invariant, part by part.                                   *)

UpFrame ==
    [do : {"join", "leave", "room"}] \cup [do : {"mute", "deafen"}, to : BOOLEAN]
DownFrame ==
    [do : {"list"}, rows : SUBSET Row] \cup [do : {"joined", "left"}, sock : Socket]
    \cup [do : {"muted"}, sock : Socket, muted : BOOLEAN]
    \cup [do : {"roster"}, users : SUBSET Users]
Task == [do : {"join", "leave"}, s : Socket]

FrameType ==
    /\ up \in [Clients -> Seq(UpFrame)]
    /\ down \in [Clients -> Seq(DownFrame)]
    /\ tasks \in Seq(Task)

(* No frame of q is one of D; the last one that is, is one of G, and if     *)
(* none is, x is in X already.  A reader of q that starts with x comes to X. *)
NoneOf(q, D) == \A k \in 1..Len(q) : q[k] \notin D
EndsIn(q, D, G, x, X) ==
    /\ NoneOf(q, D) => x \in X
    /\ \A k \in 1..Len(q) :
          q[k] \in D /\ (\A m \in 1..Len(q) : m > k => q[m] \notin D) => q[k] \in G

(* The sockets of a client are numbered in the order of its transports, and *)
(* the server has the current one.                                          *)
Past(s) == s[2] <= client[s[1]].n
SockInv ==
    /\ \A s \in sockets : s[1] \in scope.clients /\ Past(s)
    /\ \A c \in Clients :
          /\ client[c].on => Sock(c) \in sockets
          /\ c \in scope.clients /\ ~client[c].on => client[c].n < MaxSockets
          /\ client[c].inVoice => client[c].stream

CallInv == RosterIsTheCall /\ channel = roster

(* A socket on the call whose leaving is still to be told has joined since. *)
JoinTask(s) == [do |-> "join", s |-> s]
LeaveTask(s) == [do |-> "leave", s |-> s]
TaskInv ==
    \A s \in roster : \A k \in 1..Len(tasks) : tasks[k] = LeaveTask(s) =>
        \E m \in 1..Len(tasks) : m > k /\ tasks[m] = JoinTask(s)

(* Whoever has no join-room to come is in the room; when nothing is to be   *)
(* told, the last roster on its way to them is the call.                    *)
Asks(c, what) == \E k \in 1..Len(up[c]) : up[c][k].do \in what
InRoom(c) == client[c].on /\ ~Asks(c, {"room"})
ViewInv == \A c \in Clients : InRoom(c) => Sock(c) \in viewers

Call == {On(s) : s \in roster}
RosterFrames == [do : {"roster"}, users : SUBSET Users]
ShowInv ==
    \A c \in Clients :
        InRoom(c) /\ Sock(c) \notin answering \cup unanswered /\ tasks = <<>> =>
            EndsIn(down[c], RosterFrames, {m \in RosterFrames : m.users = Call},
                   client[c].onCall, {Call})

(* Two on the call with no join or leave to come or to be told: what is on  *)
(* its way to each leaves them with opposite roles.                         *)
ListsOf(s) == {m \in DownFrame : m.do = "list" /\ \E r \in m.rows : r.sock = s}
JoinsOf(s) == {m \in DownFrame : m.do = "joined" /\ m.sock = s}
LeavesOf(s) == {m \in DownFrame : m.do = "left" /\ m.sock = s}
Decides(s) == ListsOf(s) \cup JoinsOf(s) \cup LeavesOf(s)
EndsAs(c, s, i) ==
    EndsIn(down[c], Decides(s), IF i THEN ListsOf(s) ELSE JoinsOf(s),
           Peer(c, s), {{[sock |-> s, initiator |-> i]}})

Steady(c) ==
    /\ client[c].on /\ client[c].stream /\ Sock(c) \in roster
    /\ ~Asks(c, {"join", "leave"})
Told(s) == \A k \in 1..Len(tasks) : tasks[k].s # s
PairInv ==
    \A a, b \in Clients :
        /\ UserOf[a] # UserOf[b]
        /\ Steady(a) /\ Steady(b) /\ Told(Sock(a)) /\ Told(Sock(b))
        => \E i \in BOOLEAN : EndsAs(a, Sock(b), i) /\ EndsAs(b, Sock(a), ~i)

(* A new transport's socket is nowhere yet.                                 *)
FrameSocks(m) ==
    IF m.do = "list" THEN {r.sock : r \in m.rows}
    ELSE IF m.do \in {"joined", "left", "muted"} THEN {m.sock} ELSE {}
FreshFrames(q) == \A k \in 1..Len(q) : \A s \in FrameSocks(q[k]) : Past(s)
FreshInv ==
    /\ \A k \in 1..Len(tasks) : Past(tasks[k].s)
    /\ \A c \in Clients :
          /\ \A r \in client[c].rows : Past(r.sock)
          /\ FreshFrames(down[c])

(* Whoever's button says heard has sent so after the last mute they sent,   *)
(* and when no such frame is to come the server has it.                     *)
Mutes(m) == m.do \in {"mute", "deafen"} /\ m.to
Lifts(m) == m.do = "mute" /\ ~m.to
Lifting(c) == \E k \in 1..Len(up[c]) : Lifts(up[c][k])
ButtonInv ==
    \A c \in Clients : ~client[c].muted =>
        /\ \A k \in 1..Len(up[c]) : Mutes(up[c][k]) =>
              \E m \in 1..Len(up[c]) : m > k /\ Lifts(up[c][m])
        /\ client[c].on /\ ~Lifting(c) /\ Sock(c) \in roster =>
              ~voiceUsers[Sock(c)].muted

(* What is told of an earlier socket of a user's only tab comes before all  *)
(* that shows the current one.                                              *)
Shows(m, s) == m.do \in {"list", "joined"} /\ s \in FrameSocks(m)
OldOf(m, s) == m.do = "muted" /\ On(m.sock) = On(s) /\ m.sock # s
OldFirst(q, rows, s) ==
    \A k \in 1..Len(q) : OldOf(q[k], s) =>
        /\ \A r \in rows : r.sock # s
        /\ \A j \in 1..Len(q) : j < k => ~Shows(q[j], s)
OldInv ==
    \A a, b \in Clients : OnlyTab(a) => OldFirst(down[b], client[b].rows, Sock(a))

(* Nobody on the call is left with a muted row of one who is off the call,  *)
(* or whose button and whose every frame say heard.                         *)
Unmuted(s) == {rows \in SUBSET Row : \A r \in rows : r.sock = s => ~r.muted}
RowFrames(s) ==
    {m \in DownFrame : \/ m.do = "list"
                       \/ m.do = "muted" /\ m.sock = s
                       \/ m.do = "left" /\ On(m.sock) = On(s)}
Unmuting(s) ==
    {m \in RowFrames(s) : \/ m.do = "list" /\ m.rows \in Unmuted(s)
                          \/ m.do = "muted" /\ ~m.muted
                          \/ m.do = "left"}
Untasked(t) == \A k \in 1..Len(tasks) : tasks[k] # t
RowInv ==
    \A a, b \in Clients :
        /\ a # b /\ OnlyTab(a) /\ client[a].on /\ client[b].on
        /\ Sock(b) \in roster /\ Untasked(JoinTask(Sock(b))) /\ Untasked(LeaveTask(Sock(a)))
        /\ Sock(a) \in roster => ~client[a].muted /\ ~Lifting(a)
        => EndsIn(down[b], RowFrames(Sock(a)), Unmuting(Sock(a)),
                  client[b].rows, Unmuted(Sock(a)))

IInv ==
    /\ TypeOK /\ FrameType
    /\ SockInv
    /\ CallInv
    /\ TaskInv
    /\ ViewInv /\ ShowInv
    /\ PairInv
    /\ FreshInv
    /\ ButtonInv
    /\ OldInv
    /\ RowInv

-----------------------------------------------------------------------------
(* Queues.                                                                  *)

LEMMA Appending ==
    ASSUME NEW S, NEW q \in Seq(S), NEW m \in S
    PROVE  /\ Append(q, m) \in Seq(S) /\ Len(q) \in Nat
           /\ Len(Append(q, m)) = Len(q) + 1
           /\ \A k \in 1..Len(q) : Append(q, m)[k] = q[k]
           /\ Append(q, m)[Len(q) + 1] = m
<1>. QED
  BY AppendProperties, LenProperties

LEMMA Tailing ==
    ASSUME NEW S, NEW q \in Seq(S), q # <<>>
    PROVE  /\ Tail(q) \in Seq(S) /\ Len(q) \in Nat \ {0}
           /\ Len(Tail(q)) = Len(q) - 1
           /\ \A k \in 1..Len(Tail(q)) : Tail(q)[k] = q[k + 1]
           /\ Head(q) = q[1] /\ Head(q) \in S
<1>1. Len(q) \in Nat \ {0}
  BY EmptySeq, LenProperties
<1>. QED
  BY <1>1, HeadTailProperties

LEMMA EndsKept ==
    ASSUME NEW S, NEW q \in Seq(S), NEW m \in S, NEW D, NEW G, NEW x, NEW X,
           EndsIn(q, D, G, x, X), m \in D => m \in G
    PROVE  EndsIn(Append(q, m), D, G, x, X)
<1>. DEFINE p == Append(q, m)
<1>1. /\ Len(q) \in Nat /\ Len(p) = Len(q) + 1 /\ p[Len(q) + 1] = m
      /\ \A k \in 1..Len(q) : p[k] = q[k]
  BY Appending
<1>. HIDE DEF p
<1>2. NoneOf(p, D) => x \in X
  BY <1>1 DEF EndsIn, NoneOf
<1>3. ASSUME NEW k \in 1..Len(p), p[k] \in D, \A j \in 1..Len(p) : j > k => p[j] \notin D
      PROVE  p[k] \in G
  <2>1. CASE k = Len(q) + 1
    BY <2>1, <1>1, <1>3
  <2>2. CASE k \in 1..Len(q)
    <3>1. \A j \in 1..Len(q) : j > k => q[j] \notin D
      BY <1>1, <1>3
    <3>. QED
      BY <3>1, <2>2, <1>1, <1>3 DEF EndsIn
  <2>. QED
    BY <2>1, <2>2, <1>1
<1>4. EndsIn(p, D, G, x, X)
  BY <1>2, <1>3 DEF EndsIn
<1>. QED
  BY <1>4 DEF p

LEMMA EndsSet ==
    ASSUME NEW S, NEW q \in Seq(S), NEW m \in S, NEW D, NEW G, NEW x, NEW X,
           m \in D, m \in G
    PROVE  EndsIn(Append(q, m), D, G, x, X)
<1>. DEFINE p == Append(q, m)
<1>1. Len(q) \in Nat /\ Len(p) = Len(q) + 1 /\ p[Len(q) + 1] = m
  BY Appending
<1>. HIDE DEF p
<1>2. EndsIn(p, D, G, x, X)
  BY <1>1 DEF EndsIn, NoneOf
<1>. QED
  BY <1>2 DEF p

(* The reader takes the first frame: x is what it held, y what it holds.    *)
LEMMA EndsTaken ==
    ASSUME NEW S, NEW q \in Seq(S), q # <<>>, NEW D, NEW G, NEW x, NEW y, NEW X,
           EndsIn(q, D, G, x, X),
           Head(q) \in D /\ Head(q) \in G => y \in X,
           Head(q) \notin D /\ x \in X => y \in X
    PROVE  EndsIn(Tail(q), D, G, y, X)
<1>. DEFINE t == Tail(q)
<1>1. /\ Len(q) \in Nat \ {0} /\ Len(t) = Len(q) - 1 /\ Head(q) = q[1]
      /\ \A k \in 1..Len(t) : t[k] = q[k + 1]
  BY Tailing
<1>. HIDE DEF t
<1>2. ASSUME NoneOf(t, D)
      PROVE  y \in X
  <2>1. \A j \in 1..Len(q) : j > 1 => q[j] \notin D
    <3>. SUFFICES ASSUME NEW j \in 1..Len(q), j > 1
                  PROVE  q[j] \notin D
      OBVIOUS
    <3>1. j - 1 \in 1..Len(t) /\ t[j - 1] = q[j]
      BY <1>1
    <3>. QED
      BY <3>1, <1>2 DEF NoneOf
  <2>2. CASE q[1] \in D
    BY <2>1, <2>2, <1>1 DEF EndsIn
  <2>3. CASE q[1] \notin D
    <3>1. NoneOf(q, D)
      BY <2>1, <2>3, <1>1 DEF NoneOf
    <3>. QED
      BY <3>1, <2>3, <1>1 DEF EndsIn
  <2>. QED
    BY <2>2, <2>3
<1>3. ASSUME NEW k \in 1..Len(t), t[k] \in D, \A j \in 1..Len(t) : j > k => t[j] \notin D
      PROVE  t[k] \in G
  <2>1. k + 1 \in 1..Len(q) /\ q[k + 1] = t[k]
    BY <1>1
  <2>2. \A j \in 1..Len(q) : j > k + 1 => q[j] \notin D
    <3>. SUFFICES ASSUME NEW j \in 1..Len(q), j > k + 1
                  PROVE  q[j] \notin D
      OBVIOUS
    <3>1. j - 1 \in 1..Len(t) /\ j - 1 > k /\ t[j - 1] = q[j]
      BY <1>1
    <3>. QED
      BY <3>1, <1>3
  <2>. QED
    BY <2>1, <2>2, <1>3 DEF EndsIn
<1>4. EndsIn(t, D, G, y, X)
  BY <1>2, <1>3 DEF EndsIn
<1>. QED
  BY <1>4 DEF t

-----------------------------------------------------------------------------
(* What the server sends.                                                   *)

Queues == [Clients -> Seq(DownFrame)]

LEMMA ToAt ==
    ASSUME NEW d, NEW S, NEW m, NEW c \in Clients
    PROVE  To(d, S, m)[c] = IF client[c].on /\ Sock(c) \in S THEN Append(d[c], m) ELSE d[c]
<1>. QED
  BY DEF To

LEMMA ToType ==
    ASSUME NEW d \in Queues, NEW S, NEW m \in DownFrame
    PROVE  To(d, S, m) \in Queues
<1>1. \A c \in Clients : Append(d[c], m) \in Seq(DownFrame)
  BY Appending DEF Queues
<1>. QED
  BY <1>1 DEF To, Queues

LEMMA ToKept ==
    ASSUME NEW d \in Queues, NEW S, NEW m \in DownFrame, NEW c \in Clients,
           NEW D, NEW G, NEW x, NEW X,
           EndsIn(d[c], D, G, x, X), m \in D => m \in G
    PROVE  EndsIn(To(d, S, m)[c], D, G, x, X)
<1>1. d[c] \in Seq(DownFrame)
  BY DEF Queues
<1>2. EndsIn(Append(d[c], m), D, G, x, X)
  BY <1>1, EndsKept
<1>. QED
  BY <1>2, ToAt

LEMMA ToSet ==
    ASSUME NEW d \in Queues, NEW S, NEW m \in DownFrame, NEW c \in Clients,
           NEW D, NEW G, NEW x, NEW X,
           client[c].on, Sock(c) \in S, m \in D, m \in G
    PROVE  EndsIn(To(d, S, m)[c], D, G, x, X)
<1>1. d[c] \in Seq(DownFrame)
  BY DEF Queues
<1>2. EndsIn(Append(d[c], m), D, G, x, X)
  BY <1>1, EndsSet
<1>. QED
  BY <1>2, ToAt

LEMMA ToFresh ==
    ASSUME NEW d \in Queues, NEW S, NEW m \in DownFrame, NEW c \in Clients,
           FreshFrames(d[c]), \A s \in FrameSocks(m) : Past(s)
    PROVE  FreshFrames(To(d, S, m)[c])
<1>. DEFINE p == Append(d[c], m)
<1>1. /\ Len(d[c]) \in Nat /\ Len(p) = Len(d[c]) + 1 /\ p[Len(d[c]) + 1] = m
      /\ \A k \in 1..Len(d[c]) : p[k] = d[c][k]
  BY Appending DEF Queues
<1>. HIDE DEF p
<1>2. FreshFrames(p)
  BY <1>1 DEF FreshFrames
<1>. QED
  BY <1>2, ToAt DEF p

LEMMA ToOld ==
    ASSUME NEW d \in Queues, NEW S, NEW m \in DownFrame, NEW c \in Clients,
           NEW rows, NEW s, OldFirst(d[c], rows, s), ~OldOf(m, s)
    PROVE  OldFirst(To(d, S, m)[c], rows, s)
<1>. DEFINE p == Append(d[c], m)
<1>1. /\ Len(d[c]) \in Nat /\ Len(p) = Len(d[c]) + 1 /\ p[Len(d[c]) + 1] = m
      /\ \A k \in 1..Len(d[c]) : p[k] = d[c][k]
  BY Appending DEF Queues
<1>. HIDE DEF p
<1>2. OldFirst(p, rows, s)
  BY <1>1 DEF OldFirst
<1>. QED
  BY <1>2, ToAt DEF p

(* The frames there are.                                                    *)
RosterFrame == [do |-> "roster",
                users |-> {On(s) : s \in roomVoiceUsers \cap DOMAIN voiceUsers}]
JoinedFrame(s) == [do |-> "joined", sock |-> s]
LeftFrame(s) == [do |-> "left", sock |-> s]

LEMMA Frames ==
    ASSUME TypeOK, NEW s \in Socket
    PROVE  /\ RosterFrame \in DownFrame /\ ListFor(s) \in DownFrame
           /\ JoinedFrame(s) \in DownFrame /\ LeftFrame(s) \in DownFrame
           /\ [do |-> "roster", users |-> {On(t) : t \in roster}] \in DownFrame
           /\ \A b \in BOOLEAN : [do |-> "muted", sock |-> s, muted |-> b] \in DownFrame
<1>1. \A t \in Socket : On(t) \in Users
  BY DEF Socket, Users, On
<1>2. \A t \in (roomVoiceUsers \cap DOMAIN voiceUsers) \ {s} :
        [sock |-> t, muted |-> voiceUsers[t].muted] \in Row
  BY DEF TypeOK, Row
<1>3. ListFor(s) \in [do : {"list"}, rows : SUBSET Row]
  BY <1>2 DEF ListFor
<1>4. RosterFrame \in [do : {"roster"}, users : SUBSET Users]
  BY <1>1 DEF RosterFrame, TypeOK
<1>5. [do |-> "roster", users |-> {On(t) : t \in roster}]
        \in [do : {"roster"}, users : SUBSET Users]
  BY <1>1 DEF TypeOK
<1>. QED
  BY <1>3, <1>4, <1>5 DEF DownFrame, JoinedFrame, LeftFrame

LEMMA JoinTellIs ==
    ASSUME NEW s
    PROVE  JoinTell(s) = To(To(To(down, {s}, ListFor(s)), viewers, RosterFrame),
                            channel \ {s}, JoinedFrame(s))
<1>. QED
  BY DEF JoinTell, broadcastVoiceRoster, RosterFrame, JoinedFrame

LEMMA LeaveTellIs ==
    ASSUME NEW s
    PROVE  LeaveTell(s) = To(To(down, viewers, RosterFrame), channel \ {s}, LeftFrame(s))
<1>. QED
  BY DEF LeaveTell, broadcastVoiceRoster, RosterFrame, LeftFrame

-----------------------------------------------------------------------------
(* What a client makes of a frame.                                          *)

OnePeerEach(k) == \A p, q \in k.peers : p.sock = q.sock => p = q

(* The rest of what it holds stays.                                         *)
Alike(k, l) ==
    /\ k.n = l.n /\ k.on = l.on /\ k.stream = l.stream
    /\ k.muted = l.muted /\ k.inVoice = l.inVoice

LEMMA CreatesPeer ==
    ASSUME NEW k \in Client, OnePeerEach(k), NEW s \in Socket, NEW i \in BOOLEAN
    PROVE  LET l == createPeerConnection(k, s, i) IN
           /\ l \in Client /\ OnePeerEach(l) /\ Alike(l, k)
           /\ l.rows = k.rows /\ l.onCall = k.onCall
<1>1. CASE ~k.stream
  BY <1>1 DEF createPeerConnection, Alike
<1>2. CASE k.stream
  <2>. DEFINE P == {p \in k.peers : p.sock # s} \cup {[sock |-> s, initiator |-> i]}
  <2>. DEFINE L == k.loose \cup {p \in k.peers : p.sock = s}
  <2>1. createPeerConnection(k, s, i) = [k EXCEPT !.peers = P, !.loose = L]
    BY <1>2 DEF createPeerConnection
  <2>2. P \in SUBSET [sock : Socket, initiator : BOOLEAN]
    BY DEF Client
  <2>3. \A p, q \in P : p.sock = q.sock => p = q
    BY DEF OnePeerEach, Client
  <2>5. L \in SUBSET [sock : Socket, initiator : BOOLEAN]
    BY DEF Client
  <2>. HIDE DEF P, L
  <2>4. [k EXCEPT !.peers = P, !.loose = L] \in Client
    BY <2>2, <2>5 DEF Client
  <2>. QED
    BY <2>1, <2>3, <2>4 DEF OnePeerEach, Alike, Client
<1>. QED
  BY <1>1, <1>2

LEMMA Listed ==
    ASSUME TypeOK, NEW c \in Clients, NEW m \in DownFrame, m.do = "list"
    PROVE  LET l == OnList(c, m) IN
           /\ l \in Client /\ OnePeerEach(l) /\ Alike(l, client[c])
           /\ l.rows = m.rows /\ l.onCall = client[c].onCall
<1>. DEFINE k == client[c]
            there == {r.sock : r \in {r \in m.rows : On(r.sock) # UserOf[c]}}
            P == {p \in k.peers : p.sock \notin there} \cup
                   {[sock |-> s, initiator |-> TRUE] : s \in there}
<1>1. m.rows \in SUBSET Row
  BY DEF DownFrame
<1>2. k \in Client /\ OnePeerEach(k)
  BY DEF TypeOK, OnePeerEach
<1>3. there \in SUBSET Socket
  BY <1>1 DEF Row
<1>. HIDE DEF k, there
<1>a. k.peers \in SUBSET [sock : Socket, initiator : BOOLEAN]
  BY <1>2 DEF Client
<1>b. \A s \in there : [sock |-> s, initiator |-> TRUE] \in [sock : Socket, initiator : BOOLEAN]
  BY <1>3
<1>4. P \in SUBSET [sock : Socket, initiator : BOOLEAN]
  BY <1>a, <1>b
<1>c. \A p \in P : \/ p \in k.peers /\ p.sock \notin there
                   \/ p.sock \in there /\ p = [sock |-> p.sock, initiator |-> TRUE]
  OBVIOUS
<1>5. \A p, q \in P : p.sock = q.sock => p = q
  <2>. SUFFICES ASSUME NEW p \in P, NEW q \in P, p.sock = q.sock
                PROVE  p = q
    OBVIOUS
  <2>1. CASE p.sock \in there
    BY <2>1, <1>c
  <2>2. CASE p.sock \notin there
    <3>1. p \in k.peers /\ q \in k.peers
      BY <2>2, <1>c
    <3>. QED
      BY <3>1, <1>2 DEF OnePeerEach
  <2>. QED
    BY <2>1, <2>2
<1>. DEFINE L == k.loose \cup {p \in k.peers : p.sock \in there}
<1>d. L \in SUBSET [sock : Socket, initiator : BOOLEAN]
  BY <1>2 DEF Client
<1>6. OnList(c, m) = IF k.stream THEN [k EXCEPT !.rows = m.rows, !.peers = P, !.loose = L]
                     ELSE [k EXCEPT !.rows = m.rows]
  BY DEF OnList, k, there
<1>. HIDE DEF P, L
<1>7. CASE k.stream
  <2>1. OnList(c, m) = [k EXCEPT !.rows = m.rows, !.peers = P, !.loose = L]
    BY <1>6, <1>7
  <2>2. [k EXCEPT !.rows = m.rows, !.peers = P, !.loose = L] \in Client
    BY <1>1, <1>2, <1>4, <1>d DEF Client
  <2>. QED
    BY <2>1, <2>2, <1>2, <1>5 DEF OnePeerEach, Alike, k, Client
<1>8. CASE ~k.stream
  <2>1. OnList(c, m) = [k EXCEPT !.rows = m.rows]
    BY <1>6, <1>8
  <2>2. [k EXCEPT !.rows = m.rows] \in Client
    BY <1>1, <1>2 DEF Client
  <2>. QED
    BY <2>1, <2>2, <1>2 DEF OnePeerEach, Alike, k, Client
<1>. QED
  BY <1>7, <1>8

LEMMA JoinedIs ==
    ASSUME TypeOK, NEW c \in Clients, NEW m \in DownFrame, m.do = "joined"
    PROVE  LET l == OnJoined(c, m) IN
           /\ l \in Client /\ OnePeerEach(l) /\ Alike(l, client[c])
           /\ l.rows = client[c].rows \cup {[sock |-> m.sock, muted |-> FALSE]}
           /\ l.onCall = client[c].onCall
<1>. DEFINE R == client[c].rows \cup {[sock |-> m.sock, muted |-> FALSE]}
            k == [client[c] EXCEPT !.rows = R]
<1>1. m.sock \in Socket
  BY DEF DownFrame
<1>2. client[c] \in Client /\ OnePeerEach(client[c])
  BY DEF TypeOK, OnePeerEach
<1>3. R \in SUBSET Row
  <2>1. client[c].rows \in SUBSET Row
    BY <1>2 DEF Client
  <2>2. [sock |-> m.sock, muted |-> FALSE] \in Row
    BY <1>1 DEF Row
  <2>. QED
    BY <2>1, <2>2
<1>4. OnJoined(c, m) = createPeerConnection(k, m.sock, FALSE)
  BY DEF OnJoined
<1>. HIDE DEF R
<1>5. k \in Client
  BY <1>2, <1>3 DEF Client
<1>6. /\ OnePeerEach(k) /\ Alike(k, client[c]) /\ k.rows = R
      /\ k.onCall = client[c].onCall
  BY <1>2 DEF OnePeerEach, Alike, Client
<1>. HIDE DEF k
<1>7. LET l == createPeerConnection(k, m.sock, FALSE) IN
      /\ l \in Client /\ OnePeerEach(l) /\ Alike(l, k)
      /\ l.rows = k.rows /\ l.onCall = k.onCall
  BY <1>1, <1>5, <1>6, CreatesPeer
<1>. QED
  BY <1>4, <1>6, <1>7 DEF Alike, R

LEMMA HandledIs ==
    ASSUME TypeOK, NEW c \in Clients, NEW m \in DownFrame
    PROVE  /\ Handled(c, m) \in Client /\ OnePeerEach(Handled(c, m))
           /\ Alike(Handled(c, m), client[c])
           /\ Handled(c, m).onCall =
                IF m.do = "roster" THEN m.users ELSE client[c].onCall
<1>1. m.do \in {"list", "joined", "left", "muted", "roster"}
  BY DEF DownFrame
<1>2. client[c] \in Client /\ OnePeerEach(client[c])
  BY DEF TypeOK, OnePeerEach
<1>3. CASE m.do = "list"
  BY <1>3, Listed DEF Handled
<1>4. CASE m.do = "joined"
  BY <1>4, JoinedIs DEF Handled
<1>5. CASE m.do = "left"
  <2>. DEFINE k == client[c]
              R == {r \in k.rows : On(r.sock) # On(m.sock)}
              P == {p \in k.peers : p.sock # m.sock}
  <2>1. Handled(c, m) = [k EXCEPT !.rows = R, !.peers = P]
    BY <1>5 DEF Handled, OnLeft
  <2>2. R \in SUBSET Row /\ P \in SUBSET [sock : Socket, initiator : BOOLEAN]
    BY <1>2 DEF Client
  <2>3. \A p, q \in P : p.sock = q.sock => p = q
    BY <1>2 DEF OnePeerEach
  <2>4. k \in Client
    BY <1>2
  <2>. HIDE DEF k, R, P
  <2>5. [k EXCEPT !.rows = R, !.peers = P] \in Client
    BY <2>2, <2>4 DEF Client
  <2>6. Alike([k EXCEPT !.rows = R, !.peers = P], k)
    BY <2>4 DEF Alike, Client
  <2>7. OnePeerEach([k EXCEPT !.rows = R, !.peers = P])
    BY <2>3, <2>4 DEF OnePeerEach, Client
  <2>8. [k EXCEPT !.rows = R, !.peers = P].onCall = k.onCall
    BY <2>4 DEF Client
  <2>. QED
    BY <2>1, <2>5, <2>6, <2>7, <2>8, <1>5 DEF k
<1>6. CASE m.do = "muted"
  <2>. DEFINE R == {IF On(r.sock) = On(m.sock) THEN [r EXCEPT !.muted = m.muted] ELSE r :
                      r \in client[c].rows}
  <2>1. Handled(c, m) = [client[c] EXCEPT !.rows = R]
    BY <1>6 DEF Handled, OnMuted
  <2>2. m.muted \in BOOLEAN
    BY <1>6 DEF DownFrame
  <2>3. \A r \in Row : [r EXCEPT !.muted = m.muted] \in Row
    BY <2>2 DEF Row
  <2>4. R \in SUBSET Row
    BY <2>3, <1>2 DEF Client
  <2>. HIDE DEF R
  <2>5. [client[c] EXCEPT !.rows = R] \in Client
    BY <1>2, <2>4 DEF Client
  <2>. QED
    BY <2>1, <2>5, <1>2, <1>6 DEF OnePeerEach, Alike, Client
<1>7. CASE m.do = "roster"
  <2>1. Handled(c, m) = [client[c] EXCEPT !.onCall = m.users]
    BY <1>7 DEF Handled
  <2>2. m.users \in SUBSET Users
    BY <1>7 DEF DownFrame
  <2>. QED
    BY <2>1, <2>2, <1>2, <1>7 DEF OnePeerEach, Alike, Client
<1>. QED
  BY <1>1, <1>3, <1>4, <1>5, <1>6, <1>7

-----------------------------------------------------------------------------
(* What a click does to everything but the client's own: nothing; and to    *)
(* that, as far as the invariant reads it.                                  *)

Extends(p, q) == Len(q) <= Len(p) /\ \A k \in 1..Len(q) : p[k] = q[k]

ScopeType == scope \in [clients : SUBSET Clients, clicks : Nat, drops : Nat]

Pressed(c) ==
    /\ UNCHANGED <<voiceUsers, roomVoiceUsers, roster, channel, tasks>>
    /\ UNCHANGED <<roomVars, sockets, down>> /\ crossed' \in BOOLEAN
    /\ scope'.clients = scope.clients /\ ScopeType'
    /\ client' \in [Clients -> Client] /\ up' \in [Clients -> Seq(UpFrame)]
    /\ \A d \in Clients : d # c => client'[d] = client[d] /\ up'[d] = up[d]
    /\ client'[c].n = client[c].n /\ client'[c].on = client[c].on
    /\ client'[c].onCall = client[c].onCall
    /\ client'[c].inVoice => client'[c].stream
    /\ client'[c].rows \subseteq client[c].rows /\ OnePeerEach(client'[c])
    /\ Extends(up'[c], up[c])
    /\ \/ client'[c].stream = client[c].stream /\ client'[c].peers = client[c].peers
       \/ \E k \in 1..Len(up'[c]) : up'[c][k].do \in {"join", "leave"}
    /\ \/ client'[c].muted
       \/ /\ client'[c].muted = client[c].muted
          /\ \A k \in 1..Len(up'[c]) : k > Len(up[c]) => ~Mutes(up'[c][k])
       \/ Len(up'[c]) > 0 /\ Lifts(up'[c][Len(up'[c])])

LEMMA Clicked ==
    ASSUME TypeOK, Click
    PROVE  scope'.clients = scope.clients /\ ScopeType'
<1>. QED
  BY DEF TypeOK, Click, ScopeType

LEMMA Emitted ==
    ASSUME FrameType, NEW c \in Clients, NEW f \in UpFrame,
           up' = [up EXCEPT ![c] = Append(@, f)]
    PROVE  /\ up' \in [Clients -> Seq(UpFrame)]
           /\ \A d \in Clients : d # c => up'[d] = up[d]
           /\ Extends(up'[c], up[c])
           /\ Len(up[c]) \in Nat /\ Len(up'[c]) = Len(up[c]) + 1
           /\ up'[c][Len(up'[c])] = f
<1>1. up[c] \in Seq(UpFrame)
  BY DEF FrameType
<1>2. /\ Append(up[c], f) \in Seq(UpFrame) /\ Len(up[c]) \in Nat
      /\ Len(Append(up[c], f)) = Len(up[c]) + 1
      /\ \A k \in 1..Len(up[c]) : Append(up[c], f)[k] = up[c][k]
      /\ Append(up[c], f)[Len(up[c]) + 1] = f
  BY <1>1, Appending
<1>3. up'[c] = Append(up[c], f)
  BY DEF FrameType
<1>4. up' \in [Clients -> Seq(UpFrame)] /\ \A d \in Clients : d # c => up'[d] = up[d]
  BY <1>2 DEF FrameType
<1>5. Extends(up'[c], up[c])
  BY <1>2, <1>3 DEF Extends
<1>. QED
  BY <1>2, <1>3, <1>4, <1>5

LEMMA Silent ==
    ASSUME FrameType, NEW c \in Clients, up' = up
    PROVE  /\ up' \in [Clients -> Seq(UpFrame)]
           /\ Extends(up'[c], up[c]) /\ Len(up[c]) \in Nat
<1>1. Len(up[c]) \in Nat
  BY LenProperties DEF FrameType
<1>. QED
  BY <1>1 DEF Extends, FrameType

LEMMA ClientIs ==
    ASSUME TypeOK, NEW c \in Clients
    PROVE  client[c] \in Client /\ OnePeerEach(client[c])
<1>. QED
  BY DEF TypeOK, OnePeerEach

LEMMA PressJoin ==
    ASSUME TypeOK, FrameType, SockInv, NEW c \in Clients, handleJoinVoice(c)
    PROVE  Pressed(c)
<1>1. scope'.clients = scope.clients /\ ScopeType'
  BY Clicked DEF handleJoinVoice
<1>. DEFINE k == [client[c] EXCEPT !.asks = @ + 1]
<1>2. k \in Client
  BY ClientIs DEF handleJoinVoice, Client
<1>3. client' = [client EXCEPT ![c] = k]
  BY DEF handleJoinVoice, TypeOK
<1>4. /\ client' \in [Clients -> Client] /\ client'[c] = k
      /\ \A d \in Clients : d # c => client'[d] = client[d]
  BY <1>2, <1>3 DEF TypeOK
<1>5. /\ k.n = client[c].n /\ k.on = client[c].on /\ k.onCall = client[c].onCall
      /\ k.inVoice = client[c].inVoice /\ k.stream = client[c].stream
      /\ k.rows = client[c].rows /\ k.peers = client[c].peers /\ k.muted = client[c].muted
  BY ClientIs DEF Client
<1>6. /\ up' = up
      /\ UNCHANGED <<voiceUsers, roomVoiceUsers, roster, channel, tasks>>
      /\ UNCHANGED <<roomVars, sockets, down>> /\ crossed' \in BOOLEAN
  BY DEF handleJoinVoice, callVars, TypeOK
<1>. HIDE DEF k
<1>7. OnePeerEach(k) /\ (k.inVoice => k.stream)
  BY <1>5, ClientIs DEF OnePeerEach, SockInv
<1>. QED
  BY <1>1, <1>4, <1>5, <1>6, <1>7, Silent DEF Pressed

LEMMA PressDenied ==
    ASSUME TypeOK, FrameType, SockInv, NEW c \in Clients, Denied(c)
    PROVE  Pressed(c)
<1>1. scope'.clients = scope.clients /\ ScopeType'
  BY DEF Denied, TypeOK, ScopeType
<1>. DEFINE k == [client[c] EXCEPT !.asks = @ - 1]
<1>2. k \in Client
  BY ClientIs DEF Denied, Client
<1>3. client' = [client EXCEPT ![c] = k]
  BY DEF Denied, TypeOK
<1>4. /\ client' \in [Clients -> Client] /\ client'[c] = k
      /\ \A d \in Clients : d # c => client'[d] = client[d]
  BY <1>2, <1>3 DEF TypeOK
<1>5. /\ k.n = client[c].n /\ k.on = client[c].on /\ k.onCall = client[c].onCall
      /\ k.inVoice = client[c].inVoice /\ k.stream = client[c].stream
      /\ k.rows = client[c].rows /\ k.peers = client[c].peers /\ k.muted = client[c].muted
  BY ClientIs DEF Client
<1>6. /\ up' = up
      /\ UNCHANGED <<voiceUsers, roomVoiceUsers, roster, channel, tasks>>
      /\ UNCHANGED <<roomVars, sockets, down>> /\ crossed' \in BOOLEAN
  BY DEF Denied, callVars, TypeOK
<1>. HIDE DEF k
<1>7. OnePeerEach(k) /\ (k.inVoice => k.stream)
  BY <1>5, ClientIs DEF OnePeerEach, SockInv
<1>. QED
  BY <1>1, <1>4, <1>5, <1>6, <1>7, Silent DEF Pressed

LEMMA PressGranted ==
    ASSUME TypeOK, FrameType, SockInv, NEW c \in Clients, Granted(c)
    PROVE  Pressed(c)
<1>1. scope'.clients = scope.clients /\ ScopeType'
  BY DEF Granted, TypeOK, ScopeType
<1>. DEFINE k == [client[c] EXCEPT !.asks = @ - 1, !.stray = @ \/ client[c].track,
                                   !.stream = TRUE, !.track = TRUE, !.inVoice = TRUE]
            f == [do |-> "join"]
<1>2. k \in Client
  <2>. DEFINE n == client[c].asks - 1
             b == client[c].stray \/ client[c].track
  <2>1. n \in 0..2 /\ b \in BOOLEAN
    BY ClientIs DEF Granted, Client
  <2>. HIDE DEF n, b
  <2>2. [client[c] EXCEPT !.asks = n, !.stray = b, !.stream = TRUE, !.track = TRUE,
                          !.inVoice = TRUE] \in Client
    BY <2>1, ClientIs DEF Client
  <2>3. k = [client[c] EXCEPT !.asks = n, !.stray = b, !.stream = TRUE, !.track = TRUE,
                              !.inVoice = TRUE]
    BY DEF n, b
  <2>. QED
    BY <2>2, <2>3
<1>3. client' = [client EXCEPT ![c] = k]
  BY DEF Granted, TypeOK
<1>4. /\ client' \in [Clients -> Client] /\ client'[c] = k
      /\ \A d \in Clients : d # c => client'[d] = client[d]
  BY <1>2, <1>3 DEF TypeOK
<1>5. /\ k.n = client[c].n /\ k.on = client[c].on /\ k.onCall = client[c].onCall
      /\ k.stream /\ k.rows = client[c].rows /\ k.peers = client[c].peers
      /\ k.muted = client[c].muted
  BY ClientIs DEF Client
<1>6. /\ up' = [up EXCEPT ![c] = Append(@, f)]
      /\ UNCHANGED <<voiceUsers, roomVoiceUsers, roster, channel, tasks>>
      /\ UNCHANGED <<roomVars, sockets, down>> /\ crossed' \in BOOLEAN
  BY DEF Granted, CallUnderWay, TypeOK
<1>7. f \in UpFrame /\ f.do = "join" /\ ~Mutes(f)
  BY DEF UpFrame, Mutes
<1>. HIDE DEF k, f
<1>8. OnePeerEach(k)
  BY <1>5, ClientIs DEF OnePeerEach
<1>9. /\ up' \in [Clients -> Seq(UpFrame)]
      /\ \A d \in Clients : d # c => up'[d] = up[d]
      /\ Extends(up'[c], up[c])
      /\ Len(up[c]) \in Nat /\ Len(up'[c]) = Len(up[c]) + 1
      /\ up'[c][Len(up'[c])] = f
  BY <1>6, <1>7, Emitted
<1>10. \E j \in 1..Len(up'[c]) : up'[c][j].do \in {"join", "leave"}
  BY <1>7, <1>9
<1>11. \A j \in 1..Len(up'[c]) : j > Len(up[c]) => ~Mutes(up'[c][j])
  <2>1. \A j \in 1..Len(up'[c]) : j > Len(up[c]) => j = Len(up'[c])
    BY <1>9
  <2>. QED
    BY <2>1, <1>7, <1>9
<1>. QED
  BY <1>1, <1>4, <1>5, <1>6, <1>8, <1>9, <1>10, <1>11 DEF Pressed

LEMMA PressLeave ==
    ASSUME TypeOK, FrameType, SockInv, NEW c \in Clients, LeaveVoice(c)
    PROVE  Pressed(c)
<1>1. scope'.clients = scope.clients /\ ScopeType'
  BY Clicked DEF LeaveVoice
<1>. DEFINE k == [client[c] EXCEPT !.stream = FALSE, !.track = FALSE, !.peers = {},
                                   !.rows = {}, !.inVoice = FALSE]
            f == [do |-> "leave"]
<1>2. k \in Client
  BY ClientIs DEF Client
<1>3. client' = [client EXCEPT ![c] = k]
  BY DEF LeaveVoice, TypeOK
<1>4. /\ client' \in [Clients -> Client] /\ client'[c] = k
      /\ \A d \in Clients : d # c => client'[d] = client[d]
  BY <1>2, <1>3 DEF TypeOK
<1>5. /\ k.n = client[c].n /\ k.on = client[c].on /\ k.onCall = client[c].onCall
      /\ ~k.inVoice /\ k.rows = {} /\ k.peers = {} /\ k.muted = client[c].muted
  BY ClientIs DEF Client
<1>6. /\ up' = [up EXCEPT ![c] = Append(@, f)]
      /\ UNCHANGED <<voiceUsers, roomVoiceUsers, roster, channel, tasks>>
      /\ UNCHANGED <<roomVars, sockets, down>> /\ crossed' \in BOOLEAN
  BY DEF LeaveVoice, callVars, TypeOK
<1>7. f \in UpFrame /\ f.do = "leave" /\ ~Mutes(f)
  BY DEF UpFrame, Mutes
<1>. HIDE DEF k, f
<1>8. OnePeerEach(k)
  BY <1>5 DEF OnePeerEach
<1>9. /\ up' \in [Clients -> Seq(UpFrame)]
      /\ \A d \in Clients : d # c => up'[d] = up[d]
      /\ Extends(up'[c], up[c])
      /\ Len(up[c]) \in Nat /\ Len(up'[c]) = Len(up[c]) + 1
      /\ up'[c][Len(up'[c])] = f
  BY <1>6, <1>7, Emitted
<1>10. \E j \in 1..Len(up'[c]) : up'[c][j].do \in {"join", "leave"}
  BY <1>7, <1>9
<1>11. \A j \in 1..Len(up'[c]) : j > Len(up[c]) => ~Mutes(up'[c][j])
  <2>1. \A j \in 1..Len(up'[c]) : j > Len(up[c]) => j = Len(up'[c])
    BY <1>9
  <2>. QED
    BY <2>1, <1>7, <1>9
<1>. QED
  BY <1>1, <1>4, <1>5, <1>6, <1>8, <1>9, <1>10, <1>11 DEF Pressed

LEMMA PressMute ==
    ASSUME TypeOK, FrameType, SockInv, NEW c \in Clients, handleToggleMute(c)
    PROVE  Pressed(c)
<1>1. scope'.clients = scope.clients /\ ScopeType'
  BY Clicked DEF handleToggleMute
<1>2. client[c] \in Client /\ client[c].stream
  BY ClientIs DEF SockInv, handleToggleMute
<1>. DEFINE k == [client[c] EXCEPT !.muted = ~@, !.track = client[c].muted]
            f == [do |-> "mute", to |-> ~client[c].muted]
<1>3. k \in Client
  BY <1>2 DEF Client
<1>4. client' = [client EXCEPT ![c] = k]
  BY <1>2 DEF handleToggleMute, TypeOK, Toggled
<1>5. /\ client' \in [Clients -> Client] /\ client'[c] = k
      /\ \A d \in Clients : d # c => client'[d] = client[d]
  BY <1>3, <1>4 DEF TypeOK
<1>6. /\ k.n = client[c].n /\ k.on = client[c].on /\ k.onCall = client[c].onCall
      /\ k.stream = client[c].stream /\ k.rows = client[c].rows
      /\ k.peers = client[c].peers /\ k.muted = ~client[c].muted
  BY <1>2 DEF Client
<1>7. /\ UNCHANGED <<voiceUsers, roomVoiceUsers, roster, channel, tasks>>
      /\ UNCHANGED <<roomVars, sockets, down>> /\ crossed' \in BOOLEAN
  BY DEF handleToggleMute, callVars, TypeOK
<1>8. f \in UpFrame /\ f.do = "mute" /\ f.to = ~client[c].muted
  BY <1>2 DEF UpFrame, Client
<1>9. up' = [up EXCEPT ![c] = Append(@, f)]
  <2>1. up[c] \in Seq(UpFrame)
    BY DEF FrameType
  <2>2. MuteFrames(client[c]) = <<f>>
    BY <1>2 DEF MuteFrames
  <2>. HIDE DEF f
  <2>3. Append(up[c], f) = up[c] \o <<f>>
    BY <2>1, <1>8, AppendIsConcat
  <2>. QED
    BY <2>2, <2>3 DEF handleToggleMute
<1>. HIDE DEF k, f
<1>10. OnePeerEach(k)
  BY <1>6, ClientIs DEF OnePeerEach
<1>11. /\ up' \in [Clients -> Seq(UpFrame)]
       /\ \A d \in Clients : d # c => up'[d] = up[d]
       /\ Extends(up'[c], up[c])
       /\ Len(up[c]) \in Nat /\ Len(up'[c]) = Len(up[c]) + 1
       /\ up'[c][Len(up'[c])] = f
  BY <1>8, <1>9, Emitted
<1>12. k.muted \/ (Len(up'[c]) > 0 /\ Lifts(up'[c][Len(up'[c])]))
  <2>1. k.muted \/ Lifts(f)
    BY <1>6, <1>8 DEF Lifts
  <2>. QED
    BY <2>1, <1>11
<1>. QED
  BY <1>1, <1>2, <1>5, <1>6, <1>7, <1>10, <1>11, <1>12 DEF Pressed

LEMMA PressDeafen ==
    ASSUME TypeOK, FrameType, SockInv, NEW c \in Clients, handleToggleDeafen(c)
    PROVE  Pressed(c)
<1>. DEFINE k == client[c]
            f == [do |-> "mute", to |-> TRUE]
            g == [do |-> "deafen", to |-> ~k.deaf]
<1>1. scope'.clients = scope.clients /\ ScopeType'
  BY Clicked DEF handleToggleDeafen
<1>2. k \in Client /\ k.stream /\ OnePeerEach(k)
  BY ClientIs DEF SockInv, handleToggleDeafen
<1>3. /\ UNCHANGED <<voiceUsers, roomVoiceUsers, roster, channel, tasks>>
      /\ UNCHANGED <<roomVars, sockets, down>> /\ crossed' \in BOOLEAN
  BY DEF handleToggleDeafen, callVars, TypeOK
<1>4. /\ f \in UpFrame /\ g \in UpFrame
      /\ g.do = "deafen" /\ g.to = ~k.deaf
  BY <1>2 DEF UpFrame, Client
<1>5. up[c] \in Seq(UpFrame)
  BY DEF FrameType
<1>6. CASE ~k.deaf /\ ~k.muted
  <2>. DEFINE l == [k EXCEPT !.muted = TRUE, !.track = FALSE, !.deaf = TRUE]
  <2>1. l \in Client
    BY <1>2 DEF Client
  <2>2. client' = [client EXCEPT ![c] = l]
    BY <1>2, <1>6 DEF handleToggleDeafen, TypeOK, Toggled, Client
  <2>3. /\ client' \in [Clients -> Client] /\ client'[c] = l
        /\ \A d \in Clients : d # c => client'[d] = client[d]
    BY <2>1, <2>2 DEF TypeOK
  <2>4. /\ l.n = k.n /\ l.on = k.on /\ l.onCall = k.onCall /\ l.stream = k.stream
        /\ l.rows = k.rows /\ l.peers = k.peers /\ l.muted
    BY <1>2 DEF Client
  <2>5. up' = [up EXCEPT ![c] = (@ \o <<f>>) \o <<g>>]
    <3>1. MuteFrames(k) = <<f>>
      BY <1>2, <1>6 DEF MuteFrames
    <3>. QED
      BY <3>1, <1>6 DEF handleToggleDeafen
  <2>. HIDE DEF f, g, l, k
  <2>6. /\ Append(up[c], f) = up[c] \o <<f>> /\ Append(up[c], f) \in Seq(UpFrame)
        /\ Len(Append(up[c], f)) = Len(up[c]) + 1 /\ Len(up[c]) \in Nat
        /\ \A j \in 1..Len(up[c]) : Append(up[c], f)[j] = up[c][j]
    BY <1>4, <1>5, AppendIsConcat, Appending
  <2>. DEFINE p == Append(up[c], f)
  <2>. HIDE DEF p
  <2>7. /\ Append(p, g) = p \o <<g>> /\ Append(p, g) \in Seq(UpFrame)
        /\ Len(Append(p, g)) = Len(p) + 1
        /\ \A j \in 1..Len(p) : Append(p, g)[j] = p[j]
    BY <1>4, <2>6, AppendIsConcat, Appending DEF p
  <2>8. up' = [up EXCEPT ![c] = Append(p, g)]
    BY <2>5, <2>6, <2>7 DEF p
  <2>9. /\ up' \in [Clients -> Seq(UpFrame)] /\ up'[c] = Append(p, g)
        /\ \A d \in Clients : d # c => up'[d] = up[d]
    BY <2>7, <2>8 DEF FrameType
  <2>10. Extends(up'[c], up[c])
    BY <2>6, <2>7, <2>9 DEF Extends, p
  <2>11. OnePeerEach(l)
    BY <2>4, <1>2 DEF OnePeerEach
  <2>. QED
    BY <1>1, <1>2, <1>3, <2>3, <2>4, <2>9, <2>10, <2>11 DEF Pressed, k
<1>7. CASE k.deaf \/ k.muted
  <2>. DEFINE l == [k EXCEPT !.deaf = ~@]
  <2>1. l \in Client
    BY <1>2 DEF Client
  <2>2. client' = [client EXCEPT ![c] = l]
    BY <1>2, <1>7 DEF handleToggleDeafen, TypeOK
  <2>3. /\ client' \in [Clients -> Client] /\ client'[c] = l
        /\ \A d \in Clients : d # c => client'[d] = client[d]
    BY <2>1, <2>2 DEF TypeOK
  <2>4. /\ l.n = k.n /\ l.on = k.on /\ l.onCall = k.onCall /\ l.stream = k.stream
        /\ l.rows = k.rows /\ l.peers = k.peers /\ l.muted = k.muted
    BY <1>2 DEF Client
  <2>5. up' = [up EXCEPT ![c] = (@ \o <<>>) \o <<g>>]
    BY <1>7 DEF handleToggleDeafen
  <2>6. l.muted \/ ~Mutes(g)
    BY <1>4, <1>7, <2>4 DEF Mutes
  <2>. HIDE DEF f, g, l, k
  <2>7. up' = [up EXCEPT ![c] = Append(@, g)]
    <3>1. up[c] \o <<>> = up[c]
      BY <1>5, ConcatEmptySeq
    <3>2. Append(up[c], g) = up[c] \o <<g>>
      BY <1>4, <1>5, AppendIsConcat
    <3>. QED
      BY <3>1, <3>2, <2>5
  <2>8. /\ up' \in [Clients -> Seq(UpFrame)]
        /\ \A d \in Clients : d # c => up'[d] = up[d]
        /\ Extends(up'[c], up[c])
        /\ Len(up[c]) \in Nat /\ Len(up'[c]) = Len(up[c]) + 1
        /\ up'[c][Len(up'[c])] = g
    BY <1>4, <2>7, Emitted
  <2>9. l.muted \/ \A j \in 1..Len(up'[c]) : j > Len(up[c]) => ~Mutes(up'[c][j])
    <3>1. \A j \in 1..Len(up'[c]) : j > Len(up[c]) => j = Len(up'[c])
      BY <2>8
    <3>. QED
      BY <3>1, <2>6, <2>8
  <2>10. OnePeerEach(l)
    BY <2>4, <1>2 DEF OnePeerEach
  <2>. QED
    BY <1>1, <1>2, <1>3, <2>3, <2>4, <2>8, <2>9, <2>10 DEF Pressed, k
<1>. QED
  BY <1>6, <1>7

-----------------------------------------------------------------------------
(* Types.                                                                   *)

(* A handler takes its frame.                                               *)
LEMMA Received ==
    ASSUME FrameType, NEW c \in Clients, NEW what, Receives(c, what)
    PROVE  /\ client[c].on /\ up[c] # <<>> /\ up[c] \in Seq(UpFrame)
           /\ up' \in [Clients -> Seq(UpFrame)] /\ up'[c] = Tail(up[c])
           /\ \A d \in Clients : d # c => up'[d] = up[d]
           /\ Head(up[c]) \in UpFrame /\ Head(up[c]).do = what
<1>1. up[c] \in Seq(UpFrame) /\ up[c] # <<>> /\ Head(up[c]).do = what
  BY DEF FrameType, Receives
<1>2. Tail(up[c]) \in Seq(UpFrame) /\ Head(up[c]) \in UpFrame
  BY <1>1, Tailing
<1>. QED
  BY <1>1, <1>2 DEF Receives, FrameType

LEMMA SockType ==
    ASSUME TypeOK, NEW c \in Clients
    PROVE  Sock(c) \in Socket
<1>. QED
  BY ClientIs DEF Sock, Socket, Client

LEMMA TaskType ==
    ASSUME FrameType, NEW s \in Socket
    PROVE  /\ Append(tasks, JoinTask(s)) \in Seq(Task)
           /\ Append(tasks, LeaveTask(s)) \in Seq(Task)
<1>1. JoinTask(s) \in Task /\ LeaveTask(s) \in Task
  BY DEF Task, JoinTask, LeaveTask
<1>. QED
  BY <1>1, Appending DEF FrameType

CallType ==
    /\ DOMAIN voiceUsers \subseteq Socket
    /\ \A s \in DOMAIN voiceUsers : voiceUsers[s] \in [muted : BOOLEAN, deaf : BOOLEAN]
    /\ roomVoiceUsers \subseteq Socket /\ roster \subseteq Socket /\ channel \subseteq Socket
    /\ tasks \in Seq(Task) /\ crossed \in BOOLEAN

LEMMA JoinType ==
    ASSUME TypeOK, FrameType, NEW c \in Clients, handleJoinVoiceChat(c)
    PROVE  CallType' /\ down' = down
<1>1. Sock(c) \in Socket
  BY SockType
<1>2. tasks' = Append(tasks, JoinTask(Sock(c))) /\ down' = down
  BY DEF handleJoinVoiceChat, JoinTask
<1>3. tasks' \in Seq(Task)
  BY <1>1, <1>2, TaskType
<1>4. /\ DOMAIN voiceUsers' = DOMAIN voiceUsers \cup {Sock(c)}
      /\ \A s \in DOMAIN voiceUsers' : voiceUsers'[s] \in [muted : BOOLEAN, deaf : BOOLEAN]
  BY DEF handleJoinVoiceChat, TypeOK
<1>. QED
  BY <1>1, <1>2, <1>3, <1>4 DEF CallType, TypeOK, handleJoinVoiceChat

LEMMA LeaveType ==
    ASSUME TypeOK, FrameType, NEW s \in Socket, LeaveMaps(s)
    PROVE  CallType'
<1>1. tasks' = Append(tasks, LeaveTask(s))
  BY DEF LeaveMaps, LeaveTask
<1>2. tasks' \in Seq(Task)
  BY <1>1, TaskType
<1>. QED
  BY <1>2 DEF CallType, TypeOK, LeaveMaps

LEMMA OldType == ASSUME TypeOK, FrameType, UNCHANGED callVars PROVE CallType'
<1>. QED
  BY DEF CallType, TypeOK, FrameType, callVars

LEMMA JoinTold ==
    ASSUME TypeOK, FrameType, NEW s \in Socket
    PROVE  /\ To(down, {s}, ListFor(s)) \in Queues
           /\ To(To(down, {s}, ListFor(s)), viewers, RosterFrame) \in Queues
           /\ JoinTell(s) \in Queues
<1>1. down \in Queues
  BY DEF FrameType, Queues
<1>2. To(down, {s}, ListFor(s)) \in Queues
  BY <1>1, Frames, ToType
<1>3. To(To(down, {s}, ListFor(s)), viewers, RosterFrame) \in Queues
  BY <1>2, Frames, ToType
<1>4. To(To(To(down, {s}, ListFor(s)), viewers, RosterFrame), channel \ {s}, JoinedFrame(s))
        \in Queues
  BY <1>3, Frames, ToType
<1>. QED
  BY <1>2, <1>3, <1>4, JoinTellIs

LEMMA LeaveTold ==
    ASSUME TypeOK, FrameType, NEW s \in Socket
    PROVE  /\ To(down, viewers, RosterFrame) \in Queues
           /\ LeaveTell(s) \in Queues
<1>1. down \in Queues
  BY DEF FrameType, Queues
<1>2. To(down, viewers, RosterFrame) \in Queues
  BY <1>1, Frames, ToType
<1>3. To(To(down, viewers, RosterFrame), channel \ {s}, LeftFrame(s)) \in Queues
  BY <1>2, Frames, ToType
<1>. QED
  BY <1>2, <1>3, LeaveTellIs

LEMMA ContinueIs ==
    ASSUME TypeOK, FrameType, Continue
    PROVE  /\ tasks # <<>> /\ tasks' = Tail(tasks) /\ tasks' \in Seq(Task)
           /\ Head(tasks) \in Task /\ Head(tasks).s \in Socket
           /\ \/ Head(tasks) = JoinTask(Head(tasks).s) /\ down' = JoinTell(Head(tasks).s)
              \/ Head(tasks) = LeaveTask(Head(tasks).s) /\ down' = LeaveTell(Head(tasks).s)
           /\ down' \in Queues
<1>. DEFINE t == Head(tasks)
<1>1. tasks # <<>> /\ tasks' = Tail(tasks) /\ tasks \in Seq(Task)
  BY DEF Continue, FrameType
<1>2. t \in Task /\ tasks' \in Seq(Task)
  BY <1>1, Tailing
<1>3. down' = IF t.do = "join" THEN JoinTell(t.s) ELSE LeaveTell(t.s)
  BY DEF Continue
<1>. HIDE DEF t
<1>4. t.s \in Socket /\ (t = JoinTask(t.s) \/ t = LeaveTask(t.s))
  BY <1>2 DEF Task, JoinTask, LeaveTask
<1>5. \/ t = JoinTask(t.s) /\ down' = JoinTell(t.s)
      \/ t = LeaveTask(t.s) /\ down' = LeaveTell(t.s)
  BY <1>3, <1>4 DEF JoinTask, LeaveTask
<1>6. down' \in Queues
  BY <1>4, <1>5, JoinTold, LeaveTold
<1>. QED
  BY <1>1, <1>2, <1>4, <1>5, <1>6 DEF t

(* The mute and the deafen handler do the same with what the frame says.    *)
MutedFrame(s, b) == [do |-> "muted", sock |-> s, muted |-> b]

Toggles(c) ==
    LET s == Sock(c)
        h == Head(up[c]) IN
    /\ \E what \in {"mute", "deafen"} : Receives(c, what)
    /\ UNCHANGED <<roomVoiceUsers, roster, channel, tasks, crossed, roomVars, sockets, client, scope>>
    /\ DOMAIN voiceUsers' = DOMAIN voiceUsers
    /\ \A t \in DOMAIN voiceUsers : t # s => voiceUsers'[t] = voiceUsers[t]
    /\ s \notin DOMAIN voiceUsers => down' = down
    /\ s \in DOMAIN voiceUsers =>
          /\ voiceUsers'[s] \in [muted : BOOLEAN, deaf : BOOLEAN]
          /\ down' = To(down, channel, MutedFrame(s, voiceUsers'[s].muted))
          /\ Mutes(h) => voiceUsers'[s].muted
          /\ Lifts(h) => ~voiceUsers'[s].muted
          /\ ~Mutes(h) /\ ~Lifts(h) => voiceUsers'[s].muted = voiceUsers[s].muted

LEMMA MuteToggles ==
    ASSUME TypeOK, FrameType, NEW c \in Clients, handleMuteToggle(c)
    PROVE  Toggles(c)
<1>. DEFINE s == Sock(c)
            h == Head(up[c])
<1>1. Receives(c, "mute")
  BY DEF handleMuteToggle
<1>2. h.do = "mute" /\ h.to \in BOOLEAN
  BY <1>1, Received DEF UpFrame
<1>3. CASE s \in DOMAIN voiceUsers
  <2>1. /\ voiceUsers' = [voiceUsers EXCEPT ![s].muted = h.to]
        /\ down' = To(down, channel, MutedFrame(s, voiceUsers'[s].muted))
    BY <1>3 DEF handleMuteToggle, MuteStatus, MutedFrame
  <2>2. voiceUsers[s] \in [muted : BOOLEAN, deaf : BOOLEAN]
    BY <1>3 DEF TypeOK
  <2>3. voiceUsers'[s] \in [muted : BOOLEAN, deaf : BOOLEAN] /\ voiceUsers'[s].muted = h.to
    BY <2>1, <2>2, <1>2, <1>3
  <2>4. (Mutes(h) <=> h.to) /\ (Lifts(h) <=> ~h.to)
    BY <1>2 DEF Mutes, Lifts
  <2>. QED
    BY <1>1, <1>3, <2>1, <2>3, <2>4 DEF Toggles, handleMuteToggle
<1>4. CASE s \notin DOMAIN voiceUsers
  BY <1>1, <1>4 DEF Toggles, handleMuteToggle
<1>. QED
  BY <1>3, <1>4

LEMMA DeafenToggles ==
    ASSUME TypeOK, FrameType, NEW c \in Clients, handleDeafenToggle(c)
    PROVE  Toggles(c)
<1>. DEFINE s == Sock(c)
            h == Head(up[c])
<1>1. Receives(c, "deafen")
  BY DEF handleDeafenToggle
<1>2. h.do = "deafen" /\ h.to \in BOOLEAN
  BY <1>1, Received DEF UpFrame
<1>3. CASE s \in DOMAIN voiceUsers
  <2>1. /\ voiceUsers' = [voiceUsers EXCEPT ![s] = Deafen(@, h.to)]
        /\ down' = To(down, channel, MutedFrame(s, voiceUsers'[s].muted))
    BY <1>3 DEF handleDeafenToggle, MuteStatus, MutedFrame
  <2>2. voiceUsers[s] \in [muted : BOOLEAN, deaf : BOOLEAN]
    BY <1>3 DEF TypeOK
  <2>3. /\ voiceUsers'[s] \in [muted : BOOLEAN, deaf : BOOLEAN]
        /\ voiceUsers'[s].muted = (h.to \/ voiceUsers[s].muted)
    BY <2>1, <2>2, <1>2, <1>3 DEF Deafen
  <2>4. (Mutes(h) <=> h.to) /\ ~Lifts(h)
    BY <1>2 DEF Mutes, Lifts
  <2>. QED
    BY <1>1, <1>3, <2>1, <2>2, <2>3, <2>4 DEF Toggles, handleDeafenToggle
<1>4. CASE s \notin DOMAIN voiceUsers
  BY <1>1, <1>4 DEF Toggles, handleDeafenToggle
<1>. QED
  BY <1>3, <1>4

LEMMA TogglesType ==
    ASSUME TypeOK, FrameType, NEW c \in Clients, Toggles(c)
    PROVE  CallType' /\ down' \in Queues
<1>1. CASE Sock(c) \notin DOMAIN voiceUsers
  BY <1>1 DEF Toggles, CallType, TypeOK, FrameType, Queues
<1>2. CASE Sock(c) \in DOMAIN voiceUsers
  <2>1. MutedFrame(Sock(c), voiceUsers'[Sock(c)].muted) \in DownFrame
    BY <1>2, SockType, Frames DEF Toggles, MutedFrame
  <2>2. down' \in Queues
    <3>1. down \in Queues
      BY DEF FrameType, Queues
    <3>2. down' = To(down, channel, MutedFrame(Sock(c), voiceUsers'[Sock(c)].muted))
      BY <1>2 DEF Toggles
    <3>. QED
      BY <2>1, <3>1, <3>2, ToType
  <2>. QED
    BY <1>2, <2>2 DEF Toggles, CallType, TypeOK, FrameType
<1>. QED
  BY <1>1, <1>2

(* The kinds of steps.                                                      *)
Clicks(c) ==
    \/ (c \in scope.clients /\ handleJoinVoice(c)) \/ Granted(c) \/ Denied(c)
    \/ LeaveVoice(c) \/ handleToggleMute(c) \/ handleToggleDeafen(c)

LEMMA ClicksPress ==
    ASSUME TypeOK, FrameType, SockInv, NEW c \in Clients, Clicks(c)
    PROVE  Pressed(c)
<1>. QED
  BY PressJoin, PressGranted, PressDenied, PressLeave, PressMute, PressDeafen DEF Clicks

Steps ==
    \/ Continue
    \/ \E s \in sockets : handleDisconnect(s)
    \/ \E s \in answering : JoinRoomAnswer(s)
    \/ \E c \in Clients :
         \/ handleJoinVoiceChat(c) \/ handleLeaveVoice(c) \/ Toggles(c)
         \/ handleJoinRoom(c) \/ Hear(c) \/ Pressed(c) \/ Drop(c) \/ Reconnect(c)

LEMMA NextSteps ==
    ASSUME TypeOK, FrameType, SockInv, Next
    PROVE  Steps \/ \E s \in answering : JoinRoomFails(s)
<1>1. ASSUME NEW c \in Clients, handleMuteToggle(c) PROVE Steps
  BY <1>1, MuteToggles DEF Steps
<1>2. ASSUME NEW c \in Clients, handleDeafenToggle(c) PROVE Steps
  BY <1>2, DeafenToggles DEF Steps
<1>3. ASSUME NEW c \in Clients, Clicks(c) PROVE Steps
  BY <1>3, ClicksPress DEF Steps
<1>4. ASSUME NEW c \in Clients,
             handleJoinVoiceChat(c) \/ handleLeaveVoice(c) \/ handleJoinRoom(c) \/ Hear(c)
               \/ Drop(c) \/ Reconnect(c)
      PROVE  Steps
  BY <1>4 DEF Steps
<1>5. ASSUME \/ Continue
             \/ \E s \in sockets : handleDisconnect(s)
             \/ \E s \in answering : JoinRoomAnswer(s)
      PROVE  Steps
  BY <1>5 DEF Steps
<1>. QED
  BY <1>1, <1>2, <1>3, <1>4, <1>5 DEF Next, Clicks

RoomType ==
    /\ viewers \subseteq Socket /\ answering \subseteq Socket
    /\ unanswered \subseteq Socket /\ sockets \subseteq Socket
ClientType == client \in [Clients -> Client] /\ \A c \in Clients : OnePeerEach(client[c])
WireType == up \in [Clients -> Seq(UpFrame)] /\ down \in Queues

LEMMA Types == TypeOK /\ FrameType <=> CallType /\ RoomType /\ ClientType /\ WireType /\ ScopeType
<1>. QED
  BY DEF TypeOK, FrameType, CallType, RoomType, ClientType, WireType, ScopeType, Queues,
         OnePeerEach

LEMMA HearIs ==
    ASSUME TypeOK, FrameType, NEW c \in Clients, Hear(c)
    PROVE  /\ down[c] \in Seq(DownFrame) /\ down[c] # <<>>
           /\ Head(down[c]) \in DownFrame /\ Tail(down[c]) \in Seq(DownFrame)
           /\ down' \in Queues /\ down'[c] = Tail(down[c])
           /\ \A d \in Clients : d # c => down'[d] = down[d] /\ client'[d] = client[d]
           /\ client'[c] = Handled(c, Head(down[c]))
           /\ ClientType'
           /\ \A d \in Clients : Alike(client'[d], client[d])
           /\ UNCHANGED <<callVars, roomVars, sockets, up, scope>>
<1>1. down[c] \in Seq(DownFrame) /\ down[c] # <<>>
  BY DEF Hear, FrameType
<1>2. Head(down[c]) \in DownFrame /\ Tail(down[c]) \in Seq(DownFrame)
  BY <1>1, Tailing
<1>3. /\ down' = [down EXCEPT ![c] = Tail(@)]
      /\ client' = [client EXCEPT ![c] = Handled(c, Head(down[c]))]
  BY DEF Hear
<1>4. /\ Handled(c, Head(down[c])) \in Client /\ OnePeerEach(Handled(c, Head(down[c])))
      /\ Alike(Handled(c, Head(down[c])), client[c])
  BY <1>2, HandledIs
<1>5. /\ down' \in Queues /\ down'[c] = Tail(down[c])
      /\ \A d \in Clients : d # c => down'[d] = down[d]
  BY <1>2, <1>3 DEF Queues, FrameType
<1>6. /\ client' \in [Clients -> Client]
      /\ client'[c] = Handled(c, Head(down[c]))
      /\ \A d \in Clients : d # c => client'[d] = client[d]
  BY <1>3, <1>4 DEF TypeOK
<1>7. ClientType'
  BY <1>4, <1>6, ClientIs DEF ClientType
<1>8. \A d \in Clients : Alike(client'[d], client[d])
  BY <1>4, <1>6 DEF Alike
<1>. QED
  BY <1>1, <1>2, <1>5, <1>6, <1>7, <1>8 DEF Hear

LEMMA DropIs ==
    ASSUME TypeOK, FrameType, NEW c \in Clients, Drop(c)
    PROVE  /\ client[c].on /\ ~client'[c].on /\ client[c].n < MaxSockets
           /\ up'[c] = <<>> /\ down'[c] = <<>>
           /\ \A d \in Clients : d # c =>
                 up'[d] = up[d] /\ down'[d] = down[d] /\ client'[d] = client[d]
           /\ client'[c].n = client[c].n /\ client'[c].rows = client[c].rows
           /\ client'[c].muted = client[c].muted
           /\ client'[c].inVoice = client[c].inVoice /\ client'[c].stream = client[c].stream
           /\ ClientType' /\ WireType' /\ ScopeType' /\ scope'.clients = scope.clients
           /\ UNCHANGED <<callVars, roomVars, sockets>>
<1>1. client[c] \in Client /\ OnePeerEach(client[c])
  BY ClientIs
<1>. DEFINE k == [client[c] EXCEPT !.on = FALSE]
<1>2. k \in Client /\ OnePeerEach(k)
  BY <1>1 DEF Client, OnePeerEach
<1>3. /\ k.n = client[c].n /\ k.rows = client[c].rows /\ k.muted = client[c].muted
      /\ k.inVoice = client[c].inVoice /\ k.stream = client[c].stream /\ ~k.on
  BY <1>1 DEF Client
<1>4. client' = [client EXCEPT ![c] = k]
  BY DEF Drop, TypeOK
<1>. HIDE DEF k
<1>5. /\ client'[c] = k /\ client' \in [Clients -> Client]
      /\ \A d \in Clients : d # c => client'[d] = client[d]
  BY <1>2, <1>4 DEF TypeOK
<1>6. ClientType'
  BY <1>2, <1>5, ClientIs DEF ClientType
<1>7. /\ up'[c] = <<>> /\ down'[c] = <<>> /\ WireType'
      /\ \A d \in Clients : d # c => up'[d] = up[d] /\ down'[d] = down[d]
  <2>1. <<>> \in Seq(UpFrame) /\ <<>> \in Seq(DownFrame)
    BY EmptySeq
  <2>. QED
    BY <2>1 DEF Drop, FrameType, WireType, Queues
<1>8. ScopeType' /\ scope'.clients = scope.clients
  BY DEF Drop, ScopeType, TypeOK
<1>. QED
  BY <1>3, <1>5, <1>6, <1>7, <1>8 DEF Drop

LEMMA ReconnectIs ==
    ASSUME TypeOK, FrameType, SockInv, NEW c \in Clients, Reconnect(c)
    PROVE  /\ c \in scope.clients /\ ~client[c].on /\ client'[c].on
           /\ client'[c].n = client[c].n + 1
           /\ \A d \in Clients : d # c =>
                 up'[d] = up[d] /\ down'[d] = down[d] /\ client'[d] = client[d]
           /\ client'[c].rows = client[c].rows /\ client'[c].muted = client[c].muted
           /\ client'[c].inVoice = client[c].inVoice /\ client'[c].stream = client[c].stream
           /\ down' = down /\ up'[c] = Append(up[c], [do |-> "room"])
           /\ [do |-> "room"] \in UpFrame
           /\ sockets' = sockets \cup {<<c, client[c].n + 1>>}
           /\ <<c, client[c].n + 1>> \in Socket
           /\ ClientType' /\ WireType'
           /\ UNCHANGED <<callVars, roomVars, scope>>
<1>1. client[c] \in Client /\ OnePeerEach(client[c])
  BY ClientIs
<1>2. c \in scope.clients /\ ~client[c].on
  BY DEF Reconnect
<1>3. client[c].n + 1 \in 1..MaxSockets
  BY <1>1, <1>2, VoiceAssumption DEF SockInv, Client
<1>. DEFINE k == [client[c] EXCEPT !.on = TRUE, !.n = @ + 1]
<1>4. k \in Client /\ OnePeerEach(k)
  BY <1>1, <1>3 DEF Client, OnePeerEach
<1>5. /\ k.n = client[c].n + 1 /\ k.rows = client[c].rows /\ k.muted = client[c].muted
      /\ k.inVoice = client[c].inVoice /\ k.stream = client[c].stream /\ k.on
  BY <1>1 DEF Client
<1>6. client' = [client EXCEPT ![c] = k]
  BY DEF Reconnect, TypeOK
<1>. HIDE DEF k
<1>7. /\ client'[c] = k /\ client' \in [Clients -> Client]
      /\ \A d \in Clients : d # c => client'[d] = client[d]
  BY <1>4, <1>6 DEF TypeOK
<1>8. ClientType'
  BY <1>4, <1>7, ClientIs DEF ClientType
<1>9. [do |-> "room"] \in UpFrame
  BY DEF UpFrame
<1>10. /\ up' \in [Clients -> Seq(UpFrame)] /\ up'[c] = Append(up[c], [do |-> "room"])
       /\ \A d \in Clients : d # c => up'[d] = up[d]
  <2>. DEFINE f == [do |-> "room"]
  <2>1. Append(up[c], f) \in Seq(UpFrame)
    BY <1>9, Appending DEF FrameType
  <2>. QED
    BY <2>1 DEF Reconnect, FrameType
<1>11. down' = down /\ WireType' /\ UNCHANGED <<callVars, roomVars, scope>>
  BY <1>10 DEF Reconnect, WireType, FrameType, Queues
<1>12. /\ sockets' = sockets \cup {<<c, client[c].n + 1>>}
       /\ <<c, client[c].n + 1>> \in Socket
  BY <1>3 DEF Reconnect, Socket
<1>. QED
  BY <1>2, <1>5, <1>7, <1>8, <1>9, <1>10, <1>11, <1>12

LEMMA AnswerIs ==
    ASSUME TypeOK, FrameType, NEW s \in answering, JoinRoomAnswer(s)
    PROVE  /\ down' = To(down, {s}, [do |-> "roster", users |-> {On(t) : t \in roster}])
           /\ [do |-> "roster", users |-> {On(t) : t \in roster}] \in DownFrame
           /\ down' \in Queues /\ answering' = answering \ {s}
           /\ UNCHANGED <<callVars, viewers, unanswered, sockets, client, up, scope>>
<1>1. s \in Socket /\ down \in Queues
  BY DEF TypeOK, FrameType, Queues
<1>2. [do |-> "roster", users |-> {On(t) : t \in roster}] \in DownFrame
  BY <1>1, Frames
<1>. DEFINE f == [do |-> "roster", users |-> {On(t) : t \in roster}]
<1>3. down' = To(down, {s}, f)
  BY DEF JoinRoomAnswer
<1>. HIDE DEF f
<1>4. down' \in Queues
  BY <1>1, <1>2, <1>3, ToType DEF f
<1>. QED
  BY <1>2, <1>3, <1>4 DEF JoinRoomAnswer, f

LEMMA StepsType == ASSUME TypeOK, FrameType, SockInv, Steps PROVE (TypeOK /\ FrameType)'
<1>0. CallType /\ RoomType /\ ClientType /\ WireType /\ ScopeType
  BY Types
<1>. SUFFICES CallType' /\ RoomType' /\ ClientType' /\ WireType' /\ ScopeType'
  BY Types, PTL
<1>1. CASE Continue
  BY <1>0, <1>1, ContinueIs
     DEF Continue, CallType, RoomType, ClientType, WireType, ScopeType, roomVars
<1>2. ASSUME NEW s \in sockets, handleDisconnect(s)
      PROVE  CallType' /\ RoomType' /\ ClientType' /\ WireType' /\ ScopeType'
  <2>1. s \in Socket
    BY DEF TypeOK
  <2>2. CASE s \in DOMAIN voiceUsers
    BY <1>0, <1>2, <2>1, <2>2, LeaveType
       DEF handleDisconnect, RoomType, ClientType, WireType, ScopeType
  <2>3. CASE s \notin DOMAIN voiceUsers
    BY <1>0, <1>2, <2>3
       DEF handleDisconnect, CallType, RoomType, ClientType, WireType, ScopeType
  <2>. QED
    BY <2>2, <2>3
<1>3. ASSUME NEW s \in answering, JoinRoomAnswer(s)
      PROVE  CallType' /\ RoomType' /\ ClientType' /\ WireType' /\ ScopeType'
  BY <1>0, <1>3, AnswerIs
     DEF CallType, RoomType, ClientType, WireType, ScopeType, callVars
<1>4. ASSUME NEW c \in Clients, handleJoinVoiceChat(c)
      PROVE  CallType' /\ RoomType' /\ ClientType' /\ WireType' /\ ScopeType'
  <2>1. up' \in [Clients -> Seq(UpFrame)]
    BY <1>4, Received DEF handleJoinVoiceChat
  <2>. QED
    BY <1>0, <1>4, <2>1, JoinType
       DEF handleJoinVoiceChat, RoomType, ClientType, WireType, ScopeType, roomVars
<1>5. ASSUME NEW c \in Clients, handleLeaveVoice(c)
      PROVE  CallType' /\ RoomType' /\ ClientType' /\ WireType' /\ ScopeType'
  <2>1. up' \in [Clients -> Seq(UpFrame)]
    BY <1>5, Received DEF handleLeaveVoice
  <2>2. CallType'
    BY <1>5, SockType, LeaveType, OldType DEF handleLeaveVoice
  <2>. QED
    BY <1>0, <1>5, <2>1, <2>2
       DEF handleLeaveVoice, RoomType, ClientType, WireType, ScopeType, roomVars
<1>6. ASSUME NEW c \in Clients, Toggles(c)
      PROVE  CallType' /\ RoomType' /\ ClientType' /\ WireType' /\ ScopeType'
  <2>1. up' \in [Clients -> Seq(UpFrame)]
    BY <1>6, Received DEF Toggles
  <2>2. CallType' /\ down' \in Queues
    BY <1>6, TogglesType
  <2>3. UNCHANGED <<roomVars, sockets, client, scope>>
    BY <1>6 DEF Toggles
  <2>. QED
    BY <1>0, <2>1, <2>2, <2>3 DEF RoomType, ClientType, WireType, ScopeType, roomVars
<1>7. ASSUME NEW c \in Clients, handleJoinRoom(c)
      PROVE  CallType' /\ RoomType' /\ ClientType' /\ WireType' /\ ScopeType'
  <2>1. up' \in [Clients -> Seq(UpFrame)]
    BY <1>7, Received DEF handleJoinRoom
  <2>. QED
    BY <1>0, <1>7, <2>1, SockType, OldType
       DEF handleJoinRoom, RoomType, ClientType, WireType, ScopeType
<1>8. ASSUME NEW c \in Clients, Hear(c)
      PROVE  CallType' /\ RoomType' /\ ClientType' /\ WireType' /\ ScopeType'
  <2>1. /\ down' \in Queues /\ ClientType'
        /\ UNCHANGED <<callVars, roomVars, sockets, up, scope>>
    BY <1>8, HearIs
  <2>. QED
    BY <1>0, <2>1, OldType DEF RoomType, WireType, ScopeType, roomVars
<1>9. ASSUME NEW c \in Clients, Pressed(c)
      PROVE  CallType' /\ RoomType' /\ ClientType' /\ WireType' /\ ScopeType'
  <2>1. \A d \in Clients : OnePeerEach(client'[d])
    BY <1>0, <1>9 DEF Pressed, ClientType
  <2>2. /\ UNCHANGED <<voiceUsers, roomVoiceUsers, roster, channel, tasks>>
        /\ UNCHANGED <<roomVars, sockets, down>> /\ crossed' \in BOOLEAN /\ ScopeType'
        /\ client' \in [Clients -> Client] /\ up' \in [Clients -> Seq(UpFrame)]
    BY <1>9 DEF Pressed
  <2>3. CallType'
    BY <2>2 DEF CallType, TypeOK, FrameType
  <2>. QED
    BY <1>0, <2>1, <2>2, <2>3, OldType DEF RoomType, ClientType, WireType, roomVars
<1>10. ASSUME NEW c \in Clients, Drop(c)
       PROVE  CallType' /\ RoomType' /\ ClientType' /\ WireType' /\ ScopeType'
  <2>1. /\ ClientType' /\ WireType' /\ ScopeType'
        /\ UNCHANGED <<callVars, roomVars, sockets>>
    BY <1>10, DropIs
  <2>. QED
    BY <1>0, <2>1, OldType DEF RoomType, roomVars
<1>11. ASSUME NEW c \in Clients, Reconnect(c)
       PROVE  CallType' /\ RoomType' /\ ClientType' /\ WireType' /\ ScopeType'
  <2>1. /\ ClientType' /\ WireType' /\ UNCHANGED <<callVars, roomVars, scope>>
        /\ sockets' = sockets \cup {<<c, client[c].n + 1>>}
        /\ <<c, client[c].n + 1>> \in Socket
    BY <1>11, ReconnectIs
  <2>. QED
    BY <1>0, <2>1, OldType DEF RoomType, ScopeType, roomVars
<1>. QED
  BY <1>1, <1>2, <1>3, <1>4, <1>5, <1>6, <1>7, <1>8, <1>9, <1>10, <1>11 DEF Steps

-----------------------------------------------------------------------------
(* Sockets and the call.                                                    *)

Serves ==
    \/ Continue
    \/ \E s \in sockets : handleDisconnect(s)
    \/ \E s \in answering : JoinRoomAnswer(s)
    \/ \E c \in Clients : handleJoinVoiceChat(c) \/ handleLeaveVoice(c) \/ Toggles(c)
                            \/ handleJoinRoom(c)

LEMMA ServesIs ==
    ASSUME TypeOK, Serves
    PROVE  /\ client' = client /\ scope' = scope /\ sockets' \subseteq sockets
           /\ \A c \in Clients : client[c].on /\ Sock(c) \in sockets => Sock(c) \in sockets'
<1>1. CASE Continue
  BY <1>1 DEF Continue
<1>2. ASSUME NEW s \in sockets, handleDisconnect(s)
      PROVE  /\ client' = client /\ scope' = scope /\ sockets' \subseteq sockets
             /\ \A c \in Clients : client[c].on /\ Sock(c) \in sockets => Sock(c) \in sockets'
  BY <1>2 DEF handleDisconnect, Sock
<1>3. CASE \E s \in answering : JoinRoomAnswer(s)
  BY <1>3 DEF JoinRoomAnswer
<1>4. CASE \E c \in Clients : handleJoinVoiceChat(c) \/ handleLeaveVoice(c) \/ Toggles(c)
                                \/ handleJoinRoom(c)
  BY <1>4 DEF handleJoinVoiceChat, handleLeaveVoice, Toggles, handleJoinRoom
<1>. QED
  BY <1>1, <1>2, <1>3, <1>4 DEF Serves

LEMMA StepsKinds ==
    ASSUME Steps
    PROVE  \/ Serves
           \/ \E c \in Clients : Hear(c) \/ Pressed(c) \/ Drop(c) \/ Reconnect(c)
<1>. QED
  BY DEF Steps, Serves

LEMMA NextSock == ASSUME TypeOK, FrameType, SockInv, Steps PROVE SockInv'
<1>1. CASE Serves
  BY <1>1, ServesIs DEF SockInv, Past, Sock
<1>2. ASSUME NEW c \in Clients, Hear(c) PROVE SockInv'
  <2>1. /\ \A d \in Clients : Alike(client'[d], client[d])
        /\ sockets' = sockets /\ scope' = scope
    BY <1>2, HearIs
  <2>2. \A s \in sockets : s[1] \in Clients
    BY DEF TypeOK, Socket
  <2>. QED
    BY <2>1, <2>2 DEF SockInv, Past, Sock, Alike
<1>3. ASSUME NEW c \in Clients, Pressed(c) PROVE SockInv'
  <2>1. /\ sockets' = sockets /\ scope'.clients = scope.clients
        /\ \A d \in Clients : client'[d].n = client[d].n /\ client'[d].on = client[d].on
        /\ \A d \in Clients : client'[d].inVoice => client'[d].stream
    BY <1>3 DEF Pressed, SockInv
  <2>2. \A s \in sockets : s[1] \in Clients
    BY DEF TypeOK, Socket
  <2>. QED
    BY <2>1, <2>2 DEF SockInv, Past, Sock
<1>4. ASSUME NEW c \in Clients, Drop(c) PROVE SockInv'
  <2>1. /\ sockets' = sockets /\ scope'.clients = scope.clients
        /\ \A d \in Clients : client'[d].n = client[d].n
        /\ \A d \in Clients : client'[d].on => client[d].on
        /\ \A d \in Clients : client'[d].inVoice => client'[d].stream
        /\ \A d \in Clients : d # c => client'[d] = client[d]
        /\ client'[c].n < MaxSockets
    BY <1>4, DropIs DEF SockInv
  <2>2. \A s \in sockets : s[1] \in Clients
    BY DEF TypeOK, Socket
  <2>. QED
    BY <2>1, <2>2 DEF SockInv, Past, Sock
<1>5. ASSUME NEW c \in Clients, Reconnect(c) PROVE SockInv'
  <2>1. /\ sockets' = sockets \cup {<<c, client[c].n + 1>>} /\ scope' = scope
        /\ c \in scope.clients
        /\ client'[c].n = client[c].n + 1 /\ client'[c].on
        /\ \A d \in Clients : d # c => client'[d] = client[d]
        /\ client'[c].inVoice => client'[c].stream
    BY <1>5, ReconnectIs DEF SockInv
  <2>2. \A s \in sockets : s[1] \in Clients
    BY DEF TypeOK, Socket
  <2>3. client[c].n \in Nat
    BY ClientIs DEF Client
  <2>4. \A s \in sockets : s[2] <= client[s[1]].n => s[2] <= client'[s[1]].n
    <3>1. \A s \in sockets : s[2] \in Nat
      BY DEF TypeOK, Socket
    <3>. QED
      BY <2>1, <2>2, <2>3, <3>1
  <2>5. \A s \in sockets' : s[1] \in scope.clients /\ s[2] <= client'[s[1]].n
    BY <2>1, <2>3, <2>4 DEF SockInv, Past
  <2>6. \A d \in Clients : client'[d].on => <<d, client'[d].n>> \in sockets'
    BY <2>1 DEF SockInv, Sock
  <2>7. \A d \in Clients : d \in scope.clients /\ ~client'[d].on => client'[d].n < MaxSockets
    BY <2>1 DEF SockInv
  <2>8. \A d \in Clients : client'[d].inVoice => client'[d].stream
    BY <2>1 DEF SockInv
  <2>. QED
    BY <2>1, <2>5, <2>6, <2>7, <2>8 DEF SockInv, Past, Sock
<1>. QED
  BY <1>1, <1>2, <1>3, <1>4, <1>5, StepsKinds

(* The steps that leave the call alone.                                     *)
LEMMA CallAlone ==
    ASSUME TypeOK, FrameType, SockInv,
           \/ \E s \in answering : JoinRoomAnswer(s)
           \/ \E c \in Clients : \/ Toggles(c) \/ handleJoinRoom(c) \/ Hear(c)
                                 \/ Pressed(c) \/ Drop(c) \/ Reconnect(c)
    PROVE  /\ DOMAIN voiceUsers' = DOMAIN voiceUsers
           /\ UNCHANGED <<roomVoiceUsers, roster, channel, tasks>>
           /\ sockets \subseteq sockets'
<1>1. CASE \E s \in answering : JoinRoomAnswer(s)
  BY <1>1 DEF JoinRoomAnswer, callVars
<1>2. CASE \E c \in Clients : Toggles(c) \/ handleJoinRoom(c)
  BY <1>2 DEF Toggles, handleJoinRoom, callVars
<1>3. CASE \E c \in Clients : Hear(c) \/ Pressed(c) \/ Drop(c)
  BY <1>3 DEF Hear, Pressed, Drop, callVars
<1>4. CASE \E c \in Clients : Reconnect(c)
  BY <1>4 DEF Reconnect, callVars
<1>. QED
  BY <1>1, <1>2, <1>3, <1>4

LEMMA TaskAdded ==
    ASSUME FrameType, NEW t \in Task, tasks' = Append(tasks, t)
    PROVE  /\ Len(tasks) \in Nat /\ Len(tasks') = Len(tasks) + 1
           /\ \A k \in 1..Len(tasks) : tasks'[k] = tasks[k]
           /\ tasks'[Len(tasks) + 1] = t
<1>. QED
  BY Appending DEF FrameType

LEMMA TasksDiffer == \A s, t : JoinTask(s) # LeaveTask(t)
<1>. QED
  BY DEF JoinTask, LeaveTask

LEMMA JoinCalls ==
    ASSUME TypeOK, FrameType, SockInv, CallInv, TaskInv, NEW c \in Clients,
           handleJoinVoiceChat(c)
    PROVE  CallInv' /\ TaskInv'
<1>. DEFINE s == Sock(c)
<1>1. client[c].on /\ s \in Socket /\ s \in sockets
  BY SockType DEF handleJoinVoiceChat, Receives, SockInv
<1>2. tasks' = Append(tasks, JoinTask(s)) /\ roster' = roster \cup {s}
  BY DEF handleJoinVoiceChat, JoinTask
<1>3. JoinTask(s) \in Task
  BY <1>1 DEF JoinTask, Task
<1>. HIDE DEF s
<1>4. CallInv'
  BY <1>1 DEF handleJoinVoiceChat, CallInv, RosterIsTheCall, s
<1>5. /\ Len(tasks) \in Nat /\ Len(tasks') = Len(tasks) + 1
      /\ \A k \in 1..Len(tasks) : tasks'[k] = tasks[k]
      /\ tasks'[Len(tasks) + 1] = JoinTask(s)
  BY <1>2, <1>3, TaskAdded
<1>6. ASSUME NEW r \in roster', NEW k \in 1..Len(tasks'), tasks'[k] = LeaveTask(r)
      PROVE  \E m \in 1..Len(tasks') : m > k /\ tasks'[m] = JoinTask(r)
  <2>1. k \in 1..Len(tasks)
    BY <1>5, <1>6, TasksDiffer
  <2>2. CASE r = s
    BY <2>1, <2>2, <1>5
  <2>3. CASE r \in roster
    <3>1. PICK m \in 1..Len(tasks) : m > k /\ tasks[m] = JoinTask(r)
      BY <2>1, <2>3, <1>5, <1>6 DEF TaskInv
    <3>. QED
      BY <3>1, <1>5
  <2>. QED
    BY <2>2, <2>3, <1>2
<1>. QED
  BY <1>4, <1>6 DEF TaskInv

LEMMA LeaveCalls ==
    ASSUME TypeOK, FrameType, CallInv, TaskInv, NEW s \in Socket, LeaveMaps(s),
           sockets' = sockets \/ sockets' = sockets \ {s}
    PROVE  CallInv' /\ TaskInv'
<1>1. tasks' = Append(tasks, LeaveTask(s)) /\ roster' = roster \ {s}
  BY DEF LeaveMaps, LeaveTask
<1>2. LeaveTask(s) \in Task
  BY DEF LeaveTask, Task
<1>3. CallInv'
  BY DEF LeaveMaps, CallInv, RosterIsTheCall
<1>4. /\ Len(tasks) \in Nat /\ Len(tasks') = Len(tasks) + 1
      /\ \A k \in 1..Len(tasks) : tasks'[k] = tasks[k]
      /\ tasks'[Len(tasks) + 1] = LeaveTask(s)
  BY <1>1, <1>2, TaskAdded
<1>5. ASSUME NEW r \in roster', NEW k \in 1..Len(tasks'), tasks'[k] = LeaveTask(r)
      PROVE  \E m \in 1..Len(tasks') : m > k /\ tasks'[m] = JoinTask(r)
  <2>1. r # s /\ r \in roster
    BY <1>1
  <2>2. k \in 1..Len(tasks)
    BY <2>1, <1>4, <1>5 DEF LeaveTask
  <2>3. PICK m \in 1..Len(tasks) : m > k /\ tasks[m] = JoinTask(r)
    BY <2>1, <2>2, <1>4, <1>5 DEF TaskInv
  <2>. QED
    BY <2>3, <1>4
<1>. QED
  BY <1>3, <1>5 DEF TaskInv

LEMMA ContinueCalls ==
    ASSUME TypeOK, FrameType, CallInv, TaskInv, Continue
    PROVE  CallInv' /\ TaskInv'
<1>1. CallInv' /\ roster' = roster
  BY DEF Continue, CallInv, RosterIsTheCall
<1>2. tasks \in Seq(Task) /\ tasks # <<>> /\ tasks' = Tail(tasks)
  BY DEF Continue, FrameType
<1>3. /\ Len(tasks) \in Nat \ {0} /\ Len(tasks') = Len(tasks) - 1
      /\ \A k \in 1..Len(tasks') : tasks'[k] = tasks[k + 1]
  BY <1>2, Tailing
<1>4. ASSUME NEW r \in roster', NEW k \in 1..Len(tasks'), tasks'[k] = LeaveTask(r)
      PROVE  \E m \in 1..Len(tasks') : m > k /\ tasks'[m] = JoinTask(r)
  <2>1. PICK m \in 1..Len(tasks) : m > k + 1 /\ tasks[m] = JoinTask(r)
    BY <1>1, <1>3, <1>4 DEF TaskInv
  <2>2. m - 1 \in 1..Len(tasks') /\ m - 1 > k /\ tasks'[m - 1] = JoinTask(r)
    BY <2>1, <1>3
  <2>. QED
    BY <2>2
<1>. QED
  BY <1>1, <1>4 DEF TaskInv

LEMMA NextCall ==
    ASSUME TypeOK, FrameType, SockInv, CallInv, TaskInv, Steps
    PROVE  CallInv' /\ TaskInv'
<1>1. CASE Continue
  BY <1>1, ContinueCalls
<1>2. ASSUME NEW s \in sockets, handleDisconnect(s) PROVE CallInv' /\ TaskInv'
  <2>1. s \in Socket /\ sockets' = sockets \ {s}
    BY <1>2 DEF TypeOK, handleDisconnect
  <2>2. CASE s \in DOMAIN voiceUsers
    BY <1>2, <2>1, <2>2, LeaveCalls DEF handleDisconnect
  <2>3. CASE s \notin DOMAIN voiceUsers
    BY <1>2, <2>1, <2>3 DEF handleDisconnect, CallInv, RosterIsTheCall, TaskInv
  <2>. QED
    BY <2>2, <2>3
<1>3. ASSUME NEW c \in Clients, handleJoinVoiceChat(c) PROVE CallInv' /\ TaskInv'
  BY <1>3, JoinCalls
<1>4. ASSUME NEW c \in Clients, handleLeaveVoice(c) PROVE CallInv' /\ TaskInv'
  <2>1. CASE Sock(c) \in DOMAIN voiceUsers
    BY <1>4, <2>1, SockType, LeaveCalls DEF handleLeaveVoice
  <2>2. CASE Sock(c) \notin DOMAIN voiceUsers
    BY <1>4, <2>2 DEF handleLeaveVoice, callVars, CallInv, RosterIsTheCall, TaskInv
  <2>. QED
    BY <2>1, <2>2
<1>5. CASE \/ \E s \in answering : JoinRoomAnswer(s)
           \/ \E c \in Clients : \/ Toggles(c) \/ handleJoinRoom(c) \/ Hear(c)
                                 \/ Pressed(c) \/ Drop(c) \/ Reconnect(c)
  <2>1. /\ DOMAIN voiceUsers' = DOMAIN voiceUsers
        /\ UNCHANGED <<roomVoiceUsers, roster, channel, tasks>>
        /\ sockets \subseteq sockets'
    BY <1>5, CallAlone
  <2>. QED
    BY <2>1 DEF CallInv, RosterIsTheCall, TaskInv
<1>. QED
  BY <1>1, <1>2, <1>3, <1>4, <1>5 DEF Steps

-----------------------------------------------------------------------------
(* What is on its way to the server.                                        *)

LEMMA AsksTaken ==
    ASSUME FrameType, NEW c \in Clients, NEW w, Receives(c, w), NEW W, w \notin W,
           NEW d \in Clients
    PROVE  Asks(d, W)' <=> Asks(d, W)
<1>1. CASE d # c
  BY <1>1, Received DEF Asks
<1>2. CASE d = c
  <2>1. /\ up[c] \in Seq(UpFrame) /\ up[c] # <<>> /\ up'[c] = Tail(up[c])
        /\ Head(up[c]).do = w
    BY Received
  <2>2. /\ Len(up[c]) \in Nat \ {0} /\ Len(up'[c]) = Len(up[c]) - 1
        /\ \A k \in 1..Len(up'[c]) : up'[c][k] = up[c][k + 1]
        /\ Head(up[c]) = up[c][1]
    BY <2>1, Tailing
  <2>3. ASSUME NEW k \in 1..Len(up[c]), up[c][k].do \in W
        PROVE  \E j \in 1..Len(up'[c]) : up'[c][j].do \in W
    <3>1. k # 1
      BY <2>1, <2>2, <2>3
    <3>2. k - 1 \in 1..Len(up'[c]) /\ up'[c][k - 1] = up[c][k]
      BY <2>2, <3>1
    <3>. QED
      BY <3>2, <2>3
  <2>4. ASSUME NEW k \in 1..Len(up'[c]), up'[c][k].do \in W
        PROVE  \E j \in 1..Len(up[c]) : up[c][j].do \in W
    <3>1. k + 1 \in 1..Len(up[c]) /\ up'[c][k] = up[c][k + 1]
      BY <2>2
    <3>. QED
      BY <3>1, <2>4
  <2>. QED
    BY <1>2, <2>3, <2>4 DEF Asks
<1>. QED
  BY <1>1, <1>2

LEMMA AsksPressed ==
    ASSUME FrameType, NEW c \in Clients, Pressed(c), NEW W, NEW d \in Clients
    PROVE  Asks(d, W) => Asks(d, W)'
<1>1. CASE d # c
  BY <1>1 DEF Pressed, Asks
<1>2. CASE d = c
  <2>1. /\ Len(up[c]) \in Nat /\ Len(up'[c]) \in Nat /\ Len(up[c]) <= Len(up'[c])
        /\ \A k \in 1..Len(up[c]) : up'[c][k] = up[c][k]
    BY LenProperties DEF Pressed, Extends, FrameType
  <2>. QED
    BY <2>1, <1>2 DEF Asks
<1>. QED
  BY <1>1, <1>2

LEMMA AsksReconnect ==
    ASSUME TypeOK, FrameType, SockInv, NEW c \in Clients, Reconnect(c)
    PROVE  /\ Asks(c, {"room"})'
           /\ \A W : \A d \in Clients : Asks(d, W) => Asks(d, W)'
<1>. DEFINE f == [do |-> "room"]
<1>1. /\ up'[c] = Append(up[c], f) /\ f \in UpFrame
      /\ \A d \in Clients : d # c => up'[d] = up[d]
  BY ReconnectIs
<1>2. f.do = "room"
  OBVIOUS
<1>. HIDE DEF f
<1>3. /\ Len(up[c]) \in Nat /\ Len(up'[c]) = Len(up[c]) + 1
      /\ \A k \in 1..Len(up[c]) : up'[c][k] = up[c][k]
      /\ up'[c][Len(up[c]) + 1] = f
  BY <1>1, Appending DEF FrameType
<1>. QED
  BY <1>1, <1>2, <1>3 DEF Asks

-----------------------------------------------------------------------------
(* Who sees who is on the call.                                             *)

LEMMA NextView == ASSUME TypeOK, FrameType, SockInv, ViewInv, Steps PROVE ViewInv'
<1>. SUFFICES ASSUME NEW d \in Clients, InRoom(d)'
              PROVE  Sock(d)' \in viewers'
  BY DEF ViewInv
<1>1. CASE Continue
  BY <1>1 DEF Continue, ViewInv, InRoom, Asks, Sock, roomVars
<1>2. ASSUME NEW s \in sockets, handleDisconnect(s) PROVE Sock(d)' \in viewers'
  BY <1>2 DEF handleDisconnect, ViewInv, InRoom, Asks, Sock
<1>3. ASSUME NEW s \in answering, JoinRoomAnswer(s) PROVE Sock(d)' \in viewers'
  BY <1>3 DEF JoinRoomAnswer, ViewInv, InRoom, Asks, Sock
<1>4. ASSUME NEW c \in Clients,
             handleJoinVoiceChat(c) \/ handleLeaveVoice(c) \/ Toggles(c)
      PROVE  Sock(d)' \in viewers'
  <2>1. PICK w \in {"join", "leave", "mute", "deafen"} : Receives(c, w)
    BY <1>4 DEF handleJoinVoiceChat, handleLeaveVoice, Toggles
  <2>2. client' = client /\ viewers' = viewers
    BY <1>4 DEF handleJoinVoiceChat, handleLeaveVoice, Toggles, roomVars
  <2>3. Asks(d, {"room"})' <=> Asks(d, {"room"})
    BY <2>1, AsksTaken
  <2>4. InRoom(d)
    BY <2>2, <2>3 DEF InRoom
  <2>. QED
    BY <2>2, <2>4 DEF ViewInv, Sock
<1>5. ASSUME NEW c \in Clients, handleJoinRoom(c) PROVE Sock(d)' \in viewers'
  <2>1. client' = client /\ viewers' = viewers \cup {Sock(c)}
    BY <1>5 DEF handleJoinRoom
  <2>2. CASE d = c
    BY <2>1, <2>2 DEF Sock
  <2>3. CASE d # c
    <3>1. InRoom(d)
      BY <1>5, <2>1, <2>3, Received DEF InRoom, Asks, handleJoinRoom
    <3>. QED
      BY <3>1, <2>1 DEF ViewInv, Sock
  <2>. QED
    BY <2>2, <2>3
<1>6. ASSUME NEW c \in Clients, Hear(c) PROVE Sock(d)' \in viewers'
  <2>1. Alike(client'[d], client[d]) /\ up' = up /\ viewers' = viewers
    BY <1>6, HearIs DEF roomVars
  <2>. QED
    BY <2>1 DEF ViewInv, InRoom, Asks, Sock, Alike
<1>7. ASSUME NEW c \in Clients, Pressed(c) PROVE Sock(d)' \in viewers'
  <2>1. /\ client'[d].n = client[d].n /\ client'[d].on = client[d].on /\ viewers' = viewers
    BY <1>7 DEF Pressed, roomVars
  <2>2. InRoom(d)
    BY <1>7, <2>1, AsksPressed DEF InRoom
  <2>. QED
    BY <2>1, <2>2 DEF ViewInv, Sock
<1>8. ASSUME NEW c \in Clients, Drop(c) PROVE Sock(d)' \in viewers'
  <2>1. d # c /\ viewers' = viewers /\ client'[d] = client[d] /\ up'[d] = up[d]
    BY <1>8, DropIs DEF InRoom, roomVars
  <2>. QED
    BY <2>1 DEF ViewInv, InRoom, Asks, Sock
<1>9. ASSUME NEW c \in Clients, Reconnect(c) PROVE Sock(d)' \in viewers'
  <2>1. d # c
    BY <1>9, AsksReconnect DEF InRoom
  <2>2. viewers' = viewers /\ client'[d] = client[d] /\ up'[d] = up[d]
    BY <1>9, <2>1, ReconnectIs DEF roomVars
  <2>. QED
    BY <2>2 DEF ViewInv, InRoom, Asks, Sock
<1>. QED
  BY <1>1, <1>2, <1>3, <1>4, <1>5, <1>6, <1>7, <1>8, <1>9 DEF Steps

CallFrames == {m \in RosterFrames : m.users = Call}
Sees(q, x) == EndsIn(q, RosterFrames, CallFrames, x, {Call})

LEMMA ShowIs ==
    ShowInv <=>
        \A c \in Clients :
            InRoom(c) /\ Sock(c) \notin answering \cup unanswered /\ tasks = <<>> =>
                Sees(down[c], client[c].onCall)
<1>. QED
  BY DEF ShowInv, Sees, CallFrames

(* After a continuation everybody in the room is told.                      *)
LEMMA ContinueShows ==
    ASSUME TypeOK, FrameType, CallInv, ViewInv, Continue, NEW d \in Clients, InRoom(d)
    PROVE  Sees(down'[d], client[d].onCall)
<1>. DEFINE s == Head(tasks).s
<1>1. s \in Socket /\ (down' = JoinTell(s) \/ down' = LeaveTell(s))
  BY ContinueIs
<1>. HIDE DEF s
<1>2. client[d].on /\ Sock(d) \in viewers
  BY DEF InRoom, ViewInv
<1>3. RosterFrame \in RosterFrames /\ RosterFrame \in CallFrames
  <2>1. RosterFrame.users = Call /\ RosterFrame.do = "roster"
    BY DEF RosterFrame, Call, CallInv, RosterIsTheCall
  <2>2. RosterFrame \in DownFrame
    BY <1>1, Frames
  <2>3. RosterFrame \in RosterFrames
    BY <2>1, <2>2 DEF RosterFrames, DownFrame
  <2>. QED
    BY <2>1, <2>3 DEF CallFrames
<1>4. /\ RosterFrame \in DownFrame
      /\ JoinedFrame(s) \in DownFrame /\ JoinedFrame(s) \notin RosterFrames
      /\ LeftFrame(s) \in DownFrame /\ LeftFrame(s) \notin RosterFrames
  BY <1>1, Frames DEF RosterFrames, JoinedFrame, LeftFrame
<1>5. CASE down' = JoinTell(s)
  <2>. DEFINE q == To(down, {s}, ListFor(s))
  <2>1. q \in Queues /\ To(q, viewers, RosterFrame) \in Queues
    BY <1>1, JoinTold
  <2>. HIDE DEF q
  <2>2. Sees(To(q, viewers, RosterFrame)[d], client[d].onCall)
    BY <2>1, <1>2, <1>3, <1>4, ToSet DEF Sees
  <2>3. Sees(To(To(q, viewers, RosterFrame), channel \ {s}, JoinedFrame(s))[d], client[d].onCall)
    BY <2>1, <2>2, <1>4, ToKept DEF Sees
  <2>. QED
    BY <2>3, <1>5, JoinTellIs DEF q
<1>6. CASE down' = LeaveTell(s)
  <2>1. down \in Queues /\ To(down, viewers, RosterFrame) \in Queues
    BY <1>1, LeaveTold DEF FrameType, Queues
  <2>2. Sees(To(down, viewers, RosterFrame)[d], client[d].onCall)
    BY <2>1, <1>2, <1>3, <1>4, ToSet DEF Sees
  <2>3. Sees(To(To(down, viewers, RosterFrame), channel \ {s}, LeftFrame(s))[d], client[d].onCall)
    BY <2>1, <2>2, <1>4, ToKept DEF Sees
  <2>. QED
    BY <2>3, <1>6, LeaveTellIs
<1>. QED
  BY <1>1, <1>5, <1>6

LEMMA AnswerShows ==
    ASSUME TypeOK, FrameType, ShowInv, tasks = <<>>, NEW s \in answering, JoinRoomAnswer(s),
           NEW d \in Clients, InRoom(d), Sock(d) \notin answering' \cup unanswered
    PROVE  Sees(down'[d], client[d].onCall)
<1>. DEFINE f == [do |-> "roster", users |-> {On(t) : t \in roster}]
<1>1. f.do = "roster" /\ f.users = Call
  BY DEF Call
<1>2. down' = To(down, {s}, f) /\ f \in DownFrame /\ answering' = answering \ {s}
  BY AnswerIs
<1>. HIDE DEF f
<1>3. f \in RosterFrames /\ f \in CallFrames
  BY <1>1, <1>2 DEF RosterFrames, DownFrame, CallFrames
<1>4. down \in Queues
  BY DEF FrameType, Queues
<1>5. CASE Sock(d) = s
  BY <1>2, <1>3, <1>4, <1>5, ToSet DEF Sees, InRoom
<1>6. CASE Sock(d) # s
  <2>1. Sees(down[d], client[d].onCall)
    BY <1>2, <1>6, ShowIs
  <2>. QED
    BY <2>1, <1>2, <1>3, <1>4, ToKept DEF Sees
<1>. QED
  BY <1>5, <1>6

LEMMA HearShows ==
    ASSUME TypeOK, FrameType, NEW c \in Clients, Hear(c), Sees(down[c], client[c].onCall)
    PROVE  Sees(down'[c], client'[c].onCall)
<1>. DEFINE m == Head(down[c])
<1>1. /\ down[c] \in Seq(DownFrame) /\ down[c] # <<>> /\ m \in DownFrame
      /\ down'[c] = Tail(down[c]) /\ client'[c] = Handled(c, m)
  BY HearIs
<1>2. client'[c].onCall = IF m.do = "roster" THEN m.users ELSE client[c].onCall
  BY <1>1, HandledIs
<1>3. m \in RosterFrames /\ m \in CallFrames => client'[c].onCall \in {Call}
  BY <1>2 DEF RosterFrames, CallFrames
<1>4. m \notin RosterFrames => client'[c].onCall = client[c].onCall
  BY <1>1, <1>2 DEF RosterFrames, DownFrame
<1>. QED
  BY <1>1, <1>3, <1>4, EndsTaken DEF Sees

LEMMA NextShow ==
    ASSUME TypeOK, FrameType, SockInv, CallInv, ViewInv, ShowInv, Steps
    PROVE  ShowInv'
<1>. SUFFICES ASSUME NEW d \in Clients,
                     InRoom(d)', Sock(d)' \notin answering' \cup unanswered', tasks' = <<>>
              PROVE  Sees(down[d], client[d].onCall)'
  BY DEF ShowInv, Sees, CallFrames
<1>0. ASSUME roster' = roster, Sees(down'[d], client'[d].onCall)
      PROVE  Sees(down[d], client[d].onCall)'
  <2>1. Call' = Call /\ CallFrames' = CallFrames
    BY <1>0 DEF Call, CallFrames, On
  <2>. QED
    BY <1>0, <2>1 DEF Sees
<1>. SUFFICES roster' = roster /\ Sees(down'[d], client'[d].onCall)
  BY <1>0
<1>a. ASSUME NEW t \in Task, tasks' = Append(tasks, t) PROVE FALSE
  <2>1. Len(tasks) \in Nat /\ Len(tasks') = Len(tasks) + 1
    BY <1>a, TaskAdded
  <2>2. Len(tasks') = 0
    OBVIOUS
  <2>. QED
    BY <2>1, <2>2
<1>1. CASE Continue
  <2>1. client' = client /\ roster' = roster /\ up' = up
    BY <1>1 DEF Continue
  <2>2. InRoom(d)
    BY <2>1 DEF InRoom, Asks
  <2>. QED
    BY <1>1, <2>1, <2>2, ContinueShows
<1>2. ASSUME NEW s \in sockets, handleDisconnect(s)
      PROVE  roster' = roster /\ Sees(down'[d], client'[d].onCall)
  <2>1. s \notin DOMAIN voiceUsers
    <3>1. s \in Socket
      BY DEF TypeOK
    <3>. SUFFICES ASSUME s \in DOMAIN voiceUsers PROVE FALSE
      OBVIOUS
    <3>2. tasks' = Append(tasks, LeaveTask(s)) /\ LeaveTask(s) \in Task
      BY <1>2, <3>1 DEF handleDisconnect, LeaveMaps, LeaveTask, Task
    <3>. QED
      BY <3>2, <1>a
  <2>2. /\ roster' = roster /\ client' = client /\ down' = down /\ up' = up
        /\ tasks' = tasks /\ answering' = answering /\ unanswered' = unanswered
    BY <1>2, <2>1 DEF handleDisconnect
  <2>. QED
    BY <2>2, ShowIs DEF InRoom, Asks, Sock
<1>3. ASSUME NEW s \in answering, JoinRoomAnswer(s)
      PROVE  roster' = roster /\ Sees(down'[d], client'[d].onCall)
  <2>1. /\ client' = client /\ roster' = roster /\ up' = up /\ tasks' = tasks
        /\ unanswered' = unanswered
    BY <1>3 DEF JoinRoomAnswer, callVars
  <2>2. InRoom(d) /\ Sock(d) \notin answering' \cup unanswered
    BY <2>1 DEF InRoom, Asks, Sock
  <2>. QED
    BY <1>3, <2>1, <2>2, AnswerShows
<1>4. ASSUME NEW c \in Clients, handleJoinVoiceChat(c) PROVE FALSE
  <2>1. tasks' = Append(tasks, JoinTask(Sock(c))) /\ JoinTask(Sock(c)) \in Task
    BY <1>4, SockType DEF handleJoinVoiceChat, JoinTask, Task
  <2>. QED
    BY <2>1, <1>a
<1>5. ASSUME NEW c \in Clients, handleLeaveVoice(c)
      PROVE  roster' = roster /\ Sees(down'[d], client'[d].onCall)
  <2>1. Sock(c) \notin DOMAIN voiceUsers
    <3>. SUFFICES ASSUME Sock(c) \in DOMAIN voiceUsers PROVE FALSE
      OBVIOUS
    <3>1. tasks' = Append(tasks, LeaveTask(Sock(c))) /\ LeaveTask(Sock(c)) \in Task
      BY <1>5, SockType DEF handleLeaveVoice, LeaveMaps, LeaveTask, Task
    <3>. QED
      BY <3>1, <1>a
  <2>2. /\ roster' = roster /\ client' = client /\ down' = down
        /\ tasks' = tasks /\ answering' = answering /\ unanswered' = unanswered
    BY <1>5, <2>1 DEF handleLeaveVoice, callVars, roomVars
  <2>3. Asks(d, {"room"})' <=> Asks(d, {"room"})
    <3>1. Receives(c, "leave") /\ "leave" \notin {"room"}
      BY <1>5 DEF handleLeaveVoice
    <3>. QED
      BY <3>1, AsksTaken
  <2>. QED
    BY <2>2, <2>3, ShowIs DEF InRoom, Sock
<1>6. ASSUME NEW c \in Clients, Toggles(c)
      PROVE  roster' = roster /\ Sees(down'[d], client'[d].onCall)
  <2>1. /\ roster' = roster /\ client' = client
        /\ tasks' = tasks /\ answering' = answering /\ unanswered' = unanswered
    BY <1>6 DEF Toggles, roomVars
  <2>2. Asks(d, {"room"})' <=> Asks(d, {"room"})
    BY <1>6, AsksTaken DEF Toggles
  <2>3. Sees(down[d], client[d].onCall)
    BY <2>1, <2>2, ShowIs DEF InRoom, Sock
  <2>4. CASE Sock(c) \in DOMAIN voiceUsers
    <3>. DEFINE m == MutedFrame(Sock(c), voiceUsers'[Sock(c)].muted)
    <3>1. down' = To(down, channel, m) /\ down \in Queues
      BY <1>6, <2>4 DEF Toggles, FrameType, Queues
    <3>2. m \in DownFrame /\ m \notin RosterFrames
      BY <1>6, <2>4, SockType, Frames DEF Toggles, MutedFrame, RosterFrames
    <3>. HIDE DEF m
    <3>3. Sees(down'[d], client[d].onCall)
      BY <2>3, <3>1, <3>2, ToKept DEF Sees
    <3>. QED
      BY <2>1, <3>3
  <2>5. CASE Sock(c) \notin DOMAIN voiceUsers
    BY <1>6, <2>1, <2>3, <2>5 DEF Toggles
  <2>. QED
    BY <2>4, <2>5
<1>7. ASSUME NEW c \in Clients, handleJoinRoom(c)
      PROVE  roster' = roster /\ Sees(down'[d], client'[d].onCall)
  <2>1. /\ roster' = roster /\ client' = client /\ down' = down
        /\ tasks' = tasks /\ answering' = answering \cup {Sock(c)}
        /\ unanswered' = unanswered
    BY <1>7 DEF handleJoinRoom, callVars
  <2>2. d # c
    BY <2>1 DEF Sock
  <2>3. InRoom(d)
    BY <1>7, <2>1, <2>2, Received DEF InRoom, Asks, handleJoinRoom
  <2>. QED
    BY <2>1, <2>3, ShowIs DEF Sock
<1>8. ASSUME NEW c \in Clients, Hear(c)
      PROVE  roster' = roster /\ Sees(down'[d], client'[d].onCall)
  <2>1. /\ Alike(client'[d], client[d]) /\ up' = up /\ roster' = roster
        /\ tasks' = tasks /\ answering' = answering /\ unanswered' = unanswered
        /\ d # c => down'[d] = down[d] /\ client'[d] = client[d]
    BY <1>8, HearIs DEF roomVars, callVars
  <2>2. Sees(down[d], client[d].onCall)
    BY <2>1, ShowIs DEF InRoom, Asks, Sock, Alike
  <2>. QED
    BY <1>8, <2>1, <2>2, HearShows
<1>9. ASSUME NEW c \in Clients, Pressed(c)
      PROVE  roster' = roster /\ Sees(down'[d], client'[d].onCall)
  <2>1. /\ client'[d].n = client[d].n /\ client'[d].on = client[d].on
        /\ client'[d].onCall = client[d].onCall
        /\ down' = down /\ roster' = roster /\ tasks' = tasks /\ answering' = answering /\ unanswered' = unanswered
    BY <1>9 DEF Pressed, roomVars, callVars
  <2>2. InRoom(d)
    BY <1>9, <2>1, AsksPressed DEF InRoom
  <2>. QED
    BY <2>1, <2>2, ShowIs DEF Sock
<1>10. ASSUME NEW c \in Clients, Drop(c)
       PROVE  roster' = roster /\ Sees(down'[d], client'[d].onCall)
  <2>1. /\ d # c /\ client'[d] = client[d] /\ up'[d] = up[d] /\ down'[d] = down[d]
        /\ roster' = roster /\ tasks' = tasks /\ answering' = answering /\ unanswered' = unanswered
    BY <1>10, DropIs DEF InRoom, roomVars, callVars
  <2>. QED
    BY <2>1, ShowIs DEF InRoom, Asks, Sock
<1>11. ASSUME NEW c \in Clients, Reconnect(c)
       PROVE  roster' = roster /\ Sees(down'[d], client'[d].onCall)
  <2>1. d # c
    BY <1>11, AsksReconnect DEF InRoom
  <2>2. /\ client'[d] = client[d] /\ up'[d] = up[d] /\ down'[d] = down[d]
        /\ roster' = roster /\ tasks' = tasks /\ answering' = answering /\ unanswered' = unanswered
    BY <1>11, <2>1, ReconnectIs DEF roomVars, callVars
  <2>. QED
    BY <2>2, ShowIs DEF InRoom, Asks, Sock
<1>. QED
  BY <1>1, <1>2, <1>3, <1>4, <1>5, <1>6, <1>7, <1>8, <1>9, <1>10, <1>11 DEF Steps

-----------------------------------------------------------------------------
(* New sockets.                                                             *)

LEMMA PastKept ==
    ASSUME TypeOK, FrameType, SockInv, Steps, NEW s \in Socket, Past(s)
    PROVE  Past(s)'
<1>1. s[1] \in Clients /\ s[2] \in Nat
  BY DEF Socket
<1>2. client[s[1]].n \in Nat
  BY <1>1, ClientIs DEF Client
<1>3. client'[s[1]].n = client[s[1]].n \/ client'[s[1]].n = client[s[1]].n + 1
  <2>1. CASE Serves
    BY <2>1, ServesIs
  <2>2. CASE \E c \in Clients : Hear(c)
    BY <2>2, <1>1, HearIs DEF Alike
  <2>3. CASE \E c \in Clients : Pressed(c)
    BY <2>3, <1>1 DEF Pressed
  <2>4. CASE \E c \in Clients : Drop(c)
    BY <2>4, <1>1, DropIs
  <2>5. CASE \E c \in Clients : Reconnect(c)
    BY <2>5, <1>1, ReconnectIs
  <2>. QED
    BY <2>1, <2>2, <2>3, <2>4, <2>5, StepsKinds
<1>. QED
  BY <1>1, <1>2, <1>3 DEF Past

LEMMA SocksType == ASSUME NEW m \in DownFrame PROVE FrameSocks(m) \subseteq Socket
<1>. QED
  BY DEF DownFrame, FrameSocks, Row

LEMMA RowsFrom ==
    ASSUME TypeOK, NEW c \in Clients, NEW m \in DownFrame, NEW r \in Handled(c, m).rows
    PROVE  \/ r.sock \in FrameSocks(m) /\ Shows(m, r.sock)
           \/ \E q \in client[c].rows : q.sock = r.sock
<1>1. m.do \in {"list", "joined", "left", "muted", "roster"}
  BY DEF DownFrame
<1>2. client[c] \in Client
  BY ClientIs
<1>3. CASE m.do = "list"
  BY <1>3, Listed DEF Handled, FrameSocks, Shows
<1>4. CASE m.do = "joined"
  BY <1>4, JoinedIs DEF Handled, FrameSocks, Shows
<1>5. CASE m.do = "left"
  BY <1>2, <1>5 DEF Handled, OnLeft, Client
<1>6. CASE m.do = "muted"
  <2>. DEFINE R == {IF On(r1.sock) = On(m.sock) THEN [r1 EXCEPT !.muted = m.muted] ELSE r1 :
                      r1 \in client[c].rows}
  <2>1. Handled(c, m).rows = R
    BY <1>2, <1>6 DEF Handled, OnMuted, Client
  <2>2. PICK q \in client[c].rows :
          r = IF On(q.sock) = On(m.sock) THEN [q EXCEPT !.muted = m.muted] ELSE q
    BY <2>1
  <2>3. q \in Row
    BY <1>2 DEF Client
  <2>4. r.sock = q.sock
    BY <2>2, <2>3 DEF Row
  <2>. QED
    BY <2>4
<1>7. CASE m.do = "roster"
  BY <1>2, <1>7 DEF Handled, Client
<1>. QED
  BY <1>1, <1>3, <1>4, <1>5, <1>6, <1>7

(* What is new after a step is of sockets that were there before it.        *)
FreshStep ==
    /\ \A k \in 1..Len(tasks') : Past(tasks'[k].s)
    /\ \A c \in Clients : \A r \in client'[c].rows : Past(r.sock)
    /\ \A c \in Clients : FreshFrames(down'[c])

LEMMA FreshLifts ==
    ASSUME TypeOK, FrameType, SockInv, Steps, FreshStep
    PROVE  FreshInv'
<1>1. (TypeOK /\ FrameType)'
  BY StepsType
<1>2. ASSUME NEW k \in 1..Len(tasks') PROVE Past(tasks[k].s)'
  <2>1. tasks'[k].s \in Socket /\ Past(tasks'[k].s)
    <3>1. tasks'[k] \in Task
      BY <1>1 DEF FrameType
    <3>. QED
      BY <3>1 DEF Task, FreshStep
  <2>. QED
    BY <2>1, PastKept DEF Past
<1>3. ASSUME NEW c \in Clients, NEW r \in client'[c].rows PROVE Past(r.sock)'
  <2>1. r.sock \in Socket /\ Past(r.sock)
    BY <1>1 DEF TypeOK, Client, Row, FreshStep
  <2>. QED
    BY <2>1, PastKept DEF Past
<1>4. ASSUME NEW c \in Clients, NEW k \in 1..Len(down'[c]), NEW s \in FrameSocks(down'[c][k])
      PROVE  Past(s)'
  <2>1. down'[c][k] \in DownFrame
    BY <1>1 DEF FrameType
  <2>2. s \in Socket /\ Past(s)
    BY <2>1, SocksType DEF FreshStep, FreshFrames
  <2>. QED
    BY <2>2, PastKept
<1>. QED
  BY <1>2, <1>3, <1>4 DEF FreshInv, FreshFrames

(* The frames of the server are of sockets it knows.                        *)
LEMMA FreshTold ==
    ASSUME TypeOK, SockInv, CallInv, NEW s \in Socket, Past(s), NEW t
    PROVE  t \in FrameSocks(ListFor(s)) \cup FrameSocks(RosterFrame)
                 \cup FrameSocks(JoinedFrame(s)) \cup FrameSocks(LeftFrame(s)) => Past(t)
<1>1. FrameSocks(ListFor(s)) \subseteq sockets
  BY DEF FrameSocks, ListFor, CallInv, RosterIsTheCall
<1>2. FrameSocks(RosterFrame) = {}
  BY DEF FrameSocks, RosterFrame
<1>3. FrameSocks(JoinedFrame(s)) = {s} /\ FrameSocks(LeftFrame(s)) = {s}
  BY DEF FrameSocks, JoinedFrame, LeftFrame
<1>. QED
  BY <1>1, <1>2, <1>3 DEF SockInv

LEMMA ContinueFresh ==
    ASSUME TypeOK, FrameType, SockInv, CallInv, FreshInv, Continue
    PROVE  FreshStep
<1>. DEFINE s == Head(tasks).s
<1>1. /\ tasks \in Seq(Task) /\ tasks # <<>> /\ tasks' = Tail(tasks) /\ s \in Socket
      /\ down' = JoinTell(s) \/ down' = LeaveTell(s)
  BY ContinueIs DEF FrameType
<1>2. /\ Len(tasks) \in Nat \ {0} /\ Len(tasks') = Len(tasks) - 1
      /\ \A k \in 1..Len(tasks') : tasks'[k] = tasks[k + 1]
      /\ Head(tasks) = tasks[1]
  BY <1>1, Tailing
<1>3. Past(s) /\ \A k \in 1..Len(tasks') : Past(tasks'[k].s)
  BY <1>2 DEF FreshInv
<1>. HIDE DEF s
<1>4. \A c \in Clients : \A r \in client'[c].rows : Past(r.sock)
  BY DEF Continue, FreshInv
<1>5. ASSUME NEW c \in Clients PROVE FreshFrames(down'[c])
  <2>1. FreshFrames(down[c]) /\ down \in Queues
    BY DEF FreshInv, FrameType, Queues
  <2>2. /\ \A t \in FrameSocks(ListFor(s)) : Past(t)
        /\ \A t \in FrameSocks(RosterFrame) : Past(t)
        /\ \A t \in FrameSocks(JoinedFrame(s)) : Past(t)
        /\ \A t \in FrameSocks(LeftFrame(s)) : Past(t)
    BY <1>1, <1>3, FreshTold
  <2>3. /\ RosterFrame \in DownFrame /\ ListFor(s) \in DownFrame
        /\ JoinedFrame(s) \in DownFrame /\ LeftFrame(s) \in DownFrame
    BY <1>1, Frames
  <2>4. CASE down' = JoinTell(s)
    <3>. DEFINE q == To(down, {s}, ListFor(s))
    <3>1. q \in Queues /\ FreshFrames(q[c])
      BY <1>1, <2>1, <2>2, <2>3, ToType, ToFresh
    <3>. HIDE DEF q
    <3>. DEFINE p == To(q, viewers, RosterFrame)
    <3>2. p \in Queues /\ FreshFrames(p[c])
      BY <3>1, <2>2, <2>3, ToType, ToFresh
    <3>. HIDE DEF p
    <3>3. FreshFrames(To(p, channel \ {s}, JoinedFrame(s))[c])
      BY <3>2, <2>2, <2>3, ToFresh
    <3>. QED
      BY <3>3, <2>4, JoinTellIs DEF p, q
  <2>5. CASE down' = LeaveTell(s)
    <3>. DEFINE p == To(down, viewers, RosterFrame)
    <3>1. p \in Queues /\ FreshFrames(p[c])
      BY <2>1, <2>2, <2>3, ToType, ToFresh
    <3>. HIDE DEF p
    <3>2. FreshFrames(To(p, channel \ {s}, LeftFrame(s))[c])
      BY <3>1, <2>2, <2>3, ToFresh
    <3>. QED
      BY <3>2, <2>5, LeaveTellIs DEF p
  <2>. QED
    BY <1>1, <2>4, <2>5
<1>. QED
  BY <1>3, <1>4, <1>5 DEF FreshStep

LEMMA TaskFresh ==
    ASSUME TypeOK, FrameType, FreshInv, NEW t \in Task, Past(t.s), tasks' = Append(tasks, t),
           client' = client, down' = down
    PROVE  FreshStep
<1>1. /\ Len(tasks) \in Nat /\ Len(tasks') = Len(tasks) + 1
      /\ \A k \in 1..Len(tasks) : tasks'[k] = tasks[k]
      /\ tasks'[Len(tasks) + 1] = t
  BY TaskAdded
<1>2. \A k \in 1..Len(tasks') : Past(tasks'[k].s)
  BY <1>1 DEF FreshInv
<1>. QED
  BY <1>2 DEF FreshStep, FreshInv

LEMMA SockPast == ASSUME TypeOK, NEW c \in Clients PROVE Past(Sock(c))
<1>. QED
  BY ClientIs DEF Past, Sock, Client

LEMMA NextFresh ==
    ASSUME TypeOK, FrameType, SockInv, CallInv, FreshInv, Steps
    PROVE  FreshInv'
<1>. SUFFICES FreshStep
  BY FreshLifts
<1>1. CASE Continue
  BY <1>1, ContinueFresh
<1>2. ASSUME NEW s \in sockets, handleDisconnect(s) PROVE FreshStep
  <2>1. client' = client /\ down' = down
    BY <1>2 DEF handleDisconnect
  <2>2. CASE s \in DOMAIN voiceUsers
    <3>1. tasks' = Append(tasks, LeaveTask(s)) /\ LeaveTask(s) \in Task /\ LeaveTask(s).s = s
      BY <1>2, <2>2 DEF handleDisconnect, LeaveMaps, LeaveTask, Task, TypeOK
    <3>2. Past(s)
      BY DEF SockInv
    <3>. QED
      BY <2>1, <3>1, <3>2, TaskFresh
  <2>3. CASE s \notin DOMAIN voiceUsers
    BY <1>2, <2>1, <2>3 DEF handleDisconnect, FreshStep, FreshInv
  <2>. QED
    BY <2>2, <2>3
<1>3. ASSUME NEW s \in answering, JoinRoomAnswer(s) PROVE FreshStep
  <2>. DEFINE f == [do |-> "roster", users |-> {On(t) : t \in roster}]
  <2>1. /\ down' = To(down, {s}, f) /\ f \in DownFrame
        /\ client' = client /\ tasks' = tasks
    BY <1>3, AnswerIs DEF callVars
  <2>2. FrameSocks(f) = {}
    BY DEF FrameSocks
  <2>. HIDE DEF f
  <2>3. \A c \in Clients : FreshFrames(down'[c])
    BY <2>1, <2>2, ToFresh DEF FreshInv, FrameType, Queues
  <2>. QED
    BY <2>1, <2>3 DEF FreshStep, FreshInv
<1>4. ASSUME NEW c \in Clients, handleJoinVoiceChat(c) PROVE FreshStep
  <2>1. /\ tasks' = Append(tasks, JoinTask(Sock(c))) /\ JoinTask(Sock(c)) \in Task
        /\ JoinTask(Sock(c)).s = Sock(c) /\ client' = client /\ down' = down
    BY <1>4, SockType DEF handleJoinVoiceChat, JoinTask, Task
  <2>. QED
    BY <2>1, SockPast, TaskFresh
<1>5. ASSUME NEW c \in Clients, handleLeaveVoice(c) PROVE FreshStep
  <2>1. client' = client /\ down' = down
    BY <1>5 DEF handleLeaveVoice
  <2>2. CASE Sock(c) \in DOMAIN voiceUsers
    <3>1. /\ tasks' = Append(tasks, LeaveTask(Sock(c))) /\ LeaveTask(Sock(c)) \in Task
          /\ LeaveTask(Sock(c)).s = Sock(c)
      BY <1>5, <2>2, SockType DEF handleLeaveVoice, LeaveMaps, LeaveTask, Task
    <3>. QED
      BY <2>1, <3>1, SockPast, TaskFresh
  <2>3. CASE Sock(c) \notin DOMAIN voiceUsers
    BY <1>5, <2>1, <2>3 DEF handleLeaveVoice, callVars, FreshStep, FreshInv
  <2>. QED
    BY <2>2, <2>3
<1>6. ASSUME NEW c \in Clients, Toggles(c) PROVE FreshStep
  <2>1. client' = client /\ tasks' = tasks
    BY <1>6 DEF Toggles
  <2>2. CASE Sock(c) \in DOMAIN voiceUsers
    <3>. DEFINE m == MutedFrame(Sock(c), voiceUsers'[Sock(c)].muted)
    <3>1. down' = To(down, channel, m) /\ down \in Queues
      BY <1>6, <2>2 DEF Toggles, FrameType, Queues
    <3>2. m \in DownFrame /\ FrameSocks(m) = {Sock(c)}
      BY <1>6, <2>2, SockType, Frames DEF Toggles, MutedFrame, FrameSocks
    <3>. HIDE DEF m
    <3>3. \A d \in Clients : FreshFrames(down'[d])
      BY <3>1, <3>2, SockPast, ToFresh DEF FreshInv
    <3>. QED
      BY <2>1, <3>3 DEF FreshStep, FreshInv
  <2>3. CASE Sock(c) \notin DOMAIN voiceUsers
    BY <1>6, <2>1, <2>3 DEF Toggles, FreshStep, FreshInv
  <2>. QED
    BY <2>2, <2>3
<1>7. ASSUME NEW c \in Clients, handleJoinRoom(c) PROVE FreshStep
  BY <1>7 DEF handleJoinRoom, callVars, FreshStep, FreshInv
<1>8. ASSUME NEW c \in Clients, Hear(c) PROVE FreshStep
  <2>. DEFINE m == Head(down[c])
  <2>1. /\ down[c] \in Seq(DownFrame) /\ down[c] # <<>> /\ m \in DownFrame
        /\ down'[c] = Tail(down[c]) /\ client'[c] = Handled(c, m)
        /\ \A d \in Clients : d # c => down'[d] = down[d] /\ client'[d] = client[d]
        /\ tasks' = tasks
    BY <1>8, HearIs DEF callVars
  <2>2. /\ Len(down[c]) \in Nat \ {0} /\ Len(down'[c]) = Len(down[c]) - 1
        /\ \A k \in 1..Len(down'[c]) : down'[c][k] = down[c][k + 1]
        /\ m = down[c][1]
    BY <2>1, Tailing
  <2>. HIDE DEF m
  <2>3. FreshFrames(down'[c])
    BY <2>2 DEF FreshInv, FreshFrames
  <2>4. \A s \in FrameSocks(m) : Past(s)
    BY <2>2 DEF FreshInv, FreshFrames
  <2>5. \A r \in client'[c].rows : Past(r.sock)
    BY <2>1, <2>4, RowsFrom DEF FreshInv
  <2>. QED
    BY <2>1, <2>3, <2>5 DEF FreshStep, FreshInv
<1>9. ASSUME NEW c \in Clients, Pressed(c) PROVE FreshStep
  <2>1. /\ tasks' = tasks /\ down' = down
        /\ \A d \in Clients : client'[d].rows \subseteq client[d].rows
    BY <1>9 DEF Pressed, callVars
  <2>. QED
    BY <2>1 DEF FreshStep, FreshInv
<1>10. ASSUME NEW c \in Clients, Drop(c) PROVE FreshStep
  <2>1. /\ tasks' = tasks /\ down'[c] = <<>>
        /\ \A d \in Clients : d # c => down'[d] = down[d]
        /\ \A d \in Clients : client'[d].rows = client[d].rows
    BY <1>10, DropIs DEF callVars
  <2>2. FreshFrames(down'[c])
    BY <2>1 DEF FreshFrames
  <2>. QED
    BY <2>1, <2>2 DEF FreshStep, FreshInv
<1>11. ASSUME NEW c \in Clients, Reconnect(c) PROVE FreshStep
  <2>1. /\ tasks' = tasks /\ down' = down
        /\ \A d \in Clients : client'[d].rows = client[d].rows
    BY <1>11, ReconnectIs DEF callVars
  <2>. QED
    BY <2>1 DEF FreshStep, FreshInv
<1>. QED
  BY <1>1, <1>2, <1>3, <1>4, <1>5, <1>6, <1>7, <1>8, <1>9, <1>10, <1>11 DEF Steps

-----------------------------------------------------------------------------
(* The mute button.                                                         *)

Lifted(q) ==
    \A k \in 1..Len(q) : Mutes(q[k]) => \E m \in 1..Len(q) : m > k /\ Lifts(q[m])
HasLift(q) == \E k \in 1..Len(q) : Lifts(q[k])

LEMMA LiftTail ==
    ASSUME NEW q \in Seq(UpFrame), q # <<>>
    PROVE  /\ Lifted(q) => Lifted(Tail(q))
           /\ Lifted(q) /\ Mutes(Head(q)) => HasLift(Tail(q))
           /\ ~Lifts(Head(q)) /\ HasLift(q) => HasLift(Tail(q))
<1>. DEFINE t == Tail(q)
<1>1. /\ Len(q) \in Nat \ {0} /\ Len(t) = Len(q) - 1 /\ Head(q) = q[1]
      /\ \A k \in 1..Len(t) : t[k] = q[k + 1]
  BY Tailing
<1>. HIDE DEF t
<1>2. \A k \in 1..Len(q) : k > 1 => k - 1 \in 1..Len(t) /\ t[k - 1] = q[k]
  BY <1>1
<1>3. ASSUME Lifted(q), NEW k \in 1..Len(t), Mutes(t[k])
      PROVE  \E m \in 1..Len(t) : m > k /\ Lifts(t[m])
  <2>1. PICK m \in 1..Len(q) : m > k + 1 /\ Lifts(q[m])
    BY <1>1, <1>3 DEF Lifted
  <2>2. m - 1 \in 1..Len(t) /\ m - 1 > k /\ t[m - 1] = q[m]
    BY <2>1, <1>1, <1>2
  <2>. QED
    BY <2>1, <2>2
<1>4. ASSUME Lifted(q), Mutes(q[1]) PROVE HasLift(t)
  <2>1. PICK m \in 1..Len(q) : m > 1 /\ Lifts(q[m])
    BY <1>1, <1>4 DEF Lifted
  <2>. QED
    BY <2>1, <1>2 DEF HasLift
<1>5. ASSUME ~Lifts(q[1]), HasLift(q) PROVE HasLift(t)
  <2>1. PICK m \in 1..Len(q) : Lifts(q[m])
    BY <1>5 DEF HasLift
  <2>2. m > 1
    BY <2>1, <1>5
  <2>. QED
    BY <2>1, <2>2, <1>2 DEF HasLift
<1>. QED
  BY <1>1, <1>3, <1>4, <1>5 DEF Lifted, t

LEMMA LiftPressed ==
    ASSUME FrameType, NEW c \in Clients, Pressed(c), ~client'[c].muted,
           ~client[c].muted => Lifted(up[c])
    PROVE  /\ Lifted(up'[c])
           /\ ~HasLift(up'[c]) => ~client[c].muted /\ ~HasLift(up[c])
<1>1. /\ Len(up[c]) \in Nat /\ Len(up'[c]) \in Nat /\ Len(up[c]) <= Len(up'[c])
      /\ \A k \in 1..Len(up[c]) : up'[c][k] = up[c][k]
  BY LenProperties DEF Pressed, Extends, FrameType
<1>2. HasLift(up[c]) => HasLift(up'[c])
  BY <1>1 DEF HasLift
<1>3. CASE /\ client'[c].muted = client[c].muted
           /\ \A k \in 1..Len(up'[c]) : k > Len(up[c]) => ~Mutes(up'[c][k])
  <2>1. ASSUME NEW k \in 1..Len(up'[c]), Mutes(up'[c][k])
        PROVE  \E m \in 1..Len(up'[c]) : m > k /\ Lifts(up'[c][m])
    <3>1. k \in 1..Len(up[c]) /\ Mutes(up[c][k])
      BY <1>1, <1>3, <2>1
    <3>2. PICK m \in 1..Len(up[c]) : m > k /\ Lifts(up[c][m])
      BY <3>1, <1>3 DEF Lifted
    <3>. QED
      BY <3>2, <1>1
  <2>. QED
    BY <1>2, <1>3, <2>1 DEF Lifted
<1>4. CASE Len(up'[c]) > 0 /\ Lifts(up'[c][Len(up'[c])])
  <2>1. ~Mutes(up'[c][Len(up'[c])])
    BY <1>4 DEF Lifts, Mutes
  <2>2. \A k \in 1..Len(up'[c]) : Mutes(up'[c][k]) => k < Len(up'[c])
    BY <1>1, <2>1
  <2>3. Lifted(up'[c]) /\ HasLift(up'[c])
    BY <1>1, <1>4, <2>2 DEF Lifted, HasLift
  <2>. QED
    BY <2>3
<1>. QED
  BY <1>3, <1>4 DEF Pressed

ButtonOf(c, k, q, s) ==
    ~k.muted =>
        /\ Lifted(q)
        /\ k.on /\ ~HasLift(q) /\ s \in roster => ~voiceUsers[s].muted

LEMMA ButtonIs == ButtonInv <=> \A c \in Clients : ButtonOf(c, client[c], up[c], Sock(c))
<1>. QED
  BY DEF ButtonInv, ButtonOf, Lifted, HasLift, Lifting

LEMMA NextButton ==
    ASSUME TypeOK, FrameType, SockInv, CallInv, ButtonInv, Steps
    PROVE  ButtonInv'
<1>. SUFFICES ASSUME NEW d \in Clients, ~client'[d].muted
              PROVE  /\ Lifted(up'[d])
                     /\ client'[d].on /\ ~HasLift(up'[d]) /\ Sock(d)' \in roster' =>
                           ~voiceUsers'[Sock(d)'].muted
  BY DEF ButtonInv, Lifted, HasLift, Lifting
<1>0. ~client[d].muted =>
        /\ Lifted(up[d])
        /\ client[d].on /\ ~HasLift(up[d]) /\ Sock(d) \in roster => ~voiceUsers[Sock(d)].muted
  BY ButtonIs DEF ButtonOf
<1>. DEFINE Goal == /\ Lifted(up'[d])
                    /\ client'[d].on /\ ~HasLift(up'[d]) /\ Sock(d)' \in roster' =>
                           ~voiceUsers'[Sock(d)'].muted
<1>1. CASE Continue
  BY <1>0, <1>1 DEF Continue, Sock
<1>2. ASSUME NEW s \in sockets, handleDisconnect(s) PROVE Goal
  <2>1. client' = client /\ up' = up /\ Sock(d)' = Sock(d)
    BY <1>2 DEF handleDisconnect, Sock
  <2>2. Sock(d) \in roster' => Sock(d) \in roster /\ voiceUsers'[Sock(d)] = voiceUsers[Sock(d)]
    BY <1>2 DEF handleDisconnect, LeaveMaps, CallInv, RosterIsTheCall
  <2>. QED
    BY <1>0, <2>1, <2>2
<1>3. ASSUME NEW s \in answering, JoinRoomAnswer(s) PROVE Goal
  BY <1>0, <1>3 DEF JoinRoomAnswer, callVars, Sock
<1>4. ASSUME NEW c \in Clients, handleJoinVoiceChat(c) PROVE Goal
  <2>1. /\ client' = client /\ Sock(d)' = Sock(d) /\ roster' = roster \cup {Sock(c)}
        /\ voiceUsers'[Sock(c)].muted = FALSE
        /\ \A t \in roster : t # Sock(c) => voiceUsers'[t] = voiceUsers[t]
    BY <1>4 DEF handleJoinVoiceChat, Sock, CallInv, RosterIsTheCall
  <2>2. Receives(c, "join")
    BY <1>4 DEF handleJoinVoiceChat
  <2>3. CASE d = c
    <3>1. Lifted(up'[d])
      BY <1>0, <2>1, <2>2, <2>3, Received, LiftTail
    <3>. QED
      BY <2>1, <2>3, <3>1
  <2>4. CASE d # c
    <3>1. up'[d] = up[d] /\ Sock(d) # Sock(c)
      BY <2>2, <2>4, Received DEF Sock
    <3>. QED
      BY <1>0, <2>1, <3>1
  <2>. QED
    BY <2>3, <2>4
<1>5. ASSUME NEW c \in Clients, handleLeaveVoice(c) PROVE Goal
  <2>1. client' = client /\ Sock(d)' = Sock(d)
    BY <1>5 DEF handleLeaveVoice, Sock
  <2>2. Sock(d) \in roster' => Sock(d) \in roster /\ voiceUsers'[Sock(d)] = voiceUsers[Sock(d)]
    BY <1>5 DEF handleLeaveVoice, LeaveMaps, callVars, CallInv, RosterIsTheCall
  <2>3. Receives(c, "leave")
    BY <1>5 DEF handleLeaveVoice
  <2>4. CASE d = c
    <3>1. Lifted(up'[d])
      BY <1>0, <2>1, <2>3, <2>4, Received, LiftTail
    <3>2. HasLift(up[d]) => HasLift(up'[d])
      <4>1. ~Lifts(Head(up[d]))
        BY <2>3, <2>4, Received DEF Lifts
      <4>. QED
        BY <4>1, <2>3, <2>4, Received, LiftTail
    <3>. QED
      BY <1>0, <2>1, <2>2, <3>1, <3>2
  <2>5. CASE d # c
    BY <1>0, <2>1, <2>2, <2>3, <2>5, Received
  <2>. QED
    BY <2>4, <2>5
<1>6. ASSUME NEW c \in Clients, Toggles(c) PROVE Goal
  <2>1. /\ client' = client /\ Sock(d)' = Sock(d) /\ roster' = roster
    BY <1>6 DEF Toggles, Sock
  <2>2. PICK what \in {"mute", "deafen"} : Receives(c, what)
    BY <1>6 DEF Toggles
  <2>3. CASE d = c
    <3>1. /\ Lifted(up'[d])
          /\ Mutes(Head(up[d])) => HasLift(up'[d])
          /\ ~Lifts(Head(up[d])) /\ HasLift(up[d]) => HasLift(up'[d])
      BY <1>0, <2>1, <2>2, <2>3, Received, LiftTail
    <3>2. Sock(d) \in roster =>
            /\ Lifts(Head(up[d])) => ~voiceUsers'[Sock(d)].muted
            /\ ~Mutes(Head(up[d])) /\ ~Lifts(Head(up[d]))
                 => voiceUsers'[Sock(d)].muted = voiceUsers[Sock(d)].muted
      BY <1>6, <2>3 DEF Toggles, CallInv, RosterIsTheCall
    <3>. QED
      BY <1>0, <2>1, <3>1, <3>2
  <2>4. CASE d # c
    <3>1. up'[d] = up[d] /\ Sock(d) # Sock(c)
      BY <2>2, <2>4, Received DEF Sock
    <3>2. Sock(d) \in roster => voiceUsers'[Sock(d)] = voiceUsers[Sock(d)]
      BY <1>6, <3>1 DEF Toggles, CallInv, RosterIsTheCall
    <3>. QED
      BY <1>0, <2>1, <3>1, <3>2
  <2>. QED
    BY <2>3, <2>4
<1>7. ASSUME NEW c \in Clients, handleJoinRoom(c) PROVE Goal
  <2>1. /\ client' = client /\ Sock(d)' = Sock(d) /\ roster' = roster /\ voiceUsers' = voiceUsers
        /\ Receives(c, "room")
    BY <1>7 DEF handleJoinRoom, callVars, Sock
  <2>2. CASE d = c
    <3>1. Lifted(up'[d])
      BY <1>0, <2>1, <2>2, Received, LiftTail
    <3>2. HasLift(up[d]) => HasLift(up'[d])
      <4>1. ~Lifts(Head(up[d]))
        BY <2>1, <2>2, Received DEF Lifts
      <4>. QED
        BY <4>1, <2>1, <2>2, Received, LiftTail
    <3>. QED
      BY <1>0, <2>1, <3>1, <3>2
  <2>3. CASE d # c
    BY <1>0, <2>1, <2>3, Received
  <2>. QED
    BY <2>2, <2>3
<1>8. ASSUME NEW c \in Clients, Hear(c) PROVE Goal
  <2>1. /\ Alike(client'[d], client[d]) /\ up' = up /\ roster' = roster
        /\ voiceUsers' = voiceUsers
    BY <1>8, HearIs DEF callVars
  <2>. QED
    BY <1>0, <2>1 DEF Alike, Sock
<1>9. ASSUME NEW c \in Clients, Pressed(c) PROVE Goal
  <2>1. /\ roster' = roster /\ voiceUsers' = voiceUsers
        /\ client'[d].n = client[d].n /\ client'[d].on = client[d].on
    BY <1>9 DEF Pressed, callVars
  <2>2. CASE d = c
    <3>1. Lifted(up'[d]) /\ (~HasLift(up'[d]) => ~client[d].muted /\ ~HasLift(up[d]))
      BY <1>0, <1>9, <2>2, LiftPressed
    <3>. QED
      BY <1>0, <2>1, <3>1 DEF Sock
  <2>3. CASE d # c
    <3>1. client'[d] = client[d] /\ up'[d] = up[d]
      BY <1>9, <2>3 DEF Pressed
    <3>. QED
      BY <1>0, <2>1, <3>1 DEF Sock
  <2>. QED
    BY <2>2, <2>3
<1>10. ASSUME NEW c \in Clients, Drop(c) PROVE Goal
  <2>1. CASE d = c
    <3>1. up'[d] = <<>> /\ ~client'[d].on
      BY <1>10, <2>1, DropIs
    <3>. QED
      BY <3>1 DEF Lifted
  <2>2. CASE d # c
    <3>1. /\ client'[d] = client[d] /\ up'[d] = up[d]
          /\ roster' = roster /\ voiceUsers' = voiceUsers
      BY <1>10, <2>2, DropIs DEF callVars
    <3>. QED
      BY <1>0, <3>1 DEF Sock
  <2>. QED
    BY <2>1, <2>2
<1>11. ASSUME NEW c \in Clients, Reconnect(c) PROVE Goal
  <2>1. CASE d = c
    <3>. DEFINE f == [do |-> "room"]
    <3>1. /\ up'[c] = Append(up[c], f) /\ f \in UpFrame
          /\ client'[c].muted = client[c].muted /\ client'[c].n = client[c].n + 1
          /\ roster' = roster
      BY <1>11, ReconnectIs DEF callVars
    <3>2. ~Mutes(f)
      BY DEF Mutes
    <3>. HIDE DEF f
    <3>3. /\ Len(up[c]) \in Nat /\ Len(up'[c]) = Len(up[c]) + 1
          /\ \A k \in 1..Len(up[c]) : up'[c][k] = up[c][k]
          /\ up'[c][Len(up[c]) + 1] = f
      BY <3>1, Appending DEF FrameType
    <3>4. Lifted(up[c])
      BY <1>0, <2>1, <3>1
    <3>5. Lifted(up'[c])
      <4>1. ASSUME NEW k \in 1..Len(up'[c]), Mutes(up'[c][k])
            PROVE  \E m \in 1..Len(up'[c]) : m > k /\ Lifts(up'[c][m])
        <5>1. k \in 1..Len(up[c]) /\ Mutes(up[c][k])
          BY <3>2, <3>3, <4>1
        <5>2. PICK m \in 1..Len(up[c]) : m > k /\ Lifts(up[c][m])
          BY <3>4, <5>1 DEF Lifted
        <5>. QED
          BY <3>3, <5>2
      <4>. QED
        BY <4>1 DEF Lifted
    <3>6. Sock(c)' \notin roster'
      <4>1. client[c].n \in Nat /\ Sock(c)' = <<c, client[c].n + 1>>
        BY <3>1, ClientIs DEF Sock, Client
      <4>2. \A s \in roster : Past(s)
        BY DEF SockInv, CallInv, RosterIsTheCall
      <4>. QED
        BY <3>1, <4>1, <4>2 DEF Past
    <3>. QED
      BY <2>1, <3>5, <3>6
  <2>2. CASE d # c
    <3>1. /\ client'[d] = client[d] /\ up'[d] = up[d]
          /\ roster' = roster /\ voiceUsers' = voiceUsers
      BY <1>11, <2>2, ReconnectIs DEF callVars
    <3>. QED
      BY <1>0, <3>1 DEF Sock
  <2>. QED
    BY <2>1, <2>2
<1>. QED
  BY <1>1, <1>2, <1>3, <1>4, <1>5, <1>6, <1>7, <1>8, <1>9, <1>10, <1>11 DEF Steps

-----------------------------------------------------------------------------
(* Earlier sockets.                                                         *)

LEMMA OldHeard ==
    ASSUME TypeOK, FrameType, NEW c \in Clients, Hear(c), NEW s,
           OldFirst(down[c], client[c].rows, s)
    PROVE  OldFirst(down'[c], client'[c].rows, s)
<1>. DEFINE m == Head(down[c])
<1>1. /\ down[c] \in Seq(DownFrame) /\ down[c] # <<>> /\ m \in DownFrame
      /\ down'[c] = Tail(down[c]) /\ client'[c] = Handled(c, m)
  BY HearIs
<1>2. /\ Len(down[c]) \in Nat \ {0} /\ Len(down'[c]) = Len(down[c]) - 1
      /\ \A k \in 1..Len(down'[c]) : down'[c][k] = down[c][k + 1]
      /\ m = down[c][1]
  BY <1>1, Tailing
<1>. HIDE DEF m
<1>3. ASSUME NEW k \in 1..Len(down'[c]), OldOf(down'[c][k], s)
      PROVE  /\ \A r \in client'[c].rows : r.sock # s
             /\ \A j \in 1..Len(down'[c]) : j < k => ~Shows(down'[c][j], s)
  <2>1. k + 1 \in 1..Len(down[c]) /\ OldOf(down[c][k + 1], s)
    BY <1>2, <1>3
  <2>2. /\ \A r \in client[c].rows : r.sock # s
        /\ \A j \in 1..Len(down[c]) : j < k + 1 => ~Shows(down[c][j], s)
    BY <2>1 DEF OldFirst
  <2>3. ~Shows(m, s)
    BY <1>2, <2>2
  <2>4. \A r \in client'[c].rows : r.sock # s
    BY <1>1, <2>2, <2>3, RowsFrom
  <2>5. ASSUME NEW j \in 1..Len(down'[c]), j < k PROVE ~Shows(down'[c][j], s)
    <3>1. j + 1 \in 1..Len(down[c]) /\ j + 1 < k + 1
      BY <1>2, <2>5
    <3>2. down'[c][j] = down[c][j + 1]
      BY <1>2, <2>5
    <3>. QED
      BY <2>2, <3>1, <3>2
  <2>. QED
    BY <2>4, <2>5
<1>. QED
  BY <1>3 DEF OldFirst

LEMMA NextOld ==
    ASSUME TypeOK, FrameType, SockInv, FreshInv, OldInv, Steps
    PROVE  OldInv'
<1>1. scope'.clients = scope.clients
  <2>1. CASE Serves
    BY <2>1, ServesIs
  <2>2. CASE \E c \in Clients : Hear(c) \/ Pressed(c)
    BY <2>2 DEF Hear, Pressed
  <2>3. CASE \E c \in Clients : Drop(c) \/ Reconnect(c)
    BY <2>3, DropIs, ReconnectIs
  <2>. QED
    BY <2>1, <2>2, <2>3, StepsKinds
<1>. SUFFICES ASSUME NEW a \in Clients, NEW b \in Clients, OnlyTab(a)
              PROVE  OldFirst(down'[b], client'[b].rows, Sock(a)')
  BY <1>1 DEF OldInv, OldFirst, OldOf, Shows, FrameSocks, On, OnlyTab
<1>0. OldFirst(down[b], client[b].rows, Sock(a)) /\ down \in Queues
  BY DEF OldInv, FrameType, Queues
<1>. DEFINE Goal == OldFirst(down'[b], client'[b].rows, Sock(a)')
<1>2. CASE Continue
  <2>. DEFINE s == Head(tasks).s
  <2>1. s \in Socket /\ (down' = JoinTell(s) \/ down' = LeaveTell(s))
    BY <1>2, ContinueIs
  <2>. HIDE DEF s
  <2>2. /\ RosterFrame \in DownFrame /\ ~OldOf(RosterFrame, Sock(a))
        /\ ListFor(s) \in DownFrame /\ ~OldOf(ListFor(s), Sock(a))
        /\ JoinedFrame(s) \in DownFrame /\ ~OldOf(JoinedFrame(s), Sock(a))
        /\ LeftFrame(s) \in DownFrame /\ ~OldOf(LeftFrame(s), Sock(a))
    BY <2>1, Frames DEF OldOf, RosterFrame, ListFor, JoinedFrame, LeftFrame
  <2>3. client' = client /\ Sock(a)' = Sock(a)
    BY <1>2 DEF Continue, Sock
  <2>4. CASE down' = JoinTell(s)
    <3>. DEFINE q == To(down, {s}, ListFor(s))
    <3>1. q \in Queues /\ OldFirst(q[b], client[b].rows, Sock(a))
      BY <1>0, <2>2, ToType, ToOld
    <3>. HIDE DEF q
    <3>. DEFINE p == To(q, viewers, RosterFrame)
    <3>2. p \in Queues /\ OldFirst(p[b], client[b].rows, Sock(a))
      BY <3>1, <2>2, ToType, ToOld
    <3>. HIDE DEF p
    <3>3. OldFirst(To(p, channel \ {s}, JoinedFrame(s))[b], client[b].rows, Sock(a))
      BY <3>2, <2>2, ToOld
    <3>. QED
      BY <2>3, <2>4, <3>3, JoinTellIs DEF p, q
  <2>5. CASE down' = LeaveTell(s)
    <3>. DEFINE p == To(down, viewers, RosterFrame)
    <3>1. p \in Queues /\ OldFirst(p[b], client[b].rows, Sock(a))
      BY <1>0, <2>2, ToType, ToOld
    <3>. HIDE DEF p
    <3>2. OldFirst(To(p, channel \ {s}, LeftFrame(s))[b], client[b].rows, Sock(a))
      BY <3>1, <2>2, ToOld
    <3>. QED
      BY <2>3, <2>5, <3>2, LeaveTellIs DEF p
  <2>. QED
    BY <2>1, <2>4, <2>5
<1>3. ASSUME NEW s \in answering, JoinRoomAnswer(s) PROVE Goal
  <2>. DEFINE f == [do |-> "roster", users |-> {On(t) : t \in roster}]
  <2>1. down' = To(down, {s}, f) /\ f \in DownFrame /\ client' = client
    BY <1>3, AnswerIs
  <2>2. ~OldOf(f, Sock(a))
    BY DEF OldOf
  <2>. HIDE DEF f
  <2>3. Sock(a)' = Sock(a)
    BY <2>1 DEF Sock
  <2>. QED
    BY <1>0, <2>1, <2>2, <2>3, ToOld
<1>4. ASSUME NEW c \in Clients, Toggles(c) PROVE Goal
  <2>1. client' = client /\ Sock(a)' = Sock(a)
    BY <1>4 DEF Toggles, Sock
  <2>2. CASE Sock(c) \in DOMAIN voiceUsers
    <3>. DEFINE m == MutedFrame(Sock(c), voiceUsers'[Sock(c)].muted)
    <3>1. down' = To(down, channel, m)
      BY <1>4, <2>2 DEF Toggles
    <3>2. m \in DownFrame /\ m.sock = Sock(c)
      BY <1>4, <2>2, SockType, Frames DEF Toggles, MutedFrame
    <3>. HIDE DEF m
    <3>3. c \in scope.clients
      BY <1>4 DEF Toggles, Receives, SockInv, Sock
    <3>4. On(Sock(c)) = On(Sock(a)) => c = a
      BY <3>3 DEF OnlyTab, On, Sock
    <3>5. ~OldOf(m, Sock(a))
      BY <3>2, <3>4 DEF OldOf
    <3>. QED
      BY <1>0, <2>1, <3>1, <3>2, <3>5, ToOld
  <2>3. CASE Sock(c) \notin DOMAIN voiceUsers
    BY <1>0, <1>4, <2>1, <2>3 DEF Toggles
  <2>. QED
    BY <2>2, <2>3
<1>5. ASSUME \/ \E s \in sockets : handleDisconnect(s)
             \/ \E c \in Clients : \/ handleJoinVoiceChat(c) \/ handleLeaveVoice(c)
                                   \/ handleJoinRoom(c)
      PROVE  Goal
  <2>1. client' = client /\ down' = down
    BY <1>5 DEF handleDisconnect, handleJoinVoiceChat, handleLeaveVoice, handleJoinRoom
  <2>. QED
    BY <1>0, <2>1 DEF Sock
<1>6. ASSUME NEW c \in Clients, Hear(c) PROVE Goal
  <2>1. /\ Alike(client'[a], client[a])
        /\ b # c => down'[b] = down[b] /\ client'[b] = client[b]
    BY <1>6, HearIs
  <2>2. Sock(a)' = Sock(a)
    BY <2>1 DEF Sock, Alike
  <2>. QED
    BY <1>0, <1>6, <2>1, <2>2, OldHeard
<1>7. ASSUME NEW c \in Clients, Pressed(c) PROVE Goal
  <2>1. /\ down' = down /\ client'[b].rows \subseteq client[b].rows
        /\ client'[a].n = client[a].n
    BY <1>7 DEF Pressed
  <2>. QED
    BY <1>0, <2>1 DEF Sock, OldFirst
<1>8. ASSUME NEW c \in Clients, Drop(c) PROVE Goal
  <2>1. /\ client'[b].rows = client[b].rows /\ client'[a].n = client[a].n
        /\ down'[b] = down[b] \/ down'[b] = <<>>
    BY <1>8, DropIs
  <2>. QED
    BY <1>0, <2>1 DEF Sock, OldFirst
<1>9. ASSUME NEW c \in Clients, Reconnect(c) PROVE Goal
  <2>1. /\ client'[b].rows = client[b].rows /\ down' = down
        /\ a # c => client'[a] = client[a]
        /\ client'[c].n = client[c].n + 1
    BY <1>9, ReconnectIs
  <2>2. CASE a # c
    BY <1>0, <2>1, <2>2 DEF Sock
  <2>3. CASE a = c
    <3>1. ~Past(Sock(a)')
      BY <2>1, <2>3, ClientIs DEF Past, Sock, Client
    <3>2. \A r \in client[b].rows : r.sock # Sock(a)'
      BY <3>1 DEF FreshInv
    <3>3. \A j \in 1..Len(down[b]) : ~Shows(down[b][j], Sock(a)')
      BY <3>1 DEF FreshInv, FreshFrames, Shows
    <3>. QED
      BY <2>1, <3>2, <3>3 DEF OldFirst
  <2>. QED
    BY <2>2, <2>3
<1>. QED
  BY <1>2, <1>3, <1>4, <1>5, <1>6, <1>7, <1>8, <1>9 DEF Steps

-----------------------------------------------------------------------------
(* The rows of who is heard.                                                *)

Heard(q, rows, s) == EndsIn(q, RowFrames(s), Unmuting(s), rows, Unmuted(s))

LEMMA MutedRows ==
    ASSUME TypeOK, NEW c \in Clients, NEW m \in DownFrame, m.do = "muted",
           NEW r \in Handled(c, m).rows
    PROVE  \E q \in client[c].rows :
              /\ r.sock = q.sock
              /\ r.muted = IF On(q.sock) = On(m.sock) THEN m.muted ELSE q.muted
<1>. DEFINE R == {IF On(r1.sock) = On(m.sock) THEN [r1 EXCEPT !.muted = m.muted] ELSE r1 :
                    r1 \in client[c].rows}
<1>1. client[c] \in Client
  BY ClientIs
<1>2. Handled(c, m).rows = R
  BY <1>1 DEF Handled, OnMuted, Client
<1>3. PICK q \in client[c].rows :
        r = IF On(q.sock) = On(m.sock) THEN [q EXCEPT !.muted = m.muted] ELSE q
  BY <1>2
<1>4. q \in Row
  BY <1>1 DEF Client
<1>5. /\ r.sock = q.sock
      /\ r.muted = IF On(q.sock) = On(m.sock) THEN m.muted ELSE q.muted
  BY <1>3, <1>4 DEF Row
<1>. QED
  BY <1>5

LEMMA HearHeard ==
    ASSUME TypeOK, FrameType, NEW c \in Clients, Hear(c), NEW s \in Socket,
           OldFirst(down[c], client[c].rows, s), Heard(down[c], client[c].rows, s)
    PROVE  Heard(down'[c], client'[c].rows, s)
<1>. DEFINE m == Head(down[c])
<1>1. /\ down[c] \in Seq(DownFrame) /\ down[c] # <<>> /\ m \in DownFrame
      /\ down'[c] = Tail(down[c]) /\ client'[c] = Handled(c, m)
  BY HearIs
<1>2. m = down[c][1] /\ 1 \in 1..Len(down[c])
  BY <1>1, Tailing
<1>3. client[c] \in Client /\ client'[c] \in Client
  BY <1>1, ClientIs, HandledIs
<1>. HIDE DEF m
<1>4. client'[c].rows \in SUBSET Row
  BY <1>3 DEF Client
<1>5. ASSUME m \in Unmuting(s), NEW r \in client'[c].rows, r.sock = s PROVE ~r.muted
  <2>1. CASE m.do = "list"
    <3>1. client'[c].rows = m.rows
      BY <1>1, <2>1, Listed DEF Handled
    <3>. QED
      BY <3>1, <2>1, <1>5 DEF Unmuting, Unmuted
  <2>2. CASE m.do = "muted"
    <3>1. m.sock = s /\ ~m.muted
      BY <2>2, <1>5 DEF Unmuting, RowFrames
    <3>. QED
      BY <1>1, <2>2, <3>1, <1>5, MutedRows
  <2>3. CASE m.do = "left"
    <3>1. On(m.sock) = On(s)
      BY <2>3, <1>5 DEF Unmuting, RowFrames
    <3>2. client'[c].rows = {q \in client[c].rows : On(q.sock) # On(m.sock)}
      BY <1>1, <1>3, <2>3 DEF Handled, OnLeft, Client
    <3>. QED
      BY <3>1, <3>2, <1>5
  <2>. QED
    BY <2>1, <2>2, <2>3, <1>5 DEF Unmuting
<1>6. ASSUME m \notin RowFrames(s), client[c].rows \in Unmuted(s),
             NEW r \in client'[c].rows, r.sock = s
      PROVE  ~r.muted
  <2>1. m.do \in {"joined", "left", "muted", "roster"}
    BY <1>1, <1>6 DEF DownFrame, RowFrames
  <2>2. \A q \in client[c].rows : q.sock = s => ~q.muted
    BY <1>6 DEF Unmuted
  <2>3. CASE m.do = "joined"
    BY <1>1, <1>6, <2>2, <2>3, JoinedIs DEF Handled
  <2>4. CASE m.do = "left"
    <3>1. client'[c].rows = {q \in client[c].rows : On(q.sock) # On(m.sock)}
      BY <1>1, <1>3, <2>4 DEF Handled, OnLeft, Client
    <3>. QED
      BY <3>1, <2>2, <1>6
  <2>5. CASE m.do = "muted"
    <3>1. PICK q \in client[c].rows :
            /\ r.sock = q.sock
            /\ r.muted = IF On(q.sock) = On(m.sock) THEN m.muted ELSE q.muted
      BY <1>1, <2>5, MutedRows
    <3>2. m.sock # s
      BY <1>1, <1>6, <2>5 DEF RowFrames
    <3>3. CASE On(m.sock) = On(s)
      <4>1. OldOf(m, s)
        BY <2>5, <3>2, <3>3 DEF OldOf
      <4>2. q.sock # s
        BY <4>1, <1>2 DEF OldFirst
      <4>. QED
        BY <4>2, <3>1, <1>6
    <3>4. CASE On(m.sock) # On(s)
      BY <3>1, <3>4, <2>2, <1>6
    <3>. QED
      BY <3>3, <3>4
  <2>6. CASE m.do = "roster"
    <3>1. client'[c].rows = client[c].rows
      BY <1>1, <1>3, <2>6 DEF Handled, Client
    <3>. QED
      BY <3>1, <2>2, <1>6
  <2>. QED
    BY <2>1, <2>3, <2>4, <2>5, <2>6
<1>7. m \in Unmuting(s) => client'[c].rows \in Unmuted(s)
  BY <1>4, <1>5 DEF Unmuted
<1>8. m \notin RowFrames(s) /\ client[c].rows \in Unmuted(s) => client'[c].rows \in Unmuted(s)
  BY <1>4, <1>6 DEF Unmuted
<1>. DEFINE D == RowFrames(s)
            G == Unmuting(s)
            x == client[c].rows
            y == client'[c].rows
            X == Unmuted(s)
            q == down[c]
<1>9. /\ q \in Seq(DownFrame) /\ q # <<>> /\ EndsIn(q, D, G, x, X)
      /\ Head(q) \in D /\ Head(q) \in G => y \in X
      /\ Head(q) \notin D /\ x \in X => y \in X
  BY <1>1, <1>7, <1>8 DEF Heard, m
<1>. HIDE DEF D, G, x, y, X, q
<1>10. EndsIn(Tail(q), D, G, y, X)
  BY <1>9, EndsTaken
<1>. QED
  BY <1>1, <1>10 DEF Heard, D, G, y, X, q

UntaskedNext(t) == \A k \in 1..Len(tasks') : tasks'[k] # t

LEMMA UntaskedAdded ==
    ASSUME FrameType, NEW t \in Task, tasks' = Append(tasks, t), NEW x, UntaskedNext(x)
    PROVE  Untasked(x) /\ t # x
<1>1. /\ Len(tasks) \in Nat /\ Len(tasks') = Len(tasks) + 1
      /\ \A k \in 1..Len(tasks) : tasks'[k] = tasks[k]
      /\ tasks'[Len(tasks) + 1] = t
  BY TaskAdded
<1>. QED
  BY <1>1 DEF Untasked, UntaskedNext

LEMMA UntaskedTail ==
    ASSUME FrameType, tasks # <<>>, tasks' = Tail(tasks), NEW x, UntaskedNext(x),
           Head(tasks) # x
    PROVE  Untasked(x)
<1>1. /\ Len(tasks) \in Nat \ {0} /\ Len(tasks') = Len(tasks) - 1
      /\ \A k \in 1..Len(tasks') : tasks'[k] = tasks[k + 1]
      /\ Head(tasks) = tasks[1]
  BY Tailing DEF FrameType
<1>2. ASSUME NEW k \in 1..Len(tasks), k # 1 PROVE tasks[k] # x
  <2>1. k - 1 \in 1..Len(tasks') /\ tasks'[k - 1] = tasks[k]
    BY <1>1, <1>2
  <2>. QED
    BY <2>1 DEF UntaskedNext
<1>. QED
  BY <1>1, <1>2 DEF Untasked

(* The condition under which RowInv speaks of a and b.                      *)
Watched(a, b) ==
    /\ a # b /\ OnlyTab(a) /\ client[a].on /\ client[b].on
    /\ Sock(b) \in roster /\ Untasked(JoinTask(Sock(b))) /\ Untasked(LeaveTask(Sock(a)))
    /\ Sock(a) \in roster => ~client[a].muted /\ ~HasLift(up[a])

LEMMA RowIs ==
    RowInv <=> \A a, b \in Clients :
                  Watched(a, b) => Heard(down[b], client[b].rows, Sock(a))
<1>. QED
  BY DEF RowInv, Watched, Heard, Lifting, HasLift

LEMMA SocksDiffer ==
    ASSUME NEW a, NEW b, a # b PROVE Sock(a) # Sock(b)
<1>. QED
  BY DEF Sock

LEMMA ContinueRows ==
    ASSUME TypeOK, FrameType, CallInv, ButtonInv, RowInv, Continue,
           NEW a \in Clients, NEW b \in Clients, Watched(a, b)'
    PROVE  Heard(down'[b], client[b].rows, Sock(a))
<1>. DEFINE s == Head(tasks).s
            x == client[b].rows
<1>1. /\ tasks # <<>> /\ tasks' = Tail(tasks) /\ s \in Socket
      /\ \/ Head(tasks) = JoinTask(s) /\ down' = JoinTell(s)
         \/ Head(tasks) = LeaveTask(s) /\ down' = LeaveTell(s)
  BY ContinueIs
<1>. HIDE DEF s
<1>2. /\ a # b /\ OnlyTab(a) /\ client[a].on /\ client[b].on
      /\ Sock(b) \in roster
      /\ UntaskedNext(JoinTask(Sock(b))) /\ UntaskedNext(LeaveTask(Sock(a)))
      /\ Sock(a) \in roster => ~client[a].muted /\ ~HasLift(up[a])
  BY DEF Watched, Continue, OnlyTab, Sock, HasLift, Untasked, UntaskedNext, JoinTask, LeaveTask
<1>3. /\ Untasked(JoinTask(Sock(b))) /\ Untasked(LeaveTask(Sock(a)))
         => Heard(down[b], x, Sock(a))
  BY <1>2, RowIs DEF Watched
<1>6. /\ Head(tasks) # JoinTask(Sock(b)) => Untasked(JoinTask(Sock(b)))
      /\ Head(tasks) # LeaveTask(Sock(a)) => Untasked(LeaveTask(Sock(a)))
  BY <1>1, <1>2, UntaskedTail
<1>7. /\ RosterFrame \in DownFrame /\ RosterFrame \notin RowFrames(Sock(a))
      /\ ListFor(s) \in DownFrame /\ ListFor(s) \in RowFrames(Sock(a))
      /\ JoinedFrame(s) \in DownFrame /\ JoinedFrame(s) \notin RowFrames(Sock(a))
      /\ LeftFrame(s) \in DownFrame
      /\ LeftFrame(s) \in RowFrames(Sock(a)) => LeftFrame(s) \in Unmuting(Sock(a))
  BY <1>1, Frames DEF RowFrames, Unmuting, RosterFrame, ListFor, JoinedFrame, LeftFrame
<1>8. down \in Queues /\ Sock(a) # Sock(b)
  BY <1>2, SocksDiffer DEF FrameType, Queues
<1>9. CASE Head(tasks) = JoinTask(s) /\ down' = JoinTell(s)
  <2>. DEFINE q == To(down, {s}, ListFor(s))
  <2>1. Untasked(LeaveTask(Sock(a)))
    BY <1>6, <1>9, TasksDiffer
  <2>2. q \in Queues
    BY <1>7, <1>8, ToType
  <2>3. Heard(q[b], x, Sock(a))
    <3>1. CASE s = Sock(b)
      <4>1. ListFor(s).rows \in Unmuted(Sock(a))
        <5>1. ListFor(s).rows \in SUBSET Row
          BY <1>7 DEF DownFrame, ListFor
        <5>2. ASSUME NEW r \in ListFor(s).rows, r.sock = Sock(a)
              PROVE  ~r.muted
          <6>1. r.muted = voiceUsers[Sock(a)].muted /\ Sock(a) \in roster
            BY <5>2 DEF ListFor, CallInv, RosterIsTheCall
          <6>2. ~client[a].muted /\ ~HasLift(up[a])
            BY <6>1, <1>2
          <6>. QED
            BY <6>1, <6>2, <1>2, ButtonIs DEF ButtonOf
        <5>. QED
          BY <5>1, <5>2 DEF Unmuted
      <4>2. ListFor(s) \in Unmuting(Sock(a))
        BY <4>1, <1>7 DEF Unmuting, ListFor
      <4>. QED
        BY <4>2, <1>2, <1>7, <1>8, <3>1, ToSet DEF Heard
    <3>2. CASE s # Sock(b)
      <4>1. Head(tasks) # JoinTask(Sock(b))
        BY <1>9, <3>2 DEF JoinTask
      <4>2. Heard(down[b], x, Sock(a))
        BY <4>1, <2>1, <1>3, <1>6
      <4>3. q[b] = down[b]
        BY <3>2, ToAt
      <4>. QED
        BY <4>2, <4>3
    <3>. QED
      BY <3>1, <3>2
  <2>. HIDE DEF q
  <2>. DEFINE p == To(q, viewers, RosterFrame)
  <2>4. p \in Queues /\ Heard(p[b], x, Sock(a))
    BY <2>2, <2>3, <1>7, ToType, ToKept DEF Heard
  <2>. HIDE DEF p
  <2>5. Heard(To(p, channel \ {s}, JoinedFrame(s))[b], x, Sock(a))
    BY <2>4, <1>7, ToKept DEF Heard
  <2>. QED
    BY <2>5, <1>9, JoinTellIs DEF p, q
<1>10. CASE Head(tasks) = LeaveTask(s) /\ down' = LeaveTell(s)
  <2>. DEFINE p == To(down, viewers, RosterFrame)
  <2>1. p \in Queues
    BY <1>7, <1>8, ToType
  <2>2. Untasked(JoinTask(Sock(b)))
    BY <1>6, <1>10, TasksDiffer
  <2>3. CASE s = Sock(a)
    <3>1. LeftFrame(s) \in RowFrames(Sock(a)) /\ Sock(b) \in channel \ {s}
      BY <1>2, <1>7, <1>8, <2>3 DEF RowFrames, LeftFrame, CallInv
    <3>. HIDE DEF p
    <3>2. Heard(To(p, channel \ {s}, LeftFrame(s))[b], x, Sock(a))
      BY <1>2, <1>7, <2>1, <3>1, ToSet DEF Heard
    <3>. QED
      BY <3>2, <1>10, LeaveTellIs DEF p
  <2>4. CASE s # Sock(a)
    <3>1. Head(tasks) # LeaveTask(Sock(a))
      BY <1>10, <2>4 DEF LeaveTask
    <3>2. Heard(down[b], x, Sock(a))
      BY <3>1, <2>2, <1>3, <1>6
    <3>3. Heard(p[b], x, Sock(a))
      BY <3>2, <1>7, <1>8, ToKept DEF Heard
    <3>. HIDE DEF p
    <3>4. Heard(To(p, channel \ {s}, LeftFrame(s))[b], x, Sock(a))
      BY <3>3, <1>7, <2>1, ToKept DEF Heard
    <3>. QED
      BY <3>4, <1>10, LeaveTellIs DEF p
  <2>. QED
    BY <2>3, <2>4
<1>. QED
  BY <1>1, <1>9, <1>10

LEMMA LeaveRows ==
    ASSUME TypeOK, FrameType, RowInv, NEW s \in Socket, LeaveMaps(s),
           client' = client, down' = down, scope' = scope,
           NEW a \in Clients, NEW b \in Clients, Watched(a, b)',
           HasLift(up[a]) => HasLift(up'[a])
    PROVE  Heard(down[b], client[b].rows, Sock(a))
<1>1. /\ tasks' = Append(tasks, LeaveTask(s)) /\ LeaveTask(s) \in Task
      /\ roster' = roster \ {s}
  BY DEF LeaveMaps, LeaveTask, Task
<1>2. /\ Sock(b)' = Sock(b) /\ Sock(a)' = Sock(a)
      /\ JoinTask(Sock(b))' = JoinTask(Sock(b)) /\ LeaveTask(Sock(a))' = LeaveTask(Sock(a))
  BY DEF Sock, JoinTask, LeaveTask
<1>3. UntaskedNext(JoinTask(Sock(b))) /\ UntaskedNext(LeaveTask(Sock(a)))
  BY <1>2 DEF Watched, Untasked, UntaskedNext
<1>4. /\ Untasked(JoinTask(Sock(b))) /\ Untasked(LeaveTask(Sock(a)))
      /\ LeaveTask(s) # LeaveTask(Sock(a))
  BY <1>1, <1>3, UntaskedAdded
<1>5. Sock(a) # s
  BY <1>4
<1>6. Watched(a, b)
  BY <1>1, <1>2, <1>4, <1>5 DEF Watched, OnlyTab
<1>. QED
  BY <1>6, RowIs

LEMMA JoinRows ==
    ASSUME TypeOK, FrameType, RowInv, NEW c \in Clients, handleJoinVoiceChat(c),
           NEW a \in Clients, NEW b \in Clients, Watched(a, b)',
           HasLift(up[a]) => HasLift(up'[a])
    PROVE  Heard(down[b], client[b].rows, Sock(a))
<1>. DEFINE s == Sock(c)
<1>1. /\ tasks' = Append(tasks, JoinTask(s)) /\ JoinTask(s) \in Task
      /\ roster' = roster \cup {s} /\ client' = client /\ scope' = scope
  BY SockType DEF handleJoinVoiceChat, JoinTask, Task
<1>. HIDE DEF s
<1>2. /\ Sock(b)' = Sock(b) /\ Sock(a)' = Sock(a)
      /\ JoinTask(Sock(b))' = JoinTask(Sock(b)) /\ LeaveTask(Sock(a))' = LeaveTask(Sock(a))
  BY <1>1 DEF Sock, JoinTask, LeaveTask
<1>3. UntaskedNext(JoinTask(Sock(b))) /\ UntaskedNext(LeaveTask(Sock(a)))
  BY <1>2 DEF Watched, Untasked, UntaskedNext
<1>4. /\ Untasked(JoinTask(Sock(b))) /\ Untasked(LeaveTask(Sock(a)))
      /\ JoinTask(s) # JoinTask(Sock(b))
  BY <1>1, <1>3, UntaskedAdded
<1>5. Sock(b) # s
  BY <1>4
<1>6. Watched(a, b)
  BY <1>1, <1>2, <1>4, <1>5 DEF Watched, OnlyTab
<1>. QED
  BY <1>6, RowIs

LEMMA ToggleRows ==
    ASSUME TypeOK, FrameType, CallInv, ButtonInv, RowInv, NEW c \in Clients, Toggles(c),
           NEW a \in Clients, NEW b \in Clients, Watched(a, b)'
    PROVE  Heard(down'[b], client[b].rows, Sock(a))
<1>. DEFINE m == MutedFrame(Sock(c), voiceUsers'[Sock(c)].muted)
            x == client[b].rows
<1>1. /\ client' = client /\ scope' = scope /\ roster' = roster /\ tasks' = tasks
  BY DEF Toggles
<1>2. PICK what \in {"mute", "deafen"} : Receives(c, what)
  BY DEF Toggles
<1>3. /\ a # b /\ OnlyTab(a) /\ client[a].on /\ client[b].on
      /\ Sock(b) \in roster /\ Untasked(JoinTask(Sock(b))) /\ Untasked(LeaveTask(Sock(a)))
      /\ Sock(a) \in roster => ~client[a].muted /\ ~HasLift(up'[a])
  BY <1>1 DEF Watched, OnlyTab, Sock, HasLift, Untasked, JoinTask, LeaveTask
<1>4. CASE Sock(c) \in DOMAIN voiceUsers
  <2>1. down' = To(down, channel, m) /\ down \in Queues
    BY <1>4 DEF Toggles, FrameType, Queues
  <2>2. /\ m \in DownFrame /\ m.do = "muted" /\ m.sock = Sock(c)
        /\ m.muted = voiceUsers'[Sock(c)].muted
    BY <1>4, SockType, Frames DEF Toggles, MutedFrame
  <2>. HIDE DEF m
  <2>3. CASE c = a
    <3>1. /\ Sock(a) \in roster /\ Sock(b) \in channel
          /\ ~client[a].muted /\ ~HasLift(up'[a])
      BY <1>3, <1>4, <2>3 DEF CallInv, RosterIsTheCall
    <3>2. Lifted(up[a]) /\ (~HasLift(up[a]) => ~voiceUsers[Sock(a)].muted)
      BY <1>3, <3>1, ButtonIs DEF ButtonOf
    <3>3. /\ Mutes(Head(up[a])) => HasLift(up'[a])
          /\ ~Lifts(Head(up[a])) /\ HasLift(up[a]) => HasLift(up'[a])
      BY <1>2, <2>3, <3>2, Received, LiftTail
    <3>4. ~voiceUsers'[Sock(c)].muted
      BY <1>4, <2>3, <3>1, <3>2, <3>3 DEF Toggles
    <3>5. m \in RowFrames(Sock(a)) /\ m \in Unmuting(Sock(a))
      BY <2>2, <2>3, <3>4 DEF RowFrames, Unmuting
    <3>. QED
      BY <1>3, <2>1, <2>2, <3>1, <3>5, ToSet DEF Heard
  <2>4. CASE c # a
    <3>1. up'[a] = up[a]
      BY <1>2, <2>4, Received
    <3>2. Heard(down[b], x, Sock(a))
      BY <1>3, <3>1, RowIs DEF Watched
    <3>3. m \notin RowFrames(Sock(a))
      BY <2>2, <2>4 DEF RowFrames, Sock
    <3>. QED
      BY <2>1, <2>2, <3>2, <3>3, ToKept DEF Heard
  <2>. QED
    BY <2>3, <2>4
<1>5. CASE Sock(c) \notin DOMAIN voiceUsers
  <2>1. down' = down
    BY <1>5 DEF Toggles
  <2>2. Sock(a) \in roster => up'[a] = up[a]
    <3>1. Sock(a) \in roster => a # c
      BY <1>5 DEF CallInv, RosterIsTheCall
    <3>. QED
      BY <3>1, <1>2, Received
  <2>3. Watched(a, b)
    BY <1>3, <2>2 DEF Watched
  <2>. QED
    BY <2>1, <2>3, RowIs
<1>. QED
  BY <1>4, <1>5

LEMMA ReconnectRows ==
    ASSUME TypeOK, FrameType, SockInv, FreshInv, NEW c \in Clients, Reconnect(c),
           NEW b \in Clients
    PROVE  Heard(down[b], client[b].rows, Sock(c)')
<1>. DEFINE s == Sock(c)'
<1>1. ~Past(s)
  <2>1. client'[c].n = client[c].n + 1
    BY ReconnectIs
  <2>2. client[c].n \in Nat
    BY ClientIs DEF Client
  <2>. QED
    BY <2>1, <2>2 DEF Past, Sock
<1>. HIDE DEF s
<1>2. client[b].rows \in Unmuted(s)
  <2>1. client[b].rows \in SUBSET Row
    BY ClientIs DEF Client
  <2>2. \A r \in client[b].rows : r.sock # s
    BY <1>1 DEF FreshInv
  <2>. QED
    BY <2>1, <2>2 DEF Unmuted
<1>3. ASSUME NEW k \in 1..Len(down[b]), down[b][k] \in RowFrames(s)
      PROVE  down[b][k] \in Unmuting(s)
  <2>. DEFINE m == down[b][k]
  <2>1. s \notin FrameSocks(m)
    BY <1>1 DEF FreshInv, FreshFrames
  <2>2. m \in DownFrame /\ m \in RowFrames(s)
    BY <1>3 DEF FrameType
  <2>. HIDE DEF m
  <2>3. CASE m.do = "list"
    <3>1. m.rows \in SUBSET Row
      BY <2>2, <2>3 DEF DownFrame
    <3>2. \A r \in m.rows : r.sock # s
      BY <2>1, <2>3 DEF FrameSocks
    <3>3. m.rows \in Unmuted(s)
      BY <3>1, <3>2 DEF Unmuted
    <3>. QED
      BY <2>2, <2>3, <3>3 DEF Unmuting, m
  <2>4. CASE m.do = "muted"
    BY <2>1, <2>2, <2>4 DEF FrameSocks, RowFrames
  <2>5. CASE m.do = "left"
    BY <2>2, <2>5 DEF Unmuting, m
  <2>. QED
    BY <2>2, <2>3, <2>4, <2>5 DEF RowFrames
<1>4. Heard(down[b], client[b].rows, s)
  BY <1>2, <1>3 DEF Heard, EndsIn
<1>. QED
  BY <1>4 DEF s

LEMMA HeadNoLift ==
    ASSUME FrameType, NEW c \in Clients, NEW w \in {"join", "leave", "room"}, Receives(c, w),
           NEW a \in Clients, HasLift(up[a])
    PROVE  HasLift(up'[a])
<1>1. CASE a # c
  BY <1>1, Received
<1>2. CASE a = c
  <2>1. ~Lifts(Head(up[c]))
    BY Received DEF Lifts
  <2>. QED
    BY <1>2, <2>1, Received, LiftTail
<1>. QED
  BY <1>1, <1>2

LEMMA NextRow ==
    ASSUME TypeOK, FrameType, SockInv, CallInv, FreshInv, ButtonInv, OldInv, RowInv, Steps
    PROVE  RowInv'
<1>. DEFINE Goal(a, b) == Heard(down'[b], client'[b].rows, Sock(a)')
<1>. SUFFICES ASSUME NEW a \in Clients, NEW b \in Clients, Watched(a, b)'
              PROVE  Heard(down'[b], client'[b].rows, Sock(a)')
  BY DEF RowInv, Watched, Heard, Lifting, HasLift, EndsIn, NoneOf, RowFrames, Unmuting, Unmuted, On
<1>1. CASE Continue
  <2>1. client' = client
    BY <1>1 DEF Continue
  <2>2. Sock(a)' = Sock(a)
    BY <2>1 DEF Sock
  <2>. QED
    BY <1>1, <2>1, <2>2, ContinueRows
<1>2. ASSUME NEW s \in sockets, handleDisconnect(s)
      PROVE  Goal(a, b)
  <2>1. /\ client' = client /\ down' = down /\ up' = up /\ scope' = scope
        /\ Sock(a)' = Sock(a) /\ s \in Socket
    BY <1>2 DEF handleDisconnect, Sock, TypeOK
  <2>2. CASE s \in DOMAIN voiceUsers
    <3>1. LeaveMaps(s)
      BY <1>2, <2>2 DEF handleDisconnect
    <3>. QED
      BY <2>1, <3>1, LeaveRows
  <2>3. CASE s \notin DOMAIN voiceUsers
    <3>1. roster' = roster /\ tasks' = tasks
      BY <1>2, <2>3 DEF handleDisconnect
    <3>2. Watched(a, b)
      BY <2>1, <3>1 DEF Watched, OnlyTab, Sock, HasLift, Untasked, JoinTask, LeaveTask
    <3>. QED
      BY <2>1, <3>2, RowIs
  <2>. QED
    BY <2>2, <2>3
<1>3. ASSUME NEW s \in answering, JoinRoomAnswer(s)
      PROVE  Goal(a, b)
  <2>. DEFINE f == [do |-> "roster", users |-> {On(t) : t \in roster}]
  <2>1. down' = To(down, {s}, f) /\ f \in DownFrame /\ down \in Queues
    BY <1>3, AnswerIs DEF FrameType, Queues
  <2>2. f \notin RowFrames(Sock(a))
    BY DEF RowFrames
  <2>. HIDE DEF f
  <2>3. /\ client' = client /\ up' = up /\ scope' = scope /\ roster' = roster
        /\ tasks' = tasks
    BY <1>3 DEF JoinRoomAnswer, callVars
  <2>4. Watched(a, b) /\ Sock(a)' = Sock(a)
    BY <2>3 DEF Watched, OnlyTab, Sock, HasLift, Untasked, JoinTask, LeaveTask
  <2>5. Heard(down[b], client[b].rows, Sock(a))
    BY <2>4, RowIs
  <2>. QED
    BY <2>1, <2>2, <2>3, <2>4, <2>5, ToKept DEF Heard
<1>4. ASSUME NEW c \in Clients, handleJoinVoiceChat(c)
      PROVE  Goal(a, b)
  <2>1. Receives(c, "join") /\ client' = client /\ down' = down /\ Sock(a)' = Sock(a)
    BY <1>4 DEF handleJoinVoiceChat, Sock
  <2>2. HasLift(up[a]) => HasLift(up'[a])
    BY <2>1, HeadNoLift
  <2>. QED
    BY <1>4, <2>1, <2>2, JoinRows
<1>5. ASSUME NEW c \in Clients, handleLeaveVoice(c)
      PROVE  Goal(a, b)
  <2>1. /\ Receives(c, "leave") /\ client' = client /\ down' = down /\ Sock(a)' = Sock(a)
        /\ scope' = scope
    BY <1>5 DEF handleLeaveVoice, Sock
  <2>2. HasLift(up[a]) => HasLift(up'[a])
    BY <2>1, HeadNoLift
  <2>3. CASE Sock(c) \in DOMAIN voiceUsers
    <3>1. LeaveMaps(Sock(c)) /\ Sock(c) \in Socket
      BY <1>5, <2>3, SockType DEF handleLeaveVoice
    <3>. QED
      BY <2>1, <2>2, <3>1, LeaveRows
  <2>4. CASE Sock(c) \notin DOMAIN voiceUsers
    <3>1. roster' = roster /\ tasks' = tasks
      BY <1>5, <2>4 DEF handleLeaveVoice, callVars
    <3>2. Watched(a, b)
      BY <2>1, <2>2, <3>1 DEF Watched, OnlyTab, Sock, Untasked, JoinTask, LeaveTask, HasLift
    <3>. QED
      BY <2>1, <3>2, RowIs
  <2>. QED
    BY <2>3, <2>4
<1>6. ASSUME NEW c \in Clients, Toggles(c)
      PROVE  Goal(a, b)
  <2>1. client' = client /\ Sock(a)' = Sock(a)
    BY <1>6 DEF Toggles, Sock
  <2>. QED
    BY <1>6, <2>1, ToggleRows
<1>7. ASSUME NEW c \in Clients, handleJoinRoom(c)
      PROVE  Goal(a, b)
  <2>1. /\ Receives(c, "room") /\ client' = client /\ down' = down /\ Sock(a)' = Sock(a)
        /\ scope' = scope /\ roster' = roster /\ tasks' = tasks
    BY <1>7 DEF handleJoinRoom, callVars, Sock
  <2>2. HasLift(up[a]) => HasLift(up'[a])
    BY <2>1, HeadNoLift
  <2>3. Watched(a, b)
    BY <2>1, <2>2 DEF Watched, OnlyTab, Sock, Untasked, JoinTask, LeaveTask, HasLift
  <2>. QED
    BY <2>1, <2>3, RowIs
<1>8. ASSUME NEW c \in Clients, Hear(c)
      PROVE  Goal(a, b)
  <2>1. /\ up' = up /\ scope' = scope /\ roster' = roster /\ tasks' = tasks
        /\ \A d \in Clients : Alike(client'[d], client[d])
        /\ \A d \in Clients : d # c => down'[d] = down[d] /\ client'[d] = client[d]
    BY <1>8, HearIs DEF callVars
  <2>2. Sock(a)' = Sock(a) /\ Sock(b)' = Sock(b)
    BY <2>1 DEF Alike, Sock
  <2>3. Watched(a, b) /\ OnlyTab(a)
    BY <2>1, <2>2 DEF Watched, OnlyTab, Alike, Untasked, JoinTask, LeaveTask, HasLift
  <2>4. Heard(down[b], client[b].rows, Sock(a))
    BY <2>3, RowIs
  <2>5. CASE b = c
    <3>1. OldFirst(down[c], client[c].rows, Sock(a)) /\ Sock(a) \in Socket
      BY <2>3, SockType DEF OldInv
    <3>. QED
      BY <1>8, <2>2, <2>4, <2>5, <3>1, HearHeard
  <2>6. CASE b # c
    BY <2>1, <2>2, <2>4, <2>6
  <2>. QED
    BY <2>5, <2>6
<1>9. ASSUME NEW c \in Clients, Pressed(c)
      PROVE  Goal(a, b)
  <2>1. /\ scope'.clients = scope.clients /\ roster' = roster /\ tasks' = tasks /\ down' = down
        /\ \A d \in Clients : d # c => client'[d] = client[d] /\ up'[d] = up[d]
        /\ client'[c].n = client[c].n /\ client'[c].on = client[c].on
        /\ client'[c].rows \subseteq client[c].rows
    BY <1>9 DEF Pressed, callVars
  <2>2. Sock(a)' = Sock(a) /\ Sock(b)' = Sock(b)
    BY <2>1 DEF Sock
  <2>3. /\ client[a].on = client'[a].on /\ client[b].on = client'[b].on
        /\ client'[b].rows \subseteq client[b].rows
    BY <2>1
  <2>4. Sock(a) \in roster => ~client[a].muted /\ ~HasLift(up[a])
    <3>1. Sock(a) \in roster => ~client'[a].muted /\ ~HasLift(up'[a])
      BY <2>1, <2>2 DEF Watched, HasLift
    <3>2. CASE a # c
      BY <2>1, <3>1, <3>2
    <3>3. CASE a = c
      <4>1. ~client[c].muted => Lifted(up[c])
        BY ButtonIs DEF ButtonOf
      <4>. QED
        BY <1>9, <3>1, <3>3, <4>1, LiftPressed
    <3>. QED
      BY <3>2, <3>3
  <2>5. Watched(a, b)
    BY <2>1, <2>2, <2>3, <2>4 DEF Watched, OnlyTab, Untasked, JoinTask, LeaveTask
  <2>6. Heard(down[b], client[b].rows, Sock(a))
    BY <2>5, RowIs
  <2>7. client[b].rows \in Unmuted(Sock(a)) => client'[b].rows \in Unmuted(Sock(a))
    BY <2>3 DEF Unmuted
  <2>. QED
    BY <2>1, <2>2, <2>6, <2>7 DEF Heard, EndsIn
<1>10. ASSUME NEW c \in Clients, Drop(c)
       PROVE  Goal(a, b)
  <2>1. a # c /\ b # c
    BY <1>10, DropIs DEF Watched
  <2>2. /\ client'[a] = client[a] /\ up'[a] = up[a]
        /\ client'[b] = client[b] /\ down'[b] = down[b]
        /\ scope'.clients = scope.clients /\ roster' = roster /\ tasks' = tasks
    BY <1>10, <2>1, DropIs DEF callVars
  <2>3. Watched(a, b) /\ Sock(a)' = Sock(a)
    BY <2>2 DEF Watched, OnlyTab, Sock, HasLift, Untasked, JoinTask, LeaveTask
  <2>. QED
    BY <2>2, <2>3, RowIs
<1>11. ASSUME NEW c \in Clients, Reconnect(c)
       PROVE  Goal(a, b)
  <2>1. /\ roster' = roster /\ tasks' = tasks /\ scope' = scope /\ down' = down
        /\ client'[c].n = client[c].n + 1 /\ client'[c].rows = client[c].rows
        /\ \A d \in Clients : d # c => client'[d] = client[d] /\ up'[d] = up[d]
    BY <1>11, ReconnectIs DEF callVars
  <2>2. b # c
    <3>1. client[c].n \in Nat /\ Sock(c)' = <<c, client[c].n + 1>>
      BY <2>1, ClientIs DEF Sock, Client
    <3>2. \A s \in roster : Past(s)
      BY DEF SockInv, CallInv, RosterIsTheCall
    <3>3. Sock(c)' \notin roster'
      BY <2>1, <3>1, <3>2 DEF Past
    <3>. QED
      BY <3>3 DEF Watched
  <2>3. CASE a = c
    BY <1>11, <2>1, <2>2, <2>3, ReconnectRows
  <2>4. CASE a # c
    <3>1. client'[a] = client[a] /\ up'[a] = up[a] /\ client'[b] = client[b]
      BY <2>1, <2>2, <2>4
    <3>2. Watched(a, b) /\ Sock(a)' = Sock(a)
      BY <2>1, <3>1 DEF Watched, OnlyTab, Sock, HasLift, Untasked, JoinTask, LeaveTask
    <3>. QED
      BY <2>1, <3>1, <3>2, RowIs
  <2>. QED
    BY <2>3, <2>4
<1>. QED
  BY <1>1, <1>2, <1>3, <1>4, <1>5, <1>6, <1>7, <1>8, <1>9, <1>10, <1>11 DEF Steps

-----------------------------------------------------------------------------
(* Two users on the call.                                                   *)

PeerIn(k, s) == {p \in k.peers : p.sock = s}
Decider(s, i) == IF i THEN ListsOf(s) ELSE JoinsOf(s)
As(s, i) == {{[sock |-> s, initiator |-> i]}}
Comes(q, P, s, i) == EndsIn(q, Decides(s), Decider(s, i), P, As(s, i))

(* The condition under which PairInv speaks of a and b.                     *)
Paired(a, b) ==
    /\ UserOf[a] # UserOf[b]
    /\ Steady(a) /\ Steady(b) /\ Told(Sock(a)) /\ Told(Sock(b))
Opposed(a, b, i) ==
    /\ Comes(down[a], PeerIn(client[a], Sock(b)), Sock(b), i)
    /\ Comes(down[b], PeerIn(client[b], Sock(a)), Sock(a), ~i)

LEMMA PairIs ==
    PairInv <=> \A a, b \in Clients : Paired(a, b) => \E i \in BOOLEAN : Opposed(a, b, i)
<1>. QED
  BY DEF PairInv, Paired, Opposed, Comes, EndsAs, Decider, As, PeerIn, Peer

(* What a frame makes of the peer for s.                                    *)
LEMMA PeerHeard ==
    ASSUME TypeOK, NEW c \in Clients, NEW m \in DownFrame, client[c].stream,
           NEW s \in Socket, On(s) # UserOf[c]
    PROVE  /\ m \in ListsOf(s) => PeerIn(Handled(c, m), s) = {[sock |-> s, initiator |-> TRUE]}
           /\ m \in JoinsOf(s) => PeerIn(Handled(c, m), s) = {[sock |-> s, initiator |-> FALSE]}
           /\ m \notin Decides(s) => PeerIn(Handled(c, m), s) = PeerIn(client[c], s)
<1>. DEFINE k == client[c]
<1>1. m.do \in {"list", "joined", "left", "muted", "roster"}
  BY DEF DownFrame
<1>2. k \in Client /\ k.peers \in SUBSET [sock : Socket, initiator : BOOLEAN]
  BY ClientIs DEF Client
<1>3. CASE m.do = "list"
  <2>. DEFINE there == {r.sock : r \in {r \in m.rows : On(r.sock) # UserOf[c]}}
              P == {p \in k.peers : p.sock \notin there} \cup
                     {[sock |-> t, initiator |-> TRUE] : t \in there}
  <2>. DEFINE L == k.loose \cup {p \in k.peers : p.sock \in there}
  <2>0. Handled(c, m) = [k EXCEPT !.rows = m.rows, !.peers = P, !.loose = L]
    BY <1>3 DEF Handled, OnList
  <2>1. Handled(c, m).peers = P
    <3>. HIDE DEF L, P
    <3>. QED
      BY <1>2, <2>0 DEF Client
  <2>2. PeerIn(Handled(c, m), s) = {p \in P : p.sock = s}
    BY <2>1 DEF PeerIn
  <2>3. m \in ListsOf(s) <=> s \in there
    BY <1>3 DEF ListsOf
  <2>. HIDE DEF there
  <2>4. s \in there => {p \in P : p.sock = s} = {[sock |-> s, initiator |-> TRUE]}
    <3>. SUFFICES ASSUME s \in there
                  PROVE  {p \in P : p.sock = s} = {[sock |-> s, initiator |-> TRUE]}
      OBVIOUS
    <3>1. ASSUME NEW p \in P, p.sock = s PROVE p = [sock |-> s, initiator |-> TRUE]
      BY <3>1
    <3>2. [sock |-> s, initiator |-> TRUE] \in {p \in P : p.sock = s}
      OBVIOUS
    <3>. HIDE DEF P
    <3>3. \A p : p \in {p1 \in P : p1.sock = s} <=> p = [sock |-> s, initiator |-> TRUE]
      BY <3>1, <3>2
    <3>. QED
      BY <3>3
  <2>5. s \notin there => {p \in P : p.sock = s} = PeerIn(k, s)
    BY DEF PeerIn
  <2>. QED
    BY <1>3, <2>2, <2>3, <2>4, <2>5 DEF Decides, JoinsOf
<1>4. CASE m.do = "joined"
  <2>. DEFINE l == [k EXCEPT !.rows = @ \cup {[sock |-> m.sock, muted |-> FALSE]}]
              f == [sock |-> m.sock, initiator |-> FALSE]
              P == {p \in l.peers : p.sock # m.sock} \cup {f}
  <2>1. l.stream /\ l.peers = k.peers
    BY <1>2 DEF Client
  <2>2. Handled(c, m) = createPeerConnection(l, m.sock, FALSE)
    BY <1>4 DEF Handled, OnJoined
  <2>3. "peers" \in DOMAIN l
    BY <1>2 DEF Client
  <2>. HIDE DEF l
  <2>4. Handled(c, m).peers = P
    BY <2>1, <2>2, <2>3 DEF createPeerConnection
  <2>5. PeerIn(Handled(c, m), s) = {p \in P : p.sock = s}
    BY <2>4 DEF PeerIn
  <2>6. CASE m.sock = s
    <3>1. {p \in P : p.sock = s} = {f}
      BY <2>6
    <3>. QED
      BY <1>4, <2>5, <2>6, <3>1 DEF ListsOf, JoinsOf, LeavesOf, Decides
  <2>7. CASE m.sock # s
    <3>1. {p \in P : p.sock = s} = PeerIn(k, s)
      BY <2>1, <2>7 DEF PeerIn
    <3>. QED
      BY <1>4, <2>5, <2>7, <3>1 DEF ListsOf, JoinsOf
  <2>. QED
    BY <2>6, <2>7
<1>5. CASE m.do = "left"
  <2>1. Handled(c, m).peers = {p \in k.peers : p.sock # m.sock}
    BY <1>2, <1>5 DEF Handled, OnLeft, Client
  <2>. QED
    BY <1>5, <2>1 DEF PeerIn, ListsOf, JoinsOf, LeavesOf, Decides
<1>6. CASE m.do \in {"muted", "roster"}
  <2>1. Handled(c, m).peers = k.peers
    BY <1>2, <1>6 DEF Handled, OnMuted, Client
  <2>. QED
    BY <1>6, <2>1 DEF PeerIn, ListsOf, JoinsOf
<1>. QED
  BY <1>1, <1>3, <1>4, <1>5, <1>6

LEMMA HearPeer ==
    ASSUME TypeOK, FrameType, NEW c \in Clients, Hear(c), client[c].stream,
           NEW s \in Socket, On(s) # UserOf[c], NEW i \in BOOLEAN,
           Comes(down[c], PeerIn(client[c], s), s, i)
    PROVE  Comes(down'[c], PeerIn(client'[c], s), s, i)
<1>. DEFINE m == Head(down[c])
            D == Decides(s)
            G == Decider(s, i)
            x == PeerIn(client[c], s)
            y == PeerIn(client'[c], s)
            X == As(s, i)
            q == down[c]
<1>1. /\ q \in Seq(DownFrame) /\ q # <<>> /\ m \in DownFrame
      /\ down'[c] = Tail(q) /\ client'[c] = Handled(c, m)
  BY HearIs
<1>2. m \in G => y \in X
  <2>1. /\ m \in ListsOf(s) => y = {[sock |-> s, initiator |-> TRUE]}
        /\ m \in JoinsOf(s) => y = {[sock |-> s, initiator |-> FALSE]}
    BY <1>1, PeerHeard
  <2>. HIDE DEF y
  <2>2. CASE i = TRUE
    BY <2>1, <2>2 DEF Decider, As
  <2>3. CASE i = FALSE
    BY <2>1, <2>3 DEF Decider, As
  <2>. QED
    BY <2>2, <2>3
<1>3. m \notin D => y = x
  BY <1>1, PeerHeard
<1>4. EndsIn(q, D, G, x, X) /\ Head(q) = m
  BY DEF Comes
<1>. HIDE DEF m, D, G, x, y, X, q
<1>5. EndsIn(Tail(q), D, G, y, X)
  BY <1>1, <1>2, <1>3, <1>4, EndsTaken
<1>. QED
  BY <1>1, <1>5 DEF Comes, D, G, y, X, q

(* The newcomer's list and what the others are told make them opposite.     *)
LEMMA JoinOpposes ==
    ASSUME TypeOK, FrameType, CallInv, NEW a \in Clients, NEW b \in Clients, a # b,
           client[a].on, client[b].on, Sock(a) \in roster, Sock(b) \in roster,
           down' = JoinTell(Sock(a)), NEW P, NEW Q
    PROVE  /\ Comes(down'[a], P, Sock(b), TRUE)
           /\ Comes(down'[b], Q, Sock(a), FALSE)
<1>. DEFINE s == Sock(a)
            t == Sock(b)
            q == To(down, {s}, ListFor(s))
            p == To(q, viewers, RosterFrame)
            e == To(p, channel \ {s}, JoinedFrame(s))
<1>1. /\ s # t /\ s \in Socket /\ t \in Socket /\ down \in Queues
      /\ t \in channel \ {s} /\ down' = e
  BY SocksDiffer, SockType, JoinTellIs DEF FrameType, Queues, CallInv
<1>2. /\ ListFor(s) \in DownFrame /\ RosterFrame \in DownFrame /\ JoinedFrame(s) \in DownFrame
      /\ RosterFrame \notin Decides(t) /\ JoinedFrame(s) \notin Decides(t)
      /\ JoinedFrame(s) \in Decides(s) /\ JoinedFrame(s) \in JoinsOf(s)
  BY <1>1, Frames DEF Decides, ListsOf, JoinsOf, LeavesOf, RosterFrame, JoinedFrame
<1>3. ListFor(s) \in ListsOf(t) /\ ListFor(s) \in Decides(t)
  <2>1. [sock |-> t, muted |-> voiceUsers[t].muted] \in ListFor(s).rows
    BY <1>1 DEF ListFor, CallInv, RosterIsTheCall
  <2>2. \E r \in ListFor(s).rows : r.sock = t
    BY <2>1
  <2>3. ListFor(s).do = "list"
    BY DEF ListFor
  <2>. QED
    BY <1>2, <2>2, <2>3 DEF ListsOf, Decides
<1>4. Comes(q[a], P, t, TRUE) /\ q \in Queues
  BY <1>1, <1>2, <1>3, ToSet, ToType DEF Comes, Decider
<1>. HIDE DEF q
<1>5. Comes(p[a], P, t, TRUE) /\ p \in Queues
  BY <1>2, <1>4, ToKept, ToType DEF Comes, Decider
<1>. HIDE DEF p
<1>6. Comes(e[a], P, t, TRUE)
  BY <1>2, <1>5, ToKept DEF Comes, Decider
<1>7. Comes(e[b], Q, s, FALSE)
  BY <1>1, <1>2, <1>5, ToSet DEF Comes, Decider
<1>. QED
  BY <1>1, <1>6, <1>7

ToldNext(s) == \A k \in 1..Len(tasks') : tasks'[k].s # s

LEMMA ToldAdded ==
    ASSUME FrameType, NEW t \in Task, tasks' = Append(tasks, t), NEW s, ToldNext(s)
    PROVE  Told(s) /\ t.s # s
<1>1. /\ Len(tasks) \in Nat /\ Len(tasks') = Len(tasks) + 1
      /\ \A k \in 1..Len(tasks) : tasks'[k] = tasks[k]
      /\ tasks'[Len(tasks) + 1] = t
  BY TaskAdded
<1>. QED
  BY <1>1 DEF Told, ToldNext

LEMMA ToldTail ==
    ASSUME FrameType, tasks # <<>>, tasks' = Tail(tasks), NEW s, ToldNext(s),
           Head(tasks).s # s
    PROVE  Told(s)
<1>1. /\ Len(tasks) \in Nat \ {0} /\ Len(tasks') = Len(tasks) - 1
      /\ \A k \in 1..Len(tasks') : tasks'[k] = tasks[k + 1]
      /\ Head(tasks) = tasks[1]
  BY Tailing DEF FrameType
<1>2. ASSUME NEW k \in 1..Len(tasks), k # 1 PROVE tasks[k].s # s
  <2>1. k - 1 \in 1..Len(tasks') /\ tasks'[k - 1] = tasks[k]
    BY <1>1, <1>2
  <2>. QED
    BY <2>1 DEF ToldNext
<1>. QED
  BY <1>1, <1>2 DEF Told

(* A socket on the call of which nothing more is to be told has joined.     *)
LEMMA LastTold ==
    ASSUME FrameType, TaskInv, tasks # <<>>, tasks' = Tail(tasks), NEW s \in roster,
           ToldNext(s)
    PROVE  Head(tasks) # LeaveTask(s)
<1>1. /\ Len(tasks) \in Nat \ {0} /\ Len(tasks') = Len(tasks) - 1
      /\ \A k \in 1..Len(tasks') : tasks'[k] = tasks[k + 1]
      /\ Head(tasks) = tasks[1]
  BY Tailing DEF FrameType
<1>. SUFFICES ASSUME Head(tasks) = LeaveTask(s)
              PROVE  FALSE
  OBVIOUS
<1>2. PICK m \in 1..Len(tasks) : m > 1 /\ tasks[m] = JoinTask(s)
  BY <1>1 DEF TaskInv
<1>3. m - 1 \in 1..Len(tasks') /\ tasks'[m - 1] = tasks[m] /\ tasks[m].s = s
  BY <1>1, <1>2 DEF JoinTask
<1>. QED
  BY <1>3 DEF ToldNext

LEMMA OthersTold ==
    ASSUME TypeOK, FrameType, NEW s \in Socket, NEW c \in Clients, NEW t, t # s,
           Sock(c) # s, NEW P, NEW i \in BOOLEAN, Comes(down[c], P, t, i)
    PROVE  Comes(JoinTell(s)[c], P, t, i) /\ Comes(LeaveTell(s)[c], P, t, i)
<1>. DEFINE q == To(down, {s}, ListFor(s))
            p == To(q, viewers, RosterFrame)
            l == To(down, viewers, RosterFrame)
<1>1. /\ RosterFrame \in DownFrame /\ JoinedFrame(s) \in DownFrame /\ LeftFrame(s) \in DownFrame
      /\ RosterFrame \notin Decides(t)
      /\ JoinedFrame(s) \notin Decides(t) /\ LeftFrame(s) \notin Decides(t)
  BY Frames DEF Decides, ListsOf, JoinsOf, LeavesOf, RosterFrame, JoinedFrame, LeftFrame
<1>2. q \in Queues /\ p \in Queues /\ l \in Queues /\ down \in Queues
  BY JoinTold, LeaveTold DEF FrameType, Queues
<1>3. Comes(q[c], P, t, i)
  BY ToAt
<1>4. Comes(l[c], P, t, i)
  BY <1>1, <1>2, ToKept DEF Comes
<1>. HIDE DEF q
<1>5. Comes(p[c], P, t, i)
  BY <1>1, <1>2, <1>3, ToKept DEF Comes
<1>. HIDE DEF p, l
<1>6. /\ Comes(To(p, channel \ {s}, JoinedFrame(s))[c], P, t, i)
      /\ Comes(To(l, channel \ {s}, LeftFrame(s))[c], P, t, i)
  BY <1>1, <1>2, <1>4, <1>5, ToKept DEF Comes
<1>. QED
  BY <1>6, JoinTellIs, LeaveTellIs DEF p, q, l

LEMMA ContinuePair ==
    ASSUME TypeOK, FrameType, CallInv, TaskInv, PairInv, Continue,
           NEW a \in Clients, NEW b \in Clients, Paired(a, b)'
    PROVE  \E i \in BOOLEAN : Opposed(a, b, i)'
<1>. DEFINE s == Head(tasks).s
<1>1. /\ tasks # <<>> /\ tasks' = Tail(tasks) /\ s \in Socket
      /\ \/ Head(tasks) = JoinTask(s) /\ down' = JoinTell(s)
         \/ Head(tasks) = LeaveTask(s) /\ down' = LeaveTell(s)
  BY ContinueIs
<1>2. /\ client' = client /\ up' = up /\ roster' = roster
      /\ Sock(a)' = Sock(a) /\ Sock(b)' = Sock(b)
  BY DEF Continue, Sock
<1>3. /\ UserOf[a] # UserOf[b] /\ a # b /\ Steady(a) /\ Steady(b)
      /\ ToldNext(Sock(a)) /\ ToldNext(Sock(b))
  BY <1>2 DEF Paired, Steady, Asks, Told, ToldNext
<1>4. /\ client[a].on /\ Sock(a) \in roster /\ client[b].on /\ Sock(b) \in roster
      /\ Sock(a) # Sock(b)
  BY <1>3, SocksDiffer DEF Steady
<1>5. /\ s = Sock(a) => down' = JoinTell(s)
      /\ s = Sock(b) => down' = JoinTell(s)
  BY <1>1, <1>3, <1>4, LastTold
<1>. HIDE DEF s
<1>. DEFINE P == PeerIn(client[a], Sock(b))
            Q == PeerIn(client[b], Sock(a))
<1>6. ASSUME NEW i \in BOOLEAN,
             Comes(down'[a], P, Sock(b), i), Comes(down'[b], Q, Sock(a), ~i)
      PROVE  Opposed(a, b, i)'
  <2>1. PeerIn(client[a], Sock(b))' = P /\ PeerIn(client[b], Sock(a))' = Q
    BY <1>2 DEF PeerIn
  <2>. HIDE DEF P, Q
  <2>2. /\ Comes(down'[a], PeerIn(client[a], Sock(b))', Sock(b)', i)
        /\ Comes(down'[b], PeerIn(client[b], Sock(a))', Sock(a)', ~i)
    BY <1>2, <1>6, <2>1
  <2>. QED
    BY <2>2 DEF Opposed, Comes, EndsIn, NoneOf, Decides, Decider, As, ListsOf, JoinsOf, LeavesOf
<1>7. CASE s = Sock(a)
  <2>1. Comes(down'[a], P, Sock(b), TRUE) /\ Comes(down'[b], Q, Sock(a), FALSE)
    BY <1>3, <1>4, <1>5, <1>7, JoinOpposes
  <2>. QED
    BY <2>1, <1>6
<1>8. CASE s = Sock(b)
  <2>1. Comes(down'[b], Q, Sock(a), TRUE) /\ Comes(down'[a], P, Sock(b), FALSE)
    BY <1>3, <1>4, <1>5, <1>8, JoinOpposes
  <2>2. Opposed(a, b, FALSE)'
    BY <2>1, <1>6
  <2>. QED
    BY <2>2
<1>9. CASE s # Sock(a) /\ s # Sock(b)
  <2>1. Told(Sock(a)) /\ Told(Sock(b))
    BY <1>1, <1>3, <1>9, ToldTail DEF s
  <2>2. PICK i \in BOOLEAN : Opposed(a, b, i)
    BY <1>3, <2>1, PairIs DEF Paired
  <2>3. Comes(down'[a], P, Sock(b), i) /\ Comes(down'[b], Q, Sock(a), ~i)
    BY <1>1, <1>9, <2>2, OthersTold DEF Opposed
  <2>. QED
    BY <2>3, <1>6
<1>. QED
  BY <1>7, <1>8, <1>9

LEMMA NextPair ==
    ASSUME TypeOK, FrameType, SockInv, CallInv, TaskInv, PairInv, Steps
    PROVE  PairInv'
<1>. SUFFICES ASSUME NEW a \in Clients, NEW b \in Clients, Paired(a, b)'
              PROVE  \E i \in BOOLEAN : Opposed(a, b, i)'
  BY DEF PairInv, Paired, Opposed, Comes, EndsAs, EndsIn, NoneOf, Decider, As, PeerIn, Peer
<1>. DEFINE Goal == \E i \in BOOLEAN : Opposed(a, b, i)'
<1>a. /\ UserOf[a] # UserOf[b] /\ a # b
      /\ client'[a].on /\ client'[a].stream /\ Sock(a)' \in roster'
      /\ ~Asks(a, {"join", "leave"})' /\ ToldNext(Sock(a)')
      /\ client'[b].on /\ client'[b].stream /\ Sock(b)' \in roster'
      /\ ~Asks(b, {"join", "leave"})' /\ ToldNext(Sock(b)')
  BY DEF Paired, Steady, Told, ToldNext
(* What has to be seen of a step.                                           *)
<1>b. ASSUME Sock(a)' = Sock(a), Sock(b)' = Sock(b), NEW i \in BOOLEAN,
             Comes(down'[a], PeerIn(client'[a], Sock(b)), Sock(b), i),
             Comes(down'[b], PeerIn(client'[b], Sock(a)), Sock(a), ~i)
      PROVE  Goal
  <2>. DEFINE P == PeerIn(client'[a], Sock(b))
              Q == PeerIn(client'[b], Sock(a))
  <2>1. PeerIn(client[a], Sock(b))' = P /\ PeerIn(client[b], Sock(a))' = Q
    BY <1>b DEF PeerIn
  <2>2. Comes(down'[a], P, Sock(b), i) /\ Comes(down'[b], Q, Sock(a), ~i)
    BY <1>b
  <2>. HIDE DEF P, Q
  <2>3. /\ Comes(down'[a], PeerIn(client[a], Sock(b))', Sock(b)', i)
        /\ Comes(down'[b], PeerIn(client[b], Sock(a))', Sock(a)', ~i)
    BY <1>b, <2>1, <2>2
  <2>4. Opposed(a, b, i)'
    BY <2>3 DEF Opposed, Comes, EndsIn, NoneOf, Decides, Decider, As, ListsOf, JoinsOf, LeavesOf
  <2>. QED
    BY <2>4
(* One that the two of them do not notice, but for a frame that decides     *)
(* nothing.                                                                 *)
<1>c. ASSUME Sock(a)' = Sock(a), Sock(b)' = Sock(b),
             client'[a].on = client[a].on, client'[a].stream = client[a].stream,
             client'[b].on = client[b].on, client'[b].stream = client[b].stream,
             Sock(a) \in roster, Sock(b) \in roster,
             ~Asks(a, {"join", "leave"}), ~Asks(b, {"join", "leave"}),
             Told(Sock(a)), Told(Sock(b))
      PROVE  \E i \in BOOLEAN : Opposed(a, b, i)
  BY <1>a, <1>c, PairIs DEF Paired, Steady
<1>1. CASE Continue
  BY <1>1, ContinuePair
<1>2. ASSUME NEW s \in sockets, handleDisconnect(s) PROVE Goal
  <2>1. /\ client' = client /\ down' = down /\ up' = up
        /\ Sock(a)' = Sock(a) /\ Sock(b)' = Sock(b) /\ s \in Socket
    BY <1>2 DEF handleDisconnect, Sock, TypeOK
  <2>2. Told(Sock(a)) /\ Told(Sock(b)) /\ roster' \subseteq roster
    <3>1. CASE s \in DOMAIN voiceUsers
      <4>1. /\ tasks' = Append(tasks, LeaveTask(s)) /\ LeaveTask(s) \in Task
            /\ roster' = roster \ {s}
        BY <1>2, <2>1, <3>1 DEF handleDisconnect, LeaveMaps, LeaveTask, Task
      <4>. QED
        BY <1>a, <2>1, <4>1, ToldAdded
    <3>2. CASE s \notin DOMAIN voiceUsers
      BY <1>a, <1>2, <2>1, <3>2 DEF handleDisconnect, Told, ToldNext
    <3>. QED
      BY <3>1, <3>2
  <2>3. ~Asks(a, {"join", "leave"}) /\ ~Asks(b, {"join", "leave"})
    BY <1>a, <2>1 DEF Asks
  <2>4. PICK i \in BOOLEAN : Opposed(a, b, i)
    BY <1>a, <1>c, <2>1, <2>2, <2>3
  <2>. QED
    BY <1>b, <2>1, <2>4 DEF Opposed
<1>3. ASSUME NEW s \in answering, JoinRoomAnswer(s) PROVE Goal
  <2>. DEFINE f == [do |-> "roster", users |-> {On(t) : t \in roster}]
  <2>1. down' = To(down, {s}, f) /\ f \in DownFrame /\ down \in Queues
    BY <1>3, AnswerIs DEF FrameType, Queues
  <2>2. f \notin Decides(Sock(a)) /\ f \notin Decides(Sock(b))
    BY DEF Decides, ListsOf, JoinsOf, LeavesOf
  <2>. HIDE DEF f
  <2>3. /\ client' = client /\ up' = up /\ roster' = roster /\ tasks' = tasks
        /\ Sock(a)' = Sock(a) /\ Sock(b)' = Sock(b)
    BY <1>3 DEF JoinRoomAnswer, callVars, Sock
  <2>4. /\ ~Asks(a, {"join", "leave"}) /\ ~Asks(b, {"join", "leave"})
        /\ Told(Sock(a)) /\ Told(Sock(b))
    BY <1>a, <2>3 DEF Asks, Told, ToldNext
  <2>5. PICK i \in BOOLEAN : Opposed(a, b, i)
    BY <1>a, <1>c, <2>3, <2>4
  <2>6. /\ Comes(down'[a], PeerIn(client[a], Sock(b)), Sock(b), i)
        /\ Comes(down'[b], PeerIn(client[b], Sock(a)), Sock(a), ~i)
    BY <2>1, <2>2, <2>5, ToKept DEF Opposed, Comes
  <2>. QED
    BY <1>b, <2>3, <2>6
<1>4. ASSUME NEW c \in Clients, handleJoinVoiceChat(c) PROVE Goal
  <2>1. /\ client' = client /\ down' = down /\ Receives(c, "join")
        /\ Sock(a)' = Sock(a) /\ Sock(b)' = Sock(b)
        /\ tasks' = Append(tasks, JoinTask(Sock(c))) /\ JoinTask(Sock(c)) \in Task
        /\ roster' = roster \cup {Sock(c)}
    BY <1>4, SockType DEF handleJoinVoiceChat, Sock, JoinTask, Task
  <2>2. /\ Told(Sock(a)) /\ Told(Sock(b))
        /\ JoinTask(Sock(c)).s # Sock(a) /\ JoinTask(Sock(c)).s # Sock(b)
    BY <1>a, <2>1, ToldAdded
  <2>3. Sock(c) # Sock(a) /\ Sock(c) # Sock(b)
    BY <2>2 DEF JoinTask
  <2>4. up'[a] = up[a] /\ up'[b] = up[b]
    BY <2>1, <2>3, Received
  <2>5. ~Asks(a, {"join", "leave"}) /\ ~Asks(b, {"join", "leave"})
    BY <1>a, <2>4 DEF Asks
  <2>6. PICK i \in BOOLEAN : Opposed(a, b, i)
    BY <1>a, <1>c, <2>1, <2>2, <2>3, <2>5
  <2>. QED
    BY <1>b, <2>1, <2>6 DEF Opposed
<1>5. ASSUME NEW c \in Clients, handleLeaveVoice(c) PROVE Goal
  <2>1. /\ client' = client /\ down' = down /\ Receives(c, "leave")
        /\ Sock(a)' = Sock(a) /\ Sock(b)' = Sock(b)
    BY <1>5 DEF handleLeaveVoice, Sock
  <2>2. /\ Told(Sock(a)) /\ Told(Sock(b)) /\ roster' \subseteq roster
        /\ Sock(c) \notin roster'
    <3>1. CASE Sock(c) \in DOMAIN voiceUsers
      <4>1. /\ tasks' = Append(tasks, LeaveTask(Sock(c))) /\ LeaveTask(Sock(c)) \in Task
            /\ roster' = roster \ {Sock(c)}
        BY <1>5, <3>1, SockType DEF handleLeaveVoice, LeaveMaps, LeaveTask, Task
      <4>. QED
        BY <1>a, <2>1, <4>1, ToldAdded
    <3>2. CASE Sock(c) \notin DOMAIN voiceUsers
      BY <1>a, <1>5, <2>1, <3>2
      DEF handleLeaveVoice, callVars, CallInv, RosterIsTheCall, Told, ToldNext
    <3>. QED
      BY <3>1, <3>2
  <2>3. up'[a] = up[a] /\ up'[b] = up[b]
    BY <1>a, <2>1, <2>2, Received
  <2>4. ~Asks(a, {"join", "leave"}) /\ ~Asks(b, {"join", "leave"})
    BY <1>a, <2>3 DEF Asks
  <2>5. PICK i \in BOOLEAN : Opposed(a, b, i)
    BY <1>a, <1>c, <2>1, <2>2, <2>4
  <2>. QED
    BY <1>b, <2>1, <2>5 DEF Opposed
<1>6. ASSUME NEW c \in Clients, Toggles(c) PROVE Goal
  <2>. DEFINE f == MutedFrame(Sock(c), voiceUsers'[Sock(c)].muted)
  <2>1. /\ client' = client /\ roster' = roster /\ tasks' = tasks
        /\ Sock(a)' = Sock(a) /\ Sock(b)' = Sock(b)
    BY <1>6 DEF Toggles, Sock
  <2>2. PICK what \in {"mute", "deafen"} : Receives(c, what)
    BY <1>6 DEF Toggles
  <2>3. ~Asks(a, {"join", "leave"}) /\ ~Asks(b, {"join", "leave"})
    BY <1>a, <2>2, AsksTaken
  <2>4. Told(Sock(a)) /\ Told(Sock(b))
    BY <1>a, <2>1 DEF Told, ToldNext
  <2>5. PICK i \in BOOLEAN : Opposed(a, b, i)
    BY <1>a, <1>c, <2>1, <2>3, <2>4
  <2>6. /\ Comes(down'[a], PeerIn(client[a], Sock(b)), Sock(b), i)
        /\ Comes(down'[b], PeerIn(client[b], Sock(a)), Sock(a), ~i)
    <3>1. CASE Sock(c) \in DOMAIN voiceUsers
      <4>1. down' = To(down, channel, f) /\ f \in DownFrame /\ down \in Queues
        BY <1>6, <3>1, SockType, Frames DEF Toggles, MutedFrame, FrameType, Queues
      <4>2. f \notin Decides(Sock(a)) /\ f \notin Decides(Sock(b))
        BY DEF Decides, ListsOf, JoinsOf, LeavesOf, MutedFrame
      <4>. HIDE DEF f
      <4>. QED
        BY <2>5, <4>1, <4>2, ToKept DEF Opposed, Comes
    <3>2. CASE Sock(c) \notin DOMAIN voiceUsers
      BY <1>6, <2>5, <3>2 DEF Toggles, Opposed
    <3>. QED
      BY <3>1, <3>2
  <2>. QED
    BY <1>b, <2>1, <2>6
<1>7. ASSUME NEW c \in Clients, handleJoinRoom(c) PROVE Goal
  <2>1. /\ client' = client /\ down' = down /\ Receives(c, "room")
        /\ roster' = roster /\ tasks' = tasks
        /\ Sock(a)' = Sock(a) /\ Sock(b)' = Sock(b)
    BY <1>7 DEF handleJoinRoom, callVars, Sock
  <2>2. ~Asks(a, {"join", "leave"}) /\ ~Asks(b, {"join", "leave"})
    <3>1. "room" \notin {"join", "leave"}
      OBVIOUS
    <3>. QED
      BY <1>a, <2>1, <3>1, AsksTaken
  <2>3. Told(Sock(a)) /\ Told(Sock(b))
    BY <1>a, <2>1 DEF Told, ToldNext
  <2>4. PICK i \in BOOLEAN : Opposed(a, b, i)
    BY <1>a, <1>c, <2>1, <2>2, <2>3
  <2>. QED
    BY <1>b, <2>1, <2>4 DEF Opposed
<1>8. ASSUME NEW c \in Clients, Hear(c) PROVE Goal
  <2>1. /\ up' = up /\ roster' = roster /\ tasks' = tasks
        /\ Alike(client'[a], client[a]) /\ Alike(client'[b], client[b])
        /\ \A d \in Clients : d # c => down'[d] = down[d] /\ client'[d] = client[d]
    BY <1>8, HearIs DEF callVars
  <2>2. Sock(a)' = Sock(a) /\ Sock(b)' = Sock(b)
    BY <2>1 DEF Alike, Sock
  <2>3. /\ ~Asks(a, {"join", "leave"}) /\ ~Asks(b, {"join", "leave"})
        /\ Told(Sock(a)) /\ Told(Sock(b))
    BY <1>a, <2>1, <2>2 DEF Asks, Told, ToldNext
  <2>4. PICK i \in BOOLEAN : Opposed(a, b, i)
    BY <1>a, <1>c, <2>1, <2>2, <2>3 DEF Alike
  <2>5. /\ Sock(a) \in Socket /\ On(Sock(a)) = UserOf[a] /\ client[a].stream
        /\ Sock(b) \in Socket /\ On(Sock(b)) = UserOf[b] /\ client[b].stream
    BY <1>a, <2>1, SockType DEF Alike, On, Sock
  <2>6. Comes(down'[a], PeerIn(client'[a], Sock(b)), Sock(b), i)
    <3>1. CASE a = c
      BY <1>a, <1>8, <2>4, <2>5, <3>1, HearPeer DEF Opposed
    <3>2. CASE a # c
      BY <2>1, <2>4, <3>2 DEF Opposed
    <3>. QED
      BY <3>1, <3>2
  <2>7. Comes(down'[b], PeerIn(client'[b], Sock(a)), Sock(a), ~i)
    <3>1. CASE b = c
      BY <1>a, <1>8, <2>4, <2>5, <3>1, HearPeer DEF Opposed
    <3>2. CASE b # c
      BY <2>1, <2>4, <3>2 DEF Opposed
    <3>. QED
      BY <3>1, <3>2
  <2>. QED
    BY <1>b, <2>2, <2>6, <2>7
<1>9. ASSUME NEW c \in Clients, Pressed(c) PROVE Goal
  <2>1. /\ roster' = roster /\ tasks' = tasks /\ down' = down
        /\ \A d \in Clients : d # c => client'[d] = client[d] /\ up'[d] = up[d]
        /\ client'[c].n = client[c].n /\ client'[c].on = client[c].on
        /\ \/ client'[c].stream = client[c].stream /\ client'[c].peers = client[c].peers
           \/ Asks(c, {"join", "leave"})'
    BY <1>9 DEF Pressed, callVars, Asks
  <2>2. Sock(a)' = Sock(a) /\ Sock(b)' = Sock(b)
    BY <2>1 DEF Sock
  <2>3. /\ client'[a].on = client[a].on /\ client'[a].stream = client[a].stream
        /\ client'[a].peers = client[a].peers
        /\ client'[b].on = client[b].on /\ client'[b].stream = client[b].stream
        /\ client'[b].peers = client[b].peers
    BY <1>a, <2>1
  <2>4. ~Asks(a, {"join", "leave"}) /\ ~Asks(b, {"join", "leave"})
    BY <1>a, <1>9, AsksPressed
  <2>5. Told(Sock(a)) /\ Told(Sock(b))
    BY <1>a, <2>1, <2>2 DEF Told, ToldNext
  <2>6. PICK i \in BOOLEAN : Opposed(a, b, i)
    BY <1>a, <1>c, <2>1, <2>2, <2>3, <2>4, <2>5
  <2>7. /\ PeerIn(client'[a], Sock(b)) = PeerIn(client[a], Sock(b))
        /\ PeerIn(client'[b], Sock(a)) = PeerIn(client[b], Sock(a))
    BY <2>3 DEF PeerIn
  <2>. QED
    BY <1>b, <2>1, <2>2, <2>6, <2>7 DEF Opposed
<1>10. ASSUME NEW c \in Clients, Drop(c) PROVE Goal
  <2>1. a # c /\ b # c
    BY <1>a, <1>10, DropIs
  <2>2. /\ client'[a] = client[a] /\ up'[a] = up[a] /\ down'[a] = down[a]
        /\ client'[b] = client[b] /\ up'[b] = up[b] /\ down'[b] = down[b]
        /\ roster' = roster /\ tasks' = tasks
    BY <1>10, <2>1, DropIs DEF callVars
  <2>3. Sock(a)' = Sock(a) /\ Sock(b)' = Sock(b)
    BY <2>2 DEF Sock
  <2>4. /\ ~Asks(a, {"join", "leave"}) /\ ~Asks(b, {"join", "leave"})
        /\ Told(Sock(a)) /\ Told(Sock(b))
    BY <1>a, <2>2, <2>3 DEF Asks, Told, ToldNext
  <2>5. PICK i \in BOOLEAN : Opposed(a, b, i)
    BY <1>a, <1>c, <2>2, <2>3, <2>4
  <2>. QED
    BY <1>b, <2>2, <2>3, <2>5 DEF Opposed
<1>11. ASSUME NEW c \in Clients, Reconnect(c) PROVE Goal
  <2>1. /\ roster' = roster /\ tasks' = tasks /\ down' = down
        /\ client'[c].n = client[c].n + 1
        /\ \A d \in Clients : d # c => client'[d] = client[d] /\ up'[d] = up[d]
    BY <1>11, ReconnectIs DEF callVars
  <2>2. a # c /\ b # c
    <3>1. client[c].n \in Nat /\ Sock(c)' = <<c, client[c].n + 1>>
      BY <2>1, ClientIs DEF Sock, Client
    <3>2. \A s \in roster : Past(s)
      BY DEF SockInv, CallInv, RosterIsTheCall
    <3>3. Sock(c)' \notin roster'
      BY <2>1, <3>1, <3>2 DEF Past
    <3>. QED
      BY <1>a, <3>3
  <2>3. /\ client'[a] = client[a] /\ up'[a] = up[a]
        /\ client'[b] = client[b] /\ up'[b] = up[b]
    BY <2>1, <2>2
  <2>4. Sock(a)' = Sock(a) /\ Sock(b)' = Sock(b)
    BY <2>3 DEF Sock
  <2>5. /\ ~Asks(a, {"join", "leave"}) /\ ~Asks(b, {"join", "leave"})
        /\ Told(Sock(a)) /\ Told(Sock(b))
    BY <1>a, <2>1, <2>3, <2>4 DEF Asks, Told, ToldNext
  <2>6. PICK i \in BOOLEAN : Opposed(a, b, i)
    BY <1>a, <1>c, <2>1, <2>3, <2>4, <2>5
  <2>. QED
    BY <1>b, <2>1, <2>3, <2>4, <2>6 DEF Opposed
<1>. QED
  BY <1>1, <1>2, <1>3, <1>4, <1>5, <1>6, <1>7, <1>8, <1>9, <1>10, <1>11 DEF Steps

-----------------------------------------------------------------------------
(* The invariant and what follows from it.                                  *)

LEMMA InitInv == Init => IInv
<1>. SUFFICES ASSUME Init
              PROVE  IInv
  OBVIOUS
<1>1. scope \in [clients : SUBSET Clients, clicks : Nat, drops : Nat]
  BY VoiceAssumption DEF Init
<1>2. \A c \in Clients :
        /\ client[c] \in Client /\ client[c].peers = {} /\ client[c].rows = {}
        /\ client[c].n = 1 /\ (client[c].on <=> c \in scope.clients)
        /\ ~client[c].inVoice /\ ~client[c].stream /\ client[c].onCall = {}
  <2>. SUFFICES ASSUME NEW c \in Clients
                PROVE  /\ client[c] \in Client /\ client[c].peers = {} /\ client[c].rows = {}
                       /\ client[c].n = 1 /\ (client[c].on <=> c \in scope.clients)
                       /\ ~client[c].inVoice /\ ~client[c].stream /\ client[c].onCall = {}
    OBVIOUS
  <2>1. /\ client[c].peers = {} /\ client[c].rows = {} /\ client[c].n = 1
        /\ client[c].on = (c \in scope.clients)
        /\ ~client[c].inVoice /\ ~client[c].stream /\ client[c].onCall = {}
    BY DEF Init
  <2>2. client[c] \in Client
    BY VoiceAssumption DEF Init, Client
  <2>3. client[c].on <=> c \in scope.clients
    BY <2>1, Zenon
  <2>. QED
    BY <2>1, <2>2, <2>3
<1>3. client \in [Clients -> Client]
  BY VoiceAssumption DEF Init, Client
<1>4. sockets \subseteq Socket
  BY <1>1, VoiceAssumption DEF Init, Socket
<1>5. roster = {} /\ channel = {} /\ tasks = <<>> /\ Len(tasks) = 0
  BY EmptySeq DEF Init
<1>6. \A c \in Clients : up[c] = <<>> /\ down[c] = <<>> /\ Len(up[c]) = 0 /\ Len(down[c]) = 0
  BY EmptySeq DEF Init
<1>7. TypeOK
  <2>1. voiceUsers = <<>> /\ DOMAIN voiceUsers = {}
    BY DEF Init
  <2>2. /\ roomVoiceUsers = {} /\ answering = {} /\ viewers \subseteq Socket
        /\ unanswered = {} /\ crossed = FALSE
    BY <1>4 DEF Init
  <2>. QED
    BY <1>1, <1>2, <1>3, <1>4, <1>5, <2>1, <2>2 DEF TypeOK
<1>8. FrameType
  <2>1. <<>> \in Seq(UpFrame) /\ <<>> \in Seq(DownFrame) /\ <<>> \in Seq(Task)
    BY EmptySeq
  <2>. QED
    BY <2>1 DEF Init, FrameType
<1>9. SockInv
  <2>1. sockets = {<<c, 1>> : c \in scope.clients} /\ scope.clients \subseteq Clients
    BY <1>1 DEF Init
  <2>2. \A s \in sockets : s[1] \in scope.clients /\ s[2] = 1
    BY <2>1
  <2>3. \A s \in sockets : Past(s)
    BY <1>2, <2>1, <2>2 DEF Past
  <2>4. \A c \in Clients : client[c].on => Sock(c) \in sockets
    BY <1>2, <2>1 DEF Sock
  <2>. QED
    BY <1>2, <2>2, <2>3, <2>4 DEF SockInv
<1>10. CallInv /\ TaskInv
  BY <1>5 DEF Init, CallInv, RosterIsTheCall, TaskInv
<1>11. ViewInv
  BY <1>2 DEF Init, ViewInv, InRoom, Sock
<1>12. ShowInv
  BY <1>2, <1>5, <1>6 DEF ShowInv, EndsIn, Call
<1>13. PairInv
  BY <1>5 DEF PairInv, Steady
<1>14. FreshInv
  BY <1>2, <1>5, <1>6 DEF FreshInv, FreshFrames
<1>15. ButtonInv
  BY <1>5, <1>6 DEF ButtonInv
<1>16. OldInv
  BY <1>6 DEF OldInv, OldFirst
<1>17. RowInv
  BY <1>5 DEF RowInv
<1>. QED
  BY <1>7, <1>8, <1>9, <1>10, <1>11, <1>12, <1>13, <1>14, <1>15, <1>16, <1>17 DEF IInv

(* Whatever else it does, a step that leaves the call, the queues and the   *)
(* clients alone and answers nobody keeps the invariant.                    *)
Quiet ==
    /\ UNCHANGED <<voiceUsers, roomVoiceUsers, roster, channel, crossed, viewers>>
    /\ UNCHANGED <<sockets, tasks, client, up, down, scope>>
    /\ answering \cup unanswered \subseteq answering' \cup unanswered'
    /\ answering' \subseteq Socket /\ unanswered' \subseteq Socket

LEMMA QuietInv == ASSUME IInv, Quiet PROVE IInv'
<1>1. /\ UNCHANGED <<voiceUsers, roomVoiceUsers, roster, channel, crossed, viewers>>
      /\ UNCHANGED <<sockets, tasks, client, up, down, scope>>
      /\ answering \cup unanswered \subseteq answering' \cup unanswered'
      /\ answering' \subseteq Socket /\ unanswered' \subseteq Socket
  BY DEF Quiet
<1>2. TypeOK' /\ FrameType' /\ SockInv' /\ CallInv' /\ TaskInv' /\ ViewInv'
  BY <1>1 DEF IInv, TypeOK, FrameType, SockInv, Past, Sock, CallInv, RosterIsTheCall,
              TaskInv, ViewInv, InRoom, Asks
<1>3. ShowInv'
  BY <1>1 DEF IInv, ShowInv, InRoom, Asks, Sock, Call, EndsIn, NoneOf
<1>4. PairInv'
  <2>. SUFFICES ASSUME NEW a \in Clients, NEW b \in Clients, Paired(a, b)'
                PROVE  \E i \in BOOLEAN : Opposed(a, b, i)'
    BY DEF PairInv, Paired, Opposed, Comes, EndsAs, EndsIn, NoneOf, Decider, As, PeerIn, Peer
  <2>1. Paired(a, b)
    BY <1>1 DEF Paired, Steady, Asks, Told, Sock
  <2>2. PICK i \in BOOLEAN : Opposed(a, b, i)
    BY <2>1, PairIs DEF IInv
  <2>3. Opposed(a, b, i)'
    BY <1>1, <2>2 DEF Opposed, Sock, PeerIn, Comes, EndsIn, NoneOf
  <2>. QED
    BY <2>3
<1>5. FreshInv'
  BY <1>1 DEF IInv, FreshInv, FreshFrames, FrameSocks, Past
<1>6. ButtonInv'
  BY <1>1 DEF IInv, ButtonInv, Lifting, Lifts, Mutes, Sock
<1>7. OldInv'
  BY <1>1 DEF IInv, OldInv, OldFirst, OldOf, Shows, Sock, On, OnlyTab
<1>8. RowInv'
  <2>. SUFFICES ASSUME NEW a \in Clients, NEW b \in Clients, Watched(a, b)'
                PROVE  Heard(down'[b], client'[b].rows, Sock(a)')
    BY DEF RowInv, Watched, Heard, Lifting, HasLift, EndsIn, NoneOf, RowFrames, Unmuting,
           Unmuted, On
  <2>1. Watched(a, b) /\ Sock(a)' = Sock(a)
    BY <1>1 DEF Watched, OnlyTab, Sock, HasLift, Untasked, JoinTask, LeaveTask
  <2>. QED
    BY <1>1, <2>1, RowIs DEF IInv
<1>. QED
  BY <1>2, <1>3, <1>4, <1>5, <1>6, <1>7, <1>8 DEF IInv

LEMMA FailsInv == ASSUME IInv, NEW s \in answering, JoinRoomFails(s) PROVE IInv'
<1>1. Quiet
  BY DEF JoinRoomFails, Quiet, callVars, IInv, TypeOK
<1>. QED
  BY <1>1, QuietInv

LEMMA NextInv == IInv /\ [Next]_vars => IInv'
<1>. SUFFICES ASSUME IInv, [Next]_vars
              PROVE  IInv'
  OBVIOUS
<1>1. CASE Next
  <2>. SUFFICES ASSUME Steps PROVE IInv'
    BY <1>1, FailsInv, NextSteps DEF IInv
  <2>1. Steps
    OBVIOUS
  <2>2. (TypeOK /\ FrameType)' /\ SockInv' /\ CallInv' /\ TaskInv'
    BY <2>1, StepsType, NextSock, NextCall DEF IInv
  <2>3. ViewInv' /\ ShowInv'
    BY <2>1, NextView, NextShow DEF IInv
  <2>4. PairInv'
    BY <2>1, NextPair DEF IInv
  <2>5. FreshInv' /\ ButtonInv' /\ OldInv' /\ RowInv'
    BY <2>1, NextFresh, NextButton, NextOld, NextRow DEF IInv
  <2>. QED
    BY <2>2, <2>3, <2>4, <2>5 DEF IInv
<1>2. CASE UNCHANGED vars
  <2>1. Quiet
    BY <1>2 DEF vars, Quiet, IInv, TypeOK
  <2>. QED
    BY <2>1, QuietInv
<1>. QED
  BY <1>1, <1>2

(* Every step of the /voice gateway and of EnhancedVoiceChat keeps the      *)
(* invariant, whatever the clients, their users, transports and clicks.     *)
THEOREM Invariance == Spec => []IInv
<1>. QED
  BY InitInv, NextInv, PTL DEF Spec

LEMMA EndsEmpty ==
    ASSUME NEW q, q = <<>>, NEW D, NEW G, NEW x, NEW X, EndsIn(q, D, G, x, X)
    PROVE  x \in X
<1>1. Len(q) = 0
  BY EmptySeq
<1>. QED
  BY <1>1 DEF EndsIn, NoneOf

LEMMA InvRoster == IInv => RosterTrue
<1>. SUFFICES ASSUME IInv
              PROVE  RosterTrue
  OBVIOUS
<1>1. ASSUME NEW c \in Clients, Settled(c), Sock(c) \notin unanswered, tasks = <<>>
      PROVE  client[c].onCall = {On(s) : s \in roster}
  <2>1. /\ client[c].on /\ Sock(c) \notin answering \cup unanswered /\ down[c] = <<>>
        /\ up[c] = <<>> /\ Len(up[c]) = 0
    BY <1>1, EmptySeq DEF Settled
  <2>2. InRoom(c)
    BY <2>1 DEF InRoom, Asks
  <2>3. EndsIn(down[c], RosterFrames, {m \in RosterFrames : m.users = Call},
               client[c].onCall, {Call})
    BY <1>1, <2>1, <2>2 DEF IInv, ShowInv
  <2>4. client[c].onCall \in {Call}
    BY <2>1, <2>3, EndsEmpty
  <2>. QED
    BY <2>4 DEF Call
<1>. QED
  BY <1>1 DEF IInv, CallInv, RosterTrue, RosterShown

LEMMA InvPairs == IInv => OneOffersOneAnswers /\ ShownMutedIsSilent
<1>. SUFFICES ASSUME IInv
              PROVE  OneOffersOneAnswers /\ ShownMutedIsSilent
  OBVIOUS
<1>1. ASSUME NEW c \in Clients, InCall(c)
      PROVE  /\ client[c].on /\ client[c].stream /\ Sock(c) \in roster
             /\ down[c] = <<>> /\ up[c] = <<>> /\ Len(up[c]) = 0
  BY <1>1, EmptySeq DEF InCall, Settled
<1>2. tasks = <<>> => Len(tasks) = 0
  BY EmptySeq
<1>3. ASSUME NEW a \in Clients, NEW b \in Clients, InCall(a), InCall(b), tasks = <<>>,
             UserOf[a] # UserOf[b]
      PROVE  \E i \in BOOLEAN :
                /\ Peer(a, Sock(b)) = {[sock |-> Sock(b), initiator |-> i]}
                /\ Peer(b, Sock(a)) = {[sock |-> Sock(a), initiator |-> ~i]}
  <2>1. Steady(a) /\ Steady(b) /\ Told(Sock(a)) /\ Told(Sock(b))
    BY <1>1, <1>2, <1>3 DEF Steady, Asks, Told
  <2>2. PICK i \in BOOLEAN : EndsAs(a, Sock(b), i) /\ EndsAs(b, Sock(a), ~i)
    BY <1>3, <2>1 DEF IInv, PairInv
  <2>3. /\ Peer(a, Sock(b)) \in {{[sock |-> Sock(b), initiator |-> i]}}
        /\ Peer(b, Sock(a)) \in {{[sock |-> Sock(a), initiator |-> ~i]}}
    BY <1>1, <1>3, <2>2, EndsEmpty DEF EndsAs
  <2>. QED
    BY <2>3
<1>4. ASSUME NEW a \in Clients, NEW b \in Clients, InCall(a), InCall(b), tasks = <<>>, a # b,
             OnlyTab(a), client[a].muted = ~Audible(a),
             NEW r \in client[b].rows, r.sock = Sock(a), r.muted
      PROVE  ~Audible(a)
  <2>. SUFFICES ASSUME Audible(a)
                PROVE  FALSE
    OBVIOUS
  <2>1. ~client[a].muted /\ ~Lifting(a)
    <3>1. client[a] \in Client
      BY ClientIs DEF IInv
    <3>2. ~client[a].muted
      BY <1>4, <3>1 DEF Client
    <3>3. ~Lifting(a)
      BY <1>1, <1>4 DEF Lifting
    <3>. QED
      BY <3>2, <3>3
  <2>2. Untasked(JoinTask(Sock(b))) /\ Untasked(LeaveTask(Sock(a)))
    BY <1>2, <1>4 DEF Untasked
  <2>3. EndsIn(down[b], RowFrames(Sock(a)), Unmuting(Sock(a)), client[b].rows,
               Unmuted(Sock(a)))
    BY <1>1, <1>4, <2>1, <2>2 DEF IInv, RowInv
  <2>4. client[b].rows \in Unmuted(Sock(a))
    BY <1>1, <1>4, <2>3, EndsEmpty
  <2>. QED
    BY <1>4, <2>4 DEF Unmuted
<1>5. OneOffersOneAnswers
  BY <1>3 DEF OneOffersOneAnswers
<1>6. ShownMutedIsSilent
  BY <1>4 DEF ShownMutedIsSilent
<1>. QED
  BY <1>5, <1>6

(* The gateway's users, the room's set and VoiceRosterService name the same *)
(* connected sockets at every step, and everybody in the room who is owed   *)
(* nothing sees exactly who is on the call: no leave, lost connection or    *)
(* join-room answer overtakes the roster that was true (VoiceGateway,       *)
(* broadcastVoiceRoster, the tail of handleJoinRoom).                       *)
THEOREM RosterOnScreens == Spec => []RosterTrue
<1>. QED
  BY Invariance, InvRoster, PTL

(* Two users on the call who are owed nothing have one peer each for the    *)
(* other, one that offers and one that answers, however their joins, leaves *)
(* and re-joins overlapped; and nobody who is heard is shown as muted by    *)
(* the other as long as their own button is right (EnhancedVoiceChat).      *)
THEOREM PairsConnected == Spec => [](OneOffersOneAnswers /\ ShownMutedIsSilent)
<1>. QED
  BY Invariance, InvPairs, PTL

=============================================================================
