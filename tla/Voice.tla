------------------------------- MODULE Voice -------------------------------
(***************************************************************************)
(* The voice call of one room: the /voice gateway's three records of who   *)
(* is on it, the roster shown to everyone in the room, and the clients'    *)
(* peers, rows and microphone.                                             *)
(*                                                                         *)
(* Both namespaces of a client share one transport, so what the server     *)
(* sends it arrives in order (down) and what it sends is handled in order  *)
(* (up); a lost transport loses both, and what is emitted while there is   *)
(* none is kept for the next one.  A handler that awaits client.join or    *)
(* client.leave goes on as a microtask: continuations run in the order in  *)
(* which the handlers reached them (tasks), and other handlers may start   *)
(* in between.  Negotiation between two peers is simple-peer's: a peer is  *)
(* the role it was created with.                                           *)
(***************************************************************************)
EXTENDS Integers, Sequences, FiniteSets

CONSTANTS
    Clients,
    UserOf,      \* [Clients -> user]: two tabs share a user
    MaxSockets,  \* bound: transports a client opens
    Scopes       \* bounds: who takes part, clicks and lost transports

ASSUME VoiceAssumption ==
    /\ DOMAIN UserOf = Clients
    /\ MaxSockets \in Nat \ {0}
    /\ Scopes \subseteq [clients : SUBSET Clients, clicks : Nat, drops : Nat]

VARIABLES
    voiceUsers,      \* [sockets on the call -> [muted, deaf]]
    roomVoiceUsers,  \* the sockets of the room's set
    roster,          \* the sockets of VoiceRosterService's map
    channel,         \* sockets in the room `voice-<code>`
    viewers,         \* sockets in the room of the main namespace
    answering,       \* sockets whose join-room has not sent the roster yet
    unanswered,      \* history: those whose join-room failed since the last roster
    crossed,         \* history: two joins of the call have crossed
    sockets,         \* sockets the server believes connected
    tasks,           \* continuations after client.join or client.leave
    client,          \* [Clients -> what the component holds]
    up, down,        \* [Clients -> frames under way]
    scope

vars == <<voiceUsers, roomVoiceUsers, roster, channel, viewers, answering,
          unanswered, crossed, sockets, tasks, client, up, down, scope>>
callVars == <<voiceUsers, roomVoiceUsers, roster, channel, tasks, crossed>>
roomVars == <<viewers, answering, unanswered>>

Socket == Clients \X (1..MaxSockets)
Users == {UserOf[c] : c \in Clients}
Row == [sock : Socket, muted : BOOLEAN]

Client == [n : 1..MaxSockets,       \* voiceSocketRef.current.id
           on : BOOLEAN,            \* the transport is up
           asks : 0..2,             \* getUserMedia not yet answered
           stream : BOOLEAN,        \* localStreamRef
           track : BOOLEAN,         \* its audio track is enabled
           stray : BOOLEAN,         \* so is that of one it held before: nobody has it
           inVoice : BOOLEAN, muted : BOOLEAN, deaf : BOOLEAN,
           peers : SUBSET [sock : Socket, initiator : BOOLEAN],
           loose : SUBSET [sock : Socket, initiator : BOOLEAN],  \* overwritten peers
           rows : SUBSET Row,       \* the component's voiceUsers
           onCall : SUBSET Users]

Sock(c) == <<c, client[c].n>>
On(c) == UserOf[c[1]]

TypeOK ==
    /\ DOMAIN voiceUsers \subseteq Socket
    /\ \A s \in DOMAIN voiceUsers : voiceUsers[s] \in [muted : BOOLEAN, deaf : BOOLEAN]
    /\ roomVoiceUsers \subseteq Socket /\ roster \subseteq Socket
    /\ channel \subseteq Socket /\ viewers \subseteq Socket
    /\ answering \subseteq Socket /\ unanswered \subseteq Socket
    /\ sockets \subseteq Socket /\ crossed \in BOOLEAN
    /\ client \in [Clients -> Client]
    \* one peer for a socket: peersRef is a map
    /\ \A c \in Clients : \A p, q \in client[c].peers : p.sock = q.sock => p = q
    /\ scope \in [clients : SUBSET Clients, clicks : Nat, drops : Nat]

Init ==
    /\ voiceUsers = <<>> /\ roomVoiceUsers = {} /\ roster = {} /\ channel = {}
    /\ answering = {} /\ unanswered = {} /\ crossed = FALSE /\ tasks = <<>>
    /\ scope \in Scopes
    /\ sockets = {<<c, 1>> : c \in scope.clients}
    /\ viewers = sockets
    /\ client = [c \in Clients |->
         [n |-> 1, on |-> c \in scope.clients, asks |-> 0, stream |-> FALSE,
          track |-> FALSE, inVoice |-> FALSE, muted |-> FALSE, deaf |-> FALSE,
          stray |-> FALSE, peers |-> {}, loose |-> {}, rows |-> {}, onCall |-> {}]]
    /\ up = [c \in Clients |-> <<>>]
    /\ down = [c \in Clients |-> <<>>]

Click == scope.clicks > 0 /\ scope' = [scope EXCEPT !.clicks = @ - 1]

-----------------------------------------------------------------------------
(* The server's emits: to those of S whose transport is still there.        *)
To(d, S, m) ==
    [c \in Clients |-> IF client[c].on /\ Sock(c) \in S THEN Append(d[c], m) ELSE d[c]]

(* Who is on the call, for everyone in the room.                            *)
broadcastVoiceRoster(d) ==
    To(d, viewers, [do |-> "roster",
                    users |-> {On(s) : s \in roomVoiceUsers \cap DOMAIN voiceUsers}])

(* The next frame of a client whose socket the server still has.            *)
Receives(c, what) ==
    /\ client[c].on /\ up[c] # <<>> /\ Head(up[c]).do = what
    /\ up' = [up EXCEPT ![c] = Tail(@)]

(* join-voice-chat up to its await.                                         *)
handleJoinVoiceChat(c) ==
    LET s == Sock(c) IN
    /\ Receives(c, "join")
    /\ voiceUsers' = [t \in DOMAIN voiceUsers \cup {s} |->
                        IF t = s THEN [muted |-> FALSE, deaf |-> FALSE] ELSE voiceUsers[t]]
    /\ roomVoiceUsers' = roomVoiceUsers \cup {s}
    /\ roster' = roster \cup {s}
    /\ channel' = channel \cup {s}
    /\ crossed' = (crossed \/ \E k \in DOMAIN tasks : tasks[k].do = "join")
    /\ tasks' = Append(tasks, [do |-> "join", s |-> s])
    /\ UNCHANGED <<roomVars, sockets, client, down, scope>>

ListFor(s) ==
    [do |-> "list", rows |-> {[sock |-> t, muted |-> voiceUsers[t].muted] :
                                t \in (roomVoiceUsers \cap DOMAIN voiceUsers) \ {s}}]

\* Mutant: only the newcomer is told.
JoinTellQuiet(s) ==
    broadcastVoiceRoster(To(down, {s}, ListFor(s)))

(* The list for the newcomer, the roster for the room, the newcomer for the *)
(* call.                                                                    *)
JoinTell(s) ==
    To(broadcastVoiceRoster(To(down, {s}, ListFor(s))),
       channel \ {s}, [do |-> "joined", sock |-> s])

(* leave-voice-chat, and a disconnect, up to their await.                   *)
LeaveMaps(s) ==
    /\ voiceUsers' = [t \in DOMAIN voiceUsers \ {s} |-> voiceUsers[t]]
    /\ roster' = roster \ {s}
    /\ roomVoiceUsers' = roomVoiceUsers \ {s}
    /\ channel' = channel \ {s}
    /\ tasks' = Append(tasks, [do |-> "leave", s |-> s])
    /\ UNCHANGED crossed

handleLeaveVoice(c) ==
    /\ Receives(c, "leave")
    /\ IF Sock(c) \in DOMAIN voiceUsers THEN LeaveMaps(Sock(c)) ELSE UNCHANGED callVars
    /\ UNCHANGED <<roomVars, sockets, client, down, scope>>

\* Mutant: only the call hears of a leaver.
LeaveTellCall(s) ==
    To(down, channel \ {s}, [do |-> "left", sock |-> s])

LeaveTell(s) ==
    To(broadcastVoiceRoster(down), channel \ {s}, [do |-> "left", sock |-> s])

(* The oldest continuation runs.                                            *)
Continue ==
    /\ tasks # <<>>
    /\ tasks' = Tail(tasks)
    /\ LET t == Head(tasks) IN
       down' = IF t.do = "join" THEN JoinTell(t.s) ELSE LeaveTell(t.s)
    /\ unanswered' = {}
    /\ UNCHANGED <<voiceUsers, roomVoiceUsers, roster, channel, crossed, viewers,
                   answering, sockets, client, up, scope>>

\* Mutant: a lost connection is left to the next join.
handleDisconnectIgnored(s) ==
    /\ s \in sockets /\ ~(client[s[1]].on /\ Sock(s[1]) = s)
    /\ sockets' = sockets \ {s}
    /\ viewers' = viewers \ {s}
    /\ channel' = channel \ {s}
    /\ UNCHANGED <<voiceUsers, roomVoiceUsers, roster, tasks, crossed, answering,
                   unanswered, client, up, down, scope>>

(* The server finds out that a transport is gone.                           *)
handleDisconnect(s) ==
    /\ s \in sockets /\ ~(client[s[1]].on /\ Sock(s[1]) = s)
    /\ sockets' = sockets \ {s}
    /\ viewers' = viewers \ {s}
    /\ IF s \in DOMAIN voiceUsers
       THEN LeaveMaps(s)
       ELSE channel' = channel \ {s} /\ UNCHANGED <<voiceUsers, roomVoiceUsers, roster, tasks, crossed>>
    /\ UNCHANGED <<answering, unanswered, client, up, down, scope>>

(* What mute and deafen tell the call.                                      *)
MuteStatus(s) ==
    To(down, channel, [do |-> "muted", sock |-> s, muted |-> voiceUsers'[s].muted])

handleMuteToggle(c) ==
    LET s == Sock(c) IN
    /\ Receives(c, "mute")
    /\ IF s \in DOMAIN voiceUsers
       THEN /\ voiceUsers' = [voiceUsers EXCEPT ![s].muted = Head(up[c]).to]
            /\ down' = MuteStatus(s)
       ELSE UNCHANGED <<voiceUsers, down>>
    /\ UNCHANGED <<roomVoiceUsers, roster, channel, tasks, crossed, roomVars, sockets, client, scope>>

(* Deafened means muted; undeafened leaves the mute as it is.               *)
Deafen(v, deaf) == [muted |-> deaf \/ v.muted, deaf |-> deaf]

handleDeafenToggle(c) ==
    LET s == Sock(c) IN
    /\ Receives(c, "deafen")
    /\ IF s \in DOMAIN voiceUsers
       THEN /\ voiceUsers' = [voiceUsers EXCEPT ![s] = Deafen(@, Head(up[c]).to)]
            /\ down' = MuteStatus(s)
       ELSE UNCHANGED <<voiceUsers, down>>
    /\ UNCHANGED <<roomVoiceUsers, roster, channel, tasks, crossed, roomVars, sockets, client, scope>>

(* join-room of the main gateway: the channel first, the roster last.       *)
handleJoinRoom(c) ==
    /\ Receives(c, "room")
    /\ viewers' = viewers \cup {Sock(c)}
    /\ answering' = answering \cup {Sock(c)}
    /\ UNCHANGED <<callVars, unanswered, sockets, client, down, scope>>

JoinRoomAnswer(s) ==
    /\ s \in answering
    /\ answering' = answering \ {s}
    /\ down' = To(down, {s}, [do |-> "roster", users |-> {On(t) : t \in roster}])
    /\ UNCHANGED <<callVars, viewers, unanswered, sockets, client, up, scope>>

(* A query of it fails: the socket is in the room and is told only that.    *)
JoinRoomFails(s) ==
    /\ s \in answering
    /\ answering' = answering \ {s}
    /\ unanswered' = unanswered \cup {s}
    /\ UNCHANGED <<callVars, viewers, sockets, client, up, down, scope>>

-----------------------------------------------------------------------------
(* The component.                                                           *)
\* Mutant: the peer there was stays.
createPeerConnectionBeside(k, s, initiator) ==
    IF ~k.stream THEN k
    ELSE [k EXCEPT !.peers = @ \cup {[sock |-> s, initiator |-> initiator]}]

(* A peer takes the place of the one for the same socket, which nobody      *)
(* destroys; without a stream, nothing.                                     *)
createPeerConnection(k, s, initiator) ==
    IF ~k.stream THEN k
    ELSE [k EXCEPT !.peers = {p \in @ : p.sock # s} \cup
                               {[sock |-> s, initiator |-> initiator]},
                   !.loose = @ \cup {p \in k.peers : p.sock = s}]

(* voice-users-list: offers to everybody else who is there.                 *)
OnList(c, m) ==
    LET there == {r.sock : r \in {r \in m.rows : On(r.sock) # UserOf[c]}}
        k == client[c] IN
    IF k.stream
    THEN [k EXCEPT !.rows = m.rows,
                   !.peers = {p \in @ : p.sock \notin there} \cup
                               {[sock |-> s, initiator |-> TRUE] : s \in there},
                   !.loose = @ \cup {p \in k.peers : p.sock \in there}]
    ELSE [k EXCEPT !.rows = m.rows]

(* voice-user-joined: a row, not muted, and a peer that waits for an offer. *)
OnJoined(c, m) ==
    createPeerConnection([client[c] EXCEPT !.rows = @ \cup {[sock |-> m.sock, muted |-> FALSE]}],
                         m.sock, FALSE)

\* Mutant: a leaver's row goes, the peer is left to the next join.
OnLeftKeepsPeer(c, m) ==
    [client[c] EXCEPT !.rows = {r \in @ : On(r.sock) # On(m.sock)}]

(* voice-user-left: the rows of the user, the peer of the socket.           *)
OnLeft(c, m) ==
    [client[c] EXCEPT !.rows = {r \in @ : On(r.sock) # On(m.sock)},
                      !.peers = {p \in @ : p.sock # m.sock}]

(* voice-mute-status and voice-deafen-status: every row of the user.        *)
OnMuted(c, m) ==
    [client[c] EXCEPT !.rows = {IF On(r.sock) = On(m.sock)
                                THEN [r EXCEPT !.muted = m.muted] ELSE r : r \in @}]

Handled(c, m) ==
    CASE m.do = "list" -> OnList(c, m)
      [] m.do = "joined" -> OnJoined(c, m)
      [] m.do = "left" -> OnLeft(c, m)
      [] m.do = "muted" -> OnMuted(c, m)
      [] m.do = "roster" -> [client[c] EXCEPT !.onCall = m.users]

Hear(c) ==
    /\ down[c] # <<>>
    /\ client' = [client EXCEPT ![c] = Handled(c, Head(down[c]))]
    /\ down' = [down EXCEPT ![c] = Tail(@)]
    /\ UNCHANGED <<callVars, roomVars, sockets, up, scope>>

(* Join: the browser asks for the microphone...                             *)
handleJoinVoice(c) ==
    /\ Click
    /\ ~client[c].inVoice /\ client[c].asks < 2
    /\ client' = [client EXCEPT ![c].asks = @ + 1]
    /\ UNCHANGED <<callVars, roomVars, sockets, up, down>>

(* Some of the client's last join or leave of the call is still to come.    *)
CallUnderWay(c) ==
    \/ client[c].stream
    \/ \E k \in DOMAIN up[c] : up[c][k].do \in {"join", "leave"}
    \/ \E k \in DOMAIN tasks : tasks[k].s = Sock(c)
    \/ \E k \in DOMAIN down[c] : down[c][k].do \in {"list", "joined"}

(* ... and gives it: a stream whose track is enabled.  One there was is let *)
(* go of as it is: nothing stops it any more, and no button reaches it.     *)
Granted(c) ==
    /\ client[c].asks > 0
    /\ client' = [client EXCEPT ![c].asks = @ - 1, ![c].stray = @ \/ client[c].track,
                                ![c].stream = TRUE, ![c].track = TRUE, ![c].inVoice = TRUE]
    /\ crossed' = (crossed \/ CallUnderWay(c))
    /\ up' = [up EXCEPT ![c] = Append(@, [do |-> "join"])]
    /\ UNCHANGED <<voiceUsers, roomVoiceUsers, roster, channel, tasks, roomVars, sockets, down, scope>>

Denied(c) ==
    /\ client[c].asks > 0
    /\ client' = [client EXCEPT ![c].asks = @ - 1]
    /\ UNCHANGED <<callVars, roomVars, sockets, up, down, scope>>

(* Leave.  The mute and deafen buttons keep their state.                    *)
LeaveVoice(c) ==
    /\ Click
    /\ client[c].inVoice
    /\ client' = [client EXCEPT ![c].stream = FALSE, ![c].track = FALSE,
                                ![c].peers = {}, ![c].rows = {}, ![c].inVoice = FALSE]
    /\ up' = [up EXCEPT ![c] = Append(@, [do |-> "leave"])]
    /\ UNCHANGED <<callVars, roomVars, sockets, down>>

\* Mutant: the others are told the state before the toggle.
MuteFramesStale(k) == IF k.stream THEN <<[do |-> "mute", to |-> k.muted]>> ELSE <<>>

(* The mute button, as far as there is a stream.                            *)
Toggled(k) == IF k.stream THEN [k EXCEPT !.muted = ~@, !.track = k.muted] ELSE k
MuteFrames(k) == IF k.stream THEN <<[do |-> "mute", to |-> ~k.muted]>> ELSE <<>>

handleToggleMute(c) ==
    /\ Click
    /\ client[c].inVoice
    /\ client' = [client EXCEPT ![c] = Toggled(@)]
    /\ up' = [up EXCEPT ![c] = @ \o MuteFrames(client[c])]
    /\ UNCHANGED <<callVars, roomVars, sockets, down>>

(* The deafen button: deafening mutes first.                                *)
handleToggleDeafen(c) ==
    LET k == client[c]
        mutes == ~k.deaf /\ ~k.muted IN
    /\ Click
    /\ k.inVoice
    /\ client' = [client EXCEPT ![c] = [(IF mutes THEN Toggled(k) ELSE k)
                                          EXCEPT !.deaf = ~@]]
    /\ up' = [up EXCEPT ![c] = @ \o (IF mutes THEN MuteFrames(k) ELSE <<>>)
                                 \o <<[do |-> "deafen", to |-> ~k.deaf]>>]
    /\ UNCHANGED <<callVars, roomVars, sockets, down>>

(* The transport is lost, and with it what was under way.                   *)
Drop(c) ==
    /\ scope.drops > 0 /\ client[c].on /\ client[c].n < MaxSockets
    /\ scope' = [scope EXCEPT !.drops = @ - 1]
    /\ client' = [client EXCEPT ![c].on = FALSE]
    /\ up' = [up EXCEPT ![c] = <<>>]
    /\ down' = [down EXCEPT ![c] = <<>>]
    /\ UNCHANGED <<callVars, roomVars, sockets>>

(* A new transport: new ids, what was kept is sent, and the page joins the  *)
(* room again.  The call is not joined again.                               *)
Reconnect(c) ==
    /\ c \in scope.clients /\ ~client[c].on
    /\ client' = [client EXCEPT ![c].on = TRUE, ![c].n = @ + 1]
    /\ sockets' = sockets \cup {<<c, client[c].n + 1>>}
    /\ up' = [up EXCEPT ![c] = Append(@, [do |-> "room"])]
    /\ UNCHANGED <<callVars, roomVars, down, scope>>

Next ==
    \/ Continue
    \/ \E s \in sockets : handleDisconnect(s)
    \/ \E s \in answering : JoinRoomAnswer(s) \/ JoinRoomFails(s)
    \/ \E c \in Clients :
         \/ handleJoinVoiceChat(c) \/ handleLeaveVoice(c) \/ handleMuteToggle(c)
         \/ handleDeafenToggle(c) \/ handleJoinRoom(c) \/ Hear(c)
         \/ (c \in scope.clients /\ handleJoinVoice(c)) \/ Granted(c) \/ Denied(c)
         \/ LeaveVoice(c) \/ handleToggleMute(c) \/ handleToggleDeafen(c)
         \/ Drop(c) \/ Reconnect(c)

Spec == Init /\ [][Next]_vars

-----------------------------------------------------------------------------
(* The gateway's users, the room's set and the shared roster name the same *)
(* sockets at every step, all of them connected: a connection lost while   *)
(* its join awaits leaves no ghost on the call (handleJoinVoiceChat,       *)
(* handleLeaveVoice, handleDisconnect, VoiceRosterService).                *)
RosterIsTheCall ==
    /\ DOMAIN voiceUsers = roomVoiceUsers
    /\ roomVoiceUsers = roster
    /\ roster \subseteq sockets

(* Nothing is under way for the client.                                     *)
Settled(c) ==
    /\ client[c].on /\ up[c] = <<>> /\ down[c] = <<>>
    /\ Sock(c) \notin answering

(* Someone in the room sees who is on the call, joiner or not: the last    *)
(* roster broadcast or the one that ended the join-room is not outdone by  *)
(* a change it missed (broadcastVoiceRoster, the tail of handleJoinRoom).  *)
(* Only who is in the room by a join-room that failed after client.join    *)
(* waits for the next change.                                              *)
RosterShown ==
    \A c \in Clients :
        Settled(c) /\ Sock(c) \notin unanswered /\ tasks = <<>> => client[c].onCall = {On(s) : s \in roster}

InCall(c) == Settled(c) /\ Sock(c) \in roster /\ client[c].stream

Peer(c, s) == {p \in client[c].peers : p.sock = s}

(* Two users on the call end up holding one peer each for the other, one   *)
(* that offers and one that answers, however their joins, leaves and       *)
(* re-joins overlapped (voice-users-list against voice-user-joined).  The  *)
(* peers they held before may live on beside them: see NoSecondPeer.       *)
OneOffersOneAnswers ==
    \A a, b \in Clients :
        InCall(a) /\ InCall(b) /\ tasks = <<>> /\ UserOf[a] # UserOf[b] =>
            \E i \in BOOLEAN :
                /\ Peer(a, Sock(b)) = {[sock |-> Sock(b), initiator |-> i]}
                /\ Peer(b, Sock(a)) = {[sock |-> Sock(a), initiator |-> ~i]}

(* No peer is overwritten, and left connected beside its successor, unless *)
(* joins cross: a client is given the microphone before its last join or   *)
(* leave is done and heard (a double click on Join is one way), or two     *)
(* join-voice-chats await client.join together (createPeerConnection,      *)
(* which destroys nothing, against LeaveVoice and voice-user-left).        *)
NoSecondPeer == ~crossed => \A c \in Clients : client[c].loose = {}

OnlyTab(c) == \A d \in Clients \ {c} : UserOf[d] # UserOf[c] \/ d \notin scope.clients

(* What is heard of a client: its own microphone, or one it lost hold of.   *)
Audible(c) == client[c].track \/ client[c].stray

(* Nobody who is heard is shown as muted to the others on the call, as     *)
(* long as their own button tells them the truth about every microphone    *)
(* they gave (handleToggleMute, handleToggleDeafen, handleMuteToggle,      *)
(* handleDeafenToggle).  The other way round does not hold: a mute that is *)
(* handled before the join's continuation is announced to nobody.          *)
ShownMutedIsSilent ==
    \A a, b \in Clients :
        /\ InCall(a) /\ InCall(b) /\ tasks = <<>> /\ a # b
        /\ OnlyTab(a) /\ OnlyTab(b)
        /\ client[a].muted = ~Audible(a)
        => \A r \in client[b].rows : r.sock = Sock(a) /\ r.muted => ~Audible(a)

(* The roster is who is on the call, on the server and on every screen      *)
(* (VoiceGateway, VoiceRosterService).                                      *)
RosterTrue ==
    /\ TypeOK
    /\ RosterIsTheCall
    /\ RosterShown

(* Two users on the call hold matching peers for each other, one each and   *)
(* no other unless joins crossed, and know of each other's microphone       *)
(* (EnhancedVoiceChat).                                                     *)
PairsSound ==
    /\ OneOffersOneAnswers
    /\ NoSecondPeer
    /\ ShownMutedIsSilent

=============================================================================
