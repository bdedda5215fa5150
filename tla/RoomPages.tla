----------------------------- MODULE RoomPages -----------------------------
(***************************************************************************)
(* Rooms as the web client's pages live through them: created, listed,     *)
(* looked up, opened, changed in the settings form, chatted in and ended,  *)
(* by several tabs whose requests, sockets and handlers interleave.  The   *)
(* room's rows are in Postgres; a tab has one socket, whose socket.io      *)
(* channels survive the page that joined them.                             *)
(*                                                                         *)
(* Data abstraction.  Of a room's settings two flags are kept; a message   *)
(* is an id.  Rosters, toasts and the room's video are left out: the video *)
(* is a sync control (SyncPlaneA), membership and release of a room are in *)
(* RoomLifecycle, sessions in WebSession.  A server emit and its           *)
(* application by a tab are one step: one instance, FIFO connections.      *)
(***************************************************************************)
EXTENDS Naturals, Sequences, FiniteSets, SequencesExt

CONSTANTS
    Tabs, People, Rooms,
    MaxTexts,     \* bound: messages
    OwnerOf,      \* [Tabs -> the user signed in in the tab]
    NoRoom, NoCreator, NoSetting,
    HistoryTake,  \* how many messages a history holds
    Limit,        \* how many recent rooms are remembered
    Scopes        \* the bounded settings a behaviour may be played in

Texts == 1..MaxTexts
Fields == {"isPublic", "allowGuestControl"}
Setting == [Fields -> BOOLEAN]
Budgets == {"moves", "ends", "saves", "drops", "rereads"}

(* Bounds.  tabs, rooms: those that take part.  online: tabs that ever have *)
(* a connection.  pollers: tabs whose home page lists rooms.  texts: how    *)
(* many messages are sent.  The rest: how often a tab changes pages, a room  *)
(* is ended, settings are saved, a connection drops, a page reads its room  *)
(* again because the user object changed.                                   *)
Scope ==
    [tabs : SUBSET Tabs, online : SUBSET Tabs, pollers : SUBSET Tabs,
     rooms : SUBSET Rooms, texts : Nat, moves : Nat, ends : Nat, saves : Nat,
     drops : Nat, rereads : Nat]

ASSUME OwnerAssumption == OwnerOf \in [Tabs -> People] /\ NoCreator \notin People
ASSUME NothingAssumption == NoRoom \notin Rooms /\ NoSetting \notin Setting
ASSUME LimitsAssumption ==
    /\ HistoryTake \in Nat \ {0} /\ Limit \in Nat \ {0}
    /\ MaxTexts \in Nat
ASSUME PageScopesAssumption == Scopes \subseteq Scope

VARIABLES
    scope,    \* the setting of the behaviour, chosen once
    used,     \* [Budgets -> how much of it is spent]
    rows,     \* [Rooms -> the room's rows in Postgres]
    tab,      \* [Tabs -> page, socket and form of the tab]
    channel,  \* [Rooms -> tabs whose socket is in the socket.io room]
    fetches,  \* room fetches of the pages, on their way
    joins,    \* [Tabs -> join-room handlers of its socket, in order]
    send,     \* [Texts -> what has become of the message]
    del,      \* [Tabs -> its DELETE request]
    save,     \* [Tabs -> its PATCH request]
    recents,  \* [People -> recent rooms in the browser's localStorage]
    ejected,  \* history: <<tab, room>> sent home by room-closed
    ended,    \* history: rooms whose creator asked for their end
    meant,    \* history: [Rooms -> settings as last chosen by somebody]
    overlap   \* history: [Tabs -> messages saved or announced while a
              \*           history was on its way to the tab]

pageVars == <<scope, used, rows, tab, channel, fetches, joins, send, del, save,
          recents, ejected, ended, meant, overlap>>
pastVars == <<ejected, ended, meant, overlap>>

-----------------------------------------------------------------------------
NoForm == [open |-> FALSE, init |-> NoSetting, val |-> NoSetting]
NoDelete == [pc |-> "none", room |-> NoRoom, from |-> "home",
             texts |-> {}, users |-> {}]
NoSave == [pc |-> "none", room |-> NoRoom, fields |-> {}, chosen |-> {},
           val |-> NoSetting]
Unsent == [st |-> "idle", tab |-> NoRoom, room |-> NoRoom]

JoinTask == [room : Rooms, pc : {"look", "enter", "upsert", "read", "emit"},
             live : BOOLEAN, hist : Seq(Texts)]

(* listed and answer are sets of rooms; wait is a poll under way.           *)
TabState ==
    [conn : BOOLEAN, last : Rooms \cup {NoRoom},
     where : {"home", "door", "room"}, room : Rooms \cup {NoRoom},
     info : BOOLEAN, shown : Setting \cup {NoSetting}, chat : Seq(Texts),
     joined : BOOLEAN,
     form : [open : BOOLEAN, init : Setting \cup {NoSetting},
             val : Setting \cup {NoSetting}],
     listed : SUBSET Rooms, wait : BOOLEAN, answer : SUBSET Rooms]

(* A message is in a room's rows at most once, a room in the recent list at *)
(* most once and never past its limit.                                      *)
RoomsTypeOK ==
    /\ scope \in Scopes
    /\ \A b \in Budgets : used[b] \in 0..scope[b]
    /\ \A r \in Rooms :
          /\ rows[r].phase \in {"unborn", "live", "gone"}
          /\ rows[r].creator \in People \cup {NoCreator}
          /\ rows[r].setting \in Setting
          /\ rows[r].msgs \in Seq(Texts) /\ IsInjective(rows[r].msgs)
          /\ rows[r].parts \in [People -> {"none", "in", "out"}]
    /\ \A t \in Tabs :
          /\ tab[t] \in TabState
          /\ tab[t].where = "home" <=> tab[t].room = NoRoom
          /\ tab[t].form.open => tab[t].shown # NoSetting
          /\ joins[t] \in Seq(JoinTask)
    /\ channel \in [Rooms -> SUBSET {t \in Tabs : tab[t].conn}]
    /\ \A u \in People :
          recents[u] \in Seq(Rooms) /\ IsInjective(recents[u])
                                    /\ Len(recents[u]) <= Limit
    /\ overlap \in [Tabs -> SUBSET Texts]
    /\ meant \in [Rooms -> Setting]

Plain == [f \in Fields |-> FALSE]

AtHome == [conn |-> TRUE, last |-> NoRoom, where |-> "home", room |-> NoRoom,
           info |-> FALSE, shown |-> NoSetting, chat |-> <<>>,
           joined |-> FALSE, form |-> NoForm,
           listed |-> {}, wait |-> FALSE, answer |-> {}]

RoomsInit ==
    /\ scope \in Scopes
    /\ used = [b \in Budgets |-> 0]
    /\ rows = [r \in Rooms |->
                 [phase |-> "unborn", creator |-> NoCreator, setting |-> Plain,
                  msgs |-> <<>>, parts |-> [u \in People |-> "none"]]]
    /\ tab = [t \in Tabs |-> [AtHome EXCEPT !.conn = t \in scope.online]]
    /\ channel = [r \in Rooms |-> {}]
    /\ fetches = {}
    /\ joins = [t \in Tabs |-> <<>>]
    /\ send = [x \in Texts |-> Unsent]
    /\ del = [t \in Tabs |-> NoDelete]
    /\ save = [t \in Tabs |-> NoSave]
    /\ recents = [u \in People |-> <<>>]
    /\ ejected = {}
    /\ ended = {}
    /\ meant = [r \in Rooms |-> Plain]
    /\ overlap = [t \in Tabs |-> {}]

Spend(b) ==
    /\ used[b] < scope[b]
    /\ used' = [used EXCEPT ![b] = @ + 1]

-----------------------------------------------------------------------------
(* Pages.                                                                   *)

(* navigate('/'): the room page is gone, its socket's channels are not.     *)
Home(tb) ==
    [tb EXCEPT !.where = "home", !.room = NoRoom, !.info = FALSE,
               !.shown = NoSetting, !.chat = <<>>, !.joined = FALSE,
               !.form = NoForm]

RoomPage(tb, r) == [Home(tb) EXCEPT !.where = "room", !.room = r]

FetchOf(t, r) ==
    [tab |-> t, room |-> r, mine |-> TRUE, st |-> "asked", val |-> NoSetting]

(* Tab t leaves the page its fetches belong to.                             *)
Unmounted(t) ==
    {IF f.tab = t THEN [f EXCEPT !.mine = FALSE] ELSE f : f \in fetches}

(* The room page mounts and fetches its room.                               *)
Opens(t, r) ==
    /\ tab' = [tab EXCEPT ![t] = RoomPage(@, r)]
    /\ fetches' = Unmounted(t) \cup {FetchOf(t, r)}

(* The body's flags; an absent one is false.                                *)
NewSetting(public) == [Plain EXCEPT !["isPublic"] = public]

(* The row of a new room; its creator is the caller.                        *)
createRoom(r, u, s) ==
    rows' = [rows EXCEPT ![r].phase = "live", ![r].creator = u, ![r].setting = s]

(* CreateRoomPage: POST /rooms, then on to the new room.                    *)
handleSubmit(t, r) ==
    /\ Spend("moves")
    /\ tab[t].where = "home"
    /\ rows[r].phase = "unborn"
    /\ \E public \in BOOLEAN :
          /\ createRoom(r, OwnerOf[t], NewSetting(public))
          /\ meant' = [meant EXCEPT ![r] = NewSetting(public)]
    /\ Opens(t, r)
    /\ UNCHANGED <<scope, channel, joins, send, del, save, recents, ejected,
                   ended, overlap>>

(* The cards of the home page: rooms listed by the server and, from the     *)
(* browser's own list, the recent ones.                                     *)
Cards(t) == tab[t].listed \cup ToSet(recents[OwnerOf[t]])

(* A card opens its room.                                                   *)
OpenCard(t, r) ==
    /\ Spend("moves")
    /\ tab[t].where = "home"
    /\ r \in Cards(t)
    /\ Opens(t, r)
    /\ UNCHANGED <<scope, rows, channel, joins, send, del, save, recents,
                   pastVars>>

(* A shared link or a typed code leads to the join page, which looks the    *)
(* room up.                                                                 *)
GoToDoor(t, r) ==
    /\ Spend("moves")
    /\ tab[t].where = "home"
    /\ tab' = [tab EXCEPT ![t].where = "door", ![t].room = r]
    /\ UNCHANGED <<scope, rows, channel, fetches, joins, send, del, save,
                   recents, pastVars>>

fetchRoomInfo(t) ==
    /\ tab[t].where = "door"
    /\ ~tab[t].info
    /\ rows[tab[t].room].phase = "live"
    /\ tab' = [tab EXCEPT ![t].info = TRUE]
    /\ UNCHANGED <<scope, used, rows, channel, fetches, joins, send, del, save,
                   recents, pastVars>>

(* The join button works once the room was found; the way back always does. *)
handleJoinRoom(t) ==
    /\ tab[t].where = "door"
    /\ \/ /\ tab[t].info
          /\ Opens(t, tab[t].room)
          /\ UNCHANGED used
       \/ /\ Spend("moves")
          /\ tab' = [tab EXCEPT ![t] = Home(@)]
          /\ UNCHANGED fetches
    /\ UNCHANGED <<scope, rows, channel, joins, send, del, save, recents,
                   pastVars>>

(* handleLeaveRoom of the page: the server has no leave-room handler, so    *)
(* the emit changes nothing there.                                          *)
handleLeaveRoom(t) ==
    /\ Spend("moves")
    /\ tab[t].where = "room"
    /\ tab' = [tab EXCEPT ![t] = Home(@)]
    /\ fetches' = Unmounted(t)
    /\ UNCHANGED <<scope, rows, channel, joins, send, del, save, recents,
                   pastVars>>

-----------------------------------------------------------------------------
(* The recent list.                                                         *)

(* The list names a room at most once.                                      *)
forgetRoom(s, r) ==
    IF r \in ToSet(s) THEN RemoveAt(s, CHOOSE i \in DOMAIN s : s[i] = r) ELSE s

(* Seeded fault: the list is not cut.                                       *)
rememberRoomAll(s, r) == <<r>> \o forgetRoom(s, r)

(* A visit puts the room in front; the list is cut to its limit.            *)
rememberRoom(s, r) ==
    LET next == <<r>> \o forgetRoom(s, r) IN
    SubSeq(next, 1, IF Len(next) < Limit THEN Len(next) ELSE Limit)

-----------------------------------------------------------------------------
(* Fetching the room: GET /rooms/:code.                                     *)

getRoomByCode(f) ==
    /\ f.st = "asked"
    /\ fetches' = (fetches \ {f}) \cup
          {IF rows[f.room].phase = "live"
           THEN [f EXCEPT !.st = "found", !.val = rows[f.room].setting]
           ELSE [f EXCEPT !.st = "missing"]}
    /\ UNCHANGED <<scope, used, rows, tab, channel, joins, send, del, save,
                   recents, pastVars>>

JoinOf(r) == [room |-> r, pc |-> "look", live |-> TRUE, hist |-> <<>>]

(* The answer.  A page that is still there shows the room, remembers it and *)
(* emits join-room, once more for every new room object.  A failure sends   *)
(* the tab home, even from a page that was opened since.                    *)
fetchRoomDetails(f) ==
    LET t == f.tab IN
    /\ f.st # "asked"
    /\ fetches' = IF f.st = "missing" THEN Unmounted(t) \ {f, [f EXCEPT !.mine = FALSE]}
                                      ELSE fetches \ {f}
    /\ \/ /\ f.st = "found" /\ f.mine
          /\ tab' = [tab EXCEPT ![t].shown = f.val]
          /\ recents' = [recents EXCEPT ![OwnerOf[t]] = rememberRoom(@, f.room)]
          /\ joins' = [joins EXCEPT ![t] =
                          IF tab[t].conn THEN Append(@, JoinOf(f.room)) ELSE @]
       \/ /\ f.st = "found" /\ ~f.mine
          /\ UNCHANGED <<tab, recents, joins>>
       \/ /\ f.st = "missing"
          /\ tab' = [tab EXCEPT ![t] = Home(@)]
          /\ UNCHANGED <<recents, joins>>
    /\ UNCHANGED <<scope, used, rows, channel, send, del, save, pastVars>>

(* The user object is replaced (a refreshed token, another tab's sign-in):  *)
(* the page's effect fetches the room again.                                *)
Reread(t) ==
    /\ Spend("rereads")
    /\ tab[t].where = "room"
    /\ fetches' = fetches \cup {FetchOf(t, tab[t].room)}
    /\ UNCHANGED <<scope, rows, tab, channel, joins, send, del, save, recents,
                   pastVars>>

-----------------------------------------------------------------------------
(* The socket.                                                              *)

(* The connection is lost: messages on the wire with it, and all channels;  *)
(* handleDisconnect marks the user inactive in the last room joined.        *)
(* Handlers that run go on.                                                 *)
LoseConnection(t) ==
    LET r == tab[t].last IN
    /\ Spend("drops")
    /\ tab[t].conn
    /\ tab' = [tab EXCEPT ![t].conn = FALSE, ![t].joined = FALSE,
                          ![t].last = NoRoom]
    /\ channel' = [q \in Rooms |-> channel[q] \ {t}]
    /\ joins' = [joins EXCEPT ![t] = [k \in DOMAIN @ |->
                                         [@[k] EXCEPT !.live = FALSE]]]
    /\ send' = [x \in Texts |->
                   IF send[x].tab = t /\ send[x].st = "sent"
                   THEN [send[x] EXCEPT !.st = "lost"] ELSE send[x]]
    /\ rows' = [q \in Rooms |->
                  IF q = r /\ rows[q].parts[OwnerOf[t]] = "in"
                  THEN [rows[q] EXCEPT !.parts[OwnerOf[t]] = "out"] ELSE rows[q]]
    /\ UNCHANGED <<scope, fetches, del, save, recents, pastVars>>

(* Connected again: socket.io sends what was emitted meanwhile, and a page  *)
(* that shows a room joins it again.                                        *)
Reconnect(t) ==
    /\ ~tab[t].conn
    /\ t \in scope.online
    /\ tab' = [tab EXCEPT ![t].conn = TRUE]
    /\ send' = [x \in Texts |->
                   IF send[x].tab = t /\ send[x].st = "buffered"
                   THEN [send[x] EXCEPT !.st = "sent"] ELSE send[x]]
    /\ joins' = [joins EXCEPT ![t] =
                    IF tab[t].shown # NoSetting
                    THEN Append(@, JoinOf(tab[t].room)) ELSE @]
    /\ UNCHANGED <<scope, used, rows, channel, fetches, del, save, recents,
                   pastVars>>

-----------------------------------------------------------------------------
(* handleJoinRoom of the gateway, as far as chat and the rows go.           *)

Goes(t, k, j) == joins' = [joins EXCEPT ![t][k] = j]
Ends(t, k) == joins' = [joins EXCEPT ![t] = RemoveAt(@, k)]

JoinLook(t, k) ==
    LET j == joins[t][k] IN
    /\ j.pc = "look"
    /\ IF rows[j.room].phase = "live" THEN Goes(t, k, [j EXCEPT !.pc = "enter"])
                                     ELSE Ends(t, k)
    /\ UNCHANGED <<scope, used, rows, tab, channel, fetches, send, del, save,
                   recents, pastVars>>

(* Seeded fault: the socket does not enter the room's channel.              *)
JoinEnterOutside(t, k) ==
    LET j == joins[t][k] IN
    /\ j.pc = "enter"
    /\ Goes(t, k, [j EXCEPT !.pc = "upsert"])
    /\ UNCHANGED <<scope, used, rows, tab, channel, fetches, send, del, save,
                   recents, pastVars>>

(* client.join, userRooms.set: a room joined before keeps the socket.       *)
JoinEnter(t, k) ==
    LET j == joins[t][k] IN
    /\ j.pc = "enter"
    /\ Goes(t, k, [j EXCEPT !.pc = "upsert"])
    /\ channel' = [channel EXCEPT ![j.room] = IF j.live THEN @ \cup {t} ELSE @]
    /\ tab' = [tab EXCEPT ![t].last = IF j.live THEN j.room ELSE @]
    /\ UNCHANGED <<scope, used, rows, fetches, send, del, save, recents,
                   pastVars>>

(* participant.upsert refers to the room: it fails once the room is gone.   *)
JoinUpsert(t, k) ==
    LET j == joins[t][k] IN
    /\ j.pc = "upsert"
    /\ \/ /\ rows[j.room].phase = "live"
          /\ rows' = [rows EXCEPT ![j.room].parts[OwnerOf[t]] = "in"]
          /\ Goes(t, k, [j EXCEPT !.pc = "read"])
       \/ /\ rows[j.room].phase = "gone"
          /\ Ends(t, k)
          /\ UNCHANGED rows
    /\ UNCHANGED <<scope, used, tab, channel, fetches, send, del, save,
                   recents, pastVars>>

(* The newest messages, oldest first.                                       *)
History(s) ==
    SubSeq(s, IF Len(s) > HistoryTake THEN Len(s) - HistoryTake + 1 ELSE 1, Len(s))

(* Messages saved and not yet announced.                                    *)
Unannounced == {x \in Texts : send[x].st = "saved"}

(* handleGetMessageHistory, called at the end of the join: read, ...        *)
HistoryRead(t, k) ==
    LET j == joins[t][k] IN
    /\ j.pc = "read"
    /\ \/ /\ rows[j.room].phase = "live"
          /\ Goes(t, k, [j EXCEPT !.pc = "emit", !.hist = History(rows[j.room].msgs)])
          /\ overlap' = [overlap EXCEPT ![t] = @ \cup Unannounced]
       \/ /\ rows[j.room].phase = "gone"
          /\ Ends(t, k)
          /\ UNCHANGED overlap
    /\ UNCHANGED <<scope, used, rows, tab, channel, fetches, send, del, save,
                   recents, ejected, ended, meant>>

(* The chat panel is on screen.                                             *)
Panel(t) == tab[t].where = "room" /\ tab[t].shown # NoSetting

(* The panel's listeners: a message is added, a history replaces what was   *)
(* shown.  Neither event names its room.                                    *)
onChatMessage(tb, x) == [tb EXCEPT !.chat = Append(@, x)]
onHistory(tb, r, hist) ==
    [tb EXCEPT !.chat = hist, !.joined = (r = tb.room)]

(* ... and emit.                                                            *)
HistoryEmit(t, k) ==
    LET j == joins[t][k] IN
    /\ j.pc = "emit"
    /\ Ends(t, k)
    /\ tab' = IF j.live /\ Panel(t)
              THEN [tab EXCEPT ![t] = onHistory(@, j.room, j.hist)] ELSE tab
    /\ UNCHANGED <<scope, used, rows, channel, fetches, send, del, save,
                   recents, pastVars>>

-----------------------------------------------------------------------------
(* Chat.                                                                    *)

(* Emitted, or kept by socket.io until the connection is back.              *)
sendMessage(t, x) ==
    /\ Panel(t)
    /\ x <= scope.texts
    /\ send[x].st = "idle"
    /\ \A y \in 1..(x - 1) : send[y].st # "idle"
    /\ send' = [send EXCEPT ![x] =
                   [st |-> IF tab[t].conn THEN "sent" ELSE "buffered",
                    tab |-> t, room |-> tab[t].room]]
    /\ UNCHANGED <<scope, used, rows, tab, channel, fetches, joins, del, save,
                   recents, pastVars>>

(* handleChatMessage finds the room, ...                                    *)
ChatLook(x) ==
    /\ send[x].st = "sent"
    /\ send' = [send EXCEPT ![x].st =
                   IF rows[send[x].room].phase = "live" THEN "found" ELSE "done"]
    /\ UNCHANGED <<scope, used, rows, tab, channel, fetches, joins, del, save,
                   recents, pastVars>>

(* ... saves the message, unless the room went meanwhile, ...               *)
ChatSave(x) ==
    LET r == send[x].room IN
    /\ send[x].st = "found"
    /\ \/ /\ rows[r].phase = "live"
          /\ rows' = [rows EXCEPT ![r].msgs = Append(@, x)]
          /\ send' = [send EXCEPT ![x].st = "saved"]
          /\ overlap' = [t \in Tabs |->
                            IF \E k \in DOMAIN joins[t] : joins[t][k].pc = "emit"
                            THEN overlap[t] \cup {x} ELSE overlap[t]]
       \/ /\ rows[r].phase = "gone"
          /\ send' = [send EXCEPT ![x].st = "done"]
          /\ UNCHANGED <<rows, overlap>>
    /\ UNCHANGED <<scope, used, tab, channel, fetches, joins, del, save,
                   recents, ejected, ended, meant>>

(* ... and tells the room's channel.                                        *)
ChatEmit(x) ==
    /\ send[x].st = "saved"
    /\ send' = [send EXCEPT ![x].st = "done"]
    /\ tab' = [t \in Tabs |->
                  IF t \in channel[send[x].room] /\ Panel(t)
                  THEN onChatMessage(tab[t], x) ELSE tab[t]]
    /\ UNCHANGED <<scope, used, rows, channel, fetches, joins, del, save,
                   recents, pastVars>>

-----------------------------------------------------------------------------
(* Ending a room: DELETE /rooms/:code, from the settings or the home page.  *)

(* Changing or ending a room is for its creator, the caller being whoever   *)
(* the token says.                                                          *)
MayChange(t, r) == rows[r].phase = "live" /\ rows[r].creator = OwnerOf[t]

handleEndRoom(t, r) ==
    /\ Spend("ends")
    /\ del[t].pc = "none"
    /\ \/ tab[t].where = "home" /\ r \in tab[t].listed
       \/ Panel(t) /\ tab[t].room = r
    /\ del' = [del EXCEPT ![t] = [NoDelete EXCEPT !.pc = "asked", !.room = r,
                                                  !.from = tab[t].where]]
    /\ UNCHANGED <<scope, rows, tab, channel, fetches, joins, send, save,
                   recents, pastVars>>

(* Seeded fault: the page acts on the end of any room.                      *)
onClosedAny(r) == {t \in channel[r] : tab[t].where = "room"}

(* Which tabs the announcement of r's end sends home: an event of a room    *)
(* the socket joined earlier is not about the room on screen.               *)
onClosed(r) == {t \in channel[r] : tab[t].where = "room" /\ tab[t].room = r}

(* deleteRoom up to the transaction: the caller must be the creator, and    *)
(* the channel is told before the rows go.                                  *)
DeleteTell(t) ==
    LET r == del[t].room
        out == onClosed(r) IN
    /\ del[t].pc = "asked"
    /\ IF MayChange(t, r)
       THEN /\ del' = [del EXCEPT ![t].pc = "told"]
            /\ ended' = ended \cup {r}
            /\ tab' = [s \in Tabs |-> IF s \in out THEN Home(tab[s]) ELSE tab[s]]
            /\ fetches' = {IF f.tab \in out THEN [f EXCEPT !.mine = FALSE]
                                            ELSE f : f \in fetches}
            /\ recents' = [u \in People |->
                  IF \E s \in out : OwnerOf[s] = u
                  THEN forgetRoom(recents[u], r) ELSE recents[u]]
            /\ ejected' = ejected \cup {<<s, tab[s].room>> : s \in out}
       ELSE /\ del' = [del EXCEPT ![t].pc = "failed"]
            /\ UNCHANGED <<tab, fetches, recents, ejected, ended>>
    /\ UNCHANGED <<scope, used, rows, channel, joins, send, save, meant,
                   overlap>>

(* The transaction is read-committed: each statement sees what is there     *)
(* when it runs, nothing is gone for others before the commit, and a second *)
(* transaction on the room waits for the first.                             *)
InTransaction(t) == del[t].pc \in {"msgs", "parts"}

(* Seeded fault: the statements are not in a transaction.                   *)
DeleteMessagesAtOnce(t) ==
    /\ del[t].pc = "told"
    /\ \A s \in Tabs : InTransaction(s) => del[s].room # del[t].room
    /\ del' = [del EXCEPT ![t].pc = "msgs",
                          ![t].texts = ToSet(rows[del[t].room].msgs)]
    /\ rows' = [rows EXCEPT ![del[t].room].msgs = <<>>]
    /\ UNCHANGED <<scope, used, tab, channel, fetches, joins, send, save,
                   recents, pastVars>>

DeleteMessages(t) ==
    /\ del[t].pc = "told"
    /\ \A s \in Tabs : InTransaction(s) => del[s].room # del[t].room
    /\ del' = [del EXCEPT ![t].pc = "msgs",
                          ![t].texts = ToSet(rows[del[t].room].msgs)]
    /\ UNCHANGED <<scope, used, rows, tab, channel, fetches, joins, send, save,
                   recents, pastVars>>

DeleteParticipants(t) ==
    /\ del[t].pc = "msgs"
    /\ del' = [del EXCEPT ![t].pc = "parts",
                  ![t].users = {u \in People :
                                   rows[del[t].room].parts[u] # "none"}]
    /\ UNCHANGED <<scope, used, rows, tab, channel, fetches, joins, send, save,
                   recents, pastVars>>

(* room.delete: a row that still refers to the room fails it, and the       *)
(* transaction with it.                                                     *)
DeleteRow(t) ==
    LET d == del[t]
        r == d.room IN
    /\ d.pc = "parts"
    /\ IF /\ rows[r].phase = "live"
          /\ ToSet(rows[r].msgs) \subseteq d.texts
          /\ \A u \in People : rows[r].parts[u] # "none" => u \in d.users
       THEN /\ rows' = [rows EXCEPT ![r].phase = "gone", ![r].msgs = <<>>,
                                  ![r].parts = [u \in People |-> "none"]]
            /\ del' = [del EXCEPT ![t].pc = "ok"]
       ELSE /\ del' = [del EXCEPT ![t].pc = "failed"]
            /\ UNCHANGED rows
    /\ UNCHANGED <<scope, used, tab, channel, fetches, joins, send, save,
                   recents, pastVars>>

(* The answer: End room leads home, wherever the tab is by now; the home    *)
(* page lists again.                                                        *)
DeleteAnswer(t) ==
    /\ del[t].pc \in {"ok", "failed"}
    /\ IF del[t].pc = "ok" /\ del[t].from = "room"
       THEN /\ tab' = [tab EXCEPT ![t] = Home(@)]
            /\ fetches' = Unmounted(t)
       ELSE /\ tab' = [tab EXCEPT ![t].wait = FALSE, ![t].answer = {}]
            /\ UNCHANGED fetches
    /\ del' = [del EXCEPT ![t] = NoDelete]
    /\ UNCHANGED <<scope, used, rows, channel, joins, send, save, recents,
                   pastVars>>

-----------------------------------------------------------------------------
(* Room settings.                                                           *)

OpenSettings(t) ==
    /\ Panel(t)
    /\ ~tab[t].form.open
    /\ rows[tab[t].room].creator = OwnerOf[t]
    /\ used["saves"] < scope.saves
    /\ save[t].pc = "none"
    /\ tab' = [tab EXCEPT ![t].form = [open |-> TRUE, init |-> tab[t].shown,
                                       val |-> tab[t].shown]]
    /\ UNCHANGED <<scope, used, rows, channel, fetches, joins, send, del, save,
                   recents, pastVars>>

Toggle(t, f) ==
    /\ tab[t].form.open
    /\ save[t].pc = "none"
    /\ tab[t].form.val[f] = tab[t].form.init[f]
    /\ tab' = [tab EXCEPT ![t].form.val[f] = ~@]
    /\ UNCHANGED <<scope, used, rows, channel, fetches, joins, send, del, save,
                   recents, pastVars>>

(* Seeded fault: the form sends all its fields.                             *)
ChangedAll(t) == Fields

(* What the form differs in from the room object of the page.               *)
Changed(t) == {f \in Fields : tab[t].form.val[f] # tab[t].shown[f]}

(* What its user chose in it; all of it once the page has read other        *)
(* settings under the open form, which the form does not show.              *)
Chosen(t) ==
    LET form == tab[t].form IN
    IF form.init = tab[t].shown
    THEN {f \in Fields : form.val[f] # form.init[f]} ELSE Fields

handleUpdateSettings(t) ==
    /\ tab[t].form.open
    /\ save[t].pc = "none"
    /\ Changed(t) # {}
    /\ Spend("saves")
    /\ save' = [save EXCEPT ![t] =
                   [pc |-> "asked", room |-> tab[t].room, fields |-> Changed(t),
                    chosen |-> Chosen(t), val |-> tab[t].form.val]]
    /\ UNCHANGED <<scope, rows, tab, channel, fetches, joins, send, del,
                   recents, pastVars>>

(* updateRoomByCode: find the room and check its creator, ...               *)
updateRoomByCode(t) ==
    LET r == save[t].room IN
    /\ save[t].pc = "asked"
    /\ save' = [save EXCEPT ![t].pc =
                   IF MayChange(t, r) THEN "checked" ELSE "failed"]
    /\ UNCHANGED <<scope, used, rows, tab, channel, fetches, joins, send, del,
                   recents, pastVars>>

(* ... then write the fields that came; the row may be gone by now.         *)
updateRoom(t) ==
    LET s == save[t] IN
    /\ s.pc = "checked"
    /\ \/ /\ rows[s.room].phase = "live"
          /\ rows' = [rows EXCEPT ![s.room].setting =
                        [f \in Fields |-> IF f \in s.fields THEN s.val[f] ELSE @[f]]]
          /\ meant' = [meant EXCEPT ![s.room] =
                          [f \in Fields |-> IF f \in s.fields \cap s.chosen
                                            THEN s.val[f] ELSE @[f]]]
          /\ save' = [save EXCEPT ![t].pc = "ok"]
       \/ /\ rows[s.room].phase = "gone"
          /\ save' = [save EXCEPT ![t].pc = "failed"]
          /\ UNCHANGED <<rows, meant>>
    /\ UNCHANGED <<scope, used, tab, channel, fetches, joins, send, del,
                   recents, ejected, ended, overlap>>

(* The answer: saved closes the form and fetches the room again; a failure  *)
(* leaves the form open.                                                    *)
SaveAnswer(t) ==
    LET s == save[t]
        here == Panel(t) /\ tab[t].room = s.room IN
    /\ s.pc \in {"ok", "failed"}
    /\ save' = [save EXCEPT ![t] = NoSave]
    /\ IF s.pc = "ok"
       THEN /\ fetches' = fetches \cup {[FetchOf(t, s.room) EXCEPT !.mine = here]}
            /\ tab' = [tab EXCEPT ![t].form = IF here THEN NoForm ELSE @]
       ELSE UNCHANGED <<fetches, tab>>
    /\ UNCHANGED <<scope, used, rows, channel, joins, send, del, recents,
                   pastVars>>

-----------------------------------------------------------------------------
(* The home page's lists: the caller's own rooms and the public ones, each  *)
(* asked for every ten seconds and whenever the page mounts.                *)

getUserRooms(u) ==
    {r \in Rooms : rows[r].phase = "live"
                   /\ (rows[r].creator = u \/ rows[r].parts[u] = "in")}

getPublicRooms ==
    {r \in Rooms : rows[r].phase = "live" /\ rows[r].setting["isPublic"]}

Poll(t) ==
    /\ t \in scope.pollers
    /\ tab[t].where = "home"
    /\ ~tab[t].wait
    /\ tab' = [tab EXCEPT ![t].wait = TRUE,
                  ![t].answer = getUserRooms(OwnerOf[t]) \cup getPublicRooms]
    /\ UNCHANGED <<scope, used, rows, channel, fetches, joins, send, del, save,
                   recents, pastVars>>

(* Seeded fault: answers are merged into the list.                          *)
PollAnswerMerges(t) ==
    /\ tab[t].wait
    /\ tab' = [tab EXCEPT ![t].wait = FALSE, ![t].answer = {},
                          ![t].listed = @ \cup tab[t].answer]
    /\ UNCHANGED <<scope, used, rows, channel, fetches, joins, send, del, save,
                   recents, pastVars>>

(* The answer replaces the list, also while another page is on screen.      *)
PollAnswer(t) ==
    /\ tab[t].wait
    /\ tab' = [tab EXCEPT ![t].wait = FALSE, ![t].answer = {},
                          ![t].listed = tab[t].answer]
    /\ UNCHANGED <<scope, used, rows, channel, fetches, joins, send, del, save,
                   recents, pastVars>>

-----------------------------------------------------------------------------
PageNext(t) ==
    \/ \E r \in scope.rooms :
          handleSubmit(t, r) \/ OpenCard(t, r) \/ GoToDoor(t, r) \/ handleEndRoom(t, r)
    \/ fetchRoomInfo(t) \/ handleJoinRoom(t) \/ handleLeaveRoom(t)
    \/ Reread(t) \/ LoseConnection(t) \/ Reconnect(t)
    \/ OpenSettings(t) \/ handleUpdateSettings(t)
    \/ \E f \in Fields : Toggle(t, f)
    \/ \E x \in Texts : sendMessage(t, x)
    \/ Poll(t) \/ PollAnswer(t)

JoinNext(t) ==
    \E k \in DOMAIN joins[t] :
        \/ JoinLook(t, k) \/ JoinEnter(t, k) \/ JoinUpsert(t, k)
        \/ HistoryRead(t, k) \/ HistoryEmit(t, k)

RequestNext(t) ==
    \/ DeleteTell(t) \/ DeleteMessages(t) \/ DeleteParticipants(t)
    \/ DeleteRow(t) \/ DeleteAnswer(t)
    \/ updateRoomByCode(t) \/ updateRoom(t) \/ SaveAnswer(t)

RoomsNext ==
    \/ \E t \in scope.tabs : PageNext(t) \/ JoinNext(t) \/ RequestNext(t)
    \/ \E f \in fetches : getRoomByCode(f) \/ fetchRoomDetails(f)
    \/ \E x \in Texts : ChatLook(x) \/ ChatSave(x) \/ ChatEmit(x)

RoomsSpec == RoomsInit /\ [][RoomsNext]_pageVars

(* The server answers what it was asked, and a home page goes on asking.    *)
RoomsFairSpec ==
    /\ RoomsSpec
    /\ \A t \in Tabs : WF_pageVars(Poll(t)) /\ WF_pageVars(PollAnswer(t))

-----------------------------------------------------------------------------
(* A tab is sent home as "the host ended this room" only from a room whose  *)
(* creator asked for its end, although its socket may still be in channels  *)
(* of rooms it left (onClosed, deleteRoom's check).                         *)
EjectedOnlyFromEnded == \A e \in ejected : e[2] \in ended

Shown(t, x) == Cardinality({k \in DOMAIN tab[t].chat : tab[t].chat[k] = x})

(* A page that has joined its room shows each of its messages at most once, *)
(* and each of the newest ones once it is announced, across reconnects,     *)
(* visits to other rooms and repeated joins; except a message whose handler *)
(* ran while a history was on its way to the page (ChatPanel).              *)
ChatShownOnce ==
    \A t \in Tabs : tab[t].joined /\ Panel(t) =>
        LET msgs == rows[tab[t].room].msgs IN
        /\ \A x \in ToSet(msgs) \ overlap[t] : Shown(t, x) <= 1
        /\ \A x \in ToSet(History(msgs)) \ overlap[t] :
              send[x].st = "done" => Shown(t, x) = 1

(* Ending a room is all or nothing: a room that is still there has every    *)
(* message that was ever announced in it, one that is gone has left no row  *)
(* behind, and the caller is told ok only of the latter (deleteRoom).       *)
EndsWhole ==
    /\ \A r \in Rooms : rows[r].phase = "gone" =>
          /\ rows[r].msgs = <<>>
          /\ \A u \in People : rows[r].parts[u] = "none"
    /\ \A r \in Rooms, t \in Tabs, x \in Texts :
          rows[r].phase = "live" /\ x \in ToSet(tab[t].chat) /\ send[x].room = r
          => x \in ToSet(rows[r].msgs)
    /\ \A t \in Tabs : del[t].pc = "ok" => rows[del[t].room].phase = "gone"

(* Two forms open at once, each with an older copy of the settings, do not  *)
(* undo each other: a flag has the value somebody last chose for it         *)
(* (handleUpdateSettings sends what changed, updateRoom writes what came).  *)
(* Not promised where the page reads the room again under an open form: the *)
(* form then sends every field that differs from the new copy, touched or   *)
(* not, and all of those count as chosen (Chosen).                          *)
SettingsAsChosen ==
    \A r \in Rooms : rows[r].phase = "live" => rows[r].setting = meant[r]

(* A room that is gone leaves the lists of every home page, for good, even  *)
(* when an answer from before its end arrives after it (refetchInterval).   *)
GoneRoomUnlisted ==
    \A t \in Tabs, r \in Rooms :
        <>[](tab[t].where = "home" /\ rows[r].phase = "gone"
             => r \notin tab[t].listed)

(* A room is one thing to everybody: its end is whole and reaches its own   *)
(* pages only, its settings are what was last chosen (RoomsService,         *)
(* EnhancedRoomPage, RoomSettings).                                         *)
RoomsSound ==
    /\ RoomsTypeOK
    /\ EjectedOnlyFromEnded
    /\ EndsWhole
    /\ SettingsAsChosen

-----------------------------------------------------------------------------
(* The inductive invariant behind RoomsSound and ChatShownOnce.             *)

Row == [phase : {"unborn", "live", "gone"}, creator : People \cup {NoCreator},
        setting : Setting, msgs : Seq(Texts), parts : [People -> {"none", "in", "out"}]]
FetchTask == [tab : Tabs, room : Rooms, mine : BOOLEAN, st : {"asked", "found", "missing"},
              val : Setting \cup {NoSetting}]
Message == [st : {"idle", "buffered", "sent", "lost", "found", "saved", "done"},
            tab : Tabs \cup {NoRoom}, room : Rooms \cup {NoRoom}]
DeleteTask == [pc : {"none", "asked", "told", "msgs", "parts", "ok", "failed"},
               room : Rooms \cup {NoRoom}, from : {"home", "room"},
               texts : SUBSET Texts, users : SUBSET People]
SaveTask == [pc : {"none", "asked", "checked", "ok", "failed"}, room : Rooms \cup {NoRoom},
             fields : SUBSET Fields, chosen : SUBSET Fields, val : Setting \cup {NoSetting}]

PagesTyped ==
    /\ scope \in Scopes /\ used \in [Budgets -> Nat]
    /\ \A b \in Budgets : used[b] <= scope[b]
    /\ rows \in [Rooms -> Row] /\ meant \in [Rooms -> Setting]
    /\ tab \in [Tabs -> TabState] /\ channel \in [Rooms -> SUBSET Tabs]
    /\ fetches \subseteq FetchTask /\ joins \in [Tabs -> Seq(JoinTask)]
    /\ send \in [Texts -> Message] /\ overlap \in [Tabs -> SUBSET Texts]
    /\ del \in [Tabs -> DeleteTask] /\ save \in [Tabs -> SaveTask]
    /\ recents \in [People -> Seq(Rooms)]

Announced == {"saved", "done"}

RowSound(r) ==
    /\ rows[r].phase = "gone" => rows[r].msgs = <<>> /\ \A u \in People : rows[r].parts[u] = "none"
    /\ IsInjective(rows[r].msgs)
    /\ \A x \in ToSet(rows[r].msgs) : send[x].st \in Announced /\ send[x].room = r
    /\ rows[r].setting = meant[r]

(* A message that somebody was told of is in its room, as long as that is   *)
(* there.                                                                   *)
Kept(x) ==
    /\ send[x].st \in Announced
    /\ rows[send[x].room].phase = "live" => x \in ToSet(rows[send[x].room].msgs)

MessageSound(x) ==
    /\ send[x].st # "idle" => send[x].room \in Rooms /\ rows[send[x].room].phase # "unborn"
    /\ send[x].st = "saved" => Kept(x)

PlaceSound(t) ==
    /\ tab[t].where = "home" <=> tab[t].room = NoRoom
    /\ tab[t].shown # NoSetting =>
          tab[t].where = "room" /\ rows[tab[t].room].phase # "unborn"
    /\ tab[t].form.open => tab[t].shown # NoSetting /\ tab[t].form.val \in Setting

(* A page that has joined is on screen and its socket in the channel.       *)
ToldSound(t) ==
    /\ tab[t].joined => Panel(t) /\ t \in channel[tab[t].room]
    /\ \A x \in ToSet(tab[t].chat) : Kept(x)

(* A fetch that its page waits for is of the page's room.                   *)
FetchSound(f) ==
    /\ f.mine => tab[f.tab].where = "room" /\ tab[f.tab].room = f.room
    /\ f.st = "found" => f.val \in Setting /\ rows[f.room].phase # "unborn"

(* A join that is still heard has its socket in the channel from then on.   *)
JoinSound(t, j) ==
    /\ j.live => tab[t].conn
    /\ j.live /\ j.pc \in {"upsert", "read", "emit"} => t \in channel[j.room]
    /\ \A x \in ToSet(j.hist) : Kept(x)

ChannelSound == \A r \in Rooms : \A t \in channel[r] : tab[t].conn

RequestSound(t) ==
    /\ del[t].pc # "none" => del[t].room \in Rooms
    /\ del[t].pc = "ok" => rows[del[t].room].phase = "gone"
    /\ save[t].pc # "none" => save[t].room \in Rooms /\ save[t].val \in Setting
    /\ save[t].fields \subseteq save[t].chosen

RecentsSound ==
    \A u \in People : IsInjective(recents[u]) /\ Len(recents[u]) <= Limit

(* What a joined page has been told, apart from what met a history: none    *)
(* twice, and what has been announced of the newest.                        *)
ChatSound(t) ==
    tab[t].joined =>
        LET msgs == rows[tab[t].room].msgs
            chat == tab[t].chat IN
        \A x \in ToSet(msgs) \ overlap[t] :
            /\ \A i, k \in DOMAIN chat : chat[i] = x /\ chat[k] = x => i = k
            /\ send[x].st = "saved" => x \notin ToSet(chat)
            /\ send[x].st = "done" /\ x \in ToSet(History(msgs)) => x \in ToSet(chat)

(* A history on its way is the newest of the room but for such messages.    *)
HistorySound(t, j) ==
    j.pc = "emit" =>
        LET msgs == rows[j.room].msgs IN
        /\ IsInjective(j.hist)
        /\ \A x \in ToSet(msgs) \ overlap[t] :
              send[x].st = "done" /\ (x \in ToSet(History(msgs)) => x \in ToSet(j.hist))

RoomsIInv ==
    /\ PagesTyped
    /\ \A r \in Rooms : RowSound(r)
    /\ \A x \in Texts : MessageSound(x)
    /\ \A t \in Tabs : PlaceSound(t) /\ ToldSound(t) /\ ChatSound(t) /\ RequestSound(t)
    /\ \A f \in fetches : FetchSound(f)
    /\ \A t \in Tabs : \A j \in ToSet(joins[t]) : JoinSound(t, j) /\ HistorySound(t, j)
    /\ ChannelSound
    /\ RecentsSound
    /\ EjectedOnlyFromEnded

=============================================================================
