----------------------------- MODULE WebSession -----------------------------
(***************************************************************************)
(* The browser's half of a session: the tabs of one browser, the user      *)
(* each holds in memory (AuthContext), the copy they share in localStorage *)
(* with its storage events, the requests the API layer makes with it       *)
(* (api.ts), and each tab's socket (SocketContext).                        *)
(*                                                                         *)
(* A request is sent, served and answered in three steps, and two requests *)
(* are answered in any order.  The server is what the pages see of it:     *)
(* tokens that are live or not, rotated by a refresh, all of a person's    *)
(* ended by a password change or a sign-out everywhere (Revocation and     *)
(* Accounts have the detail).  A socket is authenticated with the token it *)
(* was opened with, and is told when that token is revoked.                *)
(***************************************************************************)
EXTENDS Integers, Sequences, FiniteSets

CONSTANTS
    Tabs, People,
    NoUser,
    MaxTokens,   \* bound: tokens the server mints
    MaxOut,      \* bound: requests of a tab in flight
    Scopes       \* bounds: which requests are made and how many, how often a
                 \* transport fails, what is sent over a socket

Signs == {"login", "claim", "me"}       \* an answer that signs in
Adopts == {"refresh", "setPassword"}    \* an answer that replaces the token
Ends == {"logout", "logoutAll"}
Asks == Signs \cup Adopts \cup Ends \cup {"elevated", "room"}

ASSUME WebAssumption ==
    /\ NoUser \notin [id : People, tok : 1..MaxTokens]
    /\ MaxTokens \in Nat \ {0} /\ MaxOut \in Nat
    /\ Scopes \subseteq [tabs : SUBSET Tabs, asks : SUBSET Asks, n : Nat,
                         blips : Nat, emits : Nat]

VARIABLES
    owner,   \* whose the tokens minted so far are, in order
    live,    \* the tokens the server accepts
    stored,  \* localStorage 'user'
    news,    \* [Tabs -> storage events not yet handled]
    tab,     \* [Tabs -> its user, socket, what kinds of frames wait in its send
             \* buffer, elevation, requests]
    refused, \* history: tokens the server has answered 401 for
    signed,  \* history: how often somebody signed in or out
    late,    \* history: a control was delivered after a reconnect
    scope

vars == <<owner, live, stored, news, tab, refused, signed, late, scope>>
serverVars == <<owner, live, refused>>
storeVars == <<stored, news>>

Token == 1..MaxTokens
User == [id : People, tok : Token]
Request == [do : Asks \ {"elevated"}, sent : Token \cup {0}, st : {"sent", "ok", "no"},
            id : People, tok : Token \cup {0}]
Tab == [user : User \cup {NoUser}, sock : Token \cup {0},
        st : {"none", "retry", "on", "half"}, buf : SUBSET {"control", "chat"},
        elev : Token \cup {0}, out : SUBSET Request]

TypeOK ==
    /\ owner \in Seq(People) /\ Len(owner) <= MaxTokens
    /\ live \subseteq 1..Len(owner) /\ refused \subseteq 1..Len(owner)
    /\ stored \in User \cup {NoUser}
    /\ news \in [Tabs -> Seq(User \cup {NoUser})]
    /\ tab \in [Tabs -> Tab]
    \* the socket is the user's
    /\ \A t \in Tabs : /\ tab[t].sock = IF tab[t].user = NoUser THEN 0 ELSE tab[t].user.tok
                       /\ tab[t].sock = 0 <=> tab[t].st = "none"
    /\ signed \in Nat /\ late \in BOOLEAN

(* Nobody is signed in, or somebody is, in every tab.                       *)
Init ==
    /\ scope \in Scopes
    /\ stored \in {NoUser} \cup {[id |-> p, tok |-> 1] : p \in People}
    /\ owner = IF stored = NoUser THEN <<>> ELSE <<stored.id>>
    /\ live = DOMAIN owner
    /\ news = [t \in Tabs |-> <<>>]
    /\ tab = [t \in Tabs |->
         [user |-> stored, sock |-> IF stored = NoUser THEN 0 ELSE stored.tok,
          st |-> IF stored = NoUser THEN "none" ELSE "retry", buf |-> {},
          elev |-> 0, out |-> {}]]
    /\ refused = {} /\ signed = 0 /\ late = FALSE

-----------------------------------------------------------------------------
(* State.                                                                   *)

\* Mutant: the socket is opened once and kept.
setUserKeepsSocket(k, u) ==
    IF u # NoUser /\ k.sock # 0 THEN [k EXCEPT !.user = u]
    ELSE [k EXCEPT !.user = u, !.sock = IF u = NoUser THEN 0 ELSE u.tok, !.buf = {},
                   !.st = IF u = NoUser THEN "none" ELSE "retry"]

(* setUser: the socket follows the token; an old one is closed with its     *)
(* buffer.                                                                  *)
setUser(k, u) ==
    LET tok == IF u = NoUser THEN 0 ELSE u.tok IN
    IF tok = k.sock THEN [k EXCEPT !.user = u]
    ELSE [k EXCEPT !.user = u, !.sock = tok, !.buf = {},
                   !.st = IF u = NoUser THEN "none" ELSE "retry"]

(* localStorage: the other tabs hear of a change.                           *)
store(t, u) ==
    /\ stored' = u
    /\ news' = [o \in Tabs |-> IF o # t /\ o \in scope.tabs /\ u # stored
                               THEN Append(news[o], u) ELSE news[o]]

readStoredToken == IF stored = NoUser THEN 0 ELSE stored.tok

(* storage event: adopt what is there unless it is somebody else's.         *)
onStorage(t) ==
    /\ news[t] # <<>>
    /\ news' = [news EXCEPT ![t] = Tail(@)]
    /\ LET next == Head(news[t])
           mine == tab[t].user IN
       tab' = [tab EXCEPT ![t] =
         IF next = NoUser \/ mine = NoUser THEN setUser(@, next)
         ELSE IF mine.id = next.id THEN setUser(@, next) ELSE @]
    /\ UNCHANGED <<serverVars, stored, signed, late, scope>>

(* A reload forgets what is under way and reads the stored session; the     *)
(* elevation stays in sessionStorage.                                       *)
Reload(t) ==
    /\ scope.n > 0 /\ scope' = [scope EXCEPT !.n = @ - 1]
    /\ t \in scope.tabs
    /\ tab' = [tab EXCEPT ![t] = setUser(
                [@ EXCEPT !.sock = 0, !.st = "none", !.buf = {}, !.out = {}], stored)]
    /\ news' = [news EXCEPT ![t] = <<>>]
    /\ UNCHANGED <<serverVars, stored, signed, late>>

-----------------------------------------------------------------------------
(* Requests.                                                                *)
Send(t, r) ==
    /\ r.do \in scope.asks /\ scope.n > 0 /\ t \in scope.tabs
    /\ scope' = [scope EXCEPT !.n = @ - 1]
    /\ Cardinality(tab[t].out) < MaxOut

NewRequest(do, sent, p) == [do |-> do, sent |-> sent, st |-> "sent", id |-> p, tok |-> 0]

(* login, register, continueAsGuest: without a token.                       *)
login(t, p) ==
    /\ Send(t, NewRequest("login", 0, p))
    /\ tab' = [tab EXCEPT ![t].out = @ \cup {NewRequest("login", 0, p)}]
    /\ UNCHANGED <<serverVars, storeVars, signed, late>>

(* The page back from Google with a token of somebody's asks who it is,     *)
(* with that token as an explicit header.                                   *)
signInWithToken(t, p) ==
    LET k == Len(owner) + 1 IN
    /\ Len(owner) < MaxTokens
    /\ Send(t, NewRequest("me", k, p))
    /\ owner' = Append(owner, p)
    /\ live' = live \cup {k}
    /\ tab' = [tab EXCEPT ![t].out = @ \cup {NewRequest("me", k, p)}]
    /\ UNCHANGED <<refused, storeVars, signed, late>>

(* The page back from a re-authentication parks its token.                  *)
AuthCallbackElevated(t) ==
    LET k == Len(owner) + 1 IN
    /\ stored # NoUser
    /\ Len(owner) < MaxTokens
    /\ Send(t, NewRequest("elevated", k, stored.id))
    /\ owner' = Append(owner, stored.id)
    /\ live' = live \cup {k}
    /\ tab' = [tab EXCEPT ![t].elev = k]
    /\ UNCHANGED <<refused, storeVars, signed, late>>

(* claim, refresh (its timer), a room's details: with the stored token,     *)
(* whoever the tab shows.  set-password: with the elevated one if parked.   *)
Ask(t, do) ==
    /\ tab[t].user # NoUser
    /\ LET r == NewRequest(do, IF do = "setPassword" /\ tab[t].elev # 0
                               THEN tab[t].elev ELSE readStoredToken, tab[t].user.id) IN
       /\ Send(t, r)
       /\ tab' = [tab EXCEPT ![t].out = @ \cup {r}]
    /\ UNCHANGED <<serverVars, storeVars, signed, late>>

(* Sign-out.  The request interceptor runs after the synchronous half has   *)
(* removed the stored user, and finds no token to send.                     *)
logout(t, do) ==
    /\ tab[t].user # NoUser
    /\ Send(t, NewRequest(do, 0, tab[t].user.id))
    /\ tab' = [tab EXCEPT ![t] = [setUser(tab[t], NoUser) EXCEPT
                  !.out = tab[t].out \cup {NewRequest(do, 0, tab[t].user.id)}]]
    /\ store(t, NoUser)
    /\ signed' = signed + 1
    /\ UNCHANGED <<serverVars, late>>

(* The server's answers.                                                    *)
Refuse(r) == [r EXCEPT !.st = "no"]
Grant(r, p, k) == [r EXCEPT !.st = "ok", !.id = p, !.tok = k]
OwnedBy(p) == {k \in DOMAIN owner : owner[k] = p}

(* Outcomes: [answer, tokens that end, whether one is minted, for whom].    *)
Outcome(r) ==
    LET k == Len(owner) + 1
        mint == Len(owner) < MaxTokens
        refuse == {[r |-> Refuse(r), ends |-> {}, mints |-> FALSE]} IN
    IF r.do = "login" THEN refuse \cup
        IF mint THEN {[r |-> Grant(r, r.id, k), ends |-> {}, mints |-> TRUE]} ELSE {}
    ELSE IF r.sent \notin live THEN refuse
    ELSE LET p == owner[r.sent] IN
      CASE r.do \in {"me", "room"} ->
             {[r |-> Grant(r, p, r.sent), ends |-> {}, mints |-> FALSE]}
        [] r.do \in Ends ->
             {[r |-> Grant(r, p, 0), mints |-> FALSE,
               ends |-> IF r.do = "logout" THEN {r.sent} ELSE OwnedBy(p)]}
        [] r.do = "refresh" ->
             IF mint THEN {[r |-> Grant(r, p, k), ends |-> {r.sent}, mints |-> TRUE]}
                     ELSE refuse
        [] r.do = "claim" ->
             IF mint THEN {[r |-> Grant(r, p, k), ends |-> {}, mints |-> TRUE]} ELSE refuse
        [] r.do = "setPassword" ->
             refuse \cup
             IF mint THEN {[r |-> Grant(r, p, k), ends |-> OwnedBy(p), mints |-> TRUE]} ELSE {}

Serve(t, r) ==
    /\ r \in tab[t].out /\ r.st = "sent"
    /\ \E o \in Outcome(r) :
         /\ tab' = [tab EXCEPT ![t].out = (@ \ {r}) \cup {o.r}]
         /\ owner' = IF o.mints THEN Append(owner, o.r.id) ELSE owner
         /\ live' = (live \ o.ends) \cup (IF o.mints THEN {o.r.tok} ELSE {})
         /\ refused' = IF o.r.st = "no" /\ r.sent # 0 THEN refused \cup {r.sent} ELSE refused
    /\ UNCHANGED <<storeVars, signed, late, scope>>

(* An answer that signs in: whoever the tab shows by now.                   *)
SignedIn(t, r) ==
    LET u == [id |-> r.id, tok |-> r.tok] IN
    /\ tab' = [tab EXCEPT ![t] = setUser([tab[t] EXCEPT !.out = @ \ {r}], u)]
    /\ store(t, u)
    /\ signed' = signed + 1

\* Mutant: the token goes to whoever is signed in by now.
adoptTokenAnybody(t, r) ==
    LET k == [tab[t] EXCEPT !.out = @ \ {r}] IN
    /\ tab' = [tab EXCEPT ![t] =
         IF k.user # NoUser THEN setUser(k, [k.user EXCEPT !.tok = r.tok]) ELSE k]
    /\ IF stored # NoUser THEN store(t, [stored EXCEPT !.tok = r.tok]) ELSE UNCHANGED storeVars
    /\ UNCHANGED signed

\* Mutant: the answer is a session whether or not there still is one.
adoptTokenAlways(t, r) ==
    LET u == [id |-> r.id, tok |-> r.tok] IN
    /\ tab' = [tab EXCEPT ![t] = setUser([tab[t] EXCEPT !.out = @ \ {r}], u)]
    /\ store(t, u)
    /\ UNCHANGED signed

(* A token for the same account: memory and storage each only if they still *)
(* hold that account.                                                       *)
adoptToken(t, r) ==
    LET k == [tab[t] EXCEPT !.out = @ \ {r}]
        u == [id |-> r.id, tok |-> r.tok] IN
    /\ tab' = [tab EXCEPT ![t] =
         LET e == IF r.do = "setPassword" THEN [k EXCEPT !.elev = 0] ELSE k IN
         IF k.user # NoUser /\ k.user.id = r.id THEN setUser(e, u) ELSE e]
    /\ IF stored # NoUser /\ stored.id = r.id THEN store(t, u) ELSE UNCHANGED storeVars
    /\ UNCHANGED signed

Granted(t, r) ==
    /\ r \in tab[t].out /\ r.st = "ok"
    /\ CASE r.do \in Signs -> SignedIn(t, r)
         [] r.do \in Adopts -> adoptToken(t, r)
         [] OTHER -> /\ tab' = [tab EXCEPT ![t].out = @ \ {r}]
                     /\ UNCHANGED <<storeVars, signed>>
    /\ UNCHANGED <<serverVars, late, scope>>

\* Mutant: any refusal of a token clears the session.
MyTokenWasRefusedAny(r) == r.sent # 0 /\ stored # NoUser

(* The response interceptor: the token refused is the one stored.           *)
MyTokenWasRefused(r) == stored # NoUser /\ r.sent = stored.tok

(* clearStoredUser and the page's onExpired; a refused elevation is         *)
(* dropped.                                                                 *)
Refused(t, r) ==
    /\ r \in tab[t].out /\ r.st = "no"
    /\ LET k == [tab[t] EXCEPT !.out = @ \ {r},
                   !.elev = IF r.do = "setPassword" /\ r.sent = @ THEN 0 ELSE @] IN
       IF MyTokenWasRefused(r)
       THEN tab' = [tab EXCEPT ![t] = setUser(k, NoUser)] /\ store(t, NoUser)
       ELSE tab' = [tab EXCEPT ![t] = k] /\ UNCHANGED storeVars
    /\ UNCHANGED <<serverVars, signed, late, scope>>

-----------------------------------------------------------------------------
(* The socket.                                                              *)
(* A live token connects; what is in the buffer is sent.                    *)
Connect(t) ==
    /\ tab[t].st = "retry" /\ tab[t].sock \in live
    /\ tab' = [tab EXCEPT ![t].st = "on", ![t].buf = {}]
    /\ late' = (late \/ "control" \in tab[t].buf)
    /\ UNCHANGED <<serverVars, storeVars, signed, scope>>

(* The transport dies and the client has not noticed.                       *)
GoesHalfOpen(t) ==
    /\ scope.blips > 0 /\ tab[t].st = "on"
    /\ scope' = [scope EXCEPT !.blips = @ - 1]
    /\ tab' = [tab EXCEPT ![t].st = "half"]
    /\ UNCHANGED <<serverVars, storeVars, signed, late>>

\* Mutant: the buffer is left as it is.
dropStaleControlsNone(buf) == buf

dropStaleControls(buf) == buf \ {"control"}

onDisconnect(t) ==
    /\ tab[t].st = "half"
    /\ tab' = [tab EXCEPT ![t].st = "retry", ![t].buf = dropStaleControls(@)]
    /\ UNCHANGED <<serverVars, storeVars, signed, late, scope>>

(* A control is emitted by a client that believes itself connected, a chat  *)
(* message by any; both wait in the buffer while the transport is gone.     *)
Emit(t, m) ==
    /\ scope.emits > 0 /\ tab[t].st \in {"half", "on", "retry"}
    /\ m = "control" => tab[t].st # "retry"
    /\ scope' = [scope EXCEPT !.emits = @ - 1]
    /\ tab' = [tab EXCEPT ![t].buf = IF tab[t].st = "on" THEN @ ELSE @ \cup {m}]
    /\ UNCHANGED <<serverVars, storeVars, signed, late>>

(* session-ended: the socket is closed for good and the page signed out.    *)
(* The stored user stays until a request is refused.                        *)
onSessionEnded(t) ==
    /\ tab[t].st = "on" /\ tab[t].sock \notin live
    /\ tab' = [tab EXCEPT ![t] = setUser(@, NoUser)]
    /\ UNCHANGED <<serverVars, storeVars, signed, late, scope>>

Next == \E t \in Tabs :
    \/ onStorage(t) \/ Reload(t) \/ AuthCallbackElevated(t)
    \/ \E p \in People : login(t, p) \/ signInWithToken(t, p)
    \/ \E do \in {"claim", "refresh", "setPassword", "room"} : Ask(t, do)
    \/ \E do \in Ends : logout(t, do)
    \/ \E r \in tab[t].out : Serve(t, r) \/ Granted(t, r) \/ Refused(t, r)
    \/ Connect(t) \/ GoesHalfOpen(t) \/ onDisconnect(t) \/ onSessionEnded(t)
    \/ \E m \in {"control", "chat"} : Emit(t, m)

Spec == Init /\ [][Next]_vars

-----------------------------------------------------------------------------
(* A user is the person whose token it holds: in every tab and in storage. *)
(* An answer to one person's request is never merged onto another who      *)
(* signed in while it was under way (adoptToken, onStorage).               *)
OneIdentity ==
    \A u \in {stored} \cup {tab[t].user : t \in Tabs} : u # NoUser => owner[u.tok] = u.id

(* The stored session is removed by signing out, or because the server     *)
(* refused that very token: a late refusal of a token that has since been  *)
(* replaced, or of an elevation, leaves it alone (the response             *)
(* interceptor).                                                           *)
OnlyTheRefusedIsCleared ==
    [][stored # NoUser /\ stored' = NoUser => signed' > signed \/ stored.tok \in refused]_vars

(* The answer to a refresh or a password change never signs anyone in: a   *)
(* session that ended while it was under way stays ended (adoptToken).     *)
RefreshNeverSignsIn ==
    [][stored = NoUser /\ stored' # NoUser => signed' > signed]_vars

(* A control a person gave before the connection was lost never reaches    *)
(* the room after it is back (dropStaleControls, the disconnect handler).  *)
NoLateControl == ~late

(* Nobody acts as somebody else, or later than they meant to (AuthContext,  *)
(* dropStaleControls).                                                      *)
WebSound ==
    /\ TypeOK
    /\ OneIdentity
    /\ NoLateControl

(* A session begins and ends by its own doing: no answer about another      *)
(* token ends it, no refresh begins one (the interceptors, adoptToken).     *)
SessionStands ==
    /\ OnlyTheRefusedIsCleared
    /\ RefreshNeverSignsIn

-----------------------------------------------------------------------------
(* The inductive strengthening the proofs rest on, of a record of owners ow *)
(* and of tokens refused ref.                                               *)
OwnsIt(u, ow) == u # NoUser => u.tok \in 1..Len(ow) /\ ow[u.tok] = u.id

(* A request carries a token that was minted; an answer that hands one out  *)
(* hands out a token of the person it names; one that refuses a token has   *)
(* been counted.                                                            *)
RequestSound(r, ow, ref) ==
    /\ r.sent \in 0..Len(ow)
    /\ r.st = "ok" /\ r.do \in Signs \cup Adopts => r.tok \in 1..Len(ow) /\ ow[r.tok] = r.id
    /\ r.st = "no" /\ r.sent # 0 => r.sent \in ref

(* Controls wait only for a connection that is believed to be there.        *)
TabSound(k, ow, ref) ==
    /\ k \in Tab
    /\ k.sock = 0 <=> k.st = "none"
    /\ k.elev \in 0..Len(ow)
    /\ \A r \in k.out : RequestSound(r, ow, ref)
    /\ k.st # "half" => "control" \notin k.buf

UserSound(k, ow) ==
    /\ OwnsIt(k.user, ow)
    /\ k.sock = IF k.user = NoUser THEN 0 ELSE k.user.tok

ServerSound(ow, lv, ref) ==
    /\ ow \in Seq(People) /\ Len(ow) <= MaxTokens
    /\ lv \subseteq 1..Len(ow) /\ ref \subseteq 1..Len(ow)

(* What is stored and what is announced of it.                              *)
StoreSound(st, ns, ow) ==
    /\ st \in User \cup {NoUser} /\ OwnsIt(st, ow)
    /\ ns \in [Tabs -> Seq(User \cup {NoUser})]
    /\ \A t \in Tabs : \A i \in 1..Len(ns[t]) : OwnsIt(ns[t][i], ow)

WebIInv ==
    /\ ServerSound(owner, live, refused)
    /\ StoreSound(stored, news, owner)
    /\ tab \in [Tabs -> Tab]
    /\ \A t \in Tabs : TabSound(tab[t], owner, refused) /\ UserSound(tab[t], owner)
    /\ signed \in Nat /\ late = FALSE
    /\ scope \in [tabs : SUBSET Tabs, asks : SUBSET Asks, n : Nat, blips : Nat, emits : Nat]

=============================================================================
