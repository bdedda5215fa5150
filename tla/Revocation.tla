---------------------------- MODULE Revocation ----------------------------
(***************************************************************************)
(* Sessions of one account: tokens are minted, rotated, signed out one by  *)
(* one or all at once.  Postgres is the truth; every instance answers from *)
(* a snapshot that local revocations and the others' announcements add to  *)
(* and a periodic reload replaces; a mirror in Redis serves the relay.     *)
(*                                                                         *)
(* What anybody knows to be revoked is one record: the jti values, and the *)
(* token version below which every token of the account is refused.  A     *)
(* database or Redis call and its continuation are one step.  An           *)
(* announcement may stay on the wire for ever, which is how it is lost.    *)
(***************************************************************************)
EXTENDS Integers, FiniteSets

CONSTANTS
    Tokens,      \* jti values
    Instances,
    Tabs,        \* clients that may be refreshing a session at the same time
    Relays,      \* relays: receivers of announcements that read the mirror
    NotMinted, NoParent, NoToken, Nowhere,
    MaxVersion,  \* bound: tokenVersion
    MaxReloads,  \* bound: instances reloading at the same time
    MaxTasks,    \* bound: revocations an instance is telling the others of
    MaxSocks,    \* bound: connections a receiver has open
    Scopes       \* of one behaviour: sessions being refreshed at the same
                 \* time; restarts, failed calls, flushes of Redis; tokens
                 \* that pass their exp (bounds);
                 \* the receivers pub/sub reaches at all, and the
                 \* instances clients talk to

ASSUME RevocationAssumption ==
    /\ {MaxVersion, MaxReloads, MaxTasks, MaxSocks} \subseteq Nat
    /\ Scopes \subseteq [rotations : Nat, mishaps : Nat, expiries : Nat,
                          hears : SUBSET (Instances \cup Relays),
                          serves : SUBSET Instances]
    /\ Relays \cap Instances = {}
    /\ NoParent \notin Tokens /\ NoToken \notin Tokens
    /\ Nowhere \notin Instances

VARIABLES
    db,       \* Postgres: the revokedToken rows and the user's tokenVersion
    minted,   \* [Tokens -> version claim and the token it was rotated from]
    expired,  \* tokens past their exp
    snap,     \* [Instances -> revokedTokens and userVersions]
    loaded,   \* instances whose first load has succeeded
    reload,   \* [Instances -> the refresh in flight]
    pending,  \* [Instances -> what was revoked while it is in flight]
    tasks,    \* [Instances -> revocations recorded, not yet told to others]
    rotation, \* [Tabs -> its refreshSession in flight]
    news,     \* [receivers -> announcements on the wire]
    socks,    \* [receivers -> tokens with an open connection]
    accepting,\* [Relays -> tokens it has checked and not yet registered]
    mirror,   \* the mirror in Redis
    mishaps,
    wins,     \* history: [Tokens -> claims of its rotation that succeeded]
    told,     \* history: [Instances -> all it has been told since it started]
    covered,  \* history: [Instances -> Postgres when its last load began]
    scope     \* the bounds of this behaviour

state == <<db, minted, expired, snap, loaded, reload, pending, tasks, rotation,
           news, socks, accepting, mirror, mishaps, wins, told, covered>>
vars == <<state, scope>>

tokenVars == <<minted, expired>>
cacheVars == <<snap, loaded, reload, pending>>
connVars == <<socks, accepting>>
histVars == <<wins, told, covered>>

Receivers == Instances \cup Relays

Knowledge == [tokens : SUBSET Tokens, version : 0..MaxVersion]
Nothing == [tokens |-> {}, version |-> 0]
Token(t) == [tokens |-> {t}, version |-> 0]
User(v) == [tokens |-> {}, version |-> v]

(* Union of the tokens, the higher of the versions.                         *)
Merge(a, b) ==
    [tokens |-> a.tokens \cup b.tokens,
     version |-> IF a.version >= b.version THEN a.version ELSE b.version]

(* What a lacks of b refuses nothing but tokens that are dead anyway.       *)
Covers(a, b) == b.tokens \ expired \subseteq a.tokens /\ b.version <= a.version

(* What is to be minted once a revocation has been told.                    *)
Grants == [ver : 0..MaxVersion, parent : Tokens \cup {NoParent}] \cup {NotMinted}
Task == [event : Knowledge, pc : {"mirror", "announce"}, grant : Grants]

Reload == [pc : {"idle", "reading", "mirroring"},
           left : SUBSET {"tokens", "version"},
           read : Knowledge, from : Knowledge]
Rotation == [pc : {"idle", "check", "claim"}, at : Instances \cup {Nowhere},
             token : Tokens \cup {NoToken}, ver : 0..MaxVersion]

TypeOK ==
    /\ db \in Knowledge
    /\ minted \in [Tokens -> Grants]
    /\ expired \subseteq Tokens
    /\ snap \in [Instances -> Knowledge]
    /\ loaded \subseteq Instances
    /\ reload \in [Instances -> Reload]
    /\ pending \in [Instances -> Knowledge]
    /\ tasks \in [Instances -> SUBSET Task]
    /\ rotation \in [Tabs -> Rotation]
    /\ news \in [Receivers -> SUBSET Knowledge]
    /\ socks \in [Receivers -> SUBSET Tokens]
    /\ accepting \in [Relays -> SUBSET Tokens]
    /\ mirror \in Knowledge
    /\ scope \in Scopes
    /\ mishaps \in 0..scope.mishaps
    /\ wins \in [Tokens -> Nat]
    /\ told \in [Instances -> Knowledge]
    /\ covered \in [Instances -> Knowledge]

NoReload == [pc |-> "idle", left |-> {}, read |-> Nothing, from |-> Nothing]
NoRotation == [pc |-> "idle", at |-> Nowhere, token |-> NoToken, ver |-> 0]

(* Nobody has signed in, and every instance has loaded the empty tables:    *)
(* onModuleInit waits for the first load.                                   *)
Init ==
    /\ scope \in Scopes
    /\ db = Nothing
    /\ minted = [t \in Tokens |-> NotMinted]
    /\ expired = {}
    /\ snap = [i \in Instances |-> Nothing]
    /\ loaded = Instances
    /\ reload = [i \in Instances |-> NoReload]
    /\ pending = [i \in Instances |-> Nothing]
    /\ tasks = [i \in Instances |-> {}]
    /\ rotation = [u \in Tabs |-> NoRotation]
    /\ news = [r \in Receivers |-> {}]
    /\ socks = [r \in Receivers |-> {}]
    /\ accepting = [r \in Relays |-> {}]
    /\ mirror = Nothing
    /\ mishaps = 0
    /\ wins = [t \in Tokens |-> 0]
    /\ told = [i \in Instances |-> Nothing]
    /\ covered = [i \in Instances |-> Nothing]

Mishap ==
    /\ mishaps < scope.mishaps
    /\ mishaps' = mishaps + 1

-----------------------------------------------------------------------------
(* The token t is refused by somebody who knows k.                          *)
Refuses(k, t) == t \in k.tokens \/ minted[t].ver < k.version

(* Live, and accepted by the guard or the handshake of instance i.          *)
Accepted(i, t) ==
    /\ minted[t] # NotMinted
    /\ t \notin expired
    /\ i \in loaded
    /\ ~Refuses(snap[i], t)

(* A client calls or connects to i with t, and gets past that.              *)
Admitted(i, t) == i \in scope.serves /\ Accepted(i, t)

(* Mint what was granted, unless Tokens are used up.                        *)
Mint(grant) ==
    LET free == {t \in Tokens : minted[t] = NotMinted} IN
    IF grant = NotMinted \/ free = {}
    THEN UNCHANGED minted
    ELSE \E t \in free : minted' = [minted EXCEPT ![t] = grant]

refreshing(i) == reload[i].pc # "idle"

(* Seeded fault: nothing is held for the reload in flight.                  *)
RememberLiveOnly(i, event) ==
    /\ snap' = [snap EXCEPT ![i] = Merge(@, event)]
    /\ pending' = pending
    /\ told' = [told EXCEPT ![i] = Merge(@, event)]

(* rememberToken, rememberVersion: the live snapshot, and what the reload   *)
(* in flight is to merge.                                                   *)
Remember(i, event) ==
    /\ snap' = [snap EXCEPT ![i] = Merge(@, event)]
    /\ pending' = IF refreshing(i)
                  THEN [pending EXCEPT ![i] = Merge(@, event)]
                  ELSE pending
    /\ told' = [told EXCEPT ![i] = Merge(@, event)]

(* evictRevoked: the connections an event names; strictly less on versions. *)
Evicted(r, event) ==
    [socks EXCEPT ![r] = {t \in @ : ~Refuses(event, t)}]

-----------------------------------------------------------------------------
(* Signing in mints a token at the version the row has now.                 *)
SignIn ==
    /\ Mint([ver |-> db.version, parent |-> NoParent])
    /\ UNCHANGED <<db, expired, cacheVars, tasks, rotation, news, connVars,
                   mirror, mishaps, histVars>>

(* Record a revocation in Postgres and here; the rest of the call follows.  *)
Record(i, event, grant) ==
    /\ Cardinality(tasks[i]) < MaxTasks
    /\ db' = Merge(db, event)
    /\ Remember(i, event)
    /\ tasks' = [tasks EXCEPT ![i] =
                    @ \cup {[event |-> event, pc |-> "mirror", grant |-> grant]}]

(* POST /auth/logout: revokeToken.                                          *)
Logout(i, t) ==
    /\ Admitted(i, t)
    /\ Record(i, Token(t), NotMinted)
    /\ UNCHANGED <<tokenVars, loaded, reload, rotation, news, connVars,
                   mirror, mishaps, wins, covered>>

(* POST /auth/logout-all: the increment is one write of the row.            *)
LogoutAll(i, t) ==
    /\ Admitted(i, t)
    /\ db.version < MaxVersion
    /\ Record(i, User(db.version + 1), NotMinted)
    /\ UNCHANGED <<tokenVars, loaded, reload, rotation, news, connVars,
                   mirror, mishaps, wins, covered>>

(* setPassword: the version moves with the hash; the caller gets a token at *)
(* the new version once the bump has been announced.                        *)
SetPassword(i, t) ==
    LET v == db.version + 1 IN
    /\ Admitted(i, t)
    /\ v <= MaxVersion
    /\ Record(i, User(v), [ver |-> v, parent |-> NoParent])
    /\ UNCHANGED <<tokenVars, loaded, reload, rotation, news, connVars,
                   mirror, mishaps, wins, covered>>

(* SADD of the token, HSET of the version; or the call fails, and only that *)
(* is logged.                                                               *)
MirrorEvent(i, k) ==
    /\ k \in tasks[i]
    /\ k.pc = "mirror"
    /\ tasks' = [tasks EXCEPT ![i] = (@ \ {k}) \cup {[k EXCEPT !.pc = "announce"]}]
    /\ \/ /\ mirror' = [tokens |-> mirror.tokens \cup k.event.tokens,
                        version |-> IF k.event.version > 0 THEN k.event.version
                                                           ELSE mirror.version]
          /\ UNCHANGED mishaps
       \/ Mishap /\ UNCHANGED mirror
    /\ UNCHANGED <<db, tokenVars, cacheVars, rotation, news, connVars,
                   histVars>>

(* announce: the connections here first, then the others; the call returns  *)
(* and its caller may mint.                                                 *)
Announce(i, k) ==
    /\ k \in tasks[i]
    /\ k.pc = "announce"
    /\ tasks' = [tasks EXCEPT ![i] = @ \ {k}]
    /\ socks' = Evicted(i, k.event)
    /\ news' = [r \in Receivers |-> IF r \in scope.hears \ {i}
                                     THEN news[r] \cup {k.event} ELSE news[r]]
    /\ Mint(k.grant)
    /\ UNCHANGED <<db, expired, cacheVars, rotation, accepting, mirror,
                   mishaps, histVars>>

(* applyEvent.                                                              *)
ApplyEvent(i, event) ==
    /\ event \in news[i]
    /\ news' = [news EXCEPT ![i] = @ \ {event}]
    /\ Remember(i, event)
    /\ socks' = Evicted(i, event)
    /\ UNCHANGED <<db, tokenVars, loaded, reload, tasks, rotation, accepting,
                   mirror, mishaps, wins, covered>>

-----------------------------------------------------------------------------
(* refreshSession, for the tab u.                                           *)

(* The guard, then the row: a version claim below the row's is refused.     *)
RefreshStart(u, i, t) ==
    /\ rotation[u].pc = "idle"
    /\ Cardinality({v \in Tabs : rotation[v].pc # "idle"}) < scope.rotations
    /\ Admitted(i, t)
    /\ minted[t].ver >= db.version
    /\ rotation' = [rotation EXCEPT ![u] = [pc |-> "check", at |-> i, token |-> t,
                                            ver |-> db.version]]
    /\ UNCHANGED <<db, tokenVars, cacheVars, tasks, news, connVars, mirror,
                   mishaps, histVars>>

(* Seeded fault: the jti does not reach the claim.                          *)
RefreshCheckForgets(u) ==
    /\ rotation[u].pc = "check"
    /\ rotation' = [rotation EXCEPT ![u].pc = "claim", ![u].token = NoToken]
    /\ UNCHANGED <<db, tokenVars, cacheVars, tasks, news, connVars, mirror,
                   mishaps, histVars>>

(* isJtiRevokedDurable.                                                     *)
RefreshCheck(u) ==
    /\ rotation[u].pc = "check"
    /\ rotation' = [rotation EXCEPT ![u] =
                       IF @.token \in db.tokens THEN NoRotation
                                                ELSE [@ EXCEPT !.pc = "claim"]]
    /\ UNCHANGED <<db, tokenVars, cacheVars, tasks, news, connVars, mirror,
                   mishaps, histVars>>

(* Seeded fault: an upsert instead of a create.                             *)
TakenNever(t) == FALSE

(* The unique jti has a row already.                                        *)
Taken(t) == t \in db.tokens

(* claimRevocation for t, minting at version v if it wins.                  *)
ClaimAndMint(u, t, v) ==
    /\ rotation' = [rotation EXCEPT ![u] = NoRotation]
    /\ IF Taken(t)
       THEN Remember(rotation[u].at, Token(t)) /\ UNCHANGED <<db, tasks, wins>>
       ELSE /\ Record(rotation[u].at, Token(t), [ver |-> v, parent |-> t])
            /\ wins' = [wins EXCEPT ![t] = @ + 1]
    /\ UNCHANGED <<tokenVars, loaded, reload, news, connVars, mirror, mishaps,
                   covered>>

(* Seeded fault: the successor gets the version the row has by now.         *)
RefreshClaimRereads(u) ==
    /\ rotation[u].pc = "claim"
    /\ ClaimAndMint(u, rotation[u].token, db.version)

(* The one create that succeeds rotates; the new token carries the version  *)
(* read at the start.                                                       *)
RefreshClaim(u) ==
    /\ rotation[u].pc = "claim"
    /\ ClaimAndMint(u, rotation[u].token, rotation[u].ver)

-----------------------------------------------------------------------------
(* refresh: one at a time, every 30 s and once at the start.                *)

ReloadStart(i) ==
    /\ ~refreshing(i)
    /\ Cardinality({j \in Instances : refreshing(j)}) < MaxReloads
    /\ reload' = [reload EXCEPT ![i] = [pc |-> "reading", read |-> Nothing,
                                        left |-> {"tokens", "version"},
                                        from |-> db]]
    /\ pending' = [pending EXCEPT ![i] = Nothing]
    /\ UNCHANGED <<db, tokenVars, snap, loaded, tasks, rotation, news,
                   connVars, mirror, mishaps, histVars>>

(* Seeded fault: the rows are taken from the mirror.                        *)
ReloadReadMirror(i, part) ==
    /\ reload[i].pc = "reading"
    /\ part \in reload[i].left
    /\ reload' = [reload EXCEPT
                     ![i].left = @ \ {part},
                     ![i].read = IF part = "tokens"
                                 THEN [@ EXCEPT !.tokens = mirror.tokens]
                                 ELSE [@ EXCEPT !.version = db.version]]
    /\ UNCHANGED <<db, tokenVars, snap, loaded, pending, tasks, rotation,
                   news, connVars, mirror, mishaps, histVars>>

(* One query's answer beside what has been read; rows past their expiry are *)
(* left out.                                                                *)
Answer(read, part) ==
    IF part = "tokens" THEN [read EXCEPT !.tokens = db.tokens \ expired]
                       ELSE [read EXCEPT !.version = db.version]

(* The two queries run side by side.                                        *)
ReloadRead(i, part) ==
    /\ reload[i].pc = "reading"
    /\ part \in reload[i].left
    /\ reload' = [reload EXCEPT ![i].left = @ \ {part},
                                ![i].read = Answer(@, part)]
    /\ UNCHANGED <<db, tokenVars, snap, loaded, pending, tasks, rotation,
                   news, connVars, mirror, mishaps, histVars>>

(* Merge what came in meanwhile and replace the snapshot.                   *)
ReloadInstall(i) ==
    LET next == Merge(reload[i].read, pending[i]) IN
    /\ reload[i].pc = "reading"
    /\ reload[i].left = {}
    /\ snap' = [snap EXCEPT ![i] = next]
    /\ loaded' = loaded \cup {i}
    /\ reload' = [reload EXCEPT ![i] = [NoReload EXCEPT !.pc = "mirroring",
                                                             !.read = next]]
    /\ covered' = [covered EXCEPT ![i] = reload[i].from]
    /\ UNCHANGED <<db, tokenVars, pending, tasks, rotation, news, connVars,
                   mirror, mishaps, wins, told>>

ReloadOver(i) ==
    /\ reload' = [reload EXCEPT ![i] = NoReload]
    /\ pending' = [pending EXCEPT ![i] = Nothing]

(* mirrorSnapshot: one MULTI replaces the mirror.                           *)
ReloadMirror(i) ==
    /\ reload[i].pc = "mirroring"
    /\ mirror' = reload[i].read
    /\ ReloadOver(i)
    /\ UNCHANGED <<db, tokenVars, snap, loaded, tasks, rotation, news,
                   connVars, mishaps, histVars>>

(* A failed load keeps the previous snapshot, a failed rebuild the previous *)
(* mirror.                                                                  *)
ReloadFails(i) ==
    /\ Mishap
    /\ refreshing(i)
    /\ ReloadOver(i)
    /\ UNCHANGED <<db, tokenVars, snap, loaded, tasks, rotation, news,
                   connVars, mirror, histVars>>

-----------------------------------------------------------------------------
(* Connections.                                                             *)

Connect(i, t) ==
    /\ Admitted(i, t)
    /\ t \notin socks[i]
    /\ Cardinality(socks[i]) < MaxSocks
    /\ socks' = [socks EXCEPT ![i] = @ \cup {t}]
    /\ UNCHANGED <<db, tokenVars, cacheVars, tasks, rotation, news,
                   accepting, mirror, mishaps, histVars>>

(* The relay checks the mirror, upgrades the connection, and only then      *)
(* registers it where events and the sweep find it.                         *)
RelayAccept(r, t) ==
    /\ minted[t] # NotMinted
    /\ t \notin expired
    /\ t \notin socks[r] \cup accepting[r]
    /\ Cardinality(socks[r] \cup accepting[r]) < MaxSocks
    /\ ~Refuses(mirror, t)
    /\ accepting' = [accepting EXCEPT ![r] = @ \cup {t}]
    /\ UNCHANGED <<db, tokenVars, cacheVars, tasks, rotation, news, socks,
                   mirror, mishaps, histVars>>

RelayRegister(r, t) ==
    /\ t \in accepting[r]
    /\ accepting' = [accepting EXCEPT ![r] = @ \ {t}]
    /\ socks' = [socks EXCEPT ![r] = @ \cup {t}]
    /\ UNCHANGED <<db, tokenVars, cacheVars, tasks, rotation, news, mirror,
                   mishaps, histVars>>

RelayHears(r, event) ==
    /\ event \in news[r]
    /\ news' = [news EXCEPT ![r] = @ \ {event}]
    /\ socks' = Evicted(r, event)
    /\ UNCHANGED <<db, tokenVars, cacheVars, tasks, rotation, accepting,
                   mirror, mishaps, histVars>>

(* Seeded fault: the relay's sweep only looks at the clock.                 *)
RelaySweepExpiredOnly(r) ==
    /\ \E t \in socks[r] : t \in expired
    /\ socks' = [socks EXCEPT ![r] = @ \ expired]
    /\ UNCHANGED <<db, tokenVars, cacheVars, tasks, rotation, news,
                   accepting, mirror, mishaps, histVars>>

(* Its sweep closes what has expired and what the mirror refuses.           *)
RelaySweep(r) ==
    /\ \E t \in socks[r] : t \in expired \/ Refuses(mirror, t)
    /\ socks' = [socks EXCEPT ![r] =
                    {t \in @ : t \notin expired /\ ~Refuses(mirror, t)}]
    /\ UNCHANGED <<db, tokenVars, cacheVars, tasks, rotation, news,
                   accepting, mirror, mishaps, histVars>>

(* A token passes its exp.                                                  *)
Expire(t) ==
    /\ minted[t] # NotMinted
    /\ t \notin expired
    /\ Cardinality(expired) < scope.expiries
    /\ expired' = expired \cup {t}
    /\ UNCHANGED <<db, minted, cacheVars, tasks, rotation, news, connVars,
                   mirror, mishaps, histVars>>

(* startExpirySweep closes connections on expired tokens.                   *)
ExpirySweep(i) ==
    /\ socks[i] \cap expired # {}
    /\ socks' = [socks EXCEPT ![i] = @ \ expired]
    /\ UNCHANGED <<db, tokenVars, cacheVars, tasks, rotation, news,
                   accepting, mirror, mishaps, histVars>>

(* sweep deletes the rows of expired tokens.                                *)
SweepRows ==
    /\ db.tokens \cap expired # {}
    /\ db' = [db EXCEPT !.tokens = @ \ expired]
    /\ UNCHANGED <<tokenVars, cacheVars, tasks, rotation, news, connVars,
                   mirror, mishaps, histVars>>

(* An instance restarts with an empty snapshot it does not trust.           *)
Restart(i) ==
    /\ Mishap
    /\ snap' = [snap EXCEPT ![i] = Nothing]
    /\ loaded' = loaded \ {i}
    /\ ReloadOver(i)
    /\ tasks' = [tasks EXCEPT ![i] = {}]
    /\ rotation' = [u \in Tabs |-> IF rotation[u].at = i THEN NoRotation
                                                         ELSE rotation[u]]
    /\ news' = [news EXCEPT ![i] = {}]
    /\ socks' = [socks EXCEPT ![i] = {}]
    /\ told' = [told EXCEPT ![i] = Nothing]
    /\ covered' = [covered EXCEPT ![i] = Nothing]
    /\ UNCHANGED <<db, tokenVars, accepting, mirror, wins>>

(* Redis loses its data.                                                    *)
Flush ==
    /\ Mishap
    /\ mirror # Nothing
    /\ mirror' = Nothing
    /\ UNCHANGED <<db, tokenVars, cacheVars, tasks, rotation, news, connVars,
                   histVars>>

-----------------------------------------------------------------------------
TaskStep(i) == \E k \in tasks[i] : MirrorEvent(i, k) \/ Announce(i, k)

ReloadStep(i) ==
    \/ ReloadStart(i)
    \/ \E part \in {"tokens", "version"} : ReloadRead(i, part)
    \/ ReloadInstall(i)
    \/ ReloadMirror(i)

InstanceNext(i) ==
    \/ \E t \in Tokens : \/ Logout(i, t) \/ LogoutAll(i, t) \/ SetPassword(i, t)
                         \/ Connect(i, t)
    \/ TaskStep(i) \/ ReloadStep(i) \/ ReloadFails(i)
    \/ \E event \in news[i] : ApplyEvent(i, event)
    \/ ExpirySweep(i) \/ Restart(i)

RotationNext(u) ==
    \/ \E i \in Instances, t \in Tokens : RefreshStart(u, i, t)
    \/ RefreshCheck(u)
    \/ RefreshClaim(u)

RelayNext(r) ==
    \/ \E t \in Tokens : RelayAccept(r, t) \/ RelayRegister(r, t)
    \/ \E event \in news[r] : RelayHears(r, event)
    \/ RelaySweep(r)

Step ==
    \/ SignIn
    \/ \E i \in Instances : InstanceNext(i)
    \/ \E u \in Tabs : RotationNext(u)
    \/ \E r \in Relays : RelayNext(r)
    \/ \E t \in Tokens : Expire(t)
    \/ SweepRows
    \/ Flush

Next == Step /\ UNCHANGED scope

Spec == Init /\ [][Next]_vars

(* Timers fire and calls return.  Nothing is assumed of pub/sub.            *)
FairSpec ==
    /\ Spec
    /\ \A i \in Instances : /\ WF_state(ReloadStep(i))
                             /\ WF_state(TaskStep(i))
                             /\ WF_state(ExpirySweep(i))
    /\ \A r \in Relays : WF_state(RelaySweep(r))

-----------------------------------------------------------------------------
(* "A revocation takes effect here at once", and for good: whatever an      *)
(* instance has been told since it started, by its own calls or by others,  *)
(* its snapshot refuses, whichever reload was under way when it was told.   *)
RevocationSticks == \A i \in Instances : Covers(snap[i], told[i])

(* The staleness bound: an instance that answers at all refuses whatever    *)
(* Postgres had when its last successful load began, pub/sub or not.        *)
LoadCovers == \A i \in loaded : Covers(snap[i], covered[i])

(* Rotation: however many tabs refresh one token at once, at most one of    *)
(* them gets a successor, and by then the token is revoked in Postgres.     *)
(* Said of live tokens: the row that decides it is swept once the token has *)
(* expired.                                                                 *)
RotatedOnce ==
    \A t \in Tokens \ expired :
        /\ wins[t] <= 1
        /\ wins[t] > 0 => t \in db.tokens

(* A rotation racing a sign-out everywhere cannot launder a token past it:  *)
(* the successor, minted or only granted so far, claims no higher version   *)
(* than the token it replaces.                                              *)
NoLaundering ==
    \A g \in {minted[t] : t \in Tokens}
             \cup {k.grant : k \in UNION {tasks[i] : i \in Instances}} :
        g # NotMinted /\ g.parent # NoParent => g.ver <= minted[g.parent].ver

(* Without any announcement arriving, every token revoked in Postgres is    *)
(* eventually refused by every instance, by those too that did not make the *)
(* revocation.                                                              *)
EventuallyRefused ==
    \A t \in Tokens, i \in Instances :
        (minted[t] # NotMinted /\ Refuses(db, t)) ~> (~Accepted(i, t))

(* The relay too: a connection on a revoked or expired token is closed,     *)
(* although mirror writes race each other and announcements are lost.       *)
RelayCloses ==
    \A t \in Tokens, r \in Relays :
        (t \in socks[r] /\ Refuses(db, t)) ~> (t \notin socks[r])

(* Whatever is lost on the way, a revocation reaches whom it concerns:      *)
(* every instance refuses the token and the relay closes what is open on it *)
(* (refresh, mirrorSnapshot, the relay's sweep).                            *)
ReachesAll == EventuallyRefused /\ RelayCloses

(* An instance forgets nothing it knew: neither what it was told nor what   *)
(* its last load was made from (refresh against apply).                     *)
NothingForgotten ==
    /\ RevocationSticks
    /\ LoadCovers

(* A rotation neither doubles a session nor carries it past the end of all  *)
(* sessions (refreshSession, claimForRotation).                             *)
RotationSound ==
    /\ RotatedOnce
    /\ NoLaundering

=============================================================================
