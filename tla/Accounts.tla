----------------------------- MODULE Accounts -----------------------------
(***************************************************************************)
(* Who owns which account: registration, password sign-in, guests and      *)
(* their promotion to full accounts, Google identities, re-authentication, *)
(* and the nightly sweep of guests.  A handler gives up the instance at    *)
(* each await, so it is one step per database call, and the requests of    *)
(* several browsers, and of several tabs of one, interleave between them.  *)
(*                                                                         *)
(* Postgres keeps username, email and (provider, subject) unique: a write  *)
(* that would break one fails as a whole.  A browser holds one session     *)
(* token, one elevated token and one OAuth cookie; a tab that went to      *)
(* Google comes back with the state it was sent with.  Text is validated   *)
(* before anything is read, so names, addresses and passwords are values   *)
(* that passed.  The token version below which the instance refuses a      *)
(* token is its own; other instances hear of it in module Revocation.      *)
(***************************************************************************)
EXTENDS Integers, FiniteSets

CONSTANTS
    Users,        \* user ids
    Names, Emails, Passwords,
    Subjects,     \* Google accounts: the provider's stable subject
    EmailOf,      \* [Subjects -> Emails]: the verified address of each
    Browsers,
    Requests,     \* bound: requests in flight at the same time
    Nobody, NoName, NoEmail, NoPassword, NoSubject, NoRow,
    NoToken, NoFlow, Idle,
    USERNAME_ATTEMPTS,
    MaxRequests,  \* bound: requests served
    MaxFlows,     \* bound: OAuth round trips started
    MaxVersion    \* bound: tokenVersion

ASSUME AccountsAssumption ==
    /\ {MaxRequests, MaxFlows, MaxVersion} \subseteq Nat
    /\ USERNAME_ATTEMPTS \in Nat \ {0}
    /\ EmailOf \in [Subjects -> Emails]
    /\ Nobody \notin Users /\ NoSubject \notin Subjects /\ Users \cap Emails = {}
    \* a password is not a Google subject, and no password is neither
    /\ NoPassword \notin Passwords \cup Subjects /\ Passwords \cap Subjects = {}

VARIABLES
    row,      \* [Users -> the User row, or NoRow]
    link,     \* [Subjects -> the user its OAuthAccount row names, or Nobody]
    minVer,   \* [Users -> versions this instance refuses are below it]
    sess,     \* [Browsers -> session token]
    elev,     \* [Browsers -> elevated token]
    cookie,   \* [Browsers -> the sealed state of its OAuth round trip]
    away,     \* tabs at Google: [b, sid]
    flows,    \* round trips started
    req,      \* [Requests -> the handler's frame, or Idle]
    served    \* requests started

vars == <<row, link, minVer, sess, elev, cookie, away, flows, req, served>>
dbVars == <<row, link, minVer>>
flowVars == <<cookie, away, flows>>

(* A guest's own address, <uuid>@guest.invalid, is its id.                  *)
Row == [name : Names, email : Emails \cup Users,
        pass : Passwords \cup {NoPassword}, guest : BOOLEAN,
        ver : 0..MaxVersion]

(* issueToken: subject and version.  by is what it was granted on, a        *)
(* password or a Google subject, and is not part of the token.              *)
Grounds == Passwords \cup Subjects \cup {NoPassword}
Token == [sub : Users, ver : 0..MaxVersion, by : Grounds]

Purposes == {"sign-in", "link-guest", "link-full", "reauth"}
Sealed == [sid : 1..MaxFlows, purpose : Purposes, u : Users \cup {Nobody}]

(* The awaits a handler may be at, by name.                                 *)
Stages == Purposes \cup
    {"register", "register.create", "login", "login.compare", "guest",
     "claim", "claim.taken", "claim.write", "link", "link.method", "link.verify",
     "reauth-start", "exchange", "reauth.mint", "full.existing", "full.create",
     "full.owner", "guest.existing", "guest.address", "guest.write",
     "google.email", "google.create", "google.winner",
     "set", "set.verify", "set.write", "set.note"}

Frame == [pc : Stages, b : Browsers, u : Users \cup {Nobody},
          name : Names \cup {NoName}, email : Emails \cup {NoEmail},
          pass : Passwords \cup {NoPassword}, s : Subjects \cup {NoSubject},
          flow : Sealed \cup {NoFlow}, ver : 0..MaxVersion, tries : 0..USERNAME_ATTEMPTS,
          elevated : BOOLEAN]

ASSUME AbsentAssumption ==
    NoRow \notin Row /\ NoToken \notin Token /\ NoFlow \notin Sealed /\ Idle \notin Frame

TypeOK ==
    /\ row \in [Users -> Row \cup {NoRow}]
    /\ link \in [Subjects -> Users \cup {Nobody}]
    /\ minVer \in [Users -> 0..MaxVersion]
    /\ sess \in [Browsers -> Token \cup {NoToken}]
    /\ elev \in [Browsers -> Token \cup {NoToken}]
    /\ cookie \in [Browsers -> Sealed \cup {NoFlow}]
    /\ away \subseteq [b : Browsers, sid : 1..MaxFlows]
    /\ flows \in 0..MaxFlows
    /\ req \in [Requests -> Frame \cup {Idle}]
    /\ served \in 0..MaxRequests

Exists(u) == u # Nobody /\ row[u] # NoRow
Live == {u \in Users : row[u] # NoRow}
Linked(u) == \E s \in Subjects : link[s] = u

Init ==
    /\ row = [u \in Users |-> NoRow]
    /\ link = [s \in Subjects |-> Nobody]
    /\ minVer = [u \in Users |-> 0]
    /\ sess = [b \in Browsers |-> NoToken]
    /\ elev = [b \in Browsers |-> NoToken]
    /\ cookie = [b \in Browsers |-> NoFlow]
    /\ away = {} /\ flows = 0 /\ served = 0
    /\ req = [r \in Requests |-> Idle]

-----------------------------------------------------------------------------
(* Requests, frames and answers.                                            *)

(* JwtAuthGuard: the token is one the instance does not know to be revoked. *)
Guard(t) == t # NoToken /\ t.ver >= minVer[t.sub]

(* A request of browser b starts at pc.                                     *)
Begin(r, b, pc, u, name, email, pass, flow, elevated) ==
    /\ req[r] = Idle /\ served < MaxRequests
    /\ served' = served + 1
    /\ req' = [req EXCEPT ![r] =
         [pc |-> pc, b |-> b, u |-> u, name |-> name, email |-> email,
          pass |-> pass, s |-> NoSubject, flow |-> flow, ver |-> 0,
          tries |-> 0, elevated |-> elevated]]

(* An authenticated request that carries at most a password.                *)
BeginAs(r, b, pc, t, pass, elevated) ==
    /\ Guard(t)
    /\ Begin(r, b, pc, t.sub, NoName, NoEmail, pass, NoFlow, elevated)
    /\ UNCHANGED <<dbVars, sess, elev, flowVars>>

At(r, pc) == req[r] # Idle /\ req[r].pc = pc
Goto(r, pc) == req' = [req EXCEPT ![r].pc = pc]
(* The answer of the request r.  Every answer to the OAuth callback clears  *)
(* the browser's cookie, whichever flow has set it since.                   *)
Done(r) ==
    /\ req' = [req EXCEPT ![r] = Idle]
    /\ cookie' = IF req[r].flow # NoFlow
                 THEN [cookie EXCEPT ![req[r].b] = NoFlow] ELSE cookie
Refuse(r) == Done(r) /\ UNCHANGED <<sess, elev>>

(* The answer carries a token the browser stores.                           *)
issueToken(r, u, ver, by) ==
    /\ Done(r)
    /\ sess' = [sess EXCEPT ![req[r].b] = [sub |-> u, ver |-> ver, by |-> by]]
    /\ UNCHANGED elev

(* The candidate name is taken: draw another, a limited number of times.    *)
Retry(r) == IF req[r].tries + 1 < USERNAME_ATTEMPTS
            THEN /\ req' = [req EXCEPT ![r].tries = @ + 1]
                 /\ UNCHANGED <<sess, elev, cookie>>
            ELSE Refuse(r)

(* A read: nothing but the frame and the answer change.                     *)
Reads == UNCHANGED <<dbVars, away, flows, served>>
Stays == UNCHANGED <<sess, elev, cookie>>

NameTaken(n, u) == \E v \in Live \ {u} : row[v].name = n
EmailTaken(e, u) == \E v \in Live \ {u} : row[v].email = e

-----------------------------------------------------------------------------
(* Registration, password sign-in and guests.                               *)

register(r, b, n, e, w) ==
    /\ Begin(r, b, "register", Nobody, n, e, w, NoFlow, FALSE)
    /\ UNCHANGED <<dbVars, sess, elev, flowVars>>

RegisterLookup(r) ==
    /\ At(r, "register") /\ Reads
    /\ IF NameTaken(req[r].name, Nobody) \/ EmailTaken(req[r].email, Nobody)
       THEN Refuse(r)
       ELSE Goto(r, "register.create") /\ Stays

(* A name or an address taken since the lookup fails the insert.            *)
RegisterCreate(r) ==
    /\ At(r, "register.create")
    /\ IF NameTaken(req[r].name, Nobody) \/ EmailTaken(req[r].email, Nobody)
       THEN Refuse(r) /\ UNCHANGED row
       ELSE \E u \in Users \ Live :
              /\ row' = [row EXCEPT ![u] =
                   [name |-> req[r].name, email |-> req[r].email,
                    pass |-> req[r].pass, guest |-> FALSE, ver |-> 0]]
              /\ issueToken(r, u, 0, req[r].pass)
    /\ UNCHANGED <<link, minVer, away, flows, served>>

login(r, b, n, w) ==
    /\ Begin(r, b, "login", Nobody, n, NoEmail, w, NoFlow, FALSE)
    /\ UNCHANGED <<dbVars, sess, elev, flowVars>>

(* The row is read once; the comparison and the token use that reading.     *)
LoginRead(r) ==
    /\ At(r, "login") /\ Reads /\ Stays
    /\ \/ \E u \in Live :
            /\ row[u].name = req[r].name /\ row[u].pass = req[r].pass
            /\ req' = [req EXCEPT ![r].pc = "login.compare", ![r].u = u,
                                  ![r].ver = row[u].ver]
       \/ /\ ~\E u \in Live : /\ row[u].name = req[r].name
                              /\ row[u].pass = req[r].pass
          /\ req' = [req EXCEPT ![r] = Idle]

LoginAnswer(r) ==
    /\ At(r, "login.compare") /\ Reads
    /\ issueToken(r, req[r].u, req[r].ver, req[r].pass)

(* POST /guest, once the rate buckets have let it through.                  *)
guest(r, b) ==
    /\ Begin(r, b, "guest", Nobody, NoName, NoEmail, NoPassword, NoFlow,
             FALSE)
    /\ UNCHANGED <<dbVars, sess, elev, flowVars>>

(* One attempt: a candidate name that is taken is drawn again.              *)
createGuest(r) ==
    /\ At(r, "guest")
    /\ \E n \in Names :
         IF NameTaken(n, Nobody)
         THEN Retry(r) /\ UNCHANGED row
         ELSE \E u \in Users \ Live :
                /\ row' = [row EXCEPT ![u] =
                     [name |-> n, email |-> u, pass |-> NoPassword,
                      guest |-> TRUE, ver |-> 0]]
                /\ issueToken(r, u, 0, NoPassword)
    /\ UNCHANGED <<link, minVer, away, flows, served>>

(* The nightly sweep: guests past their week that nothing refers to.  Age   *)
(* and traces are data here: any guests may be the ones.                    *)
sweep ==
    /\ \E D \in SUBSET {u \in Live : row[u].guest} :
         /\ D # {}
         /\ row' = [u \in Users |-> IF u \in D THEN NoRow ELSE row[u]]
         /\ link' = [s \in Subjects |-> IF link[s] \in D THEN Nobody ELSE link[s]]
    /\ UNCHANGED <<minVer, sess, elev, flowVars, req, served>>

-----------------------------------------------------------------------------
(* A guest becomes a full account in place, with a password.                *)

claim(r, b, n, e, w) ==
    /\ Guard(sess[b])
    /\ Begin(r, b, "claim", sess[b].sub, n, e, w, NoFlow, FALSE)
    /\ UNCHANGED <<dbVars, sess, elev, flowVars>>

ClaimRead(r) ==
    /\ At(r, "claim") /\ Reads
    /\ IF Exists(req[r].u) /\ row[req[r].u].guest
       THEN Goto(r, "claim.taken") /\ Stays
       ELSE Refuse(r)

ClaimTaken(r) ==
    /\ At(r, "claim.taken") /\ Reads
    /\ IF NameTaken(req[r].name, req[r].u) \/ EmailTaken(req[r].email, req[r].u)
       THEN Refuse(r)
       ELSE Goto(r, "claim.write") /\ Stays

\* Mutant: the write does not ask whether the row is still a guest.
StillGuestAnyRow(u) == Exists(u)

(* update where id and isGuest: a row that is a guest no more, or is gone,  *)
(* matches nothing and the request fails.                                   *)
StillGuest(u) == Exists(u) /\ row[u].guest

ClaimWrite(r) ==
    LET u == req[r].u IN
    /\ At(r, "claim.write")
    /\ IF /\ StillGuest(u)
          /\ ~NameTaken(req[r].name, u) /\ ~EmailTaken(req[r].email, u)
       THEN /\ row' = [row EXCEPT ![u] =
                 [name |-> req[r].name, email |-> req[r].email,
                  pass |-> req[r].pass, guest |-> FALSE, ver |-> row[u].ver]]
            /\ issueToken(r, u, row[u].ver, req[r].pass)
       ELSE Refuse(r) /\ UNCHANGED row
    /\ UNCHANGED <<link, minVer, away, flows, served>>

-----------------------------------------------------------------------------
(* The OAuth round trip.                                                    *)

\* Mutant: the round trips are not told apart.
startKeepsCount(b, purpose, u) ==
    /\ flows < MaxFlows
    /\ UNCHANGED flows
    /\ cookie' = [cookie EXCEPT ![b] =
                   [sid |-> flows, purpose |-> purpose, u |-> u]]
    /\ away' = away \cup {[b |-> b, sid |-> flows]}

(* GoogleOAuthService.start: a fresh state, sealed with what the flow is    *)
(* for, replaces the browser's cookie and goes out with the tab.            *)
start(b, purpose, u) ==
    /\ flows < MaxFlows
    /\ flows' = flows + 1
    /\ cookie' = [cookie EXCEPT ![b] =
                   [sid |-> flows + 1, purpose |-> purpose, u |-> u]]
    /\ away' = away \cup {[b |-> b, sid |-> flows + 1]}

googleStart(b) ==
    /\ start(b, "sign-in", Nobody)
    /\ UNCHANGED <<dbVars, sess, elev, req, served>>

linkStart(r, b, w) == BeginAs(r, b, "link", sess[b], w, FALSE)

LinkHasGoogle(r) ==
    /\ At(r, "link") /\ Reads
    /\ IF Linked(req[r].u) THEN Refuse(r)
       ELSE Goto(r, "link.method") /\ Stays

(* reauthMethodFor.                                                         *)
Method(u) ==
    IF ~Exists(u) THEN "none"
    ELSE IF row[u].pass # NoPassword THEN "password"
    ELSE IF Linked(u) THEN "google" ELSE "none"

StartAndAnswer(r, purpose) ==
    /\ start(req[r].b, purpose, req[r].u)
    /\ req' = [req EXCEPT ![r] = Idle]
    /\ UNCHANGED <<dbVars, sess, elev, served>>

LinkMethod(r) ==
    /\ At(r, "link.method")
    /\ CASE Method(req[r].u) = "password" ->
              Goto(r, "link.verify") /\ Stays /\ Reads
         [] Method(req[r].u) = "google" -> Refuse(r) /\ Reads
         [] OTHER -> StartAndAnswer(r, "link-guest")

PasswordMatches(r) == Exists(req[r].u) /\ row[req[r].u].pass = req[r].pass

LinkVerify(r) ==
    /\ At(r, "link.verify")
    /\ IF PasswordMatches(r)
       THEN StartAndAnswer(r, "link-full")
       ELSE Refuse(r) /\ Reads

reauthStart(r, b) == BeginAs(r, b, "reauth-start", sess[b], NoPassword, FALSE)

ReauthMethod(r) ==
    /\ At(r, "reauth-start")
    /\ IF Method(req[r].u) = "google"
       THEN StartAndAnswer(r, "reauth")
       ELSE Refuse(r) /\ Reads

(* Ten minutes: the seal no longer opens and the cookie is dropped.         *)
FlowExpires(b) ==
    /\ cookie[b] # NoFlow
    /\ cookie' = [cookie EXCEPT ![b] = NoFlow]
    /\ UNCHANGED <<dbVars, sess, elev, away, flows, req, served>>

(* The tab is back.  verifyCallback opens the seal and compares the states. *)
callback(r, b, sid) ==
    /\ [b |-> b, sid |-> sid] \in away
    /\ away' = away \ {[b |-> b, sid |-> sid]}
    /\ IF cookie[b] # NoFlow /\ cookie[b].sid = sid
       THEN /\ Begin(r, b, "exchange", cookie[b].u, NoName, NoEmail,
                     NoPassword, cookie[b], FALSE)
            /\ UNCHANGED cookie
       ELSE /\ req[r] = Idle
            /\ cookie' = [cookie EXCEPT ![b] = NoFlow]
            /\ UNCHANGED <<req, served>>
    /\ UNCHANGED <<dbVars, sess, elev, flows>>

(* Google names the identity the person chose; the sealed purpose, never    *)
(* the request, says what it is for.                                        *)
Exchange(r) ==
    /\ At(r, "exchange") /\ Reads
    /\ \/ Refuse(r)   \* declined, code or id token rejected, unverified
       \/ /\ \E s \in Subjects :
               req' = [req EXCEPT ![r].s = s,
                                  ![r].pc = req[r].flow.purpose]
          /\ Stays

(* purpose reauth: the identity must be the account's own.                  *)
googleSubjectOwner(r) ==
    /\ At(r, "reauth") /\ Reads
    /\ IF link[req[r].s] = req[r].u
       THEN Goto(r, "reauth.mint") /\ Stays
       ELSE Refuse(r)

mintElevatedToken(r) ==
    /\ At(r, "reauth.mint") /\ Reads
    /\ IF Exists(req[r].u)
       THEN /\ Done(r)
            /\ elev' = [elev EXCEPT ![req[r].b] =
                 [sub |-> req[r].u, ver |-> row[req[r].u].ver, by |-> req[r].s]]
            /\ UNCHANGED sess
       ELSE Refuse(r)

-----------------------------------------------------------------------------
(* linkGoogleToFull: adds the provider row and nothing else.                *)

LinkFullRead(r) ==
    /\ At(r, "link-full") /\ Reads
    /\ IF Exists(req[r].u)
       THEN /\ req' = [req EXCEPT ![r].pc = "full.existing",
                                  ![r].ver = row[req[r].u].ver]
            /\ Stays
       ELSE Refuse(r)

(* Taken by another account, linked already, or free.                       *)
LinkFullExisting(r) ==
    /\ At(r, "full.existing") /\ Reads
    /\ CASE link[req[r].s] = Nobody   -> Goto(r, "full.create") /\ Stays
         [] link[req[r].s] = req[r].u ->
              issueToken(r, req[r].u, req[r].ver, req[r].s)
         [] OTHER                     -> Refuse(r)

\* Mutant: an upsert of the provider row.
LinkFullUpsert(r) ==
    /\ At(r, "full.create") /\ Exists(req[r].u)
    /\ link' = [link EXCEPT ![req[r].s] = req[r].u]
    /\ issueToken(r, req[r].u, req[r].ver, req[r].s)
    /\ UNCHANGED <<row, minVer, away, flows, served>>

LinkFullCreate(r) ==
    /\ At(r, "full.create")
    /\ CASE link[req[r].s] # Nobody -> Goto(r, "full.owner") /\ Stays /\ UNCHANGED link
         [] link[req[r].s] = Nobody /\ ~Exists(req[r].u) -> Refuse(r) /\ UNCHANGED link
         [] OTHER -> /\ link' = [link EXCEPT ![req[r].s] = req[r].u]
                     /\ issueToken(r, req[r].u, req[r].ver, req[r].s)
    /\ UNCHANGED <<row, minVer, away, flows, served>>

\* Mutant: a collision is taken for the account's own earlier link.
LinkFullOwnerAssumed(r) ==
    /\ At(r, "full.owner") /\ Reads
    /\ issueToken(r, req[r].u, req[r].ver, req[r].s)

(* The insert collided: whose is it now?                                    *)
LinkFullOwner(r) ==
    /\ At(r, "full.owner") /\ Reads
    /\ IF link[req[r].s] = req[r].u
       THEN issueToken(r, req[r].u, req[r].ver, req[r].s)
       ELSE Refuse(r)

-----------------------------------------------------------------------------
(* linkGoogleToGuest: the guest row takes the identity's name and address.  *)

LinkGuestRead(r) ==
    /\ At(r, "link-guest") /\ Reads
    /\ IF Exists(req[r].u) /\ row[req[r].u].guest
       THEN Goto(r, "guest.existing") /\ Stays
       ELSE Refuse(r)

LinkGuestExisting(r) ==
    /\ At(r, "guest.existing") /\ Reads
    /\ IF link[req[r].s] \in {Nobody, req[r].u}
       THEN Goto(r, "guest.address") /\ Stays
       ELSE Refuse(r)

LinkGuestAddress(r) ==
    /\ At(r, "guest.address") /\ Reads
    /\ IF EmailTaken(EmailOf[req[r].s], req[r].u) THEN Refuse(r)
       ELSE Goto(r, "guest.write") /\ Stays

\* Mutant: the row is rewritten and the provider row is not created.
LinkGuestWriteNoLink(r) ==
    LET u == req[r].u  s == req[r].s  IN
    /\ At(r, "guest.write") /\ StillGuest(u)
    /\ ~EmailTaken(EmailOf[s], u)
    /\ \E n \in Names :
         /\ ~NameTaken(n, u)
         /\ row' = [row EXCEPT ![u] = [@ EXCEPT
                      !.name = n, !.email = EmailOf[s], !.guest = FALSE]]
    /\ issueToken(r, u, row[u].ver, NoPassword)
    /\ UNCHANGED <<link, minVer, away, flows, served>>

Promoted(account, n, e) == [account EXCEPT !.name = n, !.email = e, !.guest = FALSE]

(* One attempt.  The row and its provider row are written together.         *)
LinkGuestWrite(r) ==
    LET u == req[r].u  s == req[r].s  IN
    /\ At(r, "guest.write")
    /\ \E n \in Names :
         CASE ~StillGuest(u) -> Refuse(r) /\ UNCHANGED <<row, link>>
           [] StillGuest(u) /\ NameTaken(n, u) ->
                Retry(r) /\ UNCHANGED <<row, link>>
           [] StillGuest(u) /\ ~NameTaken(n, u)
                /\ (EmailTaken(EmailOf[s], u) \/ link[s] # Nobody) ->
                Refuse(r) /\ UNCHANGED <<row, link>>
           [] OTHER ->
                /\ row' = [row EXCEPT ![u] = Promoted(@, n, EmailOf[s])]
                /\ link' = [link EXCEPT ![s] = u]
                /\ issueToken(r, u, row[u].ver, s)
    /\ UNCHANGED <<minVer, away, flows, served>>

-----------------------------------------------------------------------------
(* signInWithGoogle: by subject, never by address.                          *)

LinkedSession(r) ==
    issueToken(r, link[req[r].s], row[link[req[r].s]].ver, req[r].s)

findLinkedUser(r) ==
    /\ At(r, "sign-in") /\ Reads
    /\ IF link[req[r].s] # Nobody THEN LinkedSession(r)
       ELSE Goto(r, "google.email") /\ Stays

SignInEmailOwner(r) ==
    /\ At(r, "google.email") /\ Reads
    /\ IF EmailTaken(EmailOf[req[r].s], Nobody) THEN Refuse(r)
       ELSE Goto(r, "google.create") /\ Stays

(* One attempt.  The user row goes in before its provider row, so a         *)
(* collision on the address is met before one on the subject.               *)
createGoogleUser(r) ==
    LET s == req[r].s IN
    /\ At(r, "google.create")
    /\ \E n \in Names :
         CASE NameTaken(n, Nobody) -> Retry(r) /\ UNCHANGED <<row, link>>
           [] ~NameTaken(n, Nobody) /\ EmailTaken(EmailOf[s], Nobody) ->
                Refuse(r) /\ UNCHANGED <<row, link>>
           [] ~NameTaken(n, Nobody) /\ ~EmailTaken(EmailOf[s], Nobody)
                /\ link[s] # Nobody ->
                Goto(r, "google.winner") /\ Stays /\ UNCHANGED <<row, link>>
           [] OTHER ->
                \E u \in Users \ Live :
                  /\ row' = [row EXCEPT ![u] =
                       [name |-> n, email |-> EmailOf[s], pass |-> NoPassword,
                        guest |-> FALSE, ver |-> 0]]
                  /\ link' = [link EXCEPT ![s] = u]
                  /\ issueToken(r, u, 0, s)
    /\ UNCHANGED <<minVer, away, flows, served>>

SignInWinner(r) ==
    /\ At(r, "google.winner") /\ Reads
    /\ IF link[req[r].s] # Nobody THEN LinkedSession(r) ELSE Refuse(r)

-----------------------------------------------------------------------------
(* Setting a password ends every other session.                             *)

(* The bearer token is the session's, or the elevated one.                  *)
setPassword(r, b, current) ==
    \/ BeginAs(r, b, "set", sess[b], current, FALSE)
    \/ BeginAs(r, b, "set", elev[b], current, TRUE)

SetMethod(r) ==
    /\ At(r, "set") /\ Reads
    /\ CASE Method(req[r].u) = "password" -> Goto(r, "set.verify") /\ Stays
         [] Method(req[r].u) = "google" /\ req[r].elevated ->
              Goto(r, "set.write") /\ Stays
         [] OTHER -> Refuse(r)

SetVerify(r) ==
    /\ At(r, "set.verify") /\ Reads
    /\ IF PasswordMatches(r) THEN Goto(r, "set.write") /\ Stays ELSE Refuse(r)

\* Mutant: the version is not bumped with the password.
SetWriteNoBump(r, w) ==
    /\ At(r, "set.write") /\ Exists(req[r].u)
    /\ row' = [row EXCEPT ![req[r].u].pass = w]
    /\ req' = [req EXCEPT ![r].pc = "set.note", ![r].pass = w]
    /\ Stays
    /\ UNCHANGED <<link, minVer, away, flows, served>>

(* Password and version in one update.                                      *)
SetWrite(r, w) ==
    LET u == req[r].u IN
    /\ At(r, "set.write")
    /\ IF Exists(u)
       THEN /\ row[u].ver < MaxVersion
            /\ row' = [row EXCEPT ![u].pass = w, ![u].ver = @ + 1]
            /\ req' = [req EXCEPT ![r].pc = "set.note", ![r].pass = w,
                                  ![r].ver = row[u].ver + 1]
            /\ Stays
       ELSE Refuse(r) /\ UNCHANGED row
    /\ UNCHANGED <<link, minVer, away, flows, served>>

(* noteVersionBumped: the instance refuses the older versions from now on.  *)
SetNote(r) ==
    LET u == req[r].u IN
    /\ At(r, "set.note")
    /\ minVer' = [minVer EXCEPT ![u] = IF @ >= req[r].ver THEN @ ELSE req[r].ver]
    /\ issueToken(r, u, req[r].ver, req[r].pass)
    /\ UNCHANGED <<row, link, away, flows, served>>

-----------------------------------------------------------------------------
Ask(r, b) ==
    \/ \E n \in Names, e \in Emails, w \in Passwords :
         register(r, b, n, e, w) \/ claim(r, b, n, e, w)
    \/ \E n \in Names, w \in Passwords : login(r, b, n, w)
    \/ guest(r, b)
    \/ \E w \in Passwords : linkStart(r, b, w) \/ setPassword(r, b, w)
    \/ reauthStart(r, b)
    \/ \E sid \in 1..MaxFlows : callback(r, b, sid)

Password(r) ==
    \/ RegisterLookup(r) \/ RegisterCreate(r) \/ LoginRead(r) \/ LoginAnswer(r)
    \/ createGuest(r) \/ ClaimRead(r) \/ ClaimTaken(r) \/ ClaimWrite(r)
    \/ SetMethod(r) \/ SetVerify(r) \/ SetNote(r)
    \/ \E w \in Passwords : SetWrite(r, w)

Google(r) ==
    \/ LinkHasGoogle(r) \/ LinkMethod(r) \/ LinkVerify(r) \/ ReauthMethod(r)
    \/ Exchange(r) \/ googleSubjectOwner(r) \/ mintElevatedToken(r)
    \/ LinkFullRead(r) \/ LinkFullExisting(r) \/ LinkFullCreate(r)
    \/ LinkFullOwner(r) \/ LinkGuestRead(r) \/ LinkGuestExisting(r)
    \/ LinkGuestAddress(r) \/ LinkGuestWrite(r) \/ findLinkedUser(r)
    \/ SignInEmailOwner(r) \/ createGoogleUser(r) \/ SignInWinner(r)

Next ==
    \/ \E r \in Requests : (\E b \in Browsers : Ask(r, b)) \/ Password(r) \/ Google(r)
    \/ \E b \in Browsers : googleStart(b) \/ FlowExpires(b)
    \/ sweep

Spec == Init /\ [][Next]_vars

-----------------------------------------------------------------------------
(* Every full account can be signed in to again: the claim of a guest       *)
(* (claimGuestAccount, linkGoogleToGuest) never gives up the guest session's *)
(* sole standing without a password or a Google identity in its place.      *)
DoorForEveryAccount ==
    \A u \in Live :
        ~row[u].guest => row[u].pass # NoPassword \/ Linked(u)

(* A token granted at the end of a Google round trip, session or elevated,  *)
(* is for the account that owns the Google subject, whoever won the races   *)
(* between sign-ins and links that signInWithGoogle, linkGoogleToFull and   *)
(* linkGoogleToGuest allow for.                                             *)
GoogleTokenIsOwners ==
    \A t \in {sess[b] : b \in Browsers} \cup {elev[b] : b \in Browsers} :
        t # NoToken /\ t.by \in Subjects => link[t.by] = t.sub

(* No session that the version check still admits was opened with a         *)
(* password that setPassword has replaced since: not even by a login that   *)
(* had compared the old one and answered after the change.                  *)
OldPasswordOpensNothing ==
    \A b \in Browsers :
        LET t == sess[b] IN
        t # NoToken /\ t.by \in Passwords /\ Exists(t.sub)
            /\ t.ver >= row[t.sub].ver
          => row[t.sub].pass = t.by

(* Once an account is full, no request and no sweep renames it, changes its *)
(* address, makes it a guest or deletes it: of several claims of one guest, *)
(* by password and by Google, the first alone writes (where isGuest: true). *)
FullAccountKept ==
    [][\A u \in Live : ~row[u].guest =>
         /\ row'[u] # NoRow
         /\ [row'[u] EXCEPT !.pass = row[u].pass, !.ver = row[u].ver] = row[u]]_vars

(* A Google identity never moves to another account and never loses its     *)
(* own: the provider row outlives every link, claim and sweep.              *)
IdentityStays == [][\A s \in Subjects : link[s] # Nobody => link'[s] = link[s]]_vars

(* Sign-in, whatever interleaves: a way in for every account, the owner's   *)
(* token and nobody else's, and none on a password that is gone             *)
(* (AuthService).                                                           *)
AccountsSound ==
    /\ TypeOK
    /\ DoorForEveryAccount
    /\ GoogleTokenIsOwners
    /\ OldPasswordOpensNothing

(* What belongs to somebody stays theirs: no step takes a full account or a *)
(* Google identity from its owner (the where clauses and unique indices     *)
(* AuthService relies on).                                                  *)
AccountsKept ==
    /\ FullAccountKept
    /\ IdentityStays

=============================================================================
