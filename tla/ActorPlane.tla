---------------------------- MODULE ActorPlane ----------------------------
(***************************************************************************)
(* Plane B for one room: the instance that holds the room's lease keeps    *)
(* the timeline in memory, serializes controls and sweeps on its queue and *)
(* commits under its fence, the lease's epoch; the other instances forward *)
(* controls to it.  Leases expire, instances pause, crash and come back.   *)
(*                                                                         *)
(* A Redis call and the continuation that handles its reply are one step:  *)
(* replies on the one KV connection arrive in order, and what a            *)
(* continuation writes is private to its instance.  A paused instance is   *)
(* one that takes no step.  Positions and stamps are left out.             *)
(***************************************************************************)
EXTENDS TimelineCore, FiniteSets

CONSTANTS
    Instances,
    Cmds,
    CmdOf,      \* [Cmds -> the control sent under the id, and where it lands]
    RowVideo,   \* the videoUrl of the database row
    NoLease, NotOwner, NoCmd,
    Sweep, Join,
    MaxEpochs,  \* bound: leases minted
    Scopes      \* bounds: snapshots committed, forwards published twice,
                \* crashes, Redis calls that reject after their retries,
                \* leases minted, and whether a day passes without a commit

ASSUME CmdOfAssumption ==
    CmdOf \in [Cmds -> [inst : Instances, intent : Intents, videoId : Videos,
                        forVideoId : Videos \cup {Unfenced}]]
ASSUME ActorConstantsAssumption ==
    /\ RowVideo \in Videos
    /\ NoCmd \notin Cmds /\ Sweep \notin Cmds /\ Join \notin Cmds
    /\ MaxEpochs \in Nat
    /\ Scopes \subseteq [epochs : 0..MaxEpochs, sweeps : Nat, resends : Nat,
                         crashes : Nat, failures : Nat, keyExpires : BOOLEAN]

VARIABLES
    lease,     \* the lease key: owner and epoch
    tl,        \* the timeline key
    recorded,  \* ids with a dedup record
    owned,     \* [Instances -> the in-memory authority: fence and timeline]
    op,        \* [Instances -> the operation its queue is running]
    sweeping,  \* [Instances -> the authority its running sweep has read]
    inbox,     \* [Instances -> controls waiting in its queue]
    unsent,    \* commands no client has sent yet
    joining,   \* [Instances -> a join's init in progress]
    present,   \* instances with a socket in the room
    meta,      \* instances with the room's metadata
    handed,    \* [Instances -> what its last joiner was handed]
    up,        \* instances alive and subscribed to their forward channel
    epochs, sweeps, resends, crashes, failures,  \* counters of the bounds
    latest,    \* history: the last timeline ever committed
    applied,   \* history: [Cmds -> commits]
    lost,      \* history: some commit was computed from a stale timeline
    scope      \* the bounds of this behaviour

redisVars == <<lease, tl, recorded, epochs>>
roomVars == <<present, meta>>
histVars == <<latest, applied, lost>>
counters == <<sweeps, resends, crashes, failures>>
vars == <<lease, tl, recorded, owned, op, sweeping, inbox, unsent, joining, present,
          handed, up, epochs, sweeps, resends, crashes, failures, latest, applied, lost,
          meta, scope>>

Version ==
    [seq : Nat, storeEpoch : Nat, videoId : Videos, isPlaying : BOOLEAN,
     origin : Cmds \cup {Sweep, Join}]

ASSUME NoVersionAssumption == NoTimeline \notin Version

MaybeVersion == Version \cup {NoTimeline}
Lease == [owner : Instances, epoch : Nat]
Authority == [fence : Nat, timeline : Version]

ASSUME NobodyAssumption == NoLease \notin Lease /\ NotOwner \notin Authority

Operation ==
    [pc : {"idle", "claim", "publish", "revoke", "retake", "read", "commit",
           "fencedout"},
     cmd : Cmds \cup {NoCmd}, lease : Lease \cup {NoLease},
     base : MaybeVersion, last : BOOLEAN]

TypeOK ==
    /\ lease \in Lease \cup {NoLease}
    /\ tl \in MaybeVersion
    /\ recorded \subseteq Cmds
    /\ owned \in [Instances -> Authority \cup {NotOwner}]
    /\ op \in [Instances -> Operation]
    /\ sweeping \in [Instances -> Authority \cup {NotOwner}]
    /\ unsent \subseteq Cmds
    /\ inbox \in [Instances -> SUBSET Cmds]
    /\ joining \in [Instances -> {"no", "claim", "create", "after", "fallback"}
                                 \X Nat]
    /\ present \subseteq Instances
    /\ meta \subseteq Instances
    /\ handed \in [Instances -> {"none", "committed", "fallback"}]
    /\ up \subseteq Instances
    /\ epochs \in 0..MaxEpochs
    /\ latest \in MaybeVersion
    /\ applied \in [Cmds -> Nat]
    /\ lost \in BOOLEAN

Quiet == [pc |-> "idle", cmd |-> NoCmd, lease |-> NoLease, base |-> NoTimeline,
          last |-> FALSE]
NotJoining == <<"no", 0>>

Init ==
    /\ scope \in Scopes
    /\ lease = NoLease
    /\ tl = NoTimeline
    /\ recorded = {}
    /\ owned = [i \in Instances |-> NotOwner]
    /\ op = [i \in Instances |-> Quiet]
    /\ sweeping = [i \in Instances |-> NotOwner]
    /\ inbox = [i \in Instances |-> {}]
    /\ unsent = Cmds
    /\ joining = [i \in Instances |-> NotJoining]
    /\ present = {}
    /\ meta = {}
    /\ handed = [i \in Instances |-> "none"]
    /\ up = Instances
    /\ epochs = 0 /\ sweeps = 0 /\ resends = 0 /\ crashes = 0 /\ failures = 0
    /\ latest = NoTimeline
    /\ applied = [c \in Cmds |-> 0]
    /\ lost = FALSE

-----------------------------------------------------------------------------
(* actor_claim.lua: take a free lease under a fresh epoch, renew one's own  *)
(* under its epoch, or learn who has it.                                    *)
Claim(i) ==
    IF lease = NoLease
    THEN /\ epochs < scope.epochs
         /\ epochs' = epochs + 1
         /\ lease' = [owner |-> i, epoch |-> epochs + 1]
    ELSE UNCHANGED <<lease, epochs>>

Mine(i, l) == l.owner = i

(* get: the in-memory authority if there is one, the key otherwise.         *)
Get(i) == IF owned[i] = NotOwner THEN tl ELSE owned[i].timeline

(* The one overlap left out: a join on the same instance has taken the      *)
(* authority while a control is still on its way to claim it.  The control  *)
(* has its answer (two retries, no offline queue) long before the ten       *)
(* seconds of a lease are over or the room is emptied.                      *)
Claiming == {"claim", "publish", "revoke", "retake", "fencedout"}
Overtaken(i) == owned[i] # NotOwner /\ op[i].pc \in Claiming
OvertakenByJoin == \E i \in Instances : Overtaken(i)

(* The lease expires at any time: its owner paused, or lost its renewals.   *)
Expire ==
    /\ lease # NoLease
    /\ ~OvertakenByJoin
    /\ lease' = NoLease
    /\ UNCHANGED <<sweeping, unsent, tl, recorded, epochs, owned, op, inbox, joining, roomVars,
                   handed, up, counters, histVars>>

(* A paused timeline nobody has committed to for a day is gone: nothing is  *)
(* under way then.  The sweep renews a playing one.                         *)
ExpireTimeline ==
    /\ scope.keyExpires
    /\ tl # NoTimeline
    /\ ~tl.isPlaying
    /\ \A i \in Instances :
          /\ op[i] = Quiet /\ sweeping[i] = NotOwner
          /\ inbox[i] = {} /\ joining[i] = NotJoining
    /\ tl' = NoTimeline
    /\ UNCHANGED <<sweeping, unsent, lease, recorded, epochs, owned, op, inbox, joining, roomVars,
                   handed, up, counters, histVars>>

(* renewAll: a lost lease drops the authority; the fence it is held under   *)
(* is not compared.                                                         *)
Renew(i) ==
    /\ i \in up
    /\ owned[i] # NotOwner
    /\ Claim(i)
    /\ owned' = IF Mine(i, lease') THEN owned
                                   ELSE [owned EXCEPT ![i] = NotOwner]
    /\ UNCHANGED <<sweeping, unsent, tl, recorded, op, inbox, joining, roomVars, handed, up,
                   counters, histVars>>

-----------------------------------------------------------------------------
(* init, called by a join; not on the queue.                                *)

Joined(i, what) ==
    /\ joining' = [joining EXCEPT ![i] = NotJoining]
    /\ handed' = [handed EXCEPT ![i] = what]

JoinGet(i) ==
    /\ i \in up
    /\ joining[i] = NotJoining
    /\ handed[i] = "none"
    /\ present' = present \cup {i}
    /\ meta' = meta \cup {i}
    /\ IF Get(i) # NoTimeline
       THEN Joined(i, "committed")
       ELSE /\ joining' = [joining EXCEPT ![i] = <<"claim", 0>>]
            /\ UNCHANGED handed
    /\ UNCHANGED <<sweeping, unsent, redisVars, owned, op, inbox, up, counters, histVars>>

JoinClaim(i) ==
    /\ i \in up
    /\ joining[i][1] = "claim"
    /\ Claim(i)
    /\ joining' = [joining EXCEPT ![i] =
                      IF Mine(i, lease') THEN <<"create", lease'.epoch>>
                                         ELSE <<"after", 0>>]
    /\ UNCHANGED <<sweeping, unsent, tl, recorded, owned, op, inbox, roomVars, handed, up,
                   counters, histVars>>

Birth(e) == [seq |-> 0, storeEpoch |-> e, videoId |-> RowVideo,
             isPlaying |-> FALSE, origin |-> Join]

(* actor_init.lua: create if absent, under the fence.                       *)
JoinCreate(i) ==
    LET e == joining[i][2] IN
    /\ i \in up
    /\ joining[i][1] = "create"
    /\ IF lease = [owner |-> i, epoch |-> e]
       THEN /\ tl' = IF tl = NoTimeline THEN Birth(e) ELSE tl
            /\ latest' = IF tl = NoTimeline THEN tl' ELSE latest
            /\ owned' = [owned EXCEPT ![i] = [fence |-> e, timeline |-> tl']]
            /\ Joined(i, "committed")
       ELSE /\ joining' = [joining EXCEPT ![i] = <<"fallback", 0>>]
            /\ UNCHANGED <<tl, latest, owned, handed>>
    /\ UNCHANGED <<sweeping, unsent, lease, recorded, epochs, op, inbox, roomVars, up, counters,
                   applied, lost>>

(* Somebody else's lease, or ours was lost: read again, and hand out a      *)
(* timeline nobody has committed when there is still none.                  *)
JoinReadAgain(i) ==
    /\ i \in up
    /\ joining[i][1] \in {"after", "fallback"}
    /\ IF Get(i) # NoTimeline THEN Joined(i, "committed")
       ELSE IF joining[i][1] = "after"
       THEN joining' = [joining EXCEPT ![i] = <<"fallback", 0>>] /\ UNCHANGED handed
       ELSE Joined(i, "fallback")
    /\ UNCHANGED <<sweeping, unsent, redisVars, owned, op, inbox, roomVars, up, counters, histVars>>

(* The last socket of an instance leaves; the last of all releases the      *)
(* room: clear drops the leaver's authority and deletes both keys.          *)
Leave(i) ==
    /\ i \in up \cap present
    /\ joining[i] = NotJoining
    /\ present' = present \ {i}
    /\ present' = {} => ~OvertakenByJoin
    /\ handed' = [handed EXCEPT ![i] = "none"]
    /\ IF present' = {}
       THEN /\ owned' = [owned EXCEPT ![i] = NotOwner]
            /\ tl' = NoTimeline
            /\ lease' = NoLease
            /\ meta' = meta \ {i}
       ELSE UNCHANGED <<owned, tl, lease, meta>>
    /\ UNCHANGED <<sweeping, unsent, recorded, epochs, op, inbox, joining, up, counters, histVars>>

-----------------------------------------------------------------------------
(* applyControl, one at a time per instance.                                *)

Goto(i, pc) == op' = [op EXCEPT ![i].pc = pc]

End(i) == op' = [op EXCEPT ![i] = Quiet]

(* A member's control passes the gateway and waits for its turn.            *)
Send(c) ==
    LET i == CmdOf[c].inst IN
    /\ c \in unsent
    /\ i \in up
    /\ handed[i] # "none"
    /\ unsent' = unsent \ {c}
    /\ inbox' = [inbox EXCEPT ![i] = @ \cup {c}]
    /\ UNCHANGED <<redisVars, owned, op, sweeping, joining, roomVars, handed, up,
                   counters, histVars>>

(* Seeded fault: nothing waits for its turn.                                *)
QueueFreeAlways(i) == TRUE

(* enqueue: one read-project-commit operation at a time.                    *)
QueueFree(i) == op[i] = Quiet /\ sweeping[i] = NotOwner

StartControl(i, c) ==
    /\ i \in up
    /\ op[i] = Quiet
    /\ QueueFree(i)
    /\ c \in inbox[i]
    /\ inbox' = [inbox EXCEPT ![i] = @ \ {c}]
    /\ op' = [op EXCEPT ![i] =
                 IF owned[i] = NotOwner
                 THEN [Quiet EXCEPT !.pc = "claim", !.cmd = c]
                 ELSE [Quiet EXCEPT !.pc = "commit", !.cmd = c,
                          !.lease = [owner |-> i, epoch |-> owned[i].fence],
                          !.base = owned[i].timeline]]
    /\ UNCHANGED <<sweeping, unsent, redisVars, owned, joining, roomVars, handed, up, counters,
                   histVars>>

(* The first claim, the one after revoking a dead owner's lease (retake),   *)
(* and the one after having been fenced out.                                *)
ControlClaim(i) ==
    LET pc == op[i].pc IN
    /\ i \in up
    /\ pc \in {"claim", "retake", "fencedout"}
    /\ Claim(i)
    /\ op' = [op EXCEPT
                 ![i].lease = lease',
                 ![i].pc = IF Mine(i, lease') THEN "read" ELSE "publish",
                 ![i].last = \/ pc = "fencedout"
                             \/ pc = "retake" /\ ~Mine(i, lease')]
    /\ UNCHANGED <<sweeping, unsent, tl, recorded, owned, inbox, joining, roomVars, handed, up,
                   counters, histVars>>

(* PUBLISH to the owner: nobody subscribed means it is dead.  A lost reply  *)
(* has the forward published again.  The owner's forward handler refuses a  *)
(* room it has no metadata of, and tells nobody.                            *)
Publish(i) ==
    LET owner == op[i].lease.owner IN
    /\ i \in up
    /\ op[i].pc = "publish"
    /\ IF owner \in up
       THEN /\ inbox' = IF owner \in meta
                         THEN [inbox EXCEPT ![owner] = @ \cup {op[i].cmd}]
                         ELSE inbox
            /\ \/ End(i) /\ UNCHANGED resends
               \/ /\ resends < scope.resends
                  /\ resends' = resends + 1
                  /\ UNCHANGED op
       ELSE /\ IF op[i].last THEN End(i) ELSE Goto(i, "revoke")
            /\ UNCHANGED <<inbox, resends>>
    /\ UNCHANGED <<sweeping, unsent, redisVars, owned, joining, roomVars, handed, up, sweeps,
                   crashes, failures, latest, applied, lost>>

(* actor_reclaim.lua: compare and delete.                                   *)
Revoke(i) ==
    /\ i \in up
    /\ op[i].pc = "revoke"
    /\ lease' = IF lease = op[i].lease THEN NoLease ELSE lease
    /\ Goto(i, "retake")
    /\ UNCHANGED <<sweeping, unsent, tl, recorded, epochs, owned, inbox, joining, roomVars, handed,
                   up, counters, histVars>>

(* Seeded fault: a room without state is not noticed.                       *)
ReadStateBlindly(i) ==
    /\ i \in up
    /\ op[i].pc = "read"
    /\ owned' = [owned EXCEPT ![i] = [fence |-> op[i].lease.epoch,
                                      timeline |-> Get(i)]]
    /\ op' = [op EXCEPT ![i].pc = "commit", ![i].base = Get(i)]
    /\ UNCHANGED <<redisVars, sweeping, inbox, unsent, joining, roomVars, handed,
                   up, counters, histVars>>

(* The claimed room's state becomes the in-memory authority.                *)
ReadState(i) ==
    LET current == Get(i) IN
    /\ i \in up
    /\ op[i].pc = "read"
    /\ IF current = NoTimeline
       THEN End(i) /\ UNCHANGED owned
       ELSE /\ owned' = [owned EXCEPT ![i] = [fence |-> op[i].lease.epoch,
                                              timeline |-> current]]
            /\ op' = [op EXCEPT ![i].pc = "commit", ![i].base = current]
    /\ UNCHANGED <<sweeping, unsent, redisVars, inbox, joining, roomVars, handed, up, counters,
                   histVars>>

Controlled(base, c) ==
    LET intent == CmdOf[c].intent IN
    [base EXCEPT
        !.isPlaying = intent = "play" \/ (intent = "seek" /\ @),
        !.videoId = IF intent = "set-video" THEN CmdOf[c].videoId ELSE @,
        !.origin = c]

(* Seeded fault: the lease is not checked by the script.                    *)
HoldsLeaseUnchecked(i, e) == lease # NoLease

(* The script's guard: still the owner, under the fence it believes in.     *)
HoldsLease(i, e) == lease = [owner |-> i, epoch |-> e]

(* seq goes on inside an epoch and restarts when the fence advances.        *)
Stamped(t, e) ==
    [t EXCEPT !.storeEpoch = e,
              !.seq = IF tl # NoTimeline /\ tl.storeEpoch = e THEN tl.seq + 1
                                                              ELSE 1]

(* Seeded fault: a handoff forgets the dedup records.                       *)
RecordedThisEpoch(i, c) == c \in recorded /\ tl.storeEpoch = op[i].lease.epoch

(* The record is keyed by command only, whatever the fence.                 *)
Recorded(i, c) == c \in recorded

(* What a commit's answer does to the in-memory authority.                  *)
Refreshed(i, t) ==
    [owned EXCEPT ![i] = IF @ = NotOwner THEN @ ELSE [@ EXCEPT !.timeline = t]]

(* Seeded fault: the owner's memory is not refreshed.                       *)
AcceptForgets(i, t, e, base, answered) ==
    /\ tl' = Stamped(t, e)
    /\ latest' = tl'
    /\ owned' = owned
    /\ lost' = (lost \/ (tl # NoTimeline /\ base # tl))

(* actor_commit.lua accepts: the key, the owner's memory, the history.      *)
Accept(i, t, e, base, answered) ==
    /\ tl' = Stamped(t, e)
    /\ latest' = tl'
    /\ owned' = IF answered THEN Refreshed(i, tl') ELSE owned
    /\ lost' = (lost \/ (tl # NoTimeline /\ base # tl))

(* The call returns, or rejects although the script has run: its reply was  *)
(* lost once more than the client retries.                                  *)
Returns(answered) ==
    /\ answered \/ failures < scope.failures
    /\ failures' = IF answered THEN failures ELSE failures + 1

CommitControl(i) ==
    LET c == op[i].cmd
        e == op[i].lease.epoch
        exists == tl # NoTimeline
        dup == exists /\ Recorded(i, c)
        fenced == /\ exists
                  /\ CmdOf[c].forVideoId # Unfenced
                  /\ CmdOf[c].forVideoId # tl.videoId
    IN
    /\ i \in up
    /\ op[i].pc = "commit"
    /\ \/ /\ ~HoldsLease(i, e)
          /\ owned' = [owned EXCEPT ![i] = NotOwner]
          /\ IF op[i].last THEN End(i) ELSE Goto(i, "fencedout")
          /\ UNCHANGED <<tl, recorded, failures, latest, applied, lost>>
       \/ /\ HoldsLease(i, e)
          /\ dup \/ fenced
          /\ owned' = Refreshed(i, tl)
          /\ End(i)
          /\ UNCHANGED <<tl, recorded, failures, latest, applied, lost>>
       \/ \E answered \in BOOLEAN :
          /\ HoldsLease(i, e)
          /\ ~dup /\ ~fenced
          /\ Returns(answered)
          /\ Accept(i, Controlled(op[i].base, c), e, op[i].base, answered)
          /\ recorded' = IF exists THEN recorded \cup {c} ELSE recorded
          /\ applied' = [applied EXCEPT ![c] = @ + 1]
          /\ End(i)
    /\ UNCHANGED <<sweeping, unsent, lease, epochs, inbox, joining, roomVars, handed, up,
                   sweeps, resends, crashes>>

(* A call of the control rejects without having had an effect: the control  *)
(* is over, the queue goes on.                                              *)
ControlRejects(i) ==
    /\ i \in up
    /\ op[i] # Quiet
    /\ failures < scope.failures
    /\ failures' = failures + 1
    /\ End(i)
    /\ UNCHANGED <<redisVars, owned, sweeping, inbox, unsent, joining, roomVars, handed,
                   up, sweeps, resends, crashes, histVars>>

(* applySnapshot, on the same queue: only the owner, only while its memory  *)
(* says the room plays.                                                     *)
StartSnapshot(i) ==
    /\ i \in up
    /\ sweeping[i] = NotOwner
    /\ QueueFree(i)
    /\ owned[i] # NotOwner
    /\ owned[i].timeline.isPlaying
    /\ sweeps < scope.sweeps
    /\ sweeps' = sweeps + 1
    /\ sweeping' = [sweeping EXCEPT ![i] = owned[i]]
    /\ UNCHANGED <<redisVars, owned, op, inbox, unsent, joining, roomVars,
                   handed, up, resends, crashes, failures, histVars>>

CommitSnapshot(i) ==
    LET e == sweeping[i].fence
        base == sweeping[i].timeline
    IN
    /\ i \in up
    /\ sweeping[i] # NotOwner
    /\ sweeping' = [sweeping EXCEPT ![i] = NotOwner]
    /\ IF HoldsLease(i, e)
       THEN \E answered \in BOOLEAN :
               /\ Returns(answered)
               /\ Accept(i, [base EXCEPT !.origin = Sweep], e, base, answered)
       ELSE /\ owned' = [owned EXCEPT ![i] = NotOwner]
            /\ UNCHANGED <<tl, latest, lost, failures>>
    /\ UNCHANGED <<lease, recorded, epochs, op, inbox, unsent, joining, roomVars,
                   handed, up, sweeps, resends, crashes, applied>>

-----------------------------------------------------------------------------
(* A process dies and may come back under the same INSTANCE_ID.             *)
Crash(i) ==
    /\ i \in up
    /\ crashes < scope.crashes
    /\ crashes' = crashes + 1
    /\ up' = up \ {i}
    /\ owned' = [owned EXCEPT ![i] = NotOwner]
    /\ op' = [op EXCEPT ![i] = Quiet]
    /\ sweeping' = [sweeping EXCEPT ![i] = NotOwner]
    /\ inbox' = [inbox EXCEPT ![i] = {}]
    /\ joining' = [joining EXCEPT ![i] = NotJoining]
    /\ present' = present \ {i}
    /\ meta' = meta \ {i}
    /\ handed' = [handed EXCEPT ![i] = "none"]
    /\ UNCHANGED <<redisVars, unsent, sweeps, resends, failures, histVars>>

Restart(i) ==
    /\ i \notin up
    /\ up' = up \cup {i}
    /\ UNCHANGED <<redisVars, owned, op, sweeping, inbox, unsent, joining,
                   roomVars, handed, counters, histVars>>

JoinStep(i) == JoinClaim(i) \/ JoinCreate(i) \/ JoinReadAgain(i)

ControlStep(i) ==
    \/ \E c \in Cmds : StartControl(i, c)
    \/ ControlClaim(i) \/ Publish(i) \/ Revoke(i) \/ ReadState(i)
    \/ CommitControl(i)

Step ==
    \/ \E c \in Cmds : Send(c)
    \/ \E i \in Instances :
          \/ JoinGet(i) \/ JoinStep(i) \/ Leave(i) \/ ControlStep(i)
          \/ StartSnapshot(i) \/ CommitSnapshot(i) \/ Renew(i)
          \/ ControlRejects(i) \/ Crash(i) \/ Restart(i)
    \/ Expire
    \/ ExpireTimeline

Next == Step /\ UNCHANGED scope

Spec == Init /\ [][Next]_vars

-----------------------------------------------------------------------------
(* Whatever happens to leases, owners and the room, a commit is newer, in   *)
(* the clients' order, than everything committed before it: a zombie's      *)
(* write never lands ("(epoch, seq) stays ordered", actor_commit.lua).  The *)
(* exception: a day without a commit, after which the owner's commit finds  *)
(* no key to go on from and counts from 1 again.                            *)
CommitsAdvance ==
    [][latest' # latest =>
         isNewer(latest', latest) \/ (scope.keyExpires /\ tl = NoTimeline)]_vars

(* The instance whose fence is the lease's has the committed timeline in    *)
(* memory, so that get without a round trip is sound.  A call rejected      *)
(* although its script ran breaks this: applyControl refreshes the memory   *)
(* from the answer only.  So does a second crash while a join has overtaken *)
(* a control: two dead owners' leases are revoked before that control gets  *)
(* to claim, and it claims for the memory of the first of them.             *)
OwnerMemoryCurrent ==
    \A i \in Instances :
        (/\ owned[i] # NotOwner
         /\ tl # NoTimeline
         /\ lease = [owner |-> i, epoch |-> owned[i].fence]
         /\ failures = 0 /\ crashes <= 1)
        => owned[i].timeline = tl

(* A command commits at most once although forwards are published twice and *)
(* owners change between two deliveries.  The exception: the first commit   *)
(* after the key expired finds no key and leaves no record of its command   *)
(* (actor_commit.lua), so that a second delivery of it commits again.       *)
AppliedOnce ==
    (scope.keyExpires => resends = 0) => \A c \in Cmds : applied[c] <= 1

(* The owner serializes: no accepted commit was computed from a timeline    *)
(* that was no longer the room's (enqueue), on the conditions under which   *)
(* its memory is current.                                                   *)
NoLostUpdate == failures = 0 /\ crashes <= 1 => ~lost

(* Every accepted command is in the room's timeline once, computed from the *)
(* one before it, through moves of the lease and repeated forwards          *)
(* (applyControl, enqueue, actor_commit.lua).                               *)
UpdatesKept ==
    /\ TypeOK
    /\ OwnerMemoryCurrent
    /\ NoLostUpdate
    /\ AppliedOnce

=============================================================================
