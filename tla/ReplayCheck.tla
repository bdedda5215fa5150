---------------------------- MODULE ReplayCheck ----------------------------
(***************************************************************************)
(* The harness's replay-check: one pass over one room's log while the room *)
(* is in use.  Every read is a command of its own, so commits, releases    *)
(* and expiries land between them; a changed version sends the pass back   *)
(* to read the pair again, three times at most.                            *)
(***************************************************************************)
EXTENDS MemoryStore

CONSTANTS
    Audits,     \* which of {FALSE, TRUE}: whether the room is audited
    AuditSeq    \* bound: commits per epoch of an audited room

ASSUME AuditsAssumption == Audits \subseteq BOOLEAN

VARIABLES
    auditing,   \* this behaviour has an audit (and no store beside it)
    audit       \* the pass: where it is, what it has read, its verdict

Attempts == 3

auditVars == <<auditing, audit>>

Pass(at, verdict) ==
    [at |-> at, scanned |-> NoTimeline, newest |-> NoTimeline, before |-> NoTimeline, attempt |-> 0,
     verdict |-> verdict, changed |-> FALSE, broken |-> FALSE]

AuditInit ==
    /\ Init /\ MemEmpty
    /\ auditing \in Audits
    /\ parted = auditing
    /\ audit = Pass("scan", "none")

Says(verdict) == audit' = [Pass("done", verdict) EXCEPT !.broken = audit.broken]

Read(at) == auditing /\ audit.at = at /\ UNCHANGED <<vars, memVars, auditing>>

(* XRANGE of the whole log, and checkChain of it; a room without one is     *)
(* passed over.                                                             *)
ReadLog ==
    /\ Read("scan") /\ log # <<>>
    /\ audit' = [audit EXCEPT !.at = "before", !.scanned = log[Len(log)],
                              !.broken = ~checkChain(log)]

(* HGETALL; without a timeline there is nothing to reconcile.               *)
ReadBefore ==
    /\ Read("before")
    /\ IF tl = NoTimeline THEN Says("nothing")
       ELSE audit' = [audit EXCEPT !.at = "tail", !.before = tl, !.changed = FALSE]

(* XREVRANGE ... COUNT 1; a log that is gone is remembered from the scan.   *)
ReadTail ==
    /\ Read("tail")
    /\ audit' = [audit EXCEPT !.at = "after",
                              !.newest = IF log = <<>> THEN audit.scanned
                                           ELSE log[Len(log)]]

(* Seeded fault: the version read before the log is trusted.                *)
StableAlways == tl # NoTimeline

Stable ==
    /\ tl # NoTimeline
    /\ tl.storeEpoch = audit.before.storeEpoch
    /\ tl.seq = audit.before.seq

(* HGETALL again.  (That an attempt is given up without a change is not a   *)
(* verdict of the code's: it is what NoFalseAlarm looks for.)               *)
ReadAfter ==
    /\ Read("after")
    /\ IF Stable
       THEN Says(IF entryMatchesLive(audit.newest, tl) THEN "match" ELSE "drift")
       ELSE IF ~audit.changed THEN Says("restless")
       ELSE IF audit.attempt + 1 = Attempts THEN Says("unstable")
       ELSE audit' = [Pass("before", "none") EXCEPT !.scanned = audit.scanned,
                                                    !.broken = audit.broken,
                                                    !.attempt = audit.attempt + 1]

(* The room meanwhile, with one command at most.                            *)
RoomGoesOn ==
    /\ auditing /\ audit.at # "done"
    /\ Next
    /\ tl' # NoTimeline => tl'.seq <= AuditSeq
    /\ \A c, d \in Cmds : issued'[c] # NotIssued /\ issued'[d] # NotIssued => c = d
    /\ audit' = [audit EXCEPT !.changed = @ \/ (audit.at \in {"tail", "after"} /\ tl' # tl)]
    /\ UNCHANGED <<memVars, auditing>>

AuditNext ==
    \/ ~auditing /\ MemNext /\ UNCHANGED auditVars
    \/ ReadLog \/ ReadBefore \/ ReadTail \/ ReadAfter
    \/ RoomGoesOn

AuditSpec == AuditInit /\ [][AuditNext]_<<vars, memVars, auditVars>>

-----------------------------------------------------------------------------
(* The gate raises no false alarm: of a store whose log is right, whatever  *)
(* is committed, released, lost or expires between two of its reads, it     *)
(* reports neither a broken chain nor drift, and it reads a pair again, and *)
(* in the end calls the room unstable, only if the timeline did change      *)
(* (replay-check.ts, main).                                                 *)
NoFalseAlarm ==
    ~audit.broken /\ audit.verdict \in {"none", "match", "nothing", "unstable"}

-----------------------------------------------------------------------------
(* The inductive strengthening the proofs rest on.                          *)

AuditTypeOK ==
    /\ auditing \in BOOLEAN
    /\ audit \in [at : {"scan", "before", "tail", "after", "done"},
                  scanned : LogEntry \cup {NoTimeline},
                  newest : LogEntry \cup {NoTimeline},
                  before : Timeline \cup {NoTimeline},
                  attempt : 0..Attempts-1,
                  verdict : {"none", "match", "nothing", "unstable", "drift", "restless"},
                  changed : BOOLEAN, broken : BOOLEAN]

(* A behaviour is about the pass or about the two stores.                   *)
AuditedOrCompared == IF auditing THEN parted ELSE audit.at = "scan"

(* Between two reads of the timeline, what was read first is the last       *)
(* commit or older, and still live if nothing was noted to change.          *)
BeforeIsPast ==
    audit.at \in {"tail", "after"} =>
        /\ audit.before # NoTimeline /\ latest # NoTimeline
        /\ latest = audit.before \/ isNewer(latest, audit.before)
        /\ ~audit.changed => tl = audit.before

(* If what was read first is live still, the entry read since is its own.   *)
NewestMatches ==
    audit.at = "after" /\ tl = audit.before => entryMatchesLive(audit.newest, tl)

AuditIInv ==
    /\ IInv
    /\ MemIInv
    /\ AuditTypeOK
    /\ AuditedOrCompared
    /\ BeforeIsPast
    /\ NewestMatches
    /\ NoFalseAlarm

=============================================================================
