-------------------------- MODULE DirectDownloader --------------------------
(***************************************************************************)
(* A checkpointed direct HTTP transfer (internal/downloader) for a session *)
(* that keeps the boundary it may resume from in its manifest              *)
(* (engine/session_direct.go).  A crash may come between any two durable   *)
(* steps, and the server may change the representation it serves.          *)
(*                                                                         *)
(*   part      the partial file: its bytes, each named by the              *)
(*             representation it came from, and how many are synced        *)
(*   local     the downloader's state file (checkpoint/direct.json)        *)
(*   manifest  the boundary of the session's component                     *)
(*   payload   the finished file, empty while there is none                *)
(*   server    the representation the server has now                       *)
(*   dl        the transfer in progress                                    *)
(*   chunk     the chunk size the job was given                            *)
(*   budget    crashes, failures, cancellations and changes still to come  *)
(*                                                                         *)
(* An error of the local file system ends the run like a crash that loses  *)
(* nothing.  Left out: refreshed URLs, size limits, throttling (a failing  *)
(* read here), the random shortening of a chunk, responses without a       *)
(* length, Last-Modified (one with the ETag), and the legacy state of      *)
(* transfers without a checkpoint.                                         *)
(***************************************************************************)
EXTENDS Integers, Sequences

CONSTANTS
    Representation,   \* what the server may serve under the URL
    Tag,              \* [Representation -> its strong ETag, or "unset"]
    Size,             \* [Representation -> its length]
    Chunks,           \* the HTTPChunkSize of a job, 0 for one open range
    MaxAttempts,      \* job.Attempts
    MaxCrashes, MaxFailures, MaxCancels, MaxChanges,
    PowerLoss         \* whether a crash may also lose content that was not synced

ASSUME TransferAssumption ==
    /\ \A r \in Representation : Size[r] \in Nat \ {0}
    /\ Chunks \subseteq Nat
    /\ MaxAttempts \in Nat \ {0}

ASSUME LimitAssumption ==
    /\ MaxCrashes \in Nat /\ MaxFailures \in Nat
    /\ MaxCancels \in Nat /\ MaxChanges \in Nat
    /\ PowerLoss \in BOOLEAN

VARIABLES part, local, manifest, payload, server, dl, budget, chunk

vars == <<part, local, manifest, payload, server, dl, budget, chunk>>

NoCheckpoint == [etag |-> "unset", total |-> 0, committed |-> 0]

NoPart == [exists |-> FALSE, bytes |-> <<>>, synced |-> 0]

NoLocal == [exists |-> FALSE, checkpoint |-> NoCheckpoint]

(***************************************************************************)
(* dl: boundary is the caller's boundary (none when it commits nothing);   *)
(* state is the in-memory partialState; body is the representation being   *)
(* read, up to limit; after says where a commit returns to; stale says the *)
(* manifest moved since the caller read it.                                *)
(***************************************************************************)
Idle == [pc |-> "down", boundary |-> NoCheckpoint, noContinue |-> FALSE,
         attempt |-> 1, offset |-> 0, state |-> NoCheckpoint, body |-> "unset",
         ranged |-> FALSE, limit |-> 0, written |-> 0, last |-> 0,
         after |-> "read", retried |-> FALSE, stale |-> FALSE]

Bytes == Seq(Representation \cup {"junk"})

Checkpoint ==
    [etag : {Tag[r] : r \in Representation} \cup {"unset"}, total : Nat, committed : Nat]

(* The files, the manifest and the transfer have the shape the code gives    *)
(* them, no record claims more bytes than its representation has, and the    *)
(* writer is at the end of the partial file it writes.                       *)
TypeOK ==
    /\ part.bytes \in Bytes /\ part.synced \in 0 .. Len(part.bytes)
    /\ payload \in Bytes /\ server \in Representation /\ chunk \in Chunks
    /\ \A c \in {local.checkpoint, manifest, dl.state, dl.boundary} :
            c \in Checkpoint /\ c.committed <= c.total
    /\ dl.pc \in {"read", "sync", "save", "callback"} => dl.written = Len(part.bytes)
    /\ \A kind \in DOMAIN budget : budget[kind] \in Nat

Init ==
    /\ part = NoPart
    /\ local = NoLocal
    /\ manifest = NoCheckpoint
    /\ payload = <<>>
    /\ server \in Representation
    /\ dl = Idle
    /\ budget = [crashes |-> MaxCrashes, failures |-> MaxFailures,
                 cancels |-> MaxCancels, changes |-> MaxChanges]
    /\ chunk \in Chunks

-----------------------------------------------------------------------------
(* Building blocks. *)

spend(kind) ==
    /\ budget[kind] > 0
    /\ budget' = [budget EXCEPT ![kind] = budget[kind] - 1]

goto(pc) == dl' = [dl EXCEPT !.pc = pc]

end == dl' = Idle

prefix(n) == SubSeq(part.bytes, 1, n)

\* truncatePartial syncs what is left.
truncated(n) == [exists |-> TRUE, bytes |-> prefix(n), synced |-> n]

hasCallerAuthority == dl.boundary.committed > 0


\* Errors the session answers with a reset and one more transfer.
needsReset ==
    IF dl.retried THEN end
    ELSE dl' = [dl EXCEPT !.pc = "resetPart", !.retried = TRUE]

\* A retryable error.  NoContinue holds for the first attempt only.
retry ==
    IF dl.attempt < MaxAttempts
    THEN dl' = [dl EXCEPT !.pc = "load", !.attempt = dl.attempt + 1,
                          !.noContinue = FALSE]
    ELSE end

-----------------------------------------------------------------------------
(* The session: resumeBoundary and resetDirectEvidence. *)

completedPayload ==
    /\ manifest.etag # "unset"
    /\ manifest.committed > 0 /\ manifest.committed = manifest.total
    /\ Len(payload) = manifest.committed

Start ==
    /\ dl.pc = "down"
    /\ dl' = IF completedPayload THEN [Idle EXCEPT !.pc = "complete"]
             ELSE IF manifest.committed = 0 THEN [Idle EXCEPT !.pc = "load"]
             ELSE IF manifest.total > manifest.committed /\ manifest.etag # "unset"
                  THEN [Idle EXCEPT !.pc = "load", !.boundary = manifest]
             ELSE [Idle EXCEPT !.pc = "resetPart"]
    /\ UNCHANGED <<part, local, manifest, payload, server, budget, chunk>>

ResetPart ==
    /\ dl.pc = "resetPart"
    /\ payload' = <<>>
    /\ part' = NoPart
    /\ goto("resetState")
    /\ UNCHANGED <<local, manifest, server, budget, chunk>>

ResetState ==
    /\ dl.pc = "resetState"
    /\ local' = NoLocal
    /\ goto("resetManifest")
    /\ UNCHANGED <<part, manifest, payload, server, budget, chunk>>

\* Refused when a callback has moved the manifest in the meantime.
ResetManifest ==
    /\ dl.pc = "resetManifest"
    /\ IF dl.stale
       THEN end /\ UNCHANGED manifest
       ELSE /\ manifest' = NoCheckpoint
            /\ dl' = [Idle EXCEPT !.pc = "load", !.noContinue = TRUE,
                                  !.retried = dl.retried]
    /\ UNCHANGED <<part, local, payload, server, budget, chunk>>
-----------------------------------------------------------------------------
(* loadPartialWithPlan: what an attempt continues from. *)

resume(checkpoint) ==
    dl' = [dl EXCEPT !.pc = "request", !.offset = checkpoint.committed,
                     !.state = checkpoint]

fromNothing == resume(NoCheckpoint) /\ UNCHANGED part

\* The boundary of the caller overrides the local state.
useBoundary ==
    IF part.exists /\ dl.boundary.committed <= Len(part.bytes)
    THEN part' = truncated(dl.boundary.committed) /\ resume(dl.boundary)
    ELSE needsReset /\ UNCHANGED part

useLocal ==
    IF ~part.exists
    THEN IF local.checkpoint.committed = 0 THEN fromNothing
         ELSE needsReset /\ UNCHANGED part
    ELSE IF local.exists /\ local.checkpoint.committed <= Len(part.bytes)
         THEN /\ part' = truncated(local.checkpoint.committed)
              /\ resume(local.checkpoint)
         ELSE needsReset /\ UNCHANGED part

Load ==
    /\ dl.pc = "load"
    /\ IF dl.noContinue THEN fromNothing
       ELSE IF hasCallerAuthority THEN useBoundary
       ELSE useLocal
    /\ UNCHANGED <<local, manifest, payload, server, budget, chunk>>

-----------------------------------------------------------------------------
(* downloadAttempt: the request and the judgement of the response. *)

restartPartial ==
    /\ part' = IF part.exists THEN truncated(0) ELSE part
    /\ dl' = [dl EXCEPT !.pc = "load", !.noContinue = TRUE]
    /\ UNCHANGED local

\* The caller has to give its boundary up; otherwise start over.
unusable ==
    IF hasCallerAuthority THEN needsReset /\ UNCHANGED <<part, local>>
                          ELSE restartPartial

\* Mutant: a boundary of the caller is continued without comparing validators.
resumeResponseMatches_Trusts ==
    hasCallerAuthority \/ (Tag[server] = dl.state.etag /\ Size[server] = dl.state.total)

resumeResponseMatches ==
    /\ dl.state.etag # "unset" => Tag[server] = dl.state.etag
    /\ dl.state.total # 0 => dl.state.total = Size[server]

\* setHTTPChunkRange never asks for a known representation in one range.
chunkSize ==
    IF dl.state.total > 1 /\ dl.state.total <= chunk
    THEN (dl.state.total + 1) \div 2 ELSE chunk

\* The response is accepted: the state file is saved before the body is read.
accept(offset, ranged) ==
    LET state == [etag |-> Tag[server], total |-> Size[server],
                  committed |-> offset]
        limit == IF ranged /\ chunk > 0 /\ offset + chunkSize < Size[server]
                 THEN offset + chunkSize ELSE Size[server]
    IN  /\ local' = [exists |-> TRUE, checkpoint |-> state]
        /\ dl' = [dl EXCEPT !.pc = "open", !.offset = offset, !.state = state,
                            !.body = server, !.ranged = ranged, !.limit = limit,
                            !.written = offset, !.last = offset]
        /\ UNCHANGED part

asksForRange == dl.offset > 0 \/ chunk > 0

\* The server answers with the whole representation: no range was asked for,
\* or If-Range names another one.
owesWhole ==
    ~asksForRange \/ (dl.offset > 0 /\ dl.state.etag \notin {"unset", Tag[server]})

\* 206 from the requested offset; a server that owes the whole has ignored
\* If-Range.
RespondPartial ==
    /\ dl.pc = "request" /\ asksForRange /\ dl.offset < Size[server]
    /\ IF owesWhole THEN spend("failures") ELSE UNCHANGED budget
    /\ IF dl.offset > 0 /\ ~resumeResponseMatches THEN unusable
       ELSE accept(dl.offset, TRUE)
    /\ UNCHANGED <<manifest, payload, server, chunk>>

\* 200 with the whole representation; a server that does not owe it has
\* ignored the range.
RespondWhole ==
    /\ dl.pc = "request"
    /\ IF owesWhole THEN UNCHANGED budget ELSE spend("failures")
    /\ IF dl.offset > 0 /\ hasCallerAuthority
       THEN needsReset /\ UNCHANGED <<part, local>>
       ELSE accept(0, FALSE)
    /\ UNCHANGED <<manifest, payload, server, chunk>>

\* 206 with another range than the one asked for.
RespondMisplaced ==
    /\ dl.pc = "request" /\ dl.offset > 0
    /\ spend("failures")
    /\ unusable
    /\ UNCHANGED <<manifest, payload, server, chunk>>

\* 416: nothing is left to transfer, or the offset is beyond the end.
RespondUnsatisfiable ==
    /\ dl.pc = "request" /\ dl.offset > 0 /\ dl.offset >= Size[server]
    /\ IF dl.offset = dl.state.total THEN goto("finalize") ELSE end
    /\ UNCHANGED <<part, local, manifest, payload, server, budget, chunk>>

\* Another status or no answer: worth a retry or not.
RespondError ==
    /\ dl.pc = "request"
    /\ spend("failures")
    /\ retry \/ end
    /\ UNCHANGED <<part, local, manifest, payload, server, chunk>>

Open ==
    /\ dl.pc = "open"
    /\ part' = [exists |-> TRUE, bytes |-> prefix(dl.offset),
                synced |-> IF part.synced < dl.offset THEN part.synced
                                                      ELSE dl.offset]
    /\ goto("read")
    /\ UNCHANGED <<local, manifest, payload, server, budget, chunk>>
-----------------------------------------------------------------------------
(* downloadAttempt: the body, and the checkpoints on the way. *)

Read ==
    /\ dl.pc = "read" /\ dl.written < dl.limit
    /\ part' = [part EXCEPT !.bytes = Append(part.bytes, dl.body)]
    /\ dl' = [dl EXCEPT !.written = dl.written + 1]
    /\ UNCHANGED <<local, manifest, payload, server, budget, chunk>>

\* A read error: the tail since the last checkpoint stays uncommitted.
ReadFails ==
    /\ dl.pc = "read"
    /\ spend("failures")
    /\ retry
    /\ UNCHANGED <<part, local, manifest, payload, server, chunk>>

commit(after) ==
    /\ dl' = [dl EXCEPT !.pc = "sync", !.after = after]
    /\ UNCHANGED <<part, local, manifest, payload, server, chunk>>

\* The cadence makes a checkpoint due.
Due ==
    /\ dl.pc = "read" /\ dl.written > dl.last
    /\ commit("read") /\ UNCHANGED budget

\* finishCancellation commits what was read; elsewhere the context is checked
\* between two steps and nothing is written any more.
Cancel ==
    /\ spend("cancels")
    /\ IF dl.pc = "read" THEN commit("down")
       ELSE /\ dl.pc \in {"load", "request", "eof", "finalize"}
            /\ end
            /\ UNCHANGED <<part, local, manifest, payload, server, chunk>>

\* A server may send less than it was asked for.
EndOfBody ==
    /\ dl.pc = "read"
    /\ IF dl.written = dl.limit THEN UNCHANGED budget ELSE spend("failures")
    /\ IF dl.written = dl.last
       THEN /\ goto("eof")
            /\ UNCHANGED <<part, local, manifest, payload, server, chunk>>
       ELSE commit("eof")

\* Mutant: the state file is saved before the payload is synced.
SyncPayload_Skipped ==
    /\ dl.pc = "sync"
    /\ goto("save")
    /\ UNCHANGED <<part, local, manifest, payload, server, budget, chunk>>

\* commitPartialCheckpoint: payload, then state file, then callback.
SyncPayload ==
    /\ dl.pc = "sync"
    /\ \/ /\ part' = [part EXCEPT !.synced = Len(part.bytes)]
          /\ goto("save")
          /\ UNCHANGED budget
       \/ spend("failures") /\ end /\ UNCHANGED part
    /\ UNCHANGED <<local, manifest, payload, server, chunk>>

SavePartialState ==
    /\ dl.pc = "save"
    /\ \/ /\ local' = [exists |-> TRUE,
                       checkpoint |-> [dl.state EXCEPT !.committed = dl.written]]
          /\ goto("callback")
          /\ UNCHANGED budget
       \/ spend("failures") /\ end /\ UNCHANGED local
    /\ UNCHANGED <<part, manifest, payload, server, chunk>>

\* The session's commitCheckpoint accepts no smaller boundary.
OnCommit ==
    /\ dl.pc = "callback"
    /\ IF dl.written >= manifest.committed
       THEN /\ manifest' = [dl.state EXCEPT !.committed = dl.written]
            /\ IF dl.after = "down" THEN end
               ELSE dl' = [dl EXCEPT !.pc = dl.after, !.last = dl.written,
                                     !.stale = TRUE]
       ELSE end /\ UNCHANGED manifest
    /\ UNCHANGED <<part, local, payload, server, budget, chunk>>

\* Another bounded range continues the transfer; anything else is retried.
EndOfAttempt ==
    /\ dl.pc = "eof"
    /\ IF dl.written = dl.state.total THEN goto("finalize")
       ELSE IF chunk > 0 /\ dl.ranged /\ dl.written > dl.offset
            THEN dl' = [dl EXCEPT !.pc = "load", !.noContinue = FALSE]
            ELSE retry
    /\ UNCHANGED <<part, local, manifest, payload, server, budget, chunk>>

Finalize ==
    /\ dl.pc = "finalize"
    /\ payload' = part.bytes
    /\ part' = NoPart
    /\ goto("cleanup")
    /\ UNCHANGED <<local, manifest, server, budget, chunk>>

\* downloadedPayload: this run may use what it has just committed.
Cleanup ==
    /\ dl.pc = "cleanup"
    /\ local' = NoLocal
    /\ IF manifest.committed = manifest.total /\ Len(payload) = manifest.committed
       THEN dl' = [Idle EXCEPT !.pc = "complete"]
       ELSE end
    /\ UNCHANGED <<part, manifest, payload, server, budget, chunk>>

-----------------------------------------------------------------------------
(* The surroundings. *)

\* A crash may cut off what was not synced; a power loss may also keep its
\* length and lose its content.
Crash ==
    /\ dl.pc \notin {"down", "complete"}
    /\ spend("crashes")
    /\ \E n \in part.synced .. Len(part.bytes), lost \in {FALSE, PowerLoss} :
          part' = [part EXCEPT
                     !.bytes = [i \in 1 .. n |->
                                  IF lost /\ i > part.synced THEN "junk"
                                                             ELSE part.bytes[i]],
                     !.synced = n]
    /\ end
    /\ UNCHANGED <<local, manifest, payload, server, chunk>>

ServerChanges ==
    /\ spend("changes")
    /\ server' \in Representation \ {server}
    /\ UNCHANGED <<part, local, manifest, payload, dl, chunk>>

\* The session goes on with the complete payload.
Done == dl.pc = "complete" /\ UNCHANGED vars

Step ==
    \/ ResetPart \/ ResetState \/ ResetManifest \/ Load
    \/ RespondPartial \/ RespondWhole \/ RespondMisplaced \/ RespondUnsatisfiable
    \/ RespondError \/ Open \/ Read \/ ReadFails \/ Due \/ EndOfBody
    \/ SyncPayload \/ SavePartialState \/ OnCommit \/ EndOfAttempt
    \/ Finalize \/ Cleanup

Next == Start \/ Step \/ Cancel \/ Crash \/ ServerChanges \/ Done

Spec == Init /\ [][Next]_vars

\* A transfer does not stop by itself and the session runs it again.
FairSpec == Spec /\ WF_vars(Start) /\ WF_vars(Step)

-----------------------------------------------------------------------------
(* Properties. *)

named(etag) == {r \in Representation : Tag[r] = etag}

\* A payload the session goes on with is one whole representation, never bytes
\* of two: If-Range, the comparisons of the response, the truncation to the
\* boundary and the resets together guarantee it. (Content that a power loss
\* destroyed is nobody's: a manifest boundary may outlive it.)
OneRepresentation ==
    dl.pc = "complete" =>
        \E r \in Representation :
            Len(payload) = Size[r] /\ \A i \in 1 .. Size[r] : payload[i] \in {r, "junk"}

\* What the local checkpoint claims is what the payload holds whenever a request
\* continues from it: the sync comes before the state file, and the state file
\* is rewritten before another representation is written over the payload.
LocalCheckpointIsTrue ==
    dl.pc = "request" /\ ~hasCallerAuthority =>
        \A i \in 1 .. dl.offset : part.bytes[i] \in named(dl.state.etag)


\* The comment in downloadAttempt: "Once this attempt has committed a bounded
\* range, the next range must reload that checkpoint so offsets and caller
\* callbacks remain cumulative": so a chunked transfer comes to an end.
ChunksAreCumulative == <>(dl.pc = "complete")
=============================================================================
