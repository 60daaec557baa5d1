-------------------------- MODULE MeetingLifecycle --------------------------
(***************************************************************************)
(* One meeting from `recording` to `ready` or `failed`: the WebSocket      *)
(* handler of app/ws/live_session.py with its utterance consumer and its   *)
(* detached finalize, the upload and delete endpoints of                   *)
(* app/api/meetings.py and the worker job of app/workers/tasks.py.         *)
(*                                                                         *)
(* They share the meeting's row and the recording lock.  Every await of a  *)
(* handler is a place where the others run, so each handler is cut there:  *)
(* a row that was read before an await is written after it.  The lock is   *)
(* the abstract lease of LeaseLock.                                        *)
(***************************************************************************)
EXTENDS Integers

CONSTANTS
    Conn,           \* WebSocket connections to this meeting
    NoConn,         \* the lock is free
    MaxUtterances,  \* bound: utterances each session hears
    MayRaise,       \* database, Redis, disk or a model may raise
    MayCrash        \* the api process or the worker may die

ASSUME NoConnAssumption == NoConn \notin Conn
ASSUME BoundAssumption ==
    MaxUtterances \in [Conn -> Nat] /\ MayRaise \in BOOLEAN /\ MayCrash \in BOOLEAN

VARIABLES
    status,    \* meeting.status, or "deleted" when the row is gone
    audio,     \* whose recording meeting.audio_path names
    lock,      \* whose token the recording lock holds
    pc,        \* where each connection's handler is
    loaded,    \* the status that a _finalize under way has read
    gone,      \* clients that have left, which the handler has yet to see
    speaking,  \* a detector holds an utterance that has had no pause yet
    queued,    \* length of session.queue; the counts of a session die with
               \* its process
    working,   \* the consumer is busy with an utterance
    heard,     \* utterances the session has heard
    kept,      \* segments it has committed
    spoilt,    \* utterances it gave up: one raised, or the drain timed out
    up,        \* where the upload request is
    upSeen,    \* the status it read, until it is answered
    job        \* the process_meeting_audio task

row == <<status, audio>>
talk == <<speaking, queued, working, heard, kept, spoilt>>
upload == <<up, upSeen, job>>
vars == <<row, lock, pc, loaded, gone, talk, upload>>

Statuses == {"recording", "processing", "ready", "failed"}

(* A handler holds the lock from SET NX to the end of its renewal loop. A  *)
(* leaked one never got to cancelling that loop.                           *)
Holding == {"setup", "warming", "spawned", "streaming", "closing", "marking", "leaked"}
Ending == {"leaving", "draining", "finalizing", "saving", "dispatching"}
Over == {"refused", "aborted", "lost", "done", "reported", "crashed"}
Consuming == {"spawned", "streaming", "closing", "marking", "leaked", "leaving", "draining"}

TypeOK ==
    /\ status \in Statuses \union {"deleted"}
    /\ audio \in Conn \union {"none", "upload"}
    /\ lock \in Conn \union {NoConn}
    /\ pc \in [Conn -> {"idle", "checked"} \union Holding \union Ending \union Over]
    /\ loaded \in [Conn -> Statuses]
    /\ gone \subseteq Conn
    /\ speaking \in [Conn -> BOOLEAN]
    /\ working \in [Conn -> BOOLEAN]
    /\ queued \in [Conn -> Nat]
    /\ heard \in [Conn -> Nat]
    /\ kept \in [Conn -> Nat]
    /\ spoilt \in [Conn -> Nat]
    /\ up \in {"none", "loaded", "sent", "unsent", "over"}
    /\ upSeen \in Statuses
    /\ job \in {"none", "queued", "working"}

(* create_meeting has committed the row.                                   *)
Init ==
    /\ status = "recording"
    /\ audio = "none"
    /\ lock = NoConn
    /\ pc = [c \in Conn |-> "idle"]
    /\ loaded = [c \in Conn |-> "recording"]
    /\ gone = {}
    /\ speaking = [c \in Conn |-> FALSE]
    /\ working = [c \in Conn |-> FALSE]
    /\ queued = [c \in Conn |-> 0]
    /\ heard = [c \in Conn |-> 0]
    /\ kept = [c \in Conn |-> 0]
    /\ spoilt = [c \in Conn |-> 0]
    /\ up = "none"
    /\ upSeen = "recording"
    /\ job = "none"

Goto(c, where) == pc' = [pc EXCEPT ![c] = where]

Exists == status # "deleted"

(* What a commit leaves in the column: SQLAlchemy sends no UPDATE for a    *)
(* value equal to the one it loaded.                                       *)
Flush(seen, value) == IF value = seen THEN status ELSE value
-----------------------------------------------------------------------------
(***************************************************************************)
(* The connection: live_session_ws up to the receive loop.                 *)
(***************************************************************************)

(* The row is read, and the status check answers, before the lock is tried.*)
Check(c) ==
    /\ pc[c] = "idle"
    /\ Goto(c, IF status = "recording" THEN "checked" ELSE "refused")
    /\ UNCHANGED <<row, lock, gone, talk, loaded, upload>>

(* A slip: the lock is taken whoever holds it.                             *)
AcquireWithoutNX(c) ==
    /\ pc[c] = "checked"
    /\ lock' = c
    /\ Goto(c, "setup")
    /\ UNCHANGED <<row, gone, talk, loaded, upload>>

Acquire(c) ==
    /\ pc[c] = "checked"
    /\ IF lock = NoConn
       THEN lock' = c /\ Goto(c, "setup")
       ELSE UNCHANGED lock /\ Goto(c, "refused")
    /\ UNCHANGED <<row, gone, talk, loaded, upload>>

(* started_at is committed; a row deleted meanwhile makes the commit raise.*)
StartedAt(c) ==
    /\ pc[c] = "setup"
    /\ Goto(c, IF Exists THEN "warming" ELSE "aborted")
    /\ UNCHANGED <<row, lock, gone, talk, loaded, upload>>

(* Providers are resolved, the model is warm, the session and its loops    *)
(* exist.                                                                  *)
SpawnLoops(c) ==
    /\ pc[c] = "warming"
    /\ Goto(c, "spawned")
    /\ UNCHANGED <<row, lock, gone, talk, loaded, upload>>

(* An exception before the loops exist leaves the lock to its TTL.         *)
SetupRaises(c) ==
    /\ MayRaise
    /\ pc[c] \in {"setup", "warming"}
    /\ Goto(c, "aborted")
    /\ UNCHANGED <<row, lock, gone, talk, loaded, upload>>

(* {"type": "ready"} is sent outside the try block.  To a client that has  *)
(* left it raises, and the finally block does not run.                     *)
SayReady(c) ==
    /\ pc[c] = "spawned"
    /\ \/ Goto(c, "streaming")
       \/ c \in gone /\ Goto(c, "leaked")
    /\ UNCHANGED <<row, lock, gone, talk, loaded, upload>>

(* The client says stop, drops the connection or loses it.                 *)
ClientLeaves(c) ==
    /\ pc[c] \in {"checked", "setup", "warming", "spawned", "streaming"}
    /\ c \notin gone
    /\ gone' = gone \union {c}
    /\ UNCHANGED <<row, lock, pc, talk, loaded, upload>>
-----------------------------------------------------------------------------
(***************************************************************************)
(* Utterances: on_audio feeds the detectors and the queue, and             *)
(* _consume_utterances works the queue off, one at a time.                 *)
(***************************************************************************)
Hear(c) ==
    /\ pc[c] = "streaming" /\ c \notin gone
    /\ heard[c] < MaxUtterances[c]
    /\ ~speaking[c]
    /\ speaking' = [speaking EXCEPT ![c] = TRUE]
    /\ heard' = [heard EXCEPT ![c] = @ + 1]
    /\ UNCHANGED <<row, lock, pc, gone, queued, working, kept, spoilt, loaded, upload>>

Pause(c) ==
    /\ pc[c] = "streaming" /\ c \notin gone
    /\ speaking[c]
    /\ speaking' = [speaking EXCEPT ![c] = FALSE]
    /\ queued' = [queued EXCEPT ![c] = @ + 1]
    /\ UNCHANGED <<row, lock, pc, gone, working, heard, kept, spoilt, loaded, upload>>

(* A slip: get_nowait on a queue that may be empty.                        *)
TakeFromEmpty(c) ==
    /\ pc[c] \in Consuming
    /\ ~working[c]
    /\ working' = [working EXCEPT ![c] = TRUE]
    /\ queued' = [queued EXCEPT ![c] = @ - 1]
    /\ UNCHANGED <<row, lock, pc, gone, speaking, heard, kept, spoilt, loaded, upload>>

Take(c) ==
    /\ pc[c] \in Consuming
    /\ queued[c] > 0 /\ ~working[c]
    /\ working' = [working EXCEPT ![c] = TRUE]
    /\ queued' = [queued EXCEPT ![c] = @ - 1]
    /\ UNCHANGED <<row, lock, pc, gone, speaking, heard, kept, spoilt, loaded, upload>>

(* The transcription returns and its segment is committed.  Without the    *)
(* meeting's row the foreign key refuses it.                               *)
CommitSegment(c) ==
    /\ pc[c] \in Consuming /\ working[c]
    /\ working' = [working EXCEPT ![c] = FALSE]
    /\ IF Exists
       THEN kept' = [kept EXCEPT ![c] = @ + 1] /\ UNCHANGED spoilt
       ELSE spoilt' = [spoilt EXCEPT ![c] = @ + 1] /\ UNCHANGED kept
    /\ UNCHANGED <<row, lock, pc, gone, speaking, queued, heard, loaded, upload>>

(* Anything in between raises; the consumer logs it and goes on.           *)
TranscriptionRaises(c) ==
    /\ MayRaise
    /\ pc[c] \in Consuming /\ working[c]
    /\ working' = [working EXCEPT ![c] = FALSE]
    /\ spoilt' = [spoilt EXCEPT ![c] = @ + 1]
    /\ UNCHANGED <<row, lock, pc, gone, speaking, queued, heard, kept, loaded, upload>>

Consume(c) == Take(c) \/ CommitSegment(c) \/ TranscriptionRaises(c)
-----------------------------------------------------------------------------
(***************************************************************************)
(* The end of the connection: the finally block of live_session_ws.        *)
(***************************************************************************)

(* The receive loop ends: stop, disconnect, duration cap or exception.     *)
(* enqueue_leftovers flushes the detectors, then the streams are closed.   *)
EndReceive(c) ==
    /\ pc[c] = "streaming"
    /\ Goto(c, "closing")
    /\ gone' = gone \ {c}
    /\ speaking' = [speaking EXCEPT ![c] = FALSE]
    /\ queued' = [queued EXCEPT ![c] = IF speaking[c] THEN @ + 1 ELSE @]
    /\ UNCHANGED <<row, lock, working, heard, kept, spoilt, loaded, upload>>

(* A slip: _mark_processing is skipped.                                    *)
MarkSkipped(c) ==
    /\ pc[c] = "closing"
    /\ Goto(c, "leaving")
    /\ UNCHANGED <<row, lock, gone, talk, loaded, upload>>

(* _mark_processing reads the row ...                                      *)
MarkRead(c) ==
    /\ pc[c] = "closing"
    /\ Goto(c, IF status = "recording" THEN "marking" ELSE "leaving")
    /\ UNCHANGED <<row, lock, gone, talk, loaded, upload>>

(* ... and commits `processing`, which raises if the row is gone by now.   *)
MarkWrite(c) ==
    /\ pc[c] = "marking"
    /\ IF Exists
       THEN status' = "processing" /\ Goto(c, "leaving")
       ELSE UNCHANGED status /\ Goto(c, "leaked")
    /\ UNCHANGED <<audio, lock, gone, talk, loaded, upload>>

(* What _mark_processing raises ends the finally block: the loops are not  *)
(* cancelled, the lock is not released and nothing is finalized.           *)
MarkRaises(c) ==
    /\ MayRaise
    /\ pc[c] \in {"closing", "marking"}
    /\ Goto(c, "leaked")
    /\ UNCHANGED <<row, lock, gone, talk, loaded, upload>>

(* The loops are cancelled, the lock is released, or left behind if Redis  *)
(* raises, and _drain_and_finalize is spawned.                             *)
Release(c) ==
    /\ pc[c] = "leaving"
    /\ \/ lock' = IF lock = c THEN NoConn ELSE lock
       \/ MayRaise /\ UNCHANGED lock
    /\ Goto(c, "draining")
    /\ UNCHANGED <<row, gone, talk, loaded, upload>>
-----------------------------------------------------------------------------
(***************************************************************************)
(* _drain_and_finalize and _finalize, detached from the connection.        *)
(***************************************************************************)

(* A slip: the drain waits for an empty queue, not for the last task_done. *)
DrainOnEmptyQueue(c) ==
    /\ pc[c] = "draining"
    /\ queued[c] = 0
    /\ working' = [working EXCEPT ![c] = FALSE]
    /\ Goto(c, "finalizing")
    /\ UNCHANGED <<row, lock, gone, speaking, queued, heard, kept, spoilt, loaded, upload>>

(* queue.join() returns.                                                   *)
Drained(c) ==
    /\ pc[c] = "draining"
    /\ queued[c] = 0 /\ ~working[c]
    /\ Goto(c, "finalizing")
    /\ UNCHANGED <<row, lock, gone, talk, loaded, upload>>

(* A slip: a wait without a timeout.                                       *)
NoDrainTimeout(c) == FALSE /\ UNCHANGED <<vars, c>>

(* After ten minutes the consumer is cancelled in whatever it is doing.    *)
DrainTimesOut(c) ==
    /\ pc[c] = "draining"
    /\ queued[c] > 0 \/ working[c]
    /\ spoilt' = [spoilt EXCEPT ![c] = @ + queued[c] + (IF working[c] THEN 1 ELSE 0)]
    /\ queued' = [queued EXCEPT ![c] = 0]
    /\ working' = [working EXCEPT ![c] = FALSE]
    /\ Goto(c, "finalizing")
    /\ UNCHANGED <<row, lock, gone, speaking, heard, kept, loaded, upload>>

(* _finalize reads the row; without it there is nothing to do.             *)
FinalizeRead(c) ==
    /\ pc[c] = "finalizing"
    /\ IF Exists
       THEN loaded' = [loaded EXCEPT ![c] = status] /\ Goto(c, "saving")
       ELSE UNCHANGED loaded /\ Goto(c, "done")
    /\ UNCHANGED <<row, lock, gone, talk, upload>>

(* The mixdown or the read raises, outside the try block of _finalize:     *)
(* _drain_and_finalize logs it and the row stays as it is.                 *)
FinalizeRaises(c) ==
    /\ MayRaise
    /\ pc[c] = "finalizing"
    /\ Goto(c, "lost")
    /\ UNCHANGED <<row, lock, gone, talk, loaded, upload>>

(* The recording is saved, if a frame of audio ever came, and the row is   *)
(* `ready`.                                                                *)
FinalizeWrite(c) ==
    /\ pc[c] = "saving" /\ Exists
    /\ status' = Flush(loaded[c], "ready")
    /\ \/ audio' = c
       \/ heard[c] = 0 /\ UNCHANGED audio
    /\ loaded' = [loaded EXCEPT ![c] = "recording"]
    /\ Goto(c, "dispatching")
    /\ UNCHANGED <<lock, gone, talk, upload>>

(* Saving or the commit raises: rollback, then `failed` is committed, which*)
(* may raise as well and does if the row is gone.                          *)
FinalizeFails(c) ==
    /\ pc[c] = "saving" /\ (MayRaise \/ ~Exists)
    /\ \/ Exists /\ status' = "failed" /\ Goto(c, "done")
       \/ UNCHANGED status /\ Goto(c, "lost")
    /\ loaded' = [loaded EXCEPT ![c] = "recording"]
    /\ UNCHANGED <<audio, lock, gone, talk, upload>>

(* index_meeting_search and generate_report are dispatched, best effort.   *)
DispatchReport(c) ==
    /\ pc[c] = "dispatching"
    /\ \/ Goto(c, "reported")
       \/ MayRaise /\ Goto(c, "done")
    /\ UNCHANGED <<row, lock, gone, talk, loaded, upload>>

Finalize(c) ==
    \/ FinalizeRead(c)
    \/ FinalizeRaises(c)
    \/ FinalizeWrite(c)
    \/ FinalizeFails(c)
    \/ DispatchReport(c)
-----------------------------------------------------------------------------
(***************************************************************************)
(* The upload, its job on the worker, and the delete.                      *)
(***************************************************************************)

(* upload_meeting_audio reads the row, then saves the file.                *)
UploadLoad ==
    /\ up = "none" /\ Exists
    /\ up' = "loaded"
    /\ upSeen' = status
    /\ UNCHANGED <<row, lock, pc, gone, talk, loaded, job>>

(* The job goes to Redis before the row is committed.  If Redis raises the *)
(* row will be `failed`; if saving the file did, the request is over.      *)
UploadSend ==
    /\ up = "loaded"
    /\ \/ up' = "sent" /\ job' = "queued"
       \/ MayRaise /\ up' \in {"unsent", "over"} /\ UNCHANGED job
    /\ UNCHANGED <<row, lock, pc, gone, talk, loaded, upSeen>>

UploadCommit ==
    /\ up \in {"sent", "unsent"}
    /\ up' = "over" /\ upSeen' = "recording"
    /\ IF Exists
       THEN /\ status' = Flush(upSeen, IF up = "sent" THEN "processing" ELSE "failed")
            /\ audio' = "upload"
       ELSE UNCHANGED row
    /\ UNCHANGED <<lock, pc, gone, talk, loaded, job>>

(* process_meeting_audio: without a row or an audio_path it just returns.  *)
JobLoad ==
    /\ job = "queued"
    /\ job' = IF Exists /\ audio # "none" THEN "working" ELSE "none"
    /\ UNCHANGED <<row, lock, pc, gone, talk, loaded, up, upSeen>>

(* The call of searchable_kb_keywords lacks an argument, so the job always *)
(* takes its except branch: rollback, then `failed` is committed.          *)
JobFails ==
    /\ job = "working"
    /\ job' = "none"
    /\ status' = IF Exists THEN "failed" ELSE status
    /\ UNCHANGED <<audio, lock, pc, gone, talk, loaded, up, upSeen>>

(* The task was acknowledged when it was taken and dies with the worker.   *)
WorkerDies ==
    /\ MayCrash
    /\ job = "working"
    /\ job' = "none"
    /\ UNCHANGED <<row, lock, pc, gone, talk, loaded, up, upSeen>>

DeleteMeeting ==
    /\ Exists
    /\ status' = "deleted"
    /\ audio' = "none"
    /\ UNCHANGED <<lock, pc, gone, talk, loaded, upload>>
-----------------------------------------------------------------------------
(* A slip: the lock lapses under a session whose loop should renew it.     *)
LapseUnderSession ==
    /\ lock # NoConn
    /\ lock' = NoConn
    /\ UNCHANGED <<row, pc, gone, talk, loaded, upload>>

(* A lock that nobody renews reaches its TTL.                              *)
Lapse ==
    /\ \A c \in Conn : lock = c => pc[c] \notin Holding
    /\ lock # NoConn
    /\ lock' = NoConn
    /\ UNCHANGED <<row, pc, gone, talk, loaded, upload>>

Interrupted(c) == pc[c] \notin {"idle"} \union Over

(* The api process dies, with its handlers, detached tasks and requests.   *)
Crash ==
    /\ MayCrash
    /\ (\E c \in Conn : Interrupted(c)) \/ up \in {"loaded", "sent", "unsent"}
    /\ pc' = [c \in Conn |-> IF Interrupted(c) THEN "crashed" ELSE pc[c]]
    /\ gone' = {}
    /\ loaded' = [c \in Conn |-> "recording"]
    /\ speaking' = [c \in Conn |-> FALSE]
    /\ working' = [c \in Conn |-> FALSE]
    /\ queued' = [c \in Conn |-> 0]
    /\ heard' = [c \in Conn |-> 0]
    /\ kept' = [c \in Conn |-> 0]
    /\ spoilt' = [c \in Conn |-> 0]
    /\ up' = IF up = "none" THEN "none" ELSE "over"
    /\ upSeen' = "recording"
    /\ UNCHANGED <<row, lock, job>>

Setup(c) ==
    \/ Acquire(c)
    \/ StartedAt(c)
    \/ SpawnLoops(c)
    \/ SetupRaises(c)
    \/ SayReady(c)

Teardown(c) ==
    \/ MarkRead(c)
    \/ MarkWrite(c)
    \/ MarkRaises(c)
    \/ Release(c)
    \/ Drained(c)
    \/ DrainTimesOut(c)
    \/ Finalize(c)

Session(c) ==
    \/ Check(c)
    \/ Setup(c)
    \/ ClientLeaves(c)
    \/ Hear(c)
    \/ Pause(c)
    \/ Consume(c)
    \/ EndReceive(c)
    \/ Teardown(c)

Upload == UploadLoad \/ UploadSend \/ UploadCommit
Job == JobLoad \/ JobFails \/ WorkerDies

Next ==
    \/ \E c \in Conn : Session(c)
    \/ Upload
    \/ Job
    \/ DeleteMeeting
    \/ Lapse
    \/ Crash

Spec == Init /\ [][Next]_vars

(* What the server has begun it goes on with: awaits return or raise, the  *)
(* drain has a timeout, Redis expires keys, the worker takes its tasks.    *)
(* Nothing is assumed of clients, nor of how long a transcription takes.   *)
Fairness ==
    /\ \A c \in Conn :
          /\ WF_vars(Setup(c))
          /\ WF_vars(c \in gone /\ EndReceive(c))
          /\ WF_vars(Teardown(c))
    /\ WF_vars(UploadSend \/ UploadCommit)
    /\ WF_vars(Job)
    /\ WF_vars(Lapse)

FairSpec == Spec /\ Fairness
-----------------------------------------------------------------------------
(* The handlers use the recording lock as the lease it promises to be: no  *)
(* session begins while another holds it, no session is robbed of it.      *)
Lease == INSTANCE LeaseLock
            WITH holder <- lock, alive <- {c \in Conn : pc[c] \in Holding}

LeaseSpec == Lease!LeaseSpec

(* When _finalize asks for the report, every utterance heard before the    *)
(* stop, the last one without a pause included, is a committed segment or  *)
(* was given up for a reason of its own: none is still on its way, and the *)
(* report is written from the whole transcript.                            *)
ReportOnWholeTranscript ==
    \A c \in Conn : pc[c] \in {"dispatching", "reported"} => heard[c] = kept[c] + spoilt[c]

(* _mark_processing writes on the strength of an earlier read.  It never   *)
(* takes a meeting that is `ready` back to `processing`, where no task     *)
(* would be left to bring it out again.                                    *)
MarkNeverUndoesReady ==
    [][\A c \in Conn : pc[c] = "marking" /\ pc'[c] = "leaving" => status # "ready"]_vars

(* The end of a live session takes the meeting out of `recording`, unless  *)
(* _mark_processing raises or the process dies (live_session_ws, finally). *)
StopLeadsOut ==
    \A c \in Conn :
        pc[c] = "closing" ~> status # "recording" \/ pc[c] \in {"leaked", "crashed"}

(* A session that drains settles the meeting, however long transcription   *)
(* takes, unless _finalize itself raises or the process dies.              *)
DrainSettles ==
    \A c \in Conn :
        pc[c] = "draining" ~>
            status \in {"ready", "failed", "deleted"} \/ pc[c] \in {"lost", "crashed"}

(* At most one session has a transcription under way whose segment will be *)
(* written to this meeting (the comment on the lock in live_session_ws).   *)
OneWriter == \A c, d \in Conn : working[c] /\ working[d] => c = d

(* A client that goes away ends the recording (API.md, "Stop vs disconnect *)
(* vs duration cap").                                                      *)
LeavingEndsRecording ==
    \A c \in Conn : pc[c] = "spawned" /\ c \in gone ~> status # "recording"

(* An upload that has been answered does not stay in `processing` (the     *)
(* comment on the dispatch in upload_meeting_audio).                       *)
UploadSettles == up = "over" /\ status = "processing" ~> status # "processing"
=============================================================================
