---------------------------- MODULE AudioChannel ----------------------------
(***************************************************************************)
(* One channel of a live session, from the client's audio frames to the    *)
(* committed segments: the Deepgram stream of                              *)
(* app/services/asr/deepgram_stream.py with its writer, its reader and its *)
(* two ways to end, the pause detector of app/services/vad/vad.py with the *)
(* queue and its consumer, and the handler of app/ws/live_session.py that  *)
(* feeds the one or the other and closes both.                             *)
(*                                                                         *)
(* Frames are numbered as they arrive, so a clip is an interval of         *)
(* numbers and the stream's progress a few counters. What a frame holds    *)
(* (speech or not) is decided as it arrives; recognizers are taken to find *)
(* text in a clip exactly when there is speech in it.                      *)
(***************************************************************************)
EXTENDS Integers, Sequences, FiniteSets

CONSTANTS
    MaxFrames,       \* bound: frames the client sends
    MinSpeech,       \* min_utterance_ms, in frames
    MaxSpeech,       \* max_utterance_seconds, in frames
    SilenceToFlush,  \* SILENCE_TO_FLUSH_MS, in frames
    MayFail          \* the socket may drop, a commit or a ledger entry raise

ASSUME FrameAssumption ==
    /\ MaxFrames \in Nat /\ MinSpeech \in Nat \ {0} /\ MaxSpeech \in Nat /\ SilenceToFlush \in Nat
    /\ MinSpeech <= MaxSpeech /\ MayFail \in BOOLEAN

VARIABLES
    heard,     \* frames received
    speech,    \* those with speech in them
    handler,   \* where the handler of the connection is
    routed,    \* deepgram_streams has this channel's stream
    listed,    \* _close_deepgram_streams has it in its list
    socket,    \* the connection to Deepgram
    closing,   \* _closing
    fired,     \* _closed_fired
    writer,    \* the writer task
    reader,    \* the reader task
    given,     \* frames handed to send()
    written,   \* frames written to the socket
    asked,     \* CloseStream is written
    chunked,   \* frames of the final chunks the reader has received
    bounded,   \* frames up to the last utterance boundary
    handing,   \* the result that on_result is committing
    unbilled,  \* _bytes_sent, in frames
    billed,    \* frames in the ledger
    unlogged,  \* frames whose entry the ledger refused
    detector,  \* the clip's first frame, its speech and trailing silence
    queue,     \* clips waiting to be transcribed
    working,   \* the clip the consumer transcribes
    segments,  \* committed segments
    failed,    \* history: frames whose transcription or commit raised
    late       \* history: close() gave up waiting for the writer or reader

stream == <<routed, listed, socket, closing, fired, writer, reader>>
progress == <<given, written, asked, chunked, bounded, handing>>
usage == <<unbilled, billed, unlogged>>
local == <<detector, queue, working>>
outcome == <<segments, failed, late>>
vars == <<heard, speech, handler, stream, progress, usage, local, outcome>>

Clip(from, to) == [from |-> from, to |-> to]
Nothing == Clip(1, 0)
Frames(clip) == clip.from..clip.to
Silent(clip) == Frames(clip) \cap speech = {}
Quiet == [from |-> 0, speech |-> 0, silence |-> 0]

-----------------------------------------------------------------------------
(* Opening                                                                 *)

Init ==
    /\ heard = 0 /\ speech = {} /\ handler = "connecting"
    /\ routed = FALSE /\ listed = FALSE /\ socket = "none" /\ closing = FALSE /\ fired = FALSE
    /\ writer = "none" /\ reader = "none"
    /\ given = 0 /\ written = 0 /\ asked = FALSE /\ chunked = 0 /\ bounded = 0 /\ handing = Nothing
    /\ unbilled = 0 /\ billed = 0 /\ unlogged = 0
    /\ detector = Quiet /\ queue = <<>> /\ working = Nothing
    /\ segments = <<>> /\ failed = {} /\ late = FALSE

Connect ==
    /\ handler = "connecting"
    /\ handler' = "receiving"
    /\ socket' = "up" /\ writer' = "running" /\ reader' = "running" /\ routed' = TRUE
    /\ UNCHANGED <<heard, speech, listed, closing, fired, progress, usage, local, outcome>>

(* The connection cannot be made, or the session never streams: the entry  *)
(* of the channel stays None.                                              *)
StayLocal ==
    /\ handler = "connecting"
    /\ handler' = "receiving"
    /\ UNCHANGED <<heard, speech, stream, progress, usage, local, outcome>>

-----------------------------------------------------------------------------
(* Audio                                                                   *)

(* feed on one frame.                                                      *)
Fed(n, isSpeech) ==
    IF isSpeech
      THEN [from |-> IF detector.speech = 0 THEN n ELSE detector.from,
            speech |-> detector.speech + 1, silence |-> 0]
      ELSE [detector EXCEPT !.silence = IF detector.speech > 0 THEN @ + 1 ELSE @]

Paused(d) == d.speech >= MinSpeech /\ d.silence >= SilenceToFlush
(* Not the code: the cap comes a frame late.                               *)
CappedLate(d) == d.speech > MaxSpeech

Capped(d) == d.speech >= MaxSpeech

Feed(n, isSpeech) ==
    LET fed == Fed(n, isSpeech)
        due == Paused(fed) \/ Capped(fed)
    IN  /\ detector' = IF due THEN Quiet ELSE fed
        /\ queue' = IF due THEN Append(queue, Clip(fed.from, n)) ELSE queue

(* on_audio: a frame goes to the stream or to the detector.                *)
Audio(isSpeech) ==
    /\ handler = "receiving" /\ heard < MaxFrames
    /\ heard' = heard + 1
    /\ speech' = IF isSpeech THEN speech \cup {heard + 1} ELSE speech
    /\ \/ /\ routed
          /\ given' = heard + 1 /\ unbilled' = unbilled + 1
          /\ UNCHANGED <<detector, queue>>
       \/ /\ ~routed
          /\ Feed(heard + 1, isSpeech)
          /\ UNCHANGED <<given, unbilled>>
    /\ UNCHANGED <<handler, stream, written, asked, chunked, bounded, handing, billed, unlogged, working, outcome>>

-----------------------------------------------------------------------------
(* Usage                                                                   *)

(* Not the code: the counter is read and kept.                             *)
KeptAfterTake == unbilled

(* take_usage_seconds: what was counted, and what the counter holds then.  *)
Taken == unbilled
AfterTake == 0

(* _log_deepgram_stt_cost: the counter is reset before the ledger is tried.*)
LogUsage ==
    /\ unbilled' = AfterTake
    /\ \/ billed' = billed + Taken /\ UNCHANGED unlogged
       \/ MayFail /\ Taken > 0 /\ unlogged' = unlogged + Taken /\ UNCHANGED billed

-----------------------------------------------------------------------------
(* The stream                                                              *)

(* _fail with on_closed: the channel falls back and the usage is logged,   *)
(* once, and never after a deliberate close.                               *)
Fail ==
    \/ /\ fired \/ closing
       /\ UNCHANGED <<fired, routed, usage>>
    \/ /\ ~fired /\ ~closing
       /\ fired' = TRUE /\ routed' = FALSE
       /\ LogUsage

SocketDrops ==
    /\ MayFail /\ socket = "up"
    /\ socket' = "down"
    /\ UNCHANGED <<heard, speech, handler, routed, listed, closing, fired, writer, reader, progress, usage, local, outcome>>

Write ==
    /\ writer = "running" /\ socket = "up" /\ written < given
    /\ written' = written + 1
    /\ UNCHANGED <<heard, speech, handler, stream, given, asked, chunked, bounded, handing, usage, local, outcome>>

(* The two marks that close() queued behind the audio.                     *)
WriteClose ==
    /\ writer = "running" /\ socket = "up" /\ written = given /\ closing
    /\ asked' = TRUE /\ writer' = "done"
    /\ UNCHANGED <<heard, speech, handler, routed, listed, socket, closing, fired, reader,
                   given, written, chunked, bounded, handing, usage, local, outcome>>

WriteRaises ==
    /\ writer = "running" /\ socket = "down" /\ (written < given \/ closing)
    /\ writer' = "done"
    /\ Fail
    /\ UNCHANGED <<heard, speech, handler, listed, socket, closing, reader, progress, local, outcome>>

(* is_final without speech_final: a chunk of an utterance still open.      *)
ReadChunk(n) ==
    /\ reader = "running" /\ n \in chunked + 1..written
    /\ chunked' = n
    /\ UNCHANGED <<heard, speech, handler, stream, given, written, asked, bounded, handing, usage, local, outcome>>

(* Not the code: the chunks of the last utterance are not reset.           *)
ReadBoundaryKeepingChunks(n) ==
    LET utterance == Clip(1, n) IN
    /\ reader = "running" /\ n \in chunked..written /\ n > bounded
    /\ chunked' = n /\ bounded' = n
    /\ IF Silent(utterance) THEN UNCHANGED <<handing, reader>>
                            ELSE handing' = utterance /\ reader' = "committing"
    /\ UNCHANGED <<heard, speech, handler, routed, listed, socket, closing, fired, writer,
                   given, written, asked, usage, local, outcome>>

(* speech_final, or UtteranceEnd with nothing new (n = chunked): the       *)
(* utterance is reset and, if there is text in it, handed to on_result.    *)
ReadBoundary(n) ==
    LET utterance == Clip(bounded + 1, n) IN
    /\ reader = "running" /\ n \in chunked..written /\ n > bounded
    /\ chunked' = n /\ bounded' = n
    /\ IF Silent(utterance) THEN UNCHANGED <<handing, reader>>
                            ELSE handing' = utterance /\ reader' = "committing"
    /\ UNCHANGED <<heard, speech, handler, routed, listed, socket, closing, fired, writer,
                   given, written, asked, usage, local, outcome>>

(* Where the first run of one speaker may end: words fall where they fall. *)
RunEnds(clip) == Frames(clip)

(* on_result commits the runs of one speaker each, in order.               *)
CommitRun(m) ==
    /\ reader = "committing" /\ m \in RunEnds(handing)
    /\ segments' = Append(segments, Clip(handing.from, m))
    /\ handing' = IF m = handing.to THEN Nothing ELSE Clip(m + 1, handing.to)
    /\ reader' = IF m = handing.to THEN "running" ELSE "committing"
    /\ UNCHANGED <<heard, speech, handler, routed, listed, socket, closing, fired, writer,
                   given, written, asked, chunked, bounded, usage, local, failed, late>>

(* An exception gives up this run and those after it; the reader goes on.  *)
CommitRaises ==
    /\ MayFail /\ reader = "committing"
    /\ failed' = failed \cup Frames(handing)
    /\ handing' = Nothing /\ reader' = "running"
    /\ UNCHANGED <<heard, speech, handler, routed, listed, socket, closing, fired, writer,
                   given, written, asked, chunked, bounded, usage, local, segments, late>>

(* The iterator ends: the connection dropped, or Deepgram has answered     *)
(* CloseStream with everything it still had, bounded, and closed it.       *)
ReadEnds ==
    /\ reader = "running"
    /\ socket = "down" \/ (asked /\ chunked = written /\ bounded = chunked)
    /\ reader' = "done"
    /\ Fail
    /\ UNCHANGED <<heard, speech, handler, listed, socket, closing, writer, progress, local, outcome>>

-----------------------------------------------------------------------------
(* Transcribing clips                                                      *)

Take ==
    /\ working = Nothing /\ queue # <<>>
    /\ working' = Head(queue) /\ queue' = Tail(queue)
    /\ UNCHANGED <<heard, speech, handler, stream, progress, usage, detector, outcome>>

Transcribe ==
    /\ working # Nothing
    /\ segments' = Append(segments, working) /\ working' = Nothing
    /\ UNCHANGED <<heard, speech, handler, stream, progress, usage, detector, queue, failed, late>>

TranscribeRaises ==
    /\ MayFail /\ working # Nothing
    /\ failed' = failed \cup Frames(working) /\ working' = Nothing
    /\ UNCHANGED <<heard, speech, handler, stream, progress, usage, detector, queue, segments, late>>

-----------------------------------------------------------------------------
(* Closing                                                                 *)

(* Not the code: only what the detector would have cut is worth keeping.   *)
StopDroppingLeftovers ==
    /\ handler = "receiving"
    /\ detector' = Quiet /\ UNCHANGED queue
    /\ listed' = routed
    /\ handler' = IF routed THEN "leaving" ELSE "left"
    /\ UNCHANGED <<heard, speech, routed, socket, closing, fired, writer, reader, progress, usage, working, outcome>>

(* The client stops or is gone. enqueue_leftovers, and the list of         *)
(* _close_deepgram_streams, without an await in between.                   *)
Stop ==
    /\ handler = "receiving"
    /\ queue' = IF detector.speech >= MinSpeech THEN Append(queue, Clip(detector.from, heard)) ELSE queue
    /\ detector' = Quiet
    /\ listed' = routed
    /\ handler' = IF routed THEN "leaving" ELSE "left"
    /\ UNCHANGED <<heard, speech, routed, socket, closing, fired, writer, reader, progress, usage, working, outcome>>

(* The task that gather() made for close() starts.                         *)
BeginClose ==
    /\ handler = "leaving"
    /\ closing' = TRUE /\ handler' = "flushing"
    /\ UNCHANGED <<heard, speech, routed, listed, socket, fired, writer, reader, progress, usage, local, outcome>>

(* Not the code: the writer is awaited for as long as it takes.            *)
WriterAwaitedForever ==
    /\ handler = "flushing" /\ writer = "done"
    /\ handler' = "awaiting"
    /\ UNCHANGED <<heard, speech, stream, progress, usage, local, outcome>>

(* wait_for(writer, 2 s): it is over, or it is cancelled.                  *)
WriterAwaited ==
    /\ handler = "flushing"
    /\ handler' = "awaiting" /\ writer' = "done"
    /\ late' = (late \/ writer = "running")
    /\ UNCHANGED <<heard, speech, routed, listed, socket, closing, fired, reader, progress, usage, local, segments, failed>>

(* Not the code: a reader that is late is not cancelled.                   *)
ReaderLeftRunning ==
    /\ handler = "awaiting"
    /\ handler' = "billing" /\ late' = (late \/ reader # "done")
    /\ UNCHANGED <<heard, speech, stream, progress, usage, local, segments, failed>>

(* wait_for(reader, 5 s): it is over, or it is cancelled, with what it was *)
(* committing committed or not.                                            *)
ReaderAwaited ==
    /\ handler = "awaiting"
    /\ handler' = "billing" /\ reader' = "done" /\ handing' = Nothing
    /\ late' = (late \/ reader # "done")
    /\ \/ UNCHANGED segments
       \/ reader = "committing" /\ segments' = Append(segments, handing)
    /\ UNCHANGED <<heard, speech, routed, listed, socket, closing, fired, writer,
                   given, written, asked, chunked, bounded, usage, local, failed>>

Bill ==
    /\ handler = "billing"
    /\ handler' = "left"
    /\ LogUsage
    /\ UNCHANGED <<heard, speech, stream, progress, local, outcome>>

-----------------------------------------------------------------------------
StreamNext ==
    \/ SocketDrops \/ Write \/ WriteClose \/ WriteRaises
    \/ \E n \in 1..MaxFrames : ReadChunk(n) \/ ReadBoundary(n) \/ CommitRun(n)
    \/ CommitRaises \/ ReadEnds

Closing == BeginClose \/ WriterAwaited \/ ReaderAwaited \/ Bill

Next ==
    \/ Connect \/ StayLocal
    \/ \E isSpeech \in BOOLEAN : Audio(isSpeech)
    \/ StreamNext
    \/ Take \/ Transcribe \/ TranscribeRaises
    \/ Stop \/ Closing

Spec == Init /\ [][Next]_vars

(* The handler's awaits return; nothing is assumed of Deepgram.            *)
FairSpec == Spec /\ WF_vars(Closing)

-----------------------------------------------------------------------------
(* Properties                                                              *)

Clips == [from : 1..MaxFrames + 1, to : 0..MaxFrames]

FlagsOK ==
    /\ handler \in {"connecting", "receiving", "leaving", "flushing", "awaiting", "billing", "left"}
    /\ {routed, listed, closing, fired, asked, late} \subseteq BOOLEAN
    /\ socket \in {"none", "up", "down"}
    /\ writer \in {"none", "running", "done"} /\ reader \in {"none", "running", "committing", "done"}

CountsOK ==
    /\ heard \in 0..MaxFrames /\ speech \subseteq 1..heard
    /\ given \in 0..heard /\ written \in 0..given /\ chunked \in 0..written /\ bounded \in 0..chunked
    /\ {unbilled, billed, unlogged} \subseteq Nat

ClipsOK ==
    /\ handing \in Clips /\ working \in Clips /\ queue \in Seq(Clips) /\ segments \in Seq(Clips)
    /\ detector \in [from : 0..MaxFrames, speech : 0..MaxSpeech - 1, silence : 0..MaxFrames]
    /\ failed \subseteq 1..MaxFrames

(* The types of the variables: no counter passes the one ahead of it.      *)
TypeOK == FlagsOK /\ CountsOK /\ ClipsOK

InClips(f, clips) == \E i \in 1..Len(clips) : f \in Frames(clips[i])

(* Somebody still has the frame in hand.                                   *)
UnderWay(f) ==
    \/ f \in bounded + 1..given /\ reader \in {"running", "committing"}
    \/ f \in Frames(handing) \/ f \in Frames(working) \/ InClips(f, queue)
    \/ detector.speech > 0 /\ f >= detector.from

(* Of the frames handed to the stream, what may cost one its transcript: a *)
(* drop, or a Deepgram slower than close() waits. Of those fed to the      *)
(* detector: a session that ends on a clip too short to transcribe.        *)
StreamBroke == socket = "down" \/ late
TooShort(f) == handler \notin {"connecting", "receiving"} /\ Cardinality(speech \cap (f..heard)) < MinSpeech

(* Every frame with speech in it is in a committed segment or on its way   *)
(* to one: none is lost where the stream hands over to the detector, where *)
(* a pause or the cap cuts a clip, or where the session stops, except by   *)
(* one of the faults named above or by an exception.                       *)
LossNeedsFault ==
    \A f \in speech :
        \/ InClips(f, segments) \/ UnderWay(f) \/ f \in failed
        \/ IF f <= given THEN StreamBroke ELSE TooShort(f)

(* No frame is transcribed twice: not by the stream and then by the        *)
(* detector it fell back to, nor by two clips.                             *)
TranscribedOnce ==
    \A i, j \in 1..Len(segments) : i # j => Frames(segments[i]) \cap Frames(segments[j]) = {}

(* Every frame handed to the stream is billed once, by the drop or by the  *)
(* close, also when both happen, and nothing is left to bill when the      *)
(* handler leaves.                                                         *)
UsageBilledOnce ==
    /\ billed + unlogged + unbilled = given
    /\ handler = "left" => unbilled = 0

(* Once the handler has left (and marks the meeting `processing`), the     *)
(* stream commits nothing more, unless it dropped by itself: then nobody   *)
(* waits for its reader.                                                   *)
LateCommitsFollowADrop ==
    [][ handler = "left" /\ ~fired => handing' = handing /\ reader' = reader ]_vars

(* A stop gets through: neither a writer nor a reader that hangs keeps the *)
(* meeting in `recording`.                                                 *)
StopSettles == handler = "leaving" ~> handler = "left"
=============================================================================
