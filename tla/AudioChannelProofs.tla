-------------------------- MODULE AudioChannelProofs -------------------------
(***************************************************************************)
(* What AudioChannel promises for any number of frames and any thresholds. *)
(***************************************************************************)
EXTENDS AudioChannel, FiniteSetTheorems, TLAPS

(* What the detector has counted, it has counted of frames heard.          *)
DetectorOK ==
    /\ detector \in [from : 0..MaxFrames, speech : 0..MaxSpeech - 1, silence : 0..MaxFrames]
    /\ detector.silence <= heard
    /\ detector.speech > 0 => detector.from \in 1..heard

(* While the stream is routed it is given every frame, and nothing is left *)
(* to bill once it is not.                                                 *)
Billing ==
    /\ billed + unlogged + unbilled = given
    /\ routed => given = heard
    /\ ~routed => unbilled = 0
    /\ handler = "left" => unbilled = 0

(* When the reader may still run.                                          *)
ReaderStage ==
    /\ handler = "connecting" => heard = 0 /\ given = 0 /\ reader = "none" /\ ~routed
    /\ handler = "receiving" => routed \/ fired \/ reader = "none"
    /\ handler = "billing" => reader \in {"none", "done"}
    /\ handler = "left" /\ ~fired => reader \in {"none", "done"}

(* A segment that the stream committed: it ends before what the reader has *)
(* yet to commit, and before the frames yet to be bounded.                 *)
Streamed(s) == s.to <= bounded /\ (reader = "committing" => s.to < handing.from)

(* A segment of a clip, which only a channel without a stream has.         *)
Clipped(s) == ~routed /\ s.from > given

Sources ==
    /\ reader = "committing" => handing.to <= bounded
    /\ \A i \in 1..Len(segments) : Streamed(segments[i]) \/ Clipped(segments[i])

(* The clip starts after the frame, and so does everything behind it: the  *)
(* worked on is before the queue, the queue before the detector.           *)
BeforeQueue(f) ==
    /\ \A k \in 1..Len(queue) : f < queue[k].from
    /\ detector.speech > 0 => f < detector.from

BeforeWork(f) == (working # Nothing => f < working.from) /\ BeforeQueue(f)

Line ==
    /\ \A i \in 1..Len(segments) : segments[i].to <= heard /\ BeforeWork(segments[i].to)
    /\ BeforeWork(given)
    /\ working # Nothing => working.to <= heard /\ BeforeQueue(working.to)
    /\ \A k \in 1..Len(queue) : queue[k].to <= heard /\ (detector.speech > 0 => queue[k].to < detector.from)
    /\ \A k, l \in 1..Len(queue) : k < l => queue[k].to < queue[l].from

(* Nothing is clipped while there is a stream, or before there may be one. *)
Unclipped ==
    /\ routed \/ handler = "connecting" => working = Nothing /\ queue = <<>> /\ detector.speech = 0
    /\ handler = "connecting" => segments = <<>>

Before(s, t) == s.to < t.from
Disjoint == \A i, j \in 1..Len(segments) : i # j => Before(segments[i], segments[j]) \/ Before(segments[j], segments[i])

(* Every step keeps the flags' types.                                      *)
LEMMA FlagsStep ==
  ASSUME FlagsOK, [Next]_vars
  PROVE  FlagsOK'
<1> USE DEF FlagsOK, stream, progress, usage, local, outcome
<1>1. CASE Connect
  BY <1>1 DEF Connect
<1>2. CASE StayLocal
  BY <1>2 DEF StayLocal
<1>3. ASSUME NEW isSpeech \in BOOLEAN, Audio(isSpeech) PROVE FlagsOK'
  BY <1>3 DEF Audio, Feed, Fed, Paused, Capped
<1>4. CASE SocketDrops
  BY <1>4 DEF SocketDrops
<1>5. CASE Write
  BY <1>5 DEF Write
<1>6. CASE WriteClose
  BY <1>6 DEF WriteClose
<1>7. CASE WriteRaises
  BY <1>7 DEF WriteRaises, Fail, LogUsage, Taken, AfterTake
<1>8. ASSUME NEW n \in 1..MaxFrames, ReadChunk(n) PROVE FlagsOK'
  BY <1>8 DEF ReadChunk
<1>9. ASSUME NEW n \in 1..MaxFrames, ReadBoundary(n) PROVE FlagsOK'
  BY <1>9 DEF ReadBoundary
<1>10. ASSUME NEW n \in 1..MaxFrames, CommitRun(n) PROVE FlagsOK'
  BY <1>10 DEF CommitRun
<1>11. CASE CommitRaises
  BY <1>11 DEF CommitRaises
<1>12. CASE ReadEnds
  BY <1>12 DEF ReadEnds, Fail, LogUsage, Taken, AfterTake
<1>13. CASE Take
  BY <1>13 DEF Take
<1>14. CASE Transcribe
  BY <1>14 DEF Transcribe
<1>15. CASE TranscribeRaises
  BY <1>15 DEF TranscribeRaises
<1>16. CASE Stop
  BY <1>16 DEF Stop
<1>17. CASE BeginClose
  BY <1>17 DEF BeginClose
<1>18. CASE WriterAwaited
  BY <1>18 DEF WriterAwaited
<1>19. CASE ReaderAwaited
  BY <1>19 DEF ReaderAwaited
<1>20. CASE Bill
  BY <1>20 DEF Bill, LogUsage, Taken, AfterTake
<1>21. CASE UNCHANGED vars
  BY <1>21 DEF vars
<1> QED BY <1>1, <1>2, <1>3, <1>4, <1>5, <1>6, <1>7, <1>8, <1>9, <1>10, <1>11, <1>12,
    <1>13, <1>14, <1>15, <1>16, <1>17, <1>18, <1>19, <1>20, <1>21 DEF Next, StreamNext,
    Closing

(* Every step keeps the counters' order.                                   *)
LEMMA CountsStep ==
  ASSUME FrameAssumption, FlagsOK, CountsOK, [Next]_vars
  PROVE  CountsOK'
<1> USE DEF FrameAssumption, CountsOK, stream, progress, usage, local, outcome
<1>1. CASE Connect
  BY <1>1 DEF Connect
<1>2. CASE StayLocal
  BY <1>2 DEF StayLocal
<1>3. ASSUME NEW isSpeech \in BOOLEAN, Audio(isSpeech) PROVE CountsOK'
  <2>1. heard' = heard + 1 /\ heard' \in 0..MaxFrames
    BY <1>3 DEF Audio
  <2>2. speech' \subseteq speech \cup {heard + 1}
    BY <1>3 DEF Audio
  <2>3. given' \in {given, heard + 1} /\ unbilled' \in {unbilled, unbilled + 1}
    BY <1>3 DEF Audio
  <2>4. UNCHANGED <<written, chunked, bounded, billed, unlogged>>
    BY <1>3 DEF Audio
  <2> QED BY <2>1, <2>2, <2>3, <2>4
<1>4. CASE SocketDrops
  BY <1>4 DEF SocketDrops
<1>5. CASE Write
  BY <1>5 DEF Write
<1>6. CASE WriteClose
  BY <1>6 DEF WriteClose
<1>7. CASE WriteRaises
  BY <1>7 DEF WriteRaises, Fail, LogUsage, Taken, AfterTake
<1>8. ASSUME NEW n \in 1..MaxFrames, ReadChunk(n) PROVE CountsOK'
  BY <1>8 DEF ReadChunk
<1>9. ASSUME NEW n \in 1..MaxFrames, ReadBoundary(n) PROVE CountsOK'
  BY <1>9 DEF ReadBoundary
<1>10. ASSUME NEW n \in 1..MaxFrames, CommitRun(n) PROVE CountsOK'
  BY <1>10 DEF CommitRun
<1>11. CASE CommitRaises
  BY <1>11 DEF CommitRaises
<1>12. CASE ReadEnds
  BY <1>12 DEF ReadEnds, Fail, LogUsage, Taken, AfterTake
<1>13. CASE Take
  BY <1>13 DEF Take
<1>14. CASE Transcribe
  BY <1>14 DEF Transcribe
<1>15. CASE TranscribeRaises
  BY <1>15 DEF TranscribeRaises
<1>16. CASE Stop
  BY <1>16 DEF Stop
<1>17. CASE BeginClose
  BY <1>17 DEF BeginClose
<1>18. CASE WriterAwaited
  BY <1>18 DEF WriterAwaited
<1>19. CASE ReaderAwaited
  BY <1>19 DEF ReaderAwaited
<1>20. CASE Bill
  BY <1>20 DEF Bill, LogUsage, Taken, AfterTake
<1>21. CASE UNCHANGED vars
  BY <1>21 DEF vars
<1> QED BY <1>1, <1>2, <1>3, <1>4, <1>5, <1>6, <1>7, <1>8, <1>9, <1>10, <1>11, <1>12,
    <1>13, <1>14, <1>15, <1>16, <1>17, <1>18, <1>19, <1>20, <1>21 DEF Next, StreamNext,
    Closing

(* The clip nobody works on.                                               *)
LEMMA NothingIsAClip ==
  ASSUME FrameAssumption
  PROVE  Nothing \in Clips
BY DEF FrameAssumption, Nothing, Clip, Clips

(* A clip of frames heard is one.                                          *)
LEMMA ClipIsAClip ==
  ASSUME FrameAssumption, CountsOK, NEW m \in 1..heard + 1, NEW n \in 0..heard
  PROVE  Clip(m, n) \in Clips
BY DEF FrameAssumption, CountsOK, Clip, Clips

(* What a frame makes of the detector, and of the queue.                   *)
LEMMA FeedStep ==
  ASSUME FrameAssumption, CountsOK, DetectorOK, queue \in Seq(Clips), heard < MaxFrames,
         heard' = heard + 1, NEW isSpeech \in BOOLEAN, Feed(heard + 1, isSpeech)
  PROVE  DetectorOK' /\ queue' \in Seq(Clips)
<1> DEFINE fed == Fed(heard + 1, isSpeech)
<1>1. /\ fed \in [from : 0..MaxFrames, speech : 0..MaxSpeech, silence : 0..MaxFrames]
      /\ fed.silence <= heard + 1 /\ (fed.speech > 0 => fed.from \in 1..heard + 1)
  <2>1. /\ heard \in Nat /\ heard < MaxFrames /\ MaxFrames \in Nat /\ MaxSpeech \in Nat
        /\ detector.from \in 0..MaxFrames /\ detector.speech \in Nat /\ detector.speech < MaxSpeech
        /\ detector.silence \in Nat /\ detector.silence <= heard
        /\ detector.speech > 0 => detector.from \in 1..heard
    BY DEF FrameAssumption, CountsOK, DetectorOK
  <2>2. fed = [from |-> fed.from, speech |-> fed.speech, silence |-> fed.silence]
    <3>1. detector = [from |-> detector.from, speech |-> detector.speech, silence |-> detector.silence]
      BY DEF DetectorOK
    <3> QED BY <3>1 DEF Fed
  <2>3. /\ fed.from = IF isSpeech /\ detector.speech = 0 THEN heard + 1 ELSE detector.from
        /\ fed.speech = IF isSpeech THEN detector.speech + 1 ELSE detector.speech
        /\ fed.silence \in {0, detector.silence, detector.silence + 1}
    BY DEF Fed, DetectorOK
  <2> HIDE DEF fed
  <2>4. fed.from \in 0..MaxFrames
    BY <2>1, <2>3
  <2>5. fed.speech \in 0..MaxSpeech
    BY <2>1, <2>3
  <2>6. fed.silence \in 0..MaxFrames /\ fed.silence <= heard + 1
    BY <2>1, <2>3
  <2>7. fed.speech > 0 => fed.from \in 1..heard + 1
    BY <2>1, <2>3
  <2>8. fed \in [from : 0..MaxFrames, speech : 0..MaxSpeech, silence : 0..MaxFrames]
    BY <2>2, <2>4, <2>5, <2>6
  <2> QED BY <2>6, <2>7, <2>8
<1>2. CASE Paused(fed) \/ Capped(fed)
  <2>1. fed.speech > 0
    BY <1>1, <1>2 DEF Paused, Capped, FrameAssumption
  <2>2. detector' = Quiet /\ queue' = Append(queue, Clip(fed.from, heard + 1))
    BY <1>2 DEF Feed
  <2>3. Clip(fed.from, heard + 1) \in Clips
    BY <1>1, <2>1 DEF FrameAssumption, CountsOK, Clip, Clips
  <2>4. queue' \in Seq(Clips)
    BY <2>2, <2>3
  <2>5. DetectorOK'
    BY <2>2 DEF DetectorOK, Quiet, FrameAssumption, CountsOK
  <2> QED BY <2>4, <2>5
<1>3. CASE ~(Paused(fed) \/ Capped(fed))
  <2>1. detector' = fed /\ queue' = queue
    BY <1>3 DEF Feed
  <2>2. fed.speech \in 0..MaxSpeech - 1
    BY <1>1, <1>3 DEF Capped, FrameAssumption
  <2> HIDE DEF fed
  <2>3. fed = [from |-> fed.from, speech |-> fed.speech, silence |-> fed.silence]
    BY <1>1
  <2>4. DetectorOK'
    BY <1>1, <2>1, <2>2, <2>3 DEF DetectorOK
  <2> QED BY <2>1, <2>4
<1> QED BY <1>2, <1>3

(* Every step keeps the clips' types.                                      *)
LEMMA ClipsStep ==
  ASSUME FrameAssumption, CountsOK, ClipsOK, DetectorOK, [Next]_vars
  PROVE  (ClipsOK /\ DetectorOK)'
<1> USE DEF ClipsOK, DetectorOK, stream, progress, usage, local, outcome
<1>1. CASE Connect
  BY <1>1 DEF Connect
<1>2. CASE StayLocal
  BY <1>2 DEF StayLocal
<1>3. ASSUME NEW isSpeech \in BOOLEAN, Audio(isSpeech) PROVE (ClipsOK /\ DetectorOK)'
  <2>1. heard < MaxFrames /\ heard' = heard + 1 /\ UNCHANGED <<handing, working, segments, failed>>
    BY <1>3 DEF Audio
  <2>2. CASE routed
    <3>1. UNCHANGED <<detector, queue>>
      BY <1>3, <2>2 DEF Audio
    <3> QED BY <2>1, <3>1 DEF CountsOK
  <2>3. CASE ~routed
    <3> HIDE DEF DetectorOK
    <3>1. Feed(heard + 1, isSpeech)
      BY <1>3, <2>3 DEF Audio
    <3>2. DetectorOK' /\ queue' \in Seq(Clips)
      BY <2>1, <3>1, FeedStep
    <3> QED BY <2>1, <3>2 DEF ClipsOK, DetectorOK
  <2> QED BY <2>2, <2>3
<1>4. CASE SocketDrops
  BY <1>4 DEF SocketDrops
<1>5. CASE Write
  BY <1>5 DEF Write
<1>6. CASE WriteClose
  BY <1>6 DEF WriteClose
<1>7. CASE WriteRaises
  BY <1>7 DEF WriteRaises, Fail, LogUsage, Taken, AfterTake
<1>8. ASSUME NEW n \in 1..MaxFrames, ReadChunk(n) PROVE (ClipsOK /\ DetectorOK)'
  BY <1>8 DEF ReadChunk
<1>9. ASSUME NEW n \in 1..MaxFrames, ReadBoundary(n) PROVE (ClipsOK /\ DetectorOK)'
  <2>1. n \in 0..heard /\ bounded + 1 \in 1..heard + 1
    BY <1>9 DEF ReadBoundary, CountsOK
  <2>2. Clip(bounded + 1, n) \in Clips
    BY <2>1, ClipIsAClip
  <2>3. handing' \in {handing, Clip(bounded + 1, n)}
    BY <1>9 DEF ReadBoundary
  <2>4. UNCHANGED <<heard, local, segments, failed>>
    BY <1>9 DEF ReadBoundary
  <2> QED BY <2>2, <2>3, <2>4
<1>10. ASSUME NEW n \in 1..MaxFrames, CommitRun(n) PROVE (ClipsOK /\ DetectorOK)'
  <2>1. n \in handing.from..handing.to
    BY <1>10 DEF CommitRun, RunEnds, Frames
  <2>2. Clip(handing.from, n) \in Clips /\ Clip(n + 1, handing.to) \in Clips
    BY <2>1 DEF Clip, Clips
  <2>3. handing' \in {Nothing, Clip(n + 1, handing.to)} /\ segments' = Append(segments, Clip(handing.from, n))
    BY <1>10 DEF CommitRun
  <2>4. UNCHANGED <<heard, local, failed>>
    BY <1>10 DEF CommitRun
  <2> QED BY <2>2, <2>3, <2>4, NothingIsAClip
<1>11. CASE CommitRaises
  <2>1. Frames(handing) \subseteq 1..MaxFrames
    BY FrameAssumption DEF FrameAssumption, Frames, Clips
  <2>2. failed' = failed \cup Frames(handing) /\ handing' = Nothing
    BY <1>11 DEF CommitRaises
  <2>3. UNCHANGED <<heard, local, segments>>
    BY <1>11 DEF CommitRaises
  <2> QED BY <2>1, <2>2, <2>3, NothingIsAClip
<1>12. CASE ReadEnds
  BY <1>12 DEF ReadEnds, Fail, LogUsage, Taken, AfterTake
<1>13. CASE Take
  <2>1. working' = Head(queue) /\ queue' = Tail(queue) /\ queue # <<>>
    BY <1>13 DEF Take
  <2>2. working' \in Clips /\ queue' \in Seq(Clips)
    BY <2>1
  <2>3. UNCHANGED <<heard, handing, detector, segments, failed>>
    BY <1>13 DEF Take
  <2> QED BY <2>2, <2>3
<1>14. CASE Transcribe
  <2>1. segments' = Append(segments, working) /\ working' = Nothing
    BY <1>14 DEF Transcribe
  <2>2. UNCHANGED <<heard, handing, detector, queue, failed>>
    BY <1>14 DEF Transcribe
  <2> QED BY <2>1, <2>2, NothingIsAClip
<1>15. CASE TranscribeRaises
  <2>1. Frames(working) \subseteq 1..MaxFrames
    BY FrameAssumption DEF FrameAssumption, Frames, Clips
  <2>2. failed' = failed \cup Frames(working) /\ working' = Nothing
    BY <1>15 DEF TranscribeRaises
  <2>3. UNCHANGED <<heard, handing, detector, queue, segments>>
    BY <1>15 DEF TranscribeRaises
  <2> QED BY <2>1, <2>2, <2>3, NothingIsAClip
<1>16. CASE Stop
  <2>1. detector' = Quiet /\ UNCHANGED <<heard, handing, working, segments, failed>>
    BY <1>16 DEF Stop
  <2>2. DetectorOK'
    BY <2>1 DEF Quiet, FrameAssumption, CountsOK
  <2>3. queue' \in Seq(Clips)
    <3>1. CASE detector.speech >= MinSpeech
      <4>1. detector.from \in 1..heard + 1 /\ heard \in 0..heard
        BY <3>1 DEF FrameAssumption, CountsOK
      <4>2. Clip(detector.from, heard) \in Clips
        BY <4>1, ClipIsAClip
      <4>3. queue' = Append(queue, Clip(detector.from, heard))
        BY <1>16, <3>1 DEF Stop
      <4> QED BY <4>2, <4>3
    <3>2. CASE ~(detector.speech >= MinSpeech)
      BY <1>16, <3>2 DEF Stop
    <3> QED BY <3>1, <3>2
  <2> QED BY <2>1, <2>2, <2>3
<1>17. CASE BeginClose
  BY <1>17 DEF BeginClose
<1>18. CASE WriterAwaited
  BY <1>18 DEF WriterAwaited
<1>19. CASE ReaderAwaited
  <2>1. segments' \in {segments, Append(segments, handing)} /\ handing' = Nothing
    BY <1>19 DEF ReaderAwaited
  <2>2. Append(segments, handing) \in Seq(Clips)
    OBVIOUS
  <2>3. UNCHANGED <<heard, local, failed>>
    BY <1>19 DEF ReaderAwaited
  <2> QED BY <2>1, <2>2, <2>3, NothingIsAClip
<1>20. CASE Bill
  BY <1>20 DEF Bill, LogUsage, Taken, AfterTake
<1>21. CASE UNCHANGED vars
  BY <1>21 DEF vars
<1> QED BY <1>1, <1>2, <1>3, <1>4, <1>5, <1>6, <1>7, <1>8, <1>9, <1>10, <1>11, <1>12,
    <1>13, <1>14, <1>15, <1>16, <1>17, <1>18, <1>19, <1>20, <1>21 DEF Next, StreamNext,
    Closing

(* Every step keeps the account.                                           *)
LEMMA BillingStep ==
  ASSUME FrameAssumption, CountsOK, ReaderStage, Billing, [Next]_vars
  PROVE  Billing'
<1> USE DEF FrameAssumption, CountsOK, Billing, ReaderStage, stream, progress, usage, local, outcome
<1>1. CASE Connect
  BY <1>1 DEF Connect
<1>2. CASE StayLocal
  BY <1>2 DEF StayLocal
<1>3. ASSUME NEW isSpeech \in BOOLEAN, Audio(isSpeech) PROVE Billing'
  BY <1>3 DEF Audio
<1>4. CASE SocketDrops
  BY <1>4 DEF SocketDrops
<1>5. CASE Write
  BY <1>5 DEF Write
<1>6. CASE WriteClose
  BY <1>6 DEF WriteClose
<1>7. CASE WriteRaises
  BY <1>7 DEF WriteRaises, Fail, LogUsage, Taken, AfterTake
<1>8. ASSUME NEW n \in 1..MaxFrames, ReadChunk(n) PROVE Billing'
  BY <1>8 DEF ReadChunk
<1>9. ASSUME NEW n \in 1..MaxFrames, ReadBoundary(n) PROVE Billing'
  BY <1>9 DEF ReadBoundary
<1>10. ASSUME NEW n \in 1..MaxFrames, CommitRun(n) PROVE Billing'
  BY <1>10 DEF CommitRun
<1>11. CASE CommitRaises
  BY <1>11 DEF CommitRaises
<1>12. CASE ReadEnds
  BY <1>12 DEF ReadEnds, Fail, LogUsage, Taken, AfterTake
<1>13. CASE Take
  BY <1>13 DEF Take
<1>14. CASE Transcribe
  BY <1>14 DEF Transcribe
<1>15. CASE TranscribeRaises
  BY <1>15 DEF TranscribeRaises
<1>16. CASE Stop
  BY <1>16 DEF Stop
<1>17. CASE BeginClose
  BY <1>17 DEF BeginClose
<1>18. CASE WriterAwaited
  BY <1>18 DEF WriterAwaited
<1>19. CASE ReaderAwaited
  BY <1>19 DEF ReaderAwaited
<1>20. CASE Bill
  BY <1>20 DEF Bill, LogUsage, Taken, AfterTake
<1>21. CASE UNCHANGED vars
  BY <1>21 DEF vars
<1> QED BY <1>1, <1>2, <1>3, <1>4, <1>5, <1>6, <1>7, <1>8, <1>9, <1>10, <1>11, <1>12,
    <1>13, <1>14, <1>15, <1>16, <1>17, <1>18, <1>19, <1>20, <1>21 DEF Next, StreamNext,
    Closing

(* Every step keeps the reader's stage.                                    *)
LEMMA ReaderStep ==
  ASSUME FlagsOK, ReaderStage, [Next]_vars
  PROVE  ReaderStage'
<1> USE DEF FlagsOK, ReaderStage, stream, progress, usage, local, outcome
<1>1. CASE Connect
  BY <1>1 DEF Connect
<1>2. CASE StayLocal
  BY <1>2 DEF StayLocal
<1>3. ASSUME NEW isSpeech \in BOOLEAN, Audio(isSpeech) PROVE ReaderStage'
  BY <1>3 DEF Audio, Feed, Fed, Paused, Capped
<1>4. CASE SocketDrops
  BY <1>4 DEF SocketDrops
<1>5. CASE Write
  BY <1>5 DEF Write
<1>6. CASE WriteClose
  BY <1>6 DEF WriteClose
<1>7. CASE WriteRaises
  BY <1>7 DEF WriteRaises, Fail, LogUsage, Taken, AfterTake
<1>8. ASSUME NEW n \in 1..MaxFrames, ReadChunk(n) PROVE ReaderStage'
  BY <1>8 DEF ReadChunk
<1>9. ASSUME NEW n \in 1..MaxFrames, ReadBoundary(n) PROVE ReaderStage'
  BY <1>9 DEF ReadBoundary
<1>10. ASSUME NEW n \in 1..MaxFrames, CommitRun(n) PROVE ReaderStage'
  BY <1>10 DEF CommitRun
<1>11. CASE CommitRaises
  BY <1>11 DEF CommitRaises
<1>12. CASE ReadEnds
  BY <1>12 DEF ReadEnds, Fail, LogUsage, Taken, AfterTake
<1>13. CASE Take
  BY <1>13 DEF Take
<1>14. CASE Transcribe
  BY <1>14 DEF Transcribe
<1>15. CASE TranscribeRaises
  BY <1>15 DEF TranscribeRaises
<1>16. CASE Stop
  BY <1>16 DEF Stop
<1>17. CASE BeginClose
  BY <1>17 DEF BeginClose
<1>18. CASE WriterAwaited
  BY <1>18 DEF WriterAwaited
<1>19. CASE ReaderAwaited
  BY <1>19 DEF ReaderAwaited
<1>20. CASE Bill
  BY <1>20 DEF Bill, LogUsage, Taken, AfterTake
<1>21. CASE UNCHANGED vars
  BY <1>21 DEF vars
<1> QED BY <1>1, <1>2, <1>3, <1>4, <1>5, <1>6, <1>7, <1>8, <1>9, <1>10, <1>11, <1>12,
    <1>13, <1>14, <1>15, <1>16, <1>17, <1>18, <1>19, <1>20, <1>21 DEF Next, StreamNext,
    Closing

(* The numbers of a clip, and of every clip of a sequence.                 *)
LEMMA Elements ==
  ASSUME NEW q \in Seq(Clips)
  PROVE  \A i \in 1..Len(q) : q[i] \in Clips /\ q[i].from \in Nat /\ q[i].to \in Nat
<1> SUFFICES ASSUME NEW i \in 1..Len(q) PROVE q[i] \in Clips /\ q[i].from \in Nat /\ q[i].to \in Nat
  OBVIOUS
<1>1. q[i] \in Clips
  OBVIOUS
<1> QED BY <1>1 DEF Clips

(* What a sequence of clips is after one more.                              *)
LEMMA Appended ==
  ASSUME NEW q \in Seq(Clips), NEW c \in Clips
  PROVE  /\ Len(q) \in Nat /\ Len(Append(q, c)) = Len(q) + 1
         /\ \A i \in 1..Len(q) : Append(q, c)[i] = q[i]
         /\ Append(q, c)[Len(q) + 1] = c
OBVIOUS

(* Segments stay apart when one is added that is apart from each of them.  *)
LEMMA AppendedApart ==
  ASSUME segments \in Seq(Clips), NEW c \in Clips, segments' = Append(segments, c), Disjoint,
         \A i \in 1..Len(segments) : Before(segments[i], c) \/ Before(c, segments[i])
  PROVE  Disjoint'
<1>1. /\ Len(segments') = Len(segments) + 1 /\ Len(segments) \in Nat
      /\ \A i \in 1..Len(segments) : segments'[i] = segments[i]
      /\ segments'[Len(segments) + 1] = c
  BY Appended
<1>2. ASSUME NEW i \in 1..Len(segments'), NEW j \in 1..Len(segments'), i # j
      PROVE  Before(segments'[i], segments'[j]) \/ Before(segments'[j], segments'[i])
  BY <1>1, <1>2 DEF Disjoint
<1> QED BY <1>2 DEF Disjoint, Before

(* What starts after a frame starts after an earlier one.                  *)
LEMMA LaterIsBefore ==
  ASSUME ClipsOK, NEW m \in Nat, NEW n \in Nat, m <= n, BeforeWork(n)
  PROVE  BeforeWork(m)
<1>1. working.from \in Nat /\ detector.from \in Nat
  BY DEF ClipsOK, Clips
<1>2. \A k \in 1..Len(queue) : queue[k].from \in Nat
  BY Elements DEF ClipsOK
<1> QED BY <1>1, <1>2 DEF BeforeWork, BeforeQueue

(* Segments keep their sources when one is added that has one.             *)
LEMMA AppendedSource ==
  ASSUME segments \in Seq(Clips), NEW c \in Clips, segments' = Append(segments, c),
         \A i \in 1..Len(segments) : Streamed(segments[i]) \/ Clipped(segments[i]),
         \A s \in Clips : Streamed(s) \/ Clipped(s) => (Streamed(s) \/ Clipped(s))',
         (Streamed(c) \/ Clipped(c))'
  PROVE  (\A i \in 1..Len(segments) : Streamed(segments[i]) \/ Clipped(segments[i]))'
<1>1. /\ Len(segments') = Len(segments) + 1 /\ Len(segments) \in Nat
      /\ \A i \in 1..Len(segments) : segments'[i] = segments[i] /\ segments[i] \in Clips
      /\ segments'[Len(segments) + 1] = c
  BY Appended
<1> SUFFICES ASSUME NEW i \in 1..Len(segments') PROVE (Streamed(segments[i]) \/ Clipped(segments[i]))'
  OBVIOUS
<1>2. CASE i = Len(segments) + 1
  BY <1>1, <1>2 DEF Streamed, Clipped
<1>3. CASE i \in 1..Len(segments)
  <2>1. PICK s \in Clips : s = segments[i] /\ s = segments'[i]
    BY <1>1, <1>3
  <2>2. (Streamed(s) \/ Clipped(s))'
    BY <1>3, <2>1
  <2> QED BY <2>1, <2>2 DEF Streamed, Clipped
<1> QED BY <1>1, <1>2, <1>3

(* A clip cut by a pause, the cap or the stop joins the end of the line.   *)
LEMMA EnqueuedInLine ==
  ASSUME CountsOK, ClipsOK, Line, NEW c \in Clips,
         heard' \in {heard, heard + 1}, queue' = Append(queue, c), detector' = Quiet, UNCHANGED <<given, working, segments>>,
         c.to <= heard', c.from = heard + 1 \/ (detector.speech > 0 /\ c.from = detector.from)
  PROVE  Line'
<1>1. /\ Len(queue') = Len(queue) + 1 /\ Len(queue) \in Nat
      /\ \A k \in 1..Len(queue) : queue'[k] = queue[k] /\ queue[k] \in Clips
      /\ queue'[Len(queue) + 1] = c
  BY Appended DEF ClipsOK
<1>2. detector'.speech = 0 /\ heard \in Nat /\ heard' \in Nat /\ heard <= heard' /\ given <= heard /\ given \in Nat /\ c.from \in Nat
  BY DEF Quiet, CountsOK, Clips
<1>3. \A f \in Nat : f <= heard /\ (detector.speech > 0 => f < detector.from) => f < c.from
  BY <1>2
<1>4. \A f \in Nat : f <= heard /\ BeforeQueue(f) => BeforeQueue(f)'
  BY <1>1, <1>2, <1>3 DEF BeforeQueue
<1>5. \A f \in Nat : f <= heard /\ BeforeWork(f) => BeforeWork(f)'
  BY <1>4 DEF BeforeWork
<1>6. BeforeWork(given)'
  <2>1. PICK f \in Nat : f = given
    BY <1>2
  <2> QED BY <1>2, <1>5, <2>1 DEF Line, BeforeWork, BeforeQueue
<1>7. ASSUME NEW i \in 1..Len(segments') PROVE (segments[i].to <= heard /\ BeforeWork(segments[i].to))'
  <2>1. PICK f \in Nat : f = segments[i].to
    BY Elements DEF ClipsOK
  <2> QED BY <1>2, <1>5, <2>1 DEF Line, BeforeWork, BeforeQueue
<1>8. (working # Nothing => working.to <= heard /\ BeforeQueue(working.to))'
  <2>1. PICK f \in Nat : f = working.to
    BY DEF ClipsOK, Clips
  <2> QED BY <1>2, <1>4, <2>1 DEF Line, BeforeQueue, Nothing, Clip
<1>9. ASSUME NEW k \in 1..Len(queue') PROVE queue'[k].to <= heard'
  <2>1. \A l \in 1..Len(queue) : queue[l].to \in Nat /\ queue[l].to <= heard
    BY <1>1 DEF Line, Clips
  <2> QED BY <1>1, <1>2, <2>1
<1>10. ASSUME NEW k \in 1..Len(queue'), NEW l \in 1..Len(queue'), k < l
       PROVE  queue'[k].to < queue'[l].from
  <2>1. \A m \in 1..Len(queue) : queue[m].to \in Nat /\ queue[m].to < c.from
    BY <1>1, <1>3 DEF Line, Clips
  <2>2. CASE l = Len(queue) + 1
    BY <1>1, <1>10, <2>1, <2>2
  <2>3. CASE l # Len(queue) + 1
    <3>1. k \in 1..Len(queue) /\ l \in 1..Len(queue)
      BY <1>1, <1>10, <2>3
    <3> QED BY <1>1, <1>10, <3>1 DEF Line
  <2> QED BY <2>2, <2>3
<1> QED BY <1>2, <1>6, <1>7, <1>8, <1>9, <1>10 DEF Line

(* A clip that goes on, or begins, is behind all the others.               *)
LEMMA FedInLine ==
  ASSUME CountsOK, ClipsOK, Line, heard' = heard + 1, UNCHANGED <<given, working, segments, queue>>,
         detector'.speech > 0 => detector'.from = heard + 1 \/ (detector.speech > 0 /\ detector'.from = detector.from)
  PROVE  Line'
<1>1. heard \in Nat /\ given \in Nat /\ given <= heard /\ working.to \in Nat
  BY DEF CountsOK, ClipsOK, Clips
<1>2. \A f \in Nat : f <= heard /\ BeforeQueue(f) => BeforeQueue(f)'
  BY <1>1 DEF BeforeQueue
<1>3. \A f \in Nat : f <= heard /\ BeforeWork(f) => BeforeWork(f)'
  BY <1>2 DEF BeforeWork
<1>4. BeforeWork(given)'
  <2>1. PICK f \in Nat : f = given
    BY <1>1
  <2> QED BY <1>1, <1>3, <2>1 DEF Line, BeforeWork, BeforeQueue
<1>5. ASSUME NEW i \in 1..Len(segments') PROVE (segments[i].to <= heard /\ BeforeWork(segments[i].to))'
  <2>1. PICK f \in Nat : f = segments[i].to
    BY Elements DEF ClipsOK
  <2> QED BY <1>1, <1>3, <2>1 DEF Line, BeforeWork, BeforeQueue
<1>6. (working # Nothing => working.to <= heard /\ BeforeQueue(working.to))'
  <2>1. PICK f \in Nat : f = working.to
    BY <1>1
  <2> QED BY <1>1, <1>2, <2>1 DEF Line, BeforeQueue, Nothing, Clip
<1>7. ASSUME NEW k \in 1..Len(queue) PROVE queue[k].to <= heard' /\ (detector'.speech > 0 => queue[k].to < detector'.from)
  <2>1. queue[k].to \in Nat
    BY Elements DEF ClipsOK
  <2> QED BY <1>1, <2>1 DEF Line
<1> QED BY <1>4, <1>5, <1>6, <1>7 DEF Line

(* While nothing is clipped, all segments are before what is to come.      *)
LEMMA NothingInLine ==
  ASSUME CountsOK, ClipsOK, Line, working' = Nothing, queue' = <<>>, detector'.speech = 0,
         heard' = heard + 1, segments' = segments
  PROVE  Line'
<1>1. \A i \in 1..Len(segments) : segments[i].to \in Nat /\ segments[i].to <= heard'
  BY Elements DEF CountsOK, ClipsOK, Line
<1>2. Len(queue') = 0
  OBVIOUS
<1> QED BY <1>1, <1>2 DEF Line, BeforeWork, BeforeQueue

(* Every step keeps the clips out of a channel with a stream.              *)
LEMMA UnclippedStep ==
  ASSUME FrameAssumption, FlagsOK, CountsOK, ReaderStage, Unclipped, [Next]_vars
  PROVE  Unclipped'
<1> USE DEF FrameAssumption, FlagsOK, CountsOK, ReaderStage, Unclipped, stream, progress, usage, local, outcome
<1>1. CASE Connect
  BY <1>1 DEF Connect
<1>2. CASE StayLocal
  BY <1>2 DEF StayLocal
<1>3. ASSUME NEW isSpeech \in BOOLEAN, Audio(isSpeech) PROVE Unclipped'
  BY <1>3 DEF Audio, Feed, Fed, Paused, Capped
<1>4. CASE SocketDrops
  BY <1>4 DEF SocketDrops
<1>5. CASE Write
  BY <1>5 DEF Write
<1>6. CASE WriteClose
  BY <1>6 DEF WriteClose
<1>7. CASE WriteRaises
  BY <1>7 DEF WriteRaises, Fail, LogUsage, Taken, AfterTake
<1>8. ASSUME NEW n \in 1..MaxFrames, ReadChunk(n) PROVE Unclipped'
  BY <1>8 DEF ReadChunk
<1>9. ASSUME NEW n \in 1..MaxFrames, ReadBoundary(n) PROVE Unclipped'
  BY <1>9 DEF ReadBoundary
<1>10. ASSUME NEW n \in 1..MaxFrames, CommitRun(n) PROVE Unclipped'
  BY <1>10 DEF CommitRun
<1>11. CASE CommitRaises
  BY <1>11 DEF CommitRaises
<1>12. CASE ReadEnds
  BY <1>12 DEF ReadEnds, Fail, LogUsage, Taken, AfterTake
<1>13. CASE Take
  BY <1>13 DEF Take
<1>14. CASE Transcribe
  BY <1>14 DEF Transcribe
<1>15. CASE TranscribeRaises
  BY <1>15 DEF TranscribeRaises
<1>16. CASE Stop
  <2>1. handler = "receiving" /\ handler' \in {"leaving", "left"} /\ detector' = Quiet /\ UNCHANGED <<routed, working, segments>>
    BY <1>16 DEF Stop
  <2>2. CASE routed
    <3>1. queue' = queue
      BY <1>16, <2>2 DEF Stop
    <3> QED BY <2>1, <2>2, <3>1 DEF Quiet
  <2>3. CASE ~routed
    BY <2>1, <2>3
  <2> QED BY <2>2, <2>3
<1>17. CASE BeginClose
  BY <1>17 DEF BeginClose
<1>18. CASE WriterAwaited
  BY <1>18 DEF WriterAwaited
<1>19. CASE ReaderAwaited
  BY <1>19 DEF ReaderAwaited
<1>20. CASE Bill
  BY <1>20 DEF Bill, LogUsage, Taken, AfterTake
<1>21. CASE UNCHANGED vars
  BY <1>21 DEF vars
<1> QED BY <1>1, <1>2, <1>3, <1>4, <1>5, <1>6, <1>7, <1>8, <1>9, <1>10, <1>11, <1>12,
    <1>13, <1>14, <1>15, <1>16, <1>17, <1>18, <1>19, <1>20, <1>21 DEF Next, StreamNext,
    Closing

(* Every step keeps what is known of the segments' sources.                *)
LEMMA SourcesStep ==
  ASSUME CountsOK, ClipsOK, ReaderStage, Unclipped, Line, Sources, [Next]_vars
  PROVE  Sources'
<1> USE DEF CountsOK, Sources, Streamed, Clipped, stream, progress, usage, local, outcome
<1>1. CASE Connect
  BY <1>1 DEF Connect, Unclipped
<1>2. CASE StayLocal
  BY <1>2 DEF StayLocal
<1>3. ASSUME NEW isSpeech \in BOOLEAN, Audio(isSpeech) PROVE Sources'
  BY <1>3 DEF Audio, Feed, Fed, Paused, Capped
<1>4. CASE SocketDrops
  BY <1>4 DEF SocketDrops
<1>5. CASE Write
  BY <1>5 DEF Write
<1>6. CASE WriteClose
  BY <1>6 DEF WriteClose
<1>7. CASE WriteRaises
  BY <1>7 DEF WriteRaises, Fail, LogUsage, Taken, AfterTake
<1>8. ASSUME NEW n \in 1..MaxFrames, ReadChunk(n) PROVE Sources'
  BY <1>8 DEF ReadChunk
<1>9. ASSUME NEW n \in 1..MaxFrames, ReadBoundary(n) PROVE Sources'
  <2>1. /\ n >= bounded + 1 /\ reader = "running" /\ bounded' = n
        /\ \/ reader' = reader
           \/ reader' = "committing" /\ handing' = Clip(bounded + 1, n)
    BY <1>9 DEF ReadBoundary
  <2>2. UNCHANGED <<segments, routed, given>>
    BY <1>9 DEF ReadBoundary
  <2>3. Clip(bounded + 1, n).from = bounded + 1 /\ Clip(bounded + 1, n).to = n
    BY DEF Clip
  <2>4. ASSUME NEW i \in 1..Len(segments) PROVE Streamed(segments[i])' \/ Clipped(segments[i])'
    <3>1. segments[i] \in Clips
      BY DEF ClipsOK
    <3>2. segments[i].to \in Nat
      BY <3>1 DEF Clips
    <3> QED BY <2>1, <2>2, <2>3, <3>2
  <2> QED BY <2>1, <2>2, <2>3, <2>4
<1>10. ASSUME NEW n \in 1..MaxFrames, CommitRun(n) PROVE Sources'
  <2>1. reader = "committing" /\ n \in handing.from..handing.to /\ handing \in Clips /\ segments \in Seq(Clips)
    BY <1>10 DEF CommitRun, RunEnds, Frames, ClipsOK
  <2>2. PICK run \in Clips : run = Clip(handing.from, n)
    <3>1. handing.from \in 1..MaxFrames + 1 /\ n \in 0..MaxFrames
      BY <2>1 DEF Clips
    <3>2. Clip(handing.from, n) \in Clips
      BY <3>1 DEF Clip, Clips
    <3> QED BY <3>2
  <2>3. run.from = handing.from /\ run.to = n /\ segments' = Append(segments, run)
    BY <1>10, <2>2 DEF CommitRun, Clip
  <2>4. \/ reader' = "running"
        \/ reader' = "committing" /\ handing'.from = n + 1 /\ handing'.to = handing.to
    BY <1>10 DEF CommitRun, Clip
  <2>5. UNCHANGED <<bounded, routed, given>>
    BY <1>10 DEF CommitRun
  <2>6. handing.from \in Nat /\ handing.to \in Nat /\ handing.to <= bounded
    BY <2>1 DEF Clips
  <2>7. \A s \in Clips : Streamed(s) \/ Clipped(s) => (Streamed(s) \/ Clipped(s))'
    BY <2>1, <2>4, <2>5, <2>6 DEF Clips
  <2>8. Streamed(run)'
    BY <2>1, <2>3, <2>4, <2>5, <2>6
  <2>9. reader' = "committing" => handing'.to <= bounded'
    BY <2>4, <2>5, <2>6
  <2> HIDE DEF Streamed, Clipped
  <2>10. (\A i \in 1..Len(segments) : Streamed(segments[i]) \/ Clipped(segments[i]))'
    BY <2>1, <2>3, <2>7, <2>8, AppendedSource
  <2> QED BY <2>9, <2>10
<1>11. CASE CommitRaises
  BY <1>11 DEF CommitRaises
<1>12. CASE ReadEnds
  BY <1>12 DEF ReadEnds, Fail, LogUsage, Taken, AfterTake
<1>13. CASE Take
  BY <1>13 DEF Take
<1>14. CASE Transcribe
  <2>1. working # Nothing /\ working \in Clips /\ segments \in Seq(Clips)
    BY <1>14 DEF Transcribe, ClipsOK
  <2>2. PICK clip \in Clips : clip = working
    BY <2>1
  <2>3. segments' = Append(segments, clip) /\ UNCHANGED <<reader, handing, bounded, routed, given>>
    BY <1>14, <2>2 DEF Transcribe
  <2>4. Clipped(clip)'
    BY <2>1, <2>2, <2>3 DEF Unclipped, Line, BeforeWork
  <2>5. \A s \in Clips : Streamed(s) \/ Clipped(s) => (Streamed(s) \/ Clipped(s))'
    BY <2>3
  <2> HIDE DEF Streamed, Clipped
  <2>6. (\A i \in 1..Len(segments) : Streamed(segments[i]) \/ Clipped(segments[i]))'
    BY <2>1, <2>3, <2>4, <2>5, AppendedSource
  <2> QED BY <2>3, <2>6
<1>15. CASE TranscribeRaises
  BY <1>15 DEF TranscribeRaises
<1>16. CASE Stop
  BY <1>16 DEF Stop
<1>17. CASE BeginClose
  BY <1>17 DEF BeginClose
<1>18. CASE WriterAwaited
  BY <1>18 DEF WriterAwaited
<1>19. CASE ReaderAwaited
  BY <1>19 DEF ReaderAwaited
<1>20. CASE Bill
  BY <1>20 DEF Bill, LogUsage, Taken, AfterTake
<1>21. CASE UNCHANGED vars
  BY <1>21 DEF vars
<1> QED BY <1>1, <1>2, <1>3, <1>4, <1>5, <1>6, <1>7, <1>8, <1>9, <1>10, <1>11, <1>12,
    <1>13, <1>14, <1>15, <1>16, <1>17, <1>18, <1>19, <1>20, <1>21 DEF Next, StreamNext,
    Closing

(* Every step keeps the clips in line.                                     *)
LEMMA LineStep ==
  ASSUME FrameAssumption, CountsOK, ClipsOK, DetectorOK, ReaderStage, Unclipped, Sources, Line, [Next]_vars
  PROVE  Line'
<1> USE DEF CountsOK, Line, BeforeWork, BeforeQueue, stream, progress, usage, local, outcome
<1>1. CASE Connect
  BY <1>1 DEF Connect
<1>2. CASE StayLocal
  BY <1>2 DEF StayLocal
<1>3. ASSUME NEW isSpeech \in BOOLEAN, Audio(isSpeech) PROVE Line'
  <2> DEFINE fed == Fed(heard + 1, isSpeech)
  <2>0. heard < MaxFrames
    BY <1>3 DEF Audio
  <2>1. heard' = heard + 1 /\ UNCHANGED <<working, segments>>
    BY <1>3 DEF Audio
  <2>2. CASE routed
    <3>1. UNCHANGED <<detector, queue>>
      BY <1>3, <2>2 DEF Audio
    <3>2. working = Nothing /\ queue = <<>> /\ detector.speech = 0
      BY <2>2 DEF Unclipped
    <3> QED BY <2>1, <3>1, <3>2, NothingInLine
  <2>3. CASE ~routed
    <3>1. given' = given /\ Feed(heard + 1, isSpeech)
      BY <1>3, <2>3 DEF Audio
    <3>2. /\ fed.speech > 0 => fed.from \in 1..heard + 1
          /\ fed.speech > 0 => fed.from = heard + 1 \/ (detector.speech > 0 /\ fed.from = detector.from)
      BY DEF Fed, DetectorOK
    <3>3. CASE Paused(fed) \/ Capped(fed)
      <4>1. fed.speech > 0
        BY <3>3 DEF Paused, Capped, FrameAssumption, Fed, DetectorOK
      <4>2. detector' = Quiet /\ queue' = Append(queue, Clip(fed.from, heard + 1))
        BY <3>1, <3>3 DEF Feed
      <4>3. PICK c \in Clips : c = Clip(fed.from, heard + 1)
        <5>1. fed.from \in 1..heard + 1 /\ heard + 1 \in 0..MaxFrames /\ heard + 1 <= MaxFrames
          BY <3>2, <4>1, <2>0 DEF FrameAssumption
        <5> HIDE DEF fed
        <5>2. Clip(fed.from, heard + 1) \in Clips
          BY <5>1 DEF Clip, Clips
        <5> QED BY <5>2
      <4>4. c.from = fed.from /\ c.to = heard + 1
        BY <4>3 DEF Clip
      <4> HIDE DEF fed, Line
      <4> QED BY <2>1, <3>1, <3>2, <4>1, <4>2, <4>3, <4>4, EnqueuedInLine
    <3>4. CASE ~(Paused(fed) \/ Capped(fed))
      <4>1. detector' = fed /\ queue' = queue
        BY <3>1, <3>4 DEF Feed
      <4> HIDE DEF fed, Line
      <4> QED BY <2>1, <3>1, <3>2, <4>1, FedInLine
    <3> QED BY <3>3, <3>4
  <2> QED BY <2>2, <2>3
<1>4. CASE SocketDrops
  BY <1>4 DEF SocketDrops
<1>5. CASE Write
  BY <1>5 DEF Write
<1>6. CASE WriteClose
  BY <1>6 DEF WriteClose
<1>7. CASE WriteRaises
  BY <1>7 DEF WriteRaises, Fail, LogUsage, Taken, AfterTake
<1>8. ASSUME NEW n \in 1..MaxFrames, ReadChunk(n) PROVE Line'
  BY <1>8 DEF ReadChunk
<1>9. ASSUME NEW n \in 1..MaxFrames, ReadBoundary(n) PROVE Line'
  BY <1>9 DEF ReadBoundary
<1>10. ASSUME NEW n \in 1..MaxFrames, CommitRun(n) PROVE Line'
  <2>1. reader = "committing" /\ n \in handing.from..handing.to /\ handing \in Clips /\ segments \in Seq(Clips)
    BY <1>10 DEF CommitRun, RunEnds, Frames, ClipsOK
  <2>2. segments' = Append(segments, Clip(handing.from, n)) /\ UNCHANGED <<heard, given, detector, queue, working>>
    BY <1>10 DEF CommitRun
  <2>3. Clip(handing.from, n).to = n /\ Clip(handing.from, n) \in Clips
    BY <2>1 DEF Clip, Clips
  <2>4. n \in Nat /\ n <= given /\ n <= heard
    BY <2>1 DEF Sources, Clips
  <2>5. BeforeWork(n)
    BY <2>4, LaterIsBefore
  <2>6. /\ Len(segments') = Len(segments) + 1 /\ Len(segments) \in Nat
        /\ \A i \in 1..Len(segments) : segments'[i] = segments[i]
        /\ segments'[Len(segments) + 1] = Clip(handing.from, n)
    BY <2>1, <2>2, <2>3, Appended
  <2>7. \A i \in 1..Len(segments') : segments'[i].to <= heard /\ BeforeWork(segments'[i].to)
    <3> HIDE DEF BeforeWork, BeforeQueue
    <3> QED BY <2>3, <2>4, <2>5, <2>6
  <2> QED BY <2>2, <2>7
<1>11. CASE CommitRaises
  BY <1>11 DEF CommitRaises
<1>12. CASE ReadEnds
  BY <1>12 DEF ReadEnds, Fail, LogUsage, Taken, AfterTake
<1>13. CASE Take
  BY <1>13 DEF Take
<1>14. CASE Transcribe
  BY <1>14 DEF Transcribe
<1>15. CASE TranscribeRaises
  BY <1>15 DEF TranscribeRaises
<1>16. CASE Stop
  <2>1. detector' = Quiet /\ Quiet.speech = 0 /\ UNCHANGED <<heard, given, working, segments>>
    BY <1>16 DEF Stop, Quiet
  <2>2. CASE queue' = queue
    BY <2>1, <2>2
  <2>3. CASE detector.speech >= MinSpeech /\ queue' = Append(queue, Clip(detector.from, heard))
    <3>1. detector.speech > 0 /\ heard \in 0..heard /\ detector.from \in 1..heard + 1
      BY <2>3 DEF FrameAssumption, DetectorOK
    <3>2. PICK c \in Clips : c = Clip(detector.from, heard)
      BY <3>1, ClipIsAClip
    <3>3. c.from = detector.from /\ c.to = heard
      BY <3>2 DEF Clip
    <3> HIDE DEF Line
    <3> QED BY <2>1, <2>3, <3>1, <3>2, <3>3, EnqueuedInLine
  <2> QED BY <1>16, <2>2, <2>3 DEF Stop
<1>17. CASE BeginClose
  BY <1>17 DEF BeginClose
<1>18. CASE WriterAwaited
  BY <1>18 DEF WriterAwaited
<1>19. CASE ReaderAwaited
  <2>1. segments' = segments \/ (reader = "committing" /\ segments' = Append(segments, handing))
    BY <1>19 DEF ReaderAwaited
  <2>2. UNCHANGED <<heard, given, detector, queue, working>>
    BY <1>19 DEF ReaderAwaited
  <2>3. CASE segments' = segments
    BY <2>2, <2>3
  <2>4. CASE reader = "committing" /\ segments' = Append(segments, handing)
    <3>1. handing \in Clips /\ segments \in Seq(Clips)
      BY DEF ClipsOK
    <3>2. handing.to \in Nat /\ handing.to <= given /\ handing.to <= heard
      BY <2>4, <3>1 DEF Sources, Clips
    <3>3. BeforeWork(handing.to)
      BY <3>2, LaterIsBefore
    <3>4. /\ Len(segments') = Len(segments) + 1 /\ Len(segments) \in Nat
          /\ \A i \in 1..Len(segments) : segments'[i] = segments[i]
          /\ segments'[Len(segments) + 1] = handing
      BY <2>4, <3>1, Appended
    <3>5. \A i \in 1..Len(segments') : segments'[i].to <= heard /\ BeforeWork(segments'[i].to)
      <4> HIDE DEF BeforeWork, BeforeQueue
      <4> QED BY <3>2, <3>3, <3>4
    <3> QED BY <2>2, <3>5
  <2> QED BY <2>1, <2>3, <2>4
<1>20. CASE Bill
  BY <1>20 DEF Bill, LogUsage, Taken, AfterTake
<1>21. CASE UNCHANGED vars
  BY <1>21 DEF vars
<1> QED BY <1>1, <1>2, <1>3, <1>4, <1>5, <1>6, <1>7, <1>8, <1>9, <1>10, <1>11, <1>12,
    <1>13, <1>14, <1>15, <1>16, <1>17, <1>18, <1>19, <1>20, <1>21 DEF Next, StreamNext,
    Closing

(* Every step keeps the segments apart.                                    *)
LEMMA DisjointStep ==
  ASSUME CountsOK, ClipsOK, Sources, Line, Disjoint, [Next]_vars
  PROVE  Disjoint'
<1> USE DEF Disjoint, stream, progress, usage, local, outcome
<1>1. CASE Connect
  BY <1>1 DEF Connect
<1>2. CASE StayLocal
  BY <1>2 DEF StayLocal
<1>3. ASSUME NEW isSpeech \in BOOLEAN, Audio(isSpeech) PROVE Disjoint'
  BY <1>3 DEF Audio, Feed, Fed, Paused, Capped
<1>4. CASE SocketDrops
  BY <1>4 DEF SocketDrops
<1>5. CASE Write
  BY <1>5 DEF Write
<1>6. CASE WriteClose
  BY <1>6 DEF WriteClose
<1>7. CASE WriteRaises
  BY <1>7 DEF WriteRaises, Fail, LogUsage, Taken, AfterTake
<1>8. ASSUME NEW n \in 1..MaxFrames, ReadChunk(n) PROVE Disjoint'
  BY <1>8 DEF ReadChunk
<1>9. ASSUME NEW n \in 1..MaxFrames, ReadBoundary(n) PROVE Disjoint'
  BY <1>9 DEF ReadBoundary
<1>10. ASSUME NEW n \in 1..MaxFrames, CommitRun(n) PROVE Disjoint'
  <2>1. reader = "committing" /\ n \in handing.from..handing.to /\ handing \in Clips /\ segments \in Seq(Clips)
    BY <1>10 DEF CommitRun, RunEnds, Frames, ClipsOK
  <2>2. Clip(handing.from, n).from = handing.from /\ Clip(handing.from, n).to = n /\ Clip(handing.from, n) \in Clips
    BY <2>1 DEF Clip, Clips
  <2>3. segments' = Append(segments, Clip(handing.from, n))
    BY <1>10 DEF CommitRun
  <2>4. ASSUME NEW i \in 1..Len(segments)
        PROVE Before(segments[i], Clip(handing.from, n)) \/ Before(Clip(handing.from, n), segments[i])
    <3>1. segments[i].from \in Nat /\ segments[i].to \in Nat
      BY <2>1, Elements
    <3>2. n \in Nat /\ n <= bounded /\ bounded \in Nat /\ given \in Nat /\ bounded <= given
      BY <2>1 DEF CountsOK, Sources, Clips
    <3> QED BY <2>1, <2>2, <3>1, <3>2 DEF CountsOK, Sources, Streamed, Clipped, Before
  <2> QED BY <2>1, <2>2, <2>3, <2>4, AppendedApart
<1>11. CASE CommitRaises
  BY <1>11 DEF CommitRaises
<1>12. CASE ReadEnds
  BY <1>12 DEF ReadEnds, Fail, LogUsage, Taken, AfterTake
<1>13. CASE Take
  BY <1>13 DEF Take
<1>14. CASE Transcribe
  <2>1. segments' = Append(segments, working) /\ working # Nothing /\ working \in Clips /\ segments \in Seq(Clips)
    BY <1>14 DEF Transcribe, ClipsOK
  <2>2. \A i \in 1..Len(segments) : Before(segments[i], working)
    BY <2>1 DEF Line, BeforeWork, Before
  <2> QED BY <2>1, <2>2, AppendedApart
<1>15. CASE TranscribeRaises
  BY <1>15 DEF TranscribeRaises
<1>16. CASE Stop
  BY <1>16 DEF Stop
<1>17. CASE BeginClose
  BY <1>17 DEF BeginClose
<1>18. CASE WriterAwaited
  BY <1>18 DEF WriterAwaited
<1>19. CASE ReaderAwaited
  <2>1. CASE segments' = segments
    BY <2>1
  <2>2. CASE reader = "committing" /\ segments' = Append(segments, handing)
    <3>1. handing \in Clips /\ segments \in Seq(Clips)
      BY DEF ClipsOK
    <3>2. ASSUME NEW i \in 1..Len(segments)
          PROVE Before(segments[i], handing) \/ Before(handing, segments[i])
      <4>1. segments[i].from \in Nat /\ segments[i].to \in Nat
        BY <3>1, Elements
      <4>2. handing.to \in Nat /\ handing.to <= bounded /\ bounded \in Nat /\ given \in Nat /\ bounded <= given
        BY <2>2, <3>1 DEF CountsOK, Sources, Clips
      <4> QED BY <2>2, <4>1, <4>2 DEF CountsOK, Sources, Streamed, Clipped, Before
    <3> QED BY <2>2, <3>1, <3>2, AppendedApart
  <2> QED BY <1>19, <2>1, <2>2 DEF ReaderAwaited
<1>20. CASE Bill
  BY <1>20 DEF Bill, LogUsage, Taken, AfterTake
<1>21. CASE UNCHANGED vars
  BY <1>21 DEF vars
<1> QED BY <1>1, <1>2, <1>3, <1>4, <1>5, <1>6, <1>7, <1>8, <1>9, <1>10, <1>11, <1>12,
    <1>13, <1>14, <1>15, <1>16, <1>17, <1>18, <1>19, <1>20, <1>21 DEF Next, StreamNext,
    Closing

(* Before the first frame there is nothing to keep apart.                  *)
LEMMA InitStep ==
  ASSUME FrameAssumption, Init
  PROVE  /\ FlagsOK /\ CountsOK /\ ClipsOK /\ DetectorOK /\ Billing /\ ReaderStage
         /\ Unclipped /\ Sources /\ Line /\ Disjoint
<1> USE DEF Init
<1>1. FlagsOK
  BY DEF FlagsOK
<1>2. CountsOK
  BY DEF CountsOK, FrameAssumption
<1>3. ClipsOK /\ DetectorOK
  BY NothingIsAClip DEF ClipsOK, DetectorOK, Quiet, FrameAssumption
<1>4. Billing /\ ReaderStage
  BY DEF Billing, ReaderStage
<1>5. Unclipped /\ Sources /\ Disjoint
  BY DEF Unclipped, Sources, Disjoint, Quiet
<1>6. Line
  BY DEF Line, BeforeWork, BeforeQueue, Quiet
<1> QED BY <1>1, <1>2, <1>3, <1>4, <1>5, <1>6

(* The types and the order of the counters, for any number of frames and   *)
(* any thresholds.                                                         *)
THEOREM TypeCorrect == Spec => []TypeOK
<1>1. FrameAssumption
  BY FrameAssumption
<1> DEFINE Inv == FlagsOK /\ CountsOK /\ ClipsOK /\ DetectorOK
<1>2. Init => Inv
  BY <1>1, InitStep
<1>3. Inv /\ [Next]_vars => Inv'
  <2> SUFFICES ASSUME Inv, [Next]_vars PROVE Inv'
    OBVIOUS
  <2>1. FlagsOK' /\ CountsOK' /\ ClipsOK' /\ DetectorOK'
    BY <1>1, FlagsStep, CountsStep, ClipsStep
  <2> QED BY <2>1
<1>4. Inv => TypeOK
  BY DEF TypeOK
<1> HIDE DEF Inv
<1> QED BY <1>2, <1>3, <1>4, PTL DEF Spec

(* Every frame handed to the stream is billed once, whether the drop or    *)
(* the close bills it, or one after the other.                             *)
THEOREM UsageOnce == Spec => []UsageBilledOnce
<1>1. FrameAssumption
  BY FrameAssumption
<1> DEFINE Inv == FlagsOK /\ CountsOK /\ ReaderStage /\ Billing
<1>2. Init => Inv
  BY <1>1, InitStep
<1>3. Inv /\ [Next]_vars => Inv'
  <2> SUFFICES ASSUME Inv, [Next]_vars PROVE Inv'
    OBVIOUS
  <2>1. FlagsOK' /\ CountsOK' /\ ReaderStage' /\ Billing'
    BY <1>1, FlagsStep, CountsStep, ReaderStep, BillingStep
  <2> QED BY <2>1
<1>4. Inv => UsageBilledOnce
  BY DEF Billing, UsageBilledOnce
<1> HIDE DEF Inv
<1> QED BY <1>2, <1>3, <1>4, PTL DEF Spec

(* After the handler has left, only the reader of a stream that dropped by *)
(* itself still commits.                                                   *)
THEOREM LateCommits == Spec => LateCommitsFollowADrop
<1>1. FrameAssumption
  BY FrameAssumption
<1> DEFINE Inv == FlagsOK /\ ReaderStage
           Still == handler = "left" /\ ~fired => handing' = handing /\ reader' = reader
<1>2. Init => Inv
  BY <1>1, InitStep
<1>3. Inv /\ [Next]_vars => Inv'
  BY FlagsStep, ReaderStep
<1>4. Inv /\ [Next]_vars => [Still]_vars
  <2> SUFFICES ASSUME FlagsOK, ReaderStage, [Next]_vars, handler = "left", ~fired
               PROVE  handing' = handing /\ reader' = reader
    OBVIOUS
  <2>1. reader \in {"none", "done"}
    BY DEF ReaderStage
  <2> QED BY <2>1 DEF Next, StreamNext, Closing, vars, stream, progress, usage, local, outcome, Connect,
        StayLocal, Audio, SocketDrops, Write, WriteClose, WriteRaises, ReadChunk, ReadBoundary, CommitRun,
        CommitRaises, ReadEnds, Take, Transcribe, TranscribeRaises, Stop, BeginClose, WriterAwaited,
        ReaderAwaited, Bill
<1> HIDE DEF Inv
<1> QED BY <1>2, <1>3, <1>4, PTL DEF Spec, LateCommitsFollowADrop

(* No frame is in two segments, whether the stream or the detector it fell *)
(* back to transcribed it.                                                 *)
THEOREM OnceTranscribed == Spec => []TranscribedOnce
<1>1. FrameAssumption
  BY FrameAssumption
<1> DEFINE Types == FlagsOK /\ CountsOK /\ ClipsOK /\ DetectorOK /\ ReaderStage
           Order == Unclipped /\ Sources /\ Line /\ Disjoint
<1>2. Init => Types /\ Order
  BY <1>1, InitStep
<1>3. Types /\ Order /\ [Next]_vars => (Types /\ Order)'
  <2> SUFFICES ASSUME Types, Order, [Next]_vars PROVE Types' /\ Order'
    OBVIOUS
  <2>1. FlagsOK' /\ CountsOK' /\ ClipsOK' /\ DetectorOK' /\ ReaderStage'
    BY <1>1, FlagsStep, CountsStep, ClipsStep, ReaderStep
  <2>2. Unclipped' /\ Sources' /\ Line' /\ Disjoint'
    BY <1>1, UnclippedStep, SourcesStep, LineStep, DisjointStep
  <2> QED BY <2>1, <2>2
<1>4. Types /\ Order => TranscribedOnce
  <2> SUFFICES ASSUME ClipsOK, Disjoint, NEW i \in 1..Len(segments), NEW j \in 1..Len(segments), i # j
               PROVE  Frames(segments[i]) \cap Frames(segments[j]) = {}
    BY DEF TranscribedOnce
  <2>1. Before(segments[i], segments[j]) \/ Before(segments[j], segments[i])
    BY DEF Disjoint
  <2>2. /\ segments[i].from \in Nat /\ segments[i].to \in Nat
        /\ segments[j].from \in Nat /\ segments[j].to \in Nat
    BY Elements DEF ClipsOK
  <2> QED BY <2>1, <2>2 DEF Before, Frames
<1> HIDE DEF Types, Order
<1> QED BY <1>2, <1>3, <1>4, PTL DEF Spec

-----------------------------------------------------------------------------
(* No frame is lost without a fault                                        *)

(* The stages of the stream: the reader holds an utterance only while it    *)
(* commits it, CloseStream is written behind all the audio, and a routed    *)
(* stream that has no reader any more is down.                              *)
Stages ==
    /\ reader # "committing" => handing = Nothing
    /\ closing => handler \in {"flushing", "awaiting", "billing", "left"}
    /\ asked => closing /\ written = given
    /\ routed /\ handler = "receiving" => reader \in {"running", "committing"} \/ socket = "down"

(* The detector's count is of the frames of its clip.                      *)
Counting == detector.speech > 0 => detector.speech = Cardinality(speech \cap (detector.from..heard))

(* Where a frame handed to the stream may be, and one fed to the detector.  *)
OfStream(f) ==
    \/ InClips(f, segments) \/ f \in failed \/ f \in Frames(handing)
    \/ f > bounded /\ reader \in {"running", "committing"}
    \/ StreamBroke

OfDetector(f) ==
    \/ InClips(f, segments) \/ f \in failed \/ f \in Frames(working) \/ InClips(f, queue)
    \/ detector.speech > 0 /\ f >= detector.from
    \/ TooShort(f)

Accounted == \A f \in speech : IF f <= given THEN OfStream(f) ELSE OfDetector(f)

(* Every step keeps the stages.                                            *)
LEMMA StagesStep ==
  ASSUME FlagsOK, CountsOK, ReaderStage, Stages, [Next]_vars
  PROVE  Stages'
<1> USE DEF Stages, stream, progress, usage, local, outcome
<1>1. CASE Connect
  BY <1>1 DEF Connect, ReaderStage
<1>2. CASE StayLocal
  BY <1>2 DEF StayLocal, ReaderStage
<1>3. ASSUME NEW isSpeech \in BOOLEAN, Audio(isSpeech) PROVE Stages'
  BY <1>3 DEF Audio
<1>4. CASE SocketDrops
  BY <1>4 DEF SocketDrops
<1>5. CASE Write
  BY <1>5 DEF Write, CountsOK
<1>6. CASE WriteClose
  BY <1>6 DEF WriteClose
<1>7. CASE WriteRaises
  BY <1>7 DEF WriteRaises, Fail, LogUsage, Taken, AfterTake
<1>8. ASSUME NEW n \in 1..MaxFrames, ReadChunk(n) PROVE Stages'
  BY <1>8 DEF ReadChunk
<1>9. ASSUME NEW n \in 1..MaxFrames, ReadBoundary(n) PROVE Stages'
  BY <1>9 DEF ReadBoundary
<1>10. ASSUME NEW n \in 1..MaxFrames, CommitRun(n) PROVE Stages'
  BY <1>10 DEF CommitRun
<1>11. CASE CommitRaises
  BY <1>11 DEF CommitRaises
<1>12. CASE ReadEnds
  BY <1>12 DEF ReadEnds, Fail, LogUsage, Taken, AfterTake
<1>13. CASE Take
  BY <1>13 DEF Take
<1>14. CASE Transcribe
  BY <1>14 DEF Transcribe
<1>15. CASE TranscribeRaises
  BY <1>15 DEF TranscribeRaises
<1>16. CASE Stop
  BY <1>16 DEF Stop
<1>17. CASE BeginClose
  BY <1>17 DEF BeginClose
<1>18. CASE WriterAwaited
  BY <1>18 DEF WriterAwaited
<1>19. CASE ReaderAwaited
  BY <1>19 DEF ReaderAwaited
<1>20. CASE Bill
  BY <1>20 DEF Bill, LogUsage, Taken, AfterTake
<1>21. CASE UNCHANGED vars
  BY <1>21 DEF vars
<1> QED BY <1>1, <1>2, <1>3, <1>4, <1>5, <1>6, <1>7, <1>8, <1>9, <1>10, <1>11, <1>12,
    <1>13, <1>14, <1>15, <1>16, <1>17, <1>18, <1>19, <1>20, <1>21 DEF Next, StreamNext,
    Closing

(* The detector counts a frame with speech, and only those.                *)
LEMMA CountingFeed ==
  ASSUME FrameAssumption, CountsOK, DetectorOK, Counting, NEW isSpeech \in BOOLEAN,
         heard' = heard + 1, speech' = IF isSpeech THEN speech \cup {heard + 1} ELSE speech,
         Feed(heard + 1, isSpeech)
  PROVE  Counting'
<1> DEFINE fed == Fed(heard + 1, isSpeech)
<1>0. /\ heard \in Nat /\ speech \subseteq 1..heard /\ detector.speech \in Nat /\ detector.from \in Nat
      /\ detector.speech > 0 => detector.from <= heard
  BY DEF CountsOK, DetectorOK, FrameAssumption
<1>1. CASE Paused(fed) \/ Capped(fed)
  <2>1. detector' = Quiet
    BY <1>1 DEF Feed
  <2> QED BY <2>1 DEF Counting, Quiet
<1>2. CASE ~(Paused(fed) \/ Capped(fed)) /\ ~isSpeech
  <2>1. detector'.speech = detector.speech /\ detector'.from = detector.from /\ speech' = speech
    BY <1>2 DEF Feed, Fed, DetectorOK
  <2>2. speech \cap (detector.from..heard + 1) = speech \cap (detector.from..heard)
    BY <1>0
  <2> QED BY <2>1, <2>2 DEF Counting
<1>3. CASE ~(Paused(fed) \/ Capped(fed)) /\ isSpeech
  <2>1. /\ detector'.speech = detector.speech + 1 /\ speech' = speech \cup {heard + 1}
        /\ detector'.from = IF detector.speech = 0 THEN heard + 1 ELSE detector.from
    BY <1>3 DEF Feed, Fed
  <2>2. CASE detector.speech = 0
    <3>1. (speech \cup {heard + 1}) \cap (heard + 1..heard + 1) = {heard + 1}
      BY <1>0
    <3>2. Cardinality({heard + 1}) = 1
      BY FS_Singleton
    <3>3. detector'.speech = 1 /\ detector'.from = heard + 1
      BY <2>1, <2>2
    <3>4. speech' \cap (detector'.from..heard') = {heard + 1}
      BY <2>1, <3>1, <3>3
    <3> QED BY <3>2, <3>3, <3>4 DEF Counting
  <2>3. CASE detector.speech # 0
    <3>1. PICK S : S = speech \cap (detector.from..heard)
      OBVIOUS
    <3>2. (speech \cup {heard + 1}) \cap (detector.from..heard + 1) = S \cup {heard + 1} /\ heard + 1 \notin S
      BY <1>0, <2>3, <3>1
    <3>3. IsFiniteSet(S)
      <4>1. IsFiniteSet(1..heard) /\ S \in SUBSET (1..heard)
        BY <1>0, <3>1, FS_Interval
      <4> QED BY <4>1, FS_Subset
    <3>4. Cardinality(S \cup {heard + 1}) = Cardinality(S) + 1
      BY <3>2, <3>3, FS_AddElement
    <3>5. detector.speech = Cardinality(S)
      BY <1>0, <2>3, <3>1 DEF Counting
    <3> QED BY <2>1, <2>3, <3>2, <3>4, <3>5 DEF Counting
  <2> QED BY <2>2, <2>3
<1> QED BY <1>1, <1>2, <1>3

(* Every step keeps the detector's count.                                  *)
LEMMA CountingStep ==
  ASSUME FrameAssumption, CountsOK, DetectorOK, Unclipped, Counting, [Next]_vars
  PROVE  Counting'
<1>1. CASE UNCHANGED <<detector, speech, heard>>
  BY <1>1 DEF Counting
<1>2. ASSUME NEW isSpeech \in BOOLEAN, Audio(isSpeech) PROVE Counting'
  <2>1. CASE routed
    <3>1. detector' = detector /\ detector.speech = 0
      BY <1>2, <2>1 DEF Audio, Unclipped
    <3> QED BY <3>1 DEF Counting
  <2>2. CASE ~routed
    BY <1>2, <2>2, CountingFeed DEF Audio
  <2> QED BY <2>1, <2>2
<1>3. CASE Stop
  BY <1>3 DEF Stop, Counting, Quiet
<1> QED BY <1>1, <1>2, <1>3 DEF Next, StreamNext, Closing, vars, stream, progress, usage, local, outcome,
        Connect, StayLocal, SocketDrops, Write, WriteClose, WriteRaises, ReadChunk, ReadBoundary, CommitRun,
        CommitRaises, ReadEnds, Take, Transcribe, TranscribeRaises, BeginClose, WriterAwaited,
        ReaderAwaited, Bill

(* What is in clips when one is added, or the first is taken.              *)
LEMMA InAppended ==
  ASSUME NEW q \in Seq(Clips), NEW c \in Clips, NEW f
  PROVE  InClips(f, Append(q, c)) <=> InClips(f, q) \/ f \in Frames(c)
<1>1. /\ Len(q) \in Nat /\ Len(Append(q, c)) = Len(q) + 1
      /\ \A i \in 1..Len(q) : Append(q, c)[i] = q[i]
      /\ Append(q, c)[Len(q) + 1] = c
  BY Appended
<1>2. 1..Len(q) + 1 = (1..Len(q)) \cup {Len(q) + 1}
  BY <1>1
<1> QED BY <1>1, <1>2 DEF InClips

(* Taking the first clip keeps every frame in it or in those left.         *)
LEMMA InTaken ==
  ASSUME NEW q \in Seq(Clips), q # <<>>, NEW f, InClips(f, q)
  PROVE  f \in Frames(Head(q)) \/ InClips(f, Tail(q))
<1>1. PICK i \in 1..Len(q) : f \in Frames(q[i])
  BY DEF InClips
<1>2. CASE i = 1
  BY <1>1, <1>2
<1>3. CASE i # 1
  <2>1. i - 1 \in 1..Len(Tail(q)) /\ Tail(q)[i - 1] = q[i]
    BY <1>3
  <2> QED BY <1>1, <2>1 DEF InClips
<1> QED BY <1>2, <1>3

(* A step that leaves the stream alone, but for a segment more, keeps its   *)
(* frames accounted for.                                                   *)
LEMMA StreamKept ==
  ASSUME ClipsOK, NEW f, OfStream(f), UNCHANGED <<handing, bounded, reader, socket>>,
         segments' = segments \/ \E c \in Clips : segments' = Append(segments, c),
         failed \subseteq failed', late => late'
  PROVE  OfStream(f)'
<1>1. InClips(f, segments) => InClips(f, segments')
  BY InAppended DEF ClipsOK
<1> QED BY <1>1 DEF OfStream, StreamBroke, InClips, Frames

(* And one that leaves the detector alone, those fed to it.                *)
LEMMA DetectorKept ==
  ASSUME ClipsOK, NEW f, OfDetector(f), UNCHANGED <<speech, heard, detector, queue, working>>,
         segments' = segments \/ \E c \in Clips : segments' = Append(segments, c),
         failed \subseteq failed',
         handler \notin {"connecting", "receiving"} => handler' \notin {"connecting", "receiving"}
  PROVE  OfDetector(f)'
<1>1. InClips(f, segments) => InClips(f, segments')
  BY InAppended DEF ClipsOK
<1>2. TooShort(f) => TooShort(f)'
  BY DEF TooShort
<1>3. InClips(f, queue) => InClips(f, queue)'
  BY DEF InClips, Frames
<1> QED BY <1>1, <1>2, <1>3 DEF OfDetector, InClips, Frames

(* A frame fed to the detector is in its clip, or in the one just cut.     *)
LEMMA FedAccounted ==
  ASSUME FrameAssumption, CountsOK, ClipsOK, DetectorOK, heard < MaxFrames, heard' = heard + 1,
         NEW isSpeech \in BOOLEAN, Feed(heard + 1, isSpeech), NEW f \in 1..heard + 1,
         \/ detector.speech > 0 /\ f >= detector.from
         \/ isSpeech /\ f = heard + 1
         \/ InClips(f, queue)
  PROVE  InClips(f, queue') \/ (detector'.speech > 0 /\ f >= detector'.from)
<1> DEFINE fed == Fed(heard + 1, isSpeech)
<1>1. /\ heard \in Nat /\ MaxFrames \in Nat /\ detector.speech \in Nat /\ detector.from \in Nat
      /\ detector.speech > 0 => detector.from \in 1..heard
      /\ queue \in Seq(Clips)
  BY DEF FrameAssumption, CountsOK, DetectorOK, ClipsOK
<1>2. /\ fed.from = IF isSpeech /\ detector.speech = 0 THEN heard + 1 ELSE detector.from
      /\ fed.speech = IF isSpeech THEN detector.speech + 1 ELSE detector.speech
  BY DEF Fed, DetectorOK
<1>3. CASE Paused(fed) \/ Capped(fed)
  <2>1. queue' = Append(queue, Clip(fed.from, heard + 1))
    BY <1>3 DEF Feed
  <2>2. fed.speech > 0
    BY <1>3, <1>1, <1>2 DEF Paused, Capped, FrameAssumption
  <2> HIDE DEF fed
  <2>3. fed.from \in 1..heard + 1
    BY <1>1, <1>2, <2>2
  <2>4. Clip(fed.from, heard + 1) \in Clips
    BY <1>1, <2>3 DEF Clip, Clips
  <2>5. CASE InClips(f, queue)
    BY <1>1, <2>1, <2>4, <2>5, InAppended
  <2>6. CASE ~InClips(f, queue)
    <3>1. f >= fed.from
      BY <1>1, <1>2, <2>6
    <3>2. f \in Frames(Clip(fed.from, heard + 1))
      BY <1>1, <2>3, <3>1 DEF Frames, Clip
    <3> QED BY <1>1, <2>1, <2>4, <3>2, InAppended
  <2> QED BY <2>5, <2>6
<1>4. CASE ~(Paused(fed) \/ Capped(fed))
  <2>1. detector' = fed /\ queue' = queue
    BY <1>4 DEF Feed
  <2> HIDE DEF fed
  <2> QED BY <1>1, <1>2, <2>1
<1> QED BY <1>3, <1>4

(* What the client sends is accounted for where it goes.                   *)
LEMMA AudioAccounted ==
  ASSUME FrameAssumption, CountsOK, ClipsOK, DetectorOK, Billing, Unclipped, Stages, Accounted,
         NEW isSpeech \in BOOLEAN, Audio(isSpeech)
  PROVE  Accounted'
<1>0. /\ heard' = heard + 1 /\ heard \in Nat /\ heard < MaxFrames /\ handler = "receiving"
      /\ speech' = IF isSpeech THEN speech \cup {heard + 1} ELSE speech
      /\ speech \subseteq 1..heard /\ given \in Nat /\ given <= heard /\ bounded \in Nat /\ bounded <= given
      /\ UNCHANGED <<handing, bounded, reader, socket, segments, failed, late, working>>
  BY DEF Audio, CountsOK, stream, outcome
<1> SUFFICES ASSUME NEW f \in speech'
             PROVE  IF f <= given' THEN OfStream(f)' ELSE OfDetector(f)'
  BY DEF Accounted
<1>1. f \in 1..heard + 1 /\ (f \in speech \/ (isSpeech /\ f = heard + 1))
  BY <1>0
<1>2. CASE routed
  <2>1. given = heard /\ given' = heard + 1
    BY <1>2 DEF Audio, Billing
  <2>2. CASE f \in speech
    <3>1. OfStream(f)
      BY <1>0, <2>1, <2>2 DEF Accounted
    <3>2. OfStream(f)'
      BY <1>0, <3>1, StreamKept
    <3> QED BY <1>1, <2>1, <3>2
  <2>3. CASE f = heard + 1
    <3>1. f > bounded'
      BY <1>0, <2>3
    <3>2. reader' \in {"running", "committing"} \/ socket' = "down"
      BY <1>0, <1>2 DEF Stages
    <3>3. OfStream(f)'
      BY <3>1, <3>2 DEF OfStream, StreamBroke
    <3> QED BY <2>1, <2>3, <3>3
  <2> QED BY <1>1, <2>2, <2>3
<1>3. CASE ~routed
  <2>1. given' = given /\ Feed(heard + 1, isSpeech)
    BY <1>3 DEF Audio
  <2>2. CASE f <= given
    <3>1. f \in speech
      BY <1>0, <1>1, <2>2
    <3>2. OfStream(f)
      BY <2>2, <3>1 DEF Accounted
    <3>3. OfStream(f)'
      BY <1>0, <3>2, StreamKept
    <3> QED BY <2>1, <2>2, <3>3
  <2>3. CASE ~(f <= given)
    <3>1. \/ InClips(f, segments) \/ f \in failed \/ f \in Frames(working)
          \/ InClips(f, queue) \/ (detector.speech > 0 /\ f >= detector.from)
          \/ isSpeech /\ f = heard + 1
      <4>1. CASE f \in speech
        <5>1. OfDetector(f)
          BY <2>3, <4>1 DEF Accounted
        <5>2. ~TooShort(f)
          BY <1>0 DEF TooShort
        <5> QED BY <5>1, <5>2 DEF OfDetector
      <4> QED BY <1>1, <4>1
    <3>2. CASE InClips(f, segments) \/ f \in failed \/ f \in Frames(working)
      <4>1. InClips(f, segments)' \/ f \in failed' \/ f \in Frames(working)'
        BY <1>0, <3>2 DEF InClips, Frames
      <4>2. OfDetector(f)'
        BY <4>1 DEF OfDetector
      <4> QED BY <2>1, <2>3, <4>2
    <3>3. CASE \/ InClips(f, queue) \/ (detector.speech > 0 /\ f >= detector.from)
               \/ isSpeech /\ f = heard + 1
      <4>1. InClips(f, queue') \/ (detector'.speech > 0 /\ f >= detector'.from)
        BY <1>0, <1>1, <2>1, <3>3, FedAccounted
      <4>2. InClips(f, queue') <=> InClips(f, queue)'
        BY DEF InClips
      <4>3. OfDetector(f)'
        BY <4>1, <4>2 DEF OfDetector
      <4> QED BY <2>1, <2>3, <4>3
    <3> QED BY <3>1, <3>2, <3>3
  <2> QED BY <2>2, <2>3
<1> QED BY <1>2, <1>3


(* A step of nobody in particular: what is accounted for stays so when both *)
(* sides keep what they hold.                                              *)
LEMMA BothKept ==
  ASSUME ClipsOK, Accounted, UNCHANGED <<speech, given>>,
         \A f \in speech : f <= given /\ OfStream(f) => OfStream(f)',
         \A f \in speech : ~(f <= given) /\ OfDetector(f) => OfDetector(f)'
  PROVE  Accounted'
<1> SUFFICES ASSUME NEW f \in speech
             PROVE  IF f <= given THEN OfStream(f)' ELSE OfDetector(f)'
  BY DEF Accounted
<1> QED BY DEF Accounted

(* What the reader does with an utterance.                                 *)
LEMMA BoundaryAccounted ==
  ASSUME CountsOK, ClipsOK, Stages, NEW f \in speech, OfStream(f), NEW n \in 1..MaxFrames, ReadBoundary(n)
  PROVE  OfStream(f)'
<1>1. /\ reader = "running" /\ handing = Nothing /\ bounded' = n
      /\ UNCHANGED <<segments, failed, socket, late>>
  BY DEF ReadBoundary, Stages, outcome
<1>2. f \notin Frames(handing)
  BY <1>1 DEF Nothing, Clip, Frames
<1>3. CASE InClips(f, segments) \/ f \in failed \/ StreamBroke
  BY <1>1, <1>3 DEF OfStream, StreamBroke, InClips, Frames
<1>4. CASE f > bounded /\ f <= n
  <2>1. f \in Nat /\ bounded \in Nat
    BY DEF CountsOK
  <2>2. f \in Frames(Clip(bounded + 1, n))
    BY <1>4, <2>1 DEF Frames, Clip
  <2>3. ~Silent(Clip(bounded + 1, n))
    BY <2>2 DEF Silent
  <2>4. handing' = Clip(bounded + 1, n)
    BY <2>3 DEF ReadBoundary
  <2> QED BY <2>2, <2>4 DEF OfStream, Frames
<1>5. CASE f > bounded /\ ~(f <= n)
  <2>1. reader' \in {"running", "committing"}
    BY <1>1 DEF ReadBoundary
  <2>2. f > bounded'
    BY <1>1, <1>5 DEF CountsOK
  <2> QED BY <2>1, <2>2 DEF OfStream
<1> QED BY <1>2, <1>3, <1>4, <1>5 DEF OfStream

(* What a run takes of the utterance, and what it leaves.                  *)
LEMMA RunAccounted ==
  ASSUME ClipsOK, NEW f \in Nat, OfStream(f), NEW m \in 1..MaxFrames, CommitRun(m)
  PROVE  OfStream(f)'
<1>1. /\ reader = "committing" /\ m \in handing.from..handing.to /\ handing \in Clips /\ segments \in Seq(Clips)
      /\ handing.from \in Nat /\ handing.to \in Nat /\ handing.to <= MaxFrames
      /\ UNCHANGED <<bounded, failed, socket, late>>
  BY DEF CommitRun, RunEnds, Frames, ClipsOK, Clips
<1>2. Clip(handing.from, m) \in Clips /\ segments' = Append(segments, Clip(handing.from, m))
  BY <1>1 DEF CommitRun, Clip, Clips
<1>3. CASE InClips(f, segments) \/ f \in failed \/ StreamBroke
  <2>1. InClips(f, segments) => InClips(f, segments')
    BY <1>1, <1>2, InAppended
  <2> QED BY <1>1, <1>3, <2>1 DEF OfStream, StreamBroke, InClips, Frames
<1>4. CASE f \in Frames(handing)
  <2>1. CASE f <= m
    <3>1. f \in Frames(Clip(handing.from, m))
      BY <1>1, <1>4, <2>1 DEF Frames, Clip
    <3>2. InClips(f, segments')
      BY <1>1, <1>2, <3>1, InAppended
    <3> QED BY <3>2 DEF OfStream, InClips, Frames
  <2>2. CASE ~(f <= m)
    <3>1. m # handing.to
      BY <1>1, <1>4, <2>2 DEF Frames
    <3>2. handing' = Clip(m + 1, handing.to)
      BY <3>1 DEF CommitRun
    <3>3. f \in Frames(handing')
      BY <1>1, <1>4, <2>2, <3>2 DEF Frames, Clip
    <3> QED BY <3>3 DEF OfStream, Frames
  <2> QED BY <2>1, <2>2
<1>5. CASE f > bounded
  <2>1. reader' \in {"running", "committing"}
    BY DEF CommitRun
  <2> QED BY <1>1, <1>5, <2>1 DEF OfStream
<1> QED BY <1>3, <1>4, <1>5 DEF OfStream

(* What close() cuts short is late.                                        *)
LEMMA CloseAccounted ==
  ASSUME FlagsOK, ClipsOK, Stages, NEW f, OfStream(f), ReaderAwaited
  PROVE  OfStream(f)'
<1>1. CASE reader = "done"
  <2>1. handing = Nothing /\ handing' = Nothing /\ reader' = "done" /\ segments' = segments
    BY <1>1 DEF ReaderAwaited, Stages
  <2>2. UNCHANGED <<bounded, socket, failed>> /\ late' = late
    BY <1>1 DEF ReaderAwaited, FlagsOK
  <2> QED BY <1>1, <2>1, <2>2, StreamKept
<1>2. CASE reader # "done"
  BY <1>2 DEF ReaderAwaited, OfStream, StreamBroke
<1> QED BY <1>1, <1>2

(* What the session stops on is queued, or too short.                      *)
LEMMA StopAccounted ==
  ASSUME FrameAssumption, CountsOK, ClipsOK, DetectorOK, Counting, NEW f \in speech, OfDetector(f), Stop
  PROVE  OfDetector(f)'
<1>1. /\ f \in 1..heard /\ heard \in Nat /\ speech \subseteq 1..heard
      /\ queue \in Seq(Clips) /\ MinSpeech \in Nat \ {0} /\ detector.speech \in Nat
      /\ detector.speech > 0 => detector.from \in 1..heard
      /\ handler = "receiving" /\ handler' \in {"leaving", "left"}
      /\ UNCHANGED <<heard, speech, working, segments, failed>>
  BY DEF CountsOK, ClipsOK, DetectorOK, FrameAssumption, Stop, outcome
<1>2. ~TooShort(f)
  BY <1>1 DEF TooShort
<1>3. CASE InClips(f, segments) \/ f \in failed \/ f \in Frames(working)
  BY <1>1, <1>3 DEF OfDetector, InClips, Frames
<1>4. CASE detector.speech >= MinSpeech
  <2>1. queue' = Append(queue, Clip(detector.from, heard)) /\ detector.from \in 1..heard
    BY <1>1, <1>4 DEF Stop
  <2>2. Clip(detector.from, heard) \in Clips
    BY <1>1, <2>1, ClipIsAClip
  <2>3. f >= detector.from => f \in Frames(Clip(detector.from, heard))
    BY <1>1, <2>1 DEF Frames, Clip
  <2>4. InClips(f, queue) \/ f >= detector.from => InClips(f, queue')
    BY <1>1, <2>1, <2>2, <2>3, InAppended
  <2>5. InClips(f, queue') <=> InClips(f, queue)'
    BY DEF InClips
  <2> QED BY <1>2, <1>3, <2>4, <2>5 DEF OfDetector
<1>5. CASE ~(detector.speech >= MinSpeech)
  <2>1. queue' = queue
    BY <1>5 DEF Stop
  <2>2. CASE InClips(f, queue)
    BY <2>1, <2>2 DEF OfDetector, InClips, Frames
  <2>3. CASE detector.speech > 0 /\ f >= detector.from
    <3>1. PICK S : S = speech \cap (detector.from..heard)
      OBVIOUS
    <3>2. PICK T : T = speech \cap (f..heard)
      OBVIOUS
    <3>3. T \subseteq S
      BY <1>1, <2>3, <3>1, <3>2
    <3>4. IsFiniteSet(S)
      <4>1. IsFiniteSet(1..heard)
        BY <1>1, FS_Interval
      <4>2. S \in SUBSET (1..heard)
        BY <1>1, <3>1
      <4> QED BY <4>1, <4>2, FS_Subset
    <3>5. Cardinality(T) <= Cardinality(S) /\ Cardinality(T) \in Nat /\ Cardinality(S) \in Nat
      BY <3>3, <3>4, FS_Subset, FS_CardinalityType
    <3>6. Cardinality(S) < MinSpeech
      BY <1>1, <1>5, <2>3, <3>1 DEF Counting
    <3>7. Cardinality(T) < MinSpeech
      BY <1>1, <3>5, <3>6
    <3>8. TooShort(f)'
      BY <1>1, <3>2, <3>7 DEF TooShort
    <3> QED BY <3>8 DEF OfDetector
  <2> QED BY <1>2, <1>3, <2>2, <2>3 DEF OfDetector
<1> QED BY <1>4, <1>5

(* Every step keeps the frames with speech in them accounted for.          *)
LEMMA AccountedStep ==
  ASSUME FrameAssumption, FlagsOK, CountsOK, ClipsOK, DetectorOK, ReaderStage, Billing, Unclipped,
         Stages, Counting, Accounted, [Next]_vars
  PROVE  Accounted'
<1> USE DEF stream, progress, usage, local, outcome
<1>0. /\ \A f \in speech : f \in Nat
      /\ handing \in Clips /\ working \in Clips /\ queue \in Seq(Clips)
  BY DEF CountsOK, ClipsOK
<1>1. CASE Connect
  <2>1. speech' = {}
    BY <1>1 DEF Connect, ReaderStage, CountsOK
  <2> QED BY <2>1 DEF Accounted
<1>2. CASE StayLocal \/ SocketDrops \/ Write \/ WriteClose \/ WriteRaises \/ BeginClose \/ WriterAwaited \/ Bill
           \/ (\E n \in 1..MaxFrames : ReadChunk(n)) \/ UNCHANGED vars
  <2>1. /\ UNCHANGED <<speech, given, heard, handing, bounded, reader, detector, queue, working, segments, failed>>
        /\ socket' = socket \/ socket' = "down"
    BY <1>2 DEF StayLocal, SocketDrops, Write, WriteClose, WriteRaises, BeginClose, WriterAwaited, Bill,
         ReadChunk, vars
  <2>2. late' = late \/ late' = TRUE
    BY <1>2 DEF FlagsOK, StayLocal, SocketDrops, Write, WriteClose, WriteRaises, BeginClose, WriterAwaited,
         Bill, ReadChunk, vars
  <2>3. handler \notin {"connecting", "receiving"} => handler' \notin {"connecting", "receiving"}
    BY <1>2 DEF StayLocal, SocketDrops, Write, WriteClose, WriteRaises, BeginClose, WriterAwaited, Bill,
         ReadChunk, vars
  <2>4. ASSUME NEW f \in speech, OfStream(f) PROVE OfStream(f)'
    <3>1. InClips(f, segments) => InClips(f, segments)'
      BY <2>1 DEF InClips, Frames
    <3>2. f \in Frames(handing) => f \in Frames(handing)'
      BY <2>1 DEF Frames
    <3>3. StreamBroke => StreamBroke'
      BY <2>1, <2>2 DEF StreamBroke
    <3> QED BY <2>1, <2>4, <3>1, <3>2, <3>3 DEF OfStream
  <2>5. \A f \in speech : OfDetector(f) => OfDetector(f)'
    BY <2>1, <2>3, DetectorKept
  <2> QED BY <2>1, <2>4, <2>5, BothKept
<1>3. ASSUME NEW isSpeech \in BOOLEAN, Audio(isSpeech) PROVE Accounted'
  BY <1>3, AudioAccounted
<1>4. ASSUME NEW n \in 1..MaxFrames, ReadBoundary(n) PROVE Accounted'
  <2>1. \A f \in speech : OfStream(f) => OfStream(f)'
    BY <1>4, BoundaryAccounted
  <2>2. UNCHANGED <<speech, given, heard, handler, detector, queue, working, segments, failed>>
    BY <1>4 DEF ReadBoundary
  <2>3. \A f \in speech : OfDetector(f) => OfDetector(f)'
    BY <2>2, DetectorKept
  <2> QED BY <2>1, <2>2, <2>3, BothKept
<1>5. ASSUME NEW n \in 1..MaxFrames, CommitRun(n) PROVE Accounted'
  <2>1. \A f \in speech : OfStream(f) => OfStream(f)'
    BY <1>0, <1>5, RunAccounted
  <2>2. /\ UNCHANGED <<speech, given, heard, handler, detector, queue, working, failed>>
        /\ \E c \in Clips : segments' = Append(segments, c)
    <3>1. Clip(handing.from, n) \in Clips
      BY <1>0, <1>5 DEF CommitRun, RunEnds, Frames, Clip, Clips
    <3> QED BY <1>5, <3>1 DEF CommitRun
  <2>3. \A f \in speech : OfDetector(f) => OfDetector(f)'
    BY <2>2, DetectorKept
  <2> QED BY <2>1, <2>2, <2>3, BothKept
<1>6. CASE CommitRaises
  <2>1. /\ UNCHANGED <<speech, given, heard, handler, detector, queue, working, segments, bounded, socket, late>>
        /\ reader' = "running" /\ failed' = failed \cup Frames(handing)
    BY <1>6 DEF CommitRaises
  <2>2. \A f \in speech : OfStream(f) => OfStream(f)'
    BY <2>1 DEF OfStream, StreamBroke, InClips, Frames
  <2>3. \A f \in speech : OfDetector(f) => OfDetector(f)'
    BY <2>1, DetectorKept
  <2> QED BY <2>1, <2>2, <2>3, BothKept
<1>7. CASE ReadEnds
  <2>1. /\ UNCHANGED <<speech, given, heard, handler, local, segments, failed, handing, bounded, socket, late>>
        /\ socket = "down" \/ bounded = given
    BY <1>7 DEF ReadEnds, Fail, LogUsage, Taken, AfterTake, Stages
  <2>2. ASSUME NEW f \in speech, f <= given, OfStream(f) PROVE OfStream(f)'
    <3>1. CASE socket = "down"
      BY <2>1, <3>1 DEF OfStream, StreamBroke
    <3>2. CASE bounded = given
      <4>1. ~(f > bounded)
        BY <1>0, <2>2, <3>2 DEF CountsOK
      <4> QED BY <2>1, <2>2, <4>1 DEF OfStream, StreamBroke, InClips, Frames
    <3> QED BY <2>1, <3>1, <3>2
  <2>3. \A f \in speech : OfDetector(f) => OfDetector(f)'
    BY <2>1, DetectorKept
  <2> QED BY <2>1, <2>2, <2>3, BothKept
<1>8. CASE Take
  <2>1. /\ UNCHANGED <<speech, given, heard, handler, detector, segments, failed, handing, bounded, reader, socket, late>>
        /\ working = Nothing /\ queue # <<>> /\ working' = Head(queue) /\ queue' = Tail(queue)
    BY <1>8 DEF Take
  <2>2. \A f \in speech : OfStream(f) => OfStream(f)'
    BY <2>1, StreamKept
  <2>3. ASSUME NEW f \in speech, OfDetector(f) PROVE OfDetector(f)'
    <3>1. f \notin Frames(working)
      BY <2>1 DEF Nothing, Clip, Frames
    <3>2. CASE InClips(f, queue)
      <4>1. f \in Frames(working') \/ InClips(f, queue')
        BY <1>0, <2>1, <3>2, InTaken
      <4>2. f \in Frames(working)' \/ InClips(f, queue)'
        BY <4>1 DEF InClips, Frames
      <4> QED BY <4>2 DEF OfDetector
    <3>3. CASE InClips(f, segments) \/ f \in failed \/ (detector.speech > 0 /\ f >= detector.from) \/ TooShort(f)
      BY <2>1, <3>3 DEF OfDetector, InClips, Frames, TooShort
    <3> QED BY <2>3, <3>1, <3>2, <3>3 DEF OfDetector
  <2> QED BY <2>1, <2>2, <2>3, BothKept
<1>9. CASE Transcribe
  <2>1. /\ UNCHANGED <<speech, given, heard, handler, detector, queue, failed, handing, bounded, reader, socket, late>>
        /\ segments' = Append(segments, working)
    BY <1>9 DEF Transcribe
  <2>2. \A f \in speech : OfStream(f) => OfStream(f)'
    BY <1>0, <2>1, StreamKept
  <2>3. ASSUME NEW f \in speech, OfDetector(f) PROVE OfDetector(f)'
    <3>1. InClips(f, segments) \/ f \in Frames(working) => InClips(f, segments')
      BY <1>0, <2>1, InAppended DEF ClipsOK
    <3>2. InClips(f, segments') <=> InClips(f, segments)'
      BY DEF InClips
    <3>3. TooShort(f) => TooShort(f)'
      BY <2>1 DEF TooShort
    <3>4. InClips(f, queue) => InClips(f, queue)'
      BY <2>1 DEF InClips, Frames
    <3> QED BY <2>1, <2>3, <3>1, <3>2, <3>3, <3>4 DEF OfDetector
  <2> QED BY <2>1, <2>2, <2>3, BothKept
<1>10. CASE TranscribeRaises
  <2>1. /\ UNCHANGED <<speech, given, heard, handler, detector, queue, segments, handing, bounded, reader, socket, late>>
        /\ failed' = failed \cup Frames(working)
    BY <1>10 DEF TranscribeRaises
  <2>2. \A f \in speech : OfStream(f) => OfStream(f)'
    BY <2>1, StreamKept
  <2>3. \A f \in speech : OfDetector(f) => OfDetector(f)'
    BY <2>1 DEF OfDetector, InClips, Frames, TooShort
  <2> QED BY <2>1, <2>2, <2>3, BothKept
<1>11. CASE Stop
  <2>1. UNCHANGED <<speech, given, segments, failed, handing, bounded, reader, socket, late>>
    BY <1>11 DEF Stop
  <2>2. \A f \in speech : OfStream(f) => OfStream(f)'
    BY <2>1, StreamKept
  <2>3. \A f \in speech : OfDetector(f) => OfDetector(f)'
    BY <1>11, StopAccounted
  <2> QED BY <2>1, <2>2, <2>3, BothKept
<1>12. CASE ReaderAwaited
  <2>1. /\ UNCHANGED <<speech, given, heard, detector, queue, working, failed>> /\ handler' = "billing"
        /\ segments' = segments \/ segments' = Append(segments, handing)
    BY <1>12 DEF ReaderAwaited
  <2>2. \A f \in speech : OfStream(f) => OfStream(f)'
    BY <1>12, CloseAccounted
  <2>3. \A f \in speech : OfDetector(f) => OfDetector(f)'
    BY <1>0, <2>1, DetectorKept
  <2> QED BY <2>1, <2>2, <2>3, BothKept
<1> QED BY <1>1, <1>2, <1>3, <1>4, <1>5, <1>6, <1>7, <1>8, <1>9, <1>10, <1>11, <1>12
        DEF Next, StreamNext, Closing

(* Every frame with speech in it is transcribed or on its way, but for the *)
(* frames of a stream that broke or was cut short, of a commit or a        *)
(* transcription that raised, and of a last clip too short to transcribe.  *)
THEOREM NoneLost == Spec => []LossNeedsFault
<1>1. FrameAssumption
  BY FrameAssumption
<1> DEFINE Types == FlagsOK /\ CountsOK /\ ClipsOK /\ DetectorOK /\ ReaderStage
           Account == Billing /\ Unclipped /\ Stages /\ Counting /\ Accounted
<1>2. Init => Types /\ Account
  <2> SUFFICES ASSUME Init PROVE Types /\ Account
    OBVIOUS
  <2>1. Stages /\ Counting /\ Accounted
    BY DEF Init, Stages, Counting, Accounted, Quiet
  <2> QED BY <1>1, <2>1, InitStep
<1>3. Types /\ Account /\ [Next]_vars => (Types /\ Account)'
  <2> SUFFICES ASSUME Types, Account, [Next]_vars PROVE Types' /\ Account'
    OBVIOUS
  <2>1. FlagsOK' /\ CountsOK' /\ ClipsOK' /\ DetectorOK' /\ ReaderStage'
    BY <1>1, FlagsStep, CountsStep, ClipsStep, ReaderStep
  <2>2. Billing' /\ Unclipped'
    BY <1>1, BillingStep, UnclippedStep
  <2>3. Stages' /\ Counting'
    BY <1>1, StagesStep, CountingStep
  <2>4. Accounted'
    BY <1>1, AccountedStep
  <2> QED BY <2>1, <2>2, <2>3, <2>4
<1>4. Types /\ Account => LossNeedsFault
  <2> SUFFICES ASSUME CountsOK, Accounted, NEW f \in speech
               PROVE  \/ InClips(f, segments) \/ UnderWay(f) \/ f \in failed
                      \/ IF f <= given THEN StreamBroke ELSE TooShort(f)
    BY DEF LossNeedsFault
  <2>1. CASE f <= given
    <3>1. OfStream(f)
      BY <2>1 DEF Accounted
    <3>2. f > bounded => f \in bounded + 1..given
      BY <2>1 DEF CountsOK
    <3> QED BY <2>1, <3>1, <3>2 DEF OfStream, UnderWay
  <2>2. CASE ~(f <= given)
    <3>1. OfDetector(f)
      BY <2>2 DEF Accounted
    <3> QED BY <2>2, <3>1 DEF OfDetector, UnderWay
  <2> QED BY <2>1, <2>2
<1> HIDE DEF Types, Account
<1> QED BY <1>2, <1>3, <1>4, PTL DEF Spec

=============================================================================
