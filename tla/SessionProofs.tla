---------------------------- MODULE SessionProofs ---------------------------
(***************************************************************************)
(* Proofs about the two ends of the live socket.  The meeting               *)
(* (MeetingLifecycle), for every number of connections and utterances: the  *)
(* handlers keep the lease of the recording lock, the stale write of        *)
(* _mark_processing never undoes a `ready`, and a report is made of the      *)
(* whole transcript.  And the client (LiveClient), for any openings of      *)
(* microphones and tabs, any segments and any utterances.                   *)
(***************************************************************************)
EXTENDS MeetingLifecycle, TLAPS

CONSTANTS Openings, Segments
VARIABLES
  kind, socket, ready, settled, sent, shown, left, step, device, graph, mic,
  them, own, streams, rows, missed, late, asked, quiet, told, spoken, next,
  decoding, draft, final, overtaken

L == INSTANCE LiveClient

-----------------------------------------------------------------------------
(* The meeting *)

(* The handlers that have been through _mark_processing without raising.   *)
Marked == Ending \union {"lost", "done", "reported"}

(* Who has a session holds the lock, so there is one at a time.            *)
HolderOnly == \A c \in Conn : pc[c] \in Holding => lock = c

(* A marked session has seen the meeting out of `recording`, for good.     *)
MarkedLeft == \A c \in Conn : pc[c] \in Marked => status # "recording"

(* While one handler is between the read and the write of _mark_processing *)
(* no session has come as far as to make the meeting `ready`: had one been *)
(* marked before the read, the read would have found the status changed,   *)
(* and none can be marked after it, for only the holder of the lock is.    *)
MarkingAlone ==
    \A c \in Conn : pc[c] = "marking" =>
        /\ status # "ready"
        /\ \A d \in Conn : pc[d] \notin Marked

IInv == TypeOK /\ HolderOnly /\ MarkedLeft /\ MarkingAlone

(* The state of the meeting keeps its types.                               *)
THEOREM TypeCorrect == Spec => []TypeOK
<1> USE NoConnAssumption, BoundAssumption
<1> USE DEF TypeOK, Holding, Ending, Over, Statuses, row, talk, upload
<1>1. Init => TypeOK
  BY DEF Init
<1>2. TypeOK /\ [Next]_vars => TypeOK'
  <2> SUFFICES ASSUME TypeOK, [Next]_vars PROVE TypeOK'
    OBVIOUS
  <2>1. ASSUME NEW c \in Conn, Check(c) PROVE TypeOK'
    BY <2>1 DEF Check, Goto
  <2>2. ASSUME NEW c \in Conn, Setup(c) PROVE TypeOK'
    <3>1. CASE Acquire(c)
      BY <3>1 DEF Acquire, Goto
    <3>2. CASE StartedAt(c)
      BY <3>2 DEF StartedAt, Goto
    <3>3. CASE SpawnLoops(c)
      BY <3>3 DEF SpawnLoops, Goto
    <3>4. CASE SetupRaises(c)
      BY <3>4 DEF SetupRaises, Goto
    <3>5. CASE SayReady(c)
      BY <3>5 DEF SayReady, Goto
    <3> QED
      BY <2>2, <3>1, <3>2, <3>3, <3>4, <3>5 DEF Setup
  <2>3. ASSUME NEW c \in Conn, ClientLeaves(c) PROVE TypeOK'
    BY <2>3 DEF ClientLeaves
  <2>4. ASSUME NEW c \in Conn, Hear(c) PROVE TypeOK'
    BY <2>4 DEF Hear
  <2>5. ASSUME NEW c \in Conn, Pause(c) PROVE TypeOK'
    BY <2>5 DEF Pause
  <2>6. ASSUME NEW c \in Conn, Consume(c) PROVE TypeOK'
    <3>1. CASE Take(c)
      BY <3>1 DEF Take
    <3>2. CASE CommitSegment(c)
      BY <3>2 DEF CommitSegment
    <3>3. CASE TranscriptionRaises(c)
      BY <3>3 DEF TranscriptionRaises
    <3> QED
      BY <2>6, <3>1, <3>2, <3>3 DEF Consume
  <2>7. ASSUME NEW c \in Conn, EndReceive(c) PROVE TypeOK'
    BY <2>7 DEF EndReceive, Goto
  <2>8. ASSUME NEW c \in Conn, Teardown(c) PROVE TypeOK'
    <3>1. CASE MarkRead(c)
      BY <3>1 DEF MarkRead, Goto
    <3>2. CASE MarkWrite(c)
      BY <3>2 DEF MarkWrite, Goto
    <3>3. CASE MarkRaises(c)
      BY <3>3 DEF MarkRaises, Goto
    <3>4. CASE Release(c)
      BY <3>4 DEF Release, Goto
    <3>5. CASE Drained(c)
      BY <3>5 DEF Drained, Goto
    <3>6. CASE DrainTimesOut(c)
      BY <3>6 DEF DrainTimesOut, Goto
    <3>7. CASE FinalizeRead(c)
      BY <3>7 DEF FinalizeRead, Goto, Exists
    <3>8. CASE FinalizeRaises(c)
      BY <3>8 DEF FinalizeRaises, Goto
    <3>9. CASE FinalizeWrite(c)
      BY <3>9 DEF FinalizeWrite, Goto, Flush
    <3>10. CASE FinalizeFails(c)
      BY <3>10 DEF FinalizeFails, Goto
    <3>11. CASE DispatchReport(c)
      BY <3>11 DEF DispatchReport, Goto
    <3> QED
      BY <2>8, <3>1, <3>2, <3>3, <3>4, <3>5, <3>6, <3>7, <3>8, <3>9, <3>10, <3>11
         DEF Teardown, Finalize
  <2>9. CASE Upload
    BY <2>9 DEF Upload, UploadLoad, UploadSend, UploadCommit, Flush, Exists
  <2>10. CASE Job
    BY <2>10 DEF Job, JobLoad, JobFails, WorkerDies
  <2>11. CASE DeleteMeeting
    BY <2>11 DEF DeleteMeeting
  <2>12. CASE Lapse
    BY <2>12 DEF Lapse
  <2>13. CASE Crash
    BY <2>13 DEF Crash
  <2>14. CASE UNCHANGED vars
    BY <2>14 DEF vars
  <2> QED
    BY <2>1, <2>2, <2>3, <2>4, <2>5, <2>6, <2>7, <2>8, <2>9, <2>10, <2>11,
       <2>12, <2>13, <2>14 DEF Next, Session
<1> QED
  BY <1>1, <1>2, PTL DEF Spec
-----------------------------------------------------------------------------
(* The inductive step, handler by handler.                                 *)
LEMMA InvStep ==
    ASSUME IInv, [Next]_vars
    PROVE  HolderOnly' /\ MarkedLeft' /\ MarkingAlone'
<1> USE NoConnAssumption
<1> USE DEF IInv, TypeOK, HolderOnly, MarkedLeft, MarkingAlone,
            Marked, Holding, Ending, Over, row, talk, upload, Goto
<1> DEFINE Inv == HolderOnly /\ MarkedLeft /\ MarkingAlone
<1>1. ASSUME NEW c \in Conn, Check(c) PROVE Inv'
  BY <1>1 DEF Check
<1>2. ASSUME NEW c \in Conn, Setup(c) PROVE Inv'
  <2>1. CASE Acquire(c)
    BY <2>1 DEF Acquire
  <2>2. CASE StartedAt(c)
    BY <2>2 DEF StartedAt
  <2>3. CASE SpawnLoops(c)
    BY <2>3 DEF SpawnLoops
  <2>4. CASE SetupRaises(c)
    BY <2>4 DEF SetupRaises
  <2>5. CASE SayReady(c)
    BY <2>5 DEF SayReady
  <2> QED
    BY <1>2, <2>1, <2>2, <2>3, <2>4, <2>5 DEF Setup
<1>3. ASSUME NEW c \in Conn, ClientLeaves(c) \/ Hear(c) \/ Pause(c) \/ Consume(c)
      PROVE  Inv'
  BY <1>3 DEF ClientLeaves, Hear, Pause, Consume, Take, CommitSegment, TranscriptionRaises
<1>4. ASSUME NEW c \in Conn, EndReceive(c) PROVE Inv'
  BY <1>4 DEF EndReceive
<1>5. ASSUME NEW c \in Conn, Teardown(c) PROVE Inv'
  <2>1. CASE MarkRead(c)
    BY <2>1 DEF MarkRead
  <2>2. CASE MarkWrite(c)
    BY <2>2 DEF MarkWrite
  <2>3. CASE MarkRaises(c)
    BY <2>3 DEF MarkRaises
  <2>4. CASE Release(c)
    BY <2>4 DEF Release
  <2>5. CASE Drained(c)
    BY <2>5 DEF Drained
  <2>6. CASE DrainTimesOut(c)
    BY <2>6 DEF DrainTimesOut
  <2>7. CASE FinalizeRead(c)
    BY <2>7 DEF FinalizeRead
  <2>8. CASE FinalizeRaises(c)
    BY <2>8 DEF FinalizeRaises
  <2>9. CASE FinalizeWrite(c)
    BY <2>9 DEF FinalizeWrite, Flush
  <2>10. CASE FinalizeFails(c)
    BY <2>10 DEF FinalizeFails
  <2>11. CASE DispatchReport(c)
    BY <2>11 DEF DispatchReport
  <2> QED
    BY <1>5, <2>1, <2>2, <2>3, <2>4, <2>5, <2>6, <2>7, <2>8, <2>9, <2>10, <2>11
       DEF Teardown, Finalize
<1>6. CASE Upload
  BY <1>6 DEF Upload, UploadLoad, UploadSend, UploadCommit, Flush
<1>7. CASE Job
  BY <1>7 DEF Job, JobLoad, JobFails, WorkerDies
<1>8. CASE DeleteMeeting
  BY <1>8 DEF DeleteMeeting
<1>9. CASE Lapse
  BY <1>9 DEF Lapse
<1>10. CASE Crash
  BY <1>10 DEF Crash, Interrupted
<1>11. CASE UNCHANGED vars
  BY <1>11 DEF vars
<1> QED
  BY <1>1, <1>2, <1>3, <1>4, <1>5, <1>6, <1>7, <1>8, <1>9, <1>10, <1>11
     DEF Next, Session

(* The inductive invariant holds of every behavior.                        *)
THEOREM Invariance == Spec => []IInv
<1>1. Init => IInv
  BY NoConnAssumption, BoundAssumption
     DEF Init, IInv, TypeOK, HolderOnly, MarkedLeft, MarkingAlone,
         Marked, Holding, Ending, Over, Statuses
<1>2. IInv /\ [Next]_vars => (HolderOnly /\ MarkedLeft /\ MarkingAlone)'
  BY InvStep
<1>3. TypeOK /\ (HolderOnly /\ MarkedLeft /\ MarkingAlone) <=> IInv
  BY DEF IInv
<1> QED
  BY <1>1, <1>2, <1>3, TypeCorrect, PTL DEF Spec

(* _mark_processing never takes a meeting from `ready` back to `processing`*)
(* although it writes what it read before an await.                        *)
THEOREM StaleMarkIsHarmless == Spec => MarkNeverUndoesReady
<1>1. IInv /\ [Next]_vars =>
        [\A c \in Conn : pc[c] = "marking" /\ pc'[c] = "leaving" => status # "ready"]_vars
  BY DEF IInv, MarkingAlone
<1> QED
  BY <1>1, Invariance, PTL DEF Spec, MarkNeverUndoesReady
-----------------------------------------------------------------------------
(* The connections whose session runs, as the lease sees them.             *)
Alive == {c \in Conn : pc[c] \in Holding}

(* A step that neither moves the lock nor changes who is alive stutters.   *)
LEMMA QuietStep ==
    ASSUME lock' = lock, Alive' = Alive
    PROVE  UNCHANGED Lease!leaseVars
  BY DEF Alive, Lease!leaseVars

(* A step of a handler is a step of the lease, or a stutter.               *)
LEMMA LeaseStep ==
    ASSUME IInv, [Next]_vars
    PROVE  [Lease!LeaseNext]_(Lease!leaseVars)
<1> USE NoConnAssumption
<1> USE DEF IInv, TypeOK, HolderOnly, Holding, Ending, Over, row, talk, upload, Goto
<1> DEFINE Quiet == UNCHANGED Lease!leaseVars
<1>1. ASSUME NEW c \in Conn, Acquire(c) PROVE Lease!Claim(c) \/ Quiet
  BY <1>1 DEF Acquire, Lease!Claim, Lease!leaseVars
<1>2. ASSUME NEW c \in Conn, StartedAt(c) \/ SetupRaises(c) \/ MarkRead(c) \/ MarkWrite(c)
      PROVE  Lease!Retire(c) \/ Quiet
  BY <1>2 DEF StartedAt, SetupRaises, MarkRead, MarkWrite, Lease!Retire, Lease!leaseVars
<1>3. ASSUME NEW c \in Conn,
             Check(c) \/ SpawnLoops(c) \/ SayReady(c) \/ EndReceive(c) \/ MarkRaises(c)
      PROVE  Quiet
  BY <1>3 DEF Check, SpawnLoops, SayReady, EndReceive, MarkRaises, Lease!leaseVars
<1>4. ASSUME NEW c \in Conn, ClientLeaves(c) \/ Hear(c) \/ Pause(c) \/ Consume(c)
      PROVE  Quiet
  BY <1>4 DEF ClientLeaves, Hear, Pause, Consume, Take, CommitSegment,
              TranscriptionRaises, Lease!leaseVars
<1>5. ASSUME NEW c \in Conn, Release(c) PROVE Lease!Clear \/ Quiet
  BY <1>5 DEF Release, Lease!Clear, Lease!leaseVars
<1>6. ASSUME NEW c \in Conn, Drained(c) \/ DrainTimesOut(c) \/ Finalize(c) PROVE Quiet
  BY <1>6 DEF Drained, DrainTimesOut, Finalize, FinalizeRead, FinalizeRaises,
              FinalizeWrite, FinalizeFails, DispatchReport, Lease!leaseVars
<1>7. CASE Upload \/ Job \/ DeleteMeeting
  BY <1>7 DEF Upload, UploadLoad, UploadSend, UploadCommit, Job, JobLoad, JobFails,
              WorkerDies, DeleteMeeting, Lease!leaseVars
<1>8. CASE Lapse
  BY <1>8 DEF Lapse, Lease!LeaseNext, Lease!Clear
<1>9. CASE Crash
  <2>1. CASE \E c \in Conn : pc[c] \in Holding
    <3> PICK c \in Conn : pc[c] \in Holding
      BY <2>1
    <3>1. Alive = {c} /\ Alive' = {} /\ lock' = lock
      BY <1>9 DEF Crash, Interrupted, Alive
    <3> QED
      BY <3>1 DEF Alive, Lease!LeaseNext, Lease!Retire
  <2>2. CASE ~\E c \in Conn : pc[c] \in Holding
    BY <1>9, <2>2, QuietStep DEF Crash, Interrupted, Alive
  <2> QED
    BY <2>1, <2>2
<1>10. CASE UNCHANGED vars
  BY <1>10 DEF vars, Lease!leaseVars
<1> QED
  BY <1>1, <1>2, <1>3, <1>4, <1>5, <1>6, <1>7, <1>8, <1>9, <1>10
     DEF Next, Session, Setup, Teardown, Lease!LeaseNext

(* The handlers never begin, keep or end a session but as the lease allows.*)
THEOREM KeepsLease == Spec => LeaseSpec
<1>1. Init => Lease!LeaseInit
  BY DEF Init, Lease!LeaseInit, Holding
<1>2. IInv /\ [Next]_vars => [Lease!LeaseNext]_(Lease!leaseVars)
  BY LeaseStep
<1> QED
  BY <1>1, <1>2, Invariance, PTL DEF Spec, LeaseSpec, Lease!LeaseSpec
-----------------------------------------------------------------------------
One(b) == IF b THEN 1 ELSE 0

(* Every utterance heard is somewhere.                                     *)
Accounted ==
    \A c \in Conn :
        heard[c] = kept[c] + spoilt[c] + queued[c] + One(working[c]) + One(speaking[c])

(* Nobody listens after the stop, and nothing is under way after the drain.*)
Settled ==
    \A c \in Conn :
        /\ speaking[c] => pc[c] = "streaming"
        /\ pc[c] \in {"finalizing", "saving", "dispatching", "reported"} =>
              queued[c] = 0 /\ ~working[c]

(* A step moves an utterance on, and loses none.                           *)
LEMMA CountStep ==
    ASSUME TypeOK, Accounted, Settled, [Next]_vars
    PROVE  Accounted' /\ Settled'
<1> USE DEF TypeOK, Accounted, Settled, One, row, talk, upload, Goto
<1>1. ASSUME NEW c \in Conn, Check(c) PROVE Accounted' /\ Settled'
  BY <1>1 DEF Check
<1>2. ASSUME NEW c \in Conn, Setup(c) PROVE Accounted' /\ Settled'
  BY <1>2 DEF Setup, Acquire, StartedAt, SpawnLoops, SetupRaises, SayReady
<1>3. ASSUME NEW c \in Conn, ClientLeaves(c) PROVE Accounted' /\ Settled'
  BY <1>3 DEF ClientLeaves
<1>4. ASSUME NEW c \in Conn, Hear(c) PROVE Accounted' /\ Settled'
  BY <1>4 DEF Hear
<1>5. ASSUME NEW c \in Conn, Pause(c) PROVE Accounted' /\ Settled'
  BY <1>5 DEF Pause
<1>6. ASSUME NEW c \in Conn, Consume(c) PROVE Accounted' /\ Settled'
  <2>1. CASE Take(c)
    BY <2>1 DEF Take, Consuming
  <2>2. CASE CommitSegment(c)
    BY <2>2 DEF CommitSegment, Consuming
  <2>3. CASE TranscriptionRaises(c)
    BY <2>3 DEF TranscriptionRaises, Consuming
  <2> QED
    BY <1>6, <2>1, <2>2, <2>3 DEF Consume
<1>7. ASSUME NEW c \in Conn, EndReceive(c) PROVE Accounted' /\ Settled'
  BY <1>7 DEF EndReceive
<1>8. ASSUME NEW c \in Conn, Teardown(c) PROVE Accounted' /\ Settled'
  <2>1. CASE MarkRead(c) \/ MarkWrite(c) \/ MarkRaises(c) \/ Release(c)
    BY <2>1 DEF MarkRead, MarkWrite, MarkRaises, Release
  <2>2. CASE Drained(c)
    BY <2>2 DEF Drained
  <2>3. CASE DrainTimesOut(c)
    BY <2>3 DEF DrainTimesOut
  <2>4. CASE Finalize(c)
    BY <2>4 DEF Finalize, FinalizeRead, FinalizeRaises, FinalizeWrite, FinalizeFails,
                DispatchReport
  <2> QED
    BY <1>8, <2>1, <2>2, <2>3, <2>4 DEF Teardown
<1>9. CASE Upload \/ Job \/ DeleteMeeting \/ Lapse
  BY <1>9 DEF Upload, UploadLoad, UploadSend, UploadCommit, Job, JobLoad, JobFails,
              WorkerDies, DeleteMeeting, Lapse
<1>10. CASE Crash
  BY <1>10 DEF Crash
<1>11. CASE UNCHANGED vars
  BY <1>11 DEF vars
<1> QED
  BY <1>1, <1>2, <1>3, <1>4, <1>5, <1>6, <1>7, <1>8, <1>9, <1>10, <1>11
     DEF Next, Session

(* The report is written from the whole transcript, however many sessions  *)
(* and utterances there were.                                              *)
THEOREM WholeTranscript == Spec => []ReportOnWholeTranscript
<1>1. Init => Accounted /\ Settled
  BY DEF Init, Accounted, Settled, One
<1>2. TypeOK /\ (Accounted /\ Settled) /\ [Next]_vars => (Accounted /\ Settled)'
  BY CountStep
<1>3. TypeOK /\ (Accounted /\ Settled) => ReportOnWholeTranscript
  BY DEF TypeOK, Accounted, Settled, One, ReportOnWholeTranscript
<1> QED
  BY <1>1, <1>2, <1>3, TypeCorrect, PTL DEF Spec

-----------------------------------------------------------------------------
(* The client *)

(* The promise and what may have been sent. *)
LinkInv ==
  /\ socket # "closed" => ready # "rejected"
  /\ kind = "sdk" => (settled <=> ready = "resolved")
  /\ socket = "open" => "auth" \in sent
  /\ shown = "connected" => ready = "resolved"
  /\ \A c \in Openings : step[c] # "idle" => ready = "resolved"
  /\ L!ReadySettles
  /\ L!NothingBeforeReady

(* How far an opening is, beside what it holds. *)
StepInv ==
  \A c \in Openings :
    /\ graph[c] => step[c] = "done"
    /\ device[c] => step[c] \in {"starting", "done", "failed"}

(* With no opening missed there is one at most, and no handle beside it. *)
MicInv ==
  kind = "sdk" /\ missed = {} =>
    /\ \A c, d \in L!Opening : c = d
    /\ L!Opening # {} => mic = {}
    /\ \A c \in Openings : device[c] /\ step[c] = "done" => c \in mic
    /\ \A c \in Openings : graph[c] => c \in mic
    /\ socket = "closed" =>
         \A c \in Openings :
           /\ c \in L!Opening => c \in late
           /\ device[c] => c \in late \/ step[c] = "failed"

(* Whatever the page holds is among its streams until it is left; then only    *)
(* what was still being asked for can come to be held.                        *)
PageInv ==
  /\ left => kind = "page" /\ socket \in {"closing", "closed"}
  /\ kind = "page" => \A c \in Openings : device[c] => c \in streams
  /\ left => \A c \in Openings :
       /\ device[c] => c \in asked \ own
       /\ step[c] = "asking" => c \in asked

(* What is being decoded is not older than what is shown, and not transcribed   *)
(* unless that came between.                                                 *)
DraftInv ==
  /\ next <= spoken
  /\ \A n \in final : n <= next
  /\ decoding <= spoken + 1 /\ draft <= spoken + 1
  /\ decoding # 0 => draft <= decoding
  /\ 0 \notin final
  /\ decoding \in final => decoding \in overtaken
  /\ L!StaleNeedsOverlap

LiveInv == L!TypeOK /\ LinkInv /\ StepInv /\ MicInv /\ PageInv /\ L!ShownOnce /\ DraftInv

-----------------------------------------------------------------------------
(* The invariant holds before anything is connected.                       *)
LEMMA LiveInit == L!Init => LiveInv
<1> SUFFICES ASSUME L!Init PROVE LiveInv
  OBVIOUS
<1>1. L!TypeOK
  BY DEF L!Init, L!TypeOK, L!Steps
<1>2. LinkInv
  BY DEF L!Init, LinkInv, L!ReadySettles, L!NothingBeforeReady
<1>3. StepInv
  BY DEF L!Init, StepInv
<1>4. MicInv
  BY DEF L!Init, MicInv, L!Opening
<1>5. PageInv
  BY DEF L!Init, PageInv
<1>6. L!ShownOnce
  BY DEF L!Init, L!ShownOnce
<1>7. DraftInv
  BY DEF L!Init, DraftInv, L!StaleNeedsOverlap
<1> QED BY <1>1, <1>2, <1>3, <1>4, <1>5, <1>6, <1>7 DEF LiveInv

(* Every step keeps the types.                                             *)
LEMMA LiveTypeStep == L!TypeOK /\ [L!Next]_(L!vars) => L!TypeOK'
<1> SUFFICES ASSUME L!TypeOK, [L!Next]_(L!vars) PROVE L!TypeOK'
  OBVIOUS
<1> USE DEF L!TypeOK, L!Steps, L!link, L!audio, L!view, L!drafts, L!history
<1>1. CASE L!Socket
  <2>1. CASE L!Construct \/ L!Open \/ L!SdkReady
    BY <2>1 DEF L!Construct, L!Open, L!SdkReady, L!Settle
  <2>2. CASE L!SdkFails \/ L!PageFails
    BY <2>2 DEF L!SdkFails, L!PageFails, L!Silence, L!Reject, L!Shows, L!Opening
  <2>3. ASSUME NEW c \in Openings, L!PageReady(c) PROVE L!TypeOK'
    BY <2>3 DEF L!PageReady, L!Settle
  <2>4. ASSUME NEW b \in BOOLEAN, L!SdkCloses(b) \/ L!PageCloses(b) PROVE L!TypeOK'
    BY <2>4 DEF L!SdkCloses, L!PageCloses, L!Silence, L!Reject, L!Shows, L!Opening
  <2> QED BY <1>1, <2>1, <2>2, <2>3, <2>4 DEF L!Socket
<1>2. CASE L!Sdk
  <2>1. CASE L!StopMic \/ L!SdkStop \/ L!SdkClose
    <3>1. CASE L!StopMic
      BY <3>1 DEF L!StopMic, L!Silence, L!Opening
    <3>2. CASE L!SdkStop
      BY <3>2 DEF L!SdkStop, L!Silence, L!Send, L!Opening
    <3>3. CASE L!SdkClose
      BY <3>3 DEF L!SdkClose, L!Silence, L!Shut, L!Opening
    <3> QED BY <2>1, <3>1, <3>2, <3>3
  <2>2. ASSUME NEW c \in Openings, L!StartMic(c) PROVE L!TypeOK'
    BY <2>2 DEF L!StartMic, L!Silence, L!Opening
  <2>3. ASSUME NEW c \in Openings, L!SdkGranted(c) \/ L!SdkRuns(c) \/ L!SdkRefused(c) PROVE L!TypeOK'
    BY <2>3 DEF L!SdkGranted, L!SdkRuns, L!SdkRefused
  <2> QED BY <1>2, <2>1, <2>2, <2>3 DEF L!Sdk
<1>3. CASE L!Page
  <2>1. CASE L!Leave
    BY <2>1 DEF L!Leave, L!Shut
  <2>2. ASSUME NEW c \in Openings, L!PageGranted(c) \/ L!PageRuns(c) \/ L!PageRefused(c) PROVE L!TypeOK'
    BY <2>2 DEF L!PageGranted, L!PageRuns, L!PageRefused, L!Shows
  <2>3. ASSUME NEW c \in Openings, L!Share(c) \/ L!ShareGranted(c) \/ L!ShareRuns(c) \/ L!ShareRefused(c)
        PROVE L!TypeOK'
    <3>1. CASE L!Share(c)
      BY <3>1 DEF L!Share
    <3>2. CASE L!ShareGranted(c)
      BY <3>2 DEF L!ShareGranted
    <3>3. CASE L!ShareRuns(c)
      BY <3>3 DEF L!ShareRuns
    <3>4. CASE L!ShareRefused(c)
      BY <3>4 DEF L!ShareRefused
    <3> QED BY <2>3, <3>1, <3>2, <3>3, <3>4
  <2>4. ASSUME NEW what \in {"stop", "debug"}, L!PageSends(what) PROVE L!TypeOK'
    BY <2>4 DEF L!PageSends, L!Send
  <2>5. ASSUME NEW removed \in SUBSET Segments, NEW segments \in SUBSET Segments,
               L!Update(removed, segments)
        PROVE L!TypeOK'
    BY <2>5 DEF L!Update
  <2> QED BY <1>3, <2>1, <2>2, <2>3, <2>4, <2>5 DEF L!Page
<1>4. ASSUME NEW c \in Openings, L!Chunk(c) \/ L!Ended(c) PROVE L!TypeOK'
  <2>1. CASE L!Chunk(c)
    BY <2>1 DEF L!Chunk
  <2>2. CASE L!Ended(c)
    BY <2>2 DEF L!Ended
  <2> QED BY <1>4, <2>1, <2>2
<1>5. CASE L!Messages
  <2>1. CASE L!Flush \/ L!Preview \/ L!Unheard
    <3>1. CASE L!Flush
      BY <3>1 DEF L!Flush
    <3>2. CASE L!Preview
      BY <3>2 DEF L!Preview
    <3>3. CASE L!Unheard
      BY <3>3 DEF L!Unheard
    <3> QED BY <2>1, <3>1, <3>2, <3>3
  <2>2. ASSUME NEW text \in BOOLEAN, L!Decoded(text) PROVE L!TypeOK'
    BY <2>2 DEF L!Decoded
  <2>3. ASSUME NEW s \in Segments, L!Transcript(s), L!Heard PROVE L!TypeOK'
    BY <2>3 DEF L!Transcript, L!Heard
  <2>4. ASSUME NEW s \in Segments, L!Transcript(s), UNCHANGED L!drafts PROVE L!TypeOK'
    BY <2>4 DEF L!Transcript
  <2> QED BY <1>5, <2>1, <2>2, <2>3, <2>4 DEF L!Messages
<1>6. CASE UNCHANGED L!vars
  BY <1>6 DEF L!vars
<1> QED BY <1>1, <1>2, <1>3, <1>4, <1>5, <1>6 DEF L!Next

(* What the messages and the queue leave alone. *)
core == <<L!link, L!audio, missed, late, asked, quiet>>

(* The messages of one channel touch neither link nor audio.               *)
LEMMA MessagesApart == L!Messages \/ UNCHANGED L!vars => UNCHANGED core
BY DEF L!Messages, L!Flush, L!Preview, L!Unheard, L!Decoded, L!Transcript, core, L!vars, L!history

(* Every step keeps promise, socket and what was sent in line.             *)
LEMMA LinkStep == L!TypeOK /\ LinkInv /\ StepInv /\ [L!Next]_(L!vars) => LinkInv'
<1> SUFFICES ASSUME L!TypeOK, LinkInv, StepInv, [L!Next]_(L!vars) PROVE LinkInv'
  OBVIOUS
<1> USE DEF L!TypeOK, L!Steps, LinkInv, L!ReadySettles, L!NothingBeforeReady, L!link, L!audio, L!view, L!history
<1>1. CASE L!Socket
  <2>1. CASE L!Construct \/ L!Open
    <3>1. CASE L!Construct
      BY <3>1 DEF L!Construct
    <3>2. CASE L!Open
      BY <3>2 DEF L!Open
    <3> QED BY <2>1, <3>1, <3>2
  <2>2. CASE L!SdkReady
    BY <2>2 DEF L!SdkReady, L!Settle
  <2>3. ASSUME NEW c \in Openings, L!PageReady(c) PROVE LinkInv'
    BY <2>3 DEF L!PageReady, L!Settle
  <2>4. CASE L!SdkFails
    BY <2>4 DEF L!SdkFails, L!Reject
  <2>5. CASE L!PageFails
    BY <2>5 DEF L!PageFails, L!Reject, L!Shows
  <2>6. ASSUME NEW b \in BOOLEAN, L!SdkCloses(b) PROVE LinkInv'
    BY <2>6 DEF L!SdkCloses, L!Reject
  <2>7. ASSUME NEW b \in BOOLEAN, L!PageCloses(b) PROVE LinkInv'
    BY <2>7 DEF L!PageCloses, L!Reject, L!Shows
  <2> QED BY <1>1, <2>1, <2>2, <2>3, <2>4, <2>5, <2>6, <2>7 DEF L!Socket
<1>2. CASE L!Sdk
  <2>1. CASE L!StopMic \/ L!SdkStop \/ L!SdkClose
    BY <2>1 DEF L!StopMic, L!SdkStop, L!SdkClose, L!Given, L!Silence, L!Send, L!Shut
  <2>2. ASSUME NEW c \in Openings, L!StartMic(c) PROVE LinkInv'
    BY <2>2 DEF L!StartMic, L!Given, L!Silence
  <2>3. ASSUME NEW c \in Openings, L!SdkGranted(c) \/ L!SdkRuns(c) \/ L!SdkRefused(c) PROVE LinkInv'
    BY <2>3 DEF L!SdkGranted, L!SdkRuns, L!SdkRefused
  <2> QED BY <1>2, <2>1, <2>2, <2>3 DEF L!Sdk
<1>3. CASE L!Page
  <2>1. CASE L!Leave
    BY <2>1 DEF L!Leave, L!Shut
  <2>2. ASSUME NEW c \in Openings, L!PageGranted(c) \/ L!PageRuns(c) \/ L!PageRefused(c) PROVE LinkInv'
    BY <2>2 DEF L!PageGranted, L!PageRuns, L!PageRefused, L!Shows
  <2>3. ASSUME NEW c \in Openings, L!Share(c) \/ L!ShareGranted(c) \/ L!ShareRuns(c) \/ L!ShareRefused(c)
        PROVE LinkInv'
    BY <2>3 DEF L!Share, L!ShareGranted, L!ShareRuns, L!ShareRefused
  <2>4. ASSUME NEW what \in {"stop", "debug"}, L!PageSends(what) PROVE LinkInv'
    BY <2>4 DEF L!PageSends, L!Send
  <2>5. ASSUME NEW removed \in SUBSET Segments, NEW segments \in SUBSET Segments,
               L!Update(removed, segments)
        PROVE LinkInv'
    BY <2>5 DEF L!Update
  <2> QED BY <1>3, <2>1, <2>2, <2>3, <2>4, <2>5 DEF L!Page
<1>4. ASSUME NEW c \in Openings, L!Chunk(c) \/ L!Ended(c) PROVE LinkInv'
  <2>1. CASE L!Chunk(c)
    <3>1. ready = "resolved"
      BY <2>1 DEF L!Chunk, StepInv
    <3> QED BY <2>1, <3>1 DEF L!Chunk
  <2>2. CASE L!Ended(c)
    BY <2>2 DEF L!Ended
  <2> QED BY <1>4, <2>1, <2>2
<1>5. CASE UNCHANGED core
  BY <1>5 DEF core
<1> QED BY <1>1, <1>2, <1>3, <1>4, <1>5, MessagesApart DEF L!Next

(* Every step keeps graphs to openings that are done.                      *)
LEMMA StepStep == L!TypeOK /\ LinkInv /\ StepInv /\ [L!Next]_(L!vars) => StepInv'
<1> SUFFICES ASSUME L!TypeOK, LinkInv, StepInv, [L!Next]_(L!vars) PROVE StepInv'
  OBVIOUS
<1> USE DEF L!TypeOK, L!Steps, StepInv, L!link, L!audio, L!view, L!history
<1>1. CASE L!Socket
  <2>1. CASE L!Construct \/ L!Open \/ L!SdkReady \/ L!PageFails
    BY <2>1 DEF L!Construct, L!Open, L!SdkReady, L!PageFails
  <2>2. CASE L!SdkFails
    BY <2>2 DEF L!SdkFails, L!Silence
  <2>3. ASSUME NEW c \in Openings, L!PageReady(c) PROVE StepInv'
    BY <2>3 DEF L!PageReady
  <2>4. ASSUME NEW b \in BOOLEAN, L!SdkCloses(b) \/ L!PageCloses(b) PROVE StepInv'
    BY <2>4 DEF L!SdkCloses, L!PageCloses, L!Silence
  <2> QED BY <1>1, <2>1, <2>2, <2>3, <2>4 DEF L!Socket
<1>2. CASE L!Sdk
  <2>1. CASE L!StopMic \/ L!SdkStop \/ L!SdkClose
    BY <2>1 DEF L!StopMic, L!SdkStop, L!SdkClose, L!Silence
  <2>2. ASSUME NEW c \in Openings, L!StartMic(c) PROVE StepInv'
    BY <2>2 DEF L!StartMic, L!Silence
  <2>3. ASSUME NEW c \in Openings, L!SdkGranted(c) \/ L!SdkRuns(c) \/ L!SdkRefused(c) PROVE StepInv'
    BY <2>3 DEF L!SdkGranted, L!SdkRuns, L!SdkRefused
  <2> QED BY <1>2, <2>1, <2>2, <2>3 DEF L!Sdk
<1>3. CASE L!Page
  <2>1. CASE L!Leave
    BY <2>1 DEF L!Leave
  <2>2. ASSUME NEW c \in Openings, L!PageGranted(c) \/ L!PageRuns(c) \/ L!PageRefused(c) PROVE StepInv'
    BY <2>2 DEF L!PageGranted, L!PageRuns, L!PageRefused
  <2>3. ASSUME NEW c \in Openings, L!Share(c) \/ L!ShareGranted(c) \/ L!ShareRuns(c) \/ L!ShareRefused(c)
        PROVE StepInv'
    BY <2>3 DEF L!Share, L!ShareGranted, L!ShareRuns, L!ShareRefused
  <2>4. ASSUME NEW what \in {"stop", "debug"}, L!PageSends(what) PROVE StepInv'
    BY <2>4 DEF L!PageSends
  <2>5. ASSUME NEW removed \in SUBSET Segments, NEW segments \in SUBSET Segments,
               L!Update(removed, segments)
        PROVE StepInv'
    BY <2>5 DEF L!Update
  <2> QED BY <1>3, <2>1, <2>2, <2>3, <2>4, <2>5 DEF L!Page
<1>4. ASSUME NEW c \in Openings, L!Chunk(c) \/ L!Ended(c) PROVE StepInv'
  <2>1. CASE L!Chunk(c)
    BY <2>1 DEF L!Chunk
  <2>2. CASE L!Ended(c)
    BY <2>2 DEF L!Ended
  <2> QED BY <1>4, <2>1, <2>2
<1>5. CASE UNCHANGED core
  BY <1>5 DEF core
<1> QED BY <1>1, <1>2, <1>3, <1>4, <1>5, MessagesApart DEF L!Next

(* Silence leaves no microphone live that was running, and no handle. *)
LEMMA SilenceCorrect ==
  ASSUME L!TypeOK, StepInv, kind = "sdk", MicInv, L!Silence, missed' = {}
  PROVE  /\ missed = {} /\ L!Opening = {} /\ mic' = {}
         /\ \A c \in Openings : ~graph'[c]
         /\ \A c \in Openings : device'[c] => device[c] /\ step[c] = "failed"
BY DEF L!TypeOK, L!Steps, StepInv, MicInv, L!Silence, L!Opening

(* Every step keeps the microphone to one handle.                          *)
LEMMA MicStep == L!TypeOK /\ StepInv /\ MicInv /\ [L!Next]_(L!vars) => MicInv'
<1> SUFFICES ASSUME L!TypeOK, StepInv, MicInv, [L!Next]_(L!vars), kind' = "sdk", missed' = {} PROVE MicInv'
  BY DEF MicInv
<1> USE DEF L!TypeOK, L!Steps, L!link, L!audio, L!view, L!drafts, L!history
<1>1. CASE L!Socket
  <2>1. CASE L!Construct \/ L!Open \/ L!SdkReady
    BY <2>1 DEF L!Construct, L!Open, L!SdkReady, MicInv, L!Opening
  <2>2. CASE L!SdkFails
    <3>1. kind = "sdk" /\ UNCHANGED <<step, late>> /\ L!Silence
      BY <2>2 DEF L!SdkFails
    <3> QED BY <3>1, SilenceCorrect DEF MicInv, L!Opening
  <2>3. ASSUME NEW b \in BOOLEAN, L!SdkCloses(b) PROVE MicInv'
    <3>1. kind = "sdk" /\ UNCHANGED <<step, late>> /\ L!Silence
      BY <2>3 DEF L!SdkCloses
    <3> QED BY <3>1, SilenceCorrect DEF MicInv, L!Opening
  <2>4. ASSUME NEW c \in Openings, L!PageReady(c) PROVE MicInv'
    BY <2>4 DEF L!PageReady
  <2>5. ASSUME NEW b \in BOOLEAN, L!PageCloses(b) \/ L!PageFails PROVE MicInv'
    BY <2>5 DEF L!PageCloses, L!PageFails
  <2> QED BY <1>1, <2>1, <2>2, <2>3, <2>4, <2>5 DEF L!Socket
<1>2. CASE L!Sdk
  <2>1. CASE L!StopMic \/ L!SdkStop \/ L!SdkClose
    <3>1. kind = "sdk" /\ UNCHANGED <<step, late>> /\ L!Silence
      BY <2>1 DEF L!StopMic, L!SdkStop, L!SdkClose, L!Send, L!Given
    <3> QED BY <3>1, SilenceCorrect DEF MicInv, L!Opening
  <2>2. ASSUME NEW c \in Openings, L!StartMic(c) PROVE MicInv'
    <3>1. kind = "sdk" /\ L!Silence /\ step[c] = "idle" /\ step' = [step EXCEPT ![c] = "asking"]
      BY <2>2 DEF L!StartMic, L!Given
    <3>2. L!Opening' = {c}
      BY <3>1, SilenceCorrect DEF L!Opening
    <3>3. socket' = "closed" => c \in late'
      BY <2>2 DEF L!StartMic
    <3> QED BY <3>1, <3>2, <3>3, SilenceCorrect DEF MicInv
  <2>3. ASSUME NEW c \in Openings, L!SdkGranted(c) PROVE MicInv'
    BY <2>3 DEF L!SdkGranted, MicInv, L!Opening
  <2>4. ASSUME NEW c \in Openings, L!SdkRuns(c) PROVE MicInv'
    BY <2>4 DEF L!SdkRuns, MicInv, L!Opening
  <2>5. ASSUME NEW c \in Openings, L!SdkRefused(c) PROVE MicInv'
    BY <2>5 DEF L!SdkRefused, MicInv, L!Opening
  <2> QED BY <1>2, <2>1, <2>2, <2>3, <2>4, <2>5 DEF L!Sdk
<1>3. CASE L!Page
  <2>1. kind = kind' 
    BY <1>3 DEF L!Page, L!Leave, L!PageGranted, L!PageRuns, L!PageRefused, L!Share, L!ShareGranted, L!ShareRuns,
       L!ShareRefused, L!PageSends, L!Send, L!Update
  <2> QED BY <1>3, <2>1 DEF L!Page, L!Leave, L!PageGranted, L!PageRuns, L!PageRefused, L!Share, L!ShareGranted,
       L!ShareRuns, L!ShareRefused, L!PageSends, L!Update
<1>4. ASSUME NEW c \in Openings, L!Chunk(c) PROVE MicInv'
  BY <1>4 DEF L!Chunk, MicInv, L!Opening
<1>5. ASSUME NEW c \in Openings, L!Ended(c) PROVE MicInv'
  BY <1>5 DEF L!Ended, MicInv, L!Opening
<1>6. CASE UNCHANGED core
  BY <1>6 DEF core, MicInv, L!Opening
<1> QED BY <1>1, <1>2, <1>3, <1>4, <1>5, <1>6, MessagesApart DEF L!Next

(* Every step keeps the page's live tracks among its streams.              *)
LEMMA PageStep == L!TypeOK /\ PageInv /\ [L!Next]_(L!vars) => PageInv'
<1> SUFFICES ASSUME L!TypeOK, PageInv, [L!Next]_(L!vars) PROVE PageInv'
  OBVIOUS
<1> USE DEF L!TypeOK, L!Steps, PageInv, L!link, L!audio, L!view, L!history
<1>1. CASE L!Socket
  <2>1. CASE L!Construct \/ L!Open \/ L!SdkReady \/ L!PageFails
    BY <2>1 DEF L!Construct, L!Open, L!SdkReady, L!PageFails
  <2>2. CASE L!SdkFails
    BY <2>2 DEF L!SdkFails
  <2>3. ASSUME NEW c \in Openings, L!PageReady(c) PROVE PageInv'
    BY <2>3 DEF L!PageReady
  <2>4. ASSUME NEW b \in BOOLEAN, L!SdkCloses(b) \/ L!PageCloses(b) PROVE PageInv'
    BY <2>4 DEF L!SdkCloses, L!PageCloses
  <2> QED BY <1>1, <2>1, <2>2, <2>3, <2>4 DEF L!Socket
<1>2. CASE L!Sdk
  <2>1. kind = "sdk" /\ kind' = "sdk" /\ ~left'
    BY <1>2 DEF L!Sdk, L!StopMic, L!SdkStop, L!SdkClose, L!StartMic, L!SdkGranted, L!SdkRuns, L!SdkRefused, L!Given,
       L!Send
  <2> QED BY <2>1
<1>3. CASE L!Page
  <2>1. CASE L!Leave
    BY <2>1 DEF L!Leave, L!Shut
  <2>2. ASSUME NEW c \in Openings, L!PageGranted(c) PROVE PageInv'
    BY <2>2 DEF L!PageGranted
  <2>3. ASSUME NEW c \in Openings, L!PageRuns(c) \/ L!PageRefused(c) PROVE PageInv'
    <3>1. CASE L!PageRuns(c)
      BY <3>1 DEF L!PageRuns
    <3>2. CASE L!PageRefused(c)
      BY <3>2 DEF L!PageRefused
    <3> QED BY <2>3, <3>1, <3>2
  <2>4. ASSUME NEW c \in Openings, L!Share(c) \/ L!ShareRuns(c) \/ L!ShareRefused(c) PROVE PageInv'
    BY <2>4 DEF L!Share, L!ShareRuns, L!ShareRefused
  <2>5. ASSUME NEW c \in Openings, L!ShareGranted(c) PROVE PageInv'
    BY <2>5 DEF L!ShareGranted
  <2>6. ASSUME NEW what \in {"stop", "debug"}, L!PageSends(what) PROVE PageInv'
    BY <2>6 DEF L!PageSends, L!Send
  <2>7. ASSUME NEW removed \in SUBSET Segments, NEW segments \in SUBSET Segments,
               L!Update(removed, segments)
        PROVE PageInv'
    BY <2>7 DEF L!Update
  <2> QED BY <1>3, <2>1, <2>2, <2>3, <2>4, <2>5, <2>6, <2>7 DEF L!Page
<1>4. ASSUME NEW c \in Openings, L!Chunk(c) \/ L!Ended(c) PROVE PageInv'
  <2>1. CASE L!Chunk(c)
    BY <2>1 DEF L!Chunk
  <2>2. CASE L!Ended(c)
    BY <2>2 DEF L!Ended
  <2> QED BY <1>4, <2>1, <2>2
<1>5. CASE UNCHANGED core
  BY <1>5 DEF core
<1> QED BY <1>1, <1>2, <1>3, <1>4, <1>5, MessagesApart DEF L!Next

(* Every step keeps a transcript shown once.                               *)
LEMMA ShownStep == L!TypeOK /\ L!ShownOnce /\ [L!Next]_(L!vars) => L!ShownOnce'
<1> SUFFICES ASSUME L!TypeOK, L!ShownOnce, [L!Next]_(L!vars) PROVE L!ShownOnce'
  OBVIOUS
<1>1. CASE UNCHANGED <<rows, told>>
  BY <1>1 DEF L!ShownOnce
<1>2. ASSUME NEW s \in Segments, L!Transcript(s) PROVE L!ShownOnce'
  BY <1>2 DEF L!Transcript, L!ShownOnce, L!TypeOK
<1>3. ASSUME NEW removed \in SUBSET Segments, NEW segments \in SUBSET Segments,
             L!Update(removed, segments)
      PROVE L!ShownOnce'
  BY <1>3 DEF L!Update, L!ShownOnce, L!TypeOK
<1>4. \/ UNCHANGED <<rows, told>>
      \/ \E s \in Segments : L!Transcript(s)
      \/ \E removed, segments \in SUBSET Segments : L!Update(removed, segments)
  BY Zenon DEF L!Next, L!Socket, L!Sdk, L!Page, L!Construct, L!Open, L!SdkReady, L!SdkFails, L!PageFails, L!PageReady,
     L!SdkCloses, L!PageCloses, L!StopMic, L!SdkStop, L!SdkClose, L!StartMic, L!SdkGranted, L!SdkRuns, L!SdkRefused,
     L!Leave, L!PageGranted, L!PageRuns, L!PageRefused, L!Share, L!ShareGranted, L!ShareRuns, L!ShareRefused,
     L!PageSends, L!Messages, L!Flush, L!Preview, L!Unheard, L!Decoded, L!Chunk, L!Ended, L!vars, L!view, L!history
<1> QED BY <1>1, <1>2, <1>3, <1>4

(* Every step keeps drafts in order.                                       *)
LEMMA DraftStep == L!TypeOK /\ DraftInv /\ [L!Next]_(L!vars) => DraftInv' /\ (draft # 0 /\ draft' # 0 => draft <= draft')
<1> SUFFICES ASSUME L!TypeOK, DraftInv, [L!Next]_(L!vars)
             PROVE  DraftInv' /\ (draft # 0 /\ draft' # 0 => draft <= draft')
  OBVIOUS
<1> USE DEF L!TypeOK, DraftInv, L!StaleNeedsOverlap
<1>1. CASE UNCHANGED L!drafts
  BY <1>1 DEF L!drafts
<1>2. CASE L!Flush
  BY <1>2 DEF L!Flush
<1>3. CASE L!Preview
  BY <1>3 DEF L!Preview
<1>4. ASSUME NEW text \in BOOLEAN, L!Decoded(text) PROVE DraftInv' /\ (draft # 0 /\ draft' # 0 => draft <= draft')
  BY <1>4 DEF L!Decoded
<1>5. CASE L!Unheard
  BY <1>5 DEF L!Unheard
<1>6. CASE L!Heard
  BY <1>6 DEF L!Heard
<1>7. L!Socket \/ L!Sdk \/ L!Page \/ (\E c \in Openings : L!Chunk(c) \/ L!Ended(c)) => UNCHANGED L!drafts
  BY Zenon DEF L!Socket, L!Sdk, L!Page, L!Construct, L!Open, L!SdkReady, L!SdkFails, L!PageFails, L!PageReady,
     L!SdkCloses, L!PageCloses, L!StopMic, L!SdkStop, L!SdkClose, L!StartMic, L!SdkGranted, L!SdkRuns, L!SdkRefused,
     L!Leave, L!PageGranted, L!PageRuns, L!PageRefused, L!Share, L!ShareGranted, L!ShareRuns, L!ShareRefused,
     L!PageSends, L!Update, L!Chunk, L!Ended, L!view
<1>8. UNCHANGED L!vars => UNCHANGED L!drafts
  BY DEF L!vars, L!view
<1> QED BY <1>1, <1>2, <1>3, <1>4, <1>5, <1>6, <1>7, <1>8 DEF L!Next, L!Messages

(* The invariant holds of every behaviour of a client.                     *)
THEOREM LiveInvariant == L!Spec => []LiveInv
<1>1. LiveInv /\ [L!Next]_(L!vars) => LiveInv'
  BY LiveTypeStep, LinkStep, StepStep, MicStep, PageStep, ShownStep, DraftStep DEF LiveInv
<1> QED BY LiveInit, <1>1, PTL DEF L!Spec

(* Every variable keeps its type. *)
THEOREM LiveTyped == L!Spec => []L!TypeOK
<1>1. LiveInv => L!TypeOK
  BY DEF LiveInv
<1> QED BY LiveInvariant, <1>1, PTL

(* Nobody waits for a session whose socket has closed, but a page whose socket *)
(* was closed with a code below 4000: live.ts rejects for no other.           *)
THEOREM WaitersLearn == L!Spec => []L!ReadySettles
<1>1. LiveInv => L!ReadySettles
  BY DEF LiveInv, LinkInv
<1> QED BY LiveInvariant, <1>1, PTL

(* Audio, stop and debug follow authentication and readiness, in both clients. *)
THEOREM AuthenticationFirst == L!Spec => []L!NothingBeforeReady
<1>1. LiveInv => L!NothingBeforeReady
  BY DEF LiveInv, LinkInv
<1> QED BY LiveInvariant, <1>1, PTL

(* While no stopMic of the package passes an opening by, no microphone runs     *)
(* that the next one does not stop, and none outlives its socket.             *)
THEOREM MicrophoneHeld == L!Spec => []L!OneMicrophone
<1>1. LiveInv => L!OneMicrophone
  BY DEF LiveInv, MicInv, L!OneMicrophone
<1> QED BY LiveInvariant, <1>1, PTL

(* The page lets go of the microphone and of every tab when it is left,         *)
(* however its waits end, but of a tab that is picked afterwards.              *)
THEOREM PageLetsGo == L!Spec => []L!PageReleases
<1>1. LiveInv => L!PageReleases
  BY DEF LiveInv, PageInv, L!PageReleases
<1> QED BY LiveInvariant, <1>1, PTL

(* The page's transcript has a segment twice at most.                          *)
THEOREM TranscriptShown == L!Spec => []L!ShownOnce
<1>1. LiveInv => L!ShownOnce
  BY DEF LiveInv
<1> QED BY LiveInvariant, <1>1, PTL

(* The draft of an utterance is shown beside its transcript only if the preview *)
(* was under way when the transcript came.                                    *)
THEOREM StaleDrafts == L!Spec => []L!StaleNeedsOverlap
<1>1. LiveInv => L!StaleNeedsOverlap
  BY DEF LiveInv, DraftInv
<1> QED BY LiveInvariant, <1>1, PTL

(* Drafts follow one another as they are spoken: preview_in_flight admits one  *)
(* preview at a time, so that none overtakes another.                         *)
THEOREM DraftsFollow == L!Spec => L!DraftsInOrder
<1>1. LiveInv /\ [L!Next]_(L!vars) => [draft # 0 /\ draft' # 0 => draft <= draft']_(L!vars)
  BY DraftStep DEF LiveInv
<1> QED BY LiveInvariant, <1>1, PTL DEF L!Spec, L!DraftsInOrder
=============================================================================
