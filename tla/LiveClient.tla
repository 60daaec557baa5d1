----------------------------- MODULE LiveClient -----------------------------
(***************************************************************************)
(* The client's end of the live socket, twice: CorellaLive, the package's    *)
(* session with its microphone (packages/corella-live/src/client.ts and      *)
(* pcm.ts), and the recording page with LiveSessionClient                    *)
(* (web/src/routes/LiveSession.tsx and web/src/lib/live.ts).                 *)
(*                                                                         *)
(* Opening a microphone or sharing a tab takes two waits, for the permission *)
(* and for the audio graph, and anything may happen meanwhile: the socket    *)
(* closes, the caller stops, starts again or leaves the page.  The page is    *)
(* followed through one run of its effect.  What the store does with the      *)
(* package's segments and labels is in Diarization; both clients show, beside *)
(* them, a draft of what a channel that is transcribed locally is saying       *)
(* (app/ws/live_session.py).                                                 *)
(***************************************************************************)
EXTENDS Naturals

CONSTANTS
  Openings,  \* the microphones and tabs that are ever opened
  Segments

VARIABLES
  kind,      \* whose session it is: the package's ("sdk") or the page's
  socket,    \* readyState, or "none" before there is one
  ready,     \* the promise of the session
  settled,   \* readySettled, which the package keeps beside it
  sent,      \* the kinds of frames that have been sent
  shown,     \* the page's connection state
  left,      \* cancelled: the effect has been cleaned up
  step,      \* per opening: how far it is
  device,    \* per opening: its track is live
  graph,     \* per opening: its worklet hands chunks on
  mic,       \* mic, micCaptureRef: the handle, if there is one
  them,      \* themCaptureRef
  own,       \* the page's opening of the microphone
  streams,   \* streamsRef
  rows,      \* how many times the page's transcript has a segment
  missed,    \* history: openings that stopMic found under way
  late,      \* history: openings of the package begun when the socket was not open
  asked,     \* history: openings that had no answer yet when the page was left
  quiet,     \* history: the socket was closed with a code below 4000
  told,      \* history: segments whose transcript message has come
  spoken,    \* how many utterances of the channel have been flushed to the queue
  next,      \* how many have been taken from it
  decoding,  \* preview_in_flight: the utterance a preview is made of, or 0
  draft,     \* partials: the utterance whose draft is shown, or 0
  final,     \* history: utterances whose transcript message has come
  overtaken  \* history: those of them that a preview was being made of then

link == <<kind, socket, ready, settled, sent, shown, left>>
audio == <<step, device, graph, mic, them, own, streams>>
history == <<missed, late, asked, quiet, told>>
drafts == <<spoken, next, decoding, draft, final, overtaken>>
view == <<rows, drafts>>
vars == <<link, audio, view, history>>

Steps == {"idle", "asking", "starting", "done", "failed"}
Opening == {c \in Openings : step[c] \in {"asking", "starting"}}

TypeOK ==
  /\ kind \in {"sdk", "page"}
  /\ socket \in {"none", "connecting", "open", "closing", "closed"}
  /\ ready \in {"pending", "resolved", "rejected"}
  /\ settled \in BOOLEAN
  /\ sent \subseteq {"auth", "audio", "stop", "debug"}
  /\ shown \in {"connecting", "connected", "error"}
  /\ left \in BOOLEAN
  /\ step \in [Openings -> Steps]
  /\ device \in [Openings -> BOOLEAN]
  /\ graph \in [Openings -> BOOLEAN]
  /\ mic \subseteq Openings /\ them \subseteq Openings
  /\ own \subseteq Openings /\ streams \subseteq Openings
  /\ rows \in [Segments -> Nat]
  /\ missed \subseteq Openings /\ late \subseteq Openings /\ asked \subseteq Openings
  /\ quiet \in BOOLEAN
  /\ told \subseteq Segments
  /\ spoken \in Nat /\ next \in Nat /\ decoding \in Nat /\ draft \in Nat
  /\ final \subseteq Nat /\ overtaken \subseteq Nat

Init ==
  /\ kind \in {"sdk", "page"}
  /\ socket = "none" /\ ready = "pending" /\ settled = FALSE /\ sent = {}
  /\ shown = "connecting" /\ left = FALSE
  /\ step = [c \in Openings |-> "idle"]
  /\ device = [c \in Openings |-> FALSE] /\ graph = [c \in Openings |-> FALSE]
  /\ mic = {} /\ them = {} /\ own = {} /\ streams = {}
  /\ rows = [s \in Segments |-> 0]
  /\ missed = {} /\ late = {} /\ asked = {} /\ quiet = FALSE /\ told = {}
  /\ spoken = 0 /\ next = 0 /\ decoding = 0 /\ draft = 0 /\ final = {} /\ overtaken = {}

-----------------------------------------------------------------------------
(* The socket *)

(* The constructors; the package's start() has created the meeting.           *)
Construct ==
  /\ socket = "none" /\ socket' = "connecting"
  /\ UNCHANGED <<kind, ready, settled, sent, shown, left, audio, view, history>>

(* onopen *)
Open ==
  /\ socket = "connecting" /\ socket' = "open"
  /\ sent' = sent \cup {"auth"}
  /\ UNCHANGED <<kind, ready, settled, shown, left, audio, view, history>>

(* stopMic, of the package. *)
Silence ==
  /\ device' = [c \in Openings |-> device[c] /\ c \notin mic]
  /\ graph' = [c \in Openings |-> graph[c] /\ c \notin mic]
  /\ mic' = {}
  /\ missed' = missed \cup Opening

Settle == ready' = IF ready = "pending" THEN "resolved" ELSE ready
Reject == ready' = IF ready = "pending" THEN "rejected" ELSE ready

(* settleReady *)
SdkReady ==
  /\ kind = "sdk" /\ socket = "open"
  /\ settled' = TRUE
  /\ IF settled THEN UNCHANGED ready ELSE Settle
  /\ UNCHANGED <<kind, socket, sent, shown, left, audio, view, history>>

(* connect() goes on when the promise is resolved: unless the page has been    *)
(* left, it asks for the microphone.                                         *)
PageReady(c) ==
  /\ kind = "page" /\ socket = "open" /\ ready = "pending"
  /\ Settle
  /\ IF left THEN UNCHANGED <<shown, step, own>>
     ELSE /\ step[c] = "idle"
          /\ shown' = "connected" /\ own' = {c}
          /\ step' = [step EXCEPT ![c] = "asking"]
  /\ UNCHANGED <<kind, socket, settled, sent, left, device, graph, mic, them, streams, view,
                 history>>

(* The page's connect() fails: its catch block. *)
Shows(rejected) == shown' = IF rejected /\ ~left THEN "error" ELSE shown

(* onclose, with a code below 4000 or one of the server's.                    *)
SdkCloses(own4000) ==
  /\ kind = "sdk" /\ socket \in {"open", "closing"} /\ socket' = "closed"
  /\ Silence
  /\ IF settled THEN UNCHANGED ready ELSE Reject
  /\ quiet' = ~own4000
  /\ UNCHANGED <<kind, settled, sent, shown, left, step, them, own, streams, view, late, asked,
                 told>>

PageCloses(own4000) ==
  /\ kind = "page" /\ socket \in {"open", "closing"} /\ socket' = "closed"
  /\ IF own4000 THEN Reject ELSE UNCHANGED ready
  /\ Shows(own4000 /\ ready = "pending")
  /\ quiet' = ~own4000
  /\ UNCHANGED <<kind, settled, sent, left, audio, view, missed, late, asked, told>>

(* onerror, and onclose after it with 1006. *)
SdkFails ==
  /\ kind = "sdk" /\ socket \in {"connecting", "open", "closing"} /\ socket' = "closed"
  /\ Silence
  /\ IF settled THEN UNCHANGED ready ELSE Reject
  /\ UNCHANGED <<kind, settled, sent, shown, left, step, them, own, streams, view, late, asked,
                 quiet, told>>

PageFails ==
  /\ kind = "page" /\ socket \in {"connecting", "open", "closing"} /\ socket' = "closed"
  /\ Reject
  /\ Shows(ready = "pending")
  /\ UNCHANGED <<kind, settled, sent, left, audio, view, history>>

(* sendPcm, sendAudio: a chunk of a running worklet. *)
Chunk(c) ==
  /\ graph[c]
  /\ sent' = IF socket = "open" THEN sent \cup {"audio"} ELSE sent
  /\ UNCHANGED <<kind, socket, ready, settled, shown, left, audio, view, history>>

Send(what) ==
  /\ sent' = IF socket = "open" THEN sent \cup {what} ELSE sent
  /\ UNCHANGED <<kind, ready, settled, shown, left>>

-----------------------------------------------------------------------------
(* CorellaLive.  start() and connect() return it once it is ready. *)

Given == kind = "sdk" /\ ready = "resolved"

(* startMic of the session: stopMic, and then getUserMedia. *)
StartMic(c) ==
  /\ Given /\ step[c] = "idle"
  /\ Silence
  /\ step' = [step EXCEPT ![c] = "asking"]
  /\ late' = IF socket = "open" THEN late ELSE late \cup {c}
  /\ UNCHANGED <<link, them, own, streams, view, asked, quiet, told>>

(* The permission, and then resume() and addModule(). *)
SdkGranted(c) ==
  /\ kind = "sdk" /\ step[c] = "asking"
  /\ step' = [step EXCEPT ![c] = "starting"]
  /\ device' = [device EXCEPT ![c] = TRUE]
  /\ UNCHANGED <<link, graph, mic, them, own, streams, view, history>>

(* The handle replaces whichever is there. *)
SdkRuns(c) ==
  /\ kind = "sdk" /\ step[c] = "starting"
  /\ step' = [step EXCEPT ![c] = "done"]
  /\ graph' = [graph EXCEPT ![c] = TRUE]
  /\ mic' = {c}
  /\ UNCHANGED <<link, device, them, own, streams, view, history>>

(* Either wait raises: nothing stops a track that was granted. *)
SdkRefused(c) ==
  /\ kind = "sdk" /\ step[c] \in {"asking", "starting"}
  /\ step' = [step EXCEPT ![c] = "failed"]
  /\ UNCHANGED <<link, device, graph, mic, them, own, streams, view, history>>

StopMic ==
  /\ Given /\ Silence
  /\ UNCHANGED <<link, step, them, own, streams, view, late, asked, quiet, told>>

(* stop *)
SdkStop ==
  /\ Given /\ Silence /\ Send("stop") /\ UNCHANGED socket
  /\ UNCHANGED <<step, them, own, streams, view, late, asked, quiet, told>>

Shut == socket' = IF socket \in {"connecting", "open"} THEN "closing" ELSE socket

(* close *)
SdkClose ==
  /\ Given /\ Silence /\ Shut
  /\ UNCHANGED <<kind, ready, settled, sent, shown, left, step, them, own, streams, view, late,
                 asked, quiet, told>>

-----------------------------------------------------------------------------
(* The recording page *)

(* The microphone's track is stopped if the page has been left meanwhile. *)
PageGranted(c) ==
  /\ kind = "page" /\ c \in own /\ step[c] = "asking"
  /\ IF left
     THEN /\ step' = [step EXCEPT ![c] = "failed"]
          /\ UNCHANGED <<device, streams>>
     ELSE /\ step' = [step EXCEPT ![c] = "starting"]
          /\ device' = [device EXCEPT ![c] = TRUE]
          /\ streams' = streams \cup {c}
  /\ UNCHANGED <<link, graph, mic, them, own, view, history>>

(* startCapture has returned. *)
PageRuns(c) ==
  /\ kind = "page" /\ c \in own /\ step[c] = "starting"
  /\ step' = [step EXCEPT ![c] = "done"]
  /\ graph' = [graph EXCEPT ![c] = TRUE]
  /\ mic' = {c}
  /\ UNCHANGED <<link, device, them, own, streams, view, history>>

PageRefused(c) ==
  /\ kind = "page" /\ c \in own /\ step[c] \in {"asking", "starting"}
  /\ step' = [step EXCEPT ![c] = "failed"]
  /\ Shows(TRUE)
  /\ UNCHANGED <<kind, socket, ready, settled, sent, left, device, graph, mic, them, own, streams,
                 view, history>>

(* onShareTabAudio: the button is there while no tab's audio is shown.        *)
Share(c) ==
  /\ kind = "page" /\ shown = "connected" /\ ~left /\ step[c] = "idle"
  /\ them = {}
  /\ step' = [step EXCEPT ![c] = "asking"]
  /\ UNCHANGED <<link, device, graph, mic, them, own, streams, view, history>>

(* A tab is picked.  Nothing asks whether the page is still there. *)
ShareGranted(c) ==
  /\ kind = "page" /\ c \notin own /\ step[c] = "asking"
  /\ step' = [step EXCEPT ![c] = "starting"]
  /\ device' = [device EXCEPT ![c] = TRUE]
  /\ streams' = streams \cup {c}
  /\ UNCHANGED <<link, graph, mic, them, own, view, history>>

ShareRuns(c) ==
  /\ kind = "page" /\ c \notin own /\ step[c] = "starting"
  /\ step' = [step EXCEPT ![c] = "done"]
  /\ graph' = [graph EXCEPT ![c] = TRUE]
  /\ them' = {c}
  /\ UNCHANGED <<link, device, mic, own, streams, view, history>>

(* Cancelled, shared without audio, or the graph cannot be built. *)
ShareRefused(c) ==
  /\ kind = "page" /\ c \notin own /\ step[c] \in {"asking", "starting"}
  /\ step' = [step EXCEPT ![c] = "failed"]
  /\ UNCHANGED <<link, device, graph, mic, them, own, streams, view, history>>

(* The user ends the sharing, or unplugs the microphone.  The listener of a    *)
(* tab stops the handle there is now, whoever's it is.                        *)
Ended(c) ==
  /\ device[c]
  /\ device' = [device EXCEPT ![c] = FALSE]
  /\ IF kind = "page" /\ c \notin own /\ step[c] = "done"
     THEN /\ graph' = [d \in Openings |-> graph[d] /\ d \notin them]
          /\ them' = {}
     ELSE UNCHANGED <<graph, them>>
  /\ UNCHANGED <<link, step, mic, own, streams, view, history>>

(* onStop and onToggleDebug *)
PageSends(what) ==
  /\ kind = "page" /\ shown = "connected" /\ ~left
  /\ Send(what) /\ UNCHANGED socket
  /\ UNCHANGED <<audio, view, history>>

(* The cleanup, also when "stopped" has come and the page moves on. *)
Leave ==
  /\ kind = "page" /\ socket # "none" /\ ~left
  /\ left' = TRUE
  /\ graph' = [c \in Openings |-> graph[c] /\ c \notin mic \cup them]
  /\ device' = [c \in Openings |-> device[c] /\ c \notin streams]
  /\ Shut
  /\ asked' = {c \in Openings : step[c] = "asking"}
  /\ UNCHANGED <<kind, ready, settled, sent, shown, step, mic, them, own, streams, view, missed,
                 late, quiet, told>>

(* applyDiarizationUpdate: the transcript goes through a map by id. *)
Update(removed, segments) ==
  /\ kind = "page" /\ socket = "open"
  /\ rows' = [s \in Segments |->
       IF s \in segments \/ (rows[s] > 0 /\ s \notin removed) THEN 1 ELSE 0]
  /\ UNCHANGED <<link, audio, drafts, history>>

-----------------------------------------------------------------------------
(* Transcripts and drafts.  The channel followed has no Deepgram stream: its    *)
(* detector gathers an utterance and flushes it to the queue, and previews are  *)
(* made of what it has gathered so far.  The socket keeps the order of the      *)
(* messages, and drops those that come when it is no longer open.              *)

(* on_audio, and enqueue_leftovers at the end. *)
Flush ==
  /\ "audio" \in sent
  /\ spoken' = spoken + 1
  /\ UNCHANGED <<link, audio, rows, next, decoding, draft, final, overtaken, history>>

(* maybe_schedule_preview, of an audio frame: one preview at a time.           *)
Preview ==
  /\ "audio" \in sent /\ decoding = 0
  /\ decoding' = spoken + 1
  /\ UNCHANGED <<link, audio, rows, spoken, next, draft, final, overtaken, history>>

(* _run_preview_decode: a preview without text, or that raises, is not sent.   *)
Decoded(text) ==
  /\ decoding # 0 /\ decoding' = 0
  /\ draft' = IF text /\ socket = "open" THEN decoding ELSE draft
  /\ UNCHANGED <<link, audio, rows, spoken, next, final, overtaken, history>>

(* The utterance at the head of the queue has no text in either engine, or it   *)
(* is transcribed when nobody listens any more.                              *)
Unheard ==
  /\ next < spoken /\ next' = next + 1
  /\ UNCHANGED <<link, audio, rows, spoken, decoding, draft, final, overtaken, history>>

(* A transcript message, one for a segment; of the channel followed, it takes   *)
(* the place of the draft.  The page appends it to its transcript.             *)
Transcript(s) ==
  /\ socket = "open" /\ s \notin told
  /\ rows' = IF kind = "page" THEN [rows EXCEPT ![s] = rows[s] + 1] ELSE rows
  /\ told' = told \cup {s}
  /\ UNCHANGED <<link, audio, missed, late, asked, quiet>>

Heard ==
  /\ next < spoken /\ next' = next + 1
  /\ draft' = 0
  /\ final' = final \cup {next + 1}
  /\ overtaken' = IF decoding = next + 1 THEN overtaken \cup {decoding} ELSE overtaken
  /\ UNCHANGED <<spoken, decoding>>

-----------------------------------------------------------------------------
Socket ==
  \/ Construct \/ Open \/ SdkReady \/ SdkFails \/ PageFails
  \/ \E c \in Openings : PageReady(c)
  \/ \E b \in BOOLEAN : SdkCloses(b) \/ PageCloses(b)

Sdk ==
  \/ StopMic \/ SdkStop \/ SdkClose
  \/ \E c \in Openings : StartMic(c) \/ SdkGranted(c) \/ SdkRuns(c) \/ SdkRefused(c)

Page ==
  \/ Leave
  \/ \E c \in Openings :
       \/ PageGranted(c) \/ PageRuns(c) \/ PageRefused(c)
       \/ Share(c) \/ ShareGranted(c) \/ ShareRuns(c) \/ ShareRefused(c)
  \/ \E what \in {"stop", "debug"} : PageSends(what)
  \/ \E removed, segments \in SUBSET Segments : Update(removed, segments)

Messages ==
  \/ Flush \/ Preview \/ Unheard
  \/ \E text \in BOOLEAN : Decoded(text)
  \/ \E s \in Segments : Transcript(s) /\ (Heard \/ UNCHANGED drafts)

Next == Socket \/ Sdk \/ Page \/ Messages \/ \E c \in Openings : Chunk(c) \/ Ended(c)

Spec == Init /\ [][Next]_vars

-----------------------------------------------------------------------------
(* Properties *)

(* Whoever waits for the session learns that the socket has closed, except a   *)
(* page whose socket was closed with a code below 4000.                       *)
ReadySettles == socket = "closed" /\ ready = "pending" => kind = "page" /\ quiet

(* Authentication is sent first, and nothing else before the session is ready. *)
NothingBeforeReady ==
  /\ sent # {} => "auth" \in sent
  /\ sent \subseteq {"auth"} \/ ready = "resolved"

(* As long as stopMic finds no startMic under way, the one microphone that     *)
(* runs is the one the next stopMic stops; and on a closed socket none is      *)
(* live, but one that was started too late or failed to start.                *)
OneMicrophone ==
  kind = "sdk" /\ missed = {} =>
    \A c \in Openings :
      /\ graph[c] => c \in mic
      /\ socket = "closed" /\ device[c] => c \in late \/ step[c] = "failed"

(* A page that was left sends nothing, and holds neither the microphone nor a  *)
(* tab, except a tab whose picker was open when it was left.                  *)
PageReleases ==
  left =>
    /\ socket \in {"closing", "closed"}
    /\ \A c \in Openings : device[c] => c \in asked \ own

(* The page shows a segment twice only if its transcript has come, and then    *)
(* after an update that had shown it; the next update shows it once.           *)
ShownOnce == \A s \in Segments : rows[s] <= 2 /\ (rows[s] = 2 => s \in told)

(* The draft of an utterance whose transcript is there already is shown only   *)
(* if its preview was being made when the transcript came; nothing clears it    *)
(* before the next message of the channel.                                    *)
StaleNeedsOverlap == draft \in final => draft \in overtaken

(* A draft is never replaced by one of an earlier utterance. *)
DraftsInOrder == [][draft # 0 /\ draft' # 0 => draft <= draft']_vars
=============================================================================
