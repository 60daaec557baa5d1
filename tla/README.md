# Corella: a TLA+ model of the server

Corella records calls, transcribes them live, tells speakers apart and writes
reports. This directory holds the TLA+ modules that model its server
(`src/server/app`) and the client's end of the live socket, the TLC configurations that check them, and the proofs
TLAPS checks. Paths below are relative to `src/server/app` unless they begin
with `src/`.

- [Inventory](#inventory)
- [Modules](#modules)
- [Runs](#runs)
- [Proofs](#proofs)
- [Where the code and its documentation part](#where-the-code-and-its-documentation-part)
- [Not modelled](#not-modelled)
- [Plan](#plan)

## Inventory

One FastAPI process (`uvicorn`, one worker) serves HTTP and WebSockets on one
event loop; Celery workers take tasks from Redis; PostgreSQL holds the rows,
Qdrant the vectors, the disk the audio. State that two of them touch, and every
`await` between a read and the write that depends on it, is where the
difficulty of this system is.

| Component | State | Operations | What makes it correct |
|---|---|---|---|
| Recording lock (`services/recording_lock.py`) | one Redis key per meeting: token, TTL | acquire (SET NX EX), renew (GET, EXPIRE), release (GET, DELETE) | one session per meeting; no session acts on another's lock; a lock left behind lapses |
| Live session (`ws/live_session.py`) | the meeting's row; per connection: queue, detectors, background tasks | connect, receive audio, consume utterances, stop, drain, finalize | one pipeline at a time; no utterance lost; the meeting always leaves `recording` and is settled |
| Upload, job, delete (`api/meetings.py`, `workers/tasks.py`) | the row, the audio file, a Celery task | upload, process_meeting_audio, delete | a meeting in `processing` has someone working on it; nothing is written for a deleted meeting |
| Diarization (`workers/tasks.py`, `services/diarization/cluster.py`) | voice registry and pending segments in Redis under a lock, speakers and labels in PostgreSQL | periodic reconcile, quick hint, identify by name | one voice, one speaker; registry and rows agree; a guest is named only past the floor |
| Diarization events (`services/diarization/events.py`, `_poll_diarization_updates`, `src/packages/corella-live`) | Redis list, set of reported segments, client store | push, wake, drain, forward, merge | every label decided reaches a live client (a late hint overwrites it there until the segment's next update) |
| Deepgram stream (`services/asr/deepgram_stream.py`, `_open_deepgram_stream`) | send queue, reader, writer, chunks, usage | send, result, fail, close | fall back to local VAD exactly once; usage logged once; the last utterance kept |
| VAD and mixing (`services/vad`, `services/audio`) | frame counters; positions of chunks | feed, flush, mix, window | thresholds; nothing clipped, shifted or lost |
| Organizations (`api/organizations.py`, `services/organizations.py`) | memberships, roles, invites, groups | create, join, leave, transfer, invite, delete | exactly one owner; limits hold; invites are used once |
| Call types (`api/admin.py`, `services/admin/call_hooks.py`) | default flag and pre-call hook per type, secrets, the hook of each meeting | create, update, delete, create_meeting, dispatch_pre_call | exactly one default; no pre-call vanishes or is made twice |
| Voice identities (`api/auth.py`, `workers/tasks.py`, `services/embeddings`) | rows, points in Qdrant, sample files, a queue | upload, remove, enroll, name a voice that was heard | every row has its point; one identity per user; a removal removes all |
| Knowledge base, search (`api/kb.py`, `workers/tasks.py`, `services/embeddings`) | documents, chunks in Qdrant | upload, process, delete, index, search | no chunk without a row; no document pending forever |
| Copilot, reports, hooks (`services/copilot`, `services/admin/call_hooks.py`) | insights, summary, action items, hook log, costs | cycle, report, hooks | one cycle at a time; the post-call hook only after an automatic report; a call's cost is on record |
| Providers (`api/settings.py`, `services/llm/resolve.py`, `services/asr/resolve.py`) | credentials and preferences of a user | save, delete, prefer, resolve | what is resolved can be called; a connected preference wins |
| Live clients (`src/packages/corella-live`, `src/web/src/routes/LiveSession.tsx`, `src/web/src/lib/live.ts`) | socket, readiness promise, microphone and tab, transcript, draft | connect, start, stop, share, leave, messages | whoever waits is answered; no microphone outlives its session; no draft goes back |
| Authentication, email, configuration, the rest of the UI | request-local, external or presentation | | |

How they interact: the live session takes the lock, writes segments, dispatches
reconcile tasks to the worker, reads the worker's events back from Redis, and
at its end dispatches the index and the report. The report dispatches the
post-call hook. Uploads go through the worker instead of a session. Deleting a
meeting or leaving an organization can happen at any moment of all of this.

`PROJECT.json` lists every hazard found while reading, with the line where it
bites and the properties that cover it; one without properties says why.

## Modules

| Module | What it is |
|---|---|
| `LeaseLock` | abstract specification of the recording lock: who holds it, whose session is alive |
| `RecordingLock` | the lock as Redis round trips in discrete time; implements `LeaseLock` |
| `RecordingLockProofs` | its theorems |
| `MeetingLifecycle` | one meeting: connections, utterances, finalize, upload, job, delete; uses the lock as `LeaseLock` |
| `AudioChannel` | one channel of a session, from the client's frames to its segments: Deepgram stream, or pause detector, queue and consumer |
| `AudioChannelProofs` | its theorems |
| `Diarization` | one channel's voice registry: passes, lock, transaction, the labels of a stream, events, hints, the client's store |
| `DiarizationProofs` | its theorems |
| `Organizations` | one organization: members, roles, ownership, invites; every request is authorize, read, write |
| `OrganizationsProofs` | its theorems |
| `Artifacts` | what is made of a meeting or a document, in rows, files and vectors, against the deletes; the ledger and the hook log |
| `ArtifactsProofs` | its theorems |
| `CallTypes` | the call types and secrets of one organization and the pre-calls of its meetings, under overlapping requests |
| `Voices` | the voice identities of one organization and one user's enrolled voice: rows, points and samples |
| `VoicesProofs` | theorems of `Voices` |
| `Providers` | one user's credentials and preferences, and what a report, a cycle or a channel resolves from them |
| `SettingsProofs` | theorems of `CallTypes`, and of `Providers` (instance `P`) |
| `LiveClient` | the client's end of the socket in the package and in the recording page: readiness, microphone, tab, transcript, draft |
| `SessionProofs` | theorems of `MeetingLifecycle`, and of `LiveClient` (instance `L`): the two ends of the socket |
| `MCRecordingLock`, `MCMeetingLifecycle`, `MCDiarization`, `MCOrganizations`, `MCArtifacts`, `MCCallTypes`, `MCVoices` | instances for TLC (`AudioChannel` is its own) |

What ties them together is the meeting. `MeetingLifecycle` has its status and
its lock, and treats an utterance as a token that is heard and then kept;
`AudioChannel` looks inside the session at how frames become such utterances,
`Diarization` at what the worker does with the segments while the session runs,
and `Artifacts` at what is started by the end of the drain (`Finalized`) and at
everything else that refers to the row a delete may take away. `CallTypes` has
what comes before: the meeting is created with a type, whose pre-call goes out.
`Providers` and `Voices` hold what the others look up, and `LiveClient` is the
far side of the socket whose near side is in `MeetingLifecycle`. They are not
composed into one state space: they meet in a handful of facts (a session has
ended, a segment has been committed, the row is there), and each module states
its own side of them.

### RecordingLock

`stored` and `ttl` are the key; `pc`, `timer` and `missed` are, per connection,
the place in the code, the time left for what it is doing, and the renewals
that raised in a row. `Acquire` is one atomic command. `renew` is `RenewGet`
and `RenewExpire`, `release` is `ReleaseGet` and `ReleaseDelete`: between the
two the key may lapse and be taken. EXPIRE and DELETE act on *whatever* the key
then holds, as in the code. `RenewRaises` is the `except` of the loop,
`SetupRaises` an exception between acquire and the start of the loop (the key is
left to its TTL), `Crash` the death of the process. `Tick` is one second; a
connection that has used up the time allowed to it must act before the next.

The code bounds none of: how long setup takes (it may load a model), how late a
renewal is, how long a release takes, how many renewals raise. They are the
constants `MaxSetup`, `MaxDelay`, `MaxMissed`, and

    Timely == MaxSetup + (MaxMissed + 1) * (RenewInterval + MaxDelay) + MaxDelay < TTL

is the timing under which the lock is safe. It is a hypothesis of the theorems
and not an ASSUME of the module, so that a run can step outside it.

### MeetingLifecycle

`status` and `audio` are columns of the row (`"deleted"` is its absence), `lock`
is the lease, `pc[c]` is where the handler of connection `c` is:

    idle -> checked -> setup -> warming -> spawned -> streaming -> closing
         -> marking -> leaving -> draining -> finalizing -> saving -> dispatching -> reported

with the exits `refused` (4404, 4409), `aborted` (exception before the loops
exist), `leaked` (the finally block did not run, or not to its end: the renewal
loop lives on and keeps the lock), `lost` (`_finalize` raised outside its try),
`done` and `crashed`. Each place is an `await` of the code. `queued`, `working`
and `speaking` are the queue, the consumer and the detectors; `heard`, `kept`
and `spoilt` count utterances and exist for the properties only.

A handler's write uses what it read earlier. `Flush` is SQLAlchemy's rule that
setting a column to the value that was loaded sends no UPDATE; after a rollback
the loaded value is gone, so `failed` is always written. A commit for a deleted
row raises (`StaleDataError`; for a segment, the foreign key).

`JobFails` is the only outcome of the upload's job that reached its work:
`tasks.py:121` calls `searchable_kb_keywords` without its organization, so the
`ready` branch of `process_meeting_audio` is unreachable in this version.

The Deepgram path commits segments from the stream's reader and not from the
queue: that is in `AudioChannel`. Cycles and hints are in `Artifacts` and
`Diarization`.

### AudioChannel

A frame is the unit of everything: one chunk of `on_audio` is one frame,
numbered as it comes, with speech in it or without. A clip is an interval of
numbers. `given`, `written`, `chunked` and `bounded` say how far frames have got
with the stream: handed to `send()`, written to the socket, in a final chunk the
reader has received, and behind the last utterance boundary. The detector is
what `vad.py` keeps (first frame, speech, trailing silence), `queue` and
`working` are the local path. `handler` is where the connection's handler is:
`Stop` is `enqueue_leftovers` and the list that `_close_deepgram_streams`
makes, which have no `await` in between; `BeginClose` is the moment the task of
`gather()` starts, so that a drop may still come first; `WriterAwaited` and
`ReaderAwaited` are the two `wait_for`, each of which ends or cancels.

`Fail` is `_fail` with the `on_closed` it calls. It runs in the writer's or the
reader's task, once, and never when `closing`: the property about usage is what
this is for. `LogUsage` resets the counter before it tries the ledger, as
`_log_deepgram_stt_cost` does, so a ledger that refuses loses the entry
(`unlogged`) and never bills it twice.

Assumed of Deepgram, which is external: results cover the audio in order, text
comes back exactly for speech, and what it still had when CloseStream arrived is
bounded before it closes. (Without the last, final chunks of an utterance
that was never bounded would be lost at every close: `_read_loop` does not
finalize what it holds.) A write to a dropped socket raises.

### Diarization

`row`, `speakers`, `named` are committed rows; `clusters`, `pending` and `lock`
are in Redis; `draft[p]` is what pass `p` has decided and not committed; `events`
and `reported` are the Redis list and set; `client` is the store. A pass goes

    todo -> decided -> pushed -> saving -> saved -> over

`Decide` is everything under the lock up to the flush. What pyannote hears is
chosen freely: any local voice under any segment of a window that is dispatched
(`Dispatched`, `Hearings`), any claim-once matching with the registry (`Claims`),
any voice recognized from the library (`Recognizable`). What follows from the choice is the code's: weights
(`Weighed`), the floor (`MeetsFloor`), promotion, draining of what was held
(`Drained`). `Push` is the flush and the event, from within transaction and
lock. `SaveClusters` and `SavePending` are the two SETs of `locked_state`; the
release at its end raises if the lock has expired, and that rolls back a pass
whose event is out. `Commit` comes after the release, so the next pass may
decide on rows it cannot see: `Unseen` is the label of a speaker of such a row,
which raises. `Fail` is an exception or a death anywhere between.

Passes are numbered as they enter the lock; the detector's segments are committed
from the start, since one that a window does not reach is one no turn covers.

A diarizing Deepgram stream labels its own segments (`StreamVoice`, `Streamed`),
outside passes, registry and gate: `CommitStreamed` commits the segment with the
stream's speaker, `PushStreamed` pushes its update (`told`), and the transcript
message comes after. It adds to the same set that tells a pass whether the channel
has reported anything, so that the stream may be what opens the gate
(`streamFirst`, and 19 below). Both may be taken at any time: a channel's stream
drops before its passes begin, but an earlier connection's passes may still run
when a later one's stream has opened. `push_event` writes the list and the set in
turn; here, as in `Push` and `Hint`, that is one step.

### Organizations

A request is `authorize` (the membership `get_auth_context` loads), the
endpoint's own reads and checks, and its writes with the commit: three steps,
under READ COMMITTED. `job[r]` is what request `r` has loaded. Writes are
SQLAlchemy's: an UPDATE names the columns that differ from what was loaded, and
one that matches no row raises `StaleDataError`, which rolls everything back.
`OneOwnerIn` is the partial unique index `uq_org_one_owner`. Other organizations
are only the number of them somebody owns (`ownerOf`).

### Artifacts

PostgreSQL, the disk and Qdrant have no common transaction. `row`, `files` and
`chunks` say in which of them a document or the meeting has something; `job`
and `eraser` are how far its job and its delete have come. A commit for a row
that is gone raises (`StaleDataError`, a foreign key), and what the job has put
on the disk or in Qdrant stays. `at[p]` is where report, cycle or hook `p` is:

    idle -> asking -> answered -> priced -> chosen -> told -> posted -> over   (a report; `told` for an automatic one)
                               -> noting -> idle                               (a cycle)

`Booked` is the row for a call, in `llm_usage_events` or `hook_logs`. `digest`
is whose action items are in the table, `summary` whose text is in the columns,
`previous[r]` the items report `r` has chosen to replace. The pre-call hook and
the cycles run in the api, the tasks and the post-call hook in the worker;
`WorkerDies` and `ApiDies` take what each is doing, once.

### CallTypes

Like `Organizations`, each request reads, checks and writes, and others may
commit in between. What a request has read and is about to write is in its
`job`: the flag it loaded (`was`), the one it wants, the other defaults it found.
`Unset` is the UPDATE of those others. A hook is its mode and the secrets its
headers refer to; `hook[m]` is what has become of a meeting's pre-call, which
`Meet` leaves `due` in the hands of the request, which makes it (`sync`) or
queues it (`async`, where `QueueFails` is logged as a failure). `Resolve` is the
look-up of the secrets, which may have gone.

### Voices

`Upload` writes the sample and queues the task; `Load` of `enroll_voice` finds
the row, the file and the name; `Spot` is `identify_speaker_name` in a meeting,
which gives a name that is taken the first suffix that is free. The point is upserted inside the
transaction, whose `Commit` comes later. `Locked` is the row lock of an UPDATE
that has been flushed. `taken` numbers the samples so that an old one can be told
from a new one: `find_voice_sample_path` takes the first file in the order of the
extensions, so that a sample uploaded with a later extension is not the one that
is enrolled while an earlier one lies there.

### Providers

A credential is whether its row, its key and its URL are there. `Save` and
`SavePrefs` write only what differs from what they read. The resolution of a
language model reads the rows, then the user (`ReadRows`, `ReadUser`), that of
speech recognition the user, then the key: another request may commit in between,
and the properties speak of the values that were read. `Resolve` is the order of
`resolve_provider`: the preference if it is connected, then the providers in turn.

### LiveClient

`kind` is whose client it is: the package's (`"sdk"`) or the page's. An opening
is one call of `getUserMedia` or of the tab's picker:

    idle -> asking -> starting -> done | failed

with a wait for the permission and one for the audio graph, in which anything
else may happen. `device` and `graph` are what the browser keeps alive, `mic`,
`them` and `streams` what the code could stop, and the properties say when the
first is within the second. `missed`, `late` and `asked` are the overlaps the code
does not handle (see 16 and 17 below). The last part follows one channel that is
transcribed locally: `Flush` puts an utterance in the queue, `Preview` decodes
what has been gathered since, `Decoded` sends it as a draft, and `Heard` is the
transcript that clears it. A message counts as received when it is sent to an
open socket, which keeps the order.

## Runs

| Run | Bounds | Shows |
|---|---|---|
| `recording_lock` | 3 connections, TTL 30, interval 10, lateness 1, setup 6, one missed renewal | type, exclusion, check-then-act, refinement of the lease, healing |
| `recording_lock_two_missed` | the same with no lateness, no setup time, two missed renewals | **violated**: exclusion |
| `meeting_lifecycle` | 2 connections, of which one hears up to two utterances, one upload, a delete, exceptions and crashes anywhere | type, whole transcript, lease, stale write, liveness |
| `meeting_two_writers` | 2 connections, one utterance each, nothing raises or crashes | **violated**: one writer |
| `meeting_client_gone` | 2 connections, nothing raises or crashes | **violated**: leaving ends the recording |
| `meeting_upload_race` | no connection, one upload, nothing raises or crashes | **violated**: an upload is settled |
| `audio_channel` | 5 frames, minimum 2, cap 3, pause after 1; drops, raising commits and a refusing ledger anywhere | type, no frame lost or transcribed twice, usage billed once, who commits late, a stop gets through |
| `diarization` | 2 segments of length 1 and 2 and one that a stream labels, 2 passes at once, 2 local voices, floor 2 and 1/5, one segment with hint and transcript message, passes that raise or die anywhere, and `StreamApart` | type, held segments reachable, weights, client and database agree, what is reported, labels stay, lock freed, reports arrive |
| `organizations` | 2 users, 2 requests at a time (each may be followed by others), one other organization, 2 invites, cap of 1 | type, one owner, who may lose it, invites, limits |
| `artifacts` | one document, one automatic and two manual reports, one copilot, one pre-call hook; services fail, one death; the meeting's side or the document's | type, reports agree with their items, calls on record, stores agree |
| `call_types` | 3 types, 1 secret, 1 meeting, 2 requests, 1 worker; hooks off, sync and async | type, exactly one default but for an overlap or a request that clears it, the hook is in one pair of hands |
| `voices` | 3 identities, 2 names, 2 extensions, 2 samples, 2 requests, 2 workers that may fail or die | type and every row with its point, duplicates only from overlaps, a removal that nothing overtakes removes all |

`Providers` and `LiveClient` have no run: what they promise is proved for every
value of the constants.

Why the bounds are enough. The lock's numbers are the code's own; they are the
largest `Timely` ones for one missed renewal (a setup of 7 breaks
`CheckStillHolds`, of 8 the lease), and three connections are one more than a
race needs: an old owner, a new one and a loser. In the life of a meeting two
connections are what the lock tells apart, and a third could only repeat one of
them; two utterances are needed to have one in the consumer's hands and one
waiting, and a third would wait behind it. The second connection may run a
session of its own, with or without audio, before, during or after the first
one's drain. The model has one upload request per meeting, which is what its page offers.
`MaxUtterances` is the only counter bounded by a guard. Deadlock is not checked:
a connection, an upload, a pass or a request ends, and then nothing is left to
do.

With five frames a session can hear an utterance on the stream, fall back in the
middle of the next, cut a clip by a pause or by the cap and be stopped inside
another; three of the thresholds differ, so no two of them can be confused.
Counters are bounded by `MaxFrames` alone. In diarization the races are between
two passes (celery runs two at a time); two segments of different lengths can be
counted together, apart, or twice, and held for the same or for different
voices; the floor is chosen so that one segment alone meets it or does not.
`MaxVoices` and `MaxPasses` are the bounds, and the recognized voices are at most
one. `StreamApart` bounds the product: once the stream has labelled its segment there is
no transcript message or hint, and no pass that overlaps another or is cut off. What
is left has every order in which stream and passes open the gate, and, without the
stream, everything passes, hints and faults do to each other. Without `StreamApart` there
are 4.5 million states, too many for the run's liveness properties; its invariants
were found to hold in all of them, and the theorems have no such bound. Two requests are what a race needs, and since both may start again, longer
sequences are covered; two users are enough for a transfer there and back, and
the invites are one to use and one to replace it with. One other organization and a cap of one put every
count at its limit. In `CallTypes` a third type is what two overlapping requests
can both make, or leave, default, beside the one that was. In `Voices` two
samples are an old one and a new one, and two workers an enrolment and a name
heard, or two of one kind. In `Artifacts` a race has two sides, of which the delete is
one; the automatic and two manual reports are each other's, and cycles repeat. The
run's constraint `Apart` explores the meeting's artifacts or the document's and not
both in one behaviour: no action reads both, and all they share is that a process
dies once. The proofs need no such constraint.

Properties worth a word:

- `ReportOnWholeTranscript` relates what the session heard to what its drain has
  done with it at the moment the report is asked for: the queue, the utterance
  in the consumer's hands and the one still in a detector all count.
- `MarkNeverUndoesReady`: `_mark_processing` reads, awaits and writes. That it
  never takes `ready` back holds for no local reason: it needs the lock.
- `StopLeadsOut` and `DrainSettles` name the exceptions under which they fail in
  the code: `leaked`, `lost` and `crashed`.

- `LossNeedsFault` follows every spoken frame from the moment it arrives: it is in
  a segment, in somebody's hands, or lost to a cause the property names: a
  stream that dropped or was slower than `close()` waits, a session that ends on
  a burst shorter than the minimum, or an exception.
- `LateCommitsFollowADrop`: nobody waits for the reader of a stream that dropped
  by itself, so it may commit a segment after the meeting is `processing`; a
  stream that was closed never does.
- `PendingIsProvisional`, `WeightsAccounted` and `ClientAgrees` say what holds in
  spite of the gap between the release of the lock and the commit, and with
  which of their hypotheses (`broken`, `overlapped`) it stops: a segment decided
  twice in the gap is counted twice, and a pass that fails after its event, or
  outlives its lock, leaves the client with labels the database lacks.
- `NothingUnreported` leaves two labels unreported: one the stream has yet to push,
  and, if the stream opened the gate, the first voice's (19 below).
- `OwnerLostToStaleRead` says that the only way to lose an owner is a
  stale read (7 below). The unique index alone gives
  `AtMostOneOwner`.
- `ReportsAgree`, `CallsRecorded` and `ThingsAgree` name the overlaps and faults
  that break them (`mixed`, `overtaken`, `missed`, `broken`, `lost`, `died`).

Fairness. In `RecordingLock` time passes, a loop wakes from its sleep and a
round trip returns or raises. In `MeetingLifecycle` each handler goes on with
what it has begun (its awaits return or raise), the drain has its timeout, Redis
expires keys, the worker takes tasks and the upload request goes on. Nothing is
assumed of clients (they may stay forever, or never connect), and nothing of how
long a transcription takes: `DrainSettles` holds because of the ten minutes of
`_drain_and_finalize`, not because the consumer is quick. In `AudioChannel` only
the handler's own closing steps are fair: the two `wait_for` have timeouts, so
`StopSettles` holds although neither Deepgram, nor the writer, nor the reader
need ever take a step. In `Diarization` Redis expires the lock, and the list is
drained: `_poll_diarization_updates` does so every five seconds whether or not a
wake-up came. Every wake-up is taken to be lost, and no pass need ever take a step. The other modules state no liveness.

## Proofs

All for every value of the constants.

| Theorem | Says | From |
|---|---|---|
| `RecordingLockProofs!TypeCorrect` | `Spec => []TypeOK` | the assumptions on the constants |
| `RecordingLockProofs!Exclusion`, `ChecksHold` | exclusion and check-then-act hold | `Timely` |
| `RecordingLockProofs!ImplementsLease` | `Spec => LeaseSpec` | `Timely` |
| `SessionProofs!TypeCorrect` | `Spec => []TypeOK` | the assumptions on the constants |
| `SessionProofs!StaleMarkIsHarmless` | `Spec => MarkNeverUndoesReady` | the same |
| `SessionProofs!KeepsLease` | `Spec => LeaseSpec` | the same |
| `SessionProofs!WholeTranscript` | `Spec => []ReportOnWholeTranscript` | the same |
| `AudioChannelProofs!TypeCorrect` | `Spec => []TypeOK` | the assumptions on the constants |
| `AudioChannelProofs!UsageOnce` | `Spec => []UsageBilledOnce` | the same |
| `AudioChannelProofs!LateCommits` | `Spec => LateCommitsFollowADrop` | the same |
| `AudioChannelProofs!OnceTranscribed` | `Spec => []TranscribedOnce` | the same |
| `AudioChannelProofs!NoneLost` | `Spec => []LossNeedsFault` | the same |
| `DiarizationProofs!TypeCorrect`, `RegistryWhole` | `Spec => []TypeOK`, `Spec => []PendingIsProvisional` | the same |
| `DiarizationProofs!DatabaseAgrees` | `Spec => []ClientAgrees` | the same |
| `DiarizationProofs!EverythingReported` | `Spec => []NothingUnreported` | the same |
| `DiarizationProofs!ClientKeepsLabels` | `Spec => LabelsStay` | the same |
| `DiarizationProofs!WeightsAddUp` | `Spec => []WeightsAccounted` | the same |
| `OrganizationsProofs!TypeCorrect`, `OneOwner` | `Spec => []TypeOK`, `Spec => []AtMostOneOwner` | the same |
| `OrganizationsProofs!OwnerKept` | `Spec => OwnerLostToStaleRead` | the same |
| `OrganizationsProofs!InviteNeeded`, `LimitsHold` | `Spec => JoinsNeedInvite`, `Spec => LimitsFallToOverlap` | the same |
| `ArtifactsProofs!TypeCorrect`, `ReportAgreement` | `Spec => []TypeOK`, `Spec => []ReportsAgree` | the same |
| `ArtifactsProofs!CallsOnRecord`, `StoresAgree` | `Spec => []CallsRecorded`, `Spec => []ThingsAgree` | the same |
| `SettingsProofs!TypeCorrect`, `HookHeld` | `Spec => []TypeOK`, `Spec => []HookInHand` | the same |
| `SettingsProofs!OneDefault` | `Spec => DefaultsFallToOverlap` | the same |
| `VoicesProofs!TypeCorrect`, `NoDuplicates` | `Spec => []TypeOK`, `Spec => DuplicatesNeedOverlap` | the same |
| `VoicesProofs!RemovalWhole` | `Spec => RemovalComplete` | the same |
| `SettingsProofs!AlwaysUsable` | a provider that is resolved has what it is called with | nothing |
| `SettingsProofs!PreferenceHolds`, `SourceHolds` | a connected preference is followed; the settings page attributes a provider to the instance that the instance does not connect only if the user's own credential was deleted meanwhile | nothing |
| `SessionProofs!WaitersLearn`, `AuthenticationFirst` | `Spec => []ReadySettles`, `Spec => []NothingBeforeReady` | nothing |
| `SessionProofs!MicrophoneHeld`, `PageLetsGo` | `Spec => []OneMicrophone`, `Spec => []PageReleases` | nothing |
| `SessionProofs!TranscriptShown` | `Spec => []ShownOnce` | nothing |
| `SessionProofs!StaleDrafts`, `DraftsFollow` | `Spec => []StaleNeedsOverlap`, `Spec => DraftsInOrder` | nothing |

*The lock.* Exclusion is not inductive: that the key exists now says nothing of
whether it still will when its owner next renews it. `Need(c)` is the longest
time a connection can go without a successful EXPIRE: what is left of what it is
doing, every renewal it may still miss, and the release it may then begin. The
invariant says that the key of a busy connection stores its token and outlives
its need. Each step either grants itself no more time than the key has left
(`Timely`), or lets a second pass for key and need alike (`Tick`). The same
invariant shows that the lock can only lapse when nobody is busy, which is the
step of the refinement that is not immediate.

*The meeting.* `MarkNeverUndoesReady` needs three facts at once: only the holder
of the lock has a session (`HolderOnly`), a session that has been through
`_mark_processing` has left the meeting out of `recording` (`MarkedLeft`), and
while one handler is between the read and the write of `_mark_processing` no
session has got beyond it (`MarkingAlone`). One marked before the read would
have changed what was read; one marked after it would have held the lock.

`ReportOnWholeTranscript` follows from a count: an utterance heard is committed,
given up, queued, in the consumer's hands or in a detector (`Accounted`), nobody
listens after the stop, and neither queue nor consumer holds one after the drain
(`Settled`).

*The audio channel.* That the bill adds up needs to know when the stream can
still be given frames (`Billing`, with `ReaderStage`). That segments are disjoint
is not inductive: an invariant puts the whole channel in one line (`Line`),
segments before what the consumer works on, that before the queue, the queue
before the detector, and everything the stream ever had before all of them;
and it says where a segment can come from (`Sources`): it ends before what the
reader has still to commit, or it lies behind everything given to the stream,
which is then gone. A stream cannot come after a clip, because none is cut before
it drops (`Unclipped`).

`NoneLost` strengthens what it proves in two ways (`Accounted`). It says on which
side a frame must be: one handed to the stream is never looked for in a clip, nor
the other way round. And of a frame beyond the last boundary it says that a reader
still runs or that the stream broke, which needs three facts about the stream's end
(`Stages`): CloseStream is written behind all the audio, so that a reader that ends
in order has bounded everything; an utterance is in hand only while it is committed;
and a stream that is still routed while the handler receives has a reader, or is down.
A frame that a session stops on is too short by the count of the detector, which is
the number of spoken frames since its clip began (`Counting`).

*Diarization.* The two SETs under the lock are not atomic for a reader, and the
lock may lapse between them. `RegistryWhole` speaks of what Redis holds when nobody
is between the two, and of the draft of the pass that holds the lock, which was
decided on a whole registry. `DecisionWhole` is the heart: promotion drains
exactly what was held for the promoted voice.

The other three invariants hold while the state is `Sound`: no pass has died after
it told others (`broken`), and none that has outlived the lock is about to save
(`Doomed`), which can only end in `broken`. Under it, whoever holds the lock has
decided on the registry as it is, so that every label, committed or told, is a
speaker of the registry, and before a pass opens the gate everybody is the first
voice (`Voices`); of the labels passes give, that is (`Heard`), as those of a stream
are its own and no pass touches them. `DatabaseAgrees` then says, segment by segment, what the client will
show once every event is delivered (`Settled`) and what the database will hold once
every pass that has flushed is committed (`Agrees`), and that the first is the
second; passes label different segments (`Apart`), because a row is locked from its
flush on. `EverythingReported` needs that the gate, once open, stays open (`Wide`),
that what was reported is shown or on its way (`OnTheWay`), and that when no stream
came first, everything passes have labelled is reported (`AllReported`). When one
did, there never is a snapshot, and `Voices` is what is left: who was not reported is
the first voice (`OneVoice`).

`WeightsAddUp` is about a sum over the registry. The sum is a fold, which is a
CHOOSE of a function on all subsets: that there is one, and only one, is shown by
taking a smallest subset of a finite set for which it fails (`FS_StrictSubsetOrdering`
of the library, instead of its induction theorem, whose operator parameter the
provers cannot instantiate). From this come the lemmas on sums (`SumAdd`, `SumApart`,
`SumFibres`: a sum of sums over the fibres of a map is the sum over its domain), and
from these that a decision adds to the registry's weight exactly the lengths of the
segments it labels or holds (`DecisionCounts`). They need `IsFiniteSet(Segments)`,
which is an assumption of the module.

*Organizations.* Every request that has got past its checks carries only what a
sound read could have given it (`Sound`): no write makes an owner but a
transfer, and that one goes through the index. `OwnerKept` then looks at each
write that can take the last owner away. For invites and limits the request also
rests on what nobody else can take from under it (`Grounds`): an accept that has
passed its checks names an invite that is the caller's, whose e-mail never changes,
and a count that is below its limit was so when it was read. `InviteNeeded` and
`LimitsHold` then compare the write with what is there now.

*Artifacts.* `ReportAgreement` rests on `ChoiceIsCurrent`: the items a report has
chosen to replace are those in the table, unless another was written since.
`StoresAgree` relates how far the delete has come to how far the job has
(`Erasing`, `Processing`).

*Call types.* A hook that is due is in the hands of exactly one pre-call
(`Hands`). A row about to be written is not there yet, and nobody else writes it
(`New`). What a request may do to the other rows depends on what it read: one whose
reading of the defaults is not stale leaves its own row, or the former default, as
the only one (`OneRemains`); the defaults stay finitely many throughout, which the
count of them needs.

*Voices.* The invariant names what each request holds (`Held`): the id it inserts
is nobody else's, the row it updates is locked, and a row that is gone does not come
back. A task that was alone from its look-up on has read what is still so (`Alone`),
so the row it inserts is the first of its user. The tasks queued and the uploads
under way never outnumber the samples taken (`Counting`), which bounds the queue.
That `_disambiguate_display_name` ends with a name nobody has, and needs no number
beyond one more than there are identities (`FreeNameIsFree`), is a pigeonhole and a
smallest set, found as for the sums of the diarization; it needs `IsFiniteSet(Ids)`,
which is an assumption of the module.

*Providers.* The invariant is that every credential row is complete for its
provider, also wherever a request holds a copy: a save that updates only some
columns writes them over a row that was complete, or inserts a whole one.
`ResolveCorrect` then goes through the order of the resolution.

*The live clients.* `LinkInv` ties promise, socket and what was sent; `StepInv`
says that only an opening that is done has a graph. `MicInv` is the heart of
`MicrophoneHeld`: unless a stopMic has found an opening under way, there is at
most one, and no handle beside it, so that the one handle is always the one
that runs. `PageInv` keeps every live track among the streams that `Leave`
stops. For the drafts, `DraftInv` orders what is shown, what is being decoded
and what has been flushed; one preview at a time is what makes them come in order.

`SettingsProofs` and `SessionProofs` each speak of two modules: the second one is
instantiated, and its theorems are about the specification of the instance
(`P!Spec => ...`, `L!Spec => ...`).

Only model-checked: the liveness properties `LockHeals`, `StopLeadsOut`,
`DrainSettles`, `StopSettles`, `LockFreed` and `ReportsArrive`, which need
fairness and ENABLED and are out of the prover's reach. Every invariant and every
action property of the passing runs is stated by a theorem.

## Where the code and its documentation part

1 to 4 are runs that TLC ends with a counterexample; the others were met while
modelling and have no run of their own.

1. **Two missed renewals lose the lock.** `ws/live_session.py:965` says a couple
   of missed renewals in a row do not let a second connection in. Three
   intervals of 10 s are the 30 s of the TTL.
2. **Two writers on one meeting.** The status is checked before the lock is
   taken (`ws/live_session.py:473`). A reconnect whose check comes just before
   the old session commits `processing` gets the lock when that session releases
   it, resumes a meeting that `src/API.md:148` says cannot be resumed, and
   transcribes next to the old one's drain.
3. **A client that leaves before `ready`.** The send at `ws/live_session.py:548`
   is outside the try block. When it raises, nothing finalizes the meeting and
   the renewal loop keeps the lock for as long as the process lives.
4. **The upload's job can overtake its commit.** `api/meetings.py:383` dispatches
   before line 392 commits. The worker sees no audio and returns; the meeting
   stays `processing`.
5. **Every upload fails.** `workers/tasks.py:121` lacks an argument (no run: it
   is how `JobFails` is modelled).
6. **Weights are counted twice.** `locked_state` releases before
   `workers/tasks.py:698` commits. The next pass sees the same segments without a
   speaker and adds their duration again; `services/diarization/cluster.py:43`
   calls the weight non-double-counted.
7. **An organization without an owner.** `leave_org`, `remove_member` and
   `update_member` act on a role they loaded; a transfer that commits in between
   has made that member the owner. `src/README.md:180` says exactly one.
8. **A ledger entry goes with its meeting.** `models/cost.py` says that deleting a
   meeting should not erase what was spent. An entry written before the delete
   stays; a call under way during the delete cannot be entered, because the row
   refers to the meeting (`lost` in `Artifacts`).
9. **Two reports at once.** `services/copilot/action_items.py:45` drops the
   previous digest; two that both choose before either commits leave both
   digests (`mixed`).
10. **A best-effort delete that raises.** `delete_meeting_chunks`
    (`services/embeddings/qdrant_store.py:256`) is called best-effort and has no
    `try`; a Qdrant that is down makes the delete request fail after its commit
    and leaves the chunks.
11. **A pre-call that may raise.** The synchronous pre-call "never raises"; the
    flush of its log row does if the meeting is deleted meanwhile.
12. **Previews.** `ws/live_session.py:779` serializes transcription because the
    model is not safe for concurrent calls; a preview
    (`ws/live_session.py:1031`) decodes on the same model in another thread of
    the executor meanwhile. A preview that ends after the segment it previews
    brings back a draft that its docstring says the segment clears
    (`overtaken` in `LiveClient`).
13. **Default call types.** `api/admin.py:324` unsets the other defaults it has
    read; two requests can leave two, and clearing the flag leaves none
    (`models/call_type.py:36` says exactly one).
14. **Two voices for one user.** `workers/tasks.py:791` looks for the user's
    identity and inserts one; two tasks that both look first insert two, where
    `api/auth.py:40` says at most one, and a removal then takes one of them.
15. **An empty Deepgram key.** `services/asr/resolve.py:47` takes an empty saved
    key for a key of the user: it hides the instance's, and Whisper is resolved,
    while the settings page answers that Deepgram is connected.
16. **A microphone that starts while it is stopped.** `startMic`, `stopMic` and
    `close` of the package stop the handle there is; an opening under way has
    none yet, and its microphone is live when it comes (`missed`). One whose
    audio graph cannot be built keeps its track. On the page, a tab picked after
    the page was left is captured until the sharing is ended (`asked`).
17. **A session that never becomes ready.** `live.ts` rejects its promise for the
    server's own close codes (4000 and above) and for errors; a socket that is
    closed otherwise before `ready` leaves the page waiting (`quiet`).
18. **A segment shown twice.** The page appends a transcript message to its list;
    a message that follows the update that had the segment shows it twice until
    the next update.
19. **The stream opens the gate.** `_commit_segment` (`ws/live_session.py:1146`)
   reports a segment that came with its speaker in the set that
   `has_reported_anything` reads. If the stream then drops, the first report of the
   detector's segments (`workers/tasks.py:668`) is not the snapshot its comment says
   cannot miss an earlier label: what earlier passes gave to the first voice stays
   unreported until the page reads the meeting again. And the hint's gate, which
   `ws/live_session.py:1211` describes as two confirmed voices, is open too.

## Not modelled

- Recognizers, pyannote, Deepgram's answers, LLM answers and hook endpoints:
  external; the modules choose their outcomes freely or state what they assume.
- In a session: authentication, debug events, where the words of an utterance change
  speakers (`RunEnds` lets it be anywhere), timestamps; interim results of Deepgram.
- In diarization: the event of `identify_speaker_name`, which can race an overlapping
  pass (its rows are in `Voices`); the number of a guest; a client that disconnects, with what was popped for it.
- In organizations: groups, renames, API keys, the switcher, the token a resend
  changes, the seed at start-up. Of call types: their texts, templates and headers.
- Of a meeting's artifacts: the meeting's total next to the ledger (one commit), the
  titles, chunk ids of a second indexing, what a group's or an organization's delete
  cascades to, hook payloads and the log rows of calls that were never made.
- Alignment, transcript format, mixing, chunking, prompts, templates and redaction:
  pure functions of one task's data.
- Authentication and API keys: checks of one request. The clients of providers and
  speech engines, email, configuration, start-up, schemas, migrations, and of the
  web UI everything but the recording page.
- In the clients: resampling, levels, and what is drawn. The page is followed through
  one run of its effect; the package through one session.

## Plan

Done, in this order: `RecordingLock` with `LeaseLock`, `MeetingLifecycle`,
`Diarization` with its events, `AudioChannel`, `Organizations`, `Artifacts`,
`CallTypes`, `Voices`, `Providers`, `LiveClient`, with their instances and proofs.

Left, in this order:

1. An abstract specification of the labels (each segment's label is decided once
   and shown) that `Diarization` implements when passes do not overlap.
2. The event of `identify_speaker_name` in `Diarization`, and the client that
   reconnects.
3. Alignment and mixing against reference definitions.
