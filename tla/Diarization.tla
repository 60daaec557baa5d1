----------------------------- MODULE Diarization -----------------------------
(***************************************************************************)
(* Telling speakers apart on one channel of one meeting: the passes of     *)
(* corella.reconcile_diarization (app/workers/tasks.py) over the voice     *)
(* registry of app/services/diarization/cluster.py, the events of          *)
(* app/services/diarization/events.py, the hints of app/ws/live_session.py *)
(* and the client's store (src/packages/corella-live/src/store.ts).  Next  *)
(* to them, the segments that a diarizing Deepgram stream commits with     *)
(* their speaker: before the stream drops and the passes begin, after an   *)
(* earlier connection's passes, or while both go on.                       *)
(*                                                                         *)
(* The registry is in Redis and under a lock; speakers and labels are in   *)
(* PostgreSQL and under a transaction; events are pushed from within both. *)
(* The lock is given back before the transaction commits.                  *)
(*                                                                         *)
(* What pyannote hears is data: a pass may hear any local voice under any  *)
(* segment, and a voice may match any registry entry that is not claimed   *)
(* yet, or none.                                                           *)
(***************************************************************************)
EXTENDS Integers, Sequences, FiniteSets, Functions

CONSTANTS
    Segments,     \* transcript segments of the channel
    StreamVoice,  \* those that a Deepgram stream labels: the voice it hears
    Watched,      \* bound: those whose hint and transcript message are here
    Duration,     \* their length in ms (scaled)
    Concurrency,  \* passes that run at once (celery's --concurrency=2)
    Free,         \* nobody holds the registry's lock
    Nobody,       \* a null speaker
    GuestMin,     \* diarization_guest_min_ms (scaled)
    ShareNum, ShareDen,  \* diarization_guest_min_share
    MaxVoices,    \* bound: local voices of one window
    MaxPasses,    \* bound: passes, numbered as they enter the lock
    MayFail       \* a pass may raise, or its process die

ASSUME NameAssumption == Free \notin Nat /\ Nobody \notin Nat \X Nat
ASSUME SizeAssumption ==
    /\ IsFiniteSet(Segments) /\ Watched \subseteq Segments
    /\ DOMAIN StreamVoice \subseteq Segments /\ \A s \in DOMAIN StreamVoice : StreamVoice[s] \in Nat
    /\ Duration \in [Segments -> Nat \ {0}]
    /\ GuestMin \in Nat /\ ShareNum \in Nat /\ ShareDen \in Nat \ {0}
    /\ MaxVoices \in Nat \ {0} /\ MaxPasses \in Nat /\ Concurrency \in Nat \ {0} /\ MayFail \in BOOLEAN

VARIABLES
    row,       \* the speaker of each committed segment
    speakers,  \* committed Speaker rows
    named,     \* those with a voice identity
    clusters,  \* the registry: speaker and weight of each voice
    pending,   \* segments held for a provisional voice, and its index
    lock,      \* who holds the registry's lock
    at,        \* where each pass is
    draft,     \* what it has decided and not yet committed
    told,      \* labelled by the stream, and the update pushed
    reported,  \* the Redis set of reported segments
    events,    \* the Redis list of events
    due,       \* segments whose quick hint is still to be computed
    client,    \* the store's label of each segment
    shown,     \* segments whose transcript message has arrived
    broken,    \* history: a pass ended after it had pushed or saved, and
               \* before its commit
    overlapped, \* history: a pass was decided before another's commit
    streamFirst \* history: the channel's first report was the stream's

db == <<row, speakers, named>>
registry == <<clusters, pending, lock>>
work == <<at, draft>>
wire == <<told, reported, events, due, client, shown>>
history == <<broken, overlapped, streamFirst>>
vars == <<db, registry, work, wire, history>>

Passes == 1..MaxPasses
Streamed == DOMAIN StreamVoice

(* The id of a Speaker row: the voice's index and the pass that made it, or*)
(* what the stream calls the voice, and 0.                                 *)
Speaker == Nat \X Nat
Voice == [speaker : Speaker \union {Nobody}, weight : Nat]
NoDraft == [clusters |-> << >>, pending |-> << >>, labels |-> << >>, born |-> {}, known |-> {}]

TypeOK ==
    /\ row \in [Segments -> Speaker \union {Nobody}]
    /\ speakers \subseteq Speaker /\ named \subseteq Speaker
    /\ clusters \in Seq(Voice)
    /\ DOMAIN pending \subseteq Segments
    /\ lock \in Passes \union {Free}
    /\ at \in [Passes -> {"todo", "decided", "pushed", "saving", "saved", "over"}]
    /\ told \subseteq Streamed /\ reported \subseteq Segments
    /\ due \subseteq Segments
    /\ \A i \in DOMAIN events : \A s \in DOMAIN events[i].labels : events[i].labels[s] \in Speaker
    /\ client \in [Segments -> [speaker : Speaker \union {Nobody}, hint : BOOLEAN]]
    /\ shown \subseteq Segments
    /\ broken \in BOOLEAN /\ overlapped \in BOOLEAN /\ streamFirst \in BOOLEAN

Init ==
    /\ row = [s \in Segments |-> Nobody]
    /\ speakers = {} /\ named = {}
    /\ clusters = << >> /\ pending = << >> /\ lock = Free
    /\ at = [p \in Passes |-> "todo"]
    /\ draft = [p \in Passes |-> NoDraft]
    /\ told = {} /\ reported = {} /\ events = << >>
    /\ due = {}
    /\ client = [s \in Segments |-> [speaker |-> Nobody, hint |-> FALSE]]
    /\ shown = {}
    /\ broken = FALSE /\ overlapped = FALSE /\ streamFirst = FALSE

Goto(p, place) == at' = [at EXCEPT ![p] = place]
Uncommitted(p) == at[p] \in {"decided", "pushed", "saving", "saved"}
Labelled == {s \in Segments : row[s] \in Speaker}
Length(S) == SumFunctionOnSet(Duration, S)
Weights(voices) == [i \in DOMAIN voices |-> voices[i].weight]
-----------------------------------------------------------------------------
(***************************************************************************)
(* The live session.  The segments of the detector have been committed;    *)
(* one that a window does not reach yet is one that no turn covers.        *)
(***************************************************************************)

(* _get_or_create_deepgram_speaker: a row of its own for each voice of a   *)
(* stream, whatever the registry knows.                                    *)
StreamSpeaker(s) == <<StreamVoice[s], 0>>

(* _commit_segment with a speaker: the segment is committed with it.       *)
CommitStreamed(s) ==
    /\ s \in Streamed /\ row[s] = Nobody
    /\ row' = [row EXCEPT ![s] = StreamSpeaker(s)]
    /\ speakers' = speakers \union {StreamSpeaker(s)}
    /\ UNCHANGED <<named, registry, work, wire, history>>

(* Its update is pushed after the commit, whatever the gate; or never, when*)
(* the push raises.                                                        *)
PushStreamed(s) ==
    /\ s \in Streamed \ told /\ row[s] # Nobody
    /\ told' = told \union {s}
    /\ events' = Append(events, [hint |-> FALSE, labels |-> [t \in {s} |-> row[s]]])
    /\ reported' = reported \union {s}
    /\ streamFirst' = (streamFirst \/ reported = {})
    /\ UNCHANGED <<db, registry, work, due, client, shown, broken, overlapped>>

(* A slip: the label lives on the line that the transcript replaces.       *)
ShowTranscriptAfresh(s) ==
    /\ s \in Watched \ shown /\ (s \in Streamed => s \in told)
    /\ shown' = shown \union {s} /\ due' = due \union ({s} \ Streamed)
    /\ client' = [client EXCEPT ![s].speaker = Nobody]
    /\ UNCHANGED <<db, registry, work, told, reported, events, history>>

(* The hint is spawned and the transcript message sent, some time after the*)
(* commit: an update may overtake it.  A segment that came with its speaker*)
(* has no hint, and its message follows its update.  The store keeps labels*)
(* apart from transcript lines.                                            *)
ShowTranscript(s) ==
    /\ s \in Watched \ shown /\ (s \in Streamed => s \in told)
    /\ shown' = shown \union {s} /\ due' = due \union ({s} \ Streamed)
    /\ UNCHANGED <<db, registry, work, told, reported, events, client, history>>

(* A slip: a voice that has not been promoted is hinted at.                *)
HintAnybody(s) ==
    /\ s \in due /\ reported # {}
    /\ due' = due \ {s}
    /\ \E i \in DOMAIN clusters :
          events' = Append(events, [hint |-> TRUE, labels |-> [t \in {s} |-> clusters[i].speaker]])
    /\ UNCHANGED <<db, registry, work, told, reported, client, shown, history>>

(* _run_quick_label_hint: nothing is hinted before the channel has reported*)
(* something, be it the stream's, nor a speaker whose row is not committed.*)
(* The registry is read without its lock, and the event pushed later: one  *)
(* step here, because a promoted voice stays promoted.  A hint that matches*)
(* no voice, or comes too early, is one that is never taken.               *)
Hint(s) ==
    /\ s \in due /\ reported # {}
    /\ due' = due \ {s}
    /\ \E i \in DOMAIN clusters :
          /\ clusters[i].speaker \in speakers
          /\ events' = Append(events, [hint |-> TRUE, labels |-> [t \in {s} |-> clusters[i].speaker]])
    /\ UNCHANGED <<db, registry, work, told, reported, client, shown, history>>
-----------------------------------------------------------------------------
(***************************************************************************)
(* A pass.                                                                 *)
(***************************************************************************)

(* What diarize() hears in the window once adjacent turns of one voice are *)
(* merged and those too short for an embedding dropped: of k local voices, *)
(* the one whose turns overlap each segment most, or 0.                    *)
Hearings(k) == [Segments -> 0..k]

(* Claim-once matching, busiest voice first: each takes an entry nobody    *)
(* has claimed, or a new one at the end.                                   *)
Claims(n, k) ==
    {c \in [1..k -> 1..(n + k)] :
        /\ \A i, j \in 1..k : c[i] = c[j] => i = j
        /\ \A i \in 1..k :
              c[i] > n => c[i] = n + Cardinality({j \in 1..i : c[j] > n})}

(* Bound: at most one of the voices without a speaker is in the library.   *)
Recognizable(claim) ==
    {{}} \union {{i} : i \in {j \in 1..(Len(clusters) + MaxVoices) :
        /\ j \in DOMAIN clusters => clusters[j].speaker = Nobody
        /\ j \notin DOMAIN clusters => \E k \in DOMAIN claim : claim[k] = j}}

(* _promote_new_speaker: a row of its own for the voice, even when another *)
(* pass has made one that is not committed.                                *)
NewSpeaker(i, p) == <<i, p>>

(* The registry with the voices a pass has registered: the channel's very  *)
(* first, and those the organization's library recognizes, are promoted.   *)
Registered(claim, recognized, p) ==
    [i \in DOMAIN clusters \union {claim[j] : j \in DOMAIN claim} |->
        IF i \in DOMAIN clusters THEN clusters[i]
        ELSE [speaker |-> IF i = 1 \/ i \in recognized THEN NewSpeaker(i, p) ELSE Nobody,
              weight |-> 0]]

(* A slip: segments already held are looked at again.                      *)
CandidatesAndPending(turn) == {s \in Segments \ Streamed : row[s] = Nobody /\ turn[s] # 0}

(* Unlabelled segments of the window, not held yet, that a turn covers.    *)
Candidates(turn) ==
    {s \in Segments \ Streamed : row[s] = Nobody /\ s \notin DOMAIN pending /\ turn[s] # 0}

Weighed(voices, claim, turn) ==
    [i \in DOMAIN voices |->
        [speaker |-> voices[i].speaker,
         weight |-> voices[i].weight + Length({s \in Candidates(turn) : claim[turn[s]] = i})]]

MeetsFloor(voices, i) ==
    LET total == SumFunction(Weights(voices)) IN
    /\ total > 0
    /\ voices[i].weight >= GuestMin
    /\ voices[i].weight * ShareDen >= ShareNum * total

Promoted(voices) == {i \in DOMAIN voices : voices[i].speaker = Nobody /\ MeetsFloor(voices, i)}

(* A slip: what was held for a promoted voice stays held.                  *)
NothingDrained(held, promoted) == {}

(* The segments that were held for a voice that is now promoted.           *)
Drained(held, promoted) == {s \in DOMAIN held : held[s] \in promoted}

(* What the pass decides: weights, promotions, and the segments that get a *)
(* speaker at once or are held for one.                                    *)
Decision(turn, claim, recognized, p) ==
    LET weighed == Weighed(Registered(claim, recognized, p), claim, turn)
        promoted == Promoted(weighed)
        final == [i \in DOMAIN weighed |->
                    [speaker |-> IF i \in promoted THEN NewSpeaker(i, p) ELSE weighed[i].speaker,
                     weight |-> weighed[i].weight]]
        slot == [s \in Candidates(turn) |-> claim[turn[s]]]
        direct == {s \in Candidates(turn) : weighed[slot[s]].speaker # Nobody}
        held == [s \in DOMAIN pending \union (Candidates(turn) \ direct) |->
                    IF s \in DOMAIN pending THEN pending[s] ELSE slot[s]]
        drained == Drained(held, promoted)
        born == {i \in DOMAIN final : final[i].speaker = NewSpeaker(i, p)}
    IN [clusters |-> final,
        pending |-> [s \in DOMAIN held \ drained |-> held[s]],
        labels |-> [s \in direct \union drained |->
                      final[IF s \in direct THEN slot[s] ELSE held[s]].speaker],
        born |-> {final[i].speaker : i \in born},
        known |-> {final[i].speaker : i \in born \intersect recognized}]

(* A promoted voice whose Speaker row this transaction cannot see: the     *)
(* lookup yields None, and asking it for its label raises.                 *)
Unseen(d) == \E s \in DOMAIN d.labels : d.labels[s] \notin speakers \union d.born

(* The loop, and the drain once more, dispatch windows of what was said;   *)
(* the workers take them up in any order, which is the passes' numbering.  *)
Dispatched(p) == at[p] = "todo" /\ \A v \in 1..(p - 1) : at[v] # "todo"

(* locked_state, and everything decided under it up to the flush; diarize()*)
(* and the embeddings come before, outside lock and transaction.           *)
Decide(p) ==
    /\ Dispatched(p) /\ lock = Free
    /\ Cardinality({v \in Passes : Uncommitted(v)}) < Concurrency
    /\ \E k \in 1..MaxVoices :
       \E turn \in Hearings(k), claim \in Claims(Len(clusters), k) :
       \E recognized \in Recognizable(claim) :
          LET d == Decision(turn, claim, recognized, p) IN
          IF Unseen(d)
            THEN Goto(p, "over") /\ UNCHANGED <<lock, draft>>
            ELSE /\ lock' = p
                 /\ draft' = [draft EXCEPT ![p] = d]
                 /\ Goto(p, "decided")
    /\ overlapped' = (overlapped \/ \E v \in Passes \ {p} : Uncommitted(v))
    /\ UNCHANGED <<db, clusters, pending, wire, broken, streamFirst>>

GateOpen(d) ==
    /\ DOMAIN d.labels # {}
    /\ \/ Len(d.clusters) >= 2
       \/ \E s \in DOMAIN d.labels : d.labels[s] \in named \union d.known

(* A slip: no snapshot.                                                    *)
EventLabelsOfPass(d) == d.labels

(* The first event of a channel is a snapshot of every label this          *)
(* transaction sees, the later ones carry what the pass has changed.       *)
EventLabels(d) ==
    IF reported = {}
      THEN [s \in Labelled \union DOMAIN d.labels |->
              IF s \in DOMAIN d.labels THEN d.labels[s] ELSE row[s]]
      ELSE d.labels

(* The flush and the event.  The UPDATEs wait for the row locks of a       *)
(* transaction that has flushed the same segments.                         *)
Push(p) ==
    /\ at[p] = "decided"
    /\ \A v \in Passes \ {p} :
          at[v] \in {"pushed", "saving", "saved"} =>
             DOMAIN draft[v].labels \intersect DOMAIN draft[p].labels = {}
    /\ IF GateOpen(draft[p])
         THEN /\ events' = Append(events, [hint |-> FALSE, labels |-> EventLabels(draft[p])])
              /\ reported' = reported \union DOMAIN EventLabels(draft[p])
         ELSE UNCHANGED <<events, reported>>
    /\ Goto(p, "pushed")
    /\ UNCHANGED <<db, registry, draft, told, due, client, shown, history>>

(* The first of the two SETs.                                              *)
SaveClusters(p) ==
    /\ at[p] = "pushed"
    /\ clusters' = draft[p].clusters
    /\ Goto(p, "saving")
    /\ UNCHANGED <<db, pending, lock, draft, wire, history>>

(* The second, and the release, which raises when the lock has expired;    *)
(* the transaction is then rolled back.                                    *)
SavePending(p) ==
    /\ at[p] = "saving"
    /\ pending' = draft[p].pending
    /\ IF lock = p
         THEN lock' = Free /\ Goto(p, "saved") /\ UNCHANGED <<draft, broken>>
         ELSE /\ Goto(p, "over")
              /\ draft' = [draft EXCEPT ![p] = NoDraft]
              /\ broken' = TRUE
              /\ UNCHANGED lock
    /\ UNCHANGED <<db, clusters, wire, overlapped, streamFirst>>

(* A slip: only labels with a new speaker are committed.                   *)
CommitNewOnly(p) ==
    /\ at[p] = "saved"
    /\ row' = [s \in Segments |->
                 IF s \in DOMAIN draft[p].labels /\ draft[p].labels[s] \in draft[p].born
                   THEN draft[p].labels[s] ELSE row[s]]
    /\ speakers' = speakers \union draft[p].born
    /\ named' = named \union draft[p].known
    /\ draft' = [draft EXCEPT ![p] = NoDraft]
    /\ Goto(p, "over")
    /\ UNCHANGED <<registry, wire, history>>

Commit(p) ==
    /\ at[p] = "saved"
    /\ row' = [s \in Segments |->
                 IF s \in DOMAIN draft[p].labels THEN draft[p].labels[s] ELSE row[s]]
    /\ speakers' = speakers \union draft[p].born
    /\ named' = named \union draft[p].known
    /\ draft' = [draft EXCEPT ![p] = NoDraft]
    /\ Goto(p, "over")
    /\ UNCHANGED <<registry, wire, history>>

(* An exception: locked_state saves nothing and the lock is released; or   *)
(* the worker dies and the lock is left to its timeout of 30 s.            *)
Fail(p) ==
    /\ MayFail /\ Uncommitted(p)
    /\ \/ lock' = IF lock = p THEN Free ELSE lock
       \/ UNCHANGED lock
    /\ broken' = (broken \/ at[p] \in {"pushed", "saving", "saved"})
    /\ draft' = [draft EXCEPT ![p] = NoDraft]
    /\ Goto(p, "over")
    /\ UNCHANGED <<db, clusters, pending, wire, overlapped, streamFirst>>

(* A slip: the registry's lock has no timeout.                             *)
LockNeverExpires == FALSE /\ UNCHANGED vars

(* The lock's timeout, whether or not the pass under it has ended.         *)
LockExpires ==
    /\ lock # Free /\ (MayFail \/ ~Uncommitted(lock))
    /\ lock' = Free
    /\ UNCHANGED <<db, clusters, pending, work, wire, history>>
-----------------------------------------------------------------------------
(***************************************************************************)
(* The connection: _poll_diarization_updates, and the store.               *)
(***************************************************************************)

(* A slip: an update is popped and not sent.                               *)
DeliverHintsOnly ==
    /\ events # << >>
    /\ LET e == Head(events) IN
       client' = [s \in Segments |->
                    IF s \in DOMAIN e.labels /\ e.hint
                      THEN [speaker |-> e.labels[s], hint |-> TRUE] ELSE client[s]]
    /\ events' = Tail(events)
    /\ UNCHANGED <<db, registry, work, told, reported, due, shown, history>>

(* What the fallback timer does, every wake-up taken to be lost: one that  *)
(* is not lost only makes it earlier.                                      *)
Deliver ==
    /\ events # << >>
    /\ LET e == Head(events) IN
       client' = [s \in Segments |->
                    IF s \in DOMAIN e.labels
                      THEN [speaker |-> e.labels[s], hint |-> e.hint] ELSE client[s]]
    /\ events' = Tail(events)
    /\ UNCHANGED <<db, registry, work, told, reported, due, shown, history>>

Going(p) == Push(p) \/ SaveClusters(p) \/ SavePending(p) \/ Commit(p)

Next ==
    \/ \E s \in Segments :
          CommitStreamed(s) \/ PushStreamed(s) \/ ShowTranscript(s) \/ Hint(s)
    \/ \E p \in Passes : Decide(p) \/ Going(p) \/ Fail(p)
    \/ LockExpires
    \/ Deliver

Spec == Init /\ [][Next]_vars

(* Redis expires the lock, and the poll loop drains the list.  No pass need*)
(* ever take a step.                                                       *)
Fairness ==
    /\ WF_vars(LockExpires)
    /\ WF_vars(Deliver)
FairSpec == Spec /\ Fairness
-----------------------------------------------------------------------------
Quiet == (\A p \in Passes : ~Uncommitted(p)) /\ events = << >>
Weight == SumFunction(Weights(clusters))

(* Every held segment points at a voice that has not been promoted.        *)
Held(voices, held) ==
    \A s \in DOMAIN held : held[s] \in DOMAIN voices /\ voices[held[s]].speaker = Nobody

(* A held segment points at a voice of the registry that has not been      *)
(* promoted, so that its promotion will find it: the reason why            *)
(* locked_state saves both lists under one lock (cluster.py:79).  Until a  *)
(* pass has been cut off in between, or has outlived the lock.             *)
PendingIsProvisional ==
    ~broken /\ (\A p \in Passes : at[p] # "saving") => Held(clusters, pending)

(* When no pass ran before another's commit, the registry has counted each *)
(* segment it has labelled or holds exactly once, however windows overlap  *)
(* and passes fail.                                                        *)
WeightsAccounted ==
    Quiet /\ ~broken /\ ~overlapped =>
        Weight = Length((Labelled \ Streamed) \union DOMAIN pending)

(* Once passes and events have come to rest, a label that the client got   *)
(* from an update is the label in the database, in whatever order two      *)
(* overlapping passes decided, pushed and committed.                       *)
ClientAgrees ==
    Quiet /\ ~broken =>
        \A s \in Segments : client[s].speaker # Nobody /\ ~client[s].hint =>
            client[s].speaker = row[s]

(* Every segment that was ever reported has a label at the client.  Once   *)
(* the gate is open every labelled segment is reported, with two           *)
(* exceptions: one that the stream has committed and not yet pushed; and,  *)
(* when it was the stream that first reported, what the passes gave to the *)
(* channel's first voice, as the snapshot is then never made.              *)
NothingUnreported ==
    Quiet =>
        /\ \A s \in reported : client[s].speaker # Nobody
        /\ reported # {} /\ ~broken /\ ~overlapped =>
              \A s \in Labelled \ reported :
                 \/ s \in Streamed \ told
                 \/ streamFirst /\ row[s] = clusters[1].speaker

(* store.ts:47: a transcript message that arrives after the label of its   *)
(* segment does not take the label back; nothing else does.                *)
LabelsStay ==
    [][\A s \in Segments : client[s].speaker # Nobody => client'[s].speaker # Nobody]_vars

(* Whatever happens to the pass that holds it, the registry's lock is free *)
(* again.                                                                  *)
LockFreed == (lock # Free) ~> (lock = Free)

(* What is reported reaches the client.                                    *)
ReportsArrive ==
    \A s \in Segments : (s \in reported) ~> (client[s].speaker # Nobody)
=============================================================================
