------------------------------- MODULE Voices -------------------------------
(***************************************************************************)
(* The voice identities of one organization and the enrolled voice of one   *)
(* of its users: the rows, their points in Qdrant and the recorded samples  *)
(* (api/auth.py, core/storage.py, workers/tasks.py enroll_voice and         *)
(* identify_speaker_name, services/embeddings/qdrant_store.py).             *)
(*                                                                         *)
(* A sample is its number; an embedding is the number of the sample it was  *)
(* computed from, or Heard when it came from a meeting.  A display name is  *)
(* <<base, n>>: "Lucas" is n = 1, "Lucas (2)" n = 2.  A task's transaction   *)
(* writes nothing that others see before its commit, but a row it updates   *)
(* is locked from the flush on, and its point is in Qdrant at once.         *)
(***************************************************************************)
EXTENDS Naturals, FiniteSets

CONSTANTS
  Ids,         \* identities of voice_identities and of their points
  Names,       \* what a person may be called
  Extensions,  \* of the uploaded samples, a set of numbers: their order
  Requests, Workers,
  NoId,
  MaxSamples   \* bound on the samples that are uploaded

ASSUME VoiceAssumption ==
  /\ Extensions \subseteq Nat /\ MaxSamples \in Nat /\ IsFiniteSet(Ids)
  /\ NoId \notin Ids /\ Requests \cap Workers = {}

VARIABLES
  identities,  \* voice_identities: whether it is the user's, and its name
  points,      \* speaker_embeddings: the embedding of each identity
  files,       \* voice_samples/<user>/original.<ext>: the sample in it
  taken,       \* samples uploaded so far
  queue,       \* corella.enroll_voice tasks waiting
  full_name,   \* of the user
  job          \* per request and worker: what it does

vars == <<identities, points, files, taken, queue, full_name, job>>
stored == <<identities, points, files, taken, queue, full_name>>

Gone == [linked |-> FALSE, name |-> <<>>]
NoPoint == 0
Heard == MaxSamples + 1

Rows == {i \in Ids : identities[i] # Gone}
Linked == {i \in Rows : identities[i].linked}
Used == {identities[i].name : i \in Rows}
Samples == {e \in Extensions : files[e] # 0}

(* writes: how the row is written at the commit, if at all.  alone: nobody    *)
(* else has been at work since it began.                                     *)
Idle == [step |-> "idle", kind |-> "none", id |-> NoId, name |-> <<>>, sample |-> 0,
         writes |-> "insert", alone |-> TRUE]

Busy == {x \in Requests \cup Workers : job[x].step # "idle"}

Init ==
  /\ identities = [i \in Ids |-> Gone]
  /\ points = [i \in Ids |-> NoPoint]
  /\ files = [e \in Extensions |-> 0]
  /\ taken = 0 /\ queue = 0
  /\ full_name \in Names
  /\ job = [x \in Requests \cup Workers |-> Idle]

Begin(x, j) ==
  /\ x \notin Busy
  /\ job' = [y \in Requests \cup Workers |->
               IF y = x THEN [j EXCEPT !.alone = (Busy = {})]
               ELSE IF y \in Busy THEN [job[y] EXCEPT !.alone = FALSE] ELSE job[y]]

Step(x, s) == job' = [job EXCEPT ![x].step = s]
End(x) == job' = [job EXCEPT ![x] = Idle]
At(x, k, s) == job[x].kind = k /\ job[x].step = s

(* An id that was never used: uuid4. *)
Fresh(i) == identities[i] = Gone /\ points[i] = NoPoint /\ \A x \in Busy : job[x].id # i

-----------------------------------------------------------------------------
(* The user's requests *)

(* update_me *)
Rename(n) ==
  /\ full_name' = n
  /\ UNCHANGED <<identities, points, files, taken, queue, job>>

(* enroll_voice: the file of that extension is opened and written over. *)
Upload(r, e) ==
  /\ taken < MaxSamples
  /\ taken' = taken + 1
  /\ files' = [files EXCEPT ![e] = taken + 1]
  /\ Begin(r, [Idle EXCEPT !.step = "saving", !.kind = "upload", !.sample = e])
  /\ UNCHANGED <<identities, points, queue, full_name>>

(* The task is queued, or the broker cannot be reached: the sample stays. *)
Uploaded(r) ==
  /\ At(r, "upload", "saving")
  /\ queue' \in {queue, queue + 1}
  /\ End(r) /\ UNCHANGED <<identities, points, files, taken, full_name>>

(* Too large, or empty: the file is removed. *)
UploadRefused(r) ==
  /\ At(r, "upload", "saving")
  /\ files' = [files EXCEPT ![job[r].sample] = 0]
  /\ End(r) /\ UNCHANGED <<identities, points, taken, queue, full_name>>

(* remove_voice_enrollment *)
RemoveRead(r) ==
  /\ \/ \E i \in Linked : Begin(r, [Idle EXCEPT !.step = "row", !.kind = "remove", !.id = i])
     \/ Linked = {} /\ Begin(r, [Idle EXCEPT !.step = "files", !.kind = "remove"])
  /\ UNCHANGED stored

(* A task has flushed an update of the row and not committed it. *)
Locked(i) == \E w \in Workers : job[w].id = i /\ job[w].writes = "update"

(* A row that is already gone is deleted without complaint. *)
RemoveRow(r) ==
  /\ At(r, "remove", "row") /\ ~Locked(job[r].id)
  /\ identities' = [identities EXCEPT ![job[r].id] = Gone]
  /\ Step(r, "point") /\ UNCHANGED <<points, files, taken, queue, full_name>>

(* delete_speaker_embedding *)
RemovePoint(r) ==
  /\ At(r, "remove", "point")
  /\ points' = [points EXCEPT ![job[r].id] = NoPoint]
  /\ Step(r, "files") /\ UNCHANGED <<identities, files, taken, queue, full_name>>

(* Not the code: only the sample that was used is deleted. *)
RemoveFirstFile(r) ==
  /\ At(r, "remove", "files")
  /\ files' = [e \in Extensions |-> IF \A f \in Samples : e <= f THEN 0 ELSE files[e]]
  /\ End(r) /\ UNCHANGED <<identities, points, taken, queue, full_name>>

(* delete_voice_sample_files *)
RemoveFiles(r) ==
  /\ At(r, "remove", "files")
  /\ files' = [e \in Extensions |-> 0]
  /\ End(r) /\ UNCHANGED <<identities, points, taken, queue, full_name>>

(* Postgres or Qdrant cannot be reached. *)
RemoveRaises(r) ==
  /\ job[r].kind = "remove" /\ job[r].step \in {"row", "point"}
  /\ End(r) /\ UNCHANGED stored

-----------------------------------------------------------------------------
(* corella.enroll_voice *)

(* find_voice_sample_path: the first in the order of the extensions. *)
Enroll(w) ==
  /\ queue > 0
  /\ queue' = queue - 1
  /\ \/ Samples = {} /\ w \notin Busy /\ UNCHANGED job
     \/ \E e \in Samples :
          /\ \A f \in Samples : e <= f
          /\ Begin(w, [Idle EXCEPT !.step = "embedded", !.kind = "enroll",
                                   !.sample = files[e]])
  /\ UNCHANGED <<identities, points, files, taken, full_name>>

(* The user's identity, or a new one.  A changed name is flushed, which       *)
(* waits for the row.                                                        *)
Load(w) ==
  /\ At(w, "enroll", "embedded")
  /\ \E i \in Ids, how \in {"insert", "nothing", "update"} :
       /\ CASE how = "insert"  -> Linked = {} /\ Fresh(i)
            [] how = "nothing" -> i \in Linked /\ identities[i].name = <<full_name, 1>>
            [] how = "update"  -> /\ i \in Linked /\ identities[i].name # <<full_name, 1>>
                                  /\ ~Locked(i)
       /\ job' = [job EXCEPT ![w].step = "flushed", ![w].id = i, ![w].writes = how,
                             ![w].name = <<full_name, 1>>]
  /\ UNCHANGED stored

-----------------------------------------------------------------------------
(* corella.identify_speaker_name, from where the LLM has found a name *)

(* Not the code: the suffix is how many of that name there are. *)
CountedName(b) == <<b, Cardinality({i \in Rows : identities[i].name[1] = b}) + 1>>

(* _disambiguate_display_name *)
FreeName(b) ==
  <<b, CHOOSE n \in 1 .. Cardinality(Rows) + 1 :
         <<b, n>> \notin Used /\ \A k \in 1 .. n - 1 : <<b, k>> \in Used>>

Spot(w, b) ==
  /\ \E i \in Ids :
       /\ Fresh(i)
       /\ Begin(w, [Idle EXCEPT !.step = "flushed", !.kind = "spot", !.id = i,
                                !.name = FreeName(b), !.sample = Heard])
  /\ UNCHANGED stored

-----------------------------------------------------------------------------
(* Both tasks: the point is written, then the transaction committed. *)

(* upsert_speaker_embedding *)
Upsert(w) ==
  /\ job[w].step = "flushed"
  /\ points' = [points EXCEPT ![job[w].id] = job[w].sample]
  /\ Step(w, "upserted") /\ UNCHANGED <<identities, files, taken, queue, full_name>>

(* Not the code: the failure is logged and the row kept. *)
UpsertForgiven(w) ==
  /\ job[w].step = "flushed"
  /\ Step(w, "upserted") /\ UNCHANGED stored

(* Rolled back; the point may have been written before the answer was lost. *)
UpsertFails(w) ==
  /\ job[w].step = "flushed"
  /\ points' \in {points, [points EXCEPT ![job[w].id] = job[w].sample]}
  /\ End(w) /\ UNCHANGED <<identities, files, taken, queue, full_name>>

(* An identity that was found is written only if its name has changed. *)
Commit(w) ==
  LET j == job[w]
      row == [linked |-> j.kind = "enroll", name |-> j.name]
  IN
  /\ j.step = "upserted"
  /\ identities' = [identities EXCEPT ![j.id] = IF j.writes = "nothing" THEN @ ELSE row]
  /\ End(w) /\ UNCHANGED <<points, files, taken, queue, full_name>>

(* The task raises or its process dies: no sample can be decoded, the user    *)
(* has no organization, the speaker to link to is gone, or a row it updates. *)
Dies(w) ==
  /\ job[w].step # "idle"
  /\ End(w) /\ UNCHANGED stored

Next ==
  \/ \E n \in Names : Rename(n)
  \/ \E r \in Requests :
       \/ \E e \in Extensions : Upload(r, e)
       \/ Uploaded(r) \/ UploadRefused(r)
       \/ RemoveRead(r) \/ RemoveRow(r) \/ RemovePoint(r) \/ RemoveFiles(r) \/ RemoveRaises(r)
  \/ \E w \in Workers :
       \/ Enroll(w) \/ Load(w) \/ Upsert(w) \/ UpsertFails(w) \/ Commit(w) \/ Dies(w)
       \/ \E b \in Names : Spot(w, b)

Spec == Init /\ [][Next]_vars

-----------------------------------------------------------------------------
(* The variables have their types, and every identity has its point: the     *)
(* point is written before the row is committed, and the row is deleted      *)
(* before the point, whatever fails in between.                              *)
TypeOK ==
  /\ identities \in [Ids -> [linked : BOOLEAN, name : Names \X (1 .. Cardinality(Ids))] \cup {Gone}]
  /\ points \in [Ids -> 0 .. Heard]
  /\ files \in [Extensions -> 0 .. MaxSamples]
  /\ taken \in 0 .. MaxSamples /\ queue \in 0 .. MaxSamples
  /\ full_name \in Names
  /\ \A i \in Rows : points[i] # NoPoint

(* A second identity of the user, and a voice heard in a meeting that gets a  *)
(* name already in use, come only from a task that others ran beside: there  *)
(* is no unique constraint on either, and each task reads before it writes.  *)
DuplicatesNeedOverlap ==
  [][\A i \in Ids : identities[i] = Gone /\ identities'[i] # Gone =>
       \/ identities'[i].linked /\ Linked = {}
       \/ ~identities'[i].linked /\ identities'[i].name \notin Used
       \/ \E w \in Workers : job[w].id = i /\ ~job[w].alone]_vars

(* A point is left without its row only by a task that ran beside others, or  *)
(* that failed, or by a removal that did; and a removal that nothing ran      *)
(* beside leaves no sample and, of the identity it found, no row and no point. *)
RemovalComplete ==
  [][\A x \in Requests \cup Workers :
       LET i == job[x].id
           orphaned == i \in Ids /\ identities'[i] = Gone /\ points'[i] # NoPoint
       IN
       job[x].step # "idle" /\ job'[x] = Idle /\ job[x].alone =>
         /\ orphaned => UpsertFails(x) \/ Dies(x) \/ RemoveRaises(x)
         /\ job[x].step = "files" => Samples' = {} /\ i \notin Rows']_vars
=============================================================================
