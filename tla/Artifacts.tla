----------------------------- MODULE Artifacts ------------------------------
(***************************************************************************)
(* What is made of a meeting and of a knowledge base document while either *)
(* may be deleted: reports with their action items, copilot cycles, hooks  *)
(* and the ledger of what they cost (app/services/copilot,                 *)
(* app/services/admin/call_hooks.py), files and vectors of the jobs in     *)
(* app/workers/tasks.py and of app/ws/live_session.py, and the deletes of  *)
(* app/api/meetings.py and app/api/kb.py.                                  *)
(*                                                                         *)
(* PostgreSQL rows, the disk and Qdrant are three stores without a common  *)
(* transaction. A commit for a row that is gone raises: a foreign key, or  *)
(* an UPDATE that matches nothing; work that holds what it read goes on    *)
(* until then. Texts, prompts, templates and prices are data.              *)
(***************************************************************************)
CONSTANTS
    Docs,      \* knowledge base documents
    Meeting,   \* the meeting
    Autos,     \* corella.generate_report tasks
    Manuals,   \* POST /meetings/{id}/report requests
    Cycles,    \* the copilot of the live session
    PreCalls,  \* the pre-call hook
    Unwritten, \* no report yet
    MayFail    \* external services may fail, a process die (bound: once)

Reports == Autos \cup Manuals
Callers == Reports \cup Cycles \cup PreCalls
Rows == Docs \cup {Meeting}

ASSUME NameAssumption ==
    /\ Meeting \notin Docs /\ Unwritten \notin Reports
    /\ Callers \cap Docs = {} /\ Reports \cap (Cycles \cup PreCalls) = {} /\ Cycles \cap PreCalls = {} /\ Autos \cap Manuals = {}
    /\ MayFail \in BOOLEAN

VARIABLES
    row,      \* the row of the meeting and of each document
    status,   \* a document's status
    files,    \* what has files on the disk
    chunks,   \* what has points in Qdrant
    job,      \* the worker's (or the drain's) job on a row
    eraser,   \* how far the delete request of a row has come
    at,       \* where each report, cycle and hook is
    digest,   \* reports whose action items are in the table
    summary,  \* the report in the meeting's columns
    previous, \* the action items a report has chosen to replace
    unbooked, \* whose call has no row in llm_usage_events or hook_logs yet
    lost,     \* history: the row of a call could not be committed
    spoiled,  \* history: reports overtaken since they chose
    mixed,    \* history: the last report to be written was one of them
    missed,   \* history: a document's task ran before its commit
    overtaken,\* history: rows deleted while a job was about to write
    broken,   \* history: rows whose delete left something by a fault
    died      \* history: a process has died

things == <<row, status, files, chunks, job, eraser>>
report == <<digest, summary, previous, spoiled, mixed>>
books == <<unbooked, lost>>
history == <<missed, overtaken, broken, died>>
vars == <<things, at, report, books, history>>

Init ==
    /\ row = [x \in Rows |-> IF x = Meeting THEN "there" ELSE "none"]
    /\ status = [d \in Docs |-> "pending"]
    /\ files = {} /\ chunks = {}
    /\ job = [x \in Rows |-> "none"] /\ eraser = [x \in Rows |-> "none"]
    /\ at = [p \in Callers |-> "idle"]
    /\ digest = {} /\ summary = Unwritten /\ previous = [r \in Reports |-> {}]
    /\ unbooked = {} /\ lost = FALSE
    /\ spoiled = {} /\ mixed = FALSE
    /\ missed = {} /\ overtaken = {} /\ broken = {} /\ died = FALSE

There(x) == row[x] = "there"
Go(p, place) == at' = [at EXCEPT ![p] = place]
JobTo(x, place) == job' = [job EXCEPT ![x] = place]
EndOf(p) == IF p \in Cycles THEN "idle" ELSE "over"
Finalized == job[Meeting] \in {"queued", "found", "over"}

-----------------------------------------------------------------------------
(* Reports, cycles and hooks                                               *)

Triggered == job[Meeting] = "none" /\ \A c \in Cycles : at[c] = "idle"

(* What is needed is read, and the call goes out.                          *)
Ask(p) ==
    /\ at[p] = "idle" /\ There(Meeting)
    /\ Go(p, "asking")
    /\ UNCHANGED <<things, report, books, history>>

(* A report is dispatched by the end of the drain or asked for by hand;    *)
(* segments trigger cycles, one after the other (copilot_running).         *)
AskByHand(r) == r \in Manuals /\ Ask(r)
AskAutomatically(r) == r \in Autos /\ Finalized /\ Ask(r)
AskInCycle(c) == Triggered /\ Ask(c)

Call(p, from, to) ==
    /\ at[p] = from
    /\ Go(p, to) /\ unbooked' = unbooked \cup {p}
    /\ UNCHANGED <<things, report, lost, history>>

(* The model answers, or the hook's far side does, refuses or times out.   *)
Answer(p) == p \notin PreCalls /\ Call(p, "asking", "answered")
PreCall(p) == p \in PreCalls /\ Call(p, "asking", "answered")

(* No provider, no transcript, an LLMError, no hook configured.            *)
Skip(p) ==
    /\ at[p] = "asking"
    /\ Go(p, EndOf(p))
    /\ UNCHANGED <<things, report, books, history>>

Booked(p, next) ==
    /\ unbooked' = unbooked \ {p}
    /\ \/ There(Meeting) /\ Go(p, next) /\ UNCHANGED lost
       \/ ~There(Meeting) /\ Go(p, EndOf(p)) /\ lost' = TRUE
    /\ UNCHANGED <<things, report, history>>

(* Not the code: a report is noted like a cycle.                           *)
AfterAnyCall(p) == "noting"
After(p) == IF p \in Reports THEN "priced" ELSE "noting"

(* add_meeting_cost, before anything is parsed; its row and the hook log   *)
(* refer to the meeting.                                                   *)
AddCost(p) == at[p] = "answered" /\ p \notin PreCalls /\ Booked(p, After(p))

LogHook(p) == at[p] = (IF p \in PreCalls THEN "answered" ELSE "posted") /\ Booked(p, "over")

(* Not the code: an answer is parsed before its cost is added.             *)
UnusableUnpriced(p) ==
    /\ at[p] \in {"answered", "noting"}
    /\ Go(p, EndOf(p))
    /\ UNCHANGED <<things, report, books, history>>

(* The answer has no JSON, or no summary.                                  *)
Unusable(p) ==
    /\ at[p] \in {"priced", "noting"}
    /\ Go(p, EndOf(p))
    /\ UNCHANGED <<things, report, books, history>>

(* The cycle's insight and new action items; for a deleted meeting the     *)
(* commit raises.                                                          *)
Note(c) ==
    /\ at[c] = "noting"
    /\ Go(c, EndOf(c))
    /\ UNCHANGED <<things, report, books, history>>

(* Not the code: the new items are added to the old ones.                  *)
ChooseNone(r) ==
    /\ at[r] = "priced"
    /\ Go(r, "chosen")
    /\ UNCHANGED <<things, report, books, history>>

(* replace_report_action_items reads what it is to delete ...              *)
Choose(r) ==
    /\ at[r] = "priced"
    /\ Go(r, "chosen")
    /\ previous' = [previous EXCEPT ![r] = digest]
    /\ UNCHANGED <<things, digest, summary, spoiled, mixed, books, history>>

(* ... and deletes it (a row that is gone meanwhile only draws a warning), *)
(* adds its own, if any, and sets the columns, in one commit.              *)
Chosen == {r \in Reports : at[r] = "chosen"}

Write(r) ==
    /\ r \in Chosen
    /\ \/ /\ There(Meeting)
          /\ \E own \in {{}, {r}} : digest' = (digest \ previous[r]) \cup own
          /\ summary' = r
          /\ mixed' = (r \in spoiled)
          /\ spoiled' = (spoiled \cup Chosen) \ {r}
          /\ Go(r, IF r \in Autos THEN "told" ELSE "over")
       \/ /\ ~There(Meeting)
          /\ Go(r, "over")
          /\ UNCHANGED <<digest, summary, mixed, spoiled>>
    /\ previous' = [previous EXCEPT ![r] = {}]
    /\ UNCHANGED <<things, books, history>>

(* Only an automatic report is followed by the post-call hook, at once or  *)
(* as a task of its own, which rebuilds the report from the columns and    *)
(* finds no meeting if it was deleted.                                     *)
Post(r) == Call(r, "told", "posted")
PostTask(r) == There(Meeting) /\ Post(r)

NoPost(r) ==
    /\ at[r] = "told"
    /\ Go(r, "over")
    /\ UNCHANGED <<things, report, books, history>>

-----------------------------------------------------------------------------
(* Documents                                                               *)

(* upload_kb_document: the row is flushed, the file saved and the task     *)
(* dispatched, all before the commit.                                      *)
Upload(d) ==
    /\ row[d] = "none" /\ job[d] = "none"
    /\ row' = [row EXCEPT ![d] = "flushed"] /\ files' = files \cup {d}
    /\ \/ JobTo(d, "queued") /\ UNCHANGED status
       \/ MayFail /\ JobTo(d, "over") /\ status' = [status EXCEPT ![d] = "failed"]
    /\ UNCHANGED <<chunks, eraser, at, report, books, history>>

CommitUpload(d) ==
    /\ row[d] = "flushed"
    /\ row' = [row EXCEPT ![d] = "there"]
    /\ UNCHANGED <<status, files, chunks, job, eraser, at, report, books, history>>

(* process_kb_document looks the row up and commits `processing`.          *)
JobFinds(d) ==
    /\ job[d] = "queued"
    /\ IF There(d) THEN JobTo(d, "found") /\ status' = [status EXCEPT ![d] = "processing"]
                   ELSE JobTo(d, "over") /\ UNCHANGED status
    /\ missed' = IF row[d] = "flushed" THEN missed \cup {d} ELSE missed
    /\ UNCHANGED <<row, files, chunks, eraser, at, report, books, overtaken, broken, died>>

JobWrites(d) ==
    /\ job[d] = "found" /\ d \in files
    /\ chunks' = chunks \cup {d} /\ JobTo(d, "written")
    /\ UNCHANGED <<row, status, files, eraser, at, report, books, history>>

(* Text, embedding or Qdrant raises, or the file is gone.                  *)
JobRaises(d) ==
    /\ job[d] = "found" /\ (MayFail \/ d \notin files)
    /\ JobTo(d, "over")
    /\ status' = IF There(d) THEN [status EXCEPT ![d] = "failed"] ELSE status
    /\ UNCHANGED <<row, files, chunks, eraser, at, report, books, history>>

(* Both commits, of `ready` and then of `failed`, raise for a deleted row. *)
JobSettles(d) ==
    /\ job[d] = "written"
    /\ IF There(d) THEN JobTo(d, "asking") /\ status' = [status EXCEPT ![d] = "ready"]
                   ELSE JobTo(d, "over") /\ UNCHANGED status
    /\ UNCHANGED <<row, files, chunks, eraser, at, report, books, history>>

(* extract_keywords_via_llm: its ledger row refers to no meeting.          *)
AskKeywords(d) ==
    /\ job[d] = "asking"
    /\ \/ JobTo(d, "answered") /\ unbooked' = unbooked \cup {d}
       \/ JobTo(d, "over") /\ UNCHANGED unbooked
    /\ UNCHANGED <<row, status, files, chunks, eraser, at, report, lost, history>>

RecordKeywords(d) ==
    /\ job[d] = "answered"
    /\ JobTo(d, "over") /\ unbooked' = unbooked \ {d}
    /\ UNCHANGED <<row, status, files, chunks, eraser, at, report, lost, history>>

-----------------------------------------------------------------------------
(* The meeting's audio and its search chunks                               *)

(* _finalize: look up, write the file, commit `ready`, dispatch the index. *)
FinalizeFinds ==
    /\ job[Meeting] = "none" /\ There(Meeting)
    /\ JobTo(Meeting, "mixing")
    /\ UNCHANGED <<row, status, files, chunks, eraser, at, report, books, history>>

FinalizeWrites ==
    /\ job[Meeting] = "mixing"
    /\ JobTo(Meeting, "filed") /\ files' = files \cup {Meeting}
    /\ UNCHANGED <<row, status, chunks, eraser, at, report, books, history>>

FinalizeCommits ==
    /\ job[Meeting] = "filed"
    /\ JobTo(Meeting, IF There(Meeting) THEN "queued" ELSE "over")
    /\ UNCHANGED <<row, status, files, chunks, eraser, at, report, books, history>>

(* index_meeting_search                                                    *)
IndexFinds ==
    /\ job[Meeting] = "queued"
    /\ JobTo(Meeting, IF There(Meeting) THEN "found" ELSE "over")
    /\ UNCHANGED <<row, status, files, chunks, eraser, at, report, books, history>>

IndexWrites ==
    /\ job[Meeting] = "found"
    /\ JobTo(Meeting, "over")
    /\ \/ chunks' = chunks \cup {Meeting}
       \/ MayFail /\ UNCHANGED chunks
    /\ UNCHANGED <<row, status, files, eraser, at, report, books, history>>

-----------------------------------------------------------------------------
(* Deleting                                                                *)

AboutToWrite(x) == job[x] \in {"mixing", "found"}

(* The row goes first, with all that cascades; the ledger stays.           *)
DeleteRow(x) ==
    /\ There(x)
    /\ row' = [row EXCEPT ![x] = "gone"] /\ eraser' = [eraser EXCEPT ![x] = "files"]
    /\ IF x = Meeting THEN digest' = {} /\ summary' = Unwritten /\ mixed' = FALSE
                      ELSE UNCHANGED <<digest, summary, mixed>>
    /\ overtaken' = IF AboutToWrite(x) THEN overtaken \cup {x} ELSE overtaken
    /\ status' = [d \in Docs |-> IF d = x THEN "none" ELSE status[d]]
    /\ UNCHANGED <<files, chunks, job, at, previous, spoiled, books, missed, broken, died>>

(* Not the code: only the files are removed.                               *)
DeleteFilesOnly(x) ==
    /\ eraser[x] = "files"
    /\ eraser' = [eraser EXCEPT ![x] = "done"] /\ files' = files \ {x}
    /\ UNCHANGED <<row, status, chunks, job, at, report, books, history>>

DeleteFiles(x) ==
    /\ eraser[x] = "files"
    /\ eraser' = [eraser EXCEPT ![x] = "chunks"] /\ files' = files \ {x}
    /\ UNCHANGED <<row, status, chunks, job, at, report, books, history>>

(* delete_meeting_chunks raises, delete_document_chunks logs, when Qdrant  *)
(* does not answer; the points stay either way.                            *)
DeleteChunks(x) ==
    /\ eraser[x] = "chunks"
    /\ eraser' = [eraser EXCEPT ![x] = "done"]
    /\ \/ chunks' = chunks \ {x} /\ UNCHANGED broken
       \/ MayFail /\ broken' = broken \cup {x} /\ UNCHANGED chunks
    /\ UNCHANGED <<row, status, files, job, at, report, books, missed, overtaken, died>>

-----------------------------------------------------------------------------
(* Deaths                                                                  *)

InFlight(ps) == {p \in ps : at[p] \in {"answered", "posted"}}
Unrecorded(ds) == {d \in ds : job[d] = "answered"}

(* What a process runs ends with it. Celery acknowledges a task when it is *)
(* taken: one under way is not repeated. A pre-call runs in either process *)
(* (pre_call_async).                                                       *)
Die(ps, ds) ==
    /\ MayFail /\ ~died /\ died' = TRUE
    /\ at' = [p \in Callers |-> IF p \in ps /\ at[p] # "idle" THEN "over" ELSE at[p]]
    /\ unbooked' = unbooked \ (InFlight(ps) \cup Unrecorded(ds))
    /\ lost' = (lost \/ InFlight(ps) \cup Unrecorded(ds) # {})

WorkerDies ==
    LET running == {x \in Rows : job[x] \in {"found", "written", "asking", "answered"}} IN
    /\ \E hooks \in SUBSET PreCalls : Die(Autos \cup hooks, Docs)
    /\ job' = [x \in Rows |-> IF x \in running THEN "over" ELSE job[x]]
    /\ UNCHANGED <<row, status, files, chunks, eraser, report, missed, overtaken, broken>>

(* The api process takes its requests and the detached drain with it.      *)
ApiDies ==
    /\ \E hooks \in SUBSET PreCalls : Die(Manuals \cup Cycles \cup hooks, {})
    /\ row' = [x \in Rows |-> IF row[x] = "flushed" THEN "none" ELSE row[x]]
    /\ job' = [x \in Rows |-> IF job[x] \in {"mixing", "filed"} THEN "dead" ELSE job[x]]
    /\ eraser' = [x \in Rows |-> IF eraser[x] = "none" THEN "none" ELSE "done"]
    /\ broken' = broken \cup {x \in Rows : eraser[x] \in {"files", "chunks"}}
    /\ UNCHANGED <<status, files, chunks, report, missed, overtaken>>

-----------------------------------------------------------------------------
Calling ==
    \/ \E p \in Callers : Answer(p) \/ PreCall(p) \/ Skip(p) \/ AddCost(p) \/ LogHook(p) \/ Unusable(p)
    \/ \E p \in PreCalls : Ask(p)
    \/ \E c \in Cycles : AskInCycle(c) \/ Note(c)
    \/ \E r \in Reports :
        \/ AskByHand(r) \/ AskAutomatically(r)
        \/ Choose(r) \/ Write(r) \/ Post(r) \/ PostTask(r) \/ NoPost(r)

Working ==
    \/ \E d \in Docs :
        \/ Upload(d) \/ CommitUpload(d) \/ JobFinds(d) \/ JobWrites(d) \/ JobRaises(d)
        \/ JobSettles(d) \/ AskKeywords(d) \/ RecordKeywords(d)
    \/ FinalizeFinds \/ FinalizeWrites \/ FinalizeCommits \/ IndexFinds \/ IndexWrites

Next ==
    \/ Calling \/ Working
    \/ \E x \in Rows : DeleteRow(x) \/ DeleteFiles(x) \/ DeleteChunks(x)
    \/ WorkerDies \/ ApiDies

Spec == Init /\ [][Next]_vars

-----------------------------------------------------------------------------
(* Properties                                                              *)

Places == {"idle", "asking", "answered", "priced", "noting", "chosen", "told", "posted", "over"}
Jobs == {"none", "queued", "found", "written", "asking", "answered", "mixing", "filed", "dead", "over"}

(* The types of the variables, and who can be where.                       *)
TypeOK ==
    /\ row \in [Rows -> {"none", "flushed", "there", "gone"}]
    /\ status \in [Docs -> {"none", "pending", "processing", "ready", "failed"}]
    /\ files \subseteq Rows /\ chunks \subseteq Rows
    /\ job \in [Rows -> Jobs] /\ eraser \in [Rows -> {"none", "files", "chunks", "done"}]
    /\ at \in [Callers -> Places]
    /\ \A p \in Callers : at[p] \in {"priced", "chosen"} => p \in Reports
    /\ \A p \in Callers : at[p] \in {"told", "posted"} => p \in Autos
    /\ \A p \in Callers : at[p] = "noting" => p \in Cycles
    /\ digest \subseteq Reports /\ summary \in Reports \cup {Unwritten}
    /\ previous \in [Reports -> SUBSET Reports]
    /\ unbooked \subseteq Callers \cup Docs
    /\ spoiled \subseteq Reports /\ {mixed, lost, died} \subseteq BOOLEAN
    /\ missed \subseteq Docs /\ overtaken \subseteq Rows /\ broken \subseteq Rows

(* The report's action items are those of the report in the columns. Two   *)
(* reports that both chose before either was written leave the items of    *)
(* both, and the next one that nobody overlaps puts it right.              *)
ReportsAgree == There(Meeting) /\ ~mixed => digest \subseteq {summary}

(* Every external call is in the ledger or the hook log, or about to be:   *)
(* a model's answer that cannot be used is paid for all the same. Only a   *)
(* meeting deleted meanwhile, or a process that dies, loses one.           *)
CallsRecorded ==
    /\ unbooked = InFlight(Callers) \cup Unrecorded(Docs)
    /\ lost => ~There(Meeting) \/ died

(* Rows, files and vectors agree once nobody works on them: nothing is     *)
(* left of a deleted row, a ready document can be searched, and one that   *)
(* is not settled has a job. What breaks this is a delete that overtakes a *)
(* job about to write, a task that overtakes its commit, or a fault.       *)
ThingsAgree ==
    \A x \in Rows :
        /\ row[x] = "gone" /\ eraser[x] = "done" /\ x \notin overtaken \cup broken => x \notin files \cup chunks
        /\ x \in Docs /\ There(x) /\ status[x] = "ready" => x \in files \cap chunks
        /\ x \in Docs /\ There(x) /\ status[x] \in {"pending", "processing"} /\ x \notin missed =>
              job[x] \in {"queued", "found", "written"} \/ died
=============================================================================
