--------------------------- MODULE ArtifactsProofs ---------------------------
(***************************************************************************)
(* What Artifacts promises for any number of documents, reports, cycles and*)
(* hooks.                                                                  *)
(***************************************************************************)
EXTENDS Artifacts, TLAPS

(* The meeting is there from the start and never comes back.               *)
MeetingRow == row[Meeting] \in {"there", "gone"}

(* A report that has chosen, and that nobody overtook since, is about to   *)
(* replace exactly the action items in the table.                          *)
ChoiceIsCurrent ==
    There(Meeting) => \A r \in Chosen : r \notin spoiled => previous[r] = digest

ReportsInv == ChoiceIsCurrent /\ ReportsAgree

CallsInv == MeetingRow /\ CallsRecorded

(* How far a delete has come, and what is gone by then.                    *)
Erasing ==
    \A x \in Rows :
        /\ eraser[x] # "none" => row[x] = "gone"
        /\ row[x] = "gone" /\ AboutToWrite(x) => x \in overtaken
        /\ row[x] = "gone" /\ eraser[x] \in {"chunks", "done"} /\ x \notin overtaken \cup broken => x \notin files
        /\ row[x] = "gone" /\ eraser[x] = "done" /\ x \notin overtaken \cup broken => x \notin chunks

(* What a document's job has done of it.                                   *)
Processing ==
    \A d \in Docs :
        /\ row[d] \in {"none", "flushed"} =>
              job[d] \in {"none", "queued", "over"} /\ status[d] \in {"pending", "failed"}
        /\ There(d) /\ job[d] = "written" => d \in files \cap chunks
        /\ There(d) /\ status[d] = "ready" => d \in files \cap chunks
        /\ row[d] \in {"flushed", "there"} /\ status[d] \in {"pending", "processing"} /\ d \notin missed =>
              job[d] \in {"queued", "found", "written"} \/ died

ThingsInv == Erasing /\ Processing

(* However a report, a cycle or a hook is begun, it asks; and the task of  *)
(* the post-call posts.                                                    *)
LEMMA CallingSteps ==
    ASSUME Calling
    PROVE  \/ \E p \in Callers :
                \/ Ask(p) \/ Answer(p) \/ PreCall(p) \/ Skip(p)
                \/ AddCost(p) \/ LogHook(p) \/ Unusable(p)
           \/ \E c \in Cycles : Note(c)
           \/ \E r \in Reports : Choose(r) \/ Write(r) \/ Post(r) \/ NoPost(r)
BY DEF Calling, AskByHand, AskAutomatically, AskInCycle, PostTask, Callers, Reports

(* Every step keeps the types.                                             *)
LEMMA TypeStep ==
  ASSUME NameAssumption, TypeOK, [Next]_vars
  PROVE  TypeOK'
<1> USE DEF NameAssumption, TypeOK, Places, Jobs, Rows, Reports, Callers, There,
           Go, JobTo, EndOf, things, report, books, history
<1>1. ASSUME NEW p \in Callers, Ask(p) PROVE TypeOK'
  BY <1>1 DEF Ask
<1>2. ASSUME NEW p \in Callers, Answer(p) PROVE TypeOK'
  BY <1>2 DEF Answer, Call
<1>3. ASSUME NEW p \in Callers, PreCall(p) PROVE TypeOK'
  BY <1>3 DEF PreCall, Call
<1>4. ASSUME NEW p \in Callers, Skip(p) PROVE TypeOK'
  BY <1>4 DEF Skip
<1>5. ASSUME NEW p \in Callers, AddCost(p) PROVE TypeOK'
  <2>1. CASE There(Meeting) /\ Go(p, After(p)) /\ UNCHANGED lost
    <3>1. CASE p \in Reports
      BY <1>5, <2>1, <3>1 DEF AddCost, Booked, After
    <3>2. CASE p \in Cycles
      BY <1>5, <2>1, <3>2 DEF AddCost, Booked, After
    <3> QED BY <1>5, <3>1, <3>2 DEF AddCost
  <2>2. CASE ~There(Meeting) /\ Go(p, EndOf(p)) /\ lost' = TRUE
    BY <1>5, <2>2 DEF AddCost, Booked
  <2> QED BY <1>5, <2>1, <2>2 DEF AddCost, Booked
<1>6. ASSUME NEW p \in Callers, LogHook(p) PROVE TypeOK'
  <2>1. PICK place \in {"idle", "over"} : at' = [at EXCEPT ![p] = place]
    BY <1>6 DEF LogHook, Booked
  <2>2. unbooked' \subseteq Callers \cup Docs /\ (lost' = lost \/ lost' = TRUE) /\ UNCHANGED <<things, report, history>>
    BY <1>6 DEF LogHook, Booked
  <2> QED BY <2>1, <2>2
<1>7. ASSUME NEW p \in Callers, Unusable(p) PROVE TypeOK'
  BY <1>7 DEF Unusable
<1>8. ASSUME NEW c \in Cycles, Note(c) PROVE TypeOK'
  BY <1>8 DEF Note
<1>9. ASSUME NEW r \in Reports, Choose(r) PROVE TypeOK'
  BY <1>9 DEF Choose
<1>10. ASSUME NEW r \in Reports, Write(r) PROVE TypeOK'
  <2>1. at' \in [Callers -> Places] /\ \A p \in Callers : at'[p] \in {at[p], "told", "over"}
    BY <1>10 DEF Write
  <2>2. at'[r] \in {"told", "over"} /\ (at'[r] = "told" => r \in Autos)
    BY <1>10 DEF Write
  <2>3. \A p \in Callers : p # r => at'[p] = at[p]
    BY <1>10 DEF Write
  <2>4. digest' \subseteq Reports /\ summary' \in Reports \cup {Unwritten}
    BY <1>10 DEF Write
  <2>5. mixed' = (r \in spoiled) \/ mixed' = mixed
    BY <1>10 DEF Write
  <2>6. mixed' \in BOOLEAN
    <3> HIDE NameAssumption DEF NameAssumption, TypeOK
    <3>1. mixed \in BOOLEAN
      BY DEF TypeOK
    <3>2. mixed' = TRUE \/ mixed' = FALSE \/ mixed' = mixed
      BY <2>5
    <3> QED BY <3>1, <3>2
  <2>7. spoiled' \subseteq Reports
    BY <1>10 DEF Write, Chosen
  <2>8. previous' \in [Reports -> SUBSET Reports] /\ UNCHANGED <<things, books, history>>
    BY <1>10 DEF Write
  <2> QED BY <2>1, <2>2, <2>3, <2>4, <2>6, <2>7, <2>8
<1>11. ASSUME NEW r \in Reports, Post(r) PROVE TypeOK'
  BY <1>11 DEF Post, Call
<1>12. ASSUME NEW r \in Reports, NoPost(r) PROVE TypeOK'
  BY <1>12 DEF NoPost
<1>13. ASSUME NEW d \in Docs, Upload(d) PROVE TypeOK'
  BY <1>13 DEF Upload
<1>14. ASSUME NEW d \in Docs, CommitUpload(d) PROVE TypeOK'
  BY <1>14 DEF CommitUpload
<1>15. ASSUME NEW d \in Docs, JobFinds(d) PROVE TypeOK'
  BY <1>15 DEF JobFinds
<1>16. ASSUME NEW d \in Docs, JobWrites(d) PROVE TypeOK'
  BY <1>16 DEF JobWrites
<1>17. ASSUME NEW d \in Docs, JobRaises(d) PROVE TypeOK'
  BY <1>17 DEF JobRaises
<1>18. ASSUME NEW d \in Docs, JobSettles(d) PROVE TypeOK'
  BY <1>18 DEF JobSettles
<1>19. ASSUME NEW d \in Docs, AskKeywords(d) PROVE TypeOK'
  BY <1>19 DEF AskKeywords
<1>20. ASSUME NEW d \in Docs, RecordKeywords(d) PROVE TypeOK'
  BY <1>20 DEF RecordKeywords
<1>21. CASE FinalizeFinds
  BY <1>21 DEF FinalizeFinds
<1>22. CASE FinalizeWrites
  BY <1>22 DEF FinalizeWrites
<1>23. CASE FinalizeCommits
  BY <1>23 DEF FinalizeCommits
<1>24. CASE IndexFinds
  BY <1>24 DEF IndexFinds
<1>25. CASE IndexWrites
  BY <1>25 DEF IndexWrites
<1>26. ASSUME NEW x \in Rows, DeleteRow(x) PROVE TypeOK'
  BY <1>26 DEF DeleteRow
<1>27. ASSUME NEW x \in Rows, DeleteFiles(x) PROVE TypeOK'
  BY <1>27 DEF DeleteFiles
<1>28. ASSUME NEW x \in Rows, DeleteChunks(x) PROVE TypeOK'
  BY <1>28 DEF DeleteChunks
<1>29. CASE WorkerDies
  BY <1>29 DEF WorkerDies, Die, InFlight, Unrecorded
<1>30. CASE ApiDies
  BY <1>30 DEF ApiDies, Die, InFlight, Unrecorded
<1>31. CASE UNCHANGED vars
  BY <1>31 DEF vars
<1> QED BY <1>1, <1>2, <1>3, <1>4, <1>5, <1>6, <1>7, <1>8, <1>9, <1>10, <1>11, <1>12,
    <1>13, <1>14, <1>15, <1>16, <1>17, <1>18, <1>19, <1>20, <1>21, <1>22, <1>23, <1>24,
    <1>25, <1>26, <1>27, <1>28, <1>29, <1>30, <1>31, CallingSteps DEF Next, Working

(* The initial state has the types and all three invariants.               *)
LEMMA InitStep ==
  ASSUME NameAssumption, Init
  PROVE  TypeOK /\ ReportsInv /\ CallsInv /\ ThingsInv
<1>1. TypeOK
  BY DEF NameAssumption, Init, TypeOK, Places, Jobs, Rows, Reports, Callers
<1>2. ReportsInv
  BY DEF NameAssumption, Init, ReportsInv, ChoiceIsCurrent, ReportsAgree, Chosen, Reports, Callers
<1>3. CallsInv
  BY DEF NameAssumption, Init, CallsInv, MeetingRow, CallsRecorded, InFlight, Unrecorded, Rows
<1>4. ThingsInv
  BY DEF NameAssumption, Init, ThingsInv, Erasing, Processing, AboutToWrite, There, Rows
<1> QED BY <1>1, <1>2, <1>3, <1>4

(* Every step keeps the reports' invariant.                                *)
LEMMA ReportsStep ==
  ASSUME NameAssumption, TypeOK, ReportsInv, [Next]_vars
  PROVE  ReportsInv'
<1> USE DEF NameAssumption, TypeOK, Rows, Reports, Callers, There, Go, JobTo, EndOf,
           ReportsInv, ChoiceIsCurrent, ReportsAgree, Chosen, things, report, books, history
<1>1. ASSUME NEW p \in Callers, Ask(p) PROVE ReportsInv'
  BY <1>1 DEF Ask
<1>2. ASSUME NEW p \in Callers, Answer(p) PROVE ReportsInv'
  BY <1>2 DEF Answer, Call
<1>3. ASSUME NEW p \in Callers, PreCall(p) PROVE ReportsInv'
  BY <1>3 DEF PreCall, Call
<1>4. ASSUME NEW p \in Callers, Skip(p) PROVE ReportsInv'
  BY <1>4 DEF Skip
<1>5. ASSUME NEW p \in Callers, AddCost(p) PROVE ReportsInv'
  <2>1. Chosen' = Chosen
    BY <1>5 DEF AddCost, Booked, After
  <2> QED BY <1>5, <2>1 DEF AddCost, Booked
<1>6. ASSUME NEW p \in Callers, LogHook(p) PROVE ReportsInv'
  BY <1>6 DEF LogHook, Booked
<1>7. ASSUME NEW p \in Callers, Unusable(p) PROVE ReportsInv'
  BY <1>7 DEF Unusable
<1>8. ASSUME NEW c \in Cycles, Note(c) PROVE ReportsInv'
  BY <1>8 DEF Note
<1>9. ASSUME NEW r \in Reports, Choose(r) PROVE ReportsInv'
  BY <1>9 DEF Choose
<1>10. ASSUME NEW r \in Reports, Write(r) PROVE ReportsInv'
  BY <1>10 DEF Write, Chosen
<1>11. ASSUME NEW r \in Reports, Post(r) PROVE ReportsInv'
  BY <1>11 DEF Post, Call
<1>12. ASSUME NEW r \in Reports, NoPost(r) PROVE ReportsInv'
  BY <1>12 DEF NoPost
<1>13. ASSUME NEW d \in Docs, Upload(d) PROVE ReportsInv'
  BY <1>13 DEF Upload
<1>14. ASSUME NEW d \in Docs, CommitUpload(d) PROVE ReportsInv'
  BY <1>14 DEF CommitUpload
<1>15. ASSUME NEW d \in Docs, JobFinds(d) PROVE ReportsInv'
  BY <1>15 DEF JobFinds
<1>16. ASSUME NEW d \in Docs, JobWrites(d) PROVE ReportsInv'
  BY <1>16 DEF JobWrites
<1>17. ASSUME NEW d \in Docs, JobRaises(d) PROVE ReportsInv'
  BY <1>17 DEF JobRaises
<1>18. ASSUME NEW d \in Docs, JobSettles(d) PROVE ReportsInv'
  BY <1>18 DEF JobSettles
<1>19. ASSUME NEW d \in Docs, AskKeywords(d) PROVE ReportsInv'
  BY <1>19 DEF AskKeywords
<1>20. ASSUME NEW d \in Docs, RecordKeywords(d) PROVE ReportsInv'
  BY <1>20 DEF RecordKeywords
<1>21. CASE FinalizeFinds
  BY <1>21 DEF FinalizeFinds
<1>22. CASE FinalizeWrites
  BY <1>22 DEF FinalizeWrites
<1>23. CASE FinalizeCommits
  BY <1>23 DEF FinalizeCommits
<1>24. CASE IndexFinds
  BY <1>24 DEF IndexFinds
<1>25. CASE IndexWrites
  BY <1>25 DEF IndexWrites
<1>26. ASSUME NEW x \in Rows, DeleteRow(x) PROVE ReportsInv'
  BY <1>26 DEF DeleteRow
<1>27. ASSUME NEW x \in Rows, DeleteFiles(x) PROVE ReportsInv'
  BY <1>27 DEF DeleteFiles
<1>28. ASSUME NEW x \in Rows, DeleteChunks(x) PROVE ReportsInv'
  BY <1>28 DEF DeleteChunks
<1>29. CASE WorkerDies
  BY <1>29 DEF WorkerDies, Die, InFlight, Unrecorded
<1>30. CASE ApiDies
  BY <1>30 DEF ApiDies, Die, InFlight, Unrecorded
<1>31. CASE UNCHANGED vars
  BY <1>31 DEF vars
<1> QED BY <1>1, <1>2, <1>3, <1>4, <1>5, <1>6, <1>7, <1>8, <1>9, <1>10, <1>11, <1>12,
    <1>13, <1>14, <1>15, <1>16, <1>17, <1>18, <1>19, <1>20, <1>21, <1>22, <1>23, <1>24,
    <1>25, <1>26, <1>27, <1>28, <1>29, <1>30, <1>31, CallingSteps DEF Next, Working

(* Every step keeps the calls' invariant.                                  *)
LEMMA CallsStep ==
  ASSUME NameAssumption, TypeOK, CallsInv, [Next]_vars
  PROVE  CallsInv'
<1> USE DEF NameAssumption, TypeOK, Rows, Reports, Callers, There, Go, JobTo, EndOf,
           CallsInv, MeetingRow, CallsRecorded, InFlight, Unrecorded, things, report, books, history
<1>1. ASSUME NEW p \in Callers, Ask(p) PROVE CallsInv'
  BY <1>1 DEF Ask
<1>2. ASSUME NEW p \in Callers, Answer(p) PROVE CallsInv'
  BY <1>2 DEF Answer, Call
<1>3. ASSUME NEW p \in Callers, PreCall(p) PROVE CallsInv'
  BY <1>3 DEF PreCall, Call
<1>4. ASSUME NEW p \in Callers, Skip(p) PROVE CallsInv'
  BY <1>4 DEF Skip
<1>5. ASSUME NEW p \in Callers, AddCost(p) PROVE CallsInv'
  BY <1>5 DEF AddCost, Booked, After
<1>6. ASSUME NEW p \in Callers, LogHook(p) PROVE CallsInv'
  BY <1>6 DEF LogHook, Booked
<1>7. ASSUME NEW p \in Callers, Unusable(p) PROVE CallsInv'
  BY <1>7 DEF Unusable
<1>8. ASSUME NEW c \in Cycles, Note(c) PROVE CallsInv'
  BY <1>8 DEF Note
<1>9. ASSUME NEW r \in Reports, Choose(r) PROVE CallsInv'
  BY <1>9 DEF Choose
<1>10. ASSUME NEW r \in Reports, Write(r) PROVE CallsInv'
  BY <1>10 DEF Write, Chosen
<1>11. ASSUME NEW r \in Reports, Post(r) PROVE CallsInv'
  BY <1>11 DEF Post, Call
<1>12. ASSUME NEW r \in Reports, NoPost(r) PROVE CallsInv'
  BY <1>12 DEF NoPost
<1>13. ASSUME NEW d \in Docs, Upload(d) PROVE CallsInv'
  BY <1>13 DEF Upload
<1>14. ASSUME NEW d \in Docs, CommitUpload(d) PROVE CallsInv'
  BY <1>14 DEF CommitUpload
<1>15. ASSUME NEW d \in Docs, JobFinds(d) PROVE CallsInv'
  BY <1>15 DEF JobFinds
<1>16. ASSUME NEW d \in Docs, JobWrites(d) PROVE CallsInv'
  BY <1>16 DEF JobWrites
<1>17. ASSUME NEW d \in Docs, JobRaises(d) PROVE CallsInv'
  BY <1>17 DEF JobRaises
<1>18. ASSUME NEW d \in Docs, JobSettles(d) PROVE CallsInv'
  BY <1>18 DEF JobSettles
<1>19. ASSUME NEW d \in Docs, AskKeywords(d) PROVE CallsInv'
  BY <1>19 DEF AskKeywords
<1>20. ASSUME NEW d \in Docs, RecordKeywords(d) PROVE CallsInv'
  BY <1>20 DEF RecordKeywords
<1>21. CASE FinalizeFinds
  BY <1>21 DEF FinalizeFinds
<1>22. CASE FinalizeWrites
  BY <1>22 DEF FinalizeWrites
<1>23. CASE FinalizeCommits
  BY <1>23 DEF FinalizeCommits
<1>24. CASE IndexFinds
  BY <1>24 DEF IndexFinds
<1>25. CASE IndexWrites
  BY <1>25 DEF IndexWrites
<1>26. ASSUME NEW x \in Rows, DeleteRow(x) PROVE CallsInv'
  BY <1>26 DEF DeleteRow
<1>27. ASSUME NEW x \in Rows, DeleteFiles(x) PROVE CallsInv'
  BY <1>27 DEF DeleteFiles
<1>28. ASSUME NEW x \in Rows, DeleteChunks(x) PROVE CallsInv'
  BY <1>28 DEF DeleteChunks
<1>29. CASE WorkerDies
  BY <1>29 DEF WorkerDies, Die, InFlight, Unrecorded
<1>30. CASE ApiDies
  BY <1>30 DEF ApiDies, Die, InFlight, Unrecorded
<1>31. CASE UNCHANGED vars
  BY <1>31 DEF vars
<1> QED BY <1>1, <1>2, <1>3, <1>4, <1>5, <1>6, <1>7, <1>8, <1>9, <1>10, <1>11, <1>12,
    <1>13, <1>14, <1>15, <1>16, <1>17, <1>18, <1>19, <1>20, <1>21, <1>22, <1>23, <1>24,
    <1>25, <1>26, <1>27, <1>28, <1>29, <1>30, <1>31, CallingSteps DEF Next, Working

(* Every step keeps the invariant of rows, files and vectors.              *)
LEMMA ThingsStep ==
  ASSUME NameAssumption, TypeOK, MeetingRow, ThingsInv, [Next]_vars
  PROVE  ThingsInv'
<1> USE DEF NameAssumption, TypeOK, Rows, Reports, Callers, There, Go, JobTo,
           ThingsInv, Erasing, Processing, AboutToWrite, MeetingRow, things, report, books, history
<1>1. ASSUME NEW p \in Callers, Ask(p) PROVE ThingsInv'
  BY <1>1 DEF Ask
<1>2. ASSUME NEW p \in Callers, Answer(p) PROVE ThingsInv'
  BY <1>2 DEF Answer, Call
<1>3. ASSUME NEW p \in Callers, PreCall(p) PROVE ThingsInv'
  BY <1>3 DEF PreCall, Call
<1>4. ASSUME NEW p \in Callers, Skip(p) PROVE ThingsInv'
  BY <1>4 DEF Skip
<1>5. ASSUME NEW p \in Callers, AddCost(p) PROVE ThingsInv'
  BY <1>5 DEF AddCost, Booked, After
<1>6. ASSUME NEW p \in Callers, LogHook(p) PROVE ThingsInv'
  BY <1>6 DEF LogHook, Booked
<1>7. ASSUME NEW p \in Callers, Unusable(p) PROVE ThingsInv'
  BY <1>7 DEF Unusable
<1>8. ASSUME NEW c \in Cycles, Note(c) PROVE ThingsInv'
  BY <1>8 DEF Note
<1>9. ASSUME NEW r \in Reports, Choose(r) PROVE ThingsInv'
  BY <1>9 DEF Choose
<1>10. ASSUME NEW r \in Reports, Write(r) PROVE ThingsInv'
  BY <1>10 DEF Write, Chosen
<1>11. ASSUME NEW r \in Reports, Post(r) PROVE ThingsInv'
  BY <1>11 DEF Post, Call
<1>12. ASSUME NEW r \in Reports, NoPost(r) PROVE ThingsInv'
  BY <1>12 DEF NoPost
<1>13. ASSUME NEW d \in Docs, Upload(d) PROVE ThingsInv'
  BY <1>13 DEF Upload
<1>14. ASSUME NEW d \in Docs, CommitUpload(d) PROVE ThingsInv'
  BY <1>14 DEF CommitUpload
<1>15. ASSUME NEW d \in Docs, JobFinds(d) PROVE ThingsInv'
  BY <1>15 DEF JobFinds
<1>16. ASSUME NEW d \in Docs, JobWrites(d) PROVE ThingsInv'
  BY <1>16 DEF JobWrites
<1>17. ASSUME NEW d \in Docs, JobRaises(d) PROVE ThingsInv'
  BY <1>17 DEF JobRaises
<1>18. ASSUME NEW d \in Docs, JobSettles(d) PROVE ThingsInv'
  BY <1>18 DEF JobSettles
<1>19. ASSUME NEW d \in Docs, AskKeywords(d) PROVE ThingsInv'
  BY <1>19 DEF AskKeywords
<1>20. ASSUME NEW d \in Docs, RecordKeywords(d) PROVE ThingsInv'
  BY <1>20 DEF RecordKeywords
<1>21. CASE FinalizeFinds
  BY <1>21 DEF FinalizeFinds
<1>22. CASE FinalizeWrites
  BY <1>22 DEF FinalizeWrites
<1>23. CASE FinalizeCommits
  BY <1>23 DEF FinalizeCommits
<1>24. CASE IndexFinds
  BY <1>24 DEF IndexFinds
<1>25. CASE IndexWrites
  BY <1>25 DEF IndexWrites
<1>26. ASSUME NEW x \in Rows, DeleteRow(x) PROVE ThingsInv'
  BY <1>26 DEF DeleteRow
<1>27. ASSUME NEW x \in Rows, DeleteFiles(x) PROVE ThingsInv'
  BY <1>27 DEF DeleteFiles
<1>28. ASSUME NEW x \in Rows, DeleteChunks(x) PROVE ThingsInv'
  BY <1>28 DEF DeleteChunks
<1>29. CASE WorkerDies
  BY <1>29 DEF WorkerDies, Die, InFlight, Unrecorded
<1>30. CASE ApiDies
  BY <1>30 DEF ApiDies, Die, InFlight, Unrecorded
<1>31. CASE UNCHANGED vars
  BY <1>31 DEF vars
<1> QED BY <1>1, <1>2, <1>3, <1>4, <1>5, <1>6, <1>7, <1>8, <1>9, <1>10, <1>11, <1>12,
    <1>13, <1>14, <1>15, <1>16, <1>17, <1>18, <1>19, <1>20, <1>21, <1>22, <1>23, <1>24,
    <1>25, <1>26, <1>27, <1>28, <1>29, <1>30, <1>31, CallingSteps DEF Next, Working

(* The types, for any number of documents and callers.                     *)
THEOREM TypeCorrect == Spec => []TypeOK
<1>1. NameAssumption
  BY NameAssumption
<1>2. Init => TypeOK
  BY <1>1, InitStep
<1>3. TypeOK /\ [Next]_vars => TypeOK'
  BY <1>1, TypeStep
<1> QED BY <1>2, <1>3, PTL DEF Spec

(* The action items in the table are the written report's, unless it was   *)
(* overtaken after it chose what to replace.                               *)
THEOREM ReportAgreement == Spec => []ReportsAgree
<1>1. NameAssumption
  BY NameAssumption
<1>2. Init => TypeOK /\ ReportsInv
  BY <1>1, InitStep
<1>3. TypeOK /\ ReportsInv /\ [Next]_vars => (TypeOK /\ ReportsInv)'
  BY <1>1, TypeStep, ReportsStep
<1>4. ReportsInv => ReportsAgree
  BY DEF ReportsInv
<1> QED BY <1>2, <1>3, <1>4, PTL DEF Spec

(* Every external call is on record, about to be, or was lost to a delete  *)
(* of the meeting or a death.                                              *)
THEOREM CallsOnRecord == Spec => []CallsRecorded
<1>1. NameAssumption
  BY NameAssumption
<1>2. Init => TypeOK /\ CallsInv
  BY <1>1, InitStep
<1>3. TypeOK /\ CallsInv /\ [Next]_vars => (TypeOK /\ CallsInv)'
  BY <1>1, TypeStep, CallsStep
<1>4. CallsInv => CallsRecorded
  BY DEF CallsInv
<1> QED BY <1>2, <1>3, <1>4, PTL DEF Spec

(* Rows, files and vectors agree once nobody works on them, but for the    *)
(* overlaps and faults that ThingsAgree names.                             *)
THEOREM StoresAgree == Spec => []ThingsAgree
<1>1. NameAssumption
  BY NameAssumption
<1> DEFINE Inv == TypeOK /\ CallsInv /\ ThingsInv
<1>2. Init => Inv
  BY <1>1, InitStep
<1>3. Inv /\ [Next]_vars => Inv'
  <2> SUFFICES ASSUME Inv, [Next]_vars PROVE Inv'
    OBVIOUS
  <2>1. TypeOK' /\ CallsInv'
    BY <1>1, TypeStep, CallsStep
  <2>2. MeetingRow
    BY DEF CallsInv
  <2>3. ThingsInv'
    BY <1>1, <2>2, ThingsStep
  <2> QED BY <2>1, <2>3
<1>4. Inv => ThingsAgree
  BY DEF ThingsInv, Erasing, Processing, ThingsAgree, There, Rows
<1> HIDE DEF Inv
<1> QED BY <1>2, <1>3, <1>4, PTL DEF Spec

=============================================================================
