--------------------------- MODULE SettingsProofs ---------------------------
(***************************************************************************)
(* Proofs about what is set beside the meetings: the call types and secrets *)
(* of an organization (CallTypes), for any number of them, of meetings and   *)
(* of requests; and the providers and credentials of a user (Providers), for *)
(* any number of requests and any settings of the instance.                 *)
(***************************************************************************)
EXTENDS CallTypes, FiniteSetTheorems, TLAPS

CONSTANTS EnvLlm, EnvStt
VARIABLES credentials, stt, prefs, resolving

P == INSTANCE Providers WITH job <- resolving

-----------------------------------------------------------------------------
(* Call types *)

All == Requests \cup Workers

Job == [step : {"idle", "flushed", "ready", "queue", "resolve", "send"},
        kind : {"none", "create", "update", "delete", "meet"},
        id : Types \cup Meetings \cup {NoType}, type : Types \cup {NoType}, was : BOOLEAN,
        want : BOOLEAN, others : SUBSET Types, pre : Hooks]

(* What a request has read has its type, and fits what it is about to do.    *)
JobOK(j) ==
  /\ j \in Job
  /\ j.step \in {"queue", "resolve", "send"} => j.kind = "meet"
  /\ j.kind \in {"create", "update", "delete"} => j.id \in Types
  /\ j.kind = "meet" => j.id \in Meetings /\ j.step # "flushed"
  /\ ~j.want => j.others = {} /\ j.step # "flushed"
  /\ j.kind = "delete" => ~j.was /\ ~j.want
  /\ j.step = "idle" => j = Idle

Types0 == TypeOK /\ job \in [All -> Job] /\ \A r \in All : JobOK(job[r])

(* The hook of m is in the hands of r.                                       *)
InHand(r, m) == job[r].id = m /\ job[r].step \in {"queue", "resolve", "send"}

Hands ==
  /\ \A m \in Meetings : hook[m] = "due" <=> \E r \in All : InHand(r, m)
  /\ \A m \in Meetings : \A r, q \in All : InHand(r, m) /\ InHand(q, m) => r = q

(* A row that is yet to be written is not there, and nobody else writes it.  *)
New ==
  /\ \A m \in Meetings : meetings[m] = Gone => hook[m] = "none"
  /\ \A r \in All : At(r, "meet", "ready") =>
        /\ meetings[job[r].id] = Gone
        /\ \A q \in All \ {r} : job[q].kind = "meet" => job[q].id # job[r].id
  /\ \A r \in All : job[r].kind = "create" =>
        /\ types[job[r].id] = Gone
        /\ \A q \in All \ {r} : job[q].kind = "create" => job[q].id # job[r].id

(* A request that has read nothing has its type.                             *)
LEMMA IdleOK ==
  ASSUME CallTypeAssumption
  PROVE  JobOK(Idle) /\ Idle.step = "idle" /\ Idle.kind = "none" /\ Idle.id = NoType
<1>1. Idle \in Job
  BY DEF CallTypeAssumption, Idle, Job, Off
<1> QED BY <1>1 DEF Idle, JobOK

(* Nor has anything been read before the first request.                      *)
LEMMA InitTypes ==
  ASSUME CallTypeAssumption, Init
  PROVE  Types0 /\ Hands /\ New
<1>1. job = [r \in All |-> Idle]
  BY DEF Init, All
<1>2. TypeOK
  <2>1. types \in [Types -> CallType \cup {Gone}]
    BY DEF Init, CallType, Off, CallTypeAssumption
  <2> QED BY <2>1 DEF Init, TypeOK
<1>3. Types0
  BY <1>1, <1>2, IdleOK DEF Types0, JobOK
<1>4. \A r \in All : job[r].step = "idle" /\ job[r].kind = "none"
  BY <1>1, IdleOK
<1>5. Hands /\ New
  BY <1>4 DEF Init, Hands, New, InHand, At
<1> QED BY <1>3, <1>5

(* One request's job is set to one of its type.                              *)
LEMMA SetJob ==
  ASSUME Types0, NEW r \in All, NEW j, JobOK(j), job' = [job EXCEPT ![r] = j]
  PROVE  job' \in [All -> Job] /\ \A q \in All : JobOK(job'[q])
BY DEF Types0, JobOK

(* The rows of call types and of their meetings keep their types.            *)
LEMMA RowsStep ==
  ASSUME CallTypeAssumption, Types0, New, [Next]_vars
  PROVE  TypeOK'
<1> USE DEF Stored, Go, Answer
<1>0. TypeOK /\ job \in [All -> Job] /\ (\A r \in All : JobOK(job[r])) /\ Gone \notin CallType
  BY DEF Types0, CallTypeAssumption, CallType
<1>1. CASE UNCHANGED <<types, secrets, meetings, hook>>
  BY <1>0, <1>1 DEF TypeOK, Existing
<1>2. ASSUME NEW t \in Types, NEW h \in Hooks, EditHook(t, h) PROVE TypeOK'
  <2>1. types' \in [Types -> CallType \cup {Gone}] /\ Existing' = Existing
    BY <1>0, <1>2 DEF EditHook, TypeOK, Existing, CallType
  <2> QED BY <1>0, <1>2, <2>1 DEF EditHook, TypeOK
<1>3. ASSUME NEW s \in Secrets, DeleteSecret(s) \/ \E n \in Names : WriteSecret(s, n) PROVE TypeOK'
  BY <1>0, <1>3 DEF DeleteSecret, WriteSecret, TypeOK, Existing
<1>4. ASSUME NEW r \in Requests, Create(r) \/ Update(r) PROVE TypeOK'
  <2>1. r \in All /\ job[r].others \in SUBSET Types /\ job[r].want \in BOOLEAN
    BY <1>0 DEF All, Job
  <2>2. /\ types' \in [Types -> CallType \cup {Gone}] /\ \A t \in Existing : types'[t] # Gone
        /\ UNCHANGED <<secrets, meetings, hook>>
    <3>1. ASSUME NEW t \in Existing
          PROVE  /\ types[t] \in CallType /\ types[t] # Gone
                 /\ [types[t] EXCEPT !.is_default = FALSE] \in CallType
                 /\ [types[t] EXCEPT !.is_default = job[r].want] \in CallType
      <4>1. types[t] \in CallType /\ types[t] # Gone
        BY <1>0 DEF TypeOK, Existing
      <4>2. ASSUME NEW c \in CallType, NEW b \in BOOLEAN PROVE [c EXCEPT !.is_default = b] \in CallType
        BY DEF CallType
      <4> QED BY <2>1, <4>1, <4>2
    <3>2. [is_default |-> job[r].want, pre |-> Off] \in CallType
      BY <2>1 DEF CallType, Off, CallTypeAssumption
    <3>3. CASE Create(r)
      <4>1. /\ UNCHANGED <<secrets, meetings, hook>> /\ job[r].others \subseteq Existing
            /\ types' = [t \in Types |-> IF t = job[r].id THEN [is_default |-> job[r].want, pre |-> Off]
                                         ELSE IF t \in job[r].others THEN [types[t] EXCEPT !.is_default = FALSE]
                                         ELSE types[t]]
        BY <3>3 DEF Create, Unset
      <4> QED BY <1>0, <3>1, <3>2, <4>1 DEF TypeOK, Existing
    <3>4. CASE Update(r)
      <4>0. PICK w : w = IF job[r].want = job[r].was THEN {} ELSE {job[r].id}
        OBVIOUS
      <4>1. PICK written \in SUBSET Existing :
              /\ UNCHANGED <<secrets, meetings, hook>> /\ job[r].others \subseteq Existing
              /\ types' = [t \in Types |-> IF t \in written THEN [types[t] EXCEPT !.is_default = job[r].want]
                                           ELSE IF t \in job[r].others THEN [types[t] EXCEPT !.is_default = FALSE]
                                           ELSE types[t]]
        <5>1. w \in SUBSET Existing
          BY <3>4, <4>0 DEF Update
        <5> QED BY <3>4, <4>0, <5>1 DEF Update, Unset
      <4>2. ASSUME NEW t \in Types
            PROVE  types'[t] \in CallType \cup {Gone} /\ (t \in Existing => types'[t] # Gone)
        <5>1. CASE t \in Existing
          BY <1>0, <3>1, <4>1, <5>1
        <5>2. CASE t \notin Existing
          BY <1>0, <4>1, <5>2 DEF TypeOK
        <5> QED BY <5>1, <5>2
      <4>3. types' = [t \in Types |-> types'[t]]
        BY <4>1
      <4>4. types' \in [Types -> CallType \cup {Gone}]
        BY <4>2, <4>3
      <4> QED BY <4>1, <4>2, <4>4 DEF Existing
    <3> QED BY <1>4, <3>3, <3>4
  <2>3. Existing \subseteq Existing'
    BY <2>2 DEF Existing
  <2> QED BY <1>0, <2>2, <2>3 DEF TypeOK
<1>5. ASSUME NEW r \in Requests, Delete(r) PROVE TypeOK'
  <2>1. types' \in [Types -> CallType \cup {Gone}] /\ Existing' = Existing \ {job[r].id}
    BY <1>0, <1>5 DEF Delete, TypeOK, Existing
  <2>2. meetings' \in [Meetings -> Existing' \cup {NoType, Gone}]
    BY <1>0, <1>5, <2>1 DEF Delete, TypeOK
  <2> QED BY <1>0, <1>5, <2>1, <2>2 DEF Delete, TypeOK
<1>6. ASSUME NEW r \in Requests, Meet(r) PROVE TypeOK'
  <2>1. r \in All /\ job[r].id \in Meetings
    BY <1>0, <1>6 DEF All, JobOK, Meet, At
  <2> QED BY <1>0, <1>6, <2>1 DEF Meet, TypeOK, Existing
<1>7. ASSUME NEW r \in All, NEW h \in {"queued", "failed", "sent"}, Outcome(r, h) PROVE TypeOK'
  BY <1>0, <1>7 DEF Outcome, TypeOK, Existing
<1>8. ASSUME NEW w \in Workers, NEW m \in Meetings, TakeHook(w, m) PROVE TypeOK'
  BY <1>0, <1>8 DEF TakeHook, TypeOK, Existing
<1>9. ASSUME NEW r \in Requests,
             \/ \E t \in Types, want \in BOOLEAN : CreateRead(r, t, want) \/ UpdateRead(r, t, want)
             \/ \E t \in Types : DeleteRead(r, t)
             \/ \E m \in Meetings, t \in Types \cup {NoType} : MeetRead(r, m, t)
             \/ UnsetOtherDefaults(r) \/ Raise(r)
      PROVE  TypeOK'
  <2>1. UNCHANGED <<types, secrets, meetings, hook>>
    BY <1>9 DEF CreateRead, UpdateRead, DeleteRead, MeetRead, UnsetOtherDefaults, Raise
  <2> QED BY <1>1, <2>1
<1>10. ASSUME NEW r \in All, Resolve(r) PROVE TypeOK'
  BY <1>1, <1>7, <1>10 DEF Resolve
<1>11. CASE UNCHANGED vars
  BY <1>1, <1>11 DEF vars
<1> QED BY <1>2, <1>3, <1>4, <1>5, <1>6, <1>7, <1>8, <1>9, <1>10, <1>11
        DEF Next, Queue, QueueFails, Send, All

(* What a request reads has its type.                                        *)
LEMMA JobsStep ==
  ASSUME CallTypeAssumption, Types0, New, [Next]_vars
  PROVE  job' \in [All -> Job] /\ \A r \in All : JobOK(job'[r])
<1> USE DEF Stored, Go, Answer
<1>0. TypeOK /\ job \in [All -> Job] /\ (\A r \in All : JobOK(job[r])) /\ JobOK(Idle)
  BY IdleOK DEF Types0
<1> DEFINE Goal == job' \in [All -> Job] /\ \A r \in All : JobOK(job'[r])
<1>1. ASSUME UNCHANGED job PROVE Goal
  BY <1>0, <1>1
<1>2. ASSUME NEW r \in All, NEW j, JobOK(j), job' = [job EXCEPT ![r] = j] PROVE Goal
  BY <1>2, SetJob
<1>3. ASSUME NEW r \in All, job' = [job EXCEPT ![r] = Idle] PROVE Goal
  BY <1>0, <1>3, SetJob
<1> HIDE DEF Goal
<1>4. ASSUME NEW r \in Requests, NEW t \in Types, NEW want \in BOOLEAN,
             CreateRead(r, t, want) \/ UpdateRead(r, t, want)
      PROVE  Goal
  <2>1. CASE CreateRead(r, t, want)
    <3>1. JobOK([Idle EXCEPT !.step = IF want THEN "flushed" ELSE "ready", !.kind = "create",
                             !.id = t, !.want = want])
      BY <1>0 DEF JobOK, Job, Idle
    <3> QED BY <1>2, <2>1, <3>1 DEF CreateRead, All
  <2>2. CASE UpdateRead(r, t, want)
    <3>1. types[t].is_default \in BOOLEAN
      BY <1>0, <2>2 DEF UpdateRead, TypeOK, CallType, Existing
    <3>2. JobOK([Idle EXCEPT !.step = IF want THEN "flushed" ELSE "ready", !.kind = "update",
                             !.id = t, !.was = types[t].is_default, !.want = want])
      BY <1>0, <3>1 DEF JobOK, Job, Idle
    <3> QED BY <1>2, <2>2, <3>2 DEF UpdateRead, All
  <2> QED BY <1>4, <2>1, <2>2
<1>5. ASSUME NEW r \in Requests, NEW t \in Types, DeleteRead(r, t) PROVE Goal
  <2>1. types[t].is_default = FALSE
    BY <1>0, <1>5 DEF DeleteRead, TypeOK, CallType, Existing
  <2>2. JobOK([Idle EXCEPT !.step = "ready", !.kind = "delete", !.id = t, !.was = types[t].is_default])
    BY <1>0, <2>1 DEF JobOK, Job, Idle
  <2> QED BY <1>2, <1>5, <2>2 DEF DeleteRead, All
<1>6. ASSUME NEW r \in Requests, NEW m \in Meetings, NEW t \in Types \cup {NoType}, MeetRead(r, m, t) PROVE Goal
  <2>1. PreOf(t) \in Hooks
    BY <1>0 DEF PreOf, TypeOK, CallType, Off, CallTypeAssumption
  <2>2. JobOK([Idle EXCEPT !.step = "ready", !.kind = "meet", !.id = m, !.type = t, !.pre = PreOf(t)])
    BY <1>0, <2>1 DEF JobOK, Job, Idle
  <2> QED BY <1>2, <1>6, <2>2 DEF MeetRead, All
<1>7. ASSUME NEW r \in Requests, UnsetOtherDefaults(r) PROVE Goal
  <2>1. r \in All /\ JobOK(job[r]) /\ job[r].step = "flushed"
    BY <1>0, <1>7 DEF UnsetOtherDefaults, All
  <2>2. Defaults \ {job[r].id} \in SUBSET Types
    BY DEF Defaults, Existing
  <2>3. job[r].want
    BY <2>1 DEF JobOK
  <2>4. JobOK([job[r] EXCEPT !.step = "ready", !.others = Defaults \ {job[r].id}])
    BY <2>1, <2>2, <2>3 DEF JobOK, Job
  <2> QED BY <1>2, <1>7, <2>1, <2>4 DEF UnsetOtherDefaults
<1>8. ASSUME NEW r \in Requests, Create(r) \/ Update(r) \/ Delete(r) \/ Queue(r) \/ QueueFails(r) \/ Raise(r)
      PROVE  Goal
  BY <1>3, <1>8 DEF Create, Update, Delete, Queue, QueueFails, Raise, Outcome, All
<1>9. ASSUME NEW r \in Requests, Meet(r) PROVE Goal
  <2>1. r \in All /\ JobOK(job[r]) /\ job[r].kind = "meet"
    BY <1>0, <1>9 DEF Meet, At, All
  <2>2. JobOK([job[r] EXCEPT !.step = "resolve"]) /\ JobOK([job[r] EXCEPT !.step = "queue"])
    BY <2>1 DEF JobOK, Job
  <2>3. \/ job' = [job EXCEPT ![r] = Idle]
        \/ job' = [job EXCEPT ![r] = [job[r] EXCEPT !.step = "resolve"]]
        \/ job' = [job EXCEPT ![r] = [job[r] EXCEPT !.step = "queue"]]
    BY <1>0, <1>9 DEF Meet
  <2> QED BY <1>2, <1>3, <2>1, <2>2, <2>3
<1>10. ASSUME NEW w \in Workers, NEW m \in Meetings, TakeHook(w, m) PROVE Goal
  <2>1. PreOf(meetings[m]) \in Hooks
    <3>1. meetings[m] \in Types \cup {NoType}
      BY <1>0, <1>10 DEF TakeHook, TypeOK, Existing, New
    <3> QED BY <1>0, <3>1 DEF PreOf, TypeOK, CallType, Off, CallTypeAssumption
  <2>2. JobOK([Idle EXCEPT !.step = "resolve", !.kind = "meet", !.id = m, !.pre = PreOf(meetings[m])])
    BY <1>0, <2>1 DEF JobOK, Job, Idle
  <2>3. w \in All
    BY DEF All
  <2>4. \/ job' = [job EXCEPT ![w] = Idle]
        \/ job' = [job EXCEPT ![w] = [Idle EXCEPT !.step = "resolve", !.kind = "meet", !.id = m,
                                                  !.pre = PreOf(meetings[m])]]
    BY <1>10 DEF TakeHook
  <2> QED BY <1>2, <1>3, <2>2, <2>3, <2>4
<1>11. ASSUME NEW r \in All, Resolve(r) \/ Send(r) PROVE Goal
  <2>1. JobOK([job[r] EXCEPT !.step = "send"]) \/ job[r].kind # "meet"
    BY <1>0 DEF JobOK, Job
  <2>2. \/ job' = [job EXCEPT ![r] = Idle]
        \/ job' = [job EXCEPT ![r] = [job[r] EXCEPT !.step = "send"]]
    BY <1>11 DEF Resolve, Send, Outcome
  <2> QED BY <1>2, <1>3, <1>11, <2>1, <2>2 DEF Resolve, Send, At
<1>12. ASSUME \/ UNCHANGED vars
              \/ \E t \in Types, h \in Hooks : EditHook(t, h)
              \/ \E s \in Secrets : DeleteSecret(s) \/ \E n \in Names : WriteSecret(s, n)
       PROVE  Goal
  <2>1. CASE \E s \in Secrets : DeleteSecret(s) \/ \E n \in Names : WriteSecret(s, n)
    BY <1>1, <2>1 DEF DeleteSecret, WriteSecret
  <2>2. CASE \E t \in Types, h \in Hooks : EditHook(t, h)
    BY <1>1, <2>2 DEF EditHook
  <2>3. CASE UNCHANGED vars
    BY <1>1, <2>3 DEF vars
  <2> QED BY <1>12, <2>1, <2>2, <2>3
<1>13. Goal
  BY <1>4, <1>5, <1>6, <1>7, <1>8, <1>9, <1>10, <1>11, <1>12 DEF Next, All
<1> QED BY <1>13 DEF Goal

(* The rows a request means to write stay its own.                           *)
LEMMA NewStep ==
  ASSUME CallTypeAssumption, Types0, Hands, New, [Next]_vars
  PROVE  New'
<1> USE DEF Stored, Go, Answer
<1>0. /\ TypeOK /\ job \in [All -> Job] /\ (\A r \in All : JobOK(job[r]))
      /\ Idle.step = "idle" /\ Idle.kind = "none" /\ Requests \subseteq All /\ Workers \subseteq All
  BY IdleOK DEF Types0, All
(* A step that begins or writes nothing new. *)
<1>1. ASSUME \A m \in Meetings : meetings'[m] = Gone => meetings[m] = Gone /\ hook'[m] = hook[m],
             \A r \in All : At(r, "meet", "ready")' =>
                At(r, "meet", "ready") /\ job'[r].id = job[r].id /\ meetings'[job[r].id] = Gone,
             \A r \in All : job'[r].kind = "create" => job[r].kind = "create" /\ types'[job[r].id] = Gone,
             \A r \in All : job'[r].kind \in {"create", "meet"} =>
                \/ job[r].kind = job'[r].kind /\ job'[r].id = job[r].id
                \/ job'[r].kind = "meet" /\ meetings[job'[r].id] # Gone
      PROVE  New'
  <2>1. ASSUME NEW r \in All, At(r, "meet", "ready")', NEW q \in All \ {r}, job'[q].kind = "meet"
        PROVE  job'[q].id # job'[r].id
    <3>1. /\ At(r, "meet", "ready") /\ meetings[job[r].id] = Gone /\ job'[r].id = job[r].id
      BY <1>1, <2>1 DEF New, At
    <3> QED BY <1>1, <2>1, <3>1 DEF New
  <2>2. ASSUME NEW r \in All, job'[r].kind = "create", NEW q \in All \ {r}, job'[q].kind = "create"
        PROVE  job'[q].id # job'[r].id
    BY <1>1, <2>2 DEF New
  <2>3. ASSUME NEW r \in All, At(r, "meet", "ready")' PROVE meetings'[job'[r].id] = Gone
    BY <1>1, <2>3 DEF New, At
  <2>4. ASSUME NEW r \in All, job'[r].kind = "create" PROVE types'[job'[r].id] = Gone
    BY <1>1, <2>4 DEF New
  <2>5. \A m \in Meetings : meetings'[m] = Gone => hook'[m] = "none"
    BY <1>1 DEF New
  <2> QED BY <2>1, <2>2, <2>3, <2>4, <2>5 DEF New
<1>2. ASSUME NEW r \in Requests, NEW t \in Types, NEW want \in BOOLEAN, CreateRead(r, t, want) PROVE New'
  <2>1. /\ UNCHANGED <<types, meetings, hook>> /\ types[t] = Gone /\ (\A q \in All : job[q].id # t)
        /\ \A q \in All \ {r} : job'[q] = job[q]
        /\ job'[r].kind = "create" /\ job'[r].id = t
    BY <1>0, <1>2 DEF CreateRead, Fresh, All, Idle
  <2> QED BY <1>0, <2>1 DEF New, At
<1>3. ASSUME NEW r \in Requests, NEW m \in Meetings, NEW t \in Types \cup {NoType}, MeetRead(r, m, t) PROVE New'
  <2>1. /\ UNCHANGED <<types, meetings, hook>> /\ meetings[m] = Gone /\ (\A q \in All : job[q].id # m)
        /\ \A q \in All \ {r} : job'[q] = job[q]
        /\ job'[r].kind = "meet" /\ job'[r].id = m
    BY <1>0, <1>3 DEF MeetRead, Fresh, All, Idle
  <2> QED BY <1>0, <2>1 DEF New, At
<1>4. ASSUME NEW r \in Requests,
             \/ \E t \in Types, want \in BOOLEAN : UpdateRead(r, t, want)
             \/ \E t \in Types : DeleteRead(r, t)
             \/ UnsetOtherDefaults(r) \/ Raise(r)
      PROVE  New'
  <2>1. /\ UNCHANGED <<types, meetings, hook>> /\ \A q \in All \ {r} : job'[q] = job[q]
        /\ \/ job'[r].kind \notin {"create", "meet"}
           \/ /\ job'[r].kind = job[r].kind /\ job'[r].id = job[r].id /\ job[r].step = "flushed"
    <3>1. CASE UnsetOtherDefaults(r)
      <4>1. job[r] \in Job
        BY <1>0
      <4> QED BY <1>0, <3>1, <4>1 DEF UnsetOtherDefaults, Job
    <3>2. ASSUME NEW t \in Types, (\E want \in BOOLEAN : UpdateRead(r, t, want)) \/ DeleteRead(r, t)
          PROVE  /\ UNCHANGED <<types, meetings, hook>> /\ \A q \in All \ {r} : job'[q] = job[q]
                 /\ job'[r].kind \in {"update", "delete"}
      <4>1. CASE DeleteRead(r, t)
        BY <1>0, <4>1 DEF DeleteRead, Idle
      <4>2. ASSUME NEW want \in BOOLEAN, UpdateRead(r, t, want)
            PROVE  /\ UNCHANGED <<types, meetings, hook>> /\ \A q \in All \ {r} : job'[q] = job[q]
                   /\ job'[r].kind = "update"
        BY <1>0, <4>2 DEF UpdateRead, Idle
      <4> QED BY <3>2, <4>1, <4>2
    <3>3. CASE Raise(r)
      BY <1>0, <3>3 DEF Raise
    <3> QED BY <1>4, <3>1, <3>2, <3>3
  <2>2. job[r].step = "flushed" => job[r].kind # "meet"
    BY <1>0 DEF JobOK
  <2> QED BY <1>0, <1>1, <2>1, <2>2 DEF New, At
<1>5. ASSUME NEW r \in Requests, Create(r) \/ Update(r) PROVE New'
  <2>1. /\ UNCHANGED <<meetings, hook>> /\ (\A q \in All \ {r} : job'[q] = job[q])
        /\ job'[r].kind = "none" /\ job'[r].step = "idle"
    BY <1>0, <1>5 DEF Create, Update
  <2>2. \A t \in Types : types[t] = Gone /\ types'[t] # Gone => job[r].kind = "create" /\ t = job[r].id
    BY <1>0, <1>5 DEF Create, Update, Unset, Existing, At
  <2>3. ASSUME NEW q \in All, job'[q].kind = "create" PROVE job[q].kind = "create" /\ types'[job[q].id] = Gone
    <3>1. q # r /\ job[q].kind = "create" /\ job[q].id \in Types /\ types[job[q].id] = Gone
      BY <1>0, <2>1, <2>3 DEF New, JobOK
    <3>2. job[r].kind = "create" => job[q].id # job[r].id
      BY <1>0, <3>1 DEF New
    <3> QED BY <2>2, <3>1, <3>2
  <2> QED BY <1>0, <1>1, <2>1, <2>3 DEF New, At
<1>6. ASSUME NEW r \in Requests, Delete(r) PROVE New'
  <2>1. /\ UNCHANGED hook /\ (\A q \in All \ {r} : job'[q] = job[q])
        /\ job'[r].kind = "none" /\ job'[r].step = "idle"
        /\ \A t \in Types : types[t] = Gone => types'[t] = Gone
        /\ \A m \in Meetings : meetings'[m] = Gone <=> meetings[m] = Gone
    <3>1. job[r].id \in Types
      BY <1>0, <1>6 DEF Delete, At, JobOK
    <3> QED BY <1>0, <1>6, <3>1 DEF Delete, CallTypeAssumption, TypeOK
  <2> QED BY <1>0, <1>1, <2>1 DEF New, At, JobOK
<1>7. ASSUME NEW r \in Requests, Meet(r) PROVE New'
  <2>1. /\ UNCHANGED types /\ (\A q \in All \ {r} : job'[q] = job[q]) /\ At(r, "meet", "ready")
        /\ job[r].id \in Meetings
        /\ job'[r].step # "ready" /\ job'[r].kind # "create"
        /\ job'[r].kind = "meet" => job'[r].id = job[r].id
        /\ meetings'[job[r].id] # Gone
        /\ \A m \in Meetings \ {job[r].id} : meetings'[m] = meetings[m] /\ hook'[m] = hook[m]
    <3>1. r \in All /\ job[r] \in Job /\ At(r, "meet", "ready") /\ job[r].id \in Meetings
      BY <1>0, <1>7 DEF Meet, At, JobOK
    <3>2. job[r].type \in Existing \cup {NoType} /\ job[r].type # Gone
      BY <1>7 DEF Meet, Existing, CallTypeAssumption
    <3>3. /\ UNCHANGED types
          /\ meetings' = [meetings EXCEPT ![job[r].id] = job[r].type]
          /\ \A m \in Meetings \ {job[r].id} : hook'[m] = hook[m]
      BY <1>0, <1>7 DEF Meet, TypeOK
    <3>4. \/ job' = [job EXCEPT ![r] = Idle]
          \/ job' = [job EXCEPT ![r].step = "resolve"]
          \/ job' = [job EXCEPT ![r].step = "queue"]
      BY <1>7 DEF Meet
    <3>5. /\ \A q \in All \ {r} : job'[q] = job[q]
          /\ job'[r].step # "ready" /\ job'[r].kind # "create"
          /\ job'[r].kind = "meet" => job'[r].id = job[r].id
      BY <1>0, <3>1, <3>4 DEF Job, At
    <3> QED BY <1>0, <3>1, <3>2, <3>3, <3>5 DEF TypeOK
  <2>2. ASSUME NEW q \in All, At(q, "meet", "ready")' PROVE At(q, "meet", "ready") /\ meetings'[job[q].id] = Gone
    <3>1. q # r /\ At(q, "meet", "ready")
      BY <2>1, <2>2 DEF At
    <3>2. job[q].id \in Meetings /\ meetings[job[q].id] = Gone /\ job[q].id # job[r].id
      BY <1>0, <2>1, <3>1 DEF New, At, JobOK
    <3> QED BY <2>1, <3>1, <3>2
  <2>3. job[r].kind = "meet"
    BY <2>1 DEF At
  <2> QED BY <1>0, <1>1, <2>1, <2>2, <2>3 DEF New
<1>8. ASSUME NEW r \in All, NEW h \in {"queued", "failed", "sent"}, Outcome(r, h),
             job[r].kind = "meet", job[r].step \in {"queue", "resolve", "send"}
      PROVE  New'
  <2>1. /\ UNCHANGED <<types, meetings>> /\ (\A q \in All \ {r} : job'[q] = job[q])
        /\ job'[r].kind = "none" /\ job'[r].step = "idle"
        /\ \A m \in Meetings \ {job[r].id} : hook'[m] = hook[m]
    BY <1>0, <1>8 DEF Outcome, TypeOK
  <2>2. job[r].id \in Meetings /\ hook[job[r].id] = "due"
    BY <1>0, <1>8 DEF Hands, InHand, JobOK
  <2>3. meetings[job[r].id] # Gone
    BY <2>2 DEF New
  <2> QED BY <1>0, <1>1, <2>1, <2>2, <2>3 DEF New, At
<1>9. ASSUME NEW w \in Workers, NEW m \in Meetings, TakeHook(w, m) PROVE New'
  <2>1. /\ UNCHANGED <<types, meetings>> /\ (\A q \in All \ {w} : job'[q] = job[q])
        /\ job'[w].kind # "create" /\ job'[w].step # "ready"
        /\ job'[w].kind = "meet" => job'[w].id = m
        /\ \A x \in Meetings \ {m} : hook'[x] = hook[x]
        /\ hook[m] = "queued"
    BY <1>0, <1>9 DEF TakeHook, TypeOK, Idle
  <2>2. meetings[m] # Gone
    BY <2>1 DEF New
  <2> QED BY <1>0, <1>1, <2>1, <2>2 DEF New, At
<1>10. ASSUME NEW r \in All, Resolve(r) PROVE New'
  <2>1. CASE Outcome(r, "failed")
    BY <1>8, <1>10, <2>1 DEF Resolve, At
  <2>2. CASE Go(r, [job[r] EXCEPT !.step = "send"])
    <3>1. /\ UNCHANGED <<types, meetings, hook>> /\ \A q \in All \ {r} : job'[q] = job[q]
          /\ job'[r].kind = job[r].kind /\ job'[r].id = job[r].id /\ job[r].kind = "meet" /\ job'[r].step = "send"
      BY <1>0, <1>10, <2>2 DEF Resolve, At, Job
    <3> QED BY <1>0, <1>1, <3>1 DEF New, At
  <2> QED BY <1>10, <2>1, <2>2 DEF Resolve
<1>11. ASSUME NEW r \in All, Queue(r) \/ QueueFails(r) \/ Send(r) PROVE New'
  BY <1>8, <1>11 DEF Queue, QueueFails, Send, At
<1>12. ASSUME NEW t \in Types, NEW h \in Hooks, EditHook(t, h) PROVE New'
  <2>1. UNCHANGED <<meetings, hook, job>> /\ \A x \in Types : types[x] = Gone => types'[x] = Gone
    BY <1>0, <1>12 DEF EditHook, Existing, TypeOK
  <2> QED BY <1>0, <1>1, <2>1 DEF New, At, JobOK
<1>13. CASE UNCHANGED <<types, meetings, hook, job>>
  BY <1>13 DEF New, At
<1>14. CASE \/ UNCHANGED vars
            \/ \E s \in Secrets : DeleteSecret(s) \/ \E n \in Names : WriteSecret(s, n)
  <2>1. UNCHANGED <<types, meetings, hook, job>>
    BY <1>14 DEF vars, DeleteSecret, WriteSecret
  <2> QED BY <1>13, <2>1
<1> QED BY <1>2, <1>3, <1>4, <1>5, <1>6, <1>7, <1>9, <1>10, <1>11, <1>12, <1>14 DEF Next, All

(* A hook that is due is handed on, never dropped and never doubled.         *)
LEMMA HandsStep ==
  ASSUME CallTypeAssumption, Types0, Hands, New, [Next]_vars
  PROVE  Hands'
<1> USE DEF Stored, Go, Answer
<1>0. /\ TypeOK /\ job \in [All -> Job] /\ (\A r \in All : JobOK(job[r]))
      /\ Idle.step = "idle" /\ Idle.kind = "none" /\ Requests \subseteq All /\ Workers \subseteq All
  BY IdleOK DEF Types0, All
(* Nobody takes or leaves a hook. *)
<1>1. ASSUME UNCHANGED hook,
             \A r \in All, m \in Meetings : InHand(r, m)' <=> InHand(r, m)
      PROVE  Hands'
  BY <1>1 DEF Hands
(* One takes the hook of m that nobody has. *)
<1>2. ASSUME NEW r \in All, NEW m \in Meetings, ~\E q \in All : InHand(q, m),
             hook' = [hook EXCEPT ![m] = "due"], InHand(r, m)',
             \A x \in Meetings : x # m => ~InHand(r, x) /\ ~InHand(r, x)',
             \A q \in All \ {r} : job'[q] = job[q]
      PROVE  Hands'
  <2>1. \A q \in All \ {r} : \A x \in Meetings : InHand(q, x)' <=> InHand(q, x)
    BY <1>2 DEF InHand
  <2>2. /\ hook'[m] = "due" /\ \A x \in Meetings : x # m => hook'[x] = hook[x]
    BY <1>0, <1>2 DEF TypeOK
  <2> HIDE DEF InHand
  <2>3. \A x \in Meetings : (hook[x] = "due")' <=> \E q \in All : InHand(q, x)'
    BY <1>2, <2>1, <2>2 DEF Hands
  <2>4. \A x \in Meetings : \A p, q \in All : InHand(p, x)' /\ InHand(q, x)' => p = q
    BY <1>2, <2>1, <2>2 DEF Hands
  <2> QED BY <2>3, <2>4 DEF Hands
(* One that has it is done with it. *)
<1>3. ASSUME NEW r \in All, NEW m \in Meetings, InHand(r, m), NEW h \in {"queued", "failed", "sent"},
             hook' = [hook EXCEPT ![m] = h], job' = [job EXCEPT ![r] = Idle]
      PROVE  Hands'
  <2>1. \A q \in All \ {r} : \A x \in Meetings : InHand(q, x)' <=> InHand(q, x)
    BY <1>0, <1>3 DEF InHand
  <2>2. \A x \in Meetings : ~InHand(r, x)'
    BY <1>0, <1>3 DEF InHand
  <2>3. \A x \in Meetings : x # m => ~InHand(r, x) /\ hook'[x] = hook[x]
    BY <1>0, <1>3 DEF InHand, TypeOK
  <2>4. hook'[m] # "due"
    BY <1>0, <1>3 DEF TypeOK
  <2> HIDE DEF InHand
  <2>5. \A x \in Meetings : (hook[x] = "due")' <=> \E q \in All : InHand(q, x)'
    <3> SUFFICES ASSUME NEW x \in Meetings PROVE (hook[x] = "due")' <=> \E q \in All : InHand(q, x)'
      OBVIOUS
    <3>1. CASE x = m
      BY <1>3, <2>1, <2>2, <2>4, <3>1 DEF Hands
    <3>2. CASE x # m
      BY <2>1, <2>2, <2>3, <3>2 DEF Hands
    <3> QED BY <3>1, <3>2
  <2>6. \A x \in Meetings : \A p, q \in All : InHand(p, x)' /\ InHand(q, x)' => p = q
    BY <2>1, <2>2 DEF Hands
  <2> QED BY <2>5, <2>6 DEF Hands
(* One that has none starts or ends something else. *)
<1>4. ASSUME NEW r \in All, job[r].step \in {"idle", "flushed", "ready"}, UNCHANGED hook,
             job'[r].step \in {"idle", "flushed", "ready"}, \A q \in All \ {r} : job'[q] = job[q]
      PROVE  Hands'
  <2>1. ASSUME NEW q \in All, NEW m \in Meetings PROVE InHand(q, m)' <=> InHand(q, m)
    <3>1. CASE q = r
      BY <1>4, <3>1 DEF InHand
    <3>2. CASE q # r
      BY <1>4, <3>2 DEF InHand
    <3> QED BY <3>1, <3>2
  <2> QED BY <1>1, <1>4, <2>1
<1>5. ASSUME NEW r \in Requests, NEW t \in Types \cup {NoType}, NEW x \in Types \cup Meetings, NEW want \in BOOLEAN,
             CreateRead(r, x, want) \/ UpdateRead(r, x, want) \/ DeleteRead(r, x) \/ MeetRead(r, x, t)
      PROVE  Hands'
  <2>1. PICK j : j.step \in {"flushed", "ready"} /\ job' = [job EXCEPT ![r] = j] /\ job[r].step = "idle" /\ UNCHANGED hook
    <3>1. CASE CreateRead(r, x, want)
      BY <3>1 DEF CreateRead, Idle
    <3>2. CASE UpdateRead(r, x, want)
      BY <3>2 DEF UpdateRead, Idle
    <3>3. CASE DeleteRead(r, x)
      BY <3>3 DEF DeleteRead, Idle
    <3>4. CASE MeetRead(r, x, t)
      BY <3>4 DEF MeetRead, Idle
    <3> QED BY <1>5, <3>1, <3>2, <3>3, <3>4
  <2> QED BY <1>0, <1>4, <2>1
<1>6. ASSUME NEW r \in Requests, UnsetOtherDefaults(r) PROVE Hands'
  <2>1. job[r] \in Job
    BY <1>0
  <2> QED BY <1>0, <1>4, <1>6, <2>1 DEF UnsetOtherDefaults, Job
<1>7. ASSUME NEW r \in Requests, Create(r) \/ Update(r) \/ Delete(r) \/ Raise(r) PROVE Hands'
  BY <1>0, <1>4, <1>7 DEF Create, Update, Delete, Raise, At
<1>8. ASSUME NEW r \in Requests, Meet(r) PROVE Hands'
  <2>1. /\ r \in All /\ job[r] \in Job /\ At(r, "meet", "ready") /\ job[r].id \in Meetings
        /\ meetings[job[r].id] = Gone
    BY <1>0, <1>8 DEF Meet, At, JobOK, New
  <2>2. hook[job[r].id] = "none" /\ ~\E q \in All : InHand(q, job[r].id)
    BY <2>1 DEF New, Hands
  <2>3. CASE job[r].pre.mode = "off"
    <3>1. hook' = hook
      BY <1>0, <1>8, <2>1, <2>2, <2>3 DEF Meet, TypeOK
    <3> QED BY <1>0, <1>4, <1>8, <2>1, <2>3, <3>1 DEF Meet, At
  <2>4. CASE job[r].pre.mode # "off"
    <3>1. /\ hook' = [hook EXCEPT ![job[r].id] = "due"]
          /\ \A q \in All \ {r} : job'[q] = job[q]
          /\ job'[r].id = job[r].id /\ job'[r].step \in {"queue", "resolve"}
      BY <1>0, <1>8, <2>1, <2>4 DEF Meet, Job
    <3>2. InHand(r, job[r].id)' /\ \A x \in Meetings : x # job[r].id => ~InHand(r, x) /\ ~InHand(r, x)'
      BY <2>1, <3>1 DEF InHand, At
    <3>3. PICK m \in Meetings : m = job[r].id
      BY <2>1
    <3> QED BY <1>2, <2>1, <2>2, <3>1, <3>2, <3>3
  <2> QED BY <2>3, <2>4
<1>9. ASSUME NEW w \in Workers, NEW m \in Meetings, TakeHook(w, m) PROVE Hands'
  <2>1. job[w].step = "idle" /\ hook[m] = "queued" /\ ~\E q \in All : InHand(q, m)
    BY <1>9 DEF TakeHook, Hands
  <2>2. CASE PreOf(meetings[m]).mode = "off"
    <3>1. job' = [job EXCEPT ![w] = Idle] /\ hook' = [hook EXCEPT ![m] = "skipped"]
      BY <1>9, <2>2 DEF TakeHook
    <3>2. \A q \in All, x \in Meetings : InHand(q, x)' <=> InHand(q, x)
      BY <1>0, <2>1, <3>1 DEF InHand
    <3>3. \A x \in Meetings : hook'[x] = "due" <=> hook[x] = "due"
      BY <1>0, <2>1, <3>1 DEF TypeOK
    <3> QED BY <3>2, <3>3 DEF Hands
  <2>3. CASE PreOf(meetings[m]).mode # "off"
    <3>1. /\ hook' = [hook EXCEPT ![m] = "due"]
          /\ \A q \in All \ {w} : job'[q] = job[q]
          /\ job'[w].id = m /\ job'[w].step = "resolve"
      BY <1>0, <1>9, <2>3 DEF TakeHook, Idle
    <3>2. InHand(w, m)' /\ \A x \in Meetings : x # m => ~InHand(w, x) /\ ~InHand(w, x)'
      BY <2>1, <3>1 DEF InHand
    <3> QED BY <1>0, <1>2, <2>1, <3>1, <3>2
  <2> QED BY <2>2, <2>3
<1>10. ASSUME NEW r \in All, NEW h \in {"queued", "failed", "sent"}, Outcome(r, h),
              job[r].kind = "meet", job[r].step \in {"queue", "resolve", "send"}
       PROVE  Hands'
  <2>1. job[r].id \in Meetings /\ InHand(r, job[r].id)
    BY <1>0, <1>10 DEF JobOK, InHand
  <2> QED BY <1>3, <1>10, <2>1 DEF Outcome
<1>11. ASSUME NEW r \in All, Resolve(r) PROVE Hands'
  <2>1. CASE Outcome(r, "failed")
    BY <1>10, <1>11, <2>1 DEF Resolve, At
  <2>2. CASE Go(r, [job[r] EXCEPT !.step = "send"])
    <3>1. /\ UNCHANGED hook /\ \A q \in All \ {r} : job'[q] = job[q]
          /\ job'[r].id = job[r].id /\ job'[r].step = "send" /\ job[r].step = "resolve"
      BY <1>0, <1>11, <2>2 DEF Resolve, At, Job
    <3>2. \A q \in All, m \in Meetings : InHand(q, m)' <=> InHand(q, m)
      BY <3>1 DEF InHand
    <3> QED BY <1>1, <3>1, <3>2
  <2> QED BY <1>11, <2>1, <2>2 DEF Resolve
<1>12. ASSUME NEW r \in All, Queue(r) \/ QueueFails(r) \/ Send(r) PROVE Hands'
  BY <1>10, <1>12 DEF Queue, QueueFails, Send, At
<1>13. CASE \/ UNCHANGED vars
            \/ \E s \in Secrets : DeleteSecret(s) \/ \E n \in Names : WriteSecret(s, n)
            \/ \E t \in Types, h \in Hooks : EditHook(t, h)
  <2>1. UNCHANGED <<hook, job>>
    BY <1>13 DEF vars, DeleteSecret, WriteSecret, EditHook
  <2> QED BY <1>1, <2>1 DEF InHand
<1> QED BY <1>5, <1>6, <1>7, <1>8, <1>9, <1>11, <1>12, <1>13 DEF Next, All

(* The inductive invariant.  No more types become the default at once than are counted. *)
IInv == Types0 /\ Hands /\ New /\ IsFiniteSet(Defaults)

(* What is committed to call_types makes one type the default at most, the request's   *)
(* own; and all else leaves the defaults alone.                                         *)
LEMMA DefaultsStep ==
  ASSUME CallTypeAssumption, Types0, [Next]_vars
  PROVE  \/ Defaults' = Defaults
         \/ \E r \in Requests : /\ Create(r) \/ Update(r) \/ Delete(r)
                                /\ Defaults' \subseteq Defaults \cup {job[r].id}
<1> USE DEF Stored, Go, Answer, Outcome
<1>0. types \in [Types -> CallType \cup {Gone}] /\ Gone \notin CallType
  BY DEF Types0, TypeOK, CallTypeAssumption, CallType
<1>1. CASE UNCHANGED types
  BY <1>1 DEF Defaults, Existing
<1>2. ASSUME NEW t \in Types, NEW h \in Hooks, EditHook(t, h) PROVE Defaults' = Defaults
  <2>1. types[t] \in CallType /\ types' = [types EXCEPT ![t].pre = h]
    BY <1>0, <1>2 DEF EditHook, Existing
  <2>2. ASSUME NEW x \in Types
        PROVE  /\ types'[x] = Gone <=> types[x] = Gone
               /\ types[x] # Gone => types'[x].is_default = types[x].is_default
    BY <1>0, <2>1, <2>2 DEF CallType
  <2> QED BY <2>2 DEF Defaults, Existing
<1>3. ASSUME NEW r \in Requests, Create(r) \/ Update(r) \/ Delete(r)
      PROVE  Defaults' \subseteq Defaults \cup {job[r].id}
  <2>1. ASSUME NEW x \in Types, types'[x] # Gone, types'[x].is_default, x # job[r].id
        PROVE  types[x] # Gone /\ types[x].is_default
    <3>1. CASE Create(r)
      <4>1. types'[x] = Unset(job[r].others, x) /\ job[r].others \subseteq Existing
        BY <2>1, <3>1 DEF Create
      <4> QED BY <1>0, <2>1, <4>1 DEF Unset, Existing, CallType
    <3>2. CASE Update(r)
      <4>1. types'[x] = Unset(job[r].others, x) /\ job[r].others \subseteq Existing
        BY <2>1, <3>2 DEF Update
      <4> QED BY <1>0, <2>1, <4>1 DEF Unset, Existing, CallType
    <3>3. CASE Delete(r)
      BY <1>0, <2>1, <3>3 DEF Delete
    <3> QED BY <1>3, <3>1, <3>2, <3>3
  <2> QED BY <2>1 DEF Defaults, Existing
<1>4. UNCHANGED types \/ (\E t \in Types, h \in Hooks : EditHook(t, h))
      \/ \E r \in Requests : Create(r) \/ Update(r) \/ Delete(r)
  BY DEF Next, vars, CreateRead, UpdateRead, DeleteRead, MeetRead, UnsetOtherDefaults, Meet, Queue,
         QueueFails, Raise, TakeHook, Resolve, Send, DeleteSecret, WriteSecret
<1> QED BY <1>1, <1>2, <1>3, <1>4

(* The invariant holds in every state.                                                  *)
LEMMA Invariant == Spec => []IInv
<1> USE CallTypeAssumption
<1>1. Init => IInv
  <2> SUFFICES ASSUME Init PROVE IsFiniteSet(Defaults)
    BY InitTypes DEF IInv
  <2>1. PICK d \in Types :
          types = [t \in Types |-> IF t = d THEN [is_default |-> TRUE, pre |-> Off] ELSE Gone]
    BY DEF Init
  <2>2. Defaults \subseteq {d}
    BY <2>1 DEF Defaults, Existing
  <2> QED BY <2>2, FS_Singleton, FS_Subset
<1>2. IInv /\ [Next]_vars => IInv'
  <2> SUFFICES ASSUME IInv, [Next]_vars PROVE IInv'
    OBVIOUS
  <2>1. Types0' /\ Hands' /\ New'
    BY RowsStep, JobsStep, NewStep, HandsStep DEF IInv, Types0
  <2>2. IsFiniteSet(Defaults')
    <3>1. CASE Defaults' = Defaults
      BY <3>1 DEF IInv
    <3>2. ASSUME NEW r \in Requests, Defaults' \subseteq Defaults \cup {job[r].id}
          PROVE  IsFiniteSet(Defaults')
      <4>1. IsFiniteSet(Defaults \cup {job[r].id})
        BY FS_AddElement DEF IInv
      <4> QED BY <3>2, <4>1, FS_Subset
    <3> QED BY <3>1, <3>2, DefaultsStep DEF IInv
  <2> QED BY <2>1, <2>2 DEF IInv
<1> QED BY <1>1, <1>2, PTL DEF Spec

(* The rows, the meetings and the hooks have their types for any number of them: above   *)
(* all, the call type of a meeting is there or has left it without one.                  *)
THEOREM TypeCorrect == Spec => []TypeOK
<1>1. IInv => TypeOK
  BY DEF IInv, Types0
<1> QED BY <1>1, Invariant, PTL

(* A pre-call that is due is in the hands of exactly one request or task, of any number,  *)
(* whatever happens to its type, its secrets and the queue.                              *)
THEOREM HookHeld == Spec => []HookInHand
<1>1. IInv => HookInHand
  <2> SUFFICES ASSUME IInv, NEW m \in Meetings
               PROVE  Cardinality({r \in All : InHand(r, m)}) = IF hook[m] = "due" THEN 1 ELSE 0
    BY DEF HookInHand, All, InHand
  <2>1. CASE hook[m] = "due"
    <3>1. PICK r \in All : InHand(r, m)
      BY <2>1 DEF IInv, Hands
    <3>2. {q \in All : InHand(q, m)} = {r}
      BY <3>1 DEF IInv, Hands
    <3> QED BY <2>1, <3>2, FS_Singleton
  <2>2. CASE hook[m] # "due"
    <3>1. {q \in All : InHand(q, m)} = {}
      BY <2>2 DEF IInv, Hands
    <3> QED BY <2>2, <3>1, FS_EmptySet
  <2> QED BY <2>1, <2>2
<1> QED BY <1>1, Invariant, PTL

(* A request that knows the flags as they are leaves exactly one default, the old one or  *)
(* its own.                                                                              *)
LEMMA OneRemains ==
  ASSUME CallTypeAssumption, IInv, NEW d \in Types, Defaults = {d}, NEW r \in Requests,
         Create(r) \/ Update(r) \/ Delete(r), ~Clears(r), ~Stale(r)
  PROVE  \E e : Defaults' = {e}
<1> DEFINE i == job[r].id
<1>0. /\ types \in [Types -> CallType \cup {Gone}] /\ Gone \notin CallType
      /\ JobOK(job[r]) /\ r \in All
  BY DEF IInv, Types0, TypeOK, CallTypeAssumption, CallType, All
<1>1. i \in Types
  BY <1>0 DEF JobOK, Create, Update, Delete, At
<1>2. job[r].want => job[r].others = Defaults \ {i}
  BY DEF Stale
<1>3. ~job[r].want => job[r].others = {}
  BY <1>0 DEF JobOK
(* What becomes of the rows that are not the request's own. *)
<1>4. ASSUME Create(r) \/ Update(r), NEW x \in Types, x # i
      PROVE  /\ types'[x] = Gone <=> types[x] = Gone
             /\ types[x] # Gone => (types'[x].is_default <=> types[x].is_default /\ ~job[r].want)
  <2>1. types'[x] = Unset(job[r].others, x)
    BY <1>4 DEF Create, Update
  <2>2. x \in job[r].others <=> job[r].want /\ x \in Defaults
    BY <1>2, <1>3, <1>4
  <2>3. CASE x \in job[r].others
    <3>1. types[x] \in CallType /\ types'[x] = [types[x] EXCEPT !.is_default = FALSE]
      BY <1>0, <2>1, <2>2, <2>3 DEF Unset, Defaults, Existing
    <3>2. types'[x] \in CallType /\ ~types'[x].is_default
      BY <3>1 DEF CallType
    <3> QED BY <1>0, <2>2, <2>3, <3>1, <3>2
  <2>4. CASE x \notin job[r].others
    BY <1>0, <2>1, <2>2, <2>4 DEF Unset, Defaults, Existing
  <2> QED BY <2>3, <2>4
<1>5. CASE Create(r)
  <2>1. types[i] = Gone
    BY <1>0, <1>5 DEF IInv, New, Create, At
  <2>2. types'[i] = [is_default |-> job[r].want, pre |-> Off]
    BY <1>1, <1>5 DEF Create
  <2>3. CASE job[r].want
    <3>1. types'[i] \in CallType /\ types'[i].is_default
      BY <1>0, <2>2, <2>3 DEF JobOK, Job, CallType, Off, CallTypeAssumption
    <3>2. types'[i] # Gone
      BY <1>0, <3>1
    <3>3. Defaults' = {i}
      BY <1>1, <1>4, <1>5, <2>3, <3>1, <3>2 DEF Defaults, Existing
    <3> QED BY <3>3
  <2>4. CASE ~job[r].want
    <3>1. Defaults' = Defaults
      BY <1>1, <1>4, <1>5, <2>1, <2>2, <2>4 DEF Defaults, Existing
    <3> QED BY <3>1
  <2> QED BY <2>3, <2>4
<1>6. CASE Update(r)
  <2>1. types[i] # Gone /\ types[i].is_default = job[r].was
    BY <1>1, <1>6 DEF Stale, Update, At, Existing
  <2>2. CASE job[r].want
    <3>1. types'[i] # Gone /\ types'[i].is_default
      <4>1. CASE job[r].was
        <5>1. types'[i] = types[i]
          BY <1>1, <1>2, <1>6, <2>2, <4>1 DEF Update, Unset
        <5> QED BY <2>1, <4>1, <5>1
      <4>2. CASE ~job[r].was
        <5>1. types'[i] = [types[i] EXCEPT !.is_default = job[r].want]
          BY <1>1, <1>6, <2>2, <4>2 DEF Update
        <5>2. types[i] \in CallType
          BY <1>0, <1>1, <2>1
        <5>3. types'[i].is_default = job[r].want /\ types'[i] \in CallType
          BY <5>1, <5>2, <2>2 DEF CallType
        <5> QED BY <1>0, <2>2, <5>3
      <4> QED BY <4>1, <4>2
    <3>2. Defaults' = {i}
      BY <1>1, <1>4, <1>6, <2>2, <3>1 DEF Defaults, Existing
    <3> QED BY <3>2
  <2>3. CASE ~job[r].want
    <3>1. types'[i] = types[i]
      <4>1. job[r].want \in BOOLEAN /\ job[r].was \in BOOLEAN /\ ~job[r].was
        BY <1>0, <1>6, <2>3 DEF Clears, Update, At, JobOK, Job
      <4>2. job[r].want = job[r].was
        BY <2>3, <4>1
      <4> QED BY <1>1, <1>3, <1>6, <2>3, <4>2 DEF Update, Unset
    <3>2. Defaults' = Defaults
      BY <1>1, <1>4, <1>6, <2>1, <2>3, <3>1 DEF Defaults, Existing
    <3> QED BY <3>2
  <2> QED BY <2>2, <2>3
<1>7. CASE Delete(r)
  <2>1. types[i] # Gone /\ ~types[i].is_default
    BY <1>0, <1>1, <1>7 DEF Stale, Delete, At, Existing, JobOK
  <2>2. types' = [types EXCEPT ![i] = Gone]
    BY <1>7 DEF Delete
  <2>3. Defaults' = Defaults
    BY <1>0, <1>1, <2>1, <2>2 DEF Defaults, Existing
  <2> QED BY <2>3
<1> QED BY <1>5, <1>6, <1>7

(* However many administrators edit the call types at once, there stops being exactly    *)
(* one default only by a request that clears it, or by one that knows flags which have   *)
(* changed since.                                                                        *)
THEOREM OneDefault == Spec => DefaultsFallToOverlap
<1>1. ASSUME IInv, [Next]_vars, Cardinality(Defaults) = 1, Cardinality(Defaults') # 1
      PROVE  \E r \in Requests : job'[r] # job[r] /\ (Clears(r) \/ Stale(r))
  <2>1. PICK d : Defaults = {d}
    BY <1>1, FS_Singleton DEF IInv
  <2>2. d \in Types /\ ~\E e : Defaults' = {e}
    BY <1>1, <2>1, FS_Singleton DEF Defaults, Existing
  <2>3. PICK r \in Requests : Create(r) \/ Update(r) \/ Delete(r)
    BY <1>1, <2>1, <2>2, DefaultsStep, CallTypeAssumption DEF IInv
  <2>4. Clears(r) \/ Stale(r)
    BY <1>1, <2>1, <2>2, <2>3, OneRemains, CallTypeAssumption
  <2>5. job'[r] # job[r]
    BY <1>1, <2>3, IdleOK, CallTypeAssumption DEF Create, Update, Delete, At, Answer, IInv, Types0, All
  <2> QED BY <2>4, <2>5
<1>2. IInv /\ [Next]_vars => [Cardinality(Defaults) = 1 /\ Cardinality(Defaults') # 1
        => \E r \in Requests : job'[r] # job[r] /\ (Clears(r) \/ Stale(r))]_vars
  BY <1>1
<1> QED BY <1>2, Invariant, PTL DEF Spec, DefaultsFallToOverlap

-----------------------------------------------------------------------------
(* Providers *)

(* Every row has what its provider needs, among the rows and wherever they    *)
(* have been read.                                                           *)
CompleteRows(rows) == \A p \in P!Providers : rows[p].saved => P!Complete(p, rows[p])

(* What resolve_provider returns, whatever it has read. *)
LEMMA ResolveCorrect ==
  ASSUME NEW rows \in [P!Providers -> P!Credential], NEW pr \in P!Prefs, CompleteRows(rows)
  PROVE  /\ P!Resolve(rows, pr) \in P!Resolved
         /\ P!Resolve(rows, pr).provider = "none" => \A p \in P!Providers : ~P!Connected(p, rows)
         /\ P!Resolve(rows, pr).provider # "none" =>
              /\ P!Resolve(rows, pr).provider \in P!Providers
              /\ P!Connected(P!Resolve(rows, pr).provider, rows)
              /\ P!Usable(P!Resolve(rows, pr))
         /\ pr.llm_provider # "auto" /\ P!Connected(pr.llm_provider, rows)
              => P!Resolve(rows, pr).provider = pr.llm_provider
         /\ P!Resolve(rows, pr).model => P!Resolve(rows, pr).provider = pr.llm_provider
<1> DEFINE R == P!Resolve(rows, pr)
<1>1. ASSUME NEW p \in P!Providers, NEW m \in BOOLEAN, P!Connected(p, rows)
      PROVE  /\ P!ResolveOne(p, rows, m) \in P!Resolved
             /\ P!ResolveOne(p, rows, m).provider = p
             /\ P!ResolveOne(p, rows, m).model = m
             /\ P!Usable(P!ResolveOne(p, rows, m))
  BY <1>1 DEF P!ResolveOne, P!Connected, P!Usable, CompleteRows, P!Complete, P!Resolved, P!Providers, P!Hosted,
     P!Credential
<1>2. pr.llm_provider \in P!Providers \cup {"auto"} /\ pr.llm_model \in BOOLEAN
  BY DEF P!Prefs
<1>3. CASE pr.llm_provider # "auto" /\ P!Connected(pr.llm_provider, rows)
  <2>1. R = P!ResolveOne(pr.llm_provider, rows, pr.llm_model)
    BY <1>3 DEF P!Resolve
  <2>2. pr.llm_provider \in P!Providers /\ pr.llm_provider # "none"
    BY <1>2, <1>3 DEF P!Providers, P!Hosted
  <2> QED BY <1>1, <1>2, <1>3, <2>1, <2>2
<1>4. CASE ~(pr.llm_provider # "auto" /\ P!Connected(pr.llm_provider, rows))
  <2>1. CASE \E p \in P!Providers : P!Connected(p, rows)
    <3>1. \E p \in P!Providers : P!Connected(p, rows) /\ R = P!ResolveOne(p, rows, FALSE)
      BY <1>4, <2>1 DEF P!Resolve, P!Providers, P!Hosted
    <3>2. PICK p \in P!Providers : P!Connected(p, rows) /\ R = P!ResolveOne(p, rows, FALSE)
      BY <3>1
    <3>3. p # "none"
      BY DEF P!Providers, P!Hosted
    <3> QED BY <1>1, <1>4, <3>2, <3>3
  <2>2. CASE \A p \in P!Providers : ~P!Connected(p, rows)
    <3>1. R = P!Unconnected
      BY <1>4, <2>2 DEF P!Resolve, P!Providers, P!Hosted
    <3>2. P!Unconnected \in P!Resolved /\ P!Unconnected.provider = "none" /\ ~P!Unconnected.model
      BY DEF P!Unconnected, P!Resolved
    <3> QED BY <1>4, <2>2, <3>1, <3>2
  <2> QED BY <2>1, <2>2
<1> QED BY <1>3, <1>4

(* What resolve_stt_provider returns. *)
LEMMA ResolveSttCorrect ==
  ASSUME NEW s, NEW pr \in P!Prefs
  PROVE  /\ P!ResolveStt(s, pr) \in P!Resolved
         /\ P!ResolveStt(s, pr).provider = "whisper" \/ P!Usable(P!ResolveStt(s, pr))
BY DEF P!ResolveStt, P!Whisper, P!Unconnected, P!Resolved, P!Prefs, P!Usable

(* The preferences of a new user have the type.                            *)
LEMMA AutomaticType == P!Automatic \in P!Prefs
<1>1. "auto" \in P!Providers \cup {"auto"} /\ "auto" \in {"auto", "deepgram", "whisper"}
  OBVIOUS
<1> QED BY <1>1 DEF P!Prefs, P!Automatic

(* So has a credential that is not there,                                  *)
LEMMA NoRowType == P!NoRow \in P!Credential /\ P!NoRow.saved = FALSE
BY DEF P!NoRow, P!Credential

(* what is resolved to nothing,                                            *)
LEMMA UnconnectedType == P!Unconnected \in P!Resolved
BY DEF P!Unconnected, P!Resolved

(* and a job that has read nothing,                                        *)
LEMMA NoneResolved ==
  /\ P!Idle.step = "idle" /\ P!Idle.provider = "none" /\ P!Idle.payload \in P!Credential
  /\ P!Idle.row = P!NoRow /\ P!Idle.rows \in [P!Providers -> P!Credential] /\ CompleteRows(P!Idle.rows)
  /\ P!Idle.wanted \in P!Prefs /\ P!Idle.result \in P!Resolved
<1>1. P!Idle.rows = [p \in P!Providers |-> P!NoRow]
  BY DEF P!Idle
<1>2. P!Idle.rows \in [P!Providers -> P!Credential] /\ CompleteRows(P!Idle.rows)
  BY <1>1, NoRowType DEF CompleteRows
<1> QED BY <1>2, NoRowType, AutomaticType, UnconnectedType DEF P!Idle

(* One request's record, as the invariant has it. *)
Resolving == [step : {"idle", "save", "prefs", "rows", "resolved", "stt user", "stt"},
            provider : P!Providers \cup {"none"}, payload : P!Credential, row : P!Credential,
            rows : [P!Providers -> P!Credential], wanted : P!Prefs, result : P!Resolved]

ResolvingOK(j) ==
  /\ j \in Resolving
  /\ j.step = "save" => j.provider \in P!Providers /\ P!Complete(j.provider, j.payload)
  /\ CompleteRows(j.rows)
  /\ j.step = "stt" => j.result.provider = "whisper" \/ P!Usable(j.result)
  /\ j.step = "resolved" =>
       /\ \/ j.result.provider = "none" /\ \A p \in P!Providers : ~P!Connected(p, j.rows)
          \/ /\ j.result.provider \in P!Providers /\ P!Connected(j.result.provider, j.rows)
             /\ P!Usable(j.result)
       /\ j.wanted.llm_provider # "auto" /\ P!Connected(j.wanted.llm_provider, j.rows)
            => j.result.provider = j.wanted.llm_provider
       /\ j.result.model => j.result.provider = j.wanted.llm_provider

(* An update that is about to be made has a row to be made to. *)
UpdateHasRow(r) == resolving[r].step = "save" /\ resolving[r].row.saved => credentials[resolving[r].provider].saved

ProvidersInv ==
  /\ credentials \in [P!Providers -> P!Credential] /\ CompleteRows(credentials)
  /\ stt \in {"none", "key", "empty"}
  /\ prefs \in P!Prefs
  /\ resolving = [r \in Requests |-> resolving[r]] /\ \A r \in Requests : ResolvingOK(resolving[r]) /\ UpdateHasRow(r)

(* which holds no incomplete row.                                          *)
LEMMA NoneResolvedOK == ResolvingOK(P!Idle)
<1>1. P!Idle \in Resolving
  <2>1. P!Idle.rows \in [P!Providers -> P!Credential]
    BY NoneResolved
  <2> QED BY <2>1, NoRowType, AutomaticType, UnconnectedType DEF P!Idle, Resolving
<1> QED BY <1>1, NoneResolved DEF ResolvingOK

(* The invariant holds before the first request.                           *)
LEMMA ProvidersInit == P!Init => ProvidersInv
<1> SUFFICES ASSUME P!Init PROVE ProvidersInv
  OBVIOUS
<1>1. credentials \in [P!Providers -> P!Credential] /\ CompleteRows(credentials)
  BY NoRowType DEF P!Init, CompleteRows
<1>2. prefs \in P!Prefs
  BY AutomaticType DEF P!Init
<1>3. \A r \in Requests : resolving[r] = P!Idle /\ resolving[r].step = "idle"
  BY NoneResolved DEF P!Init
<1> QED BY <1>1, <1>2, <1>3, NoneResolvedOK DEF P!Init, ProvidersInv, UpdateHasRow

(* A step of one request that leaves the rows alone. *)
LEMMA OneResolving ==
  ASSUME ProvidersInv, NEW r \in Requests, NEW j, ResolvingOK(j), UNCHANGED credentials,
         resolving' = [resolving EXCEPT ![r] = j],
         j.step = "save" /\ j.row.saved => credentials[j.provider].saved,
         stt' \in {"none", "key", "empty"}, prefs' \in P!Prefs
  PROVE  ProvidersInv'
BY DEF ProvidersInv, UpdateHasRow

(* Every step keeps it.                                                    *)
LEMMA ProvidersNext == ProvidersInv /\ [P!Next]_(P!vars) => ProvidersInv'
<1> SUFFICES ASSUME ProvidersInv, [P!Next]_(P!vars) PROVE ProvidersInv'
  OBVIOUS
<1> USE DEF ProvidersInv
<1>1. ASSUME NEW r \in Requests, NEW p \in P!Providers, NEW c \in P!Credential, P!SaveRead(r, p, c)
      PROVE  ProvidersInv'
  <2> DEFINE j == [P!Idle EXCEPT !.step = "save", !.provider = p, !.payload = c,
                              !.row = credentials[p]]
  <2>1. ResolvingOK(j) /\ (j.row.saved => credentials[j.provider].saved)
    BY <1>1, NoneResolved DEF P!SaveRead, ResolvingOK, Resolving, P!Idle
  <2>2. resolving' = [resolving EXCEPT ![r] = j] /\ UNCHANGED P!stored
    BY <1>1 DEF P!SaveRead, P!Begin
  <2> QED BY <2>1, <2>2, OneResolving DEF P!stored
<1>2. ASSUME NEW r \in Requests, P!Save(r)
      PROVE  ProvidersInv'
  <2> DEFINE p == resolving[r].provider
  <2> DEFINE c == resolving[r].payload
  <2> DEFINE row == credentials[p]
  <2> DEFINE new == [saved |-> TRUE, key |-> c.key \/ row.key, url |-> c.url \/ row.url]
  <2>1. p \in P!Providers /\ c \in P!Credential /\ row \in P!Credential /\ P!Complete(p, c)
    BY <1>2 DEF P!Save, ResolvingOK, Resolving
  <2>2. new \in P!Credential /\ P!Complete(p, new)
    BY <2>1 DEF P!Credential, P!Complete
  <2>3. credentials' = [credentials EXCEPT ![p] = new]
    BY <1>2 DEF P!Save
  <2>4. credentials' \in [P!Providers -> P!Credential] /\ CompleteRows(credentials')
    BY <2>1, <2>2, <2>3 DEF CompleteRows
  <2>5. \A q \in P!Providers : credentials[q].saved => credentials'[q].saved
    BY <2>1, <2>3
  <2>6. resolving' = [resolving EXCEPT ![r] = P!Idle] /\ UNCHANGED <<stt, prefs>>
    BY <1>2 DEF P!Save, P!End
  <2>7. ASSUME NEW q \in Requests PROVE ResolvingOK(resolving'[q]) /\ UpdateHasRow(q)'
    <3>1. CASE q = r
      BY <2>6, <3>1, NoneResolvedOK, NoneResolved DEF UpdateHasRow
    <3>2. CASE q # r
      BY <2>5, <2>6, <3>2 DEF UpdateHasRow, ResolvingOK
    <3> QED BY <3>1, <3>2
  <2>8. resolving' = [q \in Requests |-> resolving'[q]]
    BY <2>6
  <2> QED BY <2>4, <2>6, <2>7, <2>8
<1>3. ASSUME NEW p \in P!Providers, P!Delete(p)
      PROVE  ProvidersInv'
  <2>1. credentials' = [credentials EXCEPT ![p] = P!NoRow] /\ UNCHANGED <<stt, prefs>>
    BY <1>3 DEF P!Delete
  <2>2. credentials' \in [P!Providers -> P!Credential] /\ CompleteRows(credentials')
    BY <2>1 DEF CompleteRows, P!NoRow, P!Credential
  <2>3. ASSUME NEW q \in Requests PROVE ResolvingOK(resolving'[q]) /\ UpdateHasRow(q)'
    <3> DEFINE doomed == resolving[q].step = "save" /\ resolving[q].provider = p /\ resolving[q].row.saved
    <3>1. resolving'[q] = IF doomed THEN P!Idle ELSE resolving[q]
      BY <1>3 DEF P!Delete
    <3>2. CASE doomed
      BY <3>1, <3>2, NoneResolvedOK, NoneResolved DEF UpdateHasRow
    <3>3. CASE ~doomed
      BY <2>1, <3>1, <3>3 DEF UpdateHasRow, ResolvingOK
    <3> QED BY <3>2, <3>3
  <2>4. resolving' = [q \in Requests |-> resolving'[q]]
    BY <1>3 DEF P!Delete
  <2> QED BY <2>1, <2>2, <2>3, <2>4
<1>4. ASSUME NEW s \in {"none", "key", "empty"}, P!SaveStt(s)
      PROVE  ProvidersInv'
  BY <1>4 DEF P!SaveStt, UpdateHasRow
<1>5. ASSUME NEW r \in Requests, NEW fields \in P!Prefs, P!PrefsRead(r, fields)
      PROVE  ProvidersInv'
  <2> DEFINE j == [P!Idle EXCEPT !.step = "prefs", !.wanted = fields]
  <2>1. ResolvingOK(j) /\ j.step = "prefs"
    BY NoneResolved DEF ResolvingOK, Resolving, P!Idle, P!NoRow, P!Credential
  <2>2. resolving' = [resolving EXCEPT ![r] = j] /\ UNCHANGED P!stored
    BY <1>5 DEF P!PrefsRead, P!Begin
  <2> QED BY <2>1, <2>2, OneResolving DEF P!stored
<1>6. ASSUME NEW r \in Requests, NEW named \in SUBSET P!Columns, P!SavePrefs(r, named)
      PROVE  ProvidersInv'
  <2>1. resolving[r].wanted \in P!Prefs
    BY DEF ResolvingOK, Resolving
  <2>2. prefs' \in P!Prefs
    <3>1. prefs' = [f \in P!Columns |-> IF f \in named THEN resolving[r].wanted[f] ELSE prefs[f]]
      BY <1>6 DEF P!SavePrefs
    <3>2. prefs' = [llm_provider |-> prefs'.llm_provider, llm_model |-> prefs'.llm_model,
                    stt_provider |-> prefs'.stt_provider, stt_model |-> prefs'.stt_model]
      BY <3>1 DEF P!Columns
    <3>3. \A f \in P!Columns : prefs'[f] \in {resolving[r].wanted[f], prefs[f]}
      BY <3>1
    <3>4. /\ prefs'.llm_provider \in {resolving[r].wanted.llm_provider, prefs.llm_provider}
          /\ prefs'.llm_model \in {resolving[r].wanted.llm_model, prefs.llm_model}
          /\ prefs'.stt_provider \in {resolving[r].wanted.stt_provider, prefs.stt_provider}
          /\ prefs'.stt_model \in {resolving[r].wanted.stt_model, prefs.stt_model}
      BY <3>3 DEF P!Columns
    <3> QED BY <2>1, <3>2, <3>4 DEF P!Prefs
  <2>3. resolving' = [resolving EXCEPT ![r] = P!Idle] /\ UNCHANGED <<credentials, stt>>
    BY <1>6 DEF P!SavePrefs, P!End
  <2> QED BY <2>2, <2>3, NoneResolvedOK, NoneResolved, OneResolving
<1>7. ASSUME NEW r \in Requests, P!ReadRows(r)
      PROVE  ProvidersInv'
  <2> DEFINE j == [P!Idle EXCEPT !.step = "rows", !.rows = credentials]
  <2>1. ResolvingOK(j) /\ j.step = "rows"
    BY NoneResolved DEF ResolvingOK, Resolving, P!Idle, P!NoRow, P!Credential
  <2>2. resolving' = [resolving EXCEPT ![r] = j] /\ UNCHANGED P!stored
    BY <1>7 DEF P!ReadRows, P!Begin
  <2> QED BY <2>1, <2>2, OneResolving DEF P!stored
<1>8. ASSUME NEW r \in Requests, P!ReadUser(r)
      PROVE  ProvidersInv'
  <2> DEFINE j == [resolving[r] EXCEPT !.step = "resolved", !.wanted = prefs,
                                !.result = P!Resolve(resolving[r].rows, prefs)]
  <2>1. resolving[r] \in Resolving /\ CompleteRows(resolving[r].rows) /\ resolving[r].rows \in [P!Providers -> P!Credential]
    BY DEF ResolvingOK, Resolving
  <2>2. /\ j \in Resolving /\ j.step = "resolved" /\ j.rows = resolving[r].rows /\ j.wanted = prefs
        /\ j.result = P!Resolve(resolving[r].rows, prefs)
    BY <2>1, ResolveCorrect DEF Resolving
  <2>3. ResolvingOK(j)
    BY <2>1, <2>2, ResolveCorrect DEF ResolvingOK
  <2>4. resolving' = [resolving EXCEPT ![r] = j] /\ UNCHANGED P!stored
    BY <1>8 DEF P!ReadUser
  <2> HIDE DEF j
  <2> QED BY <2>2, <2>3, <2>4, OneResolving DEF P!stored
<1>9. ASSUME NEW r \in Requests, P!ReadSttUser(r)
      PROVE  ProvidersInv'
  <2> DEFINE j == [P!Idle EXCEPT !.step = "stt user", !.wanted = prefs]
  <2>1. ResolvingOK(j) /\ j.step = "stt user"
    BY NoneResolved DEF ResolvingOK, Resolving, P!Idle, P!NoRow, P!Credential
  <2>2. resolving' = [resolving EXCEPT ![r] = j] /\ UNCHANGED P!stored
    BY <1>9 DEF P!ReadSttUser, P!Begin
  <2> QED BY <2>1, <2>2, OneResolving DEF P!stored
<1>10. ASSUME NEW r \in Requests, P!ReadSttKey(r)
       PROVE  ProvidersInv'
  <2> DEFINE j == [resolving[r] EXCEPT !.step = "stt", !.result = P!ResolveStt(stt, resolving[r].wanted)]
  <2>1. resolving[r] \in Resolving /\ CompleteRows(resolving[r].rows) /\ resolving[r].wanted \in P!Prefs
    BY DEF ResolvingOK, Resolving
  <2>2. /\ j \in Resolving /\ j.step = "stt" /\ j.rows = resolving[r].rows
        /\ j.result = P!ResolveStt(stt, resolving[r].wanted)
    BY <2>1, ResolveSttCorrect DEF Resolving
  <2>3. ResolvingOK(j)
    BY <2>1, <2>2, ResolveSttCorrect DEF ResolvingOK
  <2>4. resolving' = [resolving EXCEPT ![r] = j] /\ UNCHANGED P!stored
    BY <1>10 DEF P!ReadSttKey
  <2> HIDE DEF j
  <2> QED BY <2>2, <2>3, <2>4, OneResolving DEF P!stored
<1>11. ASSUME NEW r \in Requests, P!Finish(r)
       PROVE  ProvidersInv'
  <2>1. resolving' = [resolving EXCEPT ![r] = P!Idle] /\ UNCHANGED P!stored
    BY <1>11 DEF P!Finish, P!End
  <2> QED BY <2>1, NoneResolvedOK, NoneResolved, OneResolving DEF P!stored
<1>12. CASE UNCHANGED P!vars
  BY <1>12 DEF P!vars, UpdateHasRow
<1> QED
  BY <1>1, <1>2, <1>3, <1>4, <1>5, <1>6, <1>7, <1>8, <1>9, <1>10, <1>11, <1>12 DEF P!Next

(* It holds of every behaviour.                                            *)
THEOREM ProvidersInvariant == P!Spec => []ProvidersInv
<1> QED BY ProvidersInit, ProvidersNext, PTL DEF P!Spec

(* The variables have their types, whatever is saved, deleted and resolved    *)
(* at once.                                                                  *)
THEOREM ProvidersTyped == P!Spec => []P!TypeOK
<1>1. ProvidersInv => P!TypeOK
  BY DEF ProvidersInv, P!TypeOK, ResolvingOK, Resolving
<1> QED BY <1>1, ProvidersInvariant, PTL

(* However saves and deletes overlap, what is resolved can be called.         *)
THEOREM AlwaysUsable == P!Spec => []P!ResolvedUsable
<1>1. ProvidersInv => P!ResolvedUsable
  BY DEF ProvidersInv, P!ResolvedUsable, ResolvingOK
<1> QED BY <1>1, ProvidersInvariant, PTL

(* Nothing is resolved only if nothing was connected, the preferred provider  *)
(* is taken if it was, and no other provider is asked for the user's model.   *)
THEOREM PreferenceHolds == P!Spec => []P!PreferenceFollowed
<1>1. ProvidersInv => P!PreferenceFollowed
  <2> SUFFICES ASSUME ProvidersInv, NEW r \in Requests, resolving[r].step = "resolved"
               PROVE  LET j == resolving[r] IN
                      /\ j.result.provider = "none" => \A p \in P!Providers : ~P!Connected(p, j.rows)
                      /\ j.wanted.llm_provider # "auto" /\ P!Connected(j.wanted.llm_provider, j.rows)
                           => j.result.provider = j.wanted.llm_provider
                      /\ j.result.model => j.result.provider = j.wanted.llm_provider
    BY DEF P!PreferenceFollowed
  <2>1. "none" \notin P!Providers
    BY DEF P!Providers, P!Hosted
  <2> QED BY <2>1 DEF ProvidersInv, ResolvingOK
<1> QED BY <1>1, ProvidersInvariant, PTL

(* The overview is wrong about whose credential is used only when the user's  *)
(* own was deleted between its two reads.                                    *)
THEOREM SourceHolds == P!Spec => []P!SourceTrue
<1>1. ProvidersInv => P!SourceTrue
  <2> SUFFICES ASSUME ProvidersInv, NEW r \in Requests, resolving[r].step = "resolved",
                      resolving[r].result.provider # "none", P!Source(resolving[r].result.provider) = "env"
               PROVE  \/ resolving[r].result.provider \in EnvLlm
                      \/ /\ resolving[r].rows[resolving[r].result.provider].saved
                         /\ ~credentials[resolving[r].result.provider].saved
    BY DEF P!SourceTrue
  <2>1. P!Connected(resolving[r].result.provider, resolving[r].rows)
    BY DEF ProvidersInv, ResolvingOK
  <2> QED BY <2>1 DEF P!Connected, P!Source
<1> QED BY <1>1, ProvidersInvariant, PTL
=============================================================================
