----------------------------- MODULE CallTypes ------------------------------
(***************************************************************************)
(* Call types and secrets of one organization, edited by its administrators *)
(* while meetings are created (api/admin.py, api/call_types.py,             *)
(* api/meetings.py create_meeting, and of services/admin/call_hooks.py how  *)
(* a hook's headers are resolved and what becomes of a pre-call).           *)
(*                                                                         *)
(* A request reads, then writes in one transaction at READ COMMITTED;       *)
(* another may commit between any two of its awaits.  SQLAlchemy writes     *)
(* back only what differs from the value it loaded, by primary key: an      *)
(* UPDATE of a row that is gone raises and everything is rolled back.  What *)
(* is flushed before the commit is written at the commit here: the row's    *)
(* lock keeps everyone else from seeing or changing it in between.          *)
(* Names, slugs, guidance, URLs, bodies and the secrets' values are data; a *)
(* hook is its mode and the secrets its header template refers to.          *)
(***************************************************************************)
EXTENDS Naturals, FiniteSets

CONSTANTS
  Types,     \* identities for call types
  Secrets,   \* identities for secrets
  Names,     \* names of secrets
  Meetings,
  Requests,  \* requests served at once
  Workers,   \* tasks run at once
  Hooks,     \* the settings of a pre-call that are tried
  Gone,      \* a row that does not exist
  NoType     \* no call_type_id

ASSUME CallTypeAssumption ==
  /\ NoType \notin Types /\ Requests \cap Workers = {}
  /\ Hooks \subseteq [mode : {"off", "sync", "async"}, refs : SUBSET Names]
  /\ [mode |-> "off", refs |-> {}] \in Hooks
  /\ Gone \notin Types \cup {NoType} \cup Names \cup [is_default : BOOLEAN, pre : Hooks]

VARIABLES
  types,     \* call_types: slug, is_default and the pre-call hook of each
  secrets,   \* app_secrets: the name of each
  meetings,  \* call_type_id of each meeting
  hook,      \* what has become of each meeting's pre-call
  job        \* per request: where it is and what it has read

vars == <<types, secrets, meetings, hook, job>>

CallType == [is_default : BOOLEAN, pre : Hooks]
Off == [mode |-> "off", refs |-> {}]

Existing == {t \in Types : types[t] # Gone}
Defaults == {t \in Existing : types[t].is_default}
Named == {secrets[s] : s \in {x \in Secrets : secrets[x] # Gone}}

(* was and want: is_default as loaded and as asked for.  others: the defaults *)
(* loaded to be unset.  pre: the hook of the type loaded.                    *)
Idle == [step |-> "idle", kind |-> "none", id |-> NoType, type |-> NoType, was |-> FALSE,
         want |-> FALSE, others |-> {}, pre |-> Off]

(* An id no row, meeting or request knows: uuid4. *)
Fresh(x) == \A r \in Requests \cup Workers : job[r].id # x

(* services/organizations.py: an organization starts with call types, one of *)
(* them the default.                                                        *)
Init ==
  /\ \E d \in Types :
       types = [t \in Types |-> IF t = d THEN [is_default |-> TRUE, pre |-> Off] ELSE Gone]
  /\ secrets = [s \in Secrets |-> Gone]
  /\ meetings = [m \in Meetings |-> Gone]
  /\ hook = [m \in Meetings |-> "none"]
  /\ job = [r \in Requests \cup Workers |-> Idle]

At(r, k, s) == job[r].kind = k /\ job[r].step = s
Stored == <<types, secrets, meetings, hook>>

(* The request has read something and goes on, or is answered. *)
Go(r, j) == job' = [job EXCEPT ![r] = j] /\ UNCHANGED Stored
Answer(r) == job' = [job EXCEPT ![r] = Idle]

-----------------------------------------------------------------------------
(* Call types *)

(* create_call_type, with a slug that is not taken. *)
CreateRead(r, t, want) ==
  /\ job[r].step = "idle" /\ types[t] = Gone /\ Fresh(t)
  /\ Go(r, [Idle EXCEPT !.step = IF want THEN "flushed" ELSE "ready", !.kind = "create",
                        !.id = t, !.want = want])

(* update_call_type, with is_default in the request. *)
UpdateRead(r, t, want) ==
  /\ job[r].step = "idle" /\ t \in Existing
  /\ Go(r, [Idle EXCEPT !.step = IF want THEN "flushed" ELSE "ready", !.kind = "update",
                        !.id = t, !.was = types[t].is_default, !.want = want])

(* update_call_type of the hook: its columns are written, whatever others do. *)
EditHook(t, h) ==
  /\ t \in Existing /\ types[t].pre # h
  /\ types' = [types EXCEPT ![t].pre = h]
  /\ UNCHANGED <<secrets, meetings, hook, job>>

(* The defaults there are, besides the request's own. *)
UnsetOtherDefaults(r) ==
  /\ job[r].step = "flushed"
  /\ Go(r, [job[r] EXCEPT !.step = "ready", !.others = Defaults \ {job[r].id}])

(* Not the code: the other defaults are loaded and left as they are. *)
UnsetNothing(ts, t) == types[t]

(* What is left of the defaults a transaction unsets. *)
Unset(ts, t) == IF t \in ts THEN [types[t] EXCEPT !.is_default = FALSE] ELSE types[t]

Create(r) ==
  LET j == job[r] IN
  /\ At(r, "create", "ready")
  /\ j.others \subseteq Existing
  /\ types' = [t \in Types |-> IF t = j.id THEN [is_default |-> j.want, pre |-> Off]
                               ELSE Unset(j.others, t)]
  /\ Answer(r) /\ UNCHANGED <<secrets, meetings, hook>>

(* The flag is written if what is asked for differs from what was loaded. *)
Update(r) ==
  LET j == job[r]
      written == IF j.want = j.was THEN {} ELSE {j.id}
  IN
  /\ At(r, "update", "ready")
  /\ j.others \cup written \subseteq Existing
  /\ types' = [t \in Types |-> IF t \in written THEN [types[t] EXCEPT !.is_default = j.want]
                               ELSE Unset(j.others, t)]
  /\ Answer(r) /\ UNCHANGED <<secrets, meetings, hook>>

DeleteRead(r, t) ==
  /\ job[r].step = "idle" /\ t \in Existing /\ ~types[t].is_default
  /\ Go(r, [Idle EXCEPT !.step = "ready", !.kind = "delete", !.id = t,
                        !.was = types[t].is_default])

(* Not the code: the meetings of the type keep its id. *)
DeleteAlone(r) ==
  /\ At(r, "delete", "ready")
  /\ types' = [types EXCEPT ![job[r].id] = Gone]
  /\ Answer(r) /\ UNCHANGED <<secrets, meetings, hook>>

(* meetings.call_type_id: ON DELETE SET NULL.  A row already gone: nothing. *)
Delete(r) ==
  LET t == job[r].id IN
  /\ At(r, "delete", "ready")
  /\ types' = [types EXCEPT ![t] = Gone]
  /\ meetings' = [m \in Meetings |-> IF meetings[m] = t THEN NoType ELSE meetings[m]]
  /\ Answer(r) /\ UNCHANGED <<secrets, hook>>

-----------------------------------------------------------------------------
(* Secrets *)

(* create_secret, update_secret: uq_app_secrets_org_name repeats the check of *)
(* the name when the row is written.                                        *)
WriteSecret(s, n) ==
  /\ n \notin Named
  /\ secrets' = [secrets EXCEPT ![s] = n]
  /\ UNCHANGED <<types, meetings, hook, job>>

(* Loaded and deleted: nothing in between rests on what is read. *)
DeleteSecret(s) ==
  /\ secrets[s] # Gone
  /\ secrets' = [secrets EXCEPT ![s] = Gone]
  /\ UNCHANGED <<types, meetings, hook, job>>

-----------------------------------------------------------------------------
(* Meetings and their pre-call hook *)

PreOf(t) == IF t = NoType \/ types[t] = Gone THEN Off ELSE types[t].pre

(* create_meeting: the type asked for, or else a default if there is one. *)
MeetRead(r, m, t) ==
  /\ job[r].step = "idle" /\ meetings[m] = Gone /\ Fresh(m)
  /\ t \in Existing \/ (t = NoType /\ Defaults = {})
  /\ Go(r, [Idle EXCEPT !.step = "ready", !.kind = "meet", !.id = m, !.type = t,
                        !.pre = PreOf(t)])

(* The row is committed, and the hook of the type as it was loaded is due. *)
Meet(r) ==
  LET j == job[r] IN
  /\ At(r, "meet", "ready")
  /\ j.type \in Existing \cup {NoType}
  /\ meetings' = [meetings EXCEPT ![j.id] = j.type]
  /\ hook' = [hook EXCEPT ![j.id] = IF j.pre.mode = "off" THEN "none" ELSE "due"]
  /\ IF j.pre.mode = "off" THEN Answer(r)
     ELSE job' = [job EXCEPT ![r].step = IF j.pre.mode = "sync" THEN "resolve" ELSE "queue"]
  /\ UNCHANGED <<types, secrets>>

Outcome(r, h) ==
  /\ hook' = [hook EXCEPT ![job[r].id] = h]
  /\ Answer(r) /\ UNCHANGED <<types, secrets, meetings>>

Queue(r) == At(r, "meet", "queue") /\ Outcome(r, "queued")

(* Not the code: nobody is told that the worker could not be reached. *)
QueueFailureForgotten(r) ==
  /\ At(r, "meet", "queue")
  /\ Answer(r) /\ UNCHANGED Stored

(* record_hook_queue_failure *)
QueueFails(r) == At(r, "meet", "queue") /\ Outcome(r, "failed")

(* corella.dispatch_pre_call: the type as it is now, if it still has a hook. *)
TakeHook(w, m) ==
  LET h == PreOf(meetings[m]) IN
  /\ job[w].step = "idle" /\ hook[m] = "queued"
  /\ hook' = [hook EXCEPT ![m] = IF h.mode = "off" THEN "skipped" ELSE "due"]
  /\ job' = [job EXCEPT ![w] = IF h.mode = "off" THEN Idle
                               ELSE [Idle EXCEPT !.step = "resolve", !.kind = "meet",
                                                 !.id = m, !.pre = h]]
  /\ UNCHANGED <<types, secrets, meetings>>

(* resolve_custom_headers: without a secret its headers name, no request is  *)
(* made.                                                                    *)
Resolve(r) ==
  /\ At(r, "meet", "resolve")
  /\ IF job[r].pre.refs \subseteq Named
     THEN Go(r, [job[r] EXCEPT !.step = "send"])
     ELSE Outcome(r, "failed")

(* The far side answers, or it does not in time, or with an error. *)
Send(r) == At(r, "meet", "send") /\ \E h \in {"sent", "failed"} : Outcome(r, h)

-----------------------------------------------------------------------------
(* A request that has written nothing yet raises, or is refused. *)
Raise(r) ==
  /\ job[r].step \in {"flushed", "ready"}
  /\ Answer(r) /\ UNCHANGED Stored

Next ==
  \/ \E r \in Requests :
       \/ \E t \in Types, want \in BOOLEAN : CreateRead(r, t, want) \/ UpdateRead(r, t, want)
       \/ \E t \in Types : DeleteRead(r, t)
       \/ \E m \in Meetings, t \in Types \cup {NoType} : MeetRead(r, m, t)
       \/ UnsetOtherDefaults(r) \/ Create(r) \/ Update(r) \/ Delete(r)
       \/ Meet(r) \/ Queue(r) \/ QueueFails(r) \/ Raise(r)
  \/ \E w \in Workers, m \in Meetings : TakeHook(w, m)
  \/ \E r \in Requests \cup Workers : Resolve(r) \/ Send(r)
  \/ \E t \in Types, h \in Hooks : EditHook(t, h)
  \/ \E s \in Secrets : DeleteSecret(s) \/ \E n \in Names : WriteSecret(s, n)

Spec == Init /\ [][Next]_vars

-----------------------------------------------------------------------------
(* The variables have their types; the call type of a meeting exists, or was *)
(* deleted and left the meeting without one.                                *)
TypeOK ==
  /\ types \in [Types -> CallType \cup {Gone}]
  /\ secrets \in [Secrets -> Names \cup {Gone}]
  /\ meetings \in [Meetings -> Existing \cup {NoType, Gone}]
  /\ hook \in [Meetings -> {"none", "due", "queued", "sent", "failed", "skipped"}]

(* What r is about to write rests on flags that have changed since. *)
Stale(r) ==
  \/ /\ job[r].kind \in {"update", "delete"}
     /\ job[r].id \in Existing => types[job[r].id].is_default # job[r].was
  \/ job[r].want /\ job[r].others # Defaults \ {job[r].id}

Clears(r) == job[r].kind = "update" /\ job[r].was /\ ~job[r].want

(* There stops being exactly one default only by a request that clears the   *)
(* flag of the default itself (update_call_type lets it), or by one that     *)
(* overlapped another: the flags it read to decide what to write have        *)
(* changed before it commits.                                               *)
DefaultsFallToOverlap ==
  [][Cardinality(Defaults) = 1 /\ Cardinality(Defaults') # 1
       => \E r \in Requests : job'[r] # job[r] /\ (Clears(r) \/ Stale(r))]_vars

(* A pre-call that is due is in the hands of exactly one request or task, and *)
(* is given up only with an outcome on record or a task queued: no edit of   *)
(* the type or the secrets meanwhile, and no failure of the queue, makes it  *)
(* vanish or has it made twice.                                             *)
HookInHand ==
  \A m \in Meetings :
    Cardinality({r \in Requests \cup Workers :
                   job[r].id = m /\ job[r].step \in {"queue", "resolve", "send"}})
      = IF hook[m] = "due" THEN 1 ELSE 0
=============================================================================
