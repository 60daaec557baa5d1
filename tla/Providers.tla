------------------------------ MODULE Providers -----------------------------
(***************************************************************************)
(* Which language model and which speech recognition one user's meetings    *)
(* get: the saved credentials and preferences (api/settings.py), and the    *)
(* resolution that every report, copilot cycle and channel begins with      *)
(* (services/llm/resolve.py, services/asr/resolve.py).                      *)
(*                                                                         *)
(* A request reads, and another may commit before it writes or reads again. *)
(* A key, a URL and a model's name are whether they are there at all; the   *)
(* settings of the instance never change while it runs.                     *)
(***************************************************************************)

CONSTANTS
  Requests,  \* requests and tasks at work at once
  EnvLlm,    \* providers that the instance's settings connect
  EnvStt     \* whether they have a Deepgram key

Hosted == {"anthropic", "openai", "gemini"}
Providers == Hosted \cup {"ollama"}

VARIABLES
  credentials,  \* provider_credentials of the user
  stt,          \* stt_credentials: none, a key, or an empty key
  prefs,        \* the preferred_* columns of the user
  job           \* per request: what it is about to do, with what it has read

vars == <<credentials, stt, prefs, job>>
stored == <<credentials, stt, prefs>>

Credential == [saved : BOOLEAN, key : BOOLEAN, url : BOOLEAN]
NoRow == [saved |-> FALSE, key |-> FALSE, url |-> FALSE]

Prefs == [llm_provider : Providers \cup {"auto"}, llm_model : BOOLEAN,
          stt_provider : {"auto", "deepgram", "whisper"}, stt_model : BOOLEAN]
Columns == {"llm_provider", "llm_model", "stt_provider", "stt_model"}
Automatic == [llm_provider |-> "auto", llm_model |-> FALSE,
              stt_provider |-> "auto", stt_model |-> FALSE]

(* What is resolved: a provider or none, whether the user's model is asked    *)
(* for, and what it is called with.                                          *)
Resolved == [provider : Providers \cup {"none", "deepgram", "whisper"}, model : BOOLEAN,
             key : BOOLEAN, url : BOOLEAN]
Unconnected == [provider |-> "none", model |-> FALSE, key |-> FALSE, url |-> FALSE]
Whisper == [Unconnected EXCEPT !.provider = "whisper"]

(* provider, payload: what is saved or deleted.  row, rows, wanted: as read.  *)
Idle == [step |-> "idle", provider |-> "none", payload |-> NoRow, row |-> NoRow,
         rows |-> [p \in Providers |-> NoRow], wanted |-> Automatic, result |-> Unconnected]

Init ==
  /\ credentials = [p \in Providers |-> NoRow]
  /\ stt = "none"
  /\ prefs = Automatic
  /\ job = [r \in Requests |-> Idle]

Begin(r, j) == job[r].step = "idle" /\ job' = [job EXCEPT ![r] = j] /\ UNCHANGED stored
End(r) == job' = [job EXCEPT ![r] = Idle]

-----------------------------------------------------------------------------
(* Credentials *)

(* Ollama needs a URL, everyone else a key. *)
Complete(p, c) == IF p = "ollama" THEN c.url ELSE c.key

(* save_provider_credential *)
SaveRead(r, p, c) ==
  /\ c.saved /\ Complete(p, c)
  /\ Begin(r, [Idle EXCEPT !.step = "save", !.provider = p, !.payload = c,
                           !.row = credentials[p]])

(* Only what the payload has is set.  A row that was not there cannot be      *)
(* inserted twice: uq_owner_provider.                                        *)
Save(r) ==
  LET p == job[r].provider
      c == job[r].payload
      row == credentials[p]
  IN
  /\ job[r].step = "save"
  /\ row.saved = job[r].row.saved
  /\ credentials' = [credentials EXCEPT ![p] =
       [saved |-> TRUE, key |-> c.key \/ row.key, url |-> c.url \/ row.url]]
  /\ End(r) /\ UNCHANGED <<stt, prefs>>

(* delete_provider_credential.  Whoever is about to update that row raises;    *)
(* a row saved afterwards is another row.                                    *)
Delete(p) ==
  /\ credentials' = [credentials EXCEPT ![p] = NoRow]
  /\ job' = [r \in Requests |->
               IF job[r].step = "save" /\ job[r].provider = p /\ job[r].row.saved
               THEN Idle ELSE job[r]]
  /\ UNCHANGED <<stt, prefs>>

(* save_stt_credential: any string will do.  delete_stt_credential *)
SaveStt(s) == stt' = s /\ UNCHANGED <<credentials, prefs, job>>

(* save_preferences: the fields of the request are written, if they differ    *)
(* from the row that was loaded; the others stay.                            *)
PrefsRead(r, fields) == Begin(r, [Idle EXCEPT !.step = "prefs", !.wanted = fields])

SavePrefs(r, named) ==
  /\ job[r].step = "prefs"
  /\ prefs' = [f \in Columns |-> IF f \in named THEN job[r].wanted[f] ELSE prefs[f]]
  /\ End(r) /\ UNCHANGED <<credentials, stt>>

-----------------------------------------------------------------------------
(* resolve_provider *)

(* provider_status *)
Connected(p, rows) == rows[p].saved \/ p \in EnvLlm

(* _resolve_one, of a provider that is connected: the user's credential, or   *)
(* the instance's.                                                           *)
ResolveOne(p, rows, model) ==
  IF rows[p].saved
  THEN [provider |-> p, model |-> model, key |-> rows[p].key, url |-> rows[p].url]
  ELSE [provider |-> p, model |-> model, key |-> p # "ollama", url |-> p = "ollama"]

(* The preferred one if it is connected, or else the first that is. *)
Resolve(rows, pr) ==
  IF pr.llm_provider # "auto" /\ Connected(pr.llm_provider, rows)
  THEN ResolveOne(pr.llm_provider, rows, pr.llm_model)
  ELSE IF Connected("anthropic", rows) THEN ResolveOne("anthropic", rows, FALSE)
  ELSE IF Connected("openai", rows) THEN ResolveOne("openai", rows, FALSE)
  ELSE IF Connected("gemini", rows) THEN ResolveOne("gemini", rows, FALSE)
  ELSE IF Connected("ollama", rows) THEN ResolveOne("ollama", rows, FALSE)
  ELSE Unconnected

(* The credentials are read, and then the user. *)
ReadRows(r) == Begin(r, [Idle EXCEPT !.step = "rows", !.rows = credentials])

ReadUser(r) ==
  /\ job[r].step = "rows"
  /\ job' = [job EXCEPT ![r].step = "resolved", ![r].wanted = prefs,
                        ![r].result = Resolve(job[r].rows, prefs)]
  /\ UNCHANGED stored

(* ai_overview: whose credential it is gets asked when it has been resolved. *)
Source(p) == IF credentials[p].saved THEN "user" ELSE "env"

-----------------------------------------------------------------------------
(* resolve_stt_provider *)

(* The user's key hides the instance's, even when it is empty. *)
SttKey(s) == s = "key" \/ (s = "none" /\ EnvStt = TRUE)

ResolveStt(s, pr) ==
  IF pr.stt_provider = "whisper" \/ ~SttKey(s) THEN Whisper
  ELSE [provider |-> "deepgram", model |-> pr.stt_provider = "deepgram" /\ pr.stt_model,
        key |-> TRUE, url |-> FALSE]

ReadSttUser(r) == Begin(r, [Idle EXCEPT !.step = "stt user", !.wanted = prefs])

ReadSttKey(r) ==
  /\ job[r].step = "stt user"
  /\ job' = [job EXCEPT ![r].step = "stt", ![r].result = ResolveStt(stt, job[r].wanted)]
  /\ UNCHANGED stored

-----------------------------------------------------------------------------
(* What was resolved is used, or the request raises. *)
Finish(r) == job[r].step # "idle" /\ End(r) /\ UNCHANGED stored

Next ==
  \/ \E r \in Requests :
       \/ \E p \in Providers, c \in Credential : SaveRead(r, p, c)
       \/ Save(r)
       \/ \E fields \in Prefs : PrefsRead(r, fields)
       \/ \E named \in SUBSET Columns : SavePrefs(r, named)
       \/ ReadRows(r) \/ ReadUser(r) \/ ReadSttUser(r) \/ ReadSttKey(r) \/ Finish(r)
  \/ \E p \in Providers : Delete(p)
  \/ \E s \in {"none", "key", "empty"} : SaveStt(s)

Spec == Init /\ [][Next]_vars

-----------------------------------------------------------------------------
(* The variables have their types. *)
TypeOK ==
  /\ credentials \in [Providers -> Credential]
  /\ stt \in {"none", "key", "empty"}
  /\ prefs \in Prefs
  /\ job \in [Requests -> [step : {"idle", "save", "prefs", "rows", "resolved", "stt user", "stt"},
                           provider : Providers \cup {"none"}, payload : Credential,
                           row : Credential, rows : [Providers -> Credential], wanted : Prefs,
                           result : Resolved]]

Usable(x) == IF x.provider = "ollama" THEN x.url ELSE x.key

(* What is resolved can be called: a hosted provider with a key, Ollama with  *)
(* a URL, Deepgram with a key; however saves and deletes overlap, no row is   *)
(* ever without what its provider needs.                                     *)
ResolvedUsable ==
  \A r \in Requests :
    /\ job[r].step = "resolved" => job[r].result.provider = "none" \/ Usable(job[r].result)
    /\ job[r].step = "stt" => job[r].result.provider = "whisper" \/ Usable(job[r].result)

(* Nothing is resolved only if nothing was connected when the credentials were *)
(* read; the preferred provider is taken if it was; and the user's model is   *)
(* asked of no provider but the preferred one.                               *)
PreferenceFollowed ==
  \A r \in Requests :
    LET j == job[r] IN
    j.step = "resolved" =>
      /\ j.result.provider = "none" => \A p \in Providers : ~Connected(p, j.rows)
      /\ j.wanted.llm_provider # "auto" /\ Connected(j.wanted.llm_provider, j.rows)
           => j.result.provider = j.wanted.llm_provider
      /\ j.result.model => j.result.provider = j.wanted.llm_provider

(* A provider is called the instance's, though the instance does not connect   *)
(* it, only if the user's own credential was deleted since it was resolved.   *)
SourceTrue ==
  \A r \in Requests :
    LET j == job[r]
        p == j.result.provider
    IN
    j.step = "resolved" /\ p # "none" =>
      (Source(p) = "env" => p \in EnvLlm \/ (j.rows[p].saved /\ ~credentials[p].saved))
=============================================================================
