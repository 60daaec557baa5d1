---------------------------- MODULE VoicesProofs ----------------------------
(***************************************************************************)
(* Proofs about Voices, for any number of identities, names, requests and   *)
(* workers.                                                                 *)
(***************************************************************************)
EXTENDS Voices, Functions, FiniteSetTheorems, WellFoundedInduction, TLAPS

All == Requests \cup Workers

Name == Names \X (1 .. Cardinality(Ids))
Row == [linked : BOOLEAN, name : Name]

(* What requests and tasks can be doing. *)
Uploads == [step : {"saving"}, kind : {"upload"}, id : {NoId}, name : {<<>>}, sample : Extensions,
            writes : {"insert"}, alone : BOOLEAN]
Removals == [step : {"row", "point", "files"}, kind : {"remove"}, id : Ids \cup {NoId},
             name : {<<>>}, sample : {0}, writes : {"insert"}, alone : BOOLEAN]
Embedded == [step : {"embedded"}, kind : {"enroll"}, id : {NoId}, name : {<<>>},
             sample : 1 .. MaxSamples, writes : {"insert"}, alone : BOOLEAN]
Tasks == [step : {"flushed", "upserted"}, kind : {"enroll", "spot"}, id : Ids, name : Name,
          sample : 1 .. Heard, writes : {"insert", "nothing", "update"}, alone : BOOLEAN]

Jobs ==
  /\ job = [x \in All |-> job[x]]
  /\ \A r \in Requests : job[r] \in {Idle} \cup Uploads \cup Removals
  /\ \A w \in Workers : job[w] \in {Idle} \cup Embedded \cup Tasks
  /\ \A x \in All : job[x].kind = "spot" => job[x].writes = "insert"
  /\ \A x \in All : job[x].step \in {"row", "point"} => job[x].id # NoId

Rest ==
  /\ identities \in [Ids -> Row \cup {Gone}]
  /\ points \in [Ids -> 0 .. Heard]
  /\ files \in [Extensions -> 0 .. MaxSamples]
  /\ full_name \in Names

(* No more tasks wait than samples have been uploaded. *)
Saving == {r \in Requests : job[r].step = "saving"}
Counting ==
  /\ taken \in 0 .. MaxSamples /\ queue \in Nat
  /\ IsFiniteSet(Saving) /\ queue + Cardinality(Saving) <= taken

Flushed(x) == job[x].step \in {"flushed", "upserted"}
Inserts(x) == Flushed(x) /\ job[x].writes = "insert"

(* A new identity is nobody else's; a row that is updated stays; and what a   *)
(* removal has deleted does not come back.                                   *)
Held ==
  /\ \A i \in Rows : points[i] # NoPoint
  /\ \A x \in All : Inserts(x) =>
       /\ identities[job[x].id] = Gone
       /\ \A y \in Busy : y # x => job[y].id # job[x].id
       /\ job[x].step = "upserted" => points[job[x].id] # NoPoint
  /\ \A x \in All : job[x].writes = "update" => job[x].id \in Rows
  /\ \A x \in All : job[x].step \in {"point", "files"} /\ job[x].id # NoId
       => identities[job[x].id] = Gone

(* Who is alone has read what is still so. *)
Alone ==
  \A x \in Busy : job[x].alone =>
    /\ Busy = {x}
    /\ Inserts(x) => IF job[x].kind = "enroll" THEN Linked = {} ELSE job[x].name \notin Used
    /\ Flushed(x) /\ job[x].writes # "insert" => job[x].id \in Rows
    /\ job[x].step = "files" /\ job[x].id # NoId => points[job[x].id] = NoPoint

IInv == Jobs /\ Rest /\ Counting /\ Held /\ Alone

(* No row is a row that is not there, and a job at work is no idle one.       *)
LEMMA Kinds ==
  ASSUME VoiceAssumption
  PROVE  /\ Gone \notin Row
         /\ Idle.step = "idle" /\ Idle.kind = "none" /\ Idle.id = NoId /\ Idle.writes = "insert"
         /\ \A j \in Uploads \cup Removals \cup Embedded \cup Tasks : j.step # "idle" /\ j # Idle
         /\ Requests \cap Workers = {} /\ NoId \notin Ids /\ NoPoint = 0 /\ Heard \in Nat /\ Heard > 0
<1>1. Gone \notin Row
  <2>1. ASSUME NEW b, NEW n, <<b, n>> = <<>> PROVE FALSE
    BY <2>1
  <2> QED BY <2>1 DEF Gone, Row, Name
<1>2. \A j \in Uploads \cup Removals \cup Embedded \cup Tasks : j.step # "idle" /\ j # Idle
  BY DEF Uploads, Removals, Embedded, Tasks, Idle
<1> QED BY <1>1, <1>2 DEF Idle, VoiceAssumption, NoPoint, Heard

(* Among sets of elements of a finite set, one contains no other.          *)
LEMMA Smallest ==
    ASSUME NEW S, IsFiniteSet(S), NEW M \in SUBSET SUBSET S, M # {}
    PROVE  \E T \in M : \A U \in M : U \subseteq T => U = T
<1> DEFINE less == StrictSubsetOrdering(S)
<1>1. IsWellFoundedOn(less, SUBSET S)
  BY FS_FiniteSubsetsOfFinite, FS_StrictSubsetOrderingWellFounded
<1>2. PICK T \in M : \A U \in M : ~(<<U, T>> \in less)
  <2> HIDE DEF less
  <2> QED BY <1>1, WFMin
<1>3. ASSUME NEW U \in M, U \subseteq T, U # T
      PROVE  <<U, T>> \in less
  BY <1>3 DEF StrictSubsetOrdering
<1>4. \A U \in M : U \subseteq T => U = T
  <2> HIDE DEF less
  <2> QED BY <1>2, <1>3
<1> QED
  BY <1>4

(* _disambiguate_display_name finds a name nobody has, and needs no number    *)
(* beyond one more than there are identities.                                *)
LEMMA FreeNameIsFree ==
  ASSUME VoiceAssumption, Rest, NEW b \in Names
  PROVE  \E n \in 1 .. Cardinality(Rows) + 1 : FreeName(b) = <<b, n>> /\ <<b, n>> \notin Used
<1> DEFINE C == Cardinality(Rows)
<1> DEFINE N == {n \in 1 .. C + 1 : <<b, n>> \notin Used}
<1>1. IsFiniteSet(Rows) /\ C \in Nat
  <2>1. Rows \subseteq Ids /\ IsFiniteSet(Ids)
    BY DEF Rows, VoiceAssumption
  <2> QED BY <2>1, FS_Subset, FS_CardinalityType
<1>2. N # {}
  <2> SUFFICES ASSUME \A n \in 1 .. C + 1 : <<b, n>> \in Used PROVE FALSE
    OBVIOUS
  <2> DEFINE f == [n \in 1 .. C + 1 |-> CHOOSE i \in Rows : identities[i].name = <<b, n>>]
  <2>1. ASSUME NEW n \in 1 .. C + 1 PROVE f[n] \in Rows /\ identities[f[n]].name = <<b, n>>
    <3>1. \E i \in Rows : identities[i].name = <<b, n>>
      BY DEF Used
    <3> QED BY <3>1
  <2> HIDE DEF f
  <2>2. f \in [1 .. C + 1 -> Rows]
    <3>1. f = [n \in 1 .. C + 1 |-> f[n]]
      BY DEF f
    <3> QED BY <2>1, <3>1
  <2>3. ASSUME NEW n \in 1 .. C + 1, NEW k \in 1 .. C + 1, f[n] = f[k] PROVE n = k
    <3>1. <<b, n>> = <<b, k>>
      BY <2>1, <2>3
    <3> QED BY <3>1
  <2>4. f \in Injection(1 .. C + 1, Rows)
    BY <2>2, <2>3 DEF Injection, IsInjective
  <2>5. Cardinality(1 .. C + 1) <= C
    BY <1>1, <2>4, FS_Injection
  <2>6. Cardinality(1 .. C + 1) = C + 1
    BY <1>1, FS_Interval
  <2> QED BY <1>1, <2>5, <2>6
<1>3. PICK n \in N : \A k \in N : n <= k
  <2> DEFINE M == {1 .. k : k \in N}
  <2>1. PICK S : S = 1 .. C + 1 /\ IsFiniteSet(S)
    BY <1>1, FS_Interval
  <2>2. PICK T \in M : \A U \in M : U \subseteq T => U = T
    <3>1. \A U \in M : U \subseteq S
      <4>1. ASSUME NEW k \in N PROVE 1 .. k \subseteq S
        BY <1>1, <2>1
      <4> QED BY <4>1
    <3>2. M # {}
      BY <1>2
    <3> HIDE DEF M, N, C
    <3>3. M \in SUBSET SUBSET S /\ IsFiniteSet(S)
      BY <2>1, <3>1
    <3>4. \E T \in M : \A U \in M : U \subseteq T => U = T
      BY <3>2, <3>3, Smallest
    <3> QED BY <3>4
  <2>3. PICK n \in N : T = 1 .. n
    BY <2>2
  <2>4. ASSUME NEW k \in N, k < n PROVE FALSE
    <3>1. 1 .. k \in M /\ 1 .. k \subseteq 1 .. n /\ n \in Nat /\ k \in Nat
      BY <1>1, <2>4
    <3>2. 1 .. k = 1 .. n
      BY <2>2, <2>3, <3>1
    <3>3. n \in 1 .. n /\ n \notin 1 .. k
      BY <1>1, <2>4
    <3> QED BY <3>2, <3>3
  <2>5. \A k \in N : n <= k
    BY <1>1, <2>4
  <2> QED BY <2>5
<1>4. n \in 1 .. C + 1 /\ <<b, n>> \notin Used /\ \A k \in 1 .. n - 1 : <<b, k>> \in Used
  BY <1>1, <1>3
<1>5. \A m \in 1 .. C + 1 : (<<b, m>> \notin Used /\ \A k \in 1 .. m - 1 : <<b, k>> \in Used) => m = n
  BY <1>1, <1>4
<1>6. FreeName(b) = <<b, n>>
  BY <1>4, <1>5 DEF FreeName
<1> QED BY <1>4, <1>6

Work(j, k) ==
  /\ j.step = k.step /\ j.kind = k.kind /\ j.id = k.id /\ j.name = k.name
  /\ j.sample = k.sample /\ j.writes = k.writes

(* Who begins is at work beside whoever was, and these are no longer alone.  *)
LEMMA BeginJobs ==
  ASSUME VoiceAssumption, Jobs, NEW x \in All, NEW j, Begin(x, j),
         x \in Requests => j \in Uploads \cup Removals,
         x \in Workers => j \in Embedded \cup Tasks,
         j.kind = "spot" => j.writes = "insert", j.step \in {"row", "point"} => j.id # NoId
  PROVE  /\ Jobs'
         /\ x \notin Busy /\ Busy' = Busy \cup {x} /\ Work(job'[x], j)
         /\ job'[x].alone => Busy = {}
         /\ \A y \in All \ {x} : Work(job'[y], job[y]) /\ (y \in Busy => ~job'[y].alone)
<1> DEFINE new == [j EXCEPT !.alone = (Busy = {})]
<1>0. /\ job = [y \in All |-> job[y]]
      /\ \A r \in Requests : job[r] \in {Idle} \cup Uploads \cup Removals
      /\ \A w \in Workers : job[w] \in {Idle} \cup Embedded \cup Tasks
  BY DEF Jobs
<1>1. job' = [y \in All |-> IF y = x THEN new
                            ELSE IF y \in Busy THEN [job[y] EXCEPT !.alone = FALSE] ELSE job[y]]
  BY DEF Begin, All
<1>2. (Busy = {}) \in BOOLEAN
  OBVIOUS
<1>3. /\ x \in Requests => new \in Uploads \cup Removals
      /\ x \in Workers => new \in Embedded \cup Tasks
      /\ Work(new, j) /\ (new.alone <=> Busy = {})
  <2>1. PICK b \in BOOLEAN : b <=> Busy = {}
    BY <1>2
  <2>2. b = (Busy = {})
    BY <1>2, <2>1
  <2>3. new = [j EXCEPT !.alone = b]
    BY <2>2
  <2>4. j \in Uploads \cup Removals \cup Embedded \cup Tasks
    BY DEF All
  <2> HIDE DEF new
  <2>5. Work(new, j) /\ new.alone = b
    BY <2>3, <2>4 DEF Work, Uploads, Removals, Embedded, Tasks
  <2>6. x \in Requests => new \in Uploads \cup Removals
    BY <2>3 DEF Uploads, Removals
  <2>7. x \in Workers => new \in Embedded \cup Tasks
    BY <2>3 DEF Embedded, Tasks
  <2> QED BY <2>1, <2>5, <2>6, <2>7
<1> HIDE DEF new
<1>4. ASSUME NEW y \in All \ {x}
      PROVE  /\ y \in Requests => job'[y] \in {Idle} \cup Uploads \cup Removals
             /\ y \in Workers => job'[y] \in {Idle} \cup Embedded \cup Tasks
             /\ Work(job'[y], job[y]) /\ (y \in Busy => ~job'[y].alone)
  <2>1. CASE y \in Busy
    <3>1. job'[y] = [job[y] EXCEPT !.alone = FALSE]
      BY <1>1, <2>1
    <3>2. job[y] # Idle
      BY <2>1 DEF Busy, Idle
    <3>3. y \in Requests => job'[y] \in Uploads \cup Removals
      BY <1>0, <3>1, <3>2 DEF Uploads, Removals
    <3>4. y \in Workers => job'[y] \in Embedded \cup Tasks
      BY <1>0, <3>1, <3>2 DEF Embedded, Tasks
    <3>5. job[y] \in Uploads \cup Removals \cup Embedded \cup Tasks
      BY <1>0, <3>2 DEF All
    <3>6. Work(job'[y], job[y]) /\ ~job'[y].alone
      BY <3>1, <3>5 DEF Work, Uploads, Removals, Embedded, Tasks
    <3> QED BY <3>3, <3>4, <3>6
  <2>2. CASE y \notin Busy
    BY <1>0, <1>1, <2>2 DEF Work
  <2> QED BY <2>1, <2>2
<1>5. job'[x] = new /\ x \notin Busy
  BY <1>1 DEF Begin
<1>6. j.step # "idle"
  BY DEF All, Uploads, Removals, Embedded, Tasks
<1>7. Busy' = Busy \cup {x}
  BY <1>3, <1>4, <1>5, <1>6 DEF Busy, All, Work
<1>8. Jobs'
  <2>1. job' = [y \in All |-> job'[y]]
    BY <1>1
  <2>2. \A y \in All : /\ job'[y].kind = "spot" => job'[y].writes = "insert"
                       /\ job'[y].step \in {"row", "point"} => job'[y].id # NoId
    BY <1>3, <1>4, <1>5 DEF Work, Jobs
  <2>3. \A r \in Requests : job'[r] \in {Idle} \cup Uploads \cup Removals
    BY <1>3, <1>4, <1>5 DEF All
  <2>4. \A w \in Workers : job'[w] \in {Idle} \cup Embedded \cup Tasks
    BY <1>3, <1>4, <1>5 DEF All
  <2> QED BY <2>1, <2>2, <2>3, <2>4 DEF Jobs
<1> QED BY <1>3, <1>4, <1>5, <1>7, <1>8

(* What begins knows nothing of an identity that another is about to insert, *)
(* and what it has read is so.                                              *)
LEMMA BeginStep ==
  ASSUME VoiceAssumption, Jobs, Held, Alone, NEW x \in All, NEW j, Begin(x, j),
         x \in Requests => j \in Uploads \cup Removals,
         x \in Workers => j \in Embedded \cup Tasks,
         j.kind = "spot" => j.writes = "insert", j.step \in {"row", "point"} => j.id # NoId,
         UNCHANGED <<identities, points>>,
         j.step = "files" => j.id = NoId, j.step # "point", j.step # "upserted",
         j.id # NoId => \A y \in Busy : Inserts(y) => job[y].id # j.id,
         j.step = "flushed" => j.kind = "spot" /\ Fresh(j.id) /\ j.name \notin Used
  PROVE  Jobs' /\ Held' /\ Alone'
<1>1. /\ Jobs'
      /\ x \notin Busy /\ Busy' = Busy \cup {x} /\ Work(job'[x], j)
      /\ job'[x].alone => Busy = {}
      /\ \A y \in All \ {x} : Work(job'[y], job[y]) /\ (y \in Busy => ~job'[y].alone)
  BY BeginJobs
<1>2. Rows' = Rows /\ Used' = Used /\ Linked' = Linked
  BY DEF Rows, Used, Linked
<1>3. j.step \notin {"flushed", "upserted"} => j.writes = "insert" /\ j.step # "upserted"
  BY DEF All, Uploads, Removals, Embedded, Tasks
<1>4. \A y \in All \ {x} : Inserts(y)' <=> Inserts(y)
  BY <1>1 DEF Work, Inserts, Flushed
<1>5. Inserts(x)' => j.step = "flushed" /\ j.kind = "spot"
  BY <1>1 DEF Inserts, Flushed, Work
<1>6. \A y \in All : Inserts(y) => y \in Busy /\ job[y].id # NoId
  BY Kinds DEF Busy, All, Inserts, Flushed, Jobs, Idle, Uploads, Removals, Embedded, Tasks
<1>7. Held'
  <2>1. \A y \in All : Inserts(y)' =>
          /\ identities'[job'[y].id] = Gone
          /\ \A z \in Busy' : z # y => job'[z].id # job'[y].id
          /\ job'[y].step = "upserted" => points'[job'[y].id] # NoPoint
    <3>1. ASSUME NEW y \in All \ {x}, Inserts(y)'
          PROVE  /\ identities'[job'[y].id] = Gone
                 /\ \A z \in Busy' : z # y => job'[z].id # job'[y].id
                 /\ job'[y].step = "upserted" => points'[job'[y].id] # NoPoint
      <4>1. Inserts(y) /\ y \in Busy /\ job[y].id # NoId /\ job'[y].id = job[y].id /\ job'[y].step = job[y].step
        BY <1>1, <1>4, <1>6, <3>1 DEF Work
      <4>2. ASSUME NEW z \in Busy', z # y PROVE job'[z].id # job'[y].id
        <5>1. CASE z = x
          BY <1>1, <4>1, <5>1 DEF Work
        <5>2. CASE z # x
          BY <1>1, <4>1, <4>2, <5>2 DEF Work, Held, Busy, All
        <5> QED BY <5>1, <5>2
      <4> QED BY <4>1, <4>2 DEF Held
    <3>2. ASSUME Inserts(x)'
          PROVE  /\ identities'[job'[x].id] = Gone
                 /\ \A z \in Busy' : z # x => job'[z].id # job'[x].id
                 /\ job'[x].step # "upserted"
      BY <1>1, <1>5, <3>2 DEF Fresh, Work, Busy, All
    <3> QED BY <3>1, <3>2
  <2>2. \A y \in All : job'[y].writes = "update" => job'[y].id \in Rows'
    BY <1>1, <1>2, <1>3 DEF Work, Held
  <2>3. \A y \in All : job'[y].step \in {"point", "files"} /\ job'[y].id # NoId
          => identities'[job'[y].id] = Gone
    BY <1>1 DEF Work, Held
  <2> QED BY <1>2, <2>1, <2>2, <2>3 DEF Held
<1>8. Alone'
  <2> SUFFICES ASSUME NEW y \in Busy', job'[y].alone
               PROVE  /\ Busy' = {y}
                      /\ Inserts(y)' => IF job'[y].kind = "enroll" THEN Linked' = {}
                                        ELSE job'[y].name \notin Used'
                      /\ Flushed(y)' /\ job'[y].writes # "insert" => job'[y].id \in Rows'
                      /\ job'[y].step = "files" /\ job'[y].id # NoId => points'[job'[y].id] = NoPoint
    BY DEF Alone
  <2>1. y = x /\ Busy' = {x}
    BY <1>1 DEF Busy, All
  <2> QED BY <1>1, <1>2, <1>3, <1>5, <2>1 DEF Work, Flushed
<1> QED BY <1>1, <1>7, <1>8

(* Who is done leaves the others as they were; no other was alone.           *)
LEMMA EndJobs ==
  ASSUME VoiceAssumption, Jobs, NEW x \in Busy, End(x)
  PROVE  /\ Jobs'
         /\ Busy' = Busy \ {x} /\ job'[x] = Idle
         /\ \A y \in All \ {x} : job'[y] = job[y]
<1>1. /\ job = [y \in All |-> job[y]] /\ job' = [job EXCEPT ![x] = Idle] /\ x \in All
      /\ \A r \in Requests : job[r] \in {Idle} \cup Uploads \cup Removals
      /\ \A w \in Workers : job[w] \in {Idle} \cup Embedded \cup Tasks
  BY DEF Jobs, End, Busy, All
<1>2. job' = [y \in All |-> job'[y]] /\ job'[x] = Idle /\ \A y \in All \ {x} : job'[y] = job[y]
  BY <1>1
<1>3. Jobs'
  BY <1>1, <1>2, Kinds DEF Jobs, All
<1>4. Busy' = Busy \ {x}
  BY <1>1, <1>2, Kinds DEF Busy, All
<1> QED BY <1>2, <1>3, <1>4

(* No one is alone beside another.                                          *)
LEMMA EndAlone ==
  ASSUME VoiceAssumption, Jobs, Alone, NEW x \in Busy, End(x)
  PROVE  Alone'
BY EndJobs DEF Alone, Busy, All

(* One that ends without touching the rows, whatever points it has written.  *)
LEMMA EndStep ==
  ASSUME VoiceAssumption, Jobs, Held, Alone, NEW x \in Busy, End(x), UNCHANGED identities,
         \A i \in Ids : points[i] # NoPoint => points'[i] # NoPoint
  PROVE  Jobs' /\ Held' /\ Alone'
<1>1. /\ Jobs' /\ Busy' = Busy \ {x} /\ job'[x] = Idle
      /\ \A y \in All \ {x} : job'[y] = job[y]
  BY EndJobs
<1>2. Rows' = Rows /\ Rows \subseteq Ids
  BY DEF Rows
<1>3. ASSUME NEW y \in All, Inserts(y)'
      PROVE  /\ y # x /\ Inserts(y) /\ job'[y] = job[y] /\ job[y].id \in Ids
  <2>1. y # x
    BY <1>1, <1>3, Kinds DEF Inserts, Flushed
  <2>2. job'[y] = job[y] /\ Inserts(y)
    BY <1>1, <1>3, <2>1 DEF Inserts, Flushed
  <2>3. job[y] \in Tasks
    BY <2>2, Kinds DEF Inserts, Flushed, Jobs, All, Uploads, Removals, Embedded
  <2> QED BY <2>1, <2>2, <2>3 DEF Tasks
<1>4. Held'
  <2>1. \A i \in Rows' : points'[i] # NoPoint
    BY <1>2 DEF Held
  <2>2. \A y \in All : Inserts(y)' =>
          /\ identities'[job'[y].id] = Gone
          /\ \A z \in Busy' : z # y => job'[z].id # job'[y].id
          /\ job'[y].step = "upserted" => points'[job'[y].id] # NoPoint
    BY <1>1, <1>3 DEF Held, Busy, All
  <2>3. \A y \in All : job'[y].writes = "update" => job'[y].id \in Rows'
    BY <1>1, <1>2, Kinds DEF Held
  <2>4. \A y \in All : job'[y].step \in {"point", "files"} /\ job'[y].id # NoId
          => identities'[job'[y].id] = Gone
    BY <1>1, Kinds DEF Held
  <2> QED BY <2>1, <2>2, <2>3, <2>4 DEF Held
<1> QED BY <1>1, <1>4, EndAlone

(* One that goes on is still the only one that is alone.                      *)
LEMMA StepAlone ==
  ASSUME VoiceAssumption, Alone, NEW x \in Busy, Busy' = Busy,
         \A y \in All \ {x} : job'[y] = job[y], job'[x].alone = job[x].alone,
         job[x].alone =>
           /\ Inserts(x)' => IF job'[x].kind = "enroll" THEN Linked' = {} ELSE job'[x].name \notin Used'
           /\ Flushed(x)' /\ job'[x].writes # "insert" => job'[x].id \in Rows'
           /\ job'[x].step = "files" /\ job'[x].id # NoId => points'[job'[x].id] = NoPoint
  PROVE  Alone'
BY DEF Alone, Busy, All

(* The name changes, which only the user's row and the tasks to come can tell. *)
LEMMA Nobody ==
  ASSUME Jobs, Held, Alone, UNCHANGED <<identities, points, job>>
  PROVE  Jobs' /\ Held' /\ Alone'
<1>1. Rows' = Rows /\ Used' = Used /\ Linked' = Linked /\ Busy' = Busy
  BY DEF Rows, Used, Linked, Busy
<1>2. \A x : (Flushed(x)' <=> Flushed(x)) /\ (Inserts(x)' <=> Inserts(x))
  BY DEF Flushed, Inserts
<1>3. Jobs'
  BY DEF Jobs
<1>4. Held'
  BY <1>1, <1>2 DEF Held
<1>5. Alone'
  BY <1>1, <1>2 DEF Alone
<1> QED BY <1>3, <1>4, <1>5

(* What a job is at, by where it is.                                         *)
LEMMA Whose ==
  ASSUME VoiceAssumption, Jobs
  PROVE  /\ \A x \in All : job[x].step # "idle" <=> x \in Busy
         /\ \A x \in All : job[x].step # "idle" =>
              /\ x \in Requests => job[x] \in Uploads \cup Removals
              /\ x \in Workers => job[x] \in Embedded \cup Tasks
         /\ \A x \in All : job[x].kind = "upload" => job[x] \in Uploads /\ x \in Requests
         /\ \A x \in All : job[x].kind = "remove" => job[x] \in Removals /\ x \in Requests
         /\ \A x \in All : job[x].step = "embedded" => job[x] \in Embedded /\ x \in Workers
         /\ \A x \in All : Flushed(x) => job[x] \in Tasks /\ x \in Workers
         /\ \A x \in All : job[x].writes # "insert" => Flushed(x)
         /\ \A x \in All : job[x].step \in {"row", "point", "files"} => job[x].kind = "remove"
<1>1. \A x \in All : job[x].step # "idle" <=> x \in Busy
  BY DEF Busy, All
<1>2. \A x \in All : \/ job[x] = Idle /\ x \notin Busy
                     \/ job[x] \in Uploads /\ x \in Requests
                     \/ job[x] \in Removals /\ x \in Requests
                     \/ job[x] \in Embedded /\ x \in Workers
                     \/ job[x] \in Tasks /\ x \in Workers
  BY <1>1, Kinds DEF Jobs, All
<1>3. \A x \in Workers : x \notin Requests
  BY Kinds
<1> QED BY <1>1, <1>2, <1>3, Kinds DEF Uploads, Removals, Embedded, Tasks, Flushed

(* The row of a removal is gone for good: no update of it is under way.      *)
LEMMA RemoveRowStep ==
  ASSUME VoiceAssumption, Jobs, Held, Alone, NEW r \in Requests, RemoveRow(r),
         identities \in [Ids -> Row \cup {Gone}]
  PROVE  Jobs' /\ Held' /\ Alone'
<1> DEFINE i == job[r].id
<1>1. /\ job[r] \in Removals /\ r \in Busy /\ r \in All /\ i \in Ids
      /\ job[r].step = "row" /\ job[r].kind = "remove" /\ job[r].writes = "insert"
  BY Whose, Kinds DEF RemoveRow, At, All, Jobs, Removals
<1>2. /\ job' = [job EXCEPT ![r].step = "point"] /\ UNCHANGED points
      /\ identities' = [identities EXCEPT ![i] = Gone] /\ ~Locked(i)
  BY DEF RemoveRow, Step
<1>3. /\ \A y \in All \ {r} : job'[y] = job[y]
      /\ Work(job'[r], [job[r] EXCEPT !.step = "point"]) /\ job'[r] \in Removals
      /\ job'[r].alone = job[r].alone /\ job'[r].step = "point" /\ job'[r].id = i /\ job'[r].kind = "remove"
      /\ job'[r].writes = "insert"
  BY <1>1, <1>2 DEF Jobs, Removals, Work
<1>4. Jobs'
  <2>1. job' = [x \in All |-> job'[x]]
    BY <1>2 DEF Jobs
  <2>2. i # NoId
    BY <1>1, Kinds
  <2> QED BY <1>1, <1>3, <2>1, <2>2, Kinds DEF Jobs, All
<1>5. Busy' = Busy
  BY <1>1, <1>3 DEF Busy, All
<1>6. \A x \in Ids : identities[x] = Gone => identities'[x] = Gone
  BY <1>2
<1>7. Rows' \subseteq Rows /\ \A x \in Rows : x # i => x \in Rows'
  BY <1>2 DEF Rows
<1>8. \A y \in All : Inserts(y)' => y # r /\ Inserts(y) /\ job[y].id \in Ids
  <2>1. \A y \in All : Inserts(y)' => y # r /\ Inserts(y)
    BY <1>3 DEF Inserts, Flushed
  <2> QED BY <2>1, Whose DEF Inserts, Tasks
<1>9. Held'
  <2>1. \A x \in Rows' : points'[x] # NoPoint
    BY <1>2, <1>7 DEF Held
  <2>2. \A y \in All : Inserts(y)' =>
          /\ identities'[job'[y].id] = Gone
          /\ \A z \in Busy' : z # y => job'[z].id # job'[y].id
          /\ job'[y].step = "upserted" => points'[job'[y].id] # NoPoint
    BY <1>2, <1>3, <1>5, <1>6, <1>8 DEF Held, Busy, All
  <2>3. \A y \in All : job'[y].writes = "update" => job'[y].id \in Rows'
    <3>1. ASSUME NEW y \in All, job'[y].writes = "update" PROVE job'[y].id \in Rows'
      <4>1. y # r /\ job[y].writes = "update" /\ job'[y].id = job[y].id
        BY <1>3, <3>1
      <4>2. y \in Workers
        BY <4>1, Whose
      <4> QED BY <1>2, <1>7, <4>1, <4>2 DEF Held, Locked
    <3> QED BY <3>1
  <2>4. \A y \in All : job'[y].step \in {"point", "files"} /\ job'[y].id # NoId
          => identities'[job'[y].id] = Gone
    <3>1. \A y \in All : job[y].step \in {"point", "files"} /\ job[y].id # NoId => job[y].id \in Ids
      BY Whose DEF Removals
    <3>2. identities'[i] = Gone
      BY <1>1, <1>2
    <3> QED BY <1>3, <1>6, <3>1, <3>2 DEF Held
  <2> QED BY <2>1, <2>2, <2>3, <2>4 DEF Held
<1>10. Alone'
  <2>1. ~Flushed(r)' /\ job'[r].step # "files"
    BY <1>3 DEF Flushed
  <2> QED BY <1>1, <1>3, <1>5, <2>1, StepAlone DEF Inserts
<1> QED BY <1>4, <1>9, <1>10

(* Nobody counts on the point of a row that is gone.                        *)
LEMMA RemovePointStep ==
  ASSUME VoiceAssumption, Jobs, Held, Alone, NEW r \in Requests, RemovePoint(r),
         points \in [Ids -> 0 .. Heard]
  PROVE  Jobs' /\ Held' /\ Alone'
<1> DEFINE i == job[r].id
<1>1. /\ job[r] \in Removals /\ r \in Busy /\ r \in All /\ i \in Ids
      /\ job[r].step = "point" /\ job[r].kind = "remove" /\ job[r].writes = "insert"
      /\ identities[i] = Gone
  BY Whose, Kinds DEF RemovePoint, At, All, Jobs, Removals, Held
<1>2. /\ job' = [job EXCEPT ![r].step = "files"] /\ UNCHANGED identities
      /\ points' = [points EXCEPT ![i] = NoPoint]
  BY DEF RemovePoint, Step
<1>3. /\ \A y \in All \ {r} : job'[y] = job[y]
      /\ job'[r] \in Removals
      /\ job'[r].alone = job[r].alone /\ job'[r].step = "files" /\ job'[r].id = i /\ job'[r].kind = "remove"
      /\ job'[r].writes = "insert"
  BY <1>1, <1>2 DEF Jobs, Removals
<1>4. Jobs'
  <2>1. job' = [x \in All |-> job'[x]]
    BY <1>2 DEF Jobs
  <2> QED BY <1>1, <1>3, <2>1, Kinds DEF Jobs, All
<1>5. Busy' = Busy
  BY <1>1, <1>3 DEF Busy, All
<1>6. Rows' = Rows /\ i \notin Rows /\ Rows \subseteq Ids
  BY <1>1, <1>2 DEF Rows
<1>7. points'[i] = NoPoint /\ \A x \in Ids : x # i => points'[x] = points[x]
  BY <1>1, <1>2
<1>8. \A y \in All : Inserts(y)' => y # r /\ Inserts(y) /\ job[y].id \in Ids /\ job[y].id # i
  <2>1. \A y \in All : Inserts(y)' => y # r /\ Inserts(y)
    BY <1>3 DEF Inserts, Flushed
  <2> QED BY <1>1, <2>1, Whose DEF Inserts, Tasks, Held
<1>9. Held'
  <2>1. \A x \in Rows' : points'[x] # NoPoint
    BY <1>6, <1>7 DEF Held
  <2>2. \A y \in All : Inserts(y)' =>
          /\ identities'[job'[y].id] = Gone
          /\ \A z \in Busy' : z # y => job'[z].id # job'[y].id
          /\ job'[y].step = "upserted" => points'[job'[y].id] # NoPoint
    BY <1>2, <1>3, <1>5, <1>7, <1>8 DEF Held, Busy, All
  <2>3. \A y \in All : job'[y].writes = "update" => job'[y].id \in Rows'
    BY <1>3, <1>6 DEF Held
  <2>4. \A y \in All : job'[y].step \in {"point", "files"} /\ job'[y].id # NoId
          => identities'[job'[y].id] = Gone
    BY <1>1, <1>2, <1>3 DEF Held
  <2> QED BY <2>1, <2>2, <2>3, <2>4 DEF Held
<1>10. Alone'
  <2>1. ~Flushed(r)'
    BY <1>3 DEF Flushed
  <2> QED BY <1>1, <1>3, <1>5, <1>7, <2>1, StepAlone DEF Inserts
<1> QED BY <1>4, <1>9, <1>10

(* What enroll_voice finds is the user's own row, or an id that is nobody's.  *)
LEMMA LoadStep ==
  ASSUME VoiceAssumption, Jobs, Rest, Held, Alone, NEW w \in Workers, Load(w)
  PROVE  Jobs' /\ Held' /\ Alone'
<1>1. /\ job[w] \in Embedded /\ w \in Busy /\ w \in All /\ w \notin Requests
      /\ job[w].step = "embedded" /\ job[w].kind = "enroll"
  BY Whose, Kinds DEF Load, At, All
<1>2. PICK i \in Ids, how \in {"insert", "nothing", "update"} :
        /\ how = "insert" => Linked = {} /\ Fresh(i)
        /\ how # "insert" => i \in Linked
        /\ job' = [job EXCEPT ![w].step = "flushed", ![w].id = i, ![w].writes = how,
                              ![w].name = <<full_name, 1>>]
  BY DEF Load
<1>3. UNCHANGED <<identities, points>> /\ Rows' = Rows /\ Linked' = Linked
  BY DEF Load, stored, Rows, Linked
<1>4. <<full_name, 1>> \in Name
  <2>1. Cardinality(Ids) \in Nat /\ Cardinality(Ids) # 0
    BY <1>2, FS_CardinalityType, FS_EmptySet DEF VoiceAssumption
  <2> QED BY <2>1 DEF Name, Rest
<1>5. /\ \A y \in All \ {w} : job'[y] = job[y]
      /\ job'[w] \in Tasks
      /\ job'[w].step = "flushed" /\ job'[w].kind = "enroll" /\ job'[w].id = i /\ job'[w].writes = how
      /\ job'[w].alone = job[w].alone
  <2> HIDE DEF Name
  <2>1. job = [x \in All |-> job[x]]
    BY DEF Jobs
  <2>2. job[w].sample \in 1 .. Heard
    BY <1>1 DEF Embedded, Heard, VoiceAssumption
  <2>3. job'[w] = [job[w] EXCEPT !.step = "flushed", !.id = i, !.writes = how, !.name = <<full_name, 1>>]
    BY <1>1, <1>2, <2>1
  <2>4. job'[w] = [step |-> "flushed", kind |-> "enroll", id |-> i, name |-> <<full_name, 1>>,
                   sample |-> job[w].sample, writes |-> how, alone |-> job[w].alone]
    BY <1>1, <2>3 DEF Embedded
  <2>5. job[w].alone \in BOOLEAN
    BY <1>1 DEF Embedded
  <2>6. job'[w] \in Tasks
    BY <1>4, <2>2, <2>4, <2>5 DEF Tasks
  <2>7. \A y \in All \ {w} : job'[y] = job[y]
    BY <1>2, <2>1
  <2> QED BY <2>4, <2>6, <2>7
<1>6. Jobs'
  <2>1. job' = [x \in All |-> job'[x]]
    BY <1>2 DEF Jobs
  <2> QED BY <1>1, <1>5, <2>1 DEF Jobs, All
<1>7. Busy' = Busy
  BY <1>1, <1>5 DEF Busy, All
<1>8. i \in Linked => i \in Rows /\ identities[i] # Gone
  BY DEF Linked, Rows
<1>9. \A y \in All \ {w} : Inserts(y)' => Inserts(y) /\ y \in Busy /\ job[y].id # i
  <2>1. ASSUME NEW y \in All \ {w}, Inserts(y)' PROVE Inserts(y) /\ y \in Busy /\ job[y].id # i
    <3>1. Inserts(y) /\ y \in Busy
      BY <1>5, <2>1 DEF Inserts, Flushed, Busy, All
    <3> QED BY <1>2, <1>8, <3>1 DEF Held, Fresh
  <2> QED BY <2>1
<1>10. Held'
  <2>1. \A x \in Rows' : points'[x] # NoPoint
    BY <1>3 DEF Held
  <2>2. ASSUME NEW y \in All, Inserts(y)'
        PROVE  /\ identities'[job'[y].id] = Gone
               /\ \A z \in Busy' : z # y => job'[z].id # job'[y].id
               /\ job'[y].step = "upserted" => points'[job'[y].id] # NoPoint
    <3>1. CASE y = w
      BY <1>2, <1>3, <1>5, <1>7, <2>2, <3>1 DEF Fresh, Inserts, Busy, All
    <3>2. CASE y # w
      BY <1>3, <1>5, <1>7, <1>9, <2>2, <3>2 DEF Held, Busy, All
    <3> QED BY <3>1, <3>2
  <2>3. \A y \in All : job'[y].writes = "update" => job'[y].id \in Rows'
    <3>1. job'[w].writes = "update" => job'[w].id \in Rows'
      BY <1>2, <1>3, <1>5, <1>8
    <3> QED BY <1>3, <1>5, <3>1 DEF Held
  <2>4. \A y \in All : job'[y].step \in {"point", "files"} /\ job'[y].id # NoId
          => identities'[job'[y].id] = Gone
    BY <1>3, <1>5 DEF Held
  <2> QED BY <2>1, <2>2, <2>3, <2>4 DEF Held
<1>11. Alone'
  <2>1. /\ Inserts(w)' => job'[w].kind = "enroll" /\ Linked' = {}
        /\ job'[w].writes # "insert" => job'[w].id \in Rows'
        /\ job'[w].step # "files"
    BY <1>2, <1>3, <1>5, <1>8 DEF Inserts
  <2>2. /\ Inserts(w)' => IF job'[w].kind = "enroll" THEN Linked' = {} ELSE job'[w].name \notin Used'
        /\ Flushed(w)' /\ job'[w].writes # "insert" => job'[w].id \in Rows'
        /\ job'[w].step = "files" /\ job'[w].id # NoId => points'[job'[w].id] = NoPoint
    BY <2>1
  <2> HIDE DEF Flushed, Inserts
  <2> QED BY <1>1, <1>5, <1>7, <2>2, StepAlone
<1> QED BY <1>6, <1>10, <1>11

(* The point is there before its row is.                                    *)
LEMMA UpsertStep ==
  ASSUME VoiceAssumption, Jobs, Rest, Held, Alone, NEW w \in Workers, Upsert(w)
  PROVE  Jobs' /\ Held' /\ Alone'
<1> DEFINE i == job[w].id
<1>1. /\ job[w] \in Tasks /\ w \in Busy /\ w \in All /\ w \notin Requests /\ i \in Ids
      /\ job[w].step = "flushed" /\ job[w].sample # NoPoint
  BY Whose, Kinds DEF Upsert, Flushed, All, Tasks
<1>2. /\ job' = [job EXCEPT ![w].step = "upserted"] /\ UNCHANGED identities
      /\ points' = [points EXCEPT ![i] = job[w].sample]
  BY DEF Upsert, Step
<1>3. /\ \A y \in All \ {w} : job'[y] = job[y]
      /\ job'[w] \in Tasks /\ job'[w].step = "upserted" /\ job'[w].id = i
      /\ job'[w].alone = job[w].alone /\ job'[w].kind = job[w].kind
      /\ job'[w].writes = job[w].writes /\ job'[w].name = job[w].name
  BY <1>1, <1>2 DEF Jobs, Tasks
<1>4. Jobs'
  <2>1. job' = [x \in All |-> job'[x]]
    BY <1>2 DEF Jobs
  <2> QED BY <1>1, <1>3, <2>1 DEF Jobs, All
<1>5. Busy' = Busy
  BY <1>1, <1>3 DEF Busy, All
<1>6. Rows' = Rows /\ Linked' = Linked /\ Used' = Used /\ Rows \subseteq Ids
  BY <1>2 DEF Rows, Linked, Used
<1>7. points'[i] # NoPoint /\ \A x \in Ids : points[x] # NoPoint => points'[x] # NoPoint
  BY <1>1, <1>2 DEF Rest
<1>8. \A y \in All : (Inserts(y)' <=> Inserts(y)) /\ (Flushed(y)' <=> Flushed(y))
  BY <1>1, <1>3 DEF Inserts, Flushed
<1>9. \A y \in All : Inserts(y) => job[y].id \in Ids
  BY Whose DEF Inserts, Tasks
<1>10. Held'
  <2>1. \A x \in Rows' : points'[x] # NoPoint
    BY <1>6, <1>7 DEF Held
  <2>2. \A y \in All : Inserts(y)' =>
          /\ identities'[job'[y].id] = Gone
          /\ \A z \in Busy' : z # y => job'[z].id # job'[y].id
          /\ job'[y].step = "upserted" => points'[job'[y].id] # NoPoint
    BY <1>2, <1>3, <1>5, <1>7, <1>8, <1>9 DEF Held, Busy, All
  <2>3. \A y \in All : job'[y].writes = "update" => job'[y].id \in Rows'
    BY <1>3, <1>6 DEF Held
  <2>4. \A y \in All : job'[y].step \in {"point", "files"} /\ job'[y].id # NoId
          => identities'[job'[y].id] = Gone
    BY <1>2, <1>3 DEF Held
  <2> QED BY <2>1, <2>2, <2>3, <2>4 DEF Held
<1>11. Alone'
  BY <1>1, <1>3, <1>5, <1>6, <1>8, StepAlone DEF Alone
<1> QED BY <1>4, <1>10, <1>11

(* The row is committed when its point is there.                            *)
LEMMA CommitStep ==
  ASSUME VoiceAssumption, Jobs, Rest, Held, Alone, NEW w \in Workers, Commit(w)
  PROVE  Jobs' /\ Held' /\ Alone' /\ identities' \in [Ids -> Row \cup {Gone}]
<1> DEFINE i == job[w].id
<1> DEFINE row == [linked |-> job[w].kind = "enroll", name |-> job[w].name]
<1>1. /\ job[w] \in Tasks /\ w \in Busy /\ w \in All /\ i \in Ids
      /\ job[w].step = "upserted" /\ Flushed(w)
  BY Whose DEF Commit, Flushed, All, Tasks
<1>2. End(w) /\ UNCHANGED points
  BY DEF Commit
<1>3. /\ Jobs' /\ Busy' = Busy \ {w} /\ job'[w] = Idle
      /\ \A y \in All \ {w} : job'[y] = job[y]
  BY <1>1, <1>2, EndJobs
<1>4. /\ identities'[i] = IF job[w].writes = "nothing" THEN identities[i] ELSE row
      /\ \A x \in Ids \ {i} : identities'[x] = identities[x]
      /\ identities' = [x \in Ids |-> identities'[x]]
  BY <1>1 DEF Commit, Rest
<1>5. row \in Row /\ row # Gone
  <2>1. (job[w].kind = "enroll") \in BOOLEAN /\ job[w].name \in Name
    BY <1>1 DEF Tasks
  <2>2. row \in Row
    BY <2>1 DEF Row
  <2> QED BY <2>2, Kinds
<1> HIDE DEF row
<1>6. identities' \in [Ids -> Row \cup {Gone}]
  BY <1>1, <1>4, <1>5 DEF Rest
<1>7. Rows \subseteq Rows' /\ (\A x \in Rows' : x = i \/ x \in Rows) /\ Rows \subseteq Ids
  BY <1>1, <1>4, <1>5 DEF Rows
<1>8. i \in Rows' => points[i] # NoPoint
  <2>1. CASE job[w].writes = "insert"
    BY <1>1, <2>1 DEF Held, Inserts
  <2>2. CASE job[w].writes = "update"
    BY <1>1, <2>2 DEF Held
  <2>3. CASE job[w].writes = "nothing"
    BY <1>1, <1>4, <2>3 DEF Held, Rows
  <2> QED BY <1>1, <2>1, <2>2, <2>3 DEF Tasks
<1>9. \A y \in All : Inserts(y)' => y # w /\ Inserts(y) /\ y \in Busy /\ job[y].id \in Ids \ {i}
  <2>1. \A y \in All : Inserts(y)' => y # w /\ Inserts(y) /\ y \in Busy
    BY <1>3, Kinds DEF Inserts, Flushed, Busy, All
  <2> QED BY <1>1, <2>1, Whose DEF Inserts, Tasks, Held
<1>10. Held'
  <2>1. \A x \in Rows' : points'[x] # NoPoint
    BY <1>2, <1>7, <1>8 DEF Held
  <2>2. \A y \in All : Inserts(y)' =>
          /\ identities'[job'[y].id] = Gone
          /\ \A z \in Busy' : z # y => job'[z].id # job'[y].id
          /\ job'[y].step = "upserted" => points'[job'[y].id] # NoPoint
    BY <1>2, <1>3, <1>4, <1>9 DEF Held, Busy, All
  <2>3. \A y \in All : job'[y].writes = "update" => job'[y].id \in Rows'
    BY <1>3, <1>7, Kinds DEF Held
  <2>4. ASSUME NEW y \in All, job'[y].step \in {"point", "files"}, job'[y].id # NoId
        PROVE  identities'[job'[y].id] = Gone
    <3>1. y # w /\ job'[y] = job[y] /\ y \in Busy
      BY <1>3, <2>4, Kinds DEF Busy, All
    <3>2. job[y].id \in Ids /\ identities[job[y].id] = Gone
      BY <2>4, <3>1, Whose DEF Removals, Held
    <3>3. CASE job[y].id = i
      <4>1. job[w].writes # "insert"
        BY <1>1, <3>1, <3>3 DEF Held, Inserts
      <4>2. job[w].writes # "update"
        BY <1>1, <3>2, <3>3 DEF Held, Rows
      <4>3. job[w].writes = "nothing"
        BY <1>1, <4>1, <4>2 DEF Tasks
      <4> QED BY <1>4, <3>1, <3>2, <3>3, <4>3
    <3>4. CASE job[y].id # i
      BY <1>4, <3>1, <3>2, <3>4
    <3> QED BY <3>3, <3>4
  <2> QED BY <2>1, <2>2, <2>3, <2>4 DEF Held
<1> QED BY <1>1, <1>2, <1>3, <1>6, <1>10, EndAlone

(* Every step keeps what requests and tasks hold.                            *)
LEMMA WorkStep ==
  ASSUME VoiceAssumption, Jobs, Rest, Held, Alone, [Next]_vars
  PROVE  Jobs' /\ Held' /\ Alone'
<1>1. CASE UNCHANGED <<identities, points, job>>
  BY <1>1, Nobody
<1>2. ASSUME NEW r \in Requests, NEW e \in Extensions, Upload(r, e)
      PROVE  Jobs' /\ Held' /\ Alone'
  <2>1. PICK j : j = [Idle EXCEPT !.step = "saving", !.kind = "upload", !.sample = e] /\ Begin(r, j)
    BY <1>2 DEF Upload
  <2>2. j \in Uploads
    BY <2>1 DEF Idle, Uploads
  <2>3. /\ r \in All /\ r \notin Workers /\ UNCHANGED <<identities, points>>
        /\ j.step = "saving" /\ j.kind = "upload" /\ j.id = NoId
    BY <1>2, <2>2, Kinds DEF Upload, All, Uploads
  <2> QED BY <2>1, <2>2, <2>3, BeginStep
<1>3. ASSUME NEW x \in All, End(x), job[x].step # "idle", UNCHANGED identities,
             \A i \in Ids : points[i] # NoPoint => points'[i] # NoPoint
      PROVE  Jobs' /\ Held' /\ Alone'
  BY <1>3, EndStep, Whose
<1>4. ASSUME NEW r \in Requests, Uploaded(r) \/ UploadRefused(r) \/ RemoveFiles(r) \/ RemoveRaises(r)
      PROVE  Jobs' /\ Held' /\ Alone'
  <2>1. r \in All /\ End(r) /\ job[r].step # "idle" /\ UNCHANGED <<identities, points>>
    BY <1>4 DEF Uploaded, UploadRefused, RemoveFiles, RemoveRaises, At, stored, All
  <2> QED BY <1>3, <2>1
<1>5. ASSUME NEW r \in Requests, RemoveRead(r)
      PROVE  Jobs' /\ Held' /\ Alone'
  <2>0. r \in All /\ r \notin Workers /\ UNCHANGED <<identities, points>>
    BY <1>5, Kinds DEF RemoveRead, stored, All
  <2>1. ASSUME NEW i \in Linked,
               Begin(r, [Idle EXCEPT !.step = "row", !.kind = "remove", !.id = i])
        PROVE  Jobs' /\ Held' /\ Alone'
    <3>1. PICK j : j = [Idle EXCEPT !.step = "row", !.kind = "remove", !.id = i] /\ Begin(r, j)
      BY <2>1
    <3>2. i \in Ids /\ identities[i] # Gone
      BY DEF Linked, Rows
    <3>3. j \in Removals /\ j.step = "row" /\ j.kind = "remove" /\ j.id = i
      BY <3>1, <3>2 DEF Idle, Removals
    <3>4. \A y \in Busy : Inserts(y) => job[y].id # j.id
      BY <3>2, <3>3 DEF Held, Busy, All
    <3>5. j.id # NoId
      BY <3>2, <3>3, Kinds
    <3> QED BY <2>0, <3>1, <3>3, <3>4, <3>5, BeginStep
  <2>2. ASSUME Begin(r, [Idle EXCEPT !.step = "files", !.kind = "remove"])
        PROVE  Jobs' /\ Held' /\ Alone'
    <3>1. PICK j : j = [Idle EXCEPT !.step = "files", !.kind = "remove"] /\ Begin(r, j)
      BY <2>2
    <3>2. j \in Removals /\ j.step = "files" /\ j.kind = "remove" /\ j.id = NoId
      BY <3>1 DEF Idle, Removals
    <3> QED BY <2>0, <3>1, <3>2, BeginStep
  <2> QED BY <1>5, <2>1, <2>2 DEF RemoveRead
<1>6. ASSUME NEW r \in Requests, RemoveRow(r) \/ RemovePoint(r)
      PROVE  Jobs' /\ Held' /\ Alone'
  BY <1>6, RemoveRowStep, RemovePointStep DEF Rest
<1>7. ASSUME NEW w \in Workers, NEW e \in Samples,
             Begin(w, [Idle EXCEPT !.step = "embedded", !.kind = "enroll", !.sample = files[e]]),
             UNCHANGED <<identities, points>>
      PROVE  Jobs' /\ Held' /\ Alone'
  <2>1. PICK j : /\ j = [Idle EXCEPT !.step = "embedded", !.kind = "enroll", !.sample = files[e]]
                 /\ Begin(w, j)
    BY <1>7
  <2>2. files[e] \in 1 .. MaxSamples
    BY DEF Samples, Rest, VoiceAssumption
  <2>3. j \in Embedded /\ j.step = "embedded" /\ j.kind = "enroll" /\ j.id = NoId
    BY <2>1, <2>2 DEF Idle, Embedded
  <2>4. w \in All /\ w \notin Requests
    BY Kinds DEF All
  <2> QED BY <1>7, <2>1, <2>3, <2>4, BeginStep
<1>8. ASSUME NEW w \in Workers, Enroll(w)
      PROVE  Jobs' /\ Held' /\ Alone'
  BY <1>1, <1>7, <1>8 DEF Enroll
<1>9. ASSUME NEW w \in Workers, Load(w) \/ Upsert(w) \/ Commit(w)
      PROVE  Jobs' /\ Held' /\ Alone'
  BY <1>9, LoadStep, UpsertStep, CommitStep
<1>10. ASSUME NEW w \in Workers, UpsertFails(w)
       PROVE  Jobs' /\ Held' /\ Alone'
  <2>1. w \in All /\ End(w) /\ job[w].step = "flushed" /\ UNCHANGED identities
    BY <1>10 DEF UpsertFails, All
  <2>2. job[w].sample # NoPoint /\ job[w].id \in Ids
    BY <2>1, Whose, Kinds DEF Flushed, Tasks
  <2>3. \A i \in Ids : points[i] # NoPoint => points'[i] # NoPoint
    BY <1>10, <2>2 DEF UpsertFails, Rest
  <2> QED BY <1>3, <2>1, <2>3
<1>11. ASSUME NEW w \in Workers, Dies(w)
       PROVE  Jobs' /\ Held' /\ Alone'
  <2>1. w \in All /\ End(w) /\ job[w].step # "idle" /\ UNCHANGED <<identities, points>>
    BY <1>11 DEF Dies, stored, All
  <2> QED BY <1>3, <2>1
<1>12. ASSUME NEW w \in Workers, NEW b \in Names, Spot(w, b)
       PROVE  Jobs' /\ Held' /\ Alone'
  <2>1. PICK i \in Ids :
          /\ Fresh(i)
          /\ Begin(w, [Idle EXCEPT !.step = "flushed", !.kind = "spot", !.id = i,
                                   !.name = FreeName(b), !.sample = Heard])
    BY <1>12 DEF Spot
  <2>2. PICK j : /\ j = [Idle EXCEPT !.step = "flushed", !.kind = "spot", !.id = i,
                                     !.name = FreeName(b), !.sample = Heard]
                 /\ Begin(w, j)
    BY <2>1
  <2>3. FreeName(b) \in Name /\ FreeName(b) \notin Used
    <3>1. PICK n \in 1 .. Cardinality(Rows) + 1 : FreeName(b) = <<b, n>> /\ <<b, n>> \notin Used
      BY FreeNameIsFree
    <3>2. IsFiniteSet(Ids) /\ Rows \subseteq Ids \ {i}
      BY <2>1 DEF Fresh, Rows, VoiceAssumption
    <3>3. IsFiniteSet(Ids \ {i}) /\ Cardinality(Ids \ {i}) = Cardinality(Ids) - 1
      BY <3>2, FS_RemoveElement
    <3>4. Cardinality(Rows) <= Cardinality(Ids \ {i})
      BY <3>2, <3>3, FS_Subset
    <3>5. Cardinality(Rows) \in Nat /\ Cardinality(Ids) \in Nat
      BY <3>2, <3>3, FS_Subset, FS_CardinalityType
    <3>6. n \in 1 .. Cardinality(Ids)
      BY <3>3, <3>4, <3>5
    <3> QED BY <3>1, <3>6 DEF Name
  <2>4. j = [step |-> "flushed", kind |-> "spot", id |-> i, name |-> FreeName(b), sample |-> Heard,
             writes |-> "insert", alone |-> TRUE]
    BY <2>2 DEF Idle
  <2>5. j \in Tasks
    BY <2>3, <2>4, Kinds DEF Tasks
  <2>6. w \in All /\ w \notin Requests /\ UNCHANGED <<identities, points>>
    BY <1>12, Kinds DEF All, Spot, stored
  <2>7. \A y \in Busy : Inserts(y) => job[y].id # j.id
    BY <2>1, <2>4 DEF Fresh
  <2> QED BY <2>1, <2>2, <2>3, <2>4, <2>5, <2>6, <2>7, BeginStep
<1>13. CASE UNCHANGED vars
  BY <1>1, <1>13 DEF vars
<1>14. ASSUME NEW n \in Names, Rename(n) PROVE Jobs' /\ Held' /\ Alone'
  BY <1>1, <1>14 DEF Rename
<1> QED BY <1>2, <1>4, <1>5, <1>6, <1>8, <1>9, <1>10, <1>11, <1>12, <1>13, <1>14 DEF Next

(* Every step keeps the types of rows, points and files.                     *)
LEMMA RestStep ==
  ASSUME VoiceAssumption, Jobs, Rest, Held, Alone, Counting, [Next]_vars
  PROVE  Rest'
<1>0. taken \in Nat /\ taken <= MaxSamples /\ MaxSamples \in Nat
  BY DEF Counting, VoiceAssumption
<1>1. identities' \in [Ids -> Row \cup {Gone}]
  <2>1. CASE UNCHANGED identities
    BY <2>1 DEF Rest
  <2>2. ASSUME NEW w \in Workers, Commit(w) PROVE identities' \in [Ids -> Row \cup {Gone}]
    BY <2>2, CommitStep
  <2>3. ASSUME NEW r \in Requests, RemoveRow(r) PROVE identities' \in [Ids -> Row \cup {Gone}]
    BY <2>3 DEF RemoveRow, Rest
  <2>4. \/ UNCHANGED identities
        \/ \E w \in Workers : Commit(w)
        \/ \E r \in Requests : RemoveRow(r)
    BY DEF Next, vars, stored, Rename, Upload, Uploaded, UploadRefused, RemoveRead, RemovePoint,
           RemoveFiles, RemoveRaises, Enroll, Load, Upsert, UpsertFails, Dies, Spot
  <2> QED BY <2>1, <2>2, <2>3, <2>4
<1>2. points' \in [Ids -> 0 .. Heard]
  <2>1. CASE UNCHANGED points
    BY <2>1 DEF Rest
  <2>2. ASSUME NEW w \in Workers, Upsert(w) \/ UpsertFails(w) PROVE points' \in [Ids -> 0 .. Heard]
    <3>1. job[w] \in Tasks
      BY <2>2, Whose DEF Upsert, UpsertFails, Flushed, All
    <3>2. job[w].sample \in 0 .. Heard
      BY <3>1, Kinds DEF Tasks
    <3>3. points' \in {points, [points EXCEPT ![job[w].id] = job[w].sample]}
      BY <2>2 DEF Upsert, UpsertFails
    <3> QED BY <3>2, <3>3 DEF Rest
  <2>3. ASSUME NEW r \in Requests, RemovePoint(r) PROVE points' \in [Ids -> 0 .. Heard]
    <3>1. NoPoint \in 0 .. Heard /\ points' = [points EXCEPT ![job[r].id] = NoPoint]
      BY <2>3, Kinds DEF RemovePoint
    <3> QED BY <3>1 DEF Rest
  <2>4. \/ UNCHANGED points
        \/ \E w \in Workers : Upsert(w) \/ UpsertFails(w)
        \/ \E r \in Requests : RemovePoint(r)
    BY DEF Next, vars, stored, Rename, Upload, Uploaded, UploadRefused, RemoveRead, RemoveRow,
           RemoveFiles, RemoveRaises, Enroll, Load, Commit, Dies, Spot
  <2> QED BY <2>1, <2>2, <2>3, <2>4
<1>3. files' \in [Extensions -> 0 .. MaxSamples]
  <2>1. CASE UNCHANGED files
    BY <2>1 DEF Rest
  <2>2. ASSUME NEW r \in Requests, NEW e \in Extensions, Upload(r, e)
        PROVE  files' \in [Extensions -> 0 .. MaxSamples]
    BY <1>0, <2>2 DEF Upload, Rest
  <2>3. ASSUME NEW r \in Requests, UploadRefused(r) \/ RemoveFiles(r)
        PROVE  files' \in [Extensions -> 0 .. MaxSamples]
    BY <1>0, <2>3 DEF UploadRefused, RemoveFiles, Rest
  <2>4. \/ UNCHANGED files
        \/ \E r \in Requests : UploadRefused(r) \/ RemoveFiles(r) \/ \E e \in Extensions : Upload(r, e)
    BY DEF Next, vars, stored, Rename, Uploaded, RemoveRead, RemoveRow, RemovePoint, RemoveRaises,
           Enroll, Load, Upsert, UpsertFails, Commit, Dies, Spot
  <2> QED BY <2>1, <2>2, <2>3, <2>4
<1>4. full_name' \in Names
  BY DEF Rest, Next, vars, stored, Rename, Upload, Uploaded, UploadRefused, RemoveRead, RemoveRow,
         RemovePoint, RemoveFiles, RemoveRaises, Enroll, Load, Upsert, UpsertFails, Commit, Dies, Spot
<1> QED BY <1>1, <1>2, <1>3, <1>4 DEF Rest

(* Every step keeps the count of the tasks and of the uploads under way.      *)
LEMMA CountingStep ==
  ASSUME VoiceAssumption, Jobs, Counting, [Next]_vars
  PROVE  Counting'
<1>0. /\ taken \in 0 .. MaxSamples /\ queue \in Nat /\ MaxSamples \in Nat
      /\ IsFiniteSet(Saving) /\ Cardinality(Saving) \in Nat /\ queue + Cardinality(Saving) <= taken
  BY FS_CardinalityType DEF Counting, VoiceAssumption
<1>1. ASSUME taken' = taken, queue' \in Nat, queue' <= queue,
             \A r \in Requests : job'[r].step = "saving" => job[r].step = "saving"
      PROVE  Counting'
  <2>1. Saving' \subseteq Saving
    BY <1>1 DEF Saving
  <2>2. IsFiniteSet(Saving') /\ Cardinality(Saving') <= Cardinality(Saving)
    BY <1>0, <2>1, FS_Subset
  <2>3. Cardinality(Saving') \in Nat
    BY <2>2, FS_CardinalityType
  <2> QED BY <1>0, <1>1, <2>2, <2>3 DEF Counting
(* Who begins leaves the others where they are. *)
<1>2. ASSUME NEW x \in All, NEW j, Begin(x, j)
      PROVE  /\ x \notin Busy
             /\ \A y \in All \ {x} : job'[y].step = job[y].step
             /\ j \in Uploads \cup Removals \cup Embedded \cup Tasks => job'[x].step = j.step
  <2>1. \A y \in Busy : job[y] \in Uploads \cup Removals \cup Embedded \cup Tasks
    BY Whose DEF All, Busy
  <2>2. ASSUME NEW y \in All \ {x} PROVE job'[y].step = job[y].step
    <3>1. CASE y \in Busy
      <4>1. job'[y] = [job[y] EXCEPT !.alone = FALSE]
        BY <1>2, <3>1 DEF Begin, All
      <4> QED BY <2>1, <3>1, <4>1 DEF Uploads, Removals, Embedded, Tasks
    <3>2. CASE y \notin Busy
      BY <1>2, <3>2 DEF Begin, All
    <3> QED BY <3>1, <3>2
  <2>3. job'[x] = [j EXCEPT !.alone = (Busy = {})] /\ x \notin Busy
    BY <1>2 DEF Begin, All
  <2>4. j \in Uploads \cup Removals \cup Embedded \cup Tasks => job'[x].step = j.step
    BY <2>3 DEF Uploads, Removals, Embedded, Tasks
  <2> QED BY <2>2, <2>3, <2>4
<1>3. ASSUME NEW r \in Requests, NEW e \in Extensions, Upload(r, e)
      PROVE  Counting'
  <2>1. PICK j : j = [Idle EXCEPT !.step = "saving", !.kind = "upload", !.sample = e] /\ Begin(r, j)
    BY <1>3 DEF Upload
  <2>2. j \in Uploads /\ j.step = "saving" /\ r \in All
    BY <2>1 DEF Idle, Uploads, All
  <2>3. r \notin Saving
    BY <1>2, <2>1, <2>2 DEF Saving, Busy
  <2>4. Saving' = Saving \cup {r}
    BY <1>2, <2>1, <2>2 DEF Saving, All
  <2>5. IsFiniteSet(Saving') /\ Cardinality(Saving') = Cardinality(Saving) + 1
    BY <1>0, <2>3, <2>4, FS_AddElement
  <2>6. taken' = taken + 1 /\ queue' = queue /\ taken < MaxSamples
    BY <1>3 DEF Upload
  <2> QED BY <1>0, <2>5, <2>6 DEF Counting
<1>4. ASSUME NEW r \in Requests, Uploaded(r)
      PROVE  Counting'
  <2>1. r \in Busy /\ r \in Saving /\ r \in All /\ End(r)
    BY <1>4 DEF Uploaded, At, Saving, Busy, All
  <2>2. Saving' = Saving \ {r}
    BY <2>1, EndJobs, Kinds DEF Saving, All
  <2>3. IsFiniteSet(Saving') /\ Cardinality(Saving') = Cardinality(Saving) - 1
    BY <1>0, <2>1, <2>2, FS_RemoveElement
  <2>4. Cardinality(Saving') \in Nat
    BY <2>3, FS_CardinalityType
  <2>5. taken' = taken /\ queue' \in {queue, queue + 1}
    BY <1>4 DEF Uploaded
  <2> QED BY <1>0, <2>3, <2>4, <2>5 DEF Counting
<1>5. ASSUME NEW x \in All, End(x), job[x].step # "idle", UNCHANGED <<taken, queue>>
      PROVE  Counting'
  <2>1. x \in Busy
    BY <1>5 DEF Busy, All
  <2>2. \A y \in All : job'[y].step = "saving" => job[y].step = "saving"
    BY <1>5, <2>1, EndJobs, Kinds
  <2> QED BY <1>0, <1>1, <1>5, <2>2 DEF All
<1>6. ASSUME NEW x \in All, NEW s, job' = [job EXCEPT ![x].step = s], s # "saving", job[x].step # "idle",
             UNCHANGED <<taken, queue>>
      PROVE  Counting'
  <2>1. job[x] \in Uploads \cup Removals \cup Embedded \cup Tasks
    BY <1>6, Whose DEF All
  <2>2. job'[x].step = s /\ \A y \in All \ {x} : job'[y] = job[y]
    BY <1>6, <2>1 DEF Jobs, Uploads, Removals, Embedded, Tasks
  <2> QED BY <1>0, <1>1, <1>6, <2>2 DEF All
<1>7. ASSUME NEW r \in Requests,
             \/ UploadRefused(r) \/ RemoveRead(r) \/ RemoveRow(r) \/ RemovePoint(r)
             \/ RemoveFiles(r) \/ RemoveRaises(r)
      PROVE  Counting'
  <2>0. r \in All
    BY DEF All
  <2>1. CASE UploadRefused(r) \/ RemoveFiles(r) \/ RemoveRaises(r)
    <3>1. End(r) /\ job[r].step # "idle" /\ UNCHANGED <<taken, queue>>
      BY <2>1 DEF UploadRefused, RemoveFiles, RemoveRaises, At, stored
    <3> QED BY <1>5, <2>0, <3>1
  <2>2. CASE RemoveRow(r) \/ RemovePoint(r)
    <3>1. PICK s \in {"point", "files"} :
            job' = [job EXCEPT ![r].step = s] /\ job[r].step # "idle" /\ UNCHANGED <<taken, queue>>
      BY <2>2 DEF RemoveRow, RemovePoint, Step, At
    <3> QED BY <1>6, <2>0, <3>1
  <2>3. CASE RemoveRead(r)
    <3>1. PICK j : /\ Begin(r, j)
                   /\ \/ \E i \in Linked : j = [Idle EXCEPT !.step = "row", !.kind = "remove", !.id = i]
                      \/ j = [Idle EXCEPT !.step = "files", !.kind = "remove"]
      BY <2>3 DEF RemoveRead
    <3>2. j \in Removals
      BY <3>1 DEF Linked, Rows, Idle, Removals
    <3>3. \A y \in Requests : job'[y].step = "saving" => job[y].step = "saving"
      BY <1>2, <2>0, <3>1, <3>2 DEF Removals, All
    <3>4. taken' = taken /\ queue' = queue
      BY <2>3 DEF RemoveRead, stored
    <3> QED BY <1>0, <1>1, <3>3, <3>4
  <2> QED BY <1>7, <2>1, <2>2, <2>3
<1>8. ASSUME NEW w \in Workers,
             \/ Enroll(w) \/ Load(w) \/ Upsert(w) \/ UpsertFails(w) \/ Commit(w) \/ Dies(w)
             \/ \E b \in Names : Spot(w, b)
      PROVE  Counting'
  <2>0. w \in All /\ w \notin Requests
    BY Kinds DEF All
  <2>1. CASE UpsertFails(w) \/ Commit(w) \/ Dies(w)
    <3>1. End(w) /\ job[w].step # "idle" /\ UNCHANGED <<taken, queue>>
      BY <2>1 DEF UpsertFails, Commit, Dies, stored
    <3> QED BY <1>5, <2>0, <3>1
  <2>2. CASE Upsert(w) \/ Load(w)
    <3>1. (\A y \in Requests : job'[y] = job[y]) /\ UNCHANGED <<taken, queue>>
      BY <2>0, <2>2 DEF Upsert, Load, Step, stored, Jobs, All
    <3> QED BY <1>0, <1>1, <3>1
  <2>3. CASE Enroll(w) \/ \E b \in Names : Spot(w, b)
    <3>1. (\E j : Begin(w, j)) \/ UNCHANGED job
      BY <2>3 DEF Enroll, Spot
    <3>2. \A y \in Requests : job'[y].step = job[y].step
      BY <1>2, <2>0, <3>1 DEF All
    <3>3. taken' = taken /\ queue' \in Nat /\ queue' <= queue
      <4>1. taken' = taken /\ (queue' = queue \/ (queue > 0 /\ queue' = queue - 1))
        BY <2>3 DEF Enroll, Spot, stored
      <4> QED BY <1>0, <4>1
    <3> QED BY <1>1, <3>2, <3>3
  <2> QED BY <1>8, <2>1, <2>2, <2>3
<1>9. CASE UNCHANGED vars \/ \E n \in Names : Rename(n)
  <2>1. UNCHANGED <<taken, queue, job>>
    BY <1>9 DEF vars, Rename
  <2> QED BY <1>0, <1>1, <2>1
<1> QED BY <1>3, <1>4, <1>7, <1>8, <1>9 DEF Next

(* The invariant holds in every state.                                       *)
LEMMA Invariant == Spec => []IInv
<1> USE VoiceAssumption
<1>1. Init => IInv
  <2> SUFFICES ASSUME Init PROVE IInv
    OBVIOUS
  <2>1. job = [x \in All |-> Idle]
    BY DEF Init, All
  <2>2. Busy = {} /\ Rows = {} /\ \A x \in All : job[x] = Idle
    BY <2>1, Kinds DEF Busy, All, Rows, Init
  <2>3. Jobs
    BY <2>1, Kinds DEF Jobs, All
  <2>4. Rest
    BY Kinds DEF Rest, Init
  <2>5. Counting
    <3>1. Saving = {}
      BY <2>2, Kinds DEF Saving, All
    <3> QED BY <3>1, FS_EmptySet DEF Counting, Init
  <2>6. Held /\ Alone
    BY <2>2, Kinds DEF Held, Alone, Inserts, Flushed
  <2> QED BY <2>3, <2>4, <2>5, <2>6 DEF IInv
<1>2. IInv /\ [Next]_vars => IInv'
  BY WorkStep, RestStep, CountingStep DEF IInv
<1> QED BY <1>1, <1>2, PTL DEF Spec

(* For any number of uploads, removals and tasks at once: the state has its    *)
(* type, and every identity has its point, whatever fails in between.         *)
THEOREM TypeCorrect == Spec => []TypeOK
<1>1. IInv => TypeOK
  <2> SUFFICES ASSUME IInv PROVE TypeOK
    OBVIOUS
  <2>1. queue \in 0 .. MaxSamples
    <3>1. Cardinality(Saving) \in Nat
      BY FS_CardinalityType DEF IInv, Counting
    <3> QED BY <3>1, VoiceAssumption DEF IInv, Counting, VoiceAssumption
  <2> QED BY <2>1 DEF IInv, TypeOK, Rest, Counting, Held, Row, Name
<1> QED BY <1>1, Invariant, PTL

(* A second identity of the user, and a voice with a name in use, come only    *)
(* from a task that others ran beside, of any number.                         *)
THEOREM NoDuplicates == Spec => DuplicatesNeedOverlap
<1> DEFINE A == \A i \in Ids : identities[i] = Gone /\ identities'[i] # Gone =>
                  \/ identities'[i].linked /\ Linked = {}
                  \/ ~identities'[i].linked /\ identities'[i].name \notin Used
                  \/ \E w \in Workers : job[w].id = i /\ ~job[w].alone
<1> USE VoiceAssumption
<1>1. ASSUME IInv, [Next]_vars, NEW i \in Ids, identities[i] = Gone, identities'[i] # Gone
      PROVE  \/ identities'[i].linked /\ Linked = {}
             \/ ~identities'[i].linked /\ identities'[i].name \notin Used
             \/ \E w \in Workers : job[w].id = i /\ ~job[w].alone
  <2>1. ~UNCHANGED identities /\ ~\E r \in Requests : RemoveRow(r)
    BY <1>1 DEF RemoveRow, IInv, Rest
  <2>2. PICK w \in Workers : Commit(w)
    BY <1>1, <2>1 DEF Next, vars, stored, Rename, Upload, Uploaded, UploadRefused, RemoveRead,
       RemovePoint, RemoveFiles, RemoveRaises, Enroll, Load, Upsert, UpsertFails, Dies, Spot
  <2>3. job[w] \in Tasks /\ w \in Busy /\ Flushed(w) /\ job[w].step = "upserted"
    BY <1>1, <2>2, Whose DEF IInv, Commit, Flushed, All
  <2>4. job[w].id = i /\ job[w].writes # "nothing"
    BY <1>1, <2>2, <2>3 DEF Commit, IInv, Rest
  <2>5. identities'[i] = [linked |-> job[w].kind = "enroll", name |-> job[w].name]
    BY <1>1, <2>2, <2>4 DEF Commit, IInv, Rest
  <2>6. job[w].writes # "update"
    BY <1>1, <2>3, <2>4 DEF IInv, Held, Rows, Busy, All
  <2>7. Inserts(w)
    BY <2>3, <2>4, <2>6 DEF Inserts, Tasks
  <2>8. CASE job[w].alone
    <3>1. IF job[w].kind = "enroll" THEN Linked = {} ELSE job[w].name \notin Used
      BY <1>1, <2>3, <2>7, <2>8 DEF IInv, Alone
    <3>2. /\ identities'[i].linked = (job[w].kind = "enroll")
          /\ identities'[i].name = job[w].name
      BY <2>5
    <3> QED BY <3>1, <3>2
  <2> QED BY <2>4, <2>8
<1>2. IInv /\ [Next]_vars => [A]_vars
  BY <1>1
<1> QED BY <1>2, Invariant, PTL DEF Spec, DuplicatesNeedOverlap

(* Who is done has ended; nobody else ends it.                               *)
LEMMA WhoEnds ==
  ASSUME VoiceAssumption, Jobs, [Next]_vars, NEW x \in Busy, job'[x] = Idle
  PROVE  \/ x \in Requests /\ (Uploaded(x) \/ UploadRefused(x) \/ RemoveFiles(x) \/ RemoveRaises(x))
         \/ x \in Workers /\ (UpsertFails(x) \/ Commit(x) \/ Dies(x))
<1>0. x \in All /\ job[x].step # "idle" /\ job'[x].step = "idle"
      /\ job[x] \in Uploads \cup Removals \cup Embedded \cup Tasks /\ job = [y \in All |-> job[y]]
  BY Whose, Kinds DEF Busy, All, Jobs
<1>1. ASSUME NEW y \in All, NEW j, Begin(y, j) PROVE FALSE
  <2>1. y # x /\ job'[x] = [job[x] EXCEPT !.alone = FALSE]
    BY <1>0, <1>1 DEF Begin, All
  <2> QED BY <1>0, <2>1 DEF Uploads, Removals, Embedded, Tasks
<1>2. ASSUME NEW y \in All, NEW s, Step(y, s), s # "idle" PROVE FALSE
  <2>1. job'[x] = job[x] \/ job'[x] = [job[x] EXCEPT !.step = s]
    BY <1>0, <1>2 DEF Step
  <2> QED BY <1>0, <1>2, <2>1 DEF Uploads, Removals, Embedded, Tasks
<1>3. ASSUME NEW y \in All, End(y) PROVE y = x
  BY <1>0, <1>3 DEF End
<1>4. ~UNCHANGED job
  BY <1>0
<1>5. ~UNCHANGED vars /\ ~\E n \in Names : Rename(n)
  BY <1>4 DEF vars, Rename
<1>6. ASSUME NEW r \in Requests
      PROVE  /\ ~RemoveRead(r) /\ ~RemoveRow(r) /\ ~RemovePoint(r)
             /\ \A e \in Extensions : ~Upload(r, e)
  <2>1. r \in All
    BY DEF All
  <2> QED BY <1>1, <1>2, <2>1 DEF RemoveRead, RemoveRow, RemovePoint, Upload
<1>7. ASSUME NEW w \in Workers
      PROVE  /\ ~Enroll(w) /\ ~Upsert(w) /\ \A b \in Names : ~Spot(w, b)
  <2>1. w \in All
    BY DEF All
  <2> QED BY <1>1, <1>2, <1>4, <2>1 DEF Enroll, Upsert, Spot
<1>8. ASSUME NEW w \in Workers, Load(w) PROVE FALSE
  <2>1. w \in All /\ job[w] \in Embedded
    BY <1>8, Whose DEF Load, At, All
  <2>2. PICK i, how : job' = [job EXCEPT ![w].step = "flushed", ![w].id = i, ![w].writes = how,
                                         ![w].name = <<full_name, 1>>]
    BY <1>8 DEF Load
  <2>3. CASE w = x
    <3>1. job'[x] = [job[x] EXCEPT !.step = "flushed", !.id = i, !.writes = how,
                                   !.name = <<full_name, 1>>]
      BY <1>0, <2>2, <2>3
    <3>2. job'[x].step = "flushed"
      BY <2>1, <2>3, <3>1 DEF Embedded
    <3> QED BY <1>0, <3>2
  <2>4. CASE w # x
    BY <1>0, <2>2, <2>4
  <2> QED BY <2>3, <2>4
<1>9. \/ \E r \in Requests : Uploaded(r) \/ UploadRefused(r) \/ RemoveFiles(r) \/ RemoveRaises(r)
      \/ \E w \in Workers : UpsertFails(w) \/ Commit(w) \/ Dies(w)
  BY <1>5, <1>6, <1>7, <1>8 DEF Next
<1>10. ASSUME NEW r \in Requests, Uploaded(r) \/ UploadRefused(r) \/ RemoveFiles(r) \/ RemoveRaises(r)
       PROVE  r = x
  BY <1>3, <1>10 DEF Uploaded, UploadRefused, RemoveFiles, RemoveRaises, All
<1>11. ASSUME NEW w \in Workers, UpsertFails(w) \/ Commit(w) \/ Dies(w)
       PROVE  w = x
  BY <1>3, <1>11 DEF UpsertFails, Commit, Dies, All
<1> QED BY <1>9, <1>10, <1>11

(* A removal of any number at once leaves a sample, a row or a point, and a    *)
(* task a point without its row, only by a failure or beside others.          *)
THEOREM RemovalWhole == Spec => RemovalComplete
<1> DEFINE A == \A x \in Requests \cup Workers :
                  LET i == job[x].id
                      orphaned == i \in Ids /\ identities'[i] = Gone /\ points'[i] # NoPoint
                  IN
                  job[x].step # "idle" /\ job'[x] = Idle /\ job[x].alone =>
                    /\ orphaned => UpsertFails(x) \/ Dies(x) \/ RemoveRaises(x)
                    /\ job[x].step = "files" => Samples' = {} /\ i \notin Rows'
<1> USE VoiceAssumption
<1>1. ASSUME IInv, [Next]_vars, NEW x \in All, job[x].step # "idle", job'[x] = Idle, job[x].alone
      PROVE  /\ job[x].id \in Ids /\ identities'[job[x].id] = Gone /\ points'[job[x].id] # NoPoint
                  => UpsertFails(x) \/ Dies(x) \/ RemoveRaises(x)
             /\ job[x].step = "files" => Samples' = {} /\ job[x].id \notin Rows'
  <2>1. x \in Busy /\ Jobs /\ Rest /\ Held /\ Alone
    BY <1>1, Whose DEF IInv
  <2>2. \/ x \in Requests /\ (Uploaded(x) \/ UploadRefused(x) \/ RemoveFiles(x) \/ RemoveRaises(x))
        \/ x \in Workers /\ (UpsertFails(x) \/ Commit(x) \/ Dies(x))
    BY <1>1, <2>1, WhoEnds
  <2>3. CASE Uploaded(x) \/ UploadRefused(x)
    <3>1. job[x] \in Uploads
      BY <2>1, <2>3, Whose DEF Uploaded, UploadRefused, At
    <3> QED BY <3>1, Kinds DEF Uploads
  <2>4. CASE RemoveFiles(x)
    <3>1. job[x].step = "files" /\ job[x] \in Removals /\ UNCHANGED <<identities, points>>
          /\ files' = [e \in Extensions |-> 0]
      BY <2>1, <2>4, Whose DEF RemoveFiles, At
    <3>2. Samples' = {}
      BY <3>1 DEF Samples
    <3>3. job[x].id # NoId => points[job[x].id] = NoPoint /\ identities[job[x].id] = Gone
      BY <1>1, <2>1, <3>1 DEF Alone, Held
    <3>4. job[x].id \notin Rows'
      BY <3>1, <3>3, Kinds DEF Rows
    <3> QED BY <3>1, <3>2, <3>3, <3>4, Kinds
  <2>5. CASE x \in Workers /\ Commit(x)
    <3>1. job[x] \in Tasks /\ job[x].step = "upserted" /\ Flushed(x)
      BY <2>1, <2>5, Whose DEF Commit, Flushed
    <3>2. identities'[job[x].id] # Gone
      <4>1. CASE job[x].writes = "nothing"
        <5>1. job[x].id \in Rows
          BY <1>1, <2>1, <3>1, <4>1 DEF Alone
        <5> QED BY <2>1, <2>5, <3>1, <4>1, <5>1 DEF Commit, Rest, Rows, Tasks
      <4>2. CASE job[x].writes # "nothing"
        <5>1. identities'[job[x].id] = [linked |-> job[x].kind = "enroll", name |-> job[x].name]
          BY <2>1, <2>5, <3>1, <4>2 DEF Commit, Rest, Tasks
        <5>2. (job[x].kind = "enroll") \in BOOLEAN /\ job[x].name \in Name
          BY <3>1 DEF Tasks
        <5>3. identities'[job[x].id] \in Row
          BY <5>1, <5>2 DEF Row
        <5> QED BY <5>3, Kinds
      <4> QED BY <4>1, <4>2
    <3> QED BY <3>1, <3>2
  <2>6. CASE RemoveRaises(x) \/ (x \in Workers /\ (UpsertFails(x) \/ Dies(x)))
    <3>1. job[x].step # "files"
      <4>1. CASE RemoveRaises(x)
        BY <4>1 DEF RemoveRaises
      <4>2. CASE x \in Workers
        <5>1. job[x] \in Embedded \cup Tasks
          BY <1>1, <2>1, <4>2, Whose
        <5> QED BY <5>1 DEF Embedded, Tasks
      <4> QED BY <2>6, <4>1, <4>2
    <3> QED BY <2>6, <3>1
  <2> QED BY <2>2, <2>3, <2>4, <2>5, <2>6
<1>2. IInv /\ [Next]_vars => [A]_vars
  BY <1>1 DEF All
<1> QED BY <1>2, Invariant, PTL DEF Spec, RemovalComplete
=============================================================================
