-------------------------- MODULE DiarizationProofs --------------------------
(***************************************************************************)
(* What holds of the passes of one channel, for any number of passes and   *)
(* segments and whatever is heard: the registry stays whole and counts every *)
(* segment once, and the client ends up with the labels of the database.   *)
(*                                                                         *)
(*   Shape ... RegistryWhole      what is held is held for a provisional voice *)
(*   Smallest ... SumFibres       sums over finite sets                    *)
(*   Types ... ClientKeepsLabels  states are well formed; labels stay      *)
(*   Sound ... VoicesStep         a speaker that is told of has its voice  *)
(*   Apart ... DatabaseAgrees     the client agrees with the database      *)
(*   OnTheWay ...                 what is reported arrives, what is labelled *)
(*      EverythingReported           is reported                           *)
(*   Counted ... WeightsAddUp     weights add up                           *)
(*                                                                         *)
(* Sums are folds, hence recursive functions.  What they add up to is proved *)
(* by induction on subsets of a finite set, on a smallest counterexample.  *)
(***************************************************************************)
EXTENDS Diarization, FiniteSetTheorems, WellFoundedInduction, TLAPS

(* The id of a new speaker is a pair, wherever it occurs.                  *)
USE DEF NewSpeaker

-----------------------------------------------------------------------------
(***************************************************************************)
(* The registry is whole.                                                  *)
(***************************************************************************)

(* A step of the live session on one segment.                              *)
OnSegment(s) == CommitStreamed(s) \/ PushStreamed(s) \/ ShowTranscript(s) \/ Hint(s)

(* Passes between the two SETs.                                            *)
Half == {p \in Passes : at[p] = "saving"}

Shape ==
    /\ at \in [Passes -> {"todo", "decided", "pushed", "saving", "saved", "over"}]
    /\ DOMAIN draft = Passes
    /\ broken \in BOOLEAN

(* What Redis holds is whole when nobody is between the two SETs.          *)
StoreWhole == ~broken /\ Half = {} => Held(clusters, pending)

(* What the holder of the lock has decided is whole, when it was decided   *)
(* on a whole registry: nobody is between the two SETs without the lock.   *)
DraftWhole ==
    \A p \in Passes :
        /\ ~broken /\ lock = p /\ at[p] \in {"decided", "pushed"} /\ Half = {} =>
              Held(draft[p].clusters, draft[p].pending)
        /\ ~broken /\ lock = p /\ at[p] = "saving" /\ Half = {p} =>
              clusters = draft[p].clusters /\ Held(draft[p].clusters, draft[p].pending)

IInv == Shape /\ StoreWhole /\ DraftWhole

(* Whatever a pass hears and whom it promotes, what it decides on a whole  *)
(* registry is whole: a promotion drains what was held for the voice, and  *)
(* what it adds is held for a voice that has no speaker.                   *)
LEMMA DecisionWhole ==
    ASSUME NEW k \in Nat, NEW turn \in [Segments -> 0..k],
           NEW claim, DOMAIN claim = 1..k,
           NEW recognized, NEW p,
           Held(clusters, pending)
    PROVE  LET d == Decision(turn, claim, recognized, p) IN Held(d.clusters, d.pending)
<1> DEFINE d == Decision(turn, claim, recognized, p)
           registered == Registered(claim, recognized, p)
           weighed == Weighed(registered, claim, turn)
           promoted == Promoted(weighed)
           slot == [s \in Candidates(turn) |-> claim[turn[s]]]
           direct == {s \in Candidates(turn) : weighed[slot[s]].speaker # Nobody}
           held == [s \in DOMAIN pending \union (Candidates(turn) \ direct) |->
                       IF s \in DOMAIN pending THEN pending[s] ELSE slot[s]]
           drained == Drained(held, promoted)
<1>1. /\ DOMAIN d.pending = DOMAIN held \ drained
      /\ \A s \in DOMAIN held \ drained : d.pending[s] = held[s]
  BY DEF Decision
<1>2. /\ DOMAIN d.clusters = DOMAIN weighed
      /\ \A i \in DOMAIN weighed :
            d.clusters[i].speaker = IF i \in promoted THEN <<i, p>> ELSE weighed[i].speaker
  BY DEF Decision
<1>3. /\ DOMAIN weighed = DOMAIN clusters \union {claim[j] : j \in DOMAIN claim}
      /\ \A i \in DOMAIN weighed : weighed[i].speaker = registered[i].speaker
      /\ \A i \in DOMAIN clusters : registered[i] = clusters[i]
  BY DEF Weighed, Registered
<1>4. ASSUME NEW s \in DOMAIN held
      PROVE  held[s] \in DOMAIN weighed /\ weighed[held[s]].speaker = Nobody
  <2>1. CASE s \in DOMAIN pending
    <3>1. held[s] = pending[s]
      BY <2>1
    <3>2. pending[s] \in DOMAIN clusters /\ clusters[pending[s]].speaker = Nobody
      BY <2>1 DEF Held
    <3> QED
      BY <3>1, <3>2, <1>3
  <2>2. CASE s \notin DOMAIN pending
    <3>1. s \in Candidates(turn) /\ weighed[slot[s]].speaker = Nobody /\ held[s] = slot[s]
      BY <2>2
    <3>2. turn[s] \in 1..k /\ slot[s] = claim[turn[s]]
      BY <3>1 DEF Candidates
    <3> QED
      BY <3>1, <3>2, <1>3
  <2> QED
    BY <2>1, <2>2
<1>5. ASSUME NEW s \in DOMAIN d.pending
      PROVE  d.pending[s] \in DOMAIN d.clusters /\ d.clusters[d.pending[s]].speaker = Nobody
  <2>1. s \in DOMAIN held /\ s \notin drained /\ d.pending[s] = held[s]
    BY <1>1, <1>5
  <2>2. held[s] \notin promoted
    BY <2>1 DEF Drained
  <2> HIDE DEF d, weighed, promoted, held, drained
  <2> QED
    BY <2>1, <2>2, <1>2, <1>4
<1> HIDE DEF d
<1> QED
  BY <1>5 DEF Held, d

(* Nothing but a pass touches the registry or a decision.                  *)
LEMMA OtherStep ==
    ASSUME IInv, UNCHANGED <<clusters, pending, lock, at, draft, broken>>
    PROVE  IInv'
BY DEF IInv, Shape, StoreWhole, DraftWhole, Half, Held

(* A decision on a whole registry makes a whole draft.                     *)
LEMMA DecideStep ==
    ASSUME IInv, NEW p \in Passes, Decide(p)
    PROVE  IInv'
<1> USE NameAssumption, SizeAssumption DEF Goto
<1>1. /\ at[p] = "todo" /\ lock = Free
      /\ UNCHANGED <<clusters, pending, broken>>
      /\ \/ /\ at' = [at EXCEPT ![p] = "over"]
            /\ UNCHANGED <<lock, draft>>
         \/ \E k \in 1..MaxVoices :
            \E turn \in [Segments -> 0..k], claim \in Claims(Len(clusters), k) :
            \E recognized \in Recognizable(claim) :
               /\ lock' = p
               /\ draft' = [draft EXCEPT ![p] = Decision(turn, claim, recognized, p)]
               /\ at' = [at EXCEPT ![p] = "decided"]
  BY DEF Decide, Dispatched, Hearings
<1>2. CASE /\ at' = [at EXCEPT ![p] = "over"]
           /\ UNCHANGED <<lock, draft>>
  <2>1. Shape' /\ Half' = Half
    BY <1>1, <1>2 DEF IInv, Shape, Half
  <2>2. StoreWhole'
    BY <1>1, <2>1 DEF IInv, StoreWhole, Held
  <2>3. DraftWhole'
    BY <1>1, <1>2 DEF DraftWhole, Passes
  <2> QED
    BY <2>1, <2>2, <2>3 DEF IInv
<1>3. CASE \E k \in 1..MaxVoices :
           \E turn \in [Segments -> 0..k], claim \in Claims(Len(clusters), k) :
           \E recognized \in Recognizable(claim) :
              /\ lock' = p
              /\ draft' = [draft EXCEPT ![p] = Decision(turn, claim, recognized, p)]
              /\ at' = [at EXCEPT ![p] = "decided"]
  <2>0. PICK k \in 1..MaxVoices :
           \E turn \in [Segments -> 0..k], claim \in Claims(Len(clusters), k) :
           \E recognized \in Recognizable(claim) :
              /\ lock' = p
              /\ draft' = [draft EXCEPT ![p] = Decision(turn, claim, recognized, p)]
              /\ at' = [at EXCEPT ![p] = "decided"]
    BY <1>3
  <2>p. PICK turn \in [Segments -> 0..k], claim \in Claims(Len(clusters), k) :
           \E recognized \in Recognizable(claim) :
              /\ lock' = p
              /\ draft' = [draft EXCEPT ![p] = Decision(turn, claim, recognized, p)]
              /\ at' = [at EXCEPT ![p] = "decided"]
    BY <2>0
  <2>1. PICK recognized \in Recognizable(claim) :
              /\ lock' = p
              /\ draft' = [draft EXCEPT ![p] = Decision(turn, claim, recognized, p)]
              /\ at' = [at EXCEPT ![p] = "decided"]
    BY <2>p
  <2>2. Shape' /\ Half' = Half
    BY <1>1, <2>1 DEF IInv, Shape, Half
  <2>3. StoreWhole'
    BY <1>1, <2>2 DEF IInv, StoreWhole, Held
  <2>4. ASSUME ~broken, Half = {}
        PROVE  Held(draft'[p].clusters, draft'[p].pending)
    <3>1. Held(clusters, pending)
      BY <2>4 DEF IInv, StoreWhole
    <3>2. k \in Nat /\ DOMAIN claim = 1..k
      BY DEF Claims
    <3>3. LET d == Decision(turn, claim, recognized, p) IN Held(d.clusters, d.pending)
      BY <3>1, <3>2, DecisionWhole
    <3>4. draft'[p] = Decision(turn, claim, recognized, p)
      BY <2>1 DEF IInv, Shape
    <3> QED
      BY <3>3, <3>4
  <2>5. at'[p] = "decided" /\ \A q \in Passes : lock' = q => q = p
    BY <2>1, <2>2 DEF IInv, Shape
  <2>6. DraftWhole'
    <3> SUFFICES ASSUME NEW q \in Passes, ~broken', lock' = q
                 PROVE  /\ at'[q] \in {"decided", "pushed"} /\ Half' = {} =>
                             Held(draft'[q].clusters, draft'[q].pending)
                        /\ at'[q] # "saving"
      BY DEF DraftWhole, Held
    <3> QED
      BY <1>1, <2>2, <2>4, <2>5
  <2> QED
    BY <2>2, <2>3, <2>6 DEF IInv
<1> QED
  BY <1>1, <1>2, <1>3

(* A push leaves registry and draft as they are.                           *)
LEMMA PushStep ==
    ASSUME IInv, NEW p \in Passes, Push(p)
    PROVE  IInv'
<1>1. /\ at[p] = "decided" /\ at' = [at EXCEPT ![p] = "pushed"]
      /\ UNCHANGED <<clusters, pending, lock, draft, broken>>
  BY DEF Push, Goto, registry, history
<1>2. Shape' /\ Half' = Half
  BY <1>1 DEF IInv, Shape, Half
<1>3. StoreWhole'
  BY <1>1, <1>2 DEF IInv, StoreWhole, Held
<1>4. ASSUME NEW q \in Passes
      PROVE  /\ at'[q] \in {"decided", "pushed"} => at[q] \in {"decided", "pushed"}
             /\ at'[q] = "saving" => at[q] = "saving"
  BY <1>1 DEF IInv, Shape
<1>5. DraftWhole'
  BY <1>1, <1>2, <1>4 DEF IInv, DraftWhole, Held
<1> QED
  BY <1>2, <1>3, <1>5 DEF IInv

(* The first SET puts a pass between the two, and nobody beside it.        *)
LEMMA SaveClustersStep ==
    ASSUME IInv, NEW p \in Passes, SaveClusters(p)
    PROVE  IInv'
<1>1. /\ at[p] = "pushed" /\ at' = [at EXCEPT ![p] = "saving"]
      /\ clusters' = draft[p].clusters
      /\ UNCHANGED <<pending, lock, draft, broken>>
  BY DEF SaveClusters, Goto, history
<1>2. Shape' /\ Half' = Half \union {p} /\ p \notin Half
  BY <1>1 DEF IInv, Shape, Half
<1>3. StoreWhole'
  BY <1>2 DEF StoreWhole
<1>4. ASSUME NEW q \in Passes, ~broken', lock' = q, at'[q] = "saving", Half' = {q}
      PROVE  clusters' = draft'[q].clusters /\ Held(draft'[q].clusters, draft'[q].pending)
  <2>1. q = p /\ Half = {}
    BY <1>2, <1>4
  <2> QED
    BY <1>1, <1>4, <2>1 DEF IInv, DraftWhole
<1>5. DraftWhole'
  BY <1>2, <1>4 DEF DraftWhole, Held
<1> QED
  BY <1>2, <1>3, <1>5 DEF IInv

(* A pass that still has the lock completes what it decided; one that has  *)
(* lost it breaks off.                                                     *)
LEMMA SavePendingStep ==
    ASSUME IInv, NEW p \in Passes, SavePending(p)
    PROVE  IInv'
<1> USE NameAssumption
<1>1. at[p] = "saving" /\ pending' = draft[p].pending /\ UNCHANGED clusters
  BY DEF SavePending
<1>2. CASE lock = p
  <2>1. lock' = Free /\ at' = [at EXCEPT ![p] = "saved"] /\ UNCHANGED <<draft, broken>>
    BY <1>2 DEF SavePending, Goto
  <2>2. Shape' /\ Half' = Half \ {p} /\ p \in Half
    BY <1>1, <2>1 DEF IInv, Shape, Half
  <2>3. StoreWhole'
    <3> SUFFICES ASSUME ~broken', Half' = {}
                 PROVE  Held(clusters', pending')
      BY DEF StoreWhole, Held
    <3>1. ~broken /\ Half = {p}
      BY <2>1, <2>2
    <3> QED
      BY <1>1, <1>2, <3>1 DEF IInv, DraftWhole
  <2>4. DraftWhole'
    BY <2>1 DEF DraftWhole, Passes
  <2> QED
    BY <2>2, <2>3, <2>4 DEF IInv
<1>3. CASE lock # p
  <2>1. /\ broken' = TRUE /\ at' = [at EXCEPT ![p] = "over"]
        /\ draft' = [draft EXCEPT ![p] = NoDraft]
    BY <1>3 DEF SavePending, Goto
  <2>2. Shape'
    BY <2>1 DEF IInv, Shape
  <2> QED
    BY <2>1, <2>2 DEF IInv, StoreWhole, DraftWhole
<1> QED
  BY <1>2, <1>3

(* A commit leaves Redis alone.                                            *)
LEMMA CommitStep ==
    ASSUME IInv, NEW p \in Passes, Commit(p)
    PROVE  IInv'
<1>1. /\ at[p] = "saved" /\ at' = [at EXCEPT ![p] = "over"]
      /\ draft' = [draft EXCEPT ![p] = NoDraft]
      /\ UNCHANGED <<clusters, pending, lock, broken>>
  BY DEF Commit, Goto, registry, history
<1>2. Shape' /\ Half' = Half
  BY <1>1 DEF IInv, Shape, Half
<1>3. StoreWhole'
  BY <1>1, <1>2 DEF IInv, StoreWhole, Held
<1>4. ASSUME NEW q \in Passes, at'[q] \in {"decided", "pushed", "saving"}
      PROVE  at'[q] = at[q] /\ draft'[q] = draft[q]
  BY <1>1, <1>4 DEF IInv, Shape
<1>5. DraftWhole'
  BY <1>1, <1>2, <1>4 DEF IInv, DraftWhole, Held
<1> QED
  BY <1>2, <1>3, <1>5 DEF IInv

(* A pass that fails between the SETs breaks the registry for good; one    *)
(* that fails before leaves no trace.                                      *)
LEMMA FailStep ==
    ASSUME IInv, NEW p \in Passes, Fail(p)
    PROVE  IInv'
<1> USE NameAssumption
<1>1. /\ at' = [at EXCEPT ![p] = "over"] /\ draft' = [draft EXCEPT ![p] = NoDraft]
      /\ UNCHANGED <<clusters, pending>>
      /\ lock' = lock \/ lock' = Free
      /\ broken' = (broken \/ at[p] \in {"pushed", "saving", "saved"})
  BY DEF Fail, Goto
<1>2. Shape'
  BY <1>1 DEF IInv, Shape
<1>3. ASSUME ~broken'
      PROVE  ~broken /\ Half' = Half
  BY <1>1, <1>3 DEF IInv, Shape, Half
<1>4. StoreWhole'
  BY <1>1, <1>3 DEF IInv, StoreWhole, Held
<1>5. ASSUME NEW q \in Passes, at'[q] \in {"decided", "pushed", "saving"}
      PROVE  at'[q] = at[q] /\ draft'[q] = draft[q]
  BY <1>1, <1>5 DEF IInv, Shape
<1>6. ASSUME NEW q \in Passes, lock' = q
      PROVE  lock = q
  BY <1>1, <1>6 DEF Passes
<1>7. DraftWhole'
  BY <1>1, <1>3, <1>5, <1>6 DEF IInv, DraftWhole, Held
<1> QED
  BY <1>2, <1>4, <1>7 DEF IInv

(* A lock that lapses leaves registry and drafts as they were.             *)
LEMMA ExpireStep ==
    ASSUME IInv, LockExpires
    PROVE  IInv'
<1> USE NameAssumption
<1>1. lock' = Free /\ UNCHANGED <<clusters, pending, at, draft, broken>>
  BY DEF LockExpires, work, history
<1>2. Shape' /\ StoreWhole'
  BY <1>1 DEF IInv, Shape, StoreWhole, Half, Held
<1>3. DraftWhole'
  BY <1>1 DEF DraftWhole, Passes
<1> QED
  BY <1>2, <1>3 DEF IInv

(* Cluster.speaker_id and PendingSegment.cluster_index never drift out of  *)
(* sync (cluster.py:95), for any number of passes, whatever they hear and  *)
(* however they overlap, as long as none is cut off after it has begun to  *)
(* tell others.                                                            *)
THEOREM RegistryWhole == Spec => []PendingIsProvisional
<1>1. Init => IInv
  <2> SUFFICES ASSUME Init
               PROVE  IInv
    OBVIOUS
  <2>1. Shape /\ \A p \in Passes : at[p] = "todo"
    BY DEF Init, Shape
  <2>2. DOMAIN pending = {}
    BY DEF Init
  <2> QED
    BY <2>1, <2>2 DEF IInv, StoreWhole, DraftWhole, Held
<1>2. IInv /\ [Next]_vars => IInv'
  <2> SUFFICES ASSUME IInv, [Next]_vars
               PROVE  IInv'
    OBVIOUS
  <2>1. ASSUME NEW s \in Segments, OnSegment(s)
        PROVE  IInv'
    <3>1. UNCHANGED <<clusters, pending, lock, at, draft, broken>>
      BY <2>1 DEF OnSegment, CommitStreamed, PushStreamed, ShowTranscript, Hint, registry, work, history
    <3> QED
      BY <3>1, OtherStep
  <2>2. CASE Deliver
    <3>1. UNCHANGED <<clusters, pending, lock, at, draft, broken>>
      BY <2>2 DEF Deliver, registry, work, history
    <3> QED
      BY <3>1, OtherStep
  <2>3. CASE UNCHANGED vars
    <3>1. UNCHANGED <<clusters, pending, lock, at, draft, broken>>
      BY <2>3 DEF vars, registry, work, history
    <3> QED
      BY <3>1, OtherStep
  <2>4. ASSUME NEW p \in Passes, Decide(p) \/ Going(p) \/ Fail(p)
        PROVE  IInv'
    BY <2>4, DecideStep, PushStep, SaveClustersStep, SavePendingStep, CommitStep, FailStep DEF Going
  <2>5. CASE LockExpires
    BY <2>5, ExpireStep
  <2> QED
    BY <2>1, <2>2, <2>3, <2>4, <2>5 DEF Next, OnSegment
<1>3. IInv => PendingIsProvisional
  BY DEF IInv, StoreWhole, Half, PendingIsProvisional
<1> QED
  BY <1>1, <1>2, <1>3, PTL DEF Spec

-----------------------------------------------------------------------------
(***************************************************************************)
(* Sums, and the order in which voices claim entries.                      *)
(***************************************************************************)

(* Among sets of elements of a finite set, one contains no other.          *)
LEMMA Smallest ==
    ASSUME NEW S, IsFiniteSet(S), NEW M \in SUBSET SUBSET S, M # {}
    PROVE  \E T \in M : \A U \in M : U \subseteq T => U = T
<1> DEFINE less == StrictSubsetOrdering(S)
<1>1. IsWellFoundedOn(less, SUBSET S)
  BY FS_FiniteSubsetsOfFinite, FS_StrictSubsetOrderingWellFounded
<1>2. PICK T \in M : \A U \in M : ~(<<U, T>> \in less)
  <2> HIDE DEF less
  <2> QED BY <1>1, WFMin
<1>3. ASSUME NEW U \in M, U \subseteq T, U # T
      PROVE  <<U, T>> \in less
  BY <1>3 DEF StrictSubsetOrdering
<1>4. \A U \in M : U \subseteq T => U = T
  <2> HIDE DEF less
  <2> QED BY <1>2, <1>3
<1> QED
  BY <1>4

(* A family of subsets of a finite set that has the empty set, and with a  *)
(* set each set of one element more, has them all.                         *)
LEMMA Growing ==
    ASSUME NEW S, IsFiniteSet(S), NEW G, {} \in G,
           \A T \in SUBSET S : \A x \in S \ T : T \in G => T \union {x} \in G
    PROVE  \A T \in SUBSET S : T \in G
<1> DEFINE Missing == {T \in SUBSET S : T \notin G}
<1> SUFFICES ASSUME Missing # {}
             PROVE  FALSE
  OBVIOUS
<1>2. PICK T \in Missing : \A U \in Missing : U \subseteq T => U = T
  <2>1. Missing \in SUBSET SUBSET S
    OBVIOUS
  <2> HIDE DEF Missing
  <2> QED BY <2>1, Smallest
<1>3. PICK x \in T : TRUE
  OBVIOUS
<1>4. T \ {x} \in G
  BY <1>2, <1>3 
<1>5. (T \ {x}) \union {x} \in G
  BY <1>3, <1>4
<1> QED
  BY <1>3, <1>5

Solves(g, f, S) ==
    g = [s \in SUBSET S |->
           IF s = {} THEN 0
           ELSE LET x == CHOOSE x \in s : TRUE IN f[x] + g[s \ {x}]]

(* The sum of the community modules, as the function it chooses.           *)
LEMMA SumUnfolds ==
    ASSUME NEW f, NEW S
    PROVE  SumFunctionOnSet(f, S) = (CHOOSE g : Solves(g, f, S))[S]
BY DEF SumFunctionOnSet, FoldFunctionOnSet, MapThenFoldSet, Solves

(* On the subsets of a subset, a solution is the solution.                 *)
LEMMA SolvesOnce ==
    ASSUME NEW f, NEW S, IsFiniteSet(S), NEW g, Solves(g, f, S),
           NEW R \in SUBSET S, NEW h, Solves(h, f, R)
    PROVE  \A T \in SUBSET R : h[T] = g[T]
<1> DEFINE Differ == {T \in SUBSET R : h[T] # g[T]}
<1> SUFFICES ASSUME Differ # {}
             PROVE  FALSE
  OBVIOUS
<1>2. PICK T \in Differ : \A U \in Differ : U \subseteq T => U = T
  <2>1. Differ \in SUBSET SUBSET R /\ IsFiniteSet(R)
    BY FS_Subset
  <2> HIDE DEF Differ
  <2> QED BY <2>1, Smallest
<1>3. T # {}
  BY <1>2 DEF Solves
<1> DEFINE x == CHOOSE x \in T : TRUE
<1>4. x \in T
  BY <1>3
<1>5. h[T] = f[x] + h[T \ {x}]
  BY <1>3 DEF Solves
<1>6. g[T] = f[x] + g[T \ {x}]
  BY <1>3 DEF Solves
<1>7. h[T \ {x}] = g[T \ {x}]
  BY <1>2, <1>4
<1> QED
  BY <1>5, <1>6, <1>7

(* There is such a function for every finite set.                          *)
LEMMA SolutionExists ==
    ASSUME NEW f, NEW S, IsFiniteSet(S)
    PROVE  \E g : Solves(g, f, S)
<1> DEFINE Missing == {T \in SUBSET S : ~ \E g : Solves(g, f, T)}
<1> SUFFICES ASSUME Missing # {}
             PROVE  FALSE
  OBVIOUS
<1>2. PICK T \in Missing : \A U \in Missing : U \subseteq T => U = T
  <2>1. Missing \in SUBSET SUBSET S
    OBVIOUS
  <2> HIDE DEF Missing
  <2> QED BY <2>1, Smallest
<1> DEFINE Sol(U) == CHOOSE g : Solves(g, f, U)
           Rest(U) == U \ {CHOOSE x \in U : TRUE}
           sum == [U \in SUBSET T |->
                     IF U = {} THEN 0 ELSE f[CHOOSE x \in U : TRUE] + Sol(Rest(U))[Rest(U)]]
<1>3. ASSUME NEW U \in SUBSET T, U # T
      PROVE  Solves(Sol(U), f, U)
  <2>1. U \notin Missing
    BY <1>2, <1>3
  <2> QED
    BY <2>1
<1>4. ASSUME NEW U \in SUBSET T, U # {}
      PROVE  sum[Rest(U)] = Sol(Rest(U))[Rest(U)]
  <2> DEFINE V == Rest(U)
  <2>1. V \in SUBSET T /\ V # T
    BY <1>4
  <2>2. Solves(Sol(V), f, V)
    BY <2>1, <1>3
  <2>3. CASE V = {}
    BY <2>1, <2>2, <2>3 DEF Solves
  <2>4. CASE V # {}
    <3>1. Rest(V) \in SUBSET V /\ Rest(V) # T
      BY <2>1
    <3>2. Solves(Sol(Rest(V)), f, Rest(V))
      BY <3>1, <2>1, <1>3
    <3>3. IsFiniteSet(V)
      BY <2>1, FS_Subset
    <3>4. Sol(Rest(V))[Rest(V)] = Sol(V)[Rest(V)]
      <4> HIDE DEF Sol, Rest, V
      <4> QED BY <2>2, <3>1, <3>2, <3>3, SolvesOnce
    <3>5. Sol(V)[V] = f[CHOOSE x \in V : TRUE] + Sol(V)[Rest(V)]
      <4> HIDE DEF Sol, V
      <4> QED BY <2>2, <2>4 DEF Solves
    <3>6. sum[V] = f[CHOOSE x \in V : TRUE] + Sol(Rest(V))[Rest(V)]
      <4> HIDE DEF Sol, V
      <4> QED BY <2>1, <2>4
    <3> QED
      BY <3>4, <3>5, <3>6
  <2> QED
    BY <2>3, <2>4
<1>5. \A U \in SUBSET T : sum[U] = IF U = {} THEN 0 ELSE f[CHOOSE x \in U : TRUE] + sum[Rest(U)]
  <2>1. ASSUME NEW U \in SUBSET T, U # {}
        PROVE  sum[U] = f[CHOOSE x \in U : TRUE] + sum[Rest(U)]
    <3>1. sum[U] = f[CHOOSE x \in U : TRUE] + Sol(Rest(U))[Rest(U)]
      <4> HIDE DEF Sol, Rest
      <4> QED BY <2>1
    <3> HIDE DEF Sol, Rest, sum
    <3> QED BY <2>1, <3>1, <1>4
  <2>2. sum[{}] = 0
    <3> HIDE DEF Sol, Rest
    <3> QED OBVIOUS
  <2> HIDE DEF sum, Rest
  <2> QED BY <2>1, <2>2
<1>6. Solves(sum, f, T)
  <2>1. sum = [U \in SUBSET T |-> sum[U]]
    OBVIOUS
  <2> HIDE DEF sum
  <2> QED
    BY <1>5, <2>1 DEF Solves
<1> QED
  BY <1>2, <1>6

(* The sum of nothing is 0.  Otherwise some element counts first.          *)
LEMMA SumStep ==
    ASSUME NEW f, NEW S, IsFiniteSet(S)
    PROVE  /\ SumFunctionOnSet(f, {}) = 0
           /\ S # {} => \E x \in S : SumFunctionOnSet(f, S) = f[x] + SumFunctionOnSet(f, S \ {x})
<1>1. ASSUME NEW T \in SUBSET S
      PROVE  Solves(CHOOSE g : Solves(g, f, T), f, T)
  BY SolutionExists, FS_Subset
<1>2. SumFunctionOnSet(f, {}) = 0
  BY <1>1, SumUnfolds DEF Solves
<1>3. ASSUME S # {}
      PROVE  \E x \in S : SumFunctionOnSet(f, S) = f[x] + SumFunctionOnSet(f, S \ {x})
  <2> DEFINE x == CHOOSE x \in S : TRUE
             g == CHOOSE r : Solves(r, f, S)
             h == CHOOSE r : Solves(r, f, S \ {x})
  <2>1. x \in S
    BY <1>3
  <2>2. Solves(g, f, S) /\ Solves(h, f, S \ {x})
    BY <1>1
  <2>3. h[S \ {x}] = g[S \ {x}]
    <3> HIDE DEF g, h, x
    <3>1. S \ {x} \in SUBSET S
      OBVIOUS
    <3> QED BY <2>2, <3>1, SolvesOnce
  <2>4. g[S] = f[x] + g[S \ {x}]
    <3> HIDE DEF g
    <3> QED BY <1>3, <2>2 DEF Solves
  <2>5. SumFunctionOnSet(f, S) = g[S] /\ SumFunctionOnSet(f, S \ {x}) = h[S \ {x}]
    BY SumUnfolds
  <2> HIDE DEF g, h, x
  <2> QED
    BY <2>1, <2>3, <2>4, <2>5
<1> QED
  BY <1>2, <1>3

(* A sum of naturals is a natural.                                         *)
LEMMA SumType ==
    ASSUME NEW f, NEW S, IsFiniteSet(S), \A x \in S : f[x] \in Nat
    PROVE  SumFunctionOnSet(f, S) \in Nat
<1> DEFINE Wrong == {T \in SUBSET S : SumFunctionOnSet(f, T) \notin Nat}
<1> SUFFICES ASSUME Wrong # {}
             PROVE  FALSE
  OBVIOUS
<1>1. PICK T \in Wrong : \A U \in Wrong : U \subseteq T => U = T
  <2>1. Wrong \in SUBSET SUBSET S
    OBVIOUS
  <2> HIDE DEF Wrong
  <2> QED BY <2>1, Smallest
<1>2. IsFiniteSet(T)
  BY FS_Subset
<1>3. T # {}
  <2>1. SumFunctionOnSet(f, {}) = 0 /\ 0 \in Nat
    BY FS_EmptySet, SumStep
  <2>2. SumFunctionOnSet(f, T) \notin Nat
    BY <1>1
  <2> QED BY <2>1, <2>2, Zenon
<1>4. PICK x \in T : SumFunctionOnSet(f, T) = f[x] + SumFunctionOnSet(f, T \ {x})
  BY <1>2, <1>3, SumStep
<1>5. SumFunctionOnSet(f, T \ {x}) \in Nat
  BY <1>1
<1> QED
  BY <1>1, <1>4, <1>5

(* Whichever element comes first, the sum is the same.                     *)
LEMMA SumRemove ==
    ASSUME NEW f, NEW S, IsFiniteSet(S), \A x \in S : f[x] \in Nat, NEW y \in S
    PROVE  SumFunctionOnSet(f, S) = f[y] + SumFunctionOnSet(f, S \ {y})
<1> DEFINE Adds(T) == \A x \in T : SumFunctionOnSet(f, T) = f[x] + SumFunctionOnSet(f, T \ {x})
           Wrong == {T \in SUBSET S : ~ Adds(T)}
<1> SUFFICES ASSUME Wrong # {}
             PROVE  FALSE
  OBVIOUS
<1>1. PICK T \in Wrong : \A U \in Wrong : U \subseteq T => U = T
  <2>1. Wrong \in SUBSET SUBSET S
    OBVIOUS
  <2> HIDE DEF Wrong
  <2> QED BY <2>1, Smallest
<1>2. IsFiniteSet(T) /\ T \subseteq S
  BY FS_Subset
<1>3. PICK x \in T : SumFunctionOnSet(f, T) # f[x] + SumFunctionOnSet(f, T \ {x})
  BY <1>1
<1>4. PICK z \in T : SumFunctionOnSet(f, T) = f[z] + SumFunctionOnSet(f, T \ {z})
  BY <1>2, <1>3, SumStep
<1>5. x # z
  BY <1>3, <1>4
<1>6. Adds(T \ {z}) /\ Adds(T \ {x})
  <2>1. T \ {z} \in SUBSET S /\ T \ {x} \in SUBSET S /\ T \ {z} # T /\ T \ {x} # T
    BY <1>2
  <2> HIDE DEF Adds
  <2> QED BY <1>1, <2>1
<1> DEFINE R == (T \ {x}) \ {z}
<1>7. (T \ {z}) \ {x} = R
  OBVIOUS
<1>8. SumFunctionOnSet(f, T \ {z}) = f[x] + SumFunctionOnSet(f, R)
  BY <1>5, <1>6, <1>7
<1>9. SumFunctionOnSet(f, T \ {x}) = f[z] + SumFunctionOnSet(f, R)
  BY <1>5, <1>6
<1>10. f[x] \in Nat /\ f[z] \in Nat /\ SumFunctionOnSet(f, R) \in Nat
  BY <1>2, FS_Subset, SumType
<1> QED
  BY <1>3, <1>4, <1>8, <1>9, <1>10

(* One element more adds its value.                                        *)
LEMMA SumAdd ==
    ASSUME NEW f, NEW S, IsFiniteSet(S), NEW y, y \notin S,
           \A x \in S \union {y} : f[x] \in Nat
    PROVE  SumFunctionOnSet(f, S \union {y}) = f[y] + SumFunctionOnSet(f, S)
<1>1. IsFiniteSet(S \union {y}) /\ (S \union {y}) \ {y} = S
  BY FS_AddElement
<1> QED
  BY <1>1, SumRemove

(* Only what f is on the set matters.                                      *)
LEMMA SumSame ==
    ASSUME NEW S, IsFiniteSet(S), NEW f, NEW g,
           \A x \in S : f[x] \in Nat /\ g[x] = f[x]
    PROVE  SumFunctionOnSet(f, S) = SumFunctionOnSet(g, S)
<1> DEFINE Equal == {T \in SUBSET S : SumFunctionOnSet(f, T) = SumFunctionOnSet(g, T)}
<1>1. {} \in Equal
  BY FS_EmptySet, SumStep
<1>2. ASSUME NEW T \in SUBSET S, NEW x \in S \ T, T \in Equal
      PROVE  T \union {x} \in Equal
  <2>1. IsFiniteSet(T)
    BY FS_Subset
  <2> QED
    BY <1>2, <2>1, SumAdd
<1> HIDE DEF Equal
<1>3. S \in Equal
  BY <1>1, <1>2, Growing
<1> QED
  BY <1>3 DEF Equal

(* The sum of a pointwise sum.                                             *)
LEMMA SumSum ==
    ASSUME NEW S, IsFiniteSet(S), NEW f, NEW g, NEW h,
           \A x \in S : f[x] \in Nat /\ g[x] \in Nat /\ h[x] = f[x] + g[x]
    PROVE  SumFunctionOnSet(h, S) = SumFunctionOnSet(f, S) + SumFunctionOnSet(g, S)
<1> DEFINE Equal == {T \in SUBSET S :
              SumFunctionOnSet(h, T) = SumFunctionOnSet(f, T) + SumFunctionOnSet(g, T)}
<1>1. {} \in Equal
  BY FS_EmptySet, SumStep
<1>2. ASSUME NEW T \in SUBSET S, NEW x \in S \ T, T \in Equal
      PROVE  T \union {x} \in Equal
  <2>1. IsFiniteSet(T) /\ \A y \in T \union {x} : h[y] \in Nat
    BY FS_Subset
  <2>2. SumFunctionOnSet(f, T) \in Nat /\ SumFunctionOnSet(g, T) \in Nat
    BY <2>1, SumType
  <2>3. /\ SumFunctionOnSet(f, T \union {x}) = f[x] + SumFunctionOnSet(f, T)
        /\ SumFunctionOnSet(g, T \union {x}) = g[x] + SumFunctionOnSet(g, T)
        /\ SumFunctionOnSet(h, T \union {x}) = h[x] + SumFunctionOnSet(h, T)
    BY <2>1, SumAdd
  <2>4. f[x] \in Nat /\ g[x] \in Nat /\ h[x] = f[x] + g[x]
    OBVIOUS
  <2> QED
    BY <1>2, <2>2, <2>3, <2>4
<1> HIDE DEF Equal
<1>3. S \in Equal
  BY <1>1, <1>2, Growing
<1> QED
  BY <1>3 DEF Equal

(* The sum over two disjoint sets.                                         *)
LEMMA SumApart ==
    ASSUME NEW S, NEW R, IsFiniteSet(S), IsFiniteSet(R), S \intersect R = {}, NEW f,
           \A x \in S \union R : f[x] \in Nat
    PROVE  SumFunctionOnSet(f, S \union R) = SumFunctionOnSet(f, S) + SumFunctionOnSet(f, R)
<1> DEFINE Equal == {T \in SUBSET R :
              SumFunctionOnSet(f, S \union T) = SumFunctionOnSet(f, S) + SumFunctionOnSet(f, T)}
<1>0. SumFunctionOnSet(f, S) \in Nat
  BY SumType
<1>1. {} \in Equal
  <2>1. S \union {} = S
    OBVIOUS
  <2>2. SumFunctionOnSet(f, {}) = 0
    BY FS_EmptySet, SumStep
  <2> QED BY <1>0, <2>1, <2>2
<1>2. ASSUME NEW T \in SUBSET R, NEW x \in R \ T, T \in Equal
      PROVE  T \union {x} \in Equal
  <2>1. IsFiniteSet(T) /\ S \union (T \union {x}) = (S \union T) \union {x}
    BY FS_Subset
  <2>2. IsFiniteSet(S \union T) /\ x \notin S \union T
    BY <2>1, FS_Union
  <2>3. SumFunctionOnSet(f, T) \in Nat /\ f[x] \in Nat
    BY <2>1, SumType
  <2>4. /\ SumFunctionOnSet(f, T \union {x}) = f[x] + SumFunctionOnSet(f, T)
        /\ SumFunctionOnSet(f, (S \union T) \union {x}) = f[x] + SumFunctionOnSet(f, S \union T)
    BY <2>1, <2>2, SumAdd
  <2>5. SumFunctionOnSet(f, S \union T) = SumFunctionOnSet(f, S) + SumFunctionOnSet(f, T)
    BY <1>2
  <2>6. SumFunctionOnSet(f, S \union (T \union {x})) = SumFunctionOnSet(f, S) + SumFunctionOnSet(f, T \union {x})
    BY <1>0, <2>1, <2>3, <2>4, <2>5
  <2> QED
    BY <2>6
<1> HIDE DEF Equal
<1>3. R \in Equal
  BY <1>1, <1>2, Growing
<1> QED
  BY <1>3 DEF Equal

(* What is 0 outside a part sums up on the part.                           *)
LEMMA SumZero ==
    ASSUME NEW S, IsFiniteSet(S), NEW f, \A x \in S : f[x] = 0
    PROVE  SumFunctionOnSet(f, S) = 0
<1> DEFINE Zero == {T \in SUBSET S : SumFunctionOnSet(f, T) = 0}
<1>1. {} \in Zero
  BY FS_EmptySet, SumStep
<1>2. ASSUME NEW T \in SUBSET S, NEW x \in S \ T, T \in Zero
      PROVE  T \union {x} \in Zero
  <2>1. IsFiniteSet(T)
    BY FS_Subset
  <2>2. SumFunctionOnSet(f, T \union {x}) = f[x] + SumFunctionOnSet(f, T)
    BY <2>1, SumAdd
  <2> QED
    BY <1>2, <2>2
<1> HIDE DEF Zero
<1>3. S \in Zero
  BY <1>1, <1>2, Growing
<1> QED
  BY <1>3 DEF Zero

(* What is zero need not be counted.                                       *)
LEMMA SumPart ==
    ASSUME NEW S, IsFiniteSet(S), NEW f, NEW P \in SUBSET S,
           \A x \in S : f[x] \in Nat, \A x \in S \ P : f[x] = 0
    PROVE  SumFunctionOnSet(f, S) = SumFunctionOnSet(f, P)
<1>1. PICK Q : Q = S \ P
  OBVIOUS
<1>2. IsFiniteSet(P) /\ IsFiniteSet(Q) /\ P \intersect Q = {}
  BY <1>1, FS_Subset
<1>3. S = P \union Q
  BY <1>1
<1>4. SumFunctionOnSet(f, P \union Q) = SumFunctionOnSet(f, P) + SumFunctionOnSet(f, Q)
  BY <1>1, <1>2, <1>3, SumApart
<1>5. SumFunctionOnSet(f, Q) = 0
  BY <1>1, <1>2, SumZero
<1>6. SumFunctionOnSet(f, P) \in Nat
  BY <1>2, SumType
<1>7. SumFunctionOnSet(f, S) = SumFunctionOnSet(f, P \union Q)
  BY <1>3, Zenon
<1> QED
  BY <1>4, <1>5, <1>6, <1>7

(* Summed up by fibres, a set sums up to the same.                         *)
LEMMA SumFibres ==
    ASSUME NEW S, IsFiniteSet(S), NEW f, \A x \in S : f[x] \in Nat,
           NEW I, IsFiniteSet(I), NEW slot, \A x \in S : slot[x] \in I
    PROVE  SumFunctionOnSet([i \in I |-> SumFunctionOnSet(f, {x \in S : slot[x] = i})], I)
              = SumFunctionOnSet(f, S)
<1> DEFINE Fibre(T, i) == {x \in T : slot[x] = i}
           sums(T) == [i \in I |-> SumFunctionOnSet(f, Fibre(T, i))]
           Equal == {T \in SUBSET S : SumFunctionOnSet(sums(T), I) = SumFunctionOnSet(f, T)}
<1>0. ASSUME NEW T \in SUBSET S, NEW i \in I
      PROVE  sums(T)[i] \in Nat
  <2>1. IsFiniteSet(Fibre(T, i)) /\ Fibre(T, i) \subseteq S
    BY FS_Subset
  <2> QED
    BY <2>1, SumType
<1>1. {} \in Equal
  <2>1. SumFunctionOnSet(f, {}) = 0
    BY FS_EmptySet, SumStep
  <2>2. ASSUME NEW i \in I
        PROVE  sums({})[i] = 0
    <3>1. Fibre({}, i) = {}
      OBVIOUS
    <3> QED BY <2>1, <3>1
  <2>3. SumFunctionOnSet(sums({}), I) = SumFunctionOnSet(sums({}), {})
    <3> HIDE DEF sums
    <3> QED BY <2>2, SumPart
  <2>4. SumFunctionOnSet(sums({}), {}) = 0
    <3> HIDE DEF sums
    <3> QED BY FS_EmptySet, SumStep
  <2> QED
    BY <2>1, <2>3, <2>4
<1>2. ASSUME NEW T \in SUBSET S, NEW x \in S \ T, T \in Equal
      PROVE  T \union {x} \in Equal
  <2> DEFINE point == [i \in I |-> IF i = slot[x] THEN f[x] ELSE 0]
  <2>1. ASSUME NEW i \in I
        PROVE  sums(T \union {x})[i] = sums(T)[i] + point[i]
    <3>1. CASE i = slot[x]
      <4>1. Fibre(T \union {x}, i) = Fibre(T, i) \union {x}
        BY <3>1
      <4>2. IsFiniteSet(Fibre(T, i)) /\ x \notin Fibre(T, i) /\ Fibre(T, i) \subseteq S
        BY <1>2, FS_Subset
      <4>3. SumFunctionOnSet(f, Fibre(T, i) \union {x}) = f[x] + SumFunctionOnSet(f, Fibre(T, i))
        <5> HIDE DEF Fibre
        <5> QED BY <4>2, SumAdd
      <4>4. SumFunctionOnSet(f, Fibre(T, i)) \in Nat /\ f[x] \in Nat
        <5> HIDE DEF Fibre
        <5> QED BY <4>2, SumType
      <4> HIDE DEF Fibre
      <4> QED BY <3>1, <4>1, <4>3, <4>4
    <3>2. CASE i # slot[x]
      <4>1. Fibre(T \union {x}, i) = Fibre(T, i)
        BY <3>2
      <4>2. sums(T)[i] \in Nat
        BY <1>0
      <4> HIDE DEF Fibre
      <4> QED BY <3>2, <4>1, <4>2
    <3> QED
      BY <3>1, <3>2
  <2>2. SumFunctionOnSet(sums(T \union {x}), I) = SumFunctionOnSet(sums(T), I) + SumFunctionOnSet(point, I)
    <3>1. \A i \in I : sums(T)[i] \in Nat /\ point[i] \in Nat
      <4>1. f[x] \in Nat
        OBVIOUS
      <4> HIDE DEF sums
      <4> QED BY <1>0, <4>1
    <3> HIDE DEF sums, point
    <3> QED BY <2>1, <3>1, SumSum
  <2>3. SumFunctionOnSet(point, I) = f[x]
    <3>1. slot[x] \in I /\ f[x] \in Nat
      OBVIOUS
    <3>2. /\ \A i \in I : point[i] \in Nat
          /\ \A i \in I \ {slot[x]} : point[i] = 0
          /\ point[slot[x]] = f[x]
      BY <3>1
    <3> HIDE DEF point
    <3>3. SumFunctionOnSet(point, I) = SumFunctionOnSet(point, {slot[x]})
      BY <3>1, <3>2, SumPart
    <3>4. IsFiniteSet({slot[x]}) /\ {slot[x]} \ {slot[x]} = {}
      BY FS_Singleton
    <3>5. SumFunctionOnSet(point, {slot[x]}) = point[slot[x]] + SumFunctionOnSet(point, {})
      BY <3>1, <3>2, <3>4, SumRemove
    <3>6. SumFunctionOnSet(point, {}) = 0
      BY FS_EmptySet, SumStep
    <3> QED
      BY <3>1, <3>2, <3>3, <3>5, <3>6
  <2>4. SumFunctionOnSet(f, T \union {x}) = f[x] + SumFunctionOnSet(f, T) /\ SumFunctionOnSet(f, T) \in Nat
    BY FS_Subset, SumAdd, SumType
  <2> HIDE DEF sums, point
  <2> QED
    BY <1>2, <2>2, <2>3, <2>4
<1> HIDE DEF Equal
<1>3. S \in Equal
  BY <1>1, <1>2, Growing
<1> QED
  BY <1>3 DEF Equal

(* A set of numbers has a least one.                                       *)
LEMMA Least ==
    ASSUME NEW M \in SUBSET Nat, M # {}
    PROVE  \E m \in M : \A n \in M : m <= n
<1>1. PICK m \in M : \A n \in M : ~(<<n, m>> \in OpToRel(<, Nat))
  BY NatLessThanWellFounded, WFMin
<1>2. \A n \in M : n < m => <<n, m>> \in OpToRel(<, Nat)
  BY DEF OpToRel
<1>3. ASSUME NEW n \in M
      PROVE  m <= n
  <2>1. ~(n < m)
    BY <1>1, <1>2
  <2>2. n \in Nat /\ m \in Nat
    OBVIOUS
  <2> QED BY <2>1, <2>2
<1> QED
  BY <1>3

(* A pass that registers voices puts them at the end, leaving no gap.      *)
LEMMA ClaimsInLine ==
    ASSUME NEW n \in Nat, NEW k \in Nat, NEW c \in Claims(n, k)
    PROVE  \E m \in Nat : m >= n /\ 1..n \union {c[j] : j \in 1..k} = 1..m
<1> DEFINE New(i) == {j \in 1..i : c[j] > n}
           Taken(i) == 1..n \union {c[j] : j \in 1..i}
           Wrong == {i \in 0..k : Taken(i) # 1..(n + Cardinality(New(i)))}
<1>1. ASSUME NEW i \in 0..k
      PROVE  IsFiniteSet(New(i)) /\ Cardinality(New(i)) \in Nat
  <2>1. IsFiniteSet(1..i) /\ New(i) \in SUBSET (1..i)
    BY FS_Interval
  <2>2. IsFiniteSet(New(i))
    BY <2>1, FS_Subset
  <2> QED
    BY <2>2, FS_CardinalityType
<1>2. Wrong = {}
  <2> SUFFICES ASSUME Wrong # {}
               PROVE  FALSE
    OBVIOUS
  <2>1. PICK i \in Wrong : \A h \in Wrong : i <= h
    <3>1. Wrong \in SUBSET Nat
      OBVIOUS
    <3> HIDE DEF Wrong
    <3> QED BY <3>1, Least
  <2>2. i # 0
    <3>1. New(0) = {} /\ Taken(0) = 1..n
      OBVIOUS
    <3>2. Cardinality(New(0)) = 0
      BY <3>1, FS_EmptySet
    <3>3. n + Cardinality(New(0)) = n
      BY <3>2
    <3> HIDE DEF New, Taken
    <3> QED BY <3>1, <3>3
  <2> DEFINE h == i - 1
  <2>3. h \in 0..k /\ i \in 1..k /\ h \notin Wrong
    BY <2>1, <2>2
  <2>4. Taken(h) = 1..(n + Cardinality(New(h)))
    BY <2>3
  <2>5. Taken(i) = Taken(h) \union {c[i]}
    BY <2>3
  <2>6. c[i] \in 1..(n + k)
    BY <2>3 DEF Claims
  <2>7. CASE c[i] > n
    <3>1. New(i) = New(h) \union {i} /\ i \notin New(h)
      BY <2>3, <2>7
    <3>2. Cardinality(New(i)) = Cardinality(New(h)) + 1
      BY <1>1, <2>3, <3>1, FS_AddElement
    <3>3. c[i] = n + Cardinality(New(i))
      BY <2>3, <2>7 DEF Claims
    <3>4. Taken(i) = 1..(n + Cardinality(New(h))) \union {n + Cardinality(New(h)) + 1}
      <4> HIDE DEF New, Taken
      <4>1. c[i] = n + Cardinality(New(h)) + 1
        BY <1>1, <2>3, <3>2, <3>3
      <4> QED BY <2>4, <2>5, <4>1
    <3>5. ASSUME NEW m \in Nat
          PROVE  1..m \union {m + 1} = 1..(m + 1)
      OBVIOUS
    <3>6. n + Cardinality(New(h)) \in Nat /\ n + Cardinality(New(i)) = n + Cardinality(New(h)) + 1
      <4>1. Cardinality(New(h)) \in Nat
        BY <1>1, <2>3
      <4> HIDE DEF New
      <4> QED BY <3>2, <4>1
    <3>7. Taken(i) = 1..(n + Cardinality(New(i)))
      <4> HIDE DEF New, Taken
      <4> QED BY <3>4, <3>5, <3>6
    <3> QED BY <2>1, <3>7
  <2>8. CASE ~(c[i] > n)
    <3>1. New(i) = New(h)
      BY <2>3, <2>8
    <3>2. c[i] \in Taken(h)
      BY <2>6, <2>8
    <3>3. Taken(i) = Taken(h)
      BY <2>5, <3>2
    <3>4. Taken(i) = 1..(n + Cardinality(New(i)))
      <4> HIDE DEF New, Taken
      <4> QED BY <2>4, <3>1, <3>3
    <3> QED BY <2>1, <3>4
  <2> QED
    BY <2>7, <2>8
<1>3. Taken(k) = 1..(n + Cardinality(New(k)))
  BY <1>2
<1>4. n + Cardinality(New(k)) \in Nat /\ n + Cardinality(New(k)) >= n
  BY <1>1
<1> QED
  BY <1>3, <1>4

-----------------------------------------------------------------------------
(***************************************************************************)
(* What a pass decides: a registry that extends the one it has read, and   *)
(* labels with speakers of its voices.                                     *)
(***************************************************************************)

Labels == UNION {[T -> Speaker] : T \in SUBSET Segments}
Event == [hint : BOOLEAN, labels : Labels]

(* The passes leave what the stream labels alone.                          *)
DraftOK(d) ==
    /\ d.clusters \in Seq(Voice)
    /\ DOMAIN d.pending \subseteq Segments /\ DOMAIN d.pending \intersect Streamed = {}
    /\ d.labels \in Labels /\ DOMAIN d.labels \intersect Streamed = {}
    /\ d.born \subseteq Speaker /\ d.known \subseteq Speaker

Types ==
    /\ TypeOK
    /\ events \in Seq(Event)
    /\ DOMAIN pending \intersect Streamed = {}
    /\ DOMAIN draft = Passes
    /\ \A p \in Passes : DraftOK(draft[p])

(* Labels of some of the segments are labels,                              *)
LEMMA LabelsIntro ==
    ASSUME NEW T \in SUBSET Segments, NEW l \in [T -> Speaker]
    PROVE  l \in Labels
BY DEF Labels

(* and label nothing else.                                                 *)
LEMMA LabelsElim ==
    ASSUME NEW l \in Labels
    PROVE  /\ DOMAIN l \subseteq Segments
           /\ \A s \in DOMAIN l : l[s] \in Speaker
BY DEF Labels

(* The length of finitely many segments is a number.                       *)
LEMMA LengthType ==
    ASSUME NEW S \in SUBSET Segments
    PROVE  IsFiniteSet(S) /\ Length(S) \in Nat
<1>1. IsFiniteSet(S) /\ \A s \in S : Duration[s] \in Nat
  BY SizeAssumption, FS_Subset
<1> QED
  BY <1>1, SumType DEF Length

(* A voice that has no entry is registered with a speaker or without; the  *)
(* registry stays a list.                                                  *)
LEMMA RegisteredType ==
    ASSUME clusters \in Seq(Voice), NEW k \in Nat, NEW claim \in Claims(Len(clusters), k),
           NEW recognized, NEW p \in Passes
    PROVE  /\ Registered(claim, recognized, p) \in Seq(Voice)
           /\ Len(clusters) <= Len(Registered(claim, recognized, p))
           /\ \A j \in 1..k : claim[j] \in DOMAIN Registered(claim, recognized, p)
<1> DEFINE voices == Registered(claim, recognized, p)
<1>1. Len(clusters) \in Nat /\ DOMAIN clusters = 1..Len(clusters)
  OBVIOUS
<1>2. DOMAIN claim = 1..k
  BY DEF Claims
<1>3. PICK m \in Nat : m >= Len(clusters) /\ 1..Len(clusters) \union {claim[j] : j \in 1..k} = 1..m
  BY <1>1, ClaimsInLine
<1>4. DOMAIN voices = 1..m
  BY <1>1, <1>2, <1>3 DEF Registered
<1>5. ASSUME NEW i \in 1..m
      PROVE  voices[i] \in Voice
  <2>1. CASE i \in DOMAIN clusters
    <3>1. voices[i] = clusters[i]
      BY <1>4, <1>5, <2>1 DEF Registered
    <3> QED BY <2>1, <3>1
  <2>2. CASE i \notin DOMAIN clusters
    <3>1. voices[i] = [speaker |-> IF i = 1 \/ i \in recognized THEN <<i, p>> ELSE Nobody, weight |-> 0]
      BY <1>4, <1>5, <2>2 DEF Registered
    <3>2. <<i, p>> \in Speaker
      BY <1>5 DEF Speaker, Passes
    <3> QED BY <3>1, <3>2 DEF Voice
  <2> QED BY <2>1, <2>2
<1>6. voices \in [1..m -> Voice]
  <2>1. voices = [i \in 1..m |-> voices[i]]
    BY <1>4 DEF Registered
  <2> HIDE DEF voices
  <2> QED BY <1>5, <2>1
<1>7. voices \in Seq(Voice) /\ Len(voices) = m
  <2> HIDE DEF voices
  <2> QED BY <1>6
<1> QED
  BY <1>3, <1>4, <1>7

(* Weighing the turns makes no voice more or less.                         *)
LEMMA WeighedType ==
    ASSUME NEW voices \in Seq(Voice), NEW claim, NEW turn
    PROVE  /\ Weighed(voices, claim, turn) \in Seq(Voice)
           /\ Len(Weighed(voices, claim, turn)) = Len(voices)
<1> DEFINE weighed == Weighed(voices, claim, turn)
<1>1. DOMAIN voices = 1..Len(voices) /\ Len(voices) \in Nat
  OBVIOUS
<1>2. ASSUME NEW i \in 1..Len(voices)
      PROVE  weighed[i] \in Voice
  <2>1. {s \in Candidates(turn) : claim[turn[s]] = i} \in SUBSET Segments
    BY DEF Candidates
  <2>2. Length({s \in Candidates(turn) : claim[turn[s]] = i}) \in Nat
    BY <2>1, LengthType
  <2>3. voices[i] \in Voice
    BY <1>1
  <2>4. weighed[i] = [speaker |-> voices[i].speaker,
                      weight |-> voices[i].weight + Length({s \in Candidates(turn) : claim[turn[s]] = i})]
    BY <1>1 DEF Weighed
  <2>5. voices[i].weight + Length({s \in Candidates(turn) : claim[turn[s]] = i}) \in Nat
    BY <2>2, <2>3 DEF Voice
  <2> HIDE DEF weighed
  <2> QED BY <2>3, <2>4, <2>5 DEF Voice
<1>3. weighed = [i \in 1..Len(voices) |-> weighed[i]]
  BY <1>1 DEF Weighed
<1>4. weighed \in [1..Len(voices) -> Voice]
  <2> HIDE DEF weighed
  <2> QED BY <1>2, <1>3
<1>5. weighed \in Seq(Voice) /\ Len(weighed) = Len(voices)
  <2> HIDE DEF weighed
  <2> QED BY <1>1, <1>4
<1> QED
  BY <1>5

(* One of the registry's voices is this speaker's.                         *)
Speaks(voices, x) == \E i \in DOMAIN voices : voices[i].speaker = x

(* No voice is lost, and a promoted one stays promoted.                    *)
Extending(old, new) ==
    /\ Len(old) <= Len(new)
    /\ \A i \in DOMAIN old : old[i].speaker # Nobody => new[i].speaker = old[i].speaker

(* What a pass decides.                                                    *)
LEMMA DecisionType ==
    ASSUME Types, NEW k \in Nat, NEW turn \in [Segments -> 0..k],
           NEW claim \in Claims(Len(clusters), k), NEW recognized, NEW p \in Passes
    PROVE  LET d == Decision(turn, claim, recognized, p) IN
           /\ DraftOK(d)
           /\ Extending(clusters, d.clusters)
           /\ clusters = << >> /\ d.clusters # << >> => d.clusters[1].speaker # Nobody
           /\ \A s \in DOMAIN d.labels : Speaks(d.clusters, d.labels[s])
           /\ \A i \in DOMAIN d.clusters : d.clusters[i].weight =
                 (IF i \in DOMAIN clusters THEN clusters[i].weight ELSE 0)
                    + Length({s \in Candidates(turn) : claim[turn[s]] = i})
           /\ \A s \in Candidates(turn) : claim[turn[s]] \in DOMAIN d.clusters
           /\ DOMAIN d.labels \union DOMAIN d.pending = DOMAIN pending \union Candidates(turn)
<1> DEFINE d == Decision(turn, claim, recognized, p)
           registered == Registered(claim, recognized, p)
           weighed == Weighed(registered, claim, turn)
           promoted == Promoted(weighed)
           final == [i \in DOMAIN weighed |->
                        [speaker |-> IF i \in promoted THEN <<i, p>> ELSE weighed[i].speaker,
                         weight |-> weighed[i].weight]]
           slot == [s \in Candidates(turn) |-> claim[turn[s]]]
           direct == {s \in Candidates(turn) : weighed[slot[s]].speaker # Nobody}
           held == [s \in DOMAIN pending \union (Candidates(turn) \ direct) |->
                       IF s \in DOMAIN pending THEN pending[s] ELSE slot[s]]
           drained == Drained(held, promoted)
           labels == [s \in direct \union drained |->
                        final[IF s \in direct THEN slot[s] ELSE held[s]].speaker]
           born == {i \in DOMAIN final : final[i].speaker = <<i, p>>}
<1>1. /\ d.clusters = final /\ DOMAIN d.pending = DOMAIN held \ drained
      /\ d.labels = labels
      /\ d.born = {final[i].speaker : i \in born}
      /\ d.known = {final[i].speaker : i \in born \intersect recognized}
  BY DEF Decision
<1>2. registered \in Seq(Voice) /\ \A j \in 1..k : claim[j] \in DOMAIN registered
  BY RegisteredType DEF Types, TypeOK
<1>3. /\ weighed \in Seq(Voice) /\ Len(weighed) = Len(registered)
      /\ \A i \in DOMAIN registered :
            /\ weighed[i].speaker = registered[i].speaker
            /\ weighed[i].weight =
                  registered[i].weight + Length({s \in Candidates(turn) : claim[turn[s]] = i})
      /\ \A s \in Candidates(turn) : turn[s] \in 1..k
  <2>1. \A s \in Candidates(turn) : turn[s] \in 1..k
    BY DEF Candidates
  <2>2. weighed \in Seq(Voice) /\ Len(weighed) = Len(registered)
    <3> HIDE DEF registered
    <3> QED BY <1>2, WeighedType
  <2>3. ASSUME NEW i \in DOMAIN registered
        PROVE  /\ weighed[i].speaker = registered[i].speaker
               /\ weighed[i].weight =
                     registered[i].weight + Length({s \in Candidates(turn) : claim[turn[s]] = i})
    <3>1. weighed[i] = [speaker |-> registered[i].speaker,
                        weight |-> registered[i].weight
                                      + Length({s \in Candidates(turn) : claim[turn[s]] = i})]
      <4> HIDE DEF registered
      <4> QED BY <2>3 DEF Weighed
    <3> HIDE DEF registered, weighed
    <3> QED BY <3>1
  <2> HIDE DEF registered, weighed
  <2> QED BY <2>1, <2>2, <2>3
<1>4. DOMAIN weighed = 1..Len(weighed) /\ Len(weighed) \in Nat /\ DOMAIN registered = DOMAIN weighed
  <2> HIDE DEF weighed, registered
  <2> QED BY <1>2, <1>3
<1>5. ASSUME NEW i \in DOMAIN weighed
      PROVE  /\ final[i] \in Voice
             /\ i \in promoted \/ weighed[i].speaker # Nobody => final[i].speaker \in Speaker
  <2>1. weighed[i] \in Voice /\ <<i, p>> \in Speaker
    <3> HIDE DEF weighed
    <3> QED BY <1>3, <1>4 DEF Speaker, Passes
  <2>2. final[i] = [speaker |-> IF i \in promoted THEN <<i, p>> ELSE weighed[i].speaker,
                    weight |-> weighed[i].weight]
    <3> HIDE DEF weighed, promoted
    <3> QED OBVIOUS
  <2> HIDE DEF weighed, promoted, final
  <2> QED BY <2>1, <2>2 DEF Voice
<1>6. final \in Seq(Voice)
  <2>1. final = [i \in 1..Len(weighed) |-> final[i]]
    <3> HIDE DEF weighed, promoted
    <3> QED BY <1>4
  <2> HIDE DEF weighed, final
  <2> QED BY <1>4, <1>5, <2>1
<1>7. /\ direct \union drained \in SUBSET Segments /\ DOMAIN held \subseteq Segments
      /\ (direct \union drained) \intersect Streamed = {} /\ DOMAIN held \intersect Streamed = {}
  <2>1. direct \subseteq Candidates(turn) /\ drained \subseteq DOMAIN held
    BY DEF Drained
  <2>2. DOMAIN held \subseteq DOMAIN pending \union Candidates(turn)
    OBVIOUS
  <2>3. Candidates(turn) \subseteq Segments /\ Candidates(turn) \intersect Streamed = {}
    BY DEF Candidates
  <2>4. DOMAIN pending \subseteq Segments /\ DOMAIN pending \intersect Streamed = {}
    BY DEF Types, TypeOK
  <2> HIDE DEF direct, drained, held
  <2> QED BY <2>1, <2>2, <2>3, <2>4
<1>8. ASSUME NEW s \in direct \union drained
      PROVE  labels[s] \in Speaker
  <2>1. CASE s \in direct
    <3>1. s \in Candidates(turn) /\ weighed[slot[s]].speaker # Nobody /\ slot[s] = claim[turn[s]]
      BY <2>1
    <3>2. turn[s] \in 1..k
      BY <3>1 DEF Candidates
    <3>3. slot[s] \in DOMAIN weighed
      BY <1>2, <1>4, <3>1, <3>2
    <3>4. labels[s] = final[slot[s]].speaker
      <4> HIDE DEF final, slot, direct, drained, held
      <4> QED BY <2>1
    <3> HIDE DEF weighed, final, slot, labels
    <3> QED BY <1>5, <3>1, <3>3, <3>4
  <2>2. CASE s \notin direct
    <3>1. s \in drained /\ held[s] \in promoted
      BY <1>8, <2>2 DEF Drained
    <3>2. held[s] \in DOMAIN weighed
      BY <3>1 DEF Promoted
    <3>3. labels[s] = final[held[s]].speaker
      <4> HIDE DEF final, slot, direct, drained, held
      <4> QED BY <1>8, <2>2
    <3> HIDE DEF weighed, final, held, labels, promoted
    <3> QED BY <1>5, <3>1, <3>2, <3>3
  <2> QED BY <2>1, <2>2
<1>9. labels \in Labels
  <2>1. labels \in [direct \union drained -> Speaker]
    <3>1. labels = [s \in direct \union drained |-> labels[s]]
      <4> HIDE DEF direct, drained, final, slot, held
      <4> QED OBVIOUS
    <3> HIDE DEF labels, direct, drained
    <3> QED BY <1>8, <3>1
  <2> HIDE DEF labels, direct, drained
  <2> QED BY <1>7, <2>1, LabelsIntro
<1>10. ASSUME NEW i \in born
       PROVE  final[i].speaker \in Speaker
  <2>1. i \in 1..Len(weighed) /\ final[i].speaker = <<i, p>>
    <3> HIDE DEF weighed, promoted
    <3> QED BY <1>4
  <2> HIDE DEF weighed, final
  <2> QED BY <1>4, <2>1 DEF Speaker, Passes
<1>11. DraftOK(d)
  <2>1. DOMAIN labels = direct \union drained
    OBVIOUS
  <2> HIDE DEF d, final, labels, held, direct, drained, born
  <2> QED BY <1>1, <1>6, <1>7, <1>9, <1>10, <2>1 DEF DraftOK
<1>12. DOMAIN final = DOMAIN weighed /\ DOMAIN weighed = DOMAIN registered
  <2> HIDE DEF weighed, registered
  <2> QED BY <1>4
<1>13. Extending(clusters, final)
  <2>1. Len(clusters) <= Len(final) /\ DOMAIN clusters \subseteq DOMAIN registered
    <3>1. Len(clusters) <= Len(registered) /\ Len(clusters) \in Nat /\ DOMAIN clusters = 1..Len(clusters)
      BY RegisteredType DEF Types, TypeOK
    <3>2. Len(final) = Len(weighed)
      <4> HIDE DEF final, weighed
      <4> QED BY <1>4, <1>6, <1>12
    <3> HIDE DEF final, weighed, registered
    <3> QED BY <1>2, <1>3, <1>4, <3>1, <3>2
  <2>2. ASSUME NEW i \in DOMAIN clusters, clusters[i].speaker # Nobody
        PROVE  final[i].speaker = clusters[i].speaker
    <3>1. registered[i] = clusters[i]
      BY <2>1, <2>2 DEF Registered
    <3>2. weighed[i].speaker = clusters[i].speaker
      <4> HIDE DEF registered, weighed
      <4> QED BY <1>3, <2>1, <3>1
    <3>3. i \notin promoted
      <4> HIDE DEF weighed
      <4> QED BY <2>2, <3>2 DEF Promoted
    <3> HIDE DEF weighed, promoted
    <3> QED BY <1>12, <2>1, <3>2, <3>3
  <2> HIDE DEF final
  <2> QED BY <2>1, <2>2 DEF Extending
<1>14. ASSUME clusters = << >>, final # << >>
       PROVE  final[1].speaker # Nobody
  <2>1. 1 \in DOMAIN final
    <3> HIDE DEF final
    <3> QED BY <1>6, <1>14
  <2>2. registered[1].speaker = <<1, p>>
    BY <1>12, <1>14, <2>1 DEF Registered
  <2>3. weighed[1].speaker = <<1, p>>
    <3> HIDE DEF registered, final, weighed
    <3> QED BY <1>3, <1>12, <2>1, <2>2
  <2>4. final[1].speaker = <<1, p>>
    <3> HIDE DEF weighed, promoted
    <3> QED BY <1>12, <2>1, <2>3
  <2> HIDE DEF final
  <2> QED BY <2>4, NameAssumption DEF Passes
<1>15. ASSUME NEW s \in DOMAIN labels
       PROVE  Speaks(final, labels[s])
  <2>1. CASE s \in direct
    <3>1. s \in Candidates(turn) /\ slot[s] = claim[turn[s]]
      BY <2>1
    <3>2. turn[s] \in 1..k
      BY <1>3, <3>1
    <3>3. slot[s] \in DOMAIN final
      <4> HIDE DEF final, registered, weighed
      <4> QED BY <1>2, <1>12, <3>1, <3>2
    <3>4. labels[s] = final[slot[s]].speaker
      <4> HIDE DEF final, slot, direct, drained, held
      <4> QED BY <2>1
    <3> HIDE DEF final, labels, slot
    <3> QED BY <3>3, <3>4 DEF Speaks
  <2>2. CASE s \notin direct
    <3>1. s \in direct \union drained
      BY <1>15
    <3>2. s \in drained /\ held[s] \in promoted
      BY <2>2, <3>1 DEF Drained
    <3>3. held[s] \in DOMAIN final
      BY <3>2 DEF Promoted
    <3>4. labels[s] = final[held[s]].speaker
      <4> HIDE DEF final, slot, direct, drained, held
      <4> QED BY <2>2, <3>1
    <3> HIDE DEF final, labels, held
    <3> QED BY <3>3, <3>4 DEF Speaks
  <2> QED BY <2>1, <2>2
<1>16. ASSUME NEW i \in DOMAIN final
       PROVE  final[i].weight = (IF i \in DOMAIN clusters THEN clusters[i].weight ELSE 0)
                                   + Length({s \in Candidates(turn) : claim[turn[s]] = i})
  <2>1. final[i].weight = weighed[i].weight
    <3> HIDE DEF weighed, promoted
    <3> QED BY <1>16
  <2>2. i \in DOMAIN registered
    <3> HIDE DEF final, registered, weighed
    <3> QED BY <1>12, <1>16
  <2>3. weighed[i].weight = registered[i].weight + Length({s \in Candidates(turn) : claim[turn[s]] = i})
    <3> HIDE DEF registered, weighed
    <3> QED BY <1>3, <2>2
  <2>4. registered[i].weight = IF i \in DOMAIN clusters THEN clusters[i].weight ELSE 0
    BY <2>2 DEF Registered
  <2> HIDE DEF final, weighed, registered
  <2> QED BY <2>1, <2>3, <2>4
<1>17. ASSUME NEW s \in Candidates(turn)
       PROVE  claim[turn[s]] \in DOMAIN final
  <2>1. turn[s] \in 1..k
    BY DEF Candidates
  <2> HIDE DEF final, weighed, registered
  <2> QED BY <1>2, <1>12, <2>1
<1>18. DOMAIN labels \union (DOMAIN held \ drained) = DOMAIN pending \union Candidates(turn)
  <2>1. direct \subseteq Candidates(turn) /\ drained \subseteq DOMAIN held
    BY DEF Drained
  <2>2. DOMAIN labels = direct \union drained
    OBVIOUS
  <2>3. DOMAIN held = DOMAIN pending \union (Candidates(turn) \ direct)
    OBVIOUS
  <2> HIDE DEF labels, direct, drained, held
  <2> QED BY <2>1, <2>2, <2>3
<1>19. /\ DraftOK(d) /\ Extending(clusters, d.clusters)
       /\ clusters = << >> /\ d.clusters # << >> => d.clusters[1].speaker # Nobody
       /\ \A s \in DOMAIN d.labels : Speaks(d.clusters, d.labels[s])
       /\ \A i \in DOMAIN d.clusters : d.clusters[i].weight =
             (IF i \in DOMAIN clusters THEN clusters[i].weight ELSE 0)
                + Length({s \in Candidates(turn) : claim[turn[s]] = i})
       /\ \A s \in Candidates(turn) : claim[turn[s]] \in DOMAIN d.clusters
       /\ DOMAIN d.labels \union DOMAIN d.pending = DOMAIN pending \union Candidates(turn)
  <2> HIDE DEF d, final, labels, held, drained, born
  <2> QED BY <1>1, <1>11, <1>13, <1>14, <1>15, <1>16, <1>17, <1>18
<1> QED
  BY <1>19

-----------------------------------------------------------------------------
(***************************************************************************)
(* States are well formed.                                                 *)
(***************************************************************************)

(* A pass that has decided nothing has a draft of the type.                *)
LEMMA EmptyDraft == DraftOK(NoDraft)
<1>1. << >> \in Seq(Voice)
  OBVIOUS
<1>2. << >> \in Labels /\ DOMAIN << >> = {}
  <2>1. << >> = [s \in {} |-> s]
    OBVIOUS
  <2>2. << >> \in [{} -> Speaker]
    BY <2>1
  <2>3. DOMAIN << >> = {}
    OBVIOUS
  <2> QED BY <2>2, <2>3, LabelsIntro
<1> QED
  BY <1>1, <1>2 DEF DraftOK, NoDraft

(* So do they all when one is set to one of the type.                      *)
LEMMA DraftSet ==
    ASSUME DOMAIN draft = Passes, \A q \in Passes : DraftOK(draft[q]),
           NEW p \in Passes, NEW d, DraftOK(d), draft' = [draft EXCEPT ![p] = d]
    PROVE  DOMAIN draft' = Passes /\ \A q \in Passes : DraftOK(draft'[q])
<1>1. DOMAIN draft' = Passes
  OBVIOUS
<1>2. ASSUME NEW q \in Passes
      PROVE  draft'[q] = IF q = p THEN d ELSE draft[q]
  OBVIOUS
<1> QED
  BY <1>1, <1>2

(* The types hold before the first pass.                                   *)
LEMMA Initially == Init => Types
<1> SUFFICES ASSUME Init
             PROVE  Types
  OBVIOUS
<1> USE NameAssumption DEF Init
<1>1. DOMAIN pending = {}
  OBVIOUS
<1>2. /\ row \in [Segments -> Speaker \union {Nobody}]
      /\ speakers \subseteq Speaker /\ named \subseteq Speaker
      /\ clusters \in Seq(Voice)
      /\ lock \in Passes \union {Free}
      /\ at \in [Passes -> {"todo", "decided", "pushed", "saving", "saved", "over"}]
      /\ told \subseteq Streamed
      /\ reported \subseteq Segments /\ due \subseteq Segments /\ shown \subseteq Segments
      /\ client \in [Segments -> [speaker : Speaker \union {Nobody}, hint : BOOLEAN]]
      /\ broken \in BOOLEAN /\ overlapped \in BOOLEAN /\ streamFirst \in BOOLEAN
  <2>1. row \in [Segments -> Speaker \union {Nobody}]
    OBVIOUS
  <2>2. client \in [Segments -> [speaker : Speaker \union {Nobody}, hint : BOOLEAN]]
    OBVIOUS
  <2>3. at \in [Passes -> {"todo", "decided", "pushed", "saving", "saved", "over"}]
    OBVIOUS
  <2>4. clusters \in Seq(Voice)
    OBVIOUS
  <2> QED BY <2>1, <2>2, <2>3, <2>4
<1>3. events \in Seq(Event) /\ DOMAIN events = {}
  OBVIOUS
<1>4. DOMAIN draft = Passes /\ \A p \in Passes : DraftOK(draft[p])
  BY EmptyDraft
<1> QED
  BY <1>1, <1>2, <1>3, <1>4 DEF Types, TypeOK

(* The events of a well-formed list.                                       *)
LEMMA EventsElim ==
    ASSUME events \in Seq(Event), NEW i \in DOMAIN events
    PROVE  /\ events[i].hint \in BOOLEAN /\ events[i].labels \in Labels
           /\ DOMAIN events[i].labels \subseteq Segments
           /\ \A s \in DOMAIN events[i].labels : events[i].labels[s] \in Speaker
<1>1. events[i] \in Event
  OBVIOUS
<1> QED
  BY <1>1, LabelsElim DEF Event

(* An event of the type keeps the list of the type.                        *)
LEMMA EventsAppend ==
    ASSUME events \in Seq(Event),
           NEW h \in BOOLEAN, NEW l \in Labels,
           events' = Append(events, [hint |-> h, labels |-> l])
    PROVE  /\ events' \in Seq(Event)
           /\ \A i \in DOMAIN events' : \A s \in DOMAIN events'[i].labels : events'[i].labels[s] \in Speaker
<1>1. events' \in Seq(Event)
  BY DEF Event
<1>2. ASSUME NEW i \in DOMAIN events'
      PROVE  events'[i].labels \in Labels
  <2>1. events'[i] \in Event
    BY <1>1
  <2> QED BY <2>1 DEF Event
<1> QED
  BY <1>1, <1>2, LabelsElim

(* What a pass tells the client has the type of labels.                    *)
LEMMA EventLabelsType ==
    ASSUME Types, NEW d, DraftOK(d)
    PROVE  EventLabels(d) \in Labels
<1>1. CASE reported = {}
  <2> DEFINE T == Labelled \union DOMAIN d.labels
             l == [s \in T |-> IF s \in DOMAIN d.labels THEN d.labels[s] ELSE row[s]]
  <2>1. T \in SUBSET Segments /\ \A s \in DOMAIN d.labels : d.labels[s] \in Speaker
    BY LabelsElim DEF DraftOK, Labelled
  <2>2. \A s \in T : l[s] \in Speaker
    BY <2>1 DEF Labelled
  <2>3. l \in [T -> Speaker]
    <3> HIDE DEF T
    <3> QED BY <2>2
  <2>4. l \in Labels
    <3> HIDE DEF T, l
    <3> QED BY <2>1, <2>3, LabelsIntro
  <2> QED BY <1>1, <2>4 DEF EventLabels
<1>2. CASE reported # {}
  BY <1>2 DEF EventLabels, DraftOK
<1> QED
  BY <1>1, <1>2

(* A hint keeps the types;                                                 *)
LEMMA TypesHint ==
    ASSUME Types, NEW s \in Segments, Hint(s)
    PROVE  Types'
<1>1. /\ due' = due \ {s}
      /\ UNCHANGED <<db, registry, work, told, reported, client, shown, history>>
  BY DEF Hint
<1>2. PICK i \in DOMAIN clusters :
         /\ clusters[i].speaker \in speakers
         /\ events' = Append(events, [hint |-> TRUE, labels |-> [t \in {s} |-> clusters[i].speaker]])
  BY DEF Hint
<1>3. [t \in {s} |-> clusters[i].speaker] \in Labels
  <2>1. clusters[i].speaker \in Speaker
    BY <1>2 DEF Types, TypeOK
  <2> QED BY <2>1, LabelsIntro
<1>4. /\ events' \in Seq(Event)
      /\ \A j \in DOMAIN events' : \A t \in DOMAIN events'[j].labels : events'[j].labels[t] \in Speaker
  BY <1>2, <1>3, EventsAppend DEF Types
<1> QED
  BY <1>1, <1>4 DEF Types, TypeOK, db, registry, work, history

(* a decision does,                                                        *)
LEMMA TypesDecide ==
    ASSUME Types, NEW p \in Passes, Decide(p)
    PROVE  Types'
<1>1. /\ UNCHANGED <<db, clusters, pending, wire, broken, streamFirst>>
      /\ overlapped' = (overlapped \/ \E v \in Passes \ {p} : Uncommitted(v))
      /\ \/ at' = [at EXCEPT ![p] = "over"] /\ UNCHANGED <<lock, draft>>
         \/ \E k \in 1..MaxVoices :
            \E turn \in [Segments -> 0..k], claim \in Claims(Len(clusters), k) :
            \E recognized \in Recognizable(claim) :
               /\ lock' = p
               /\ draft' = [draft EXCEPT ![p] = Decision(turn, claim, recognized, p)]
               /\ at' = [at EXCEPT ![p] = "decided"]
  BY DEF Decide, Hearings, Goto
<1>2. /\ lock' \in Passes \union {Free}
      /\ at' \in [Passes -> {"todo", "decided", "pushed", "saving", "saved", "over"}]
  <2>1. /\ lock' \in {lock, p}
        /\ at' = [at EXCEPT ![p] = "over"] \/ at' = [at EXCEPT ![p] = "decided"]
    BY <1>1
  <2> QED
    BY <2>1 DEF Types, TypeOK
<1>3. DOMAIN draft' = Passes /\ \A q \in Passes : DraftOK(draft'[q])
  <2>1. CASE UNCHANGED <<lock, draft>>
    BY <2>1 DEF Types, DraftOK, Labels
  <2>2. CASE ~ UNCHANGED <<lock, draft>>
    <3>1. PICK k \in 1..MaxVoices :
            \E turn \in [Segments -> 0..k], claim \in Claims(Len(clusters), k) :
            \E recognized \in Recognizable(claim) :
               draft' = [draft EXCEPT ![p] = Decision(turn, claim, recognized, p)]
      BY <1>1, <2>2
    <3>2. PICK turn \in [Segments -> 0..k], claim \in Claims(Len(clusters), k) :
            \E recognized \in Recognizable(claim) :
               draft' = [draft EXCEPT ![p] = Decision(turn, claim, recognized, p)]
      BY <3>1
    <3>3. PICK recognized \in Recognizable(claim) :
               draft' = [draft EXCEPT ![p] = Decision(turn, claim, recognized, p)]
      BY <3>2
    <3>4. DraftOK(Decision(turn, claim, recognized, p))
      BY SizeAssumption, DecisionType
    <3> QED
      BY <3>3, <3>4, DraftSet DEF Types
  <2> QED BY <2>1, <2>2
<1>4. overlapped' \in BOOLEAN
  BY <1>1
<1> QED
  BY <1>1, <1>2, <1>3, <1>4 DEF Types, TypeOK, db, wire

(* a push does,                                                            *)
LEMMA TypesPush ==
    ASSUME Types, NEW p \in Passes, Push(p)
    PROVE  Types'
<1>1. /\ UNCHANGED <<db, registry, draft, told, due, client, shown, history>>
      /\ at' = [at EXCEPT ![p] = "pushed"]
      /\ \/ /\ events' = Append(events, [hint |-> FALSE, labels |-> EventLabels(draft[p])])
            /\ reported' = reported \union DOMAIN EventLabels(draft[p])
         \/ UNCHANGED <<events, reported>>
  BY DEF Push, Goto
<1>2. EventLabels(draft[p]) \in Labels /\ DOMAIN EventLabels(draft[p]) \subseteq Segments
  <2>1. EventLabels(draft[p]) \in Labels
    BY EventLabelsType DEF Types
  <2> QED BY <2>1, LabelsElim
<1>3. /\ reported' \subseteq Segments
      /\ events' \in Seq(Event)
      /\ \A j \in DOMAIN events' : \A t \in DOMAIN events'[j].labels : events'[j].labels[t] \in Speaker
  <2>1. CASE UNCHANGED <<events, reported>>
    BY <2>1 DEF Types, TypeOK
  <2>2. CASE /\ events' = Append(events, [hint |-> FALSE, labels |-> EventLabels(draft[p])])
             /\ reported' = reported \union DOMAIN EventLabels(draft[p])
    <3>1. reported' \subseteq Segments
      BY <1>2, <2>2 DEF Types, TypeOK
    <3>2. FALSE \in BOOLEAN
      OBVIOUS
    <3> QED
      BY <1>2, <2>2, <3>1, <3>2, EventsAppend DEF Types
  <2> QED BY <1>1, <2>1, <2>2
<1> QED
  BY <1>1, <1>3 DEF Types, TypeOK, db, registry, history

(* saving, committing and failing do,                                      *)
LEMMA TypesGoing ==
    ASSUME Types, NEW p \in Passes, SaveClusters(p) \/ SavePending(p) \/ Commit(p) \/ Fail(p)
    PROVE  Types'
<1>1. DraftOK(draft[p]) /\ DraftOK(NoDraft)
  BY EmptyDraft DEF Types
<1>2. CASE SaveClusters(p)
  BY <1>1, <1>2 DEF SaveClusters, Goto, Types, TypeOK, DraftOK, db, wire, history
<1>3. ASSUME draft' = [draft EXCEPT ![p] = NoDraft]
      PROVE  DOMAIN draft' = Passes /\ \A q \in Passes : DraftOK(draft'[q])
  BY <1>1, <1>3, DraftSet DEF Types
<1>4. CASE SavePending(p)
  <2>1. /\ UNCHANGED <<db, clusters, wire, overlapped, streamFirst>> /\ pending' = draft[p].pending
        /\ draft' = draft \/ draft' = [draft EXCEPT ![p] = NoDraft]
        /\ broken' \in {broken, TRUE} /\ lock' \in {lock, Free}
        /\ at' = [at EXCEPT ![p] = "saved"] \/ at' = [at EXCEPT ![p] = "over"]
    BY <1>4 DEF SavePending, Goto
  <2>2. DOMAIN draft' = Passes /\ \A q \in Passes : DraftOK(draft'[q])
    BY <1>3, <2>1 DEF Types
  <2> QED
    BY <1>1, <2>1, <2>2 DEF Types, TypeOK, DraftOK, db, wire
<1>5. CASE Commit(p)
  <2>1. /\ UNCHANGED <<registry, wire, history>>
        /\ row' = [s \in Segments |->
                     IF s \in DOMAIN draft[p].labels THEN draft[p].labels[s] ELSE row[s]]
        /\ speakers' = speakers \union draft[p].born
        /\ named' = named \union draft[p].known
        /\ draft' = [draft EXCEPT ![p] = NoDraft] /\ at' = [at EXCEPT ![p] = "over"]
    BY <1>5 DEF Commit, Goto
  <2>2. \A s \in DOMAIN draft[p].labels : draft[p].labels[s] \in Speaker
    BY <1>1, LabelsElim DEF DraftOK
  <2>3. row' \in [Segments -> Speaker \union {Nobody}]
    BY <2>1, <2>2 DEF Types, TypeOK
  <2> QED
    BY <1>1, <1>3, <2>1, <2>3 DEF Types, TypeOK, DraftOK, registry, wire, history
<1>6. CASE Fail(p)
  <2>1. /\ UNCHANGED <<db, clusters, pending, wire, overlapped, streamFirst>>
        /\ draft' = [draft EXCEPT ![p] = NoDraft] /\ at' = [at EXCEPT ![p] = "over"]
        /\ broken' \in BOOLEAN /\ lock' \in {lock, Free}
    BY <1>6 DEF Fail, Goto
  <2> QED
    BY <1>3, <2>1 DEF Types, TypeOK, db, wire
<1> QED
  BY <1>2, <1>4, <1>5, <1>6

(* a delivery does,                                                        *)
LEMMA TypesDeliver ==
    ASSUME Types, Deliver
    PROVE  Types'
<1>1. /\ events # << >> /\ events' = Tail(events)
      /\ client' = [s \in Segments |->
                      IF s \in DOMAIN events[1].labels
                        THEN [speaker |-> events[1].labels[s], hint |-> events[1].hint] ELSE client[s]]
      /\ UNCHANGED <<db, registry, work, told, reported, due, shown, history>>
  BY DEF Deliver, Types
<1>2. events[1].hint \in BOOLEAN /\ \A s \in DOMAIN events[1].labels : events[1].labels[s] \in Speaker
  <2>1. 1 \in DOMAIN events
    BY <1>1 DEF Types
  <2> QED BY <2>1, EventsElim DEF Types
<1>3. client' \in [Segments -> [speaker : Speaker \union {Nobody}, hint : BOOLEAN]]
  BY <1>1, <1>2 DEF Types, TypeOK
<1>4. /\ events' \in Seq(Event)
      /\ \A i \in DOMAIN events' : i + 1 \in DOMAIN events /\ events'[i] = events[i + 1]
  BY <1>1 DEF Types
<1>5. \A i \in DOMAIN events' : \A s \in DOMAIN events'[i].labels : events'[i].labels[s] \in Speaker
  BY <1>4 DEF Types, TypeOK
<1> QED
  BY <1>1, <1>3, <1>4, <1>5 DEF Types, TypeOK, db, registry, work, history

(* what the stream does,                                                   *)
LEMMA TypesStream ==
    ASSUME Types, NEW s \in Segments, CommitStreamed(s) \/ PushStreamed(s)
    PROVE  Types'
<1>1. CASE CommitStreamed(s)
  <2>1. /\ row' = [row EXCEPT ![s] = StreamSpeaker(s)]
        /\ speakers' = speakers \union {StreamSpeaker(s)}
        /\ UNCHANGED <<named, registry, work, wire, history>>
    BY <1>1 DEF CommitStreamed
  <2>2. StreamSpeaker(s) \in Speaker
    BY <1>1, SizeAssumption DEF CommitStreamed, StreamSpeaker, Streamed, Speaker
  <2>3. row' \in [Segments -> Speaker \union {Nobody}] /\ speakers' \subseteq Speaker
    BY <2>1, <2>2 DEF Types, TypeOK
  <2> QED
    BY <2>1, <2>3 DEF Types, TypeOK, DraftOK, Labels, registry, work, wire, history
<1>2. CASE PushStreamed(s)
  <2>1. /\ s \in Streamed /\ row[s] # Nobody /\ told' = told \union {s}
        /\ events' = Append(events, [hint |-> FALSE, labels |-> [t \in {s} |-> row[s]]])
        /\ reported' = reported \union {s}
        /\ streamFirst' = (streamFirst \/ reported = {})
        /\ UNCHANGED <<db, registry, work, due, client, shown, broken, overlapped>>
    BY <1>2 DEF PushStreamed
  <2>2. [t \in {s} |-> row[s]] \in Labels /\ FALSE \in BOOLEAN
    <3>1. row[s] \in Speaker
      BY <2>1 DEF Types, TypeOK
    <3> QED BY <3>1, LabelsIntro
  <2>3. /\ events' \in Seq(Event)
        /\ \A j \in DOMAIN events' : \A t \in DOMAIN events'[j].labels : events'[j].labels[t] \in Speaker
    BY <2>1, <2>2, EventsAppend DEF Types
  <2>4. told' \subseteq Streamed /\ reported' \subseteq Segments /\ streamFirst' \in BOOLEAN
    BY <2>1 DEF Types, TypeOK
  <2> QED
    BY <2>1, <2>3, <2>4 DEF Types, TypeOK, DraftOK, Labels, db, registry, work
<1> QED
  BY <1>1, <1>2

(* and so does every step.                                                 *)
LEMMA TypesStep ==
    ASSUME Types, [Next]_vars
    PROVE  Types'
<1>1. ASSUME NEW s \in Segments, ShowTranscript(s)
      PROVE  Types'
  BY <1>1 DEF ShowTranscript, Types, TypeOK, DraftOK, Labels, db, registry, work, history
<1>2. ASSUME NEW s \in Segments, CommitStreamed(s) \/ PushStreamed(s) \/ Hint(s)
      PROVE  Types'
  BY <1>2, TypesStream, TypesHint
<1>3. ASSUME NEW p \in Passes, Decide(p) \/ Going(p) \/ Fail(p)
      PROVE  Types'
  BY <1>3, TypesDecide, TypesPush, TypesGoing DEF Going
<1>4. CASE LockExpires
  BY <1>4 DEF LockExpires, Types, TypeOK, DraftOK, Labels, db, work, wire, history
<1>5. CASE Deliver
  BY <1>5, TypesDeliver
<1>6. CASE UNCHANGED vars
  BY <1>6 DEF vars, Types, TypeOK, DraftOK, Labels, db, registry, work, wire, history
<1> QED
  BY <1>1, <1>2, <1>3, <1>4, <1>5, <1>6 DEF Next

(* The type invariant with what it leaves open: the events' and the       *)
(* decisions' types.                                                       *)
THEOREM Typed == Spec => []Types
BY Initially, TypesStep, PTL DEF Spec

(* Every state is well formed, whatever the passes hear: the registry is   *)
(* a list of voices without a gap, and what is decided, pushed or shown    *)
(* labels segments with speakers.                                          *)
THEOREM TypeCorrect == Spec => []TypeOK
<1>1. Types => TypeOK
  BY DEF Types
<1> QED
  BY <1>1, Typed, PTL

(* No step takes a label from the client.                                  *)
LEMMA StayStep ==
    ASSUME Types, [Next]_vars, NEW s \in Segments, client[s].speaker # Nobody
    PROVE  client'[s].speaker # Nobody
<1>1. CASE Deliver
  <2>1. /\ events # << >>
        /\ client' = [t \in Segments |->
                        IF t \in DOMAIN events[1].labels
                          THEN [speaker |-> events[1].labels[t], hint |-> events[1].hint] ELSE client[t]]
    BY <1>1 DEF Deliver, Types
  <2>2. 1 \in DOMAIN events
    BY <2>1 DEF Types
  <2>3. \A t \in DOMAIN events[1].labels : events[1].labels[t] \in Speaker
    BY <2>2, EventsElim DEF Types
  <2> QED
    BY <2>1, <2>3, NameAssumption DEF Speaker
<1>2. CASE ~Deliver
  <2>1. ASSUME NEW t \in Segments, OnSegment(t)
        PROVE  client' = client
    BY <2>1 DEF OnSegment, CommitStreamed, PushStreamed, ShowTranscript, Hint, wire
  <2>2. ASSUME NEW p \in Passes, Decide(p) \/ Going(p) \/ Fail(p)
        PROVE  client' = client
    BY <2>2 DEF Decide, Going, Push, SaveClusters, SavePending, Commit, Fail, wire
  <2>3. ASSUME LockExpires \/ UNCHANGED vars
        PROVE  client' = client
    BY <2>3 DEF LockExpires, wire, vars
  <2>4. client' = client
    BY <1>2, <2>1, <2>2, <2>3 DEF Next, OnSegment
  <2> QED
    BY <2>4
<1> QED
  BY <1>1, <1>2

(* store.ts:47: once the client shows a label for a segment, no transcript *)
(* message, update or hint ever takes it away.                             *)
THEOREM ClientKeepsLabels == Spec => LabelsStay
<1>1. Types /\ [Next]_vars =>
         [\A s \in Segments : client[s].speaker # Nobody => client'[s].speaker # Nobody]_vars
  BY StayStep
<1> QED
  BY <1>1, Typed, PTL DEF Spec, LabelsStay

-----------------------------------------------------------------------------
(***************************************************************************)
(* As long as no pass has been cut off, nor has outlived the lock with its *)
(* event out, every speaker that anybody was told of has its voice in the  *)
(* registry, and in what a pass has decided.                               *)
(***************************************************************************)

(* A pass that has outlived the lock and begun to save cannot end well.    *)
Doomed == \E p \in Passes : at[p] \in {"pushed", "saving"} /\ lock # p
Sound == ~broken /\ ~Doomed

(* The passes whose labels are decided, flushed and not yet committed.     *)
Told == {p \in Passes : at[p] \in {"pushed", "saving", "saved"}}

Opened(voices) == voices # << >> => voices[1].speaker # Nobody

(* What the passes have labelled.  The stream's speakers are no voices of  *)
(* the registry.                                                           *)
Heard == Labelled \ Streamed

RegistrySpeaks ==
    /\ Opened(clusters)
    /\ \A s \in Heard : Speaks(clusters, row[s])
    /\ \A p \in Passes : at[p] = "saved" =>
          \A s \in DOMAIN draft[p].labels : Speaks(clusters, draft[p].labels[s])

DraftSpeaks ==
    \A p \in Passes : lock = p /\ at[p] \in {"decided", "pushed", "saving"} =>
        /\ Opened(draft[p].clusters)
        /\ \A s \in DOMAIN draft[p].labels : Speaks(draft[p].clusters, draft[p].labels[s])
        /\ Extending(clusters, draft[p].clusters)
        /\ at[p] = "saving" => clusters = draft[p].clusters

(* Before a pass opens the gate, everybody whom the passes know and have   *)
(* not reported is the channel's first voice.  When the stream has opened  *)
(* it, this is so for good.                                                *)
OneVoice ==
    reported = {} \/ streamFirst =>
        /\ \A s \in Heard \ reported : row[s] = clusters[1].speaker
        /\ \A p \in Passes : \A s \in DOMAIN draft[p].labels \ reported :
              /\ at[p] \in {"pushed", "saving"} => draft[p].labels[s] = draft[p].clusters[1].speaker
              /\ at[p] = "saved" => draft[p].labels[s] = clusters[1].speaker

Voices == Sound => RegistrySpeaks /\ DraftSpeaks /\ OneVoice

(* What has gone wrong stays so: a sound state comes from sound ones.      *)
LEMMA StillDoomed ==
    ASSUME Types, Next, Sound'
    PROVE  Sound
<1> USE NameAssumption DEF Types, TypeOK, Sound, Doomed, Passes
<1>1. ASSUME NEW s \in Segments, OnSegment(s)
      PROVE  Sound
  BY <1>1 DEF OnSegment, CommitStreamed, PushStreamed, ShowTranscript, Hint, registry, work, history
<1>2. ASSUME NEW p \in Passes, Decide(p)
      PROVE  Sound
  <2>1. /\ lock = Free /\ lock' \in {lock, p} /\ broken' = broken /\ at[p] = "todo"
        /\ at' = [at EXCEPT ![p] = "over"] \/ at' = [at EXCEPT ![p] = "decided"]
    BY <1>2 DEF Decide, Dispatched, Goto
  <2> QED BY <2>1
<1>3. ASSUME NEW p \in Passes, Push(p)
      PROVE  Sound
  BY <1>3 DEF Push, Goto, registry, history
<1>4. ASSUME NEW p \in Passes, SaveClusters(p)
      PROVE  Sound
  BY <1>4 DEF SaveClusters, Goto, history
<1>5. ASSUME NEW p \in Passes, SavePending(p)
      PROVE  Sound
  <2>1. CASE lock = p
    <3>1. lock' = Free /\ at' = [at EXCEPT ![p] = "saved"] /\ broken' = broken
      BY <1>5, <2>1 DEF SavePending, Goto
    <3> QED BY <2>1, <3>1
  <2>2. CASE lock # p
    BY <1>5, <2>2 DEF SavePending
  <2> QED BY <2>1, <2>2
<1>6. ASSUME NEW p \in Passes, Commit(p)
      PROVE  Sound
  BY <1>6 DEF Commit, Goto, registry, history
<1>7. ASSUME NEW p \in Passes, Fail(p)
      PROVE  Sound
  <2>1. /\ at' = [at EXCEPT ![p] = "over"] /\ lock' \in {lock, Free}
        /\ ~broken /\ at[p] \notin {"pushed", "saving", "saved"}
    BY <1>7 DEF Fail, Goto
  <2> QED BY <2>1
<1>8. CASE LockExpires
  BY <1>8 DEF LockExpires, work, history
<1>9. CASE Deliver
  BY <1>9 DEF Deliver, registry, work, history
<1> QED
  BY <1>1, <1>2, <1>3, <1>4, <1>5, <1>6, <1>7, <1>8, <1>9 DEF Next, OnSegment, Going

(* Nothing but a commit changes what the passes have labelled.             *)
LEMMA HeardStep ==
    ASSUME Types, NEW s \in Segments, OnSegment(s)
    PROVE  Heard' = Heard /\ \A r \in Heard : row'[r] = row[r]
<1>1. CASE CommitStreamed(s)
  <2>1. s \in Streamed /\ row' = [row EXCEPT ![s] = StreamSpeaker(s)]
    BY <1>1 DEF CommitStreamed
  <2> QED BY <2>1 DEF Heard, Labelled, Types, TypeOK
<1>2. CASE ~CommitStreamed(s)
  BY <1>2 DEF OnSegment, PushStreamed, ShowTranscript, Hint, db, Heard, Labelled
<1> QED
  BY <1>1, <1>2

(* A report of the stream's does not pass for one of the passes'.          *)
LEMMA StreamGate ==
    ASSUME Types, NEW s \in Segments, OnSegment(s)
    PROVE  /\ reported \subseteq reported'
           /\ reported' = {} \/ streamFirst' => reported = {} \/ streamFirst
           /\ ~streamFirst' /\ reported' # {} => ~streamFirst /\ reported # {}
<1>1. CASE PushStreamed(s)
  <2>1. reported' = reported \union {s} /\ (streamFirst' <=> streamFirst \/ reported = {})
    BY <1>1 DEF PushStreamed
  <2> QED BY <2>1
<1>2. CASE ~PushStreamed(s)
  <2>1. UNCHANGED <<reported, streamFirst>>
    BY <1>2 DEF OnSegment, CommitStreamed, ShowTranscript, Hint, wire, history
  <2> QED BY <2>1
<1> QED
  BY <1>1, <1>2

(* Who saves has the lock, and there is one lock.                          *)
LEMMA Holder ==
    ASSUME Sound, NEW p \in Passes, at[p] \in {"pushed", "saving"}
    PROVE  lock = p
BY DEF Sound, Doomed

(* A speaker of a registry is one of every registry it becomes.            *)
LEMMA SpeaksOn ==
    ASSUME NEW old \in Seq(Voice), NEW new \in Seq(Voice), Extending(old, new),
           NEW x \in Speaker, Speaks(old, x)
    PROVE  Speaks(new, x)
<1>1. PICK i \in DOMAIN old : old[i].speaker = x
  BY DEF Speaks
<1>2. old[i].speaker # Nobody
  BY <1>1, NameAssumption DEF Speaker
<1>3. i \in DOMAIN new
  BY <1>1 DEF Extending
<1> QED
  BY <1>1, <1>2, <1>3 DEF Extending, Speaks

(* A step that leaves registry, drafts and the rows that the passes have   *)
(* labelled alone keeps the voices.                                        *)
LEMMA VoicesFrame ==
    ASSUME Voices, Sound' => Sound, UNCHANGED <<clusters, lock, at, draft>>,
           Heard' = Heard, \A s \in Heard : row'[s] = row[s],
           reported \subseteq reported',
           reported' = {} \/ streamFirst' => reported = {} \/ streamFirst
    PROVE  Voices'
<1> SUFFICES ASSUME Sound'
             PROVE  RegistrySpeaks' /\ DraftSpeaks' /\ OneVoice'
  BY DEF Voices
<1>1. RegistrySpeaks /\ DraftSpeaks /\ OneVoice
  BY DEF Voices
<1>2. RegistrySpeaks'
  BY <1>1 DEF RegistrySpeaks, Opened, Speaks
<1>3. DraftSpeaks'
  BY <1>1 DEF DraftSpeaks, Opened, Speaks, Extending
<1>4. OneVoice'
  BY <1>1 DEF OneVoice
<1> QED
  BY <1>2, <1>3, <1>4

(* A decision keeps the voices.                                            *)
LEMMA VoicesDecide ==
    ASSUME Types, Voices, Sound' => Sound, NEW p \in Passes, Decide(p)
    PROVE  Voices'
<1> SUFFICES ASSUME Sound'
             PROVE  RegistrySpeaks' /\ DraftSpeaks' /\ OneVoice'
  BY DEF Voices
<1>1. /\ at[p] = "todo" /\ lock = Free /\ UNCHANGED <<row, clusters, reported, streamFirst>>
      /\ \/ at' = [at EXCEPT ![p] = "over"] /\ UNCHANGED <<lock, draft>>
         \/ \E k \in 1..MaxVoices :
            \E turn \in [Segments -> 0..k], claim \in Claims(Len(clusters), k) :
            \E recognized \in Recognizable(claim) :
               /\ lock' = p
               /\ draft' = [draft EXCEPT ![p] = Decision(turn, claim, recognized, p)]
               /\ at' = [at EXCEPT ![p] = "decided"]
  BY DEF Decide, Dispatched, Hearings, Goto, db, wire
<1>2. RegistrySpeaks /\ DraftSpeaks /\ OneVoice
  BY DEF Voices
<1>3. ASSUME NEW q \in Passes, q # p
      PROVE  at'[q] = at[q] /\ draft'[q] = draft[q]
  BY <1>1, <1>3 DEF Types, TypeOK
<1>4. at'[p] \in {"decided", "over"}
  BY <1>1 DEF Types, TypeOK
<1>5. RegistrySpeaks'
  BY <1>1, <1>2, <1>3, <1>4 DEF RegistrySpeaks, Heard, Labelled, Speaks, Opened
<1>6. OneVoice'
  BY <1>1, <1>2, <1>3, <1>4 DEF OneVoice, Heard, Labelled
<1>7. ASSUME at'[p] = "decided"
      PROVE  /\ Opened(draft'[p].clusters)
             /\ \A s \in DOMAIN draft'[p].labels : Speaks(draft'[p].clusters, draft'[p].labels[s])
             /\ Extending(clusters, draft'[p].clusters)
  <2>1. PICK k \in 1..MaxVoices :
            \E turn \in [Segments -> 0..k], claim \in Claims(Len(clusters), k) :
            \E recognized \in Recognizable(claim) :
               draft' = [draft EXCEPT ![p] = Decision(turn, claim, recognized, p)]
    BY <1>1, <1>7 DEF Types, TypeOK
  <2>2. PICK turn \in [Segments -> 0..k], claim \in Claims(Len(clusters), k) :
            \E recognized \in Recognizable(claim) :
               draft' = [draft EXCEPT ![p] = Decision(turn, claim, recognized, p)]
    BY <2>1
  <2>3. PICK recognized \in Recognizable(claim) :
               draft' = [draft EXCEPT ![p] = Decision(turn, claim, recognized, p)]
    BY <2>2
  <2> DEFINE d == Decision(turn, claim, recognized, p)
  <2>4. draft'[p] = d
    BY <2>3 DEF Types
  <2>5. k \in Nat
    BY SizeAssumption
  <2>6. /\ DraftOK(d) /\ Extending(clusters, d.clusters)
        /\ clusters = << >> /\ d.clusters # << >> => d.clusters[1].speaker # Nobody
        /\ \A s \in DOMAIN d.labels : Speaks(d.clusters, d.labels[s])
    BY <2>5, DecisionType
  <2>7. Opened(d.clusters)
    <3>1. ASSUME clusters # << >>
          PROVE  d.clusters[1].speaker # Nobody
      <4>1. 1 \in DOMAIN clusters /\ clusters[1].speaker # Nobody
        BY <1>2, <3>1 DEF RegistrySpeaks, Opened, Types, TypeOK
      <4> HIDE DEF d
      <4> QED BY <2>6, <4>1 DEF Extending
    <3> HIDE DEF d
    <3> QED BY <2>6, <3>1 DEF Opened
  <2> HIDE DEF d
  <2> QED BY <2>4, <2>6, <2>7
<1>8. DraftSpeaks'
  <2> SUFFICES ASSUME NEW q \in Passes, lock' = q, at'[q] \in {"decided", "pushed", "saving"}
               PROVE  /\ Opened(draft'[q].clusters)
                      /\ \A s \in DOMAIN draft'[q].labels : Speaks(draft'[q].clusters, draft'[q].labels[s])
                      /\ Extending(clusters', draft'[q].clusters)
                      /\ at'[q] = "saving" => clusters' = draft'[q].clusters
    BY DEF DraftSpeaks, Opened, Speaks, Extending
  <2>1. q = p /\ at'[p] = "decided"
    BY <1>1, <1>4, NameAssumption DEF Passes
  <2> QED BY <1>1, <1>7, <2>1
<1> QED
  BY <1>5, <1>6, <1>8

(* With at most one voice, every speaker is the first.                     *)
LEMMA OnlyVoice ==
    ASSUME NEW voices \in Seq(Voice), ~(Len(voices) >= 2), NEW x, Speaks(voices, x)
    PROVE  voices # << >> /\ x = voices[1].speaker
<1>1. PICK i \in DOMAIN voices : voices[i].speaker = x
  BY DEF Speaks
<1>2. i = 1
  BY <1>1
<1> QED
  BY <1>1, <1>2

(* An event tells of every label the pass decided.                         *)
LEMMA EventCovers ==
    ASSUME NEW d
    PROVE  DOMAIN d.labels \subseteq DOMAIN EventLabels(d)
BY DEF EventLabels

(* A push keeps the voices;                                                *)
LEMMA VoicesPush ==
    ASSUME Types, Voices, Sound' => Sound, NEW p \in Passes, Push(p)
    PROVE  Voices'
<1> SUFFICES ASSUME Sound'
             PROVE  RegistrySpeaks' /\ DraftSpeaks' /\ OneVoice'
  BY DEF Voices
<1>1. /\ at[p] = "decided" /\ at' = [at EXCEPT ![p] = "pushed"]
      /\ UNCHANGED <<row, clusters, lock, draft, streamFirst>>
      /\ IF GateOpen(draft[p])
           THEN reported' = reported \union DOMAIN EventLabels(draft[p])
           ELSE reported' = reported
  BY DEF Push, Goto, db, registry, history
<1>2. RegistrySpeaks /\ DraftSpeaks /\ OneVoice
  BY DEF Voices
<1>3. at'[p] = "pushed" /\ \A q \in Passes : q # p => at'[q] = at[q]
  BY <1>1 DEF Types, TypeOK
<1>4. lock = p
  BY <1>1, <1>3 DEF Sound, Doomed
<1>5. RegistrySpeaks'
  BY <1>1, <1>2, <1>3 DEF RegistrySpeaks, Heard, Labelled, Speaks, Opened
<1>6. DraftSpeaks'
  BY <1>1, <1>2, <1>3, <1>4 DEF DraftSpeaks, Speaks, Opened, Extending
<1>7. ASSUME NEW s \in DOMAIN draft[p].labels \ reported'
      PROVE  draft[p].labels[s] = draft[p].clusters[1].speaker
  <2>1. ~GateOpen(draft[p])
    BY <1>1, <1>7, EventCovers
  <2>2. ~(Len(draft[p].clusters) >= 2)
    BY <1>7, <2>1 DEF GateOpen
  <2>3. draft[p].clusters \in Seq(Voice)
    BY DEF Types, DraftOK
  <2>4. Speaks(draft[p].clusters, draft[p].labels[s])
    BY <1>1, <1>2, <1>4, <1>7 DEF DraftSpeaks
  <2> QED
    BY <2>2, <2>3, <2>4, OnlyVoice
<1>8. OneVoice'
  <2>1. reported \subseteq reported' /\ (reported' = {} \/ streamFirst' => reported = {} \/ streamFirst)
    BY <1>1
  <2> QED
    BY <1>1, <1>2, <1>3, <1>7, <2>1 DEF OneVoice, Heard, Labelled
<1> QED
  BY <1>5, <1>6, <1>8

(* the first SET does,                                                     *)
LEMMA VoicesSaveClusters ==
    ASSUME Types, Voices, Sound' => Sound, NEW p \in Passes, SaveClusters(p)
    PROVE  Voices'
<1> SUFFICES ASSUME Sound'
             PROVE  RegistrySpeaks' /\ DraftSpeaks' /\ OneVoice'
  BY DEF Voices
<1>1. /\ at[p] = "pushed" /\ at' = [at EXCEPT ![p] = "saving"]
      /\ clusters' = draft[p].clusters
      /\ UNCHANGED <<row, lock, draft, reported, streamFirst>>
  BY DEF SaveClusters, Goto, db, wire, history
<1>2. RegistrySpeaks /\ DraftSpeaks /\ OneVoice
  BY DEF Voices
<1>3. at'[p] = "saving" /\ \A q \in Passes : q # p => at'[q] = at[q]
  BY <1>1 DEF Types, TypeOK
<1>4. lock = p
  BY <1>1, Holder
<1>5. /\ Opened(clusters') /\ Extending(clusters, clusters')
      /\ clusters \in Seq(Voice) /\ clusters' \in Seq(Voice)
      /\ \A s \in DOMAIN draft[p].labels : Speaks(clusters', draft[p].labels[s])
  BY <1>1, <1>2, <1>4 DEF DraftSpeaks, Types, TypeOK, DraftOK
<1>6. \A x \in Speaker : Speaks(clusters, x) => Speaks(clusters', x)
  BY <1>5, SpeaksOn
<1>7. \A q \in Passes : \A s \in DOMAIN draft[q].labels : draft[q].labels[s] \in Speaker
  BY LabelsElim DEF Types, DraftOK
<1>8. RegistrySpeaks'
  <2>1. \A s \in Heard' : Speaks(clusters', row'[s])
    BY <1>1, <1>2, <1>6 DEF RegistrySpeaks, Heard, Labelled
  <2>2. ASSUME NEW q \in Passes, at'[q] = "saved", NEW s \in DOMAIN draft'[q].labels
        PROVE  Speaks(clusters', draft'[q].labels[s])
    <3>1. at[q] = "saved" /\ draft'[q] = draft[q]
      BY <1>1, <1>3, <2>2
    <3>2. Speaks(clusters, draft[q].labels[s])
      BY <1>2, <2>2, <3>1 DEF RegistrySpeaks
    <3> QED BY <1>6, <1>7, <2>2, <3>1, <3>2
  <2> QED BY <1>5, <2>1, <2>2 DEF RegistrySpeaks, Opened, Speaks
<1>9. DraftSpeaks'
  <2> SUFFICES ASSUME NEW q \in Passes, lock' = q, at'[q] \in {"decided", "pushed", "saving"}
               PROVE  /\ Opened(draft'[q].clusters)
                      /\ \A s \in DOMAIN draft'[q].labels : Speaks(draft'[q].clusters, draft'[q].labels[s])
                      /\ Extending(clusters', draft'[q].clusters)
                      /\ at'[q] = "saving" => clusters' = draft'[q].clusters
    BY DEF DraftSpeaks, Opened, Speaks, Extending
  <2>1. q = p /\ draft'[q].clusters = clusters'
    BY <1>1, <1>4
  <2>2. Extending(clusters', clusters')
    BY <1>5 DEF Extending
  <2> QED BY <1>1, <1>5, <2>1, <2>2
<1>10. OneVoice'
  <2> SUFFICES ASSUME reported = {} \/ streamFirst
               PROVE  /\ \A s \in Heard' \ reported' : row'[s] = clusters'[1].speaker
                      /\ \A q \in Passes : \A s \in DOMAIN draft'[q].labels \ reported' :
                           /\ at'[q] \in {"pushed", "saving"} => draft'[q].labels[s] = draft'[q].clusters[1].speaker
                           /\ at'[q] = "saved" => draft'[q].labels[s] = clusters'[1].speaker
    BY <1>1 DEF OneVoice
  <2>1. ASSUME NEW x \in Speaker, Speaks(clusters, x), x = clusters[1].speaker
        PROVE  x = clusters'[1].speaker
    <3>1. clusters # << >>
      BY <2>1 DEF Speaks
    <3>2. 1 \in DOMAIN clusters /\ x # Nobody
      BY <1>5, <3>1, NameAssumption DEF Speaker
    <3> QED BY <1>5, <2>1, <3>2 DEF Extending
  <2>2. \A s \in Heard' \ reported' : row'[s] = clusters'[1].speaker
    BY <1>1, <1>2, <2>1 DEF OneVoice, RegistrySpeaks, Heard, Labelled
  <2>3. ASSUME NEW q \in Passes, NEW s \in DOMAIN draft[q].labels \ reported, at'[q] = "saved"
        PROVE  draft[q].labels[s] = clusters'[1].speaker
    <3>1. at[q] = "saved" /\ draft[q].labels[s] \in Speaker
      BY <1>3, <1>7, <2>3
    <3>2. Speaks(clusters, draft[q].labels[s]) /\ draft[q].labels[s] = clusters[1].speaker
      BY <1>2, <2>3, <3>1 DEF OneVoice, RegistrySpeaks
    <3> QED BY <2>1, <3>1, <3>2
  <2>4. ASSUME NEW q \in Passes, NEW s \in DOMAIN draft[q].labels \ reported, at'[q] \in {"pushed", "saving"}
        PROVE  draft[q].labels[s] = draft[q].clusters[1].speaker
    <3>1. at[q] \in {"pushed", "saving"}
      BY <1>1, <1>3, <2>4
    <3> QED BY <1>2, <2>4, <3>1 DEF OneVoice
  <2> QED BY <1>1, <2>2, <2>3, <2>4
<1> QED
  BY <1>8, <1>9, <1>10

(* the second does,                                                        *)
LEMMA VoicesSavePending ==
    ASSUME Types, Voices, Sound' => Sound, NEW p \in Passes, SavePending(p)
    PROVE  Voices'
<1> SUFFICES ASSUME Sound'
             PROVE  RegistrySpeaks' /\ DraftSpeaks' /\ OneVoice'
  BY DEF Voices
<1>1. lock = p
  BY Holder DEF SavePending
<1>2. /\ at[p] = "saving" /\ at' = [at EXCEPT ![p] = "saved"] /\ lock' = Free
      /\ UNCHANGED <<row, clusters, draft, reported, streamFirst>>
  BY <1>1 DEF SavePending, Goto, db, wire
<1>3. RegistrySpeaks /\ DraftSpeaks /\ OneVoice
  BY DEF Voices
<1>4. at'[p] = "saved" /\ \A q \in Passes : q # p => at'[q] = at[q]
  BY <1>2 DEF Types, TypeOK
<1>5. /\ clusters = draft[p].clusters
      /\ \A s \in DOMAIN draft[p].labels : Speaks(draft[p].clusters, draft[p].labels[s])
  BY <1>1, <1>2, <1>3 DEF DraftSpeaks
<1>6. RegistrySpeaks'
  BY <1>2, <1>3, <1>4, <1>5 DEF RegistrySpeaks, Heard, Labelled, Speaks, Opened
<1>7. DraftSpeaks'
  BY <1>2, NameAssumption DEF DraftSpeaks, Passes
<1>8. OneVoice'
  BY <1>2, <1>3, <1>4, <1>5 DEF OneVoice, Heard, Labelled
<1> QED
  BY <1>6, <1>7, <1>8

(* a commit does,                                                          *)
LEMMA VoicesCommit ==
    ASSUME Types, Voices, Sound' => Sound, NEW p \in Passes, Commit(p)
    PROVE  Voices'
<1> SUFFICES ASSUME Sound'
             PROVE  RegistrySpeaks' /\ DraftSpeaks' /\ OneVoice'
  BY DEF Voices
<1>1. /\ at[p] = "saved" /\ at' = [at EXCEPT ![p] = "over"]
      /\ draft' = [draft EXCEPT ![p] = NoDraft]
      /\ row' = [s \in Segments |->
                   IF s \in DOMAIN draft[p].labels THEN draft[p].labels[s] ELSE row[s]]
      /\ UNCHANGED <<clusters, lock, reported, streamFirst>>
  BY DEF Commit, Goto, registry, wire, history
<1>2. RegistrySpeaks /\ DraftSpeaks /\ OneVoice
  BY DEF Voices
<1>3. at'[p] = "over" /\ \A q \in Passes : q # p => at'[q] = at[q] /\ draft'[q] = draft[q]
  BY <1>1 DEF Types, TypeOK
<1>4. ASSUME NEW s \in Heard'
      PROVE  \/ s \in Heard /\ row'[s] = row[s]
             \/ s \in DOMAIN draft[p].labels /\ row'[s] = draft[p].labels[s]
  BY <1>1 DEF Heard, Labelled
<1>5. RegistrySpeaks'
  <2>1. \A s \in Heard' : Speaks(clusters', row'[s])
    BY <1>1, <1>2, <1>4 DEF RegistrySpeaks
  <2>2. ASSUME NEW q \in Passes, at'[q] = "saved", NEW s \in DOMAIN draft'[q].labels
        PROVE  Speaks(clusters', draft'[q].labels[s])
    BY <1>1, <1>2, <1>3, <2>2 DEF RegistrySpeaks
  <2>3. Opened(clusters')
    BY <1>1, <1>2 DEF RegistrySpeaks
  <2> QED BY <2>1, <2>2, <2>3 DEF RegistrySpeaks, Opened, Speaks
<1>6. DraftSpeaks'
  <2> SUFFICES ASSUME NEW q \in Passes, lock' = q, at'[q] \in {"decided", "pushed", "saving"}
               PROVE  /\ Opened(draft'[q].clusters)
                      /\ \A s \in DOMAIN draft'[q].labels : Speaks(draft'[q].clusters, draft'[q].labels[s])
                      /\ Extending(clusters', draft'[q].clusters)
                      /\ at'[q] = "saving" => clusters' = draft'[q].clusters
    BY DEF DraftSpeaks, Opened, Speaks, Extending
  <2>1. q # p /\ at'[q] = at[q] /\ draft'[q] = draft[q] /\ lock = q
    BY <1>1, <1>3
  <2> QED BY <1>1, <1>2, <2>1 DEF DraftSpeaks
<1>7. OneVoice'
  <2> SUFFICES ASSUME reported = {} \/ streamFirst
               PROVE  /\ \A s \in Heard' \ reported' : row'[s] = clusters[1].speaker
                      /\ \A q \in Passes : \A s \in DOMAIN draft'[q].labels \ reported' :
                           /\ at'[q] \in {"pushed", "saving"} => draft'[q].labels[s] = draft'[q].clusters[1].speaker
                           /\ at'[q] = "saved" => draft'[q].labels[s] = clusters[1].speaker
    BY <1>1 DEF OneVoice
  <2>1. \A s \in Heard' \ reported' : row'[s] = clusters[1].speaker
    BY <1>1, <1>2, <1>4 DEF OneVoice
  <2> QED BY <1>1, <1>2, <1>3, <2>1 DEF OneVoice
<1> QED
  BY <1>5, <1>6, <1>7

(* a failure does,                                                         *)
LEMMA VoicesFail ==
    ASSUME Types, Voices, Sound' => Sound, NEW p \in Passes, Fail(p)
    PROVE  Voices'
<1> SUFFICES ASSUME Sound'
             PROVE  RegistrySpeaks' /\ DraftSpeaks' /\ OneVoice'
  BY DEF Voices
<1>1. /\ at' = [at EXCEPT ![p] = "over"] /\ draft' = [draft EXCEPT ![p] = NoDraft]
      /\ lock' \in {lock, Free} /\ UNCHANGED <<row, clusters, reported, streamFirst>>
  BY DEF Fail, Goto, db, wire
<1>2. RegistrySpeaks /\ DraftSpeaks /\ OneVoice
  BY DEF Voices
<1>3. at'[p] = "over" /\ \A q \in Passes : q # p => at'[q] = at[q] /\ draft'[q] = draft[q]
  BY <1>1 DEF Types, TypeOK
<1>4. RegistrySpeaks'
  BY <1>1, <1>2, <1>3 DEF RegistrySpeaks, Heard, Labelled, Speaks, Opened
<1>5. DraftSpeaks'
  <2> SUFFICES ASSUME NEW q \in Passes, lock' = q, at'[q] \in {"decided", "pushed", "saving"}
               PROVE  /\ Opened(draft'[q].clusters)
                      /\ \A s \in DOMAIN draft'[q].labels : Speaks(draft'[q].clusters, draft'[q].labels[s])
                      /\ Extending(clusters', draft'[q].clusters)
                      /\ at'[q] = "saving" => clusters' = draft'[q].clusters
    BY DEF DraftSpeaks, Opened, Speaks, Extending
  <2>1. q # p /\ at'[q] = at[q] /\ draft'[q] = draft[q]
    BY <1>3
  <2>2. lock = q
    BY <1>1, NameAssumption DEF Passes
  <2> QED BY <1>1, <1>2, <2>1, <2>2 DEF DraftSpeaks
<1>6. OneVoice'
  BY <1>1, <1>2, <1>3 DEF OneVoice, Heard, Labelled
<1> QED
  BY <1>4, <1>5, <1>6

(* a lock that lapses does,                                                *)
LEMMA VoicesExpire ==
    ASSUME Types, Voices, Sound' => Sound, LockExpires
    PROVE  Voices'
<1> SUFFICES ASSUME Sound'
             PROVE  RegistrySpeaks' /\ DraftSpeaks' /\ OneVoice'
  BY DEF Voices
<1>1. lock' = Free /\ UNCHANGED <<row, clusters, at, draft, reported, streamFirst>>
  BY DEF LockExpires, db, work, wire, history
<1>2. RegistrySpeaks /\ DraftSpeaks /\ OneVoice
  BY DEF Voices
<1>3. RegistrySpeaks' /\ OneVoice'
  BY <1>1, <1>2 DEF RegistrySpeaks, OneVoice, Heard, Labelled, Speaks, Opened
<1>4. DraftSpeaks'
  BY <1>1, NameAssumption DEF DraftSpeaks, Passes
<1> QED
  BY <1>3, <1>4

(* and so does every step.                                                 *)
LEMMA VoicesStep ==
    ASSUME Types, Voices, [Next]_vars
    PROVE  Voices'
<1>1. CASE UNCHANGED vars
  <2>1. /\ UNCHANGED <<row, clusters, lock, at, draft, reported, streamFirst>>
        /\ (Sound' => Sound) /\ Heard' = Heard
    BY <1>1 DEF vars, db, registry, work, wire, history, Sound, Doomed, Heard, Labelled
  <2> QED BY <2>1, VoicesFrame
<1>2. CASE Next
  <2>1. Sound' => Sound
    BY <1>2, StillDoomed
  <2>2. ASSUME NEW s \in Segments, OnSegment(s)
        PROVE  Voices'
    <3>1. UNCHANGED <<clusters, lock, at, draft>>
      BY <2>2 DEF OnSegment, CommitStreamed, PushStreamed, ShowTranscript, Hint, registry, work
    <3>2. /\ reported \subseteq reported'
          /\ (reported' = {} \/ streamFirst' => reported = {} \/ streamFirst)
      BY <2>2, StreamGate
    <3> QED BY <2>1, <2>2, <3>1, <3>2, HeardStep, VoicesFrame
  <2>3. CASE Deliver
    <3>1. UNCHANGED <<row, clusters, lock, at, draft, reported, streamFirst>> /\ Heard' = Heard
      BY <2>3 DEF Deliver, db, registry, work, history, Heard, Labelled
    <3> QED BY <2>1, <3>1, VoicesFrame
  <2>4. ASSUME NEW p \in Passes, Decide(p) \/ Going(p) \/ Fail(p)
        PROVE  Voices'
    BY <2>1, <2>4, VoicesDecide, VoicesPush, VoicesSaveClusters, VoicesSavePending, VoicesCommit, VoicesFail
       DEF Going
  <2>5. CASE LockExpires
    BY <2>1, <2>5, VoicesExpire
  <2> QED
    BY <1>2, <2>2, <2>3, <2>4, <2>5 DEF Next, OnSegment
<1> QED
  BY <1>1, <1>2

-----------------------------------------------------------------------------
(***************************************************************************)
(* What the client holds, or the last event on its way to it, is what the  *)
(* database has or a pass under way will commit.                           *)
(***************************************************************************)

(* The UPDATEs wait for each other's rows.                                 *)
Apart ==
    \A p, q \in Told : p # q => DOMAIN draft[p].labels \intersect DOMAIN draft[q].labels = {}

(* No event after the i-th labels s.                                       *)
Last(s, i) == \A j \in DOMAIN events : j > i => s \notin DOMAIN events[j].labels

(* Once every event is delivered, the client will have x from an update.   *)
Settled(s, x) ==
    \/ Last(s, 0) /\ client[s].speaker = x /\ ~client[s].hint
    \/ \E i \in DOMAIN events :
          /\ s \in DOMAIN events[i].labels /\ ~events[i].hint /\ Last(s, i)
          /\ events[i].labels[s] = x

(* Once every pass that has flushed is committed, the database has x.      *)
Agrees(s, x) ==
    IF \E p \in Told : s \in DOMAIN draft[p].labels
      THEN \A p \in Told : s \in DOMAIN draft[p].labels => x = draft[p].labels[s]
      ELSE x = row[s]

Agreement == Sound => \A s \in Segments : \A x \in Speaker : Settled(s, x) => Agrees(s, x)

ToldStep ==
    /\ Told' = Told
    /\ \A q \in Told : draft'[q] = draft[q]

(* Fewer passes with the same labels are as much apart.                    *)
LEMMA ApartFrame ==
    ASSUME Apart, Told' \subseteq Told, \A q \in Told' : draft'[q] = draft[q]
    PROVE  Apart'
BY DEF Apart

(* A step that settles nothing and leaves rows and labels alone keeps the agreement. *)
LEMMA AgreementFrame ==
    ASSUME Agreement, Sound' => Sound, Sound' => ToldStep, UNCHANGED row,
           \A s \in Segments : \A x \in Speaker : Settled(s, x)' => Settled(s, x)
    PROVE  Agreement'
<1> SUFFICES ASSUME Sound', NEW s \in Segments, NEW x \in Speaker, Settled(s, x)'
             PROVE  Agrees(s, x)'
  BY DEF Agreement
<1>1. Agrees(s, x)
  BY DEF Agreement
<1> QED
  BY <1>1 DEF Agrees, ToldStep

(* Events and client as they were settle what they settled.                *)
LEMMA SettledSame ==
    ASSUME UNCHANGED <<events, client>>, NEW s, NEW x, Settled(s, x)'
    PROVE  Settled(s, x)
BY DEF Settled, Last

(* What an event appended says about s is what s will be; otherwise        *)
(* nothing has changed.                                                    *)
LEMMA SettledAppend ==
    ASSUME events \in Seq(Event), NEW h \in BOOLEAN, NEW l \in Labels,
           events' = Append(events, [hint |-> h, labels |-> l]), UNCHANGED client,
           NEW s, NEW x, Settled(s, x)'
    PROVE  \/ s \in DOMAIN l /\ ~h /\ x = l[s]
           \/ s \notin DOMAIN l /\ Settled(s, x)
<1> DEFINE n == Len(events)
           e == [hint |-> h, labels |-> l]
<1>1. /\ n \in Nat /\ DOMAIN events = 1..n /\ DOMAIN events' = 1..(n + 1)
      /\ events'[n + 1] = e
      /\ \A i \in 1..n : events'[i] = events[i]
  BY DEF Event
<1>2. ASSUME NEW i \in 0..n, Last(s, i)'
      PROVE  s \notin DOMAIN l /\ Last(s, i)
  <2>1. n + 1 \in DOMAIN events' /\ n + 1 > i
    BY <1>1
  <2>2. s \notin DOMAIN events'[n + 1].labels
    BY <1>2, <2>1 DEF Last
  <2>3. ASSUME NEW j \in DOMAIN events, j > i
        PROVE  s \notin DOMAIN events[j].labels
    <3>1. j \in DOMAIN events' /\ events'[j] = events[j]
      BY <1>1
    <3> QED BY <1>2, <2>3, <3>1 DEF Last
  <2> QED BY <1>1, <2>2, <2>3 DEF Last
<1>3. CASE Last(s, 0)' /\ client'[s].speaker = x /\ ~client'[s].hint
  <2>1. s \notin DOMAIN l /\ Last(s, 0)
    BY <1>1, <1>2, <1>3
  <2> QED BY <1>3, <2>1 DEF Settled
<1>4. ASSUME NEW i \in DOMAIN events', s \in DOMAIN events'[i].labels, ~events'[i].hint, Last(s, i)',
             events'[i].labels[s] = x
      PROVE  \/ s \in DOMAIN l /\ ~h /\ x = l[s]
             \/ s \notin DOMAIN l /\ Settled(s, x)
  <2>1. CASE i = n + 1
    BY <1>1, <1>4, <2>1
  <2>2. CASE i # n + 1
    <3>1. i \in 1..n
      BY <1>1, <2>2
    <3>2. s \notin DOMAIN l /\ Last(s, i) /\ events'[i] = events[i]
      BY <1>1, <1>2, <1>4, <3>1
    <3> QED BY <1>1, <1>4, <3>1, <3>2 DEF Settled
  <2> QED BY <2>1, <2>2
<1> QED
  BY <1>3, <1>4 DEF Settled

(* A delivery settles nothing that was not settled.                        *)
LEMMA SettledDeliver ==
    ASSUME Types, Deliver, NEW s \in Segments, NEW x, Settled(s, x)'
    PROVE  Settled(s, x)
<1>1. /\ events # << >> /\ events' = Tail(events)
      /\ client' = [t \in Segments |->
                      IF t \in DOMAIN events[1].labels
                        THEN [speaker |-> events[1].labels[t], hint |-> events[1].hint] ELSE client[t]]
  BY DEF Deliver, Types
<1>2. /\ 1 \in DOMAIN events
      /\ DOMAIN events \subseteq Nat \ {0}
      /\ \A i \in DOMAIN events' : i + 1 \in DOMAIN events /\ events'[i] = events[i + 1]
      /\ \A i \in DOMAIN events : i # 1 => i - 1 \in DOMAIN events' /\ events'[i - 1] = events[i]
      /\ DOMAIN events' \subseteq Nat
  BY <1>1 DEF Types
<1>3. ASSUME NEW i \in Nat, Last(s, i)'
      PROVE  Last(s, i + 1)
  <2> SUFFICES ASSUME NEW j \in DOMAIN events, j > i + 1
               PROVE  s \notin DOMAIN events[j].labels
    BY DEF Last
  <2>1. j # 1 /\ j - 1 > i /\ j \in Nat
    BY <1>2
  <2>2. j - 1 \in DOMAIN events' /\ events'[j - 1] = events[j]
    BY <1>2, <2>1
  <2> QED BY <1>3, <2>1, <2>2 DEF Last
<1>4. CASE Last(s, 0)' /\ client'[s].speaker = x /\ ~client'[s].hint
  <2>1. Last(s, 1)
    <3>1. Last(s, 0 + 1)
      BY <1>3, <1>4
    <3> QED BY <3>1
  <2>2. CASE s \in DOMAIN events[1].labels
    <3>1. client'[s] = [speaker |-> events[1].labels[s], hint |-> events[1].hint]
      BY <1>1, <2>2
    <3> QED BY <1>2, <1>4, <2>1, <2>2, <3>1 DEF Settled
  <2>3. CASE s \notin DOMAIN events[1].labels
    <3>1. client'[s] = client[s]
      BY <1>1, <2>3
    <3>2. Last(s, 0)
      <4> SUFFICES ASSUME NEW j \in DOMAIN events
                   PROVE  s \notin DOMAIN events[j].labels
        BY DEF Last
      <4>1. j = 1 \/ j > 1
        BY <1>2
      <4> QED BY <2>1, <2>3, <4>1 DEF Last
    <3> QED BY <1>4, <3>1, <3>2 DEF Settled
  <2> QED BY <2>2, <2>3
<1>5. ASSUME NEW i \in DOMAIN events', s \in DOMAIN events'[i].labels, ~events'[i].hint, Last(s, i)',
             events'[i].labels[s] = x
      PROVE  Settled(s, x)
  <2>1. i \in Nat /\ i + 1 \in DOMAIN events /\ events'[i] = events[i + 1]
    BY <1>2
  <2>2. Last(s, i + 1)
    BY <1>3, <1>5, <2>1
  <2> QED BY <1>5, <2>1, <2>2 DEF Settled
<1> QED
  BY <1>4, <1>5 DEF Settled

(* A decision, or the failure of a pass that has told nothing, leaves what is told alone. *)
LEMMA ToldElsewhere ==
    ASSUME Types, NEW p \in Passes, p \notin Told, UNCHANGED row,
           \/ Decide(p) \/ Fail(p)
    PROVE  ToldStep /\ UNCHANGED <<events, client>>
<1>1. CASE Decide(p)
  <2>1. /\ UNCHANGED <<events, client>>
        /\ at[p] = "todo"
        /\ \A q \in Passes : q # p => at'[q] = at[q] /\ draft'[q] = draft[q]
        /\ at'[p] \in {"decided", "over"}
    BY <1>1 DEF Decide, Dispatched, Goto, wire, Types, TypeOK
  <2> QED BY <2>1 DEF ToldStep, Told
<1>2. CASE Fail(p)
  <2>1. /\ UNCHANGED <<events, client>>
        /\ \A q \in Passes : q # p => at'[q] = at[q] /\ draft'[q] = draft[q]
        /\ at'[p] = "over"
    BY <1>2 DEF Fail, Goto, wire, Types, TypeOK
  <2> QED BY <2>1 DEF ToldStep, Told
<1> QED
  BY <1>1, <1>2

(* Saving leaves what is told alone.                                       *)
LEMMA ToldSaving ==
    ASSUME Types, NEW p \in Passes, SaveClusters(p) \/ (lock = p /\ SavePending(p))
    PROVE  ToldStep /\ UNCHANGED <<row, events, client>>
<1>1. /\ UNCHANGED <<row, events, client, draft>>
      /\ at[p] \in {"pushed", "saving"}
      /\ at' = [at EXCEPT ![p] = "saving"] \/ at' = [at EXCEPT ![p] = "saved"]
  BY DEF SaveClusters, SavePending, Goto, db, wire
<1>2. at'[p] \in {"saving", "saved"} /\ \A q \in Passes : q # p => at'[q] = at[q]
  BY <1>1 DEF Types, TypeOK
<1> QED
  BY <1>1, <1>2 DEF ToldStep, Told

(* A push keeps the agreement: it has the last word.                       *)
LEMMA AgreementPush ==
    ASSUME Types, Voices, Agreement, Sound' => Sound, NEW p \in Passes, Push(p)
    PROVE  Agreement'
<1> SUFFICES ASSUME Sound', NEW s \in Segments, NEW x \in Speaker, Settled(s, x)'
             PROVE  Agrees(s, x)'
  BY DEF Agreement
<1> DEFINE d == draft[p]
<1>1. /\ at[p] = "decided" /\ at' = [at EXCEPT ![p] = "pushed"]
      /\ UNCHANGED <<row, lock, draft, client>>
      /\ \A q \in Told : q # p => DOMAIN draft[q].labels \intersect DOMAIN d.labels = {}
      /\ IF GateOpen(d)
           THEN events' = Append(events, [hint |-> FALSE, labels |-> EventLabels(d)])
           ELSE events' = events
  BY DEF Push, Goto, db, registry, Told
<1>2. RegistrySpeaks /\ DraftSpeaks /\ OneVoice
  BY DEF Voices
<1>3. at'[p] = "pushed" /\ \A q \in Passes : q # p => at'[q] = at[q]
  BY <1>1 DEF Types, TypeOK
<1>4. lock = p /\ Told' = Told \union {p} /\ p \notin Told
  BY <1>1, <1>3 DEF Sound, Doomed, Told
<1>5. \A q \in Told : at[q] = "saved"
  BY <1>4, Holder DEF Told
<1>6. /\ d.clusters \in Seq(Voice) /\ clusters \in Seq(Voice) /\ d.labels \in Labels
      /\ Extending(clusters, d.clusters) /\ Opened(clusters)
      /\ \A t \in DOMAIN d.labels : Speaks(d.clusters, d.labels[t])
  BY <1>1, <1>2, <1>4 DEF DraftSpeaks, RegistrySpeaks, Types, TypeOK, DraftOK
<1>7. CASE s \in DOMAIN d.labels
  <2>1. \A q \in Told : s \notin DOMAIN draft[q].labels
    BY <1>1, <1>4, <1>7
  <2>2. x = d.labels[s]
    <3>1. CASE GateOpen(d)
      <4>1. EventLabels(d) \in Labels /\ s \in DOMAIN EventLabels(d) /\ FALSE \in BOOLEAN
        BY <1>7, EventLabelsType, EventCovers DEF Types
      <4>2. x = EventLabels(d)[s]
        <5> HIDE DEF d
        <5> QED BY <1>1, <3>1, <4>1, SettledAppend DEF Types
      <4> QED BY <1>7, <4>2 DEF EventLabels
    <3>2. CASE ~GateOpen(d)
      <4>1. Settled(s, x)
        BY <1>1, <3>2, SettledSame
      <4>2. Agrees(s, x)
        BY <4>1 DEF Agreement
      <4>3. x = row[s] /\ s \in Heard
        BY <1>7, <2>1, <4>2 DEF Agrees, Heard, Labelled, Types, DraftOK
      <4>4. Speaks(clusters, x)
        BY <1>2, <4>3 DEF RegistrySpeaks
      <4>5. ~(Len(d.clusters) >= 2)
        BY <1>7, <3>2 DEF GateOpen
      <4>6. ~(Len(clusters) >= 2)
        BY <1>6, <4>5 DEF Extending
      <4>7. clusters # << >> /\ x = clusters[1].speaker
        BY <1>6, <4>4, <4>6, OnlyVoice
      <4>8. d.labels[s] = d.clusters[1].speaker
        BY <1>6, <1>7, <4>5, OnlyVoice
      <4>9. 1 \in DOMAIN clusters /\ x # Nobody
        BY <1>6, <4>7, NameAssumption DEF Speaker
      <4> QED BY <1>6, <4>7, <4>8, <4>9 DEF Extending
    <3> QED BY <3>1, <3>2
  <2> QED
    BY <1>1, <1>4, <1>7, <2>1, <2>2 DEF Agrees
<1>8. CASE s \notin DOMAIN d.labels
  <2>1. Agrees(s, x)
    <3>1. CASE Settled(s, x)
      BY <3>1 DEF Agreement
    <3>2. CASE ~Settled(s, x)
      <4>1. GateOpen(d)
        BY <1>1, <3>2, SettledSame
      <4>2. EventLabels(d) \in Labels /\ FALSE \in BOOLEAN
        BY EventLabelsType DEF Types
      <4>3. s \in DOMAIN EventLabels(d) /\ x = EventLabels(d)[s]
        <5> HIDE DEF d
        <5> QED BY <1>1, <3>2, <4>1, <4>2, SettledAppend DEF Types
      <4>4. reported = {} /\ s \in Labelled /\ x = row[s]
        BY <1>8, <4>3 DEF EventLabels
      <4>5. ASSUME NEW q \in Told, s \in DOMAIN draft[q].labels
            PROVE  x = draft[q].labels[s]
        <5>1. q \in Passes /\ at[q] = "saved" /\ s \notin Streamed
          BY <1>5, <4>5 DEF Told, Types, DraftOK
        <5> QED BY <1>2, <4>4, <4>5, <5>1 DEF OneVoice, Heard
      <4> QED BY <4>4, <4>5 DEF Agrees
    <3> QED BY <3>1, <3>2
  <2> QED
    BY <1>1, <1>4, <1>8, <2>1 DEF Agrees
<1> QED
  BY <1>7, <1>8

(* A commit keeps it: the rows get what was told.                          *)
LEMMA AgreementCommit ==
    ASSUME Types, Apart, Agreement, Sound' => Sound, NEW p \in Passes, Commit(p)
    PROVE  Agreement'
<1> SUFFICES ASSUME Sound', NEW s \in Segments, NEW x \in Speaker, Settled(s, x)'
             PROVE  Agrees(s, x)'
  BY DEF Agreement
<1>1. /\ at[p] = "saved" /\ at' = [at EXCEPT ![p] = "over"]
      /\ draft' = [draft EXCEPT ![p] = NoDraft]
      /\ row' = [t \in Segments |->
                   IF t \in DOMAIN draft[p].labels THEN draft[p].labels[t] ELSE row[t]]
      /\ UNCHANGED <<events, client>>
  BY DEF Commit, Goto, wire
<1>2. at'[p] = "over" /\ \A q \in Passes : q # p => at'[q] = at[q] /\ draft'[q] = draft[q]
  BY <1>1 DEF Types, TypeOK
<1>3. p \in Told /\ Told' = Told \ {p}
  BY <1>1, <1>2 DEF Told
<1>4. Settled(s, x)
  BY <1>1, SettledSame
<1>5. Agrees(s, x)
  BY <1>4 DEF Agreement
<1>6. CASE s \in DOMAIN draft[p].labels
  <2>1. \A q \in Told' : s \notin DOMAIN draft'[q].labels
    BY <1>2, <1>3, <1>6 DEF Apart, Told
  <2>2. x = draft[p].labels[s]
    BY <1>3, <1>5, <1>6 DEF Agrees
  <2>3. row'[s] = x
    BY <1>1, <1>6, <2>2
  <2> QED BY <2>1, <2>3 DEF Agrees
<1>7. CASE s \notin DOMAIN draft[p].labels
  <2>1. row'[s] = row[s]
    BY <1>1, <1>7
  <2>2. \A q \in Told' : q \in Told /\ draft'[q] = draft[q]
    BY <1>2, <1>3 DEF Told
  <2>3. CASE \E q \in Told' : s \in DOMAIN draft'[q].labels
    BY <1>5, <2>2, <2>3 DEF Agrees
  <2>4. CASE ~ \E q \in Told' : s \in DOMAIN draft'[q].labels
    <3>1. ~ \E q \in Told : s \in DOMAIN draft[q].labels
      BY <1>3, <1>7, <2>2, <2>4
    <3> QED BY <1>5, <2>1, <2>4, <3>1 DEF Agrees
  <2> QED BY <2>3, <2>4
<1> QED
  BY <1>6, <1>7

(* What the stream does keeps it: no pass labels the stream's segments.    *)
LEMMA AgreementStream ==
    ASSUME Types, Agreement, Sound' => Sound,
           NEW s \in Segments, CommitStreamed(s) \/ PushStreamed(s)
    PROVE  Agreement'
<1> SUFFICES ASSUME Sound', NEW r \in Segments, NEW x \in Speaker, Settled(r, x)'
             PROVE  Agrees(r, x)'
  BY DEF Agreement
<1>1. s \in Streamed /\ UNCHANGED <<at, draft>> /\ Told' = Told
  BY DEF CommitStreamed, PushStreamed, work, Told
<1>2. \A q \in Told : s \notin DOMAIN draft[q].labels
  BY <1>1 DEF Told, Types, DraftOK
<1>3. ASSUME Settled(r, x), row'[r] = row[r]
      PROVE  Agrees(r, x)'
  <2>1. Agrees(r, x)
    BY <1>3 DEF Agreement
  <2> QED BY <1>1, <1>3, <2>1 DEF Agrees
<1>4. CASE CommitStreamed(s)
  <2>1. row[s] = Nobody /\ row' = [row EXCEPT ![s] = StreamSpeaker(s)] /\ UNCHANGED <<events, client>>
    BY <1>4 DEF CommitStreamed, wire
  <2>2. Settled(r, x)
    BY <2>1, SettledSame
  <2>3. r # s
    <3> SUFFICES ASSUME r = s
                 PROVE  FALSE
      OBVIOUS
    <3>1. Agrees(s, x)
      BY <2>2 DEF Agreement
    <3>2. x = Nobody
      BY <1>2, <2>1, <3>1 DEF Agrees
    <3> QED BY <3>2, NameAssumption DEF Speaker
  <2>4. row'[r] = row[r]
    BY <2>1, <2>3 DEF Types, TypeOK
  <2> QED BY <1>3, <2>2, <2>4
<1>5. CASE PushStreamed(s)
  <2>1. /\ row[s] # Nobody /\ UNCHANGED <<row, client>>
        /\ events' = Append(events, [hint |-> FALSE, labels |-> [t \in {s} |-> row[s]]])
    BY <1>5 DEF PushStreamed, db
  <2>2. [t \in {s} |-> row[s]] \in Labels /\ FALSE \in BOOLEAN
    <3>1. row[s] \in Speaker
      BY <2>1 DEF Types, TypeOK
    <3> QED BY <3>1, LabelsIntro
  <2>3. \/ r = s /\ x = row[s]
        \/ Settled(r, x)
    BY <2>1, <2>2, SettledAppend DEF Types
  <2>4. CASE r = s /\ x = row[s]
    BY <1>1, <1>2, <2>1, <2>4 DEF Agrees
  <2> QED BY <1>3, <2>1, <2>3, <2>4
<1> QED
  BY <1>4, <1>5

(* Every step keeps the passes' labels apart.                              *)
LEMMA ApartStep ==
    ASSUME Types, Apart, [Next]_vars
    PROVE  Apart'
<1>1. ASSUME NEW s \in Segments, OnSegment(s)
      PROVE  Apart'
  BY <1>1, ApartFrame DEF OnSegment, CommitStreamed, PushStreamed, ShowTranscript, Hint, work, Told
<1>2. ASSUME NEW p \in Passes, Decide(p) \/ Fail(p) \/ Commit(p)
      PROVE  Apart'
  <2>1. /\ \A q \in Passes : q # p => at'[q] = at[q] /\ draft'[q] = draft[q]
        /\ at'[p] \in {"decided", "over"}
    <3>1. CASE Decide(p)
      BY <3>1 DEF Decide, Goto, Types, TypeOK
    <3>2. CASE Fail(p)
      BY <3>2 DEF Fail, Goto, Types, TypeOK
    <3>3. CASE Commit(p)
      BY <3>3 DEF Commit, Goto, Types, TypeOK
    <3> QED BY <1>2, <3>1, <3>2, <3>3
  <2>2. Told' \subseteq Told /\ \A q \in Told' : draft'[q] = draft[q]
    BY <2>1 DEF Told
  <2> QED BY <2>2, ApartFrame
<1>3. ASSUME NEW p \in Passes, Push(p)
      PROVE  Apart'
  <2>1. /\ UNCHANGED draft
        /\ at' = [at EXCEPT ![p] = "pushed"]
        /\ \A q \in Told : q # p => DOMAIN draft[q].labels \intersect DOMAIN draft[p].labels = {}
    BY <1>3 DEF Push, Goto, Told
  <2>2. Told' \subseteq Told \union {p}
    BY <2>1 DEF Told, Types, TypeOK
  <2> QED BY <2>1, <2>2 DEF Apart
<1>4. ASSUME NEW p \in Passes, SaveClusters(p) \/ SavePending(p)
      PROVE  Apart'
  <2>1. CASE SaveClusters(p) \/ lock = p
    BY <1>4, <2>1, ToldSaving, ApartFrame DEF ToldStep
  <2>2. CASE SavePending(p) /\ lock # p
    <3>1. /\ \A q \in Passes : q # p => at'[q] = at[q] /\ draft'[q] = draft[q]
          /\ at'[p] = "over"
      BY <2>2 DEF SavePending, Goto, Types, TypeOK
    <3>2. Told' \subseteq Told /\ \A q \in Told' : draft'[q] = draft[q]
      BY <3>1 DEF Told
    <3> QED BY <3>2, ApartFrame
  <2> QED BY <1>4, <2>1, <2>2
<1>5. CASE LockExpires \/ Deliver \/ UNCHANGED vars
  BY <1>5, ApartFrame DEF LockExpires, Deliver, vars, work, Told
<1> QED
  BY <1>1, <1>2, <1>3, <1>4, <1>5 DEF Next, OnSegment, Going

(* Every step keeps the agreement.                                         *)
LEMMA AgreementStep ==
    ASSUME Types, Voices, Apart, Agreement, [Next]_vars
    PROVE  Agreement'
<1>1. CASE UNCHANGED vars
  <2>1. ToldStep /\ UNCHANGED <<row, events, client>> /\ (Sound' => Sound)
    BY <1>1 DEF vars, db, registry, work, wire, history, ToldStep, Told, Sound, Doomed
  <2> QED BY <2>1, SettledSame, AgreementFrame
<1>2. CASE Next
  <2>0. Sound' => Sound
    BY <1>2, StillDoomed
  <2>1. ASSUME NEW s \in Segments, ShowTranscript(s)
        PROVE  Agreement'
    <3>1. ToldStep /\ UNCHANGED <<row, events, client>>
      BY <2>1 DEF ShowTranscript, db, work, ToldStep, Told
    <3> QED BY <2>0, <3>1, SettledSame, AgreementFrame
  <2>2. ASSUME NEW s \in Segments, Hint(s)
        PROVE  Agreement'
    <3>1. ToldStep /\ UNCHANGED <<row, client>>
      BY <2>2 DEF Hint, db, work, ToldStep, Told
    <3>2. PICK i \in DOMAIN clusters :
             events' = Append(events, [hint |-> TRUE, labels |-> [t \in {s} |-> clusters[i].speaker]])
                /\ clusters[i].speaker \in speakers
      BY <2>2 DEF Hint
    <3>3. [t \in {s} |-> clusters[i].speaker] \in Labels /\ TRUE \in BOOLEAN
      <4>1. clusters[i].speaker \in Speaker
        BY <3>2 DEF Types, TypeOK
      <4> QED BY <4>1, LabelsIntro
    <3>4. \A t \in Segments : \A x \in Speaker : Settled(t, x)' => Settled(t, x)
      BY <3>1, <3>2, <3>3, SettledAppend DEF Types
    <3> QED BY <2>0, <3>1, <3>4, AgreementFrame
  <2>10. ASSUME NEW s \in Segments, CommitStreamed(s) \/ PushStreamed(s)
         PROVE  Agreement'
    BY <2>0, <2>10, AgreementStream
  <2>3. ASSUME NEW p \in Passes, Decide(p)
        PROVE  Agreement'
    <3>1. p \notin Told /\ UNCHANGED row
      BY <2>3 DEF Decide, Dispatched, Told, db
    <3> QED BY <2>0, <2>3, <3>1, ToldElsewhere, SettledSame, AgreementFrame
  <2>4. ASSUME NEW p \in Passes, Push(p)
        PROVE  Agreement'
    BY <2>0, <2>4, AgreementPush
  <2>5. ASSUME NEW p \in Passes, SaveClusters(p) \/ SavePending(p)
        PROVE  Agreement'
    <3>1. CASE SaveClusters(p) \/ lock = p
      BY <2>0, <2>5, <3>1, ToldSaving, SettledSame, AgreementFrame
    <3>2. CASE SavePending(p) /\ lock # p
      <4>1. ~Sound'
        BY <3>2 DEF SavePending, Sound
      <4> QED BY <4>1 DEF Agreement
    <3> QED BY <2>5, <3>1, <3>2
  <2>6. ASSUME NEW p \in Passes, Commit(p)
        PROVE  Agreement'
    BY <2>0, <2>6, AgreementCommit
  <2>7. ASSUME NEW p \in Passes, Fail(p)
        PROVE  Agreement'
    <3>1. CASE p \in Told
      <4>1. ~Sound'
        BY <2>7, <3>1 DEF Fail, Sound, Told
      <4> QED BY <4>1 DEF Agreement
    <3>2. CASE p \notin Told
      <4>1. UNCHANGED row
        BY <2>7 DEF Fail, db
      <4> QED BY <2>0, <2>7, <3>2, <4>1, ToldElsewhere, SettledSame, AgreementFrame
    <3> QED BY <3>1, <3>2
  <2>8. CASE LockExpires
    <3>1. ToldStep /\ UNCHANGED <<row, events, client>>
      BY <2>8 DEF LockExpires, db, work, wire, ToldStep, Told
    <3> QED BY <2>0, <3>1, SettledSame, AgreementFrame
  <2>9. CASE Deliver
    <3>1. ToldStep /\ UNCHANGED row
      BY <2>9 DEF Deliver, db, work, ToldStep, Told
    <3>2. \A s \in Segments : \A x \in Speaker : Settled(s, x)' => Settled(s, x)
      BY <2>9, SettledDeliver
    <3> QED BY <2>0, <3>1, <3>2, AgreementFrame
  <2> QED
    BY <1>2, <2>1, <2>2, <2>3, <2>4, <2>5, <2>6, <2>7, <2>8, <2>9, <2>10 DEF Next, Going
<1> QED
  BY <1>1, <1>2

(* Before the first pass nothing is told.                                  *)
LEMMA ToldInitially ==
    ASSUME Init
    PROVE  Voices /\ Apart /\ Agreement
<1>1. /\ Told = {} /\ Labelled = {} /\ clusters = << >>
      /\ \A p \in Passes : at[p] = "todo"
  BY NameAssumption DEF Init, Told, Labelled, Speaker
<1>2. Voices
  BY <1>1 DEF Voices, RegistrySpeaks, DraftSpeaks, OneVoice, Opened, Heard
<1>3. ASSUME NEW s \in Segments, NEW x \in Speaker, Settled(s, x)
      PROVE  FALSE
  <2>1. client[s].speaker = Nobody /\ DOMAIN events = {} /\ x # Nobody
    BY NameAssumption DEF Init, Speaker
  <2> QED BY <1>3, <2>1 DEF Settled
<1> QED
  BY <1>1, <1>2, <1>3 DEF Apart, Agreement

(* Once passes and events have come to rest, a label that the client has   *)
(* from an update is the one in the database: for any number of passes     *)
(* that overlap in any way, unless one is cut off after its event is out.  *)
THEOREM DatabaseAgrees == Spec => []ClientAgrees
<1>1. Init => Types /\ Voices /\ Apart /\ Agreement
  BY Initially, ToldInitially
<1>2. Types /\ Voices /\ Apart /\ Agreement /\ [Next]_vars => (Types /\ Voices /\ Apart /\ Agreement)'
  BY TypesStep, VoicesStep, ApartStep, AgreementStep
<1>3. Types /\ Agreement => ClientAgrees
  <2> SUFFICES ASSUME Types, Agreement, Quiet, ~broken,
                      NEW s \in Segments, client[s].speaker # Nobody, ~client[s].hint
               PROVE  client[s].speaker = row[s]
    BY DEF ClientAgrees
  <2>1. Sound /\ Told = {} /\ DOMAIN events = {}
    BY DEF Quiet, Sound, Doomed, Told, Uncommitted
  <2>2. client[s].speaker \in Speaker
    BY DEF Types, TypeOK
  <2>3. Settled(s, client[s].speaker)
    BY <2>1 DEF Settled, Last
  <2>4. Agrees(s, client[s].speaker)
    BY <2>1, <2>2, <2>3 DEF Agreement
  <2> QED BY <2>1, <2>4 DEF Agrees
<1> QED
  BY <1>1, <1>2, <1>3, PTL DEF Spec

-----------------------------------------------------------------------------
(***************************************************************************)
(* What is reported is shown or on its way; what is labelled is reported.  *)
(***************************************************************************)

(* What is reported is shown, or on the way; what the stream tells of is   *)
(* reported.                                                               *)
OnTheWay ==
    /\ told \subseteq reported
    /\ \A s \in reported :
          client[s].speaker # Nobody \/ \E i \in DOMAIN events : s \in DOMAIN events[i].labels

(* The gate is open for good: a second voice, or one the library knows.    *)
Wide(voices, library) ==
    Len(voices) >= 2 \/ (voices # << >> /\ voices[1].speaker \in library)

(* No pass has been decided before another's commit.                       *)
Alone == ~overlapped => \A p, q \in Passes : Uncommitted(p) /\ Uncommitted(q) => p = q

(* A gate that a pass has opened has everything reported.                  *)
AllReported ==
    Sound /\ ~overlapped /\ reported # {} /\ ~streamFirst =>
        /\ Heard \subseteq reported
        /\ Told = {} => Wide(clusters, named)
        /\ \A p \in Told :
              /\ DOMAIN draft[p].labels \subseteq reported
              /\ Wide(draft[p].clusters, named \union draft[p].known)

(* A pass that nobody overlaps finds the registry as it has left it.       *)
SavedAlone ==
    Sound /\ ~overlapped =>
        \A p \in Passes :
           /\ at[p] \in {"saving", "saved"} => clusters = draft[p].clusters
           /\ at[p] = "saved" => pending = draft[p].pending

(* Every step keeps what is reported shown or on its way.                  *)
LEMMA OnTheWayStep ==
    ASSUME Types, OnTheWay, [Next]_vars
    PROVE  OnTheWay'
<1>1. ASSUME UNCHANGED <<told, reported, events, client>>
      PROVE  OnTheWay'
  BY <1>1 DEF OnTheWay
<1>2. CASE Deliver
  <2>1. /\ events # << >> /\ events' = Tail(events) /\ reported' = reported /\ told' = told
        /\ client' = [t \in Segments |->
                        IF t \in DOMAIN events[1].labels
                          THEN [speaker |-> events[1].labels[t], hint |-> events[1].hint] ELSE client[t]]
    BY <1>2 DEF Deliver, Types
  <2>2. /\ 1 \in DOMAIN events
        /\ \A i \in DOMAIN events : i # 1 => i - 1 \in DOMAIN events' /\ events'[i - 1] = events[i]
    BY <2>1 DEF Types
  <2>3. \A t \in DOMAIN events[1].labels : events[1].labels[t] # Nobody
    BY <2>2, EventsElim, NameAssumption DEF Types, Speaker
  <2> SUFFICES ASSUME NEW s \in reported
               PROVE  client'[s].speaker # Nobody \/ \E i \in DOMAIN events' : s \in DOMAIN events'[i].labels
    BY <2>1 DEF OnTheWay
  <2>4. s \in Segments
    BY DEF Types, TypeOK
  <2>5. CASE s \in DOMAIN events[1].labels
    BY <2>1, <2>3, <2>4, <2>5
  <2>6. CASE s \notin DOMAIN events[1].labels
    <3>1. client'[s] = client[s]
      BY <2>1, <2>4, <2>6
    <3>2. ASSUME NEW i \in DOMAIN events, s \in DOMAIN events[i].labels
          PROVE  \E j \in DOMAIN events' : s \in DOMAIN events'[j].labels
      BY <2>2, <2>6, <3>2
    <3> QED BY <3>1, <3>2 DEF OnTheWay
  <2> QED BY <2>5, <2>6
<1>3. ASSUME NEW s \in Segments, Hint(s)
      PROVE  OnTheWay'
  <2>1. /\ UNCHANGED <<client, told, reported>>
        /\ \E l : events' = Append(events, [hint |-> TRUE, labels |-> l])
    BY <1>3 DEF Hint
  <2>2. \A i \in DOMAIN events : i \in DOMAIN events' /\ events'[i] = events[i]
    BY <2>1 DEF Types
  <2> QED BY <2>1, <2>2 DEF OnTheWay
<1>4. ASSUME NEW p \in Passes, Push(p)
      PROVE  OnTheWay'
  <2>1. CASE GateOpen(draft[p])
    <3> DEFINE l == EventLabels(draft[p])
    <3>1. /\ events' = Append(events, [hint |-> FALSE, labels |-> l])
          /\ reported' = reported \union DOMAIN l /\ client' = client /\ told' = told
      BY <1>4, <2>1 DEF Push
    <3> HIDE DEF l
    <3>2. /\ \A i \in DOMAIN events : i \in DOMAIN events' /\ events'[i] = events[i]
          /\ Len(events) + 1 \in DOMAIN events' /\ events'[Len(events) + 1].labels = l
      BY <3>1 DEF Types
    <3> QED BY <3>1, <3>2 DEF OnTheWay
  <2>2. CASE ~GateOpen(draft[p])
    BY <1>1, <1>4, <2>2 DEF Push
  <2> QED BY <2>1, <2>2
<1>5. ASSUME NEW s \in Segments, CommitStreamed(s) \/ ShowTranscript(s)
      PROVE  OnTheWay'
  BY <1>1, <1>5 DEF CommitStreamed, ShowTranscript, wire
<1>8. ASSUME NEW s \in Segments, PushStreamed(s)
      PROVE  OnTheWay'
  <2> DEFINE l == [t \in {s} |-> row[s]]
  <2>1. /\ events' = Append(events, [hint |-> FALSE, labels |-> l])
        /\ told' = told \union {s} /\ reported' = reported \union {s} /\ client' = client
        /\ s \in DOMAIN l
    BY <1>8 DEF PushStreamed
  <2> HIDE DEF l
  <2>2. /\ \A i \in DOMAIN events : i \in DOMAIN events' /\ events'[i] = events[i]
        /\ Len(events) + 1 \in DOMAIN events' /\ events'[Len(events) + 1].labels = l
    BY <2>1 DEF Types
  <2> QED BY <2>1, <2>2 DEF OnTheWay
<1>6. ASSUME NEW p \in Passes, Decide(p) \/ SaveClusters(p) \/ SavePending(p) \/ Commit(p) \/ Fail(p)
      PROVE  OnTheWay'
  BY <1>1, <1>6 DEF Decide, SaveClusters, SavePending, Commit, Fail, wire
<1>7. CASE LockExpires \/ UNCHANGED vars
  BY <1>1, <1>7 DEF LockExpires, vars, wire
<1> QED
  BY <1>2, <1>3, <1>4, <1>5, <1>6, <1>7, <1>8 DEF Next, Going

(* What a step of one pass leaves alone.                                   *)
LEMMA OthersStay ==
    ASSUME Types, NEW p \in Passes, Decide(p) \/ Going(p) \/ Fail(p)
    PROVE  /\ \A q \in Passes : q # p => at'[q] = at[q] /\ draft'[q] = draft[q]
           /\ at'[p] # "todo"
           /\ ~Decide(p) => Uncommitted(p) /\ overlapped' = overlapped
           /\ Decide(p) => at[p] = "todo" /\ at'[p] \in {"decided", "over"}
<1> USE DEF Types, TypeOK, Goto
<1>1. CASE Decide(p)
  BY <1>1 DEF Decide, Dispatched
<1>2. CASE Push(p)
  BY <1>2 DEF Push, Uncommitted, history, Decide, Dispatched
<1>3. CASE SaveClusters(p)
  BY <1>3 DEF SaveClusters, Uncommitted, history, Decide, Dispatched
<1>4. CASE SavePending(p)
  BY <1>4 DEF SavePending, Uncommitted, Decide, Dispatched
<1>5. CASE Commit(p)
  BY <1>5 DEF Commit, Uncommitted, history, Decide, Dispatched
<1>6. CASE Fail(p)
  BY <1>6 DEF Fail, Uncommitted, Decide, Dispatched
<1> QED
  BY <1>1, <1>2, <1>3, <1>4, <1>5, <1>6 DEF Going

(* Every step keeps the passes one at a time, or notes that two overlap.   *)
LEMMA AloneStep ==
    ASSUME Types, Alone, [Next]_vars
    PROVE  Alone' /\ (~overlapped' => ~overlapped)
<1>1. ASSUME UNCHANGED <<at, overlapped>>
      PROVE  Alone' /\ (~overlapped' => ~overlapped)
  BY <1>1 DEF Alone, Uncommitted
<1>2. ASSUME NEW p \in Passes, Decide(p) \/ Going(p) \/ Fail(p)
      PROVE  Alone' /\ (~overlapped' => ~overlapped)
  <2>1. CASE Decide(p)
    <3>1. overlapped' = (overlapped \/ \E v \in Passes \ {p} : Uncommitted(v))
      BY <2>1 DEF Decide
    <3>2. \A q \in Passes : q # p => at'[q] = at[q]
      BY <1>2, OthersStay
    <3> QED BY <3>1, <3>2 DEF Alone, Uncommitted
  <2>2. CASE ~Decide(p)
    <3>1. /\ \A q \in Passes : q # p => at'[q] = at[q]
          /\ Uncommitted(p) /\ overlapped' = overlapped
      BY <1>2, <2>2, OthersStay
    <3> QED BY <3>1 DEF Alone, Uncommitted
  <2> QED BY <2>1, <2>2
<1>3. ASSUME NEW s \in Segments, OnSegment(s)
      PROVE  Alone' /\ (~overlapped' => ~overlapped)
  BY <1>1, <1>3 DEF OnSegment, CommitStreamed, PushStreamed, ShowTranscript, Hint, work, history
<1>4. CASE LockExpires \/ Deliver \/ UNCHANGED vars
  BY <1>1, <1>4 DEF LockExpires, Deliver, vars, work, history
<1> QED
  BY <1>2, <1>3, <1>4 DEF Next, OnSegment

(* A gate that is open stays open as the registry and the library grow.    *)
LEMMA WideOn ==
    ASSUME NEW old \in Seq(Voice), NEW new \in Seq(Voice), Extending(old, new), Opened(old),
           NEW library, NEW more, library \subseteq more, Wide(old, library)
    PROVE  Wide(new, more)
<1>1. CASE Len(old) >= 2
  BY <1>1 DEF Wide, Extending
<1>2. CASE ~(Len(old) >= 2)
  <2>1. old # << >> /\ old[1].speaker \in library /\ old[1].speaker # Nobody
    BY <1>2 DEF Wide, Opened
  <2>2. 1 \in DOMAIN old
    BY <2>1
  <2>3. new[1].speaker = old[1].speaker /\ new # << >>
    BY <2>1, <2>2 DEF Extending
  <2> QED BY <2>1, <2>3 DEF Wide
<1> QED
  BY <1>1, <1>2

(* A push reports everything once the gate is open.                        *)
LEMMA ReportedPush ==
    ASSUME Types, Voices, Alone, AllReported, Sound' => Sound, NEW p \in Passes, Push(p)
    PROVE  AllReported'
<1> SUFFICES ASSUME Sound', ~overlapped', reported' # {}, ~streamFirst'
             PROVE  /\ Heard' \subseteq reported'
                    /\ Told' = {} => Wide(clusters', named')
                    /\ \A q \in Told' :
                          /\ DOMAIN draft'[q].labels \subseteq reported'
                          /\ Wide(draft'[q].clusters, named' \union draft'[q].known)
  BY DEF AllReported
<1> DEFINE d == draft[p]
<1>1. /\ at[p] = "decided" /\ at' = [at EXCEPT ![p] = "pushed"]
      /\ UNCHANGED <<row, named, clusters, lock, draft, overlapped, streamFirst>>
      /\ IF GateOpen(d)
           THEN reported' = reported \union DOMAIN EventLabels(d)
           ELSE reported' = reported
  BY DEF Push, Goto, db, registry, history
<1>2. RegistrySpeaks /\ DraftSpeaks /\ ~overlapped /\ Sound
  BY <1>1 DEF Voices
<1>3. at'[p] = "pushed" /\ \A q \in Passes : q # p => at'[q] = at[q]
  BY <1>1 DEF Types, TypeOK
<1>4. lock = p
  BY <1>1, <1>3 DEF Sound, Doomed
<1>5. Told = {} /\ Told' = {p}
  <2>1. \A q \in Passes : q # p => ~Uncommitted(q)
    BY <1>1, <1>2 DEF Alone, Uncommitted
  <2> QED BY <1>1, <1>3, <2>1 DEF Told, Uncommitted
<1>6. /\ d.clusters \in Seq(Voice) /\ clusters \in Seq(Voice) /\ d.labels \in Labels
      /\ Extending(clusters, d.clusters) /\ Opened(clusters)
      /\ \A t \in DOMAIN d.labels : Speaks(d.clusters, d.labels[t])
  BY <1>1, <1>2, <1>4 DEF DraftSpeaks, RegistrySpeaks, Types, TypeOK, DraftOK
<1>7. CASE reported = {}
  <2>1. GateOpen(d) /\ reported' = DOMAIN EventLabels(d)
    BY <1>1, <1>7
  <2>2. reported' = Labelled \union DOMAIN d.labels
    BY <1>7, <2>1 DEF EventLabels
  <2>3. Wide(d.clusters, named \union d.known)
    <3>1. CASE Len(d.clusters) >= 2
      BY <3>1 DEF Wide
    <3>2. CASE ~(Len(d.clusters) >= 2)
      <4>1. PICK s \in DOMAIN d.labels : d.labels[s] \in named \union d.known
        BY <2>1, <3>2 DEF GateOpen
      <4>2. d.clusters # << >> /\ d.labels[s] = d.clusters[1].speaker
        BY <1>6, <3>2, <4>1, OnlyVoice
      <4> QED BY <4>1, <4>2 DEF Wide
    <3> QED BY <3>1, <3>2
  <2> QED BY <1>1, <1>5, <2>2, <2>3 DEF Heard, Labelled
<1>8. CASE reported # {}
  <2>1. Heard \subseteq reported /\ Wide(clusters, named)
    BY <1>1, <1>2, <1>5, <1>8 DEF AllReported
  <2>2. Wide(d.clusters, named) /\ Wide(d.clusters, named \union d.known)
    <3> HIDE DEF d
    <3>1. named \subseteq named /\ named \subseteq named \union d.known
      OBVIOUS
    <3> QED BY <1>6, <2>1, <3>1, WideOn
  <2>3. DOMAIN d.labels \subseteq reported'
    <3>1. CASE GateOpen(d)
      BY <1>1, <3>1, EventCovers
    <3>2. CASE ~GateOpen(d)
      <4>1. CASE DOMAIN d.labels = {}
        BY <4>1
      <4>2. CASE DOMAIN d.labels # {}
        <5>1. PICK s \in DOMAIN d.labels : TRUE
          BY <4>2
        <5>2. ~(Len(d.clusters) >= 2) /\ d.labels[s] \notin named
          BY <3>2, <4>2, <5>1 DEF GateOpen
        <5>3. d.labels[s] = d.clusters[1].speaker
          BY <1>6, <5>1, <5>2, OnlyVoice
        <5> QED BY <2>2, <5>2, <5>3 DEF Wide
      <4> QED BY <4>1, <4>2
    <3> QED BY <3>1, <3>2
  <2>4. reported \subseteq reported'
    BY <1>1
  <2> QED BY <1>1, <1>5, <2>1, <2>2, <2>3, <2>4 DEF Heard, Labelled
<1> QED
  BY <1>7, <1>8

(* A commit labels nothing that is not reported.                           *)
LEMMA ReportedCommit ==
    ASSUME Types, Alone, AllReported, SavedAlone, Sound' => Sound, NEW p \in Passes, Commit(p)
    PROVE  AllReported'
<1> SUFFICES ASSUME Sound', ~overlapped', reported' # {}, ~streamFirst'
             PROVE  /\ Heard' \subseteq reported'
                    /\ Told' = {} => Wide(clusters', named')
                    /\ \A q \in Told' :
                          /\ DOMAIN draft'[q].labels \subseteq reported'
                          /\ Wide(draft'[q].clusters, named' \union draft'[q].known)
  BY DEF AllReported
<1>1. /\ at[p] = "saved" /\ at' = [at EXCEPT ![p] = "over"]
      /\ row' = [t \in Segments |->
                   IF t \in DOMAIN draft[p].labels THEN draft[p].labels[t] ELSE row[t]]
      /\ named' = named \union draft[p].known
      /\ UNCHANGED <<clusters, reported, overlapped, streamFirst>>
  BY DEF Commit, Goto, registry, wire, history
<1>2. p \in Told /\ Told' = {}
  <2>1. \A q \in Passes : q # p => ~Uncommitted(q)
    BY <1>1 DEF Alone, Uncommitted
  <2> QED BY <1>1, <2>1 DEF Told, Uncommitted, Types, TypeOK
<1>3. /\ Heard \subseteq reported /\ DOMAIN draft[p].labels \subseteq reported
      /\ Wide(draft[p].clusters, named \union draft[p].known)
  BY <1>1, <1>2 DEF AllReported
<1>4. clusters = draft[p].clusters
  BY <1>1 DEF SavedAlone
<1>5. Heard' \subseteq reported
  BY <1>1, <1>3 DEF Heard, Labelled
<1> QED
  BY <1>1, <1>2, <1>3, <1>4, <1>5

(* A step that leaves names and what the passes have labelled alone keeps  *)
(* what is reported whole.                                                 *)
LEMMA ReportedFrame ==
    ASSUME AllReported, Sound' => Sound, ~overlapped' => ~overlapped,
           Sound' => ToldStep, UNCHANGED named, Heard' = Heard,
           reported \subseteq reported',
           ~streamFirst' /\ reported' # {} => ~streamFirst /\ reported # {},
           Told # {} \/ clusters' = clusters
    PROVE  AllReported'
<1> SUFFICES ASSUME Sound', ~overlapped', reported' # {}, ~streamFirst'
             PROVE  /\ Heard' \subseteq reported'
                    /\ Told' = {} => Wide(clusters', named')
                    /\ \A q \in Told' :
                          /\ DOMAIN draft'[q].labels \subseteq reported'
                          /\ Wide(draft'[q].clusters, named' \union draft'[q].known)
  BY DEF AllReported
<1> QED
  BY DEF AllReported, ToldStep

(* Every step keeps what is reported whole.                                *)
LEMMA AllReportedStep ==
    ASSUME Types, Voices, Alone, SavedAlone, AllReported, [Next]_vars
    PROVE  AllReported'
<1>0. ~overlapped' => ~overlapped
  BY AloneStep
<1>1. CASE UNCHANGED vars
  <2>1. /\ ToldStep /\ UNCHANGED <<named, reported, streamFirst, clusters>>
        /\ Heard' = Heard /\ (Sound' => Sound)
    BY <1>1 DEF vars, db, registry, work, wire, history, ToldStep, Told, Sound, Doomed, Heard, Labelled
  <2> QED BY <1>0, <2>1, ReportedFrame
<1>2. CASE Next
  <2>0. Sound' => Sound
    BY <1>2, StillDoomed
  <2>1. ASSUME NEW s \in Segments, OnSegment(s)
        PROVE  AllReported'
    <3>1. ToldStep /\ UNCHANGED <<named, clusters>>
      BY <2>1 DEF OnSegment, CommitStreamed, PushStreamed, ShowTranscript, Hint, db, registry, work, ToldStep, Told
    <3>2. Heard' = Heard
      BY <2>1, HeardStep
    <3>3. /\ reported \subseteq reported'
          /\ ~streamFirst' /\ reported' # {} => ~streamFirst /\ reported # {}
      BY <2>1, StreamGate
    <3> QED BY <1>0, <2>0, <3>1, <3>2, <3>3, ReportedFrame
  <2>2. ASSUME NEW p \in Passes, Decide(p)
        PROVE  AllReported'
    <3>1. p \notin Told /\ Heard' = Heard /\ UNCHANGED <<row, named, reported, streamFirst, clusters>>
      BY <2>2 DEF Decide, Dispatched, Told, db, wire, Heard, Labelled
    <3>2. ToldStep
      BY <2>2, <3>1, ToldElsewhere
    <3> QED BY <1>0, <2>0, <3>1, <3>2, ReportedFrame
  <2>3. ASSUME NEW p \in Passes, Push(p)
        PROVE  AllReported'
    BY <2>0, <2>3, ReportedPush
  <2>4. ASSUME NEW p \in Passes, SaveClusters(p) \/ SavePending(p)
        PROVE  AllReported'
    <3>1. CASE SaveClusters(p) \/ lock = p
      <4>1. p \in Told /\ Heard' = Heard /\ UNCHANGED <<named, reported, streamFirst>>
        BY <2>4 DEF SaveClusters, SavePending, Told, db, wire, history, Heard, Labelled
      <4>2. ToldStep
        BY <2>4, <3>1, ToldSaving
      <4> QED BY <1>0, <2>0, <4>1, <4>2, ReportedFrame
    <3>2. CASE SavePending(p) /\ lock # p
      <4>1. ~Sound'
        BY <3>2 DEF SavePending, Sound
      <4> QED BY <4>1 DEF AllReported
    <3> QED BY <2>4, <3>1, <3>2
  <2>5. ASSUME NEW p \in Passes, Commit(p)
        PROVE  AllReported'
    BY <2>0, <2>5, ReportedCommit
  <2>6. ASSUME NEW p \in Passes, Fail(p)
        PROVE  AllReported'
    <3>1. CASE p \in Told
      <4>1. ~Sound'
        BY <2>6, <3>1 DEF Fail, Sound, Told
      <4> QED BY <4>1 DEF AllReported
    <3>2. CASE p \notin Told
      <4>1. Heard' = Heard /\ UNCHANGED <<row, named, reported, streamFirst, clusters>>
        BY <2>6 DEF Fail, db, wire, Heard, Labelled
      <4>2. ToldStep
        BY <2>6, <3>2, <4>1, ToldElsewhere
      <4> QED BY <1>0, <2>0, <4>1, <4>2, ReportedFrame
    <3> QED BY <3>1, <3>2
  <2>7. CASE LockExpires \/ Deliver
    <3>1. ToldStep /\ Heard' = Heard /\ UNCHANGED <<named, reported, streamFirst, clusters>>
      BY <2>7 DEF LockExpires, Deliver, db, registry, work, wire, history, ToldStep, Told, Heard, Labelled
    <3> QED BY <1>0, <2>0, <3>1, ReportedFrame
  <2> QED
    BY <1>2, <2>1, <2>2, <2>3, <2>4, <2>5, <2>6, <2>7 DEF Next, OnSegment, Going
<1> QED
  BY <1>1, <1>2

(* Every step keeps the registry as the pass that saved it left it.        *)
LEMMA SavedAloneStep ==
    ASSUME Types, Alone, SavedAlone, [Next]_vars
    PROVE  SavedAlone'
<1>0. ~overlapped' => ~overlapped
  BY AloneStep
<1>1. ASSUME Sound' => Sound, UNCHANGED <<clusters, pending, at, draft>>
      PROVE  SavedAlone'
  BY <1>0, <1>1 DEF SavedAlone
<1>2. CASE UNCHANGED vars
  BY <1>1, <1>2 DEF vars, registry, work, history, Sound, Doomed
<1>3. CASE Next
  <2>0. Sound' => Sound
    BY <1>3, StillDoomed
  <2>1. ASSUME NEW s \in Segments, OnSegment(s)
        PROVE  SavedAlone'
    BY <1>1, <2>0, <2>1 DEF OnSegment, CommitStreamed, PushStreamed, ShowTranscript, Hint, registry, work
  <2>2. CASE LockExpires \/ Deliver
    BY <1>1, <2>0, <2>2 DEF LockExpires, Deliver, registry, work
  <2>3. ASSUME NEW p \in Passes, Decide(p) \/ Going(p) \/ Fail(p)
        PROVE  SavedAlone'
    <3> SUFFICES ASSUME Sound', ~overlapped', NEW q \in Passes
                 PROVE  /\ at'[q] \in {"saving", "saved"} => clusters' = draft'[q].clusters
                        /\ at'[q] = "saved" => pending' = draft'[q].pending
      BY DEF SavedAlone
    <3>1. /\ at[q] \in {"saving", "saved"} => clusters = draft[q].clusters
          /\ at[q] = "saved" => pending = draft[q].pending
      BY <1>0, <2>0 DEF SavedAlone
    <3>2. CASE q # p
      <4>1. at'[q] = at[q] /\ draft'[q] = draft[q]
        BY <2>3, <3>2, OthersStay
      <4>2. CASE Decide(p)
        BY <3>1, <4>1, <4>2 DEF Decide
      <4>3. CASE ~Decide(p)
        <5>1. ~Uncommitted(q)
          BY <1>0, <2>3, <3>2, <4>3, OthersStay DEF Alone
        <5> QED BY <4>1, <5>1 DEF Uncommitted
      <4> QED BY <4>2, <4>3
    <3>3. CASE q = p
      <4>1. CASE Decide(p)
        BY <2>3, <3>3, <4>1, OthersStay
      <4>2. CASE Push(p)
        BY <3>3, <4>2 DEF Push, Goto, Types, TypeOK
      <4>3. CASE SaveClusters(p)
        BY <3>3, <4>3 DEF SaveClusters, Goto, Types, TypeOK
      <4>4. CASE SavePending(p)
        BY <3>1, <3>3, <4>4 DEF SavePending, Goto, Types, TypeOK
      <4>5. CASE Commit(p)
        BY <3>3, <4>5 DEF Commit, Goto, Types, TypeOK
      <4>6. CASE Fail(p)
        BY <3>3, <4>6 DEF Fail, Goto, Types, TypeOK
      <4> QED BY <2>3, <4>1, <4>2, <4>3, <4>4, <4>5, <4>6 DEF Going
    <3> QED BY <3>2, <3>3
  <2> QED
    BY <1>3, <2>1, <2>2, <2>3 DEF Next, OnSegment
<1> QED
  BY <1>2, <1>3

(* Whatever was ever reported reaches the client.  Once the gate is open,  *)
(* passes that do not overlap report every label they commit, and those    *)
(* committed before; but when the stream has opened it, labels with the    *)
(* channel's first voice may stay unreported.                              *)
THEOREM EverythingReported == Spec => []NothingUnreported
<1> DEFINE I == Types /\ Voices /\ OnTheWay /\ Alone /\ SavedAlone /\ AllReported
<1>1. Init => I
  <2> SUFFICES ASSUME Init
               PROVE  I
    OBVIOUS
  <2>1. Types /\ Voices
    BY Initially, ToldInitially
  <2>2. reported = {} /\ told = {} /\ \A p \in Passes : at[p] = "todo"
    BY DEF Init
  <2> QED
    BY <2>1, <2>2 DEF OnTheWay, Alone, SavedAlone, AllReported, Uncommitted
<1>2. I /\ [Next]_vars => I'
  BY TypesStep, VoicesStep, OnTheWayStep, AloneStep, SavedAloneStep, AllReportedStep
<1>3. I => NothingUnreported
  <2> SUFFICES ASSUME Voices, OnTheWay, AllReported, Quiet
               PROVE  NothingUnreported
    BY DEF NothingUnreported
  <2>1. \A s \in reported : client[s].speaker # Nobody
    <3>1. DOMAIN events = {}
      BY DEF Quiet
    <3> QED BY <3>1 DEF OnTheWay
  <2>2. ASSUME reported # {}, ~broken, ~overlapped, NEW s \in Labelled \ reported
        PROVE  \/ s \in Streamed \ told
               \/ streamFirst /\ row[s] = clusters[1].speaker
    <3>1. Sound
      BY <2>2 DEF Quiet, Sound, Doomed, Uncommitted
    <3>2. CASE s \in Streamed
      BY <2>2, <3>2 DEF OnTheWay
    <3>3. CASE s \notin Streamed
      <4>1. s \in Heard \ reported
        BY <2>2, <3>3 DEF Heard
      <4>2. streamFirst
        BY <2>2, <3>1, <4>1 DEF AllReported
      <4> QED BY <3>1, <4>1, <4>2 DEF Voices, OneVoice
    <3> QED BY <3>2, <3>3
  <2> QED BY <2>1, <2>2 DEF NothingUnreported
<1> QED
  BY <1>1, <1>2, <1>3, PTL DEF Spec

-----------------------------------------------------------------------------
(***************************************************************************)
(* Weights.                                                                *)
(***************************************************************************)

Counts(voices, S) == SumFunction(Weights(voices)) = Length(S)

(* The registry counts what is labelled or held, each segment once; and so *)
(* will the registry that a pass has decided.                              *)
Counted ==
    Sound /\ ~overlapped =>
        /\ (\A p \in Passes : at[p] \notin {"saving", "saved"}) =>
              Counts(clusters, Heard \union DOMAIN pending)
        /\ \A p \in Passes : Uncommitted(p) =>
              Counts(draft[p].clusters,
                     Heard \union DOMAIN draft[p].labels \union DOMAIN draft[p].pending)

(* The lengths of disjoint sets of segments add up.                        *)
LEMMA LengthApart ==
    ASSUME NEW S \in SUBSET Segments, NEW T \in SUBSET Segments, S \intersect T = {}
    PROVE  Length(S \union T) = Length(S) + Length(T)
<1>1. IsFiniteSet(S) /\ IsFiniteSet(T) /\ \A s \in S \union T : Duration[s] \in Nat
  BY LengthType, SizeAssumption
<1> QED
  BY <1>1, SumApart DEF Length

(* Weights that grow by what falls to each voice add up to what there was  *)
(* and what has been added.                                                *)
LEMMA WeightsGrow ==
    ASSUME NEW old \in Seq(Voice), NEW new \in Seq(Voice), Len(old) <= Len(new),
           NEW C \in SUBSET Segments, NEW slot, \A s \in C : slot[s] \in DOMAIN new,
           \A i \in DOMAIN new : new[i].weight =
               (IF i \in DOMAIN old THEN old[i].weight ELSE 0) + Length({s \in C : slot[s] = i})
    PROVE  SumFunction(Weights(new)) = SumFunction(Weights(old)) + Length(C)
<1>1. PICK I : I = DOMAIN new
  OBVIOUS
<1>2. PICK P : P = DOMAIN old
  OBVIOUS
<1>3. PICK before : before = [i \in I |-> IF i \in P THEN old[i].weight ELSE 0]
  OBVIOUS
<1>4. PICK added : added = [i \in I |-> SumFunctionOnSet(Duration, {s \in C : slot[s] = i})]
  OBVIOUS
<1>5. IsFiniteSet(I) /\ IsFiniteSet(P) /\ P \subseteq I
  <2>1. I = 1..Len(new) /\ P = 1..Len(old) /\ Len(new) \in Nat /\ Len(old) \in Nat
    BY <1>1, <1>2
  <2>2. IsFiniteSet(1..Len(new)) /\ IsFiniteSet(1..Len(old))
    BY <2>1, FS_Interval
  <2>3. P \subseteq I
    BY <2>1
  <2> QED BY <2>1, <2>2, <2>3, Zenon
<1>6. ASSUME NEW i \in I
      PROVE  before[i] \in Nat /\ added[i] \in Nat /\ Weights(new)[i] = before[i] + added[i]
  <2>1. added[i] = Length({s \in C : slot[s] = i})
    BY <1>4 DEF Length
  <2>2. added[i] \in Nat
    <3>1. {s \in C : slot[s] = i} \in SUBSET Segments
      OBVIOUS
    <3> QED BY <2>1, <3>1, LengthType
  <2>3. before[i] = IF i \in DOMAIN old THEN old[i].weight ELSE 0
    BY <1>2, <1>3
  <2>4. before[i] \in Nat
    <3>1. CASE i \in DOMAIN old
      <4>1. old[i] \in Voice
        BY <3>1
      <4> QED BY <2>3, <3>1, <4>1 DEF Voice
    <3>2. CASE i \notin DOMAIN old
      BY <2>3, <3>2
    <3> QED BY <3>1, <3>2
  <2>5. Weights(new)[i] = new[i].weight
    BY <1>1 DEF Weights
  <2>6. new[i].weight = before[i] + added[i]
    BY <1>1, <2>1, <2>3
  <2> QED BY <2>2, <2>4, <2>5, <2>6
<1>7. SumFunction(Weights(new)) = SumFunctionOnSet(before, I) + SumFunctionOnSet(added, I)
  <2>1. SumFunctionOnSet(Weights(new), I) = SumFunctionOnSet(before, I) + SumFunctionOnSet(added, I)
    BY <1>5, <1>6, SumSum
  <2>2. DOMAIN Weights(new) = I
    BY <1>1 DEF Weights
  <2> QED BY <2>1, <2>2 DEF SumFunction
<1>8. SumFunctionOnSet(before, I) = SumFunction(Weights(old))
  <2>1. \A i \in I \ P : before[i] = 0
    BY <1>3
  <2>2. SumFunctionOnSet(before, I) = SumFunctionOnSet(before, P)
    BY <1>5, <1>6, <2>1, SumPart
  <2>3. DOMAIN Weights(old) = P
    BY <1>2 DEF Weights
  <2>4. \A i \in P : before[i] \in Nat /\ Weights(old)[i] = before[i]
    BY <1>2, <1>3, <1>5, <1>6 DEF Weights
  <2>5. SumFunctionOnSet(before, P) = SumFunctionOnSet(Weights(old), P)
    BY <1>5, <2>4, SumSame
  <2> QED BY <2>2, <2>3, <2>5 DEF SumFunction
<1>9. SumFunctionOnSet(added, I) = Length(C)
  <2>1. IsFiniteSet(C) /\ (\A s \in C : Duration[s] \in Nat) /\ \A s \in C : slot[s] \in I
    BY <1>1, LengthType, SizeAssumption
  <2>2. SumFunctionOnSet([i \in I |-> SumFunctionOnSet(Duration, {s \in C : slot[s] = i})], I)
           = SumFunctionOnSet(Duration, C)
    BY <1>5, <2>1, SumFibres
  <2> QED BY <1>4, <2>2, Zenon DEF Length
<1> QED
  BY <1>7, <1>8, <1>9

(* What a pass adds to the weights is the length of its candidates.        *)
LEMMA DecisionCounts ==
    ASSUME Types, NEW k \in Nat, NEW turn \in [Segments -> 0..k],
           NEW claim \in Claims(Len(clusters), k), NEW recognized, NEW p \in Passes,
           NEW d, d = Decision(turn, claim, recognized, p),
           Counts(clusters, Heard \union DOMAIN pending)
    PROVE  Counts(d.clusters, Heard \union DOMAIN d.labels \union DOMAIN d.pending)
<1>1. PICK C : C = Candidates(turn)
  OBVIOUS
<1>2. PICK slot : slot = [s \in C |-> claim[turn[s]]]
  OBVIOUS
<1>3. /\ DraftOK(d) /\ Extending(clusters, d.clusters)
      /\ \A i \in DOMAIN d.clusters : d.clusters[i].weight =
            (IF i \in DOMAIN clusters THEN clusters[i].weight ELSE 0)
               + Length({s \in C : claim[turn[s]] = i})
      /\ \A s \in C : claim[turn[s]] \in DOMAIN d.clusters
      /\ DOMAIN d.labels \union DOMAIN d.pending = DOMAIN pending \union C
  <2>1. LET e == Decision(turn, claim, recognized, p) IN
        /\ DraftOK(e)
        /\ Extending(clusters, e.clusters)
        /\ clusters = << >> /\ e.clusters # << >> => e.clusters[1].speaker # Nobody
        /\ \A s \in DOMAIN e.labels : Speaks(e.clusters, e.labels[s])
        /\ \A i \in DOMAIN e.clusters : e.clusters[i].weight =
              (IF i \in DOMAIN clusters THEN clusters[i].weight ELSE 0)
                 + Length({s \in Candidates(turn) : claim[turn[s]] = i})
        /\ \A s \in Candidates(turn) : claim[turn[s]] \in DOMAIN e.clusters
        /\ DOMAIN e.labels \union DOMAIN e.pending = DOMAIN pending \union Candidates(turn)
    BY DecisionType
  <2> QED BY <1>1, <2>1, Zenon
<1>4. /\ C \in SUBSET Segments
      /\ C \intersect (Heard \union DOMAIN pending) = {}
      /\ Heard \union DOMAIN pending \in SUBSET Segments
  <2>1. C \in SUBSET Segments /\ \A s \in C : row[s] = Nobody /\ s \notin DOMAIN pending
    BY <1>1 DEF Candidates
  <2>2. \A s \in Heard : row[s] # Nobody
    BY NameAssumption DEF Heard, Labelled, Speaker
  <2>3. Heard \union DOMAIN pending \in SUBSET Segments
    BY DEF Heard, Labelled, Types, TypeOK
  <2> QED BY <2>1, <2>2, <2>3
<1>5. SumFunction(Weights(d.clusters)) = SumFunction(Weights(clusters)) + Length(C)
  <2>1. /\ clusters \in Seq(Voice) /\ d.clusters \in Seq(Voice)
        /\ Len(clusters) <= Len(d.clusters)
    BY <1>3 DEF DraftOK, Types, TypeOK, Extending
  <2>2. \A i : {s \in C : claim[turn[s]] = i} = {s \in C : slot[s] = i}
    BY <1>2
  <2>3. \A s \in C : slot[s] \in DOMAIN d.clusters
    BY <1>2, <1>3
  <2>4. \A i \in DOMAIN d.clusters : d.clusters[i].weight =
            (IF i \in DOMAIN clusters THEN clusters[i].weight ELSE 0)
               + Length({s \in C : slot[s] = i})
    BY <1>3, <2>2
  <2> QED BY <1>4, <2>1, <2>3, <2>4, WeightsGrow
<1>6. Length((Heard \union DOMAIN pending) \union C) = Length(Heard \union DOMAIN pending) + Length(C)
  BY <1>4, LengthApart
<1>7. Heard \union DOMAIN d.labels \union DOMAIN d.pending = (Heard \union DOMAIN pending) \union C
  BY <1>3
<1>8. SumFunction(Weights(d.clusters)) = Length(Heard \union DOMAIN pending) + Length(C)
  BY <1>5 DEF Counts
<1>9. SumFunction(Weights(d.clusters)) = Length(Heard \union DOMAIN d.labels \union DOMAIN d.pending)
  BY <1>6, <1>7, <1>8, Zenon
<1> QED
  BY <1>9 DEF Counts

(* A step that leaves rows, registry and drafts alone keeps the count.     *)
LEMMA CountedFrame ==
    ASSUME Counted, Sound' => Sound, ~overlapped' => ~overlapped,
           UNCHANGED <<clusters, pending>>, Heard' = Heard,
           \A q \in Passes : Uncommitted(q)' => Uncommitted(q) /\ draft'[q] = draft[q],
           \A q \in Passes : at[q] \in {"saving", "saved"} => at'[q] \in {"saving", "saved"}
    PROVE  Counted'
BY DEF Counted, Counts, Length, Weights

(* A step of a pass keeps the count.                                       *)
LEMMA CountedPass ==
    ASSUME Types, Voices, Alone, SavedAlone, Counted, Sound' => Sound, ~overlapped' => ~overlapped,
           NEW p \in Passes, Decide(p) \/ Going(p) \/ Fail(p)
    PROVE  Counted'
<1> SUFFICES ASSUME Sound', ~overlapped'
             PROVE  /\ (\A q \in Passes : at'[q] \notin {"saving", "saved"}) =>
                          Counts(clusters', Heard' \union DOMAIN pending')
                    /\ \A q \in Passes : Uncommitted(q)' =>
                          Counts(draft'[q].clusters,
                                 Heard' \union DOMAIN draft'[q].labels \union DOMAIN draft'[q].pending)
  BY DEF Counted, Counts, Length, Weights
<1>1. Sound /\ ~overlapped
  OBVIOUS
<1>2. /\ \A q \in Passes : q # p => at'[q] = at[q] /\ draft'[q] = draft[q]
      /\ ~Decide(p) => Uncommitted(p)
      /\ Decide(p) => at[p] = "todo" /\ at'[p] \in {"decided", "over"}
  BY OthersStay
<1>3. ASSUME NEW q \in Passes, q # p
      PROVE  ~Uncommitted(q) /\ ~Uncommitted(q)' /\ at'[q] \notin {"saving", "saved"} /\ at[q] \notin {"saving", "saved"}
  <2>1. ~Uncommitted(q)
    <3>1. CASE Decide(p)
      BY <1>3, <3>1 DEF Decide
    <3>2. CASE ~Decide(p)
      BY <1>1, <1>2, <1>3, <3>2 DEF Alone
    <3> QED BY <3>1, <3>2
  <2> QED BY <1>2, <1>3, <2>1 DEF Uncommitted
<1>4. /\ at[p] \notin {"saving", "saved"} => Counts(clusters, Heard \union DOMAIN pending)
      /\ Uncommitted(p) => Counts(draft[p].clusters,
                                  Heard \union DOMAIN draft[p].labels \union DOMAIN draft[p].pending)
  BY <1>1, <1>3 DEF Counted
<1> SUFFICES /\ at'[p] \notin {"saving", "saved"} => Counts(clusters', Heard' \union DOMAIN pending')
             /\ Uncommitted(p)' => Counts(draft'[p].clusters,
                                          Heard' \union DOMAIN draft'[p].labels \union DOMAIN draft'[p].pending)
  BY <1>3
<1>5. CASE Decide(p)
  <2>1. /\ UNCHANGED <<clusters, pending>> /\ Heard' = Heard
        /\ \/ at' = [at EXCEPT ![p] = "over"]
           \/ /\ at' = [at EXCEPT ![p] = "decided"]
              /\ \E k \in 1..MaxVoices :
                 \E turn \in [Segments -> 0..k], claim \in Claims(Len(clusters), k) :
                 \E recognized \in Recognizable(claim) :
                    draft' = [draft EXCEPT ![p] = Decision(turn, claim, recognized, p)]
    BY <1>5 DEF Decide, Hearings, Goto, db, Heard, Labelled
  <2>2. Counts(clusters, Heard \union DOMAIN pending)
    BY <1>2, <1>4, <1>5
  <2>3. ASSUME Uncommitted(p)'
        PROVE  Counts(draft'[p].clusters,
                      Heard \union DOMAIN draft'[p].labels \union DOMAIN draft'[p].pending)
    <3>1. at' # [at EXCEPT ![p] = "over"]
      BY <2>3 DEF Uncommitted, Types, TypeOK
    <3>2. PICK k \in 1..MaxVoices :
             \E turn \in [Segments -> 0..k], claim \in Claims(Len(clusters), k) :
             \E recognized \in Recognizable(claim) :
                draft' = [draft EXCEPT ![p] = Decision(turn, claim, recognized, p)]
      BY <2>1, <3>1
    <3>3. PICK turn \in [Segments -> 0..k], claim \in Claims(Len(clusters), k) :
             \E recognized \in Recognizable(claim) :
                draft' = [draft EXCEPT ![p] = Decision(turn, claim, recognized, p)]
      BY <3>2
    <3>4. PICK recognized \in Recognizable(claim) :
                draft' = [draft EXCEPT ![p] = Decision(turn, claim, recognized, p)]
      BY <3>3
    <3>5. draft'[p] = Decision(turn, claim, recognized, p) /\ k \in Nat
      BY <3>4, SizeAssumption DEF Types
    <3> QED BY <2>2, <3>5, DecisionCounts
  <2> QED BY <2>1, <2>2, <2>3 DEF Counts, Length, Weights
<1>6. CASE Push(p)
  <2>1. UNCHANGED <<row, clusters, pending, draft>> /\ at[p] = "decided" /\ Uncommitted(p)
    BY <1>6 DEF Push, db, registry, Uncommitted
  <2>2. Heard' = Heard
    BY <2>1 DEF Heard, Labelled
  <2> QED BY <1>4, <2>1, <2>2
<1>7. CASE SaveClusters(p)
  <2>1. UNCHANGED <<row, draft>> /\ Uncommitted(p) /\ at'[p] = "saving"
    BY <1>7 DEF SaveClusters, Goto, db, Uncommitted, Types, TypeOK
  <2>2. Heard' = Heard
    BY <2>1 DEF Heard, Labelled
  <2> QED BY <1>4, <2>1, <2>2
<1>8. CASE SavePending(p)
  <2>1. lock = p
    BY <1>1, <1>8, Holder DEF SavePending
  <2>2. UNCHANGED <<row, draft>> /\ Uncommitted(p) /\ at'[p] = "saved"
    BY <1>8, <2>1 DEF SavePending, Goto, db, Uncommitted, Types, TypeOK
  <2>3. Heard' = Heard
    BY <2>2 DEF Heard, Labelled
  <2> QED BY <1>4, <2>2, <2>3
<1>9. CASE Commit(p)
  <2>1. /\ at[p] = "saved" /\ at'[p] = "over" /\ UNCHANGED <<clusters, pending>>
        /\ row' = [s \in Segments |->
                     IF s \in DOMAIN draft[p].labels THEN draft[p].labels[s] ELSE row[s]]
    BY <1>9 DEF Commit, Goto, registry, Types, TypeOK
  <2>2. clusters = draft[p].clusters /\ pending = draft[p].pending
    BY <1>1, <2>1 DEF SavedAlone
  <2>3. /\ DOMAIN draft[p].labels \subseteq Segments /\ DOMAIN draft[p].labels \intersect Streamed = {}
        /\ \A s \in DOMAIN draft[p].labels : draft[p].labels[s] \in Speaker
    BY LabelsElim DEF Types, DraftOK
  <2>4. Heard' = Heard \union DOMAIN draft[p].labels
    BY <2>1, <2>3 DEF Heard, Labelled
  <2>5. Counts(draft[p].clusters, Heard \union DOMAIN draft[p].labels \union DOMAIN draft[p].pending)
    BY <1>4, <2>1 DEF Uncommitted
  <2>6. Counts(clusters', Heard' \union DOMAIN pending')
    BY <2>1, <2>2, <2>4, <2>5
  <2> QED BY <2>1, <2>6 DEF Uncommitted
<1>10. CASE Fail(p)
  <2>1. /\ at[p] = "decided" /\ at'[p] = "over" /\ UNCHANGED <<row, clusters, pending>>
    BY <1>10 DEF Fail, Goto, db, Sound, Uncommitted, Types, TypeOK
  <2>2. Heard' = Heard
    BY <2>1 DEF Heard, Labelled
  <2> QED BY <1>4, <2>1, <2>2 DEF Uncommitted
<1> QED
  BY <1>5, <1>6, <1>7, <1>8, <1>9, <1>10 DEF Going

(* Every step keeps the count.                                             *)
LEMMA CountedStep ==
    ASSUME Types, Voices, Alone, SavedAlone, Counted, [Next]_vars
    PROVE  Counted'
<1>0. ~overlapped' => ~overlapped
  BY AloneStep
<1>1. ASSUME Sound' => Sound, Heard' = Heard, UNCHANGED <<clusters, pending, at, draft>>
      PROVE  Counted'
  <2>1. \A q \in Passes : Uncommitted(q)' => Uncommitted(q) /\ draft'[q] = draft[q]
    BY <1>1 DEF Uncommitted
  <2> QED BY <1>0, <1>1, <2>1, CountedFrame
<1>2. CASE UNCHANGED vars
  BY <1>1, <1>2 DEF vars, db, registry, work, history, Sound, Doomed, Heard, Labelled
<1>3. CASE Next
  <2>0. Sound' => Sound
    BY <1>3, StillDoomed
  <2>1. ASSUME NEW s \in Segments, OnSegment(s)
        PROVE  Counted'
    <3>1. UNCHANGED <<clusters, pending, at, draft>>
      BY <2>1 DEF OnSegment, CommitStreamed, PushStreamed, ShowTranscript, Hint, registry, work
    <3>2. Heard' = Heard
      BY <2>1, HeardStep
    <3> QED BY <1>1, <2>0, <3>1, <3>2
  <2>2. CASE LockExpires \/ Deliver
    BY <1>1, <2>0, <2>2 DEF LockExpires, Deliver, db, registry, work, Heard, Labelled
  <2>3. ASSUME NEW p \in Passes, Decide(p) \/ Going(p) \/ Fail(p)
        PROVE  Counted'
    BY <1>0, <2>0, <2>3, CountedPass
  <2> QED
    BY <1>3, <2>1, <2>2, <2>3 DEF Next, OnSegment
<1> QED
  BY <1>2, <1>3

(* As long as no pass runs before another's commit, the weights of the     *)
(* registry are the length of what is labelled or held, each segment once: *)
(* for windows that overlap in any way, voices that claim in any order,    *)
(* and passes that fail before they save.                                  *)
THEOREM WeightsAddUp == Spec => []WeightsAccounted
<1> DEFINE I == Types /\ Voices /\ Alone /\ SavedAlone /\ Counted
<1>1. Init => I
  <2> SUFFICES ASSUME Init
               PROVE  I
    OBVIOUS
  <2>1. Types /\ Voices
    BY Initially, ToldInitially
  <2>2. /\ \A p \in Passes : at[p] = "todo"
        /\ clusters = << >> /\ DOMAIN pending = {} /\ Heard = {}
    BY NameAssumption DEF Init, Heard, Labelled, Speaker
  <2>3. Counts(clusters, Heard \union DOMAIN pending)
    <3>1. DOMAIN Weights(clusters) = {} /\ Heard \union DOMAIN pending = {}
      BY <2>2 DEF Weights
    <3>2. SumFunctionOnSet(Weights(clusters), {}) = 0 /\ SumFunctionOnSet(Duration, {}) = 0
      BY FS_EmptySet, SumStep
    <3> QED BY <3>1, <3>2, Zenon DEF Counts, Length, SumFunction
  <2> QED
    BY <2>1, <2>2, <2>3 DEF Alone, SavedAlone, Counted, Uncommitted
<1>2. I /\ [Next]_vars => I'
  BY TypesStep, VoicesStep, AloneStep, SavedAloneStep, CountedStep
<1>3. I => WeightsAccounted
  <2> SUFFICES ASSUME Counted, Quiet, ~broken, ~overlapped
               PROVE  Weight = Length((Labelled \ Streamed) \union DOMAIN pending)
    BY DEF WeightsAccounted
  <2>1. Sound /\ \A p \in Passes : at[p] \notin {"saving", "saved"}
    BY DEF Quiet, Sound, Doomed, Uncommitted
  <2> QED BY <2>1 DEF Counted, Counts, Weight, Heard
<1> QED
  BY <1>1, <1>2, <1>3, PTL DEF Spec
=============================================================================
