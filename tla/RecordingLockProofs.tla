------------------------- MODULE RecordingLockProofs -------------------------
(***************************************************************************)
(* The recording lock is exclusive for every number of connections and     *)
(* every choice of the time constants that is Timely, and it implements    *)
(* the abstract lease.                                                     *)
(***************************************************************************)
EXTENDS RecordingLock, TLAPS

(***************************************************************************)
(* The inductive invariant.  Need(c) is the longest time connection c may  *)
(* go on without a successful EXPIRE: what is left of what it is doing,    *)
(* the renewals it may still miss, and the release it may then begin.  The *)
(* key of a busy connection outlives that need.                            *)
(***************************************************************************)
Need(c) ==
    CASE pc[c] = "setup" -> timer[c] + (MaxMissed + 1) * Gap + MaxDelay
      [] pc[c] \in {"live", "renewing"} ->
            timer[c] + (MaxMissed - missed[c]) * Gap + MaxDelay
      [] OTHER -> timer[c]

Timed ==
    \A c \in Conn :
        /\ missed[c] <= MaxMissed
        /\ pc[c] \in Busy => timer[c] >= 0

KeyLives == stored = NoConn <=> ttl = 0

Covered == \A c \in Conn : pc[c] \in Busy => stored = c /\ Need(c) < ttl

IInv == TypeOK /\ Timed /\ KeyLives /\ Covered

(* A product of natural numbers is one, and grows by its second factor.    *)
LEMMA Times ==
    ASSUME NEW k \in Nat, NEW g \in Nat
    PROVE  k * g \in Nat /\ (k + 1) * g = k * g + g
  OBVIOUS

(* The state of the lock keeps its types, whatever the timing.             *)
THEOREM TypeCorrect == Spec => []TypeOK
<1> USE NoConnAssumption, TimeAssumption DEF TypeOK, Busy, Running, Releasing, Over
<1>1. Init => TypeOK
  BY DEF Init
<1>2. TypeOK /\ [Next]_vars => TypeOK'
  <2> SUFFICES ASSUME TypeOK, [Next]_vars PROVE TypeOK'
    OBVIOUS
  <2>1. ASSUME NEW c \in Conn, Acquire(c) PROVE TypeOK'
    BY <2>1 DEF Acquire, Goto, Allow
  <2>2. ASSUME NEW c \in Conn, StartRenewing(c) PROVE TypeOK'
    BY <2>2 DEF StartRenewing, Goto, Allow, Gap
  <2>3. ASSUME NEW c \in Conn, SetupRaises(c) PROVE TypeOK'
    BY <2>3 DEF SetupRaises, Leave, Goto, Allow
  <2>4. ASSUME NEW c \in Conn, Renew(c) PROVE TypeOK'
    <3>1. CASE RenewGet(c)
      BY <3>1 DEF RenewGet, Goto, Allow, Gap
    <3>2. CASE RenewExpire(c)
      BY <3>2 DEF RenewExpire, Goto, Allow, Gap
    <3>3. CASE RenewRaises(c)
      BY <3>3 DEF RenewRaises, Goto, Allow, Gap
    <3> QED
      BY <2>4, <3>1, <3>2, <3>3 DEF Renew
  <2>5. ASSUME NEW c \in Conn, StopRenewing(c) PROVE TypeOK'
    BY <2>5 DEF StopRenewing, Goto, Allow
  <2>6. ASSUME NEW c \in Conn, Release(c) PROVE TypeOK'
    <3>1. CASE ReleaseGet(c)
      BY <3>1 DEF ReleaseGet, Leave, Goto, Allow
    <3>2. CASE ReleaseDelete(c)
      BY <3>2 DEF ReleaseDelete, Leave, Goto, Allow
    <3>3. CASE ReleaseRaises(c)
      BY <3>3 DEF ReleaseRaises, Leave, Goto, Allow
    <3> QED
      BY <2>6, <3>1, <3>2, <3>3 DEF Release
  <2>7. ASSUME NEW c \in Conn, Crash(c) PROVE TypeOK'
    BY <2>7 DEF Crash, Leave, Goto, Allow
  <2>8. CASE Tick
    BY <2>8 DEF Tick, TickTimers
  <2>9. CASE UNCHANGED vars
    BY <2>9 DEF vars
  <2> QED
    BY <2>1, <2>2, <2>3, <2>4, <2>5, <2>6, <2>7, <2>8, <2>9 DEF Next, Step
<1> QED
  BY <1>1, <1>2, PTL DEF Spec

-----------------------------------------------------------------------------
(* Of two connections the key can store one, so the owner of the key is    *)
(* the only busy connection.                                               *)
LEMMA OnlyOwnerBusy ==
    ASSUME Covered, NEW c \in Conn, stored = c
    PROVE  \A d \in Conn : pc[d] \in Busy => d = c
  BY DEF Covered

(* What a connection may still need is never less than what it is doing.   *)
LEMMA NeedIsEnough ==
    ASSUME TypeOK, Timed, NEW c \in Conn, pc[c] \in Busy
    PROVE  Need(c) \in Nat /\ Need(c) >= timer[c]
<1> USE TimeAssumption
<1>1. Gap \in Nat
  BY DEF Gap
<1>2. timer[c] \in Nat /\ MaxMissed - missed[c] \in Nat
  BY DEF TypeOK, Timed
<1>3. (MaxMissed + 1) * Gap \in Nat /\ (MaxMissed - missed[c]) * Gap \in Nat
  <2> DEFINE left == MaxMissed - missed[c]
  <2>1. left * Gap \in Nat
    <3> HIDE DEF left
    <3> QED BY <1>1, <1>2, Times DEF left
  <2>2. (MaxMissed + 1) * Gap \in Nat
    BY <1>1, Times
  <2> QED BY <2>1, <2>2
<1> DEFINE a == (MaxMissed + 1) * Gap
           b == (MaxMissed - missed[c]) * Gap
<1>4. a \in Nat /\ b \in Nat
  BY <1>3
<1>5. Need(c) = timer[c] + a + MaxDelay \/ Need(c) = timer[c] + b + MaxDelay
      \/ Need(c) = timer[c]
  BY DEF Need
<1> QED
  <2> HIDE DEF a, b
  <2> QED BY <1>2, <1>4, <1>5

(* The inductive step, connection by connection: a step of c leaves the    *)
(* need of every other connection alone, and the time it allows itself is  *)
(* within what the key has left.                                           *)
LEMMA InvStep ==
    ASSUME Timely, IInv, [Next]_vars
    PROVE  Timed' /\ KeyLives' /\ Covered'
<1> USE NoConnAssumption, TimeAssumption
<1> USE DEF IInv, TypeOK, Timed, KeyLives, Covered, Busy, Running, Releasing, Over
<1>g. Gap \in Nat /\ (MaxMissed + 1) * Gap \in Nat
  BY Times DEF Gap
<1>1. ASSUME NEW c \in Conn, Acquire(c) PROVE Timed' /\ KeyLives' /\ Covered'
  BY <1>1, <1>g DEF Acquire, Goto, Allow, Timely, Need
<1>2. ASSUME NEW c \in Conn, StartRenewing(c) PROVE Timed' /\ KeyLives' /\ Covered'
  BY <1>2, <1>g DEF StartRenewing, Goto, Allow, Timely, Need
<1>3. ASSUME NEW c \in Conn, SetupRaises(c) PROVE Timed' /\ KeyLives' /\ Covered'
  BY <1>3, <1>g DEF SetupRaises, Leave, Goto, Allow, Timely, Need
<1>4. ASSUME NEW c \in Conn, RenewGet(c) PROVE Timed' /\ KeyLives' /\ Covered'
  BY <1>4, <1>g DEF RenewGet, Goto, Allow, Timely, Need
<1>5. ASSUME NEW c \in Conn, RenewExpire(c) PROVE Timed' /\ KeyLives' /\ Covered'
  BY <1>5, <1>g DEF RenewExpire, Goto, Allow, Timely, Need
<1>6. ASSUME NEW c \in Conn, RenewRaises(c) PROVE Timed' /\ KeyLives' /\ Covered'
  <2> DEFINE left == MaxMissed - missed[c] - 1
  <2>1. left \in Nat
    BY <1>6 DEF RenewRaises
  <2>2. (left + 1) * Gap = left * Gap + Gap
    <3> HIDE DEF left
    <3> QED BY <2>1, <1>g, Times
  <2>3. left + 1 = MaxMissed - missed[c] /\ left = MaxMissed - missed'[c]
    BY <1>6 DEF RenewRaises
  <2>4. Need(c) = timer[c] + (left + 1) * Gap + MaxDelay
    BY <1>6, <2>3 DEF RenewRaises, Need
  <2>5. Need(c)' = Gap + left * Gap + MaxDelay
    BY <1>6, <2>3 DEF RenewRaises, Goto, Allow, Need
  <2>6. timer[c] \in Nat /\ Need(c) < ttl /\ stored = c
    BY <1>6 DEF RenewRaises
  <2>7. left * Gap \in Nat
    <3> HIDE DEF left
    <3> QED BY <2>1, <1>g, Times
  <2>8. Need(c)' < ttl'
    <3>1. ttl' = ttl
      BY <1>6 DEF RenewRaises
    <3> HIDE DEF left
    <3> QED BY <2>2, <2>4, <2>5, <2>6, <2>7, <3>1, <1>g
  <2>9. Timed' /\ KeyLives'
    BY <1>6, <1>g DEF RenewRaises, Goto, Allow
  <2>10. Covered'
    <3> SUFFICES ASSUME NEW d \in Conn, pc'[d] \in Busy
                 PROVE  stored' = d /\ Need(d)' < ttl'
      OBVIOUS
    <3>1. d = c
      BY <1>6, <2>6, OnlyOwnerBusy DEF RenewRaises, Goto
    <3> QED
      BY <1>6, <2>6, <2>8, <3>1 DEF RenewRaises
  <2> QED
    BY <2>9, <2>10
<1>7. ASSUME NEW c \in Conn, StopRenewing(c) PROVE Timed' /\ KeyLives' /\ Covered'
  BY <1>7, <1>g DEF StopRenewing, Goto, Allow, Timely, Need
<1>8. ASSUME NEW c \in Conn, Release(c) PROVE Timed' /\ KeyLives' /\ Covered'
  BY <1>8, <1>g DEF Release, ReleaseGet, ReleaseDelete, ReleaseRaises, Leave, Goto, Allow, Timely, Need
<1>9. ASSUME NEW c \in Conn, Crash(c) PROVE Timed' /\ KeyLives' /\ Covered'
  BY <1>9, <1>g DEF Crash, Leave, Goto, Allow, Timely, Need
<1>10. CASE Tick
  BY <1>10, <1>g, NeedIsEnough DEF Tick, TickTimers, Timely, Need
<1>11. CASE UNCHANGED vars
  BY <1>11 DEF vars, Need
<1> QED
  BY <1>1, <1>2, <1>3, <1>4, <1>5, <1>6, <1>7, <1>8, <1>9, <1>10, <1>11 DEF Next, Step, Renew

(* Under Timely, the invariant holds of every behavior.                    *)
THEOREM Invariance == Timely => (Spec => []IInv)
<1> SUFFICES ASSUME Timely PROVE Spec => []IInv
  OBVIOUS
<1>1. Init => IInv
  BY NoConnAssumption, TimeAssumption
     DEF Init, IInv, TypeOK, Timed, KeyLives, Covered, Busy, Running, Releasing, Over
<1>2. IInv /\ [Next]_vars => (Timed /\ KeyLives /\ Covered)'
  BY InvStep
<1>3. TypeOK /\ (Timed /\ KeyLives /\ Covered) <=> IInv
  BY DEF IInv
<1> QED
  BY <1>1, <1>2, <1>3, TypeCorrect, PTL DEF Spec

(* No two sessions run on one meeting, for every number of connections and *)
(* every Timely choice of the constants (recording_lock.py, acquire).      *)
THEOREM Exclusion == Timely => (Spec => []MutualExclusion)
<1>1. IInv => MutualExclusion
  BY DEF IInv, Covered, MutualExclusion, Busy
<1> QED
  BY <1>1, Invariance, PTL

(* The GET of renew and of release is still right when the EXPIRE or the   *)
(* DELETE is sent, although the two are not atomic.                        *)
THEOREM ChecksHold == Timely => (Spec => []CheckStillHolds)
<1>1. IInv => CheckStillHolds
  BY DEF IInv, Covered, CheckStillHolds, Busy, Running, Releasing
<1> QED
  BY <1>1, Invariance, PTL
-----------------------------------------------------------------------------
(* A step of the lock is a step of the lease, or a stutter.                *)
LEMMA LeaseStep ==
    ASSUME IInv, Timely, [Next]_vars
    PROVE  [Lease!LeaseNext]_(Lease!leaseVars)
<1> DEFINE running == {c \in Conn : pc[c] \in Running}
<1> USE NoConnAssumption, TimeAssumption
<1> USE DEF IInv, TypeOK, KeyLives, Covered, Busy, Running, Releasing, Over,
            Lease!LeaseNext, Lease!leaseVars
<1>1. ASSUME NEW c \in Conn, Acquire(c) PROVE Lease!Claim(c) \/ UNCHANGED Lease!leaseVars
  BY <1>1 DEF Acquire, Goto, Lease!Claim
<1>2. ASSUME NEW c \in Conn, SetupRaises(c) \/ StopRenewing(c) PROVE Lease!Retire(c)
  BY <1>2 DEF SetupRaises, StopRenewing, Leave, Goto, Lease!Retire
<1>3. ASSUME NEW c \in Conn, Crash(c)
      PROVE  Lease!Retire(c) \/ UNCHANGED Lease!leaseVars
  BY <1>3 DEF Crash, Leave, Goto, Lease!Retire
<1>4. ASSUME NEW c \in Conn, StartRenewing(c) \/ Renew(c) PROVE UNCHANGED Lease!leaseVars
  BY <1>4 DEF StartRenewing, Renew, RenewGet, RenewExpire, RenewRaises, Goto
<1>5. ASSUME NEW c \in Conn, Release(c) PROVE Lease!Clear \/ UNCHANGED Lease!leaseVars
  BY <1>5 DEF Release, ReleaseGet, ReleaseDelete, ReleaseRaises, Leave, Goto, Lease!Clear
<1>6. CASE Tick
  <2>1. running' = running
    BY <1>6 DEF Tick, TickTimers
  <2>2. CASE ttl > 1
    BY <1>6, <2>1, <2>2 DEF Tick
  <2>3. CASE ~(ttl > 1)
    <3>1. \A c \in Conn : pc[c] \notin Busy
      BY <1>6, <2>3, NeedIsEnough DEF Tick, TickTimers
    <3> QED
      BY <1>6, <2>1, <2>3, <3>1 DEF Tick, Lease!Clear
  <2> QED
    BY <2>2, <2>3
<1>7. CASE UNCHANGED vars
  BY <1>7 DEF vars
<1> QED
  BY <1>1, <1>2, <1>3, <1>4, <1>5, <1>6, <1>7 DEF Next, Step

(* The Redis lock implements the lease that MeetingLifecycle is built on.  *)
THEOREM ImplementsLease == Timely => (Spec => LeaseSpec)
<1> SUFFICES ASSUME Timely PROVE Spec => LeaseSpec
  OBVIOUS
<1>1. Init => Lease!LeaseInit
  BY DEF Init, Lease!LeaseInit, Running
<1>2. IInv /\ [Next]_vars => [Lease!LeaseNext]_(Lease!leaseVars)
  BY LeaseStep
<1> QED
  BY <1>1, <1>2, Invariance, PTL DEF Spec, LeaseSpec, Lease!LeaseSpec
=============================================================================
