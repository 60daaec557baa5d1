---------------------------- MODULE RecordingLock ----------------------------
(***************************************************************************)
(* The Redis lock that keeps a second WebSocket off a meeting that is      *)
(* already being recorded: acquire, renew and release of                   *)
(* app/services/recording_lock.py, the renewal loop and the places of      *)
(* live_session_ws (app/ws/live_session.py) that call them.                *)
(*                                                                         *)
(* renew and release are a GET followed by an EXPIRE or a DELETE, two      *)
(* round trips that other clients, and the key's own expiry, can fall      *)
(* between.  Time is discrete and the model carries the code's numbers:    *)
(* TTL is _LOCK_TTL_SECONDS, RenewInterval is _LOCK_RENEW_INTERVAL_SECONDS.*)
(* What the code does not bound is a constant of its own.                  *)
(***************************************************************************)
EXTENDS Integers

CONSTANTS
    Conn,           \* connections, each with the random token it draws
    NoConn,         \* the key does not exist
    TTL,            \* life given to the key by SET ... EX and by EXPIRE
    RenewInterval,  \* sleep of the renewal loop
    MaxDelay,       \* longest lateness of a renewal, longest release
    MaxSetup,       \* longest time from SET NX to the start of the loop
    MaxMissed       \* renewals in a row that may raise

ASSUME NoConnAssumption == NoConn \notin Conn
ASSUME TimeAssumption ==
    /\ TTL \in Nat \ {0}
    /\ RenewInterval \in Nat \ {0}
    /\ MaxDelay \in Nat
    /\ MaxSetup \in Nat
    /\ MaxMissed \in Nat

VARIABLES
    stored,  \* whose token the key holds
    ttl,     \* time the key has left
    pc,      \* where each connection is
    timer,   \* time each connection has left for what it is doing
    missed   \* failed renewals in a row

vars == <<stored, ttl, pc, timer, missed>>

(* Longest time between two attempts of the renewal loop.                  *)
Gap == RenewInterval + MaxDelay

(***************************************************************************)
(* The timing under which the lock is safe: from SET NX the setup, then    *)
(* MaxMissed failed renewals and the one that succeeds, then a release     *)
(* that may just have begun, all fit in one TTL.  Nothing in the code      *)
(* enforces it; the theorems and the passing run assume it.                *)
(***************************************************************************)
Timely == MaxSetup + (MaxMissed + 1) * Gap + MaxDelay < TTL

Running == {"setup", "live", "renewing"}       \* the session exists
Releasing == {"releasing", "deleting"}         \* inside release()
Busy == Running \union Releasing               \* the clock is running for it
Over == {"ended", "rejected", "aborted", "crashed"}

TypeOK ==
    /\ stored \in Conn \union {NoConn}
    /\ ttl \in 0..TTL
    /\ pc \in [Conn -> {"idle"} \union Busy \union Over]
    /\ timer \in [Conn -> Int]
    /\ missed \in [Conn -> Nat]

Init ==
    /\ stored = NoConn
    /\ ttl = 0
    /\ pc = [c \in Conn |-> "idle"]
    /\ timer = [c \in Conn |-> 0]
    /\ missed = [c \in Conn |-> 0]

Goto(c, where) == pc' = [pc EXCEPT ![c] = where]
Allow(c, time) == timer' = [timer EXCEPT ![c] = time]

(* The connection is done with the lock; what it counted goes with it.     *)
Leave(c, how) ==
    /\ Goto(c, how)
    /\ Allow(c, 0)
    /\ missed' = [missed EXCEPT ![c] = 0]
-----------------------------------------------------------------------------
(* A slip: SET without NX, so that the last connection wins.               *)
AcquireWithoutNX(c) ==
    /\ pc[c] = "idle"
    /\ stored' = c
    /\ ttl' = TTL
    /\ Goto(c, "setup")
    /\ Allow(c, MaxSetup)
    /\ UNCHANGED missed

(* acquire: SET key token NX EX TTL, one atomic command.                   *)
Acquire(c) ==
    /\ pc[c] = "idle"
    /\ IF stored = NoConn
       THEN /\ stored' = c
            /\ ttl' = TTL
            /\ Goto(c, "setup")
            /\ Allow(c, MaxSetup)
       ELSE /\ Goto(c, "rejected")
            /\ UNCHANGED <<stored, ttl, timer>>
    /\ UNCHANGED missed

(* The handler reaches the line that starts the renewal loop.              *)
StartRenewing(c) ==
    /\ pc[c] = "setup"
    /\ Goto(c, "live")
    /\ Allow(c, Gap)
    /\ UNCHANGED <<stored, ttl, missed>>

(* The handler raises before it: no loop, no release, the key is left.     *)
SetupRaises(c) ==
    /\ pc[c] = "setup"
    /\ Leave(c, "aborted")
    /\ UNCHANGED <<stored, ttl>>

(* renew, first round trip: GET.  A token that is not ours ends the call.  *)
RenewGet(c) ==
    /\ pc[c] = "live"
    /\ timer[c] <= MaxDelay
    /\ IF stored = c
       THEN /\ Goto(c, "renewing")
            /\ UNCHANGED timer
       ELSE /\ Allow(c, Gap)
            /\ UNCHANGED pc
    /\ UNCHANGED <<stored, ttl, missed>>

(* A slip: the renewal checks the token and forgets the EXPIRE.            *)
RenewWithoutExpire(c) ==
    /\ pc[c] = "renewing"
    /\ Goto(c, "live")
    /\ Allow(c, Gap)
    /\ missed' = [missed EXCEPT ![c] = 0]
    /\ UNCHANGED <<stored, ttl>>

(* A slip: EXPIRE is given the interval of the loop, not the TTL.          *)
RenewByInterval(c) ==
    /\ pc[c] = "renewing"
    /\ ttl' = IF stored = NoConn THEN 0 ELSE RenewInterval
    /\ Goto(c, "live")
    /\ Allow(c, Gap)
    /\ missed' = [missed EXCEPT ![c] = 0]
    /\ UNCHANGED stored

(* A slip: the renewal adds a TTL to what is left.                         *)
RenewByAdding(c) ==
    /\ pc[c] = "renewing"
    /\ ttl' = IF stored = NoConn THEN 0 ELSE ttl + TTL
    /\ Goto(c, "live")
    /\ Allow(c, Gap)
    /\ missed' = [missed EXCEPT ![c] = 0]
    /\ UNCHANGED stored

(* renew, second round trip: EXPIRE, on whatever the key holds by now.     *)
RenewExpire(c) ==
    /\ pc[c] = "renewing"
    /\ ttl' = IF stored = NoConn THEN 0 ELSE TTL
    /\ Goto(c, "live")
    /\ Allow(c, Gap)
    /\ missed' = [missed EXCEPT ![c] = 0]
    /\ UNCHANGED stored

(* Either round trip raises; the loop logs it and sleeps again.            *)
RenewRaises(c) ==
    /\ pc[c] \in {"live", "renewing"}
    /\ timer[c] <= MaxDelay
    /\ missed[c] < MaxMissed
    /\ Goto(c, "live")
    /\ Allow(c, Gap)
    /\ missed' = [missed EXCEPT ![c] = @ + 1]
    /\ UNCHANGED <<stored, ttl>>

(* The handler's finally cancels the loop, in whatever call it is, and     *)
(* enters release.                                                         *)
StopRenewing(c) ==
    /\ pc[c] \in {"live", "renewing"}
    /\ Goto(c, "releasing")
    /\ Allow(c, MaxDelay)
    /\ UNCHANGED <<stored, ttl, missed>>

(* release, first round trip: GET.                                         *)
ReleaseGet(c) ==
    /\ pc[c] = "releasing"
    /\ IF stored = c
       THEN Goto(c, "deleting") /\ UNCHANGED <<timer, missed>>
       ELSE Leave(c, "ended")
    /\ UNCHANGED <<stored, ttl>>

(* release, second round trip: DELETE, of whatever the key holds by now.   *)
ReleaseDelete(c) ==
    /\ pc[c] = "deleting"
    /\ stored' = NoConn
    /\ ttl' = 0
    /\ Leave(c, "ended")

(* Either round trip raises; finally logs it and leaves the key behind.    *)
ReleaseRaises(c) ==
    /\ pc[c] \in Releasing
    /\ Leave(c, "ended")
    /\ UNCHANGED <<stored, ttl>>

(* The api process dies with the connection in it.                         *)
Crash(c) ==
    /\ pc[c] \in Busy
    /\ Leave(c, "crashed")
    /\ UNCHANGED <<stored, ttl>>

TickTimers ==
    /\ \A c \in Conn : pc[c] \in Busy => timer[c] > 0
    /\ timer' = [c \in Conn |-> IF pc[c] \in Busy THEN timer[c] - 1 ELSE timer[c]]
    /\ UNCHANGED <<pc, missed>>

(* A slip: the key is SET without EX and outlives its time.                *)
TickWithoutExpiry ==
    /\ TickTimers
    /\ ttl' = IF ttl > 0 THEN ttl - 1 ELSE 0
    /\ UNCHANGED stored

(* One unit of time; Redis drops a key whose time is up.                   *)
Tick ==
    /\ TickTimers
    /\ ttl' = IF ttl > 0 THEN ttl - 1 ELSE 0
    /\ stored' = IF ttl > 1 THEN stored ELSE NoConn

Renew(c) == RenewGet(c) \/ RenewExpire(c) \/ RenewRaises(c)
Release(c) == ReleaseGet(c) \/ ReleaseDelete(c) \/ ReleaseRaises(c)

Step(c) ==
    \/ Acquire(c)
    \/ StartRenewing(c)
    \/ SetupRaises(c)
    \/ Renew(c)
    \/ StopRenewing(c)
    \/ Release(c)
    \/ Crash(c)

Next == (\E c \in Conn : Step(c)) \/ Tick

Spec == Init /\ [][Next]_vars

(* Time passes, and what a process has begun it goes on with: it wakes up  *)
(* from its sleep, and every round trip returns or raises.                 *)
Fairness ==
    /\ WF_vars(Tick)
    /\ \A c \in Conn :
          /\ WF_vars(StartRenewing(c) \/ SetupRaises(c))
          /\ WF_vars(Renew(c))
          /\ WF_vars(Release(c))

FairSpec == Spec /\ Fairness
-----------------------------------------------------------------------------
(* Exactly one connection ever wins: no two sessions run on one meeting    *)
(* (recording_lock.py: "exactly one connection ever wins the race").       *)
MutualExclusion ==
    \A c, d \in Conn : pc[c] \in Running /\ pc[d] \in Running => c = d

(* The answer of the GET in renew and in release still holds when the      *)
(* EXPIRE or the DELETE that depends on it is sent: no session prolongs or *)
(* clears a lock that is not its own.                                      *)
CheckStillHolds ==
    \A c \in Conn : pc[c] \in {"renewing", "deleting"} => stored = c

(* Refinement: keys, tokens, round trips and time seen as the abstract     *)
(* lease.                                                                  *)
Lease == INSTANCE LeaseLock
            WITH holder <- stored, alive <- {c \in Conn : pc[c] \in Running}

LeaseSpec == Lease!LeaseSpec

(* A lock left behind, by a crash, by an exception in the setup or by a    *)
(* release that failed, is not left forever.                               *)
LockHeals ==
    \A c \in Conn : (stored = c /\ pc[c] \in Over) ~> (stored # c)
=============================================================================
