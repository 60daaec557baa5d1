------------------------------ MODULE LeaseLock ------------------------------
(***************************************************************************)
(* What the recording lock of app/services/recording_lock.py promises to   *)
(* the live handler of app/ws/live_session.py, with no key, no token and   *)
(* no clock in it: a lease that a running session never loses and that     *)
(* nobody else can take while it runs.  RecordingLock implements this      *)
(* specification as long as the session keeps its timing, and              *)
(* MeetingLifecycle is built on it.                                        *)
(***************************************************************************)
CONSTANTS
    Conn,   \* WebSocket connections; each draws a token of its own
    NoConn  \* no connection: the Redis key does not exist

VARIABLES
    holder,  \* the connection whose token the key stores
    alive    \* connections whose live session is running

leaseVars == <<holder, alive>>

LeaseInit ==
    /\ holder = NoConn
    /\ alive = {}

(* A connection wins the lock and its session begins.                      *)
Claim(c) ==
    /\ holder = NoConn
    /\ holder' = c
    /\ alive' = alive \union {c}

(* A session ends, having cleared the lock or left it behind.              *)
Retire(c) ==
    /\ c \in alive
    /\ alive' = alive \ {c}
    /\ holder' \in {holder, NoConn}

(* A lock whose session has ended is cleared or lapses.                    *)
Clear ==
    /\ holder \notin alive
    /\ holder' = NoConn
    /\ UNCHANGED alive

LeaseNext ==
    \/ \E c \in Conn : Claim(c) \/ Retire(c)
    \/ Clear

LeaseSpec == LeaseInit /\ [][LeaseNext]_leaseVars

(* At most one session runs, and it is the one that holds the lock.        *)
Exclusive == alive \subseteq (Conn \intersect {holder})
=============================================================================
