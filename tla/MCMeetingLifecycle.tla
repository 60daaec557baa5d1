------------------------- MODULE MCMeetingLifecycle -------------------------
(* MeetingLifecycle with two connections to one meeting, or none.          *)
EXTENDS MeetingLifecycle, TLC

CONSTANTS c1, c2

MCConn == {c1, c2}
NobodyLive == {}

Silent == [c \in Conn |-> 0]
OneEach == [c \in Conn |-> 1]
TwoAndNone == c1 :> 2 @@ c2 :> 0
=============================================================================
