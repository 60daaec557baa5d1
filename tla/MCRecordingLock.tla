--------------------------- MODULE MCRecordingLock ---------------------------
(* RecordingLock with the code's own numbers, in seconds: a TTL of 30, a   *)
(* renewal every 10.                                                       *)
EXTENDS RecordingLock

CONSTANTS c1, c2, c3

MCConn == {c1, c2, c3}
=============================================================================
