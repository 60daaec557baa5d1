---------------------------- MODULE MCDiarization ----------------------------
(***************************************************************************)
(* Diarization of two segments by two workers, next to one that a stream   *)
(* labels.                                                                 *)
(***************************************************************************)
EXTENDS Diarization, TLC

CONSTANTS s1, s2, s3

MCSegments == {s1, s2, s3}
MCStreamVoice == s3 :> 1
MCDuration == s1 :> 1 @@ s2 :> 2 @@ s3 :> 1
MCWatched == {s1}

(* Bound: once the stream has labelled its segment, no transcript message  *)
(* is shown, no passes overlap and none is cut off.  That leaves every way *)
(* in which passes and the stream open the gate, and every way in which    *)
(* passes and hints meet without the stream.                               *)
StreamApart ==
    Labelled \intersect Streamed # {} => shown = {} /\ ~overlapped /\ ~broken
=============================================================================
