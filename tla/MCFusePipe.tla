---------------------------- MODULE MCFusePipe ----------------------------
(***************************************************************************)
(* Instances of FusePipe.                                                  *)
(***************************************************************************)
EXTENDS FusePipe, TLC

CONSTANTS r1, r2, f1

Mode(callers, reconnects, times, givesUp, badFrames) ==
    [callers |-> callers, reconnects |-> reconnects, times |-> times, givesUp |-> givesUp,
     badFrames |-> badFrames]

(* The plain multiplexer, the reconnectable one whose server does not come back,
   one that reconnects and meets bad frames, and one that reconnects twice. *)
AllModes ==
    {Mode(Calls, FALSE, 0, TRUE, FALSE), Mode(Calls, TRUE, 0, TRUE, FALSE),
     Mode(Calls, TRUE, 1, FALSE, TRUE), Mode({r1, f1}, TRUE, 2, TRUE, FALSE)}
=============================================================================
