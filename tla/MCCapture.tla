----------------------------- MODULE MCCapture ------------------------------
(***************************************************************************)
(* Instances of BoundedCapture for TLC.                                    *)
(***************************************************************************)
EXTENDS CaptureInvariant

UnequalLimits == [s \in Streams |-> IF s = "stdout" THEN 2 ELSE 1]
TightLimits == [s \in Streams |-> IF s = "stdout" THEN 1 ELSE 0]

\* exit status 3, and death by a signal of the child's own making
MCOwnCodes == {3, -11}
=============================================================================
