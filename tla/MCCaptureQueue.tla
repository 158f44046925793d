--------------------------- MODULE MCCaptureQueue ---------------------------
(***************************************************************************)
(* Two workers and two captures for TLC.  Extraction finds one fact to     *)
(* store in either, or something to ask in the first, or nothing new in    *)
(* the second.                                                             *)
(***************************************************************************)
EXTENDS CaptureQueue, TLC

CONSTANTS w1, w2

MCDrafts == <<{<<"retain">>, <<"clarify">>}, {<<"retain">>, <<"ignore">>}>>

\* The workers are alike, and no property of the run is a liveness property.
WorkerSymmetry == Permutations(Workers)
=============================================================================
