------------------------ MODULE MCCandidateRegistry ------------------------
(***************************************************************************)
(* Instances of CandidateRegistry for TLC.                                 *)
(***************************************************************************)
EXTENDS CandidateRegistry

CONSTANTS w1, w2
=============================================================================
