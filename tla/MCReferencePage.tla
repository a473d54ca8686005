-------------------------- MODULE MCReferencePage ---------------------------
(***************************************************************************)
(* An instance of ReferencePage, and so of EvidenceReader, for TLC.        *)
(***************************************************************************)
EXTENDS ReferencePage

CONSTANTS a1, a2, o1, k1, x, load, r1

\* the page derives the order and the key from one suffix, which both clients use
OneSuffix == {[order |-> o1, key |-> k1, details |-> x, fixture |-> "normal",
               flaws |-> {}]}

ReadAfter(a) == r1

LookupFaults == {LookupFailed, CommitLost}
=============================================================================
