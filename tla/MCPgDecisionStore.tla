-------------------------- MODULE MCPgDecisionStore -------------------------
(***************************************************************************)
(* Instances of PgDecisionStore for TLC.                                   *)
(***************************************************************************)
EXTENDS PgDecisionStore

CONSTANTS c1, c2, c3, k1, x, y

Ask(k, body) == [key |-> k, body |-> body]
Bodies == {Ask(k1, x), Ask(k1, y)}
Approved(r) == [request |-> r, outcome |-> "approved"]

\* two bodies for one key: rivals, and twins when a body is asked for twice
RivalRows == { Approved(r) : r \in Bodies }

AllStoreFaults == DefiniteCodes \cup ConflictPathCodes \cup {CommitLost}
NoStoreFaults == {}
AllModes == {"Normal", "DefiniteFailure", "LoseCommitAcknowledgement"}
NormalMode == {"Normal"}
=============================================================================
