--------------------------- MODULE OrderRefinement --------------------------
(***************************************************************************)
(* OrderAuthorization implements OrderContract: the register is the table  *)
(* of decisions, a reply is the class of the HTTP answer.                  *)
(***************************************************************************)
EXTENDS OrderAuthorization

Key(r) == r.key

ReplyClass(reply) ==
    CASE reply.code = "none"                 -> "none"
      [] reply.code = "ok"                   -> reply.outcome
      [] Status(reply) = 409                 -> "conflict"
      [] Status(reply) \in 400..499 \ {409} -> "refused"
      [] OTHER                               -> "unavailable"

Contract == INSTANCE OrderContract WITH
    KeyOf    <- Key,
    Verdict  <- WorkflowVerdict,
    register <- decisions,
    reply    <- [a \in Attempts |-> ReplyClass(answer[a])]

(***************************************************************************)
(* Whatever the interleaving of executions, lost commit answers, dropped   *)
(* futures and restarts, clients see a register with one decision per      *)
(* idempotency key.                                                        *)
(***************************************************************************)
ImplementsContract == Contract!ContractSpec
=============================================================================
