---------------------------- MODULE HttpContract ----------------------------
(***************************************************************************)
(* The faults of the order-authorization service and their HTTP mapping    *)
(* (backend/src/http_contract.rs).  A fault is named by its code, the only *)
(* field the mapping looks at.                                             *)
(***************************************************************************)
EXTENDS Integers

(***************************************************************************)
(* The codes of validate_request, in the order the function tests them:    *)
(* the first offending field decides the code.                             *)
(***************************************************************************)
ValidationOrder ==
    << "order_id_invalid", "idempotency_key_invalid", "customer_id_invalid",
       "payment_reference_invalid", "items_invalid", "amount_invalid",
       "currency_invalid" >>

ValidationCodes == { ValidationOrder[i] : i \in 1..7 }

BadRequestCodes == ValidationCodes \cup {"request_json_invalid"}
ConflictCodes   == {"idempotency_key_conflict",
                    "decision_reconciliation_conflict"}
BusinessCodes   == {"inventory_out_of_stock", "payment_declined"}

\* Mutant of FaultStatus: the faults of the store are conflicts
FaultStatusStoreConflicts(code) ==
    CASE code \in BadRequestCodes -> 400
      [] code \in BusinessCodes   -> 422
      [] OTHER                    -> 409

(***************************************************************************)
(* AuthorizationHttpResponse::fault: every code without an arm of its own, *)
(* the store's codes among them, is 503.                                   *)
(***************************************************************************)
FaultStatus(code) ==
    CASE code \in BadRequestCodes -> 400
      [] code \in ConflictCodes   -> 409
      [] code \in BusinessCodes   -> 422
      [] OTHER                    -> 503

\* AuthorizationHttpResponse::success
SuccessStatus == 200
=============================================================================
