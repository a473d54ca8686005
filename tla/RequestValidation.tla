-------------------------- MODULE RequestValidation -------------------------
(***************************************************************************)
(* What makes a field of an OrderAuthorizationRequest invalid              *)
(* (validate_request of backend/src/domain.rs).                            *)
(*                                                                         *)
(* A BODY has the fields of the request that are checked.  A text is       *)
(* [length, safe]: its bytes and whether they are all of A-Z, a-z, 0-9,    *)
(* '-', '_' and '.'; the currency is [length, uppercase].  Items are       *)
(* [item_id, quantity].                                                    *)
(***************************************************************************)
EXTENDS HttpContract

\* the checked fields of OrderAuthorizationRequest and of OrderItem
TextType == [length : Nat, safe : BOOLEAN]
ItemType == [item_id : TextType, quantity : Nat]
BodyType ==
    [order_id : TextType, idempotency_key : TextType, customer_id : TextType,
     payment_reference : TextType, items : SUBSET ItemType, amount_minor : Int,
     currency : [length : Nat, uppercase : BOOLEAN]]

ValidIdentifier(text) == text.length \in 1..128 /\ text.safe

InvalidItem(item) == ~ValidIdentifier(item.item_id) \/ item.quantity = 0

\* the checks of validate_request that the body fails
Flaws(body) ==
    { code \in ValidationCodes :
        \/ code = "order_id_invalid" /\ ~ValidIdentifier(body.order_id)
        \/ code = "idempotency_key_invalid" /\ ~ValidIdentifier(body.idempotency_key)
        \/ code = "customer_id_invalid" /\ ~ValidIdentifier(body.customer_id)
        \/ code = "payment_reference_invalid" /\ ~ValidIdentifier(body.payment_reference)
        \/ /\ code = "items_invalid"
           /\ body.items = {} \/ \E item \in body.items : InvalidItem(item)
        \/ code = "amount_invalid" /\ body.amount_minor <= 0
        \/ /\ code = "currency_invalid"
           /\ body.currency.length # 3 \/ ~body.currency.uppercase }
=============================================================================
