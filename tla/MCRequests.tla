----------------------------- MODULE MCRequests ------------------------------
(***************************************************************************)
(* Requests for the instances: bodies at the limits of each check, and     *)
(* what clients do with keys and orders.                                   *)
(***************************************************************************)
EXTENDS RequestValidation

CONSTANTS o1, k1, k2

Text(n)    == [length |-> n, safe |-> TRUE]
Unsafe(n)  == [length |-> n, safe |-> FALSE]
Item(n)    == [item_id |-> Text(7), quantity |-> n]

ValidBody ==
    [order_id |-> Text(10), idempotency_key |-> Text(9), customer_id |-> Text(13),
     payment_reference |-> Text(18), items |-> {Item(2)}, amount_minor |-> 12500,
     currency |-> [length |-> 3, uppercase |-> TRUE]]

\* as long and as small as a valid body can be
LargestBody ==
    [ValidBody EXCEPT !.order_id = Text(128), !.idempotency_key = Text(128),
                      !.customer_id = Text(1), !.payment_reference = Text(128),
                      !.items = {Item(1), [item_id |-> Text(128), quantity |-> 1]},
                      !.amount_minor = 1]

\* each fails some checks, the last two more than one
InvalidBodies ==
    { [ValidBody EXCEPT !.order_id = Text(129)],
      [ValidBody EXCEPT !.idempotency_key = Text(0)],
      [ValidBody EXCEPT !.customer_id = Unsafe(4)],
      [ValidBody EXCEPT !.items = {Item(2), Item(0)}],
      [ValidBody EXCEPT !.items = {}, !.amount_minor = 0],
      [ValidBody EXCEPT !.payment_reference = Text(129),
                        !.currency = [length |-> 3, uppercase |-> FALSE]],
      [ValidBody EXCEPT !.amount_minor = -1,
                        !.currency = [length |-> 2, uppercase |-> TRUE]] }

OtherBody == [ValidBody EXCEPT !.amount_minor = 700]

Bodies == {ValidBody, OtherBody, LargestBody} \cup InvalidBodies

Req(o, k, body, f) ==
    [order |-> o, key |-> k, details |-> body, fixture |-> f, flaws |-> Flaws(body)]

\* every fixture, one key reused with another body, one order with two keys,
\* bodies at the limits and beyond them
EveryRequest(fixtures) ==
    { Req(o1, k1, ValidBody, f) : f \in fixtures }
      \cup { Req(o1, k1, body, "normal") : body \in Bodies }
      \cup { Req(o1, k2, ValidBody, "normal") }

\* one order that two keys and two bodies compete for
SharedOrder == {Req(o1, k1, ValidBody, "normal"), Req(o1, k1, OtherBody, "normal"),
                Req(o1, k2, ValidBody, "ack_lost_after_commit")}
=============================================================================
