---------------------------- MODULE EffectLedger ----------------------------
(***************************************************************************)
(* EffectState of backend/src/domain.rs: the in-memory ledger of inventory *)
(* reservations and payment authorizations behind one mutex.               *)
(*                                                                         *)
(* reservation_id and payment_id are hashes of the order id, so an entry   *)
(* belongs to an ORDER: every execution for that order shares it.  The     *)
(* maps hold true, false or nothing, and no reader tells false from        *)
(* nothing: a set of the active orders stands for each map.  The event log *)
(* is kept per order, because no reader compares events of two orders.     *)
(***************************************************************************)
EXTENDS Sequences, Integers

CONSTANT Orders

VARIABLES
    reservations,   \* orders whose inventory reservation is active
    payments,       \* orders whose payment authorization is active
    events          \* per order, the actions of the "applied" events

ledgerVars == <<reservations, payments, events>>

EventActions == {"inventory_reserved", "payment_authorized",
                 "payment_voided", "inventory_released"}

\* Types of the ledger
LedgerTypeOK ==
    /\ reservations \in SUBSET Orders
    /\ payments \in SUBSET Orders
    /\ events \in [Orders -> Seq(EventActions)]

LedgerInit ==
    /\ reservations = {}
    /\ payments = {}
    /\ events = [o \in Orders |-> <<>>]

\* Mutant of Reserve: a second caller logs another reservation
ReserveLoggedTwice(o) ==
    /\ reservations' = reservations \cup {o}
    /\ events' = [events EXCEPT ![o] = Append(@, "inventory_reserved")]
    /\ UNCHANGED payments

(***************************************************************************)
(* reserve_inventory and authorize_payment: idempotent per order.  A       *)
(* second caller gets the id of the active entry and writes no event.      *)
(***************************************************************************)
Reserve(o) ==
    /\ reservations' = reservations \cup {o}
    /\ events' = IF o \in reservations
                   THEN events
                   ELSE [events EXCEPT ![o] = Append(@, "inventory_reserved")]
    /\ UNCHANGED payments

Authorize(o) ==
    /\ payments' = payments \cup {o}
    /\ events' = IF o \in payments
                   THEN events
                   ELSE [events EXCEPT ![o] = Append(@, "payment_authorized")]
    /\ UNCHANGED reservations

(***************************************************************************)
(* compensate: under one lock, void the payment if the caller passes a     *)
(* payment id, then release the inventory if it passes a reservation id.   *)
(* An entry that is not active is reported "already_applied" and writes no *)
(* event.                                                                  *)
(***************************************************************************)
VoidEvents(o, void) ==
    IF void /\ o \in payments THEN <<"payment_voided">> ELSE <<>>

ReleaseEvents(o, release) ==
    IF release /\ o \in reservations THEN <<"inventory_released">> ELSE <<>>

\* Mutant of Compensate: the inventory is released only after a void
CompensateAfterVoid(o, void, release) ==
    LET both == void /\ release
    IN  /\ payments' = IF void THEN payments \ {o} ELSE payments
        /\ reservations' = IF both THEN reservations \ {o} ELSE reservations
        /\ events' = [events EXCEPT
                        ![o] = @ \o VoidEvents(o, void) \o ReleaseEvents(o, both)]

Compensate(o, void, release) ==
    /\ payments' = IF void THEN payments \ {o} ELSE payments
    /\ reservations' = IF release THEN reservations \ {o} ELSE reservations
    /\ events' = [events EXCEPT
                    ![o] = @ \o VoidEvents(o, void) \o ReleaseEvents(o, release)]

\* The outcomes compensate returns, one per id passed in.
CompensationOutcome ==
    [action : {"void_payment", "release_inventory"},
     status : {"applied", "already_applied"}]

Applied(active) == IF active THEN "applied" ELSE "already_applied"

\* Mutant of CompensationOutcomes: after a void the release goes unreported
CompensationOutcomesOfOne(o, void, release) ==
    { c \in CompensationOutcome :
        \/ /\ void
           /\ c.action = "void_payment"
           /\ c.status = Applied(o \in payments)
        \/ /\ release /\ ~void
           /\ c.action = "release_inventory"
           /\ c.status = Applied(o \in reservations) }

CompensationOutcomes(o, void, release) ==
    { c \in CompensationOutcome :
        \/ /\ void
           /\ c.action = "void_payment"
           /\ c.status = Applied(o \in payments)
        \/ /\ release
           /\ c.action = "release_inventory"
           /\ c.status = Applied(o \in reservations) }

-----------------------------------------------------------------------------
(***************************************************************************)
(* The event log tells the ledger: an effect is active exactly when the    *)
(* log holds an application of it that no later event undoes, and it is    *)
(* never applied twice, nor undone twice, in a row.  The evidence endpoint *)
(* publishes both the log and the active sets; a reader audits charges     *)
(* from the log.                                                           *)
(***************************************************************************)
Alternates(log, do, undo) ==
    \A i, j \in DOMAIN log :
        i < j /\ log[i] = log[j] /\ log[i] \in {do, undo}
            => \E m \in i..j : log[m] \in {do, undo} \ {log[i]}

StillApplied(log, do, undo) ==
    \E i \in DOMAIN log :
        /\ log[i] = do
        /\ \A j \in (i + 1)..Len(log) : log[j] # undo

EventsTellLedger ==
    \A o \in Orders :
        /\ Alternates(events[o], "payment_authorized", "payment_voided")
        /\ Alternates(events[o], "inventory_reserved", "inventory_released")
        /\ o \in payments <=>
             StillApplied(events[o], "payment_authorized", "payment_voided")
        /\ o \in reservations <=>
             StillApplied(events[o], "inventory_reserved", "inventory_released")
=============================================================================
