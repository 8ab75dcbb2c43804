---------------------------- MODULE PaymentFlow ----------------------------
(***************************************************************************)
(* From the charge to the payment row: EventConsumer with the payments     *)
(* rows and PaymentService.handleWebhook. An event of EventConsumer that   *)
(* is no notice asks for the charge of one payment, whose PENDING row the  *)
(* completion of its trip inserted (TripLifecycle). No code consumes       *)
(* payment.charge.completed or payment.charge.failed: only webhooks change *)
(* a row, and a provider outside of this code sends them, or not.          *)
(***************************************************************************)
EXTENDS EventConsumer

CONSTANT MaxHooks   \* bound: webhooks received

ASSUME HookAssumption == MaxHooks \in Nat

VARIABLES
    payment,    \* the payments rows
    inHand,     \* webhooks being handled; two that say the same and have
                \* come as far are one
    saved,      \* statuses that were saved for each payment
    announced,  \* statuses that payment.charge events told of each payment
    hooks       \* counted against the bound

paymentVars == <<payment, inHand, saved, announced, hooks>>
vars == <<consumerVars, failures, paymentVars>>
-----------------------------------------------------------------------------
Payments == Parsed \ Notices

Row == [status : {"PENDING", "COMPLETED", "FAILED"},
        pspReference : {Null, "none", "psp"}]

Webhooks == [pc : {"save", "emit"}, payment : Payments, row : Row]

TypeOK ==
    /\ ConsumerTypeOK
    /\ payment \in [Payments -> Row]
    /\ inHand \subseteq Webhooks
    /\ {saved, announced} \subseteq SUBSET (Payments \X {"COMPLETED", "FAILED"})
    /\ hooks \in Nat

Init ==
    /\ ConsumerInit
    /\ payment = [p \in Payments |-> [status |-> "PENDING", pspReference |-> Null]]
    /\ inHand = {} /\ saved = {} /\ announced = {} /\ hooks = 0

\* The row is looked up by the reference of the body and by the payment's
\* id only if the body's reference is empty.
Found(p, reference) ==
    reference = "none" \/ payment[p].pspReference = reference

\* The entity as the webhook changes it in memory.
Updated(p, status, reference) ==
    IF status = "success"
    THEN [status |-> "COMPLETED", pspReference |-> reference]
    ELSE [payment[p] EXCEPT !.status = "FAILED"]

\* POST payments/webhook; a payment that is not found ends it. The handler
\* asks for no charge: that it has one is what a provider is assumed to do.
ReceiveWebhook(p, status, reference) ==
    /\ charged[p] > 0
    /\ hooks < MaxHooks /\ hooks' = hooks + 1
    /\ inHand' = IF Found(p, reference)
                 THEN inHand \cup {[pc |-> "save", payment |-> p,
                                    row |-> Updated(p, status, reference)]}
                 ELSE inHand
    /\ UNCHANGED <<consumerVars, failures, payment, saved, announced>>

FaultSavePayment(h) ==
    /\ h.pc = "save"
    /\ IF payment[h.payment].status = "COMPLETED" THEN UNCHANGED <<payment, saved>>
       ELSE /\ payment' = [payment EXCEPT ![h.payment] = h.row]
            /\ saved' = saved \cup {<<h.payment, h.row.status>>}
    /\ inHand' = (inHand \ {h}) \cup {[h EXCEPT !.pc = "emit"]}
    /\ UNCHANGED <<consumerVars, failures, announced, hooks>>

\* save(payment): TypeORM loads the row again and updates the columns that
\* differ from the entity, here in one step, which leaves every column as
\* the entity has it.
SavePayment(h) ==
    /\ h.pc = "save"
    /\ payment' = [payment EXCEPT ![h.payment] = h.row]
    /\ saved' = saved \cup {<<h.payment, h.row.status>>}
    /\ inHand' = (inHand \ {h}) \cup {[h EXCEPT !.pc = "emit"]}
    /\ UNCHANGED <<consumerVars, failures, announced, hooks>>

\* The event about the charge.
Announce(h) ==
    /\ h.pc = "emit"
    /\ announced' = announced \cup {<<h.payment, h.row.status>>}
    /\ inHand' = inHand \ {h}
    /\ UNCHANGED <<consumerVars, failures, payment, saved, hooks>>

\* The process dies or a call rejects: nothing continues the webhook.
WebhookFails(h) ==
    /\ Fail
    /\ inHand' = inHand \ {h}
    /\ UNCHANGED <<consumerVars, payment, saved, announced, hooks>>
-----------------------------------------------------------------------------
Next ==
    \/ ConsumerNext /\ UNCHANGED paymentVars
    \/ \E h \in inHand : SavePayment(h) \/ Announce(h) \/ WebhookFails(h)
    \/ \E p \in Payments, status \in {"success", "failure"},
          reference \in {"none", "psp"} : ReceiveWebhook(p, status, reference)

Spec == Init /\ [][Next]_vars

FairSpec ==
    /\ Spec /\ ConsumerFairness
    /\ WF_vars(\E h \in inHand : SavePayment(h) \/ Announce(h))
-----------------------------------------------------------------------------
\* What an event tells of a payment its row has said before, and, unless a
\* call failed, what a row says will be told (payment.service.ts:40, :52).
AnnouncedIsSaved ==
    /\ announced \subseteq saved
    /\ \A p \in Payments :
           payment[p].status = "PENDING" \/ failures > 0
           \/ <<p, payment[p].status>> \in announced
           \/ \E h \in inHand : h.pc = "emit" /\ h.payment = p
                               /\ h.row.status = payment[p].status

\* The result of a charge reaches the row of its payment (HLD.md:502).
ResultReachesPayment ==
    \A p \in Payments : p \in results ~> payment[p].status # "PENDING"
=============================================================================
