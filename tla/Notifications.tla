---------------------------- MODULE Notifications ----------------------------
(***************************************************************************)
(* The notification module (app/notification) and the event bus            *)
(* (app/common/events.py), on top of everything that publishes events.     *)
(*                                                                         *)
(* The bus is synchronous: publish runs the listener in the thread of the  *)
(* request, after the request's commit, in a session of the listener's     *)
(* own.  What a thread has published and its listener has not handled yet  *)
(* is its backlog; nothing but the thread's memory holds it (there is no   *)
(* outbox).  The order in which one thread's events are handled is left    *)
(* open: nothing depends on it.                                            *)
(***************************************************************************)
EXTENDS Payments

CONSTANT ReadRequests   \* requests that mark notifications as read

ASSUME NotificationsAssumption == NoRequest \notin ReadRequests

(* The threads that publish events.                                        *)
Publishers == InventoryRequests \cup OrderRequests \cup PaymentRequests

VARIABLES
    notices,   \* committed notification rows
    backlog,   \* published by a thread, not yet handled by its listener
    lost,      \* history: whose draft a crash or a failed write swallowed
    marking    \* state of every read request

noticeVars == <<notices, backlog, lost, marking>>
shopVars == <<vars, noticeVars>>

NotificationType ==
    {"LOW_STOCK", "ORDER_CREATED", "ORDER_CONFIRMED", "ORDER_CANCELLED",
     "PAYMENT_SUCCESS", "PAYMENT_FAILED"}

-----------------------------------------------------------------------------
(* messages.py: what the notification of an event says.                    *)
NotificationDraft(type, entity, left, limit) ==
    [type |-> type, entity |-> entity, left |-> left, limit |-> limit]

FromLowStock(e) ==
    NotificationDraft("LOW_STOCK", e.product, e.quantity, e.threshold)

OrderNotificationType(event) ==
    CASE event = "OrderCreated"   -> "ORDER_CREATED"
      [] event = "OrderConfirmed" -> "ORDER_CONFIRMED"
      [] event = "OrderCancelled" -> "ORDER_CANCELLED"

FromOrder(event, o) == NotificationDraft(OrderNotificationType(event), o, 0, 0)

(* Fault: every settled payment is reported as received.                   *)
FromPaymentReceived(x) ==
    NotificationDraft(IF x \in stored THEN "PAYMENT_SUCCESS" ELSE "PAYMENT_FAILED", x, 0, 0)

FromPayment(x) ==
    NotificationDraft(IF pay[x].status = "SUCCESS" THEN "PAYMENT_SUCCESS"
                                                   ELSE "PAYMENT_FAILED", x, 0, 0)

(* One notification per event of an order or payment, one per product that *)
(* ever runs low.                                                          *)
DedupKey(draft) == <<draft.type, draft.entity>>

-----------------------------------------------------------------------------
(* Where the request of thread r is.                                       *)
Label(r) ==
    IF r \in InventoryRequests THEN adj[r].pc
    ELSE IF r \in OrderRequests THEN ord[r].pc ELSE preq[r].pc

(* What r is about to publish, now that it has committed.                  *)
Unpublished(r) ==
    IF Label(r) # "publish" THEN {}
    ELSE IF r \in InventoryRequests
    THEN {FromLowStock([product |-> adj[r].product, quantity |-> adj[r].q,
                        threshold |-> adj[r].t])}
    ELSE IF r \in OrderRequests
    THEN {FromLowStock(e) : e \in ord[r].low} \cup
         {FromOrder(e, ord[r].order) : e \in LifecycleEvent(ord[r].rule.to)}
    ELSE {FromPayment(preq[r].payment)}

LostBy(r, drafts) == {[by |-> r, draft |-> d] : d \in drafts}

(* EventBus.publish hands the events of a step that publishes to the       *)
(* listener; a thread that dies before it publishes loses them.            *)
Published(r) == IF Label(r)' = "done" THEN Unpublished(r) ELSE {}
Dropped(r) == IF Label(r)' = "crashed" THEN Unpublished(r) ELSE {}

NoticesInit ==
    /\ notices = {}
    /\ backlog = [r \in Publishers |-> {}]
    /\ lost = {}
    /\ marking = [m \in ReadRequests |-> [pc |-> "new", row |-> {}]]

ShopInit == Init /\ NoticesInit

(* What the bus does while a request makes a step.                         *)
Bus ==
    /\ backlog' = [r \in Publishers |-> backlog[r] \cup Published(r)]
    /\ lost' = lost \cup UNION {LostBy(r, Dropped(r)) : r \in Publishers}
    /\ UNCHANGED <<notices, marking>>

ShopStep ==
    /\ \/ AdjNext /\ UNCHANGED <<ordVars, payVars>>
       \/ OrdNext /\ UNCHANGED payVars
       \/ PayNext
    /\ Bus

Handled(r, draft) == backlog' = [backlog EXCEPT ![r] = @ \ {draft}]

Recorded(draft) == \E n \in notices : DedupKey(n.draft) = DedupKey(draft)

(* create_from_draft: INSERT and COMMIT, or the IntegrityError of          *)
(* uq_notification_dedup, which is as good.                                *)
CreateFromDraft(r, draft) ==
    /\ notices' = IF Recorded(draft) THEN notices
                  ELSE notices \cup {[draft |-> draft, by |-> r, readBy |-> NoRequest]}
    /\ Handled(r, draft)
    /\ UNCHANGED <<vars, lost, marking>>

(* Fault: a failing handler ends the publication of the thread's other     *)
(* events.                                                                 *)
FailureStopsPublishing(r, draft) ==
    /\ backlog' = [backlog EXCEPT ![r] = {}]
    /\ lost' = lost \cup LostBy(r, {draft})
    /\ UNCHANGED <<vars, notices, marking>>

(* Any other failure is logged by the listener and forgotten.              *)
HandlerFails(r, draft) ==
    /\ Handled(r, draft)
    /\ lost' = lost \cup LostBy(r, {draft})
    /\ UNCHANGED <<vars, notices, marking>>

Deliver(r) == \E draft \in backlog[r] : CreateFromDraft(r, draft) \/ HandlerFails(r, draft)

(* The process dies while the thread's listener is at work.                *)
CrashDelivery(r) ==
    /\ backlog[r] # {}
    /\ backlog' = [backlog EXCEPT ![r] = {}]
    /\ lost' = lost \cup LostBy(r, backlog[r])
    /\ UNCHANGED <<vars, notices, marking>>

-----------------------------------------------------------------------------
(* mark_read: the row is read; one that is read already is the answer.     *)
BeginMarkRead(m, n) ==
    /\ marking[m].pc = "new"
    /\ marking' = [marking EXCEPT ![m] =
         IF n.readBy = NoRequest THEN [pc |-> "mark", row |-> {[draft |-> n.draft, by |-> n.by]}]
                                 ELSE [pc |-> "done", row |-> {}]]
    /\ UNCHANGED <<vars, notices, backlog, lost>>

ReadNow(m, n) == [n EXCEPT !.readBy = m]

(* is_read and read_at are written, whatever has happened to them since.   *)
MarkRead(m) ==
    /\ marking[m].pc = "mark"
    /\ notices' = {IF [draft |-> n.draft, by |-> n.by] \in marking[m].row
                   THEN ReadNow(m, n) ELSE n : n \in notices}
    /\ marking' = [marking EXCEPT ![m] = [pc |-> "done", row |-> {}]]
    /\ UNCHANGED <<vars, backlog, lost>>

(* mark_all_read is one UPDATE of the unread rows.                         *)
MarkAllRead(m) ==
    /\ marking[m].pc = "new"
    /\ notices' = {IF n.readBy = NoRequest THEN ReadNow(m, n) ELSE n : n \in notices}
    /\ marking' = [marking EXCEPT ![m].pc = "done"]
    /\ UNCHANGED <<vars, backlog, lost>>

Marking(m) == (\E n \in notices : BeginMarkRead(m, n)) \/ MarkRead(m) \/ MarkAllRead(m)

-----------------------------------------------------------------------------
ShopQuiet ==
    /\ AdjQuiet /\ OrdQuiet /\ PayQuiet
    /\ \A r \in Publishers : backlog[r] = {}
    /\ \A m \in ReadRequests : marking[m].pc = "done"

ShopNext ==
    \/ ShopStep
    \/ \E r \in Publishers : Deliver(r) \/ CrashDelivery(r)
    \/ \E m \in ReadRequests : Marking(m)
    \/ ShopQuiet /\ UNCHANGED shopVars

ShopSpec == ShopInit /\ [][ShopNext]_shopVars

(* The threads of the requests keep running, through publish and the       *)
(* listener; the database ends every INSERT.                               *)
ShopFairness ==
    /\ \A r \in InventoryRequests :
         WF_shopVars(ContinueAdj(r) /\ UNCHANGED <<ordVars, payVars>> /\ Bus)
    /\ \A r \in OrderRequests :
         WF_shopVars(ContinueOrder(r) /\ UNCHANGED payVars /\ Bus)
    /\ \A r \in PaymentRequests : WF_shopVars(ContinuePayment(r) /\ Bus)
    /\ \A r \in Publishers : WF_shopVars(Deliver(r))

ShopFairSpec == ShopSpec /\ ShopFairness

-----------------------------------------------------------------------------
(* What a notification says has happened: stock ran as low as it says by a *)
(* committed movement, the order went that way, the payment was settled    *)
(* so.  Listeners run after the commit, so no rollback takes it back.      *)
NotificationsAreTrue ==
    \A n \in notices :
        LET d == n.draft IN
        /\ d.type = "LOW_STOCK" =>
             /\ d.left <= d.limit
             /\ \E i \in 1 .. Len(movements[d.entity]) :
                  movements[d.entity][i].resulting = d.left
        /\ d.type = "ORDER_CREATED" => status[d.entity] # "NONE"
        /\ d.type \in {"ORDER_CONFIRMED", "ORDER_CANCELLED"} =>
             status[d.entity] \in HoldingStates \cup {"CANCELLED"}
        /\ d.type = "PAYMENT_SUCCESS" => Succeeded(d.entity)
        /\ d.type = "PAYMENT_FAILED" => pay[d.entity].status = "FAILED"

Told == {DedupKey(n.draft) : n \in notices}

(* An event whose change is committed stays with its thread until somebody *)
(* is notified of it or a crash or a failed write swallows this very event:*)
(* neither another event's failure, of this thread or another, nor a loss  *)
(* of an equal event makes it vanish, and no notification is ever          *)
(* withdrawn.                                                              *)
NoEventVanishes ==
    [][/\ \A r \in Publishers : \A d \in Unpublished(r) \cup backlog[r] :
            \/ d \in (Unpublished(r) \cup backlog[r])'
            \/ DedupKey(d) \in Told'
            \/ LostBy(r, {d}) \subseteq lost'
       /\ Told \subseteq Told']_shopVars

(* Every request that publishes is answered, which is after its listener   *)
(* has returned: an online payment and cash that wait for each other's     *)
(* unique index, an order and an adjustment that want the same row are let *)
(* go, and notifying keeps nobody.                                         *)
PublishersAnswered ==
    \A r \in Publishers :
        (Label(r) # "new") ~> (Label(r) \in Finished /\ backlog[r] = {})
=============================================================================
