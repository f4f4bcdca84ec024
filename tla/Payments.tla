------------------------------ MODULE Payments ------------------------------
(***************************************************************************)
(* The payment module (app/payment) on top of orders and inventory:        *)
(* initiation, verification of an online payment with the gateway, and     *)
(* confirmation of cash on delivery.                                       *)
(*                                                                         *)
(* A verification locks the PAYMENT row; it reads the order without a      *)
(* lock, talks to the gateway while it holds the payment, and at last      *)
(* commits the payment's SUCCESS together with the order's PAID.  The      *)
(* order object it read stays in its session, so the transition it calls   *)
(* finds the status read before the gateway was asked.                     *)
(***************************************************************************)
EXTENDS Orders

CONSTANTS
    OldPayments,      \* payments that were initiated earlier
    PaymentRequests,  \* requests to the /payments endpoints
    Keys, NoKey,      \* idempotency keys; "no key"
    Refs, NoRef,      \* provider payment ids; "none"
    NoPayment         \* "no payment yet"

(* A request inserts at most one payment row: the row is named after it.   *)
PaymentIds == OldPayments \cup PaymentRequests

Method == {"ONLINE", "COD"}
PaymentStatus == {"CREATED", "PENDING", "SUCCESS", "FAILED", "CANCELLED"}

(* Fault: a failed attempt may be verified again.                          *)
VerifiableAgain == {"CREATED", "PENDING", "FAILED"}

VERIFIABLE_FROM == {"CREATED", "PENDING"}

(* CANCELLED is declared and never written.                                *)
TERMINAL == {"SUCCESS", "FAILED", "CANCELLED"}

Payment ==
    [order : OrderIds, method : Method, status : PaymentStatus,
     key : Keys \cup {NoKey}, ref : Refs \cup {NoRef}]

ASSUME PaymentsAssumption ==
    /\ NoKey \notin Keys
    /\ NoRef \notin Refs
    /\ NoPayment \notin PaymentIds
    /\ NoRequest \notin PaymentRequests
    /\ PaymentRequests \cap OldPayments = {}
    /\ PaymentRequests \cap Requests = {}

VARIABLES
    stored,      \* ids of the payment rows
    pay,         \* committed payment rows, as a function on all ids
    payLock,     \* who holds FOR UPDATE on a payment row
    outcomes,    \* PaymentSucceeded / PaymentFailed events published
    preq         \* state of every payment request

payTables == <<stored, pay, payLock>>
payVars == <<payTables, outcomes, preq>>
vars == <<ordersVars, payVars>>

PayState ==
    [pc : {"new", "check", "key", "insert", "lock", "order", "gateway",
           "flush", "commit", "publish"} \cup Finished,
     order : OrderIds \cup {NoOrder},
     payment : PaymentIds \cup {NoPayment},
     method : Method,
     key : Keys \cup {NoKey},
     ref : Refs \cup {NoRef},
     seen : OrderStatus]          \* status of the order object in the session

Outcome == [event : {"PaymentSucceeded", "PaymentFailed"}, payment : PaymentIds]

PayTypeOK ==
    /\ stored \subseteq PaymentIds
    /\ pay \in [PaymentIds -> Payment]
    /\ payLock \in [PaymentIds -> PaymentRequests \cup {NoRequest}]
    /\ outcomes \subseteq Outcome
    /\ preq \in [PaymentRequests -> PayState]

TypeOK == InvTypeOK /\ OrdTypeOK /\ PayTypeOK

-----------------------------------------------------------------------------
(* Payments initiated earlier are unsettled attempts for orders that were  *)
(* confirmed then.                                                         *)
PayInit ==
    /\ stored = OldPayments
    /\ \E f \in [OldPayments -> OrderIds \X Method], o \in OrderIds :
        /\ pay = [x \in PaymentIds |->
             [order |-> IF x \in OldPayments THEN f[x][1] ELSE o,
              method |-> IF x \in OldPayments THEN f[x][2] ELSE "COD",
              status |-> "CREATED", key |-> NoKey, ref |-> NoRef]]
        /\ \A x \in OldPayments : status[f[x][1]] = "CONFIRMED"
    /\ payLock = [x \in PaymentIds |-> NoRequest]
    /\ outcomes = {}
    /\ preq = [r \in PaymentRequests |->
                 [pc |-> "new", order |-> NoOrder, payment |-> NoPayment,
                  method |-> "COD", key |-> NoKey, ref |-> NoRef, seen |-> "NONE"]]

Init == OrdersInit /\ PayInit

Succeeded(x) == x \in stored /\ pay[x].status = "SUCCESS"

PayGoto(r, label) == preq' = [preq EXCEPT ![r] = [@ EXCEPT !.pc = label]]

PayReleased(r) == [x \in PaymentIds |-> IF payLock[x] = r THEN NoRequest ELSE payLock[x]]

(* initiate, verify and confirm_cod insist on a CONFIRMED order; they read *)
(* it without a lock.                                                      *)
Payable(o) == status[o] = "CONFIRMED"

-----------------------------------------------------------------------------
(* initiate.                                                               *)
BeginInitiate(r, o, m, k) ==
    /\ preq[r].pc = "new"
    /\ preq' = [preq EXCEPT ![r] =
         [@ EXCEPT !.pc = IF Payable(o) THEN "check" ELSE "failed",
                   !.order = o, !.method = m, !.key = k]]
    /\ UNCHANGED <<ordersVars, payTables, outcomes>>

(* successful_exists_for_order.                                            *)
CheckNoSuccess(r) ==
    /\ preq[r].pc = "check"
    /\ PayGoto(r, IF \E x \in PaymentIds : Succeeded(x) /\ pay[x].order = preq[r].order
                  THEN "failed"
                  ELSE IF preq[r].key = NoKey THEN "insert" ELSE "key")
    /\ UNCHANGED <<ordersVars, payTables, outcomes>>

KeyUsed(k) == k # NoKey /\ \E x \in stored : pay[x].key = k

(* get_by_idempotency_key: the payment of an earlier call is the answer.   *)
LookUpKey(r) ==
    /\ preq[r].pc = "key"
    /\ PayGoto(r, IF KeyUsed(preq[r].key) THEN "done" ELSE "insert")
    /\ UNCHANGED <<ordersVars, payTables, outcomes>>

(* The gateway is asked for an online payment; it may refuse.              *)
GatewayRefusesCreate(r) ==
    /\ preq[r].pc = "insert"
    /\ preq[r].method = "ONLINE"
    /\ PayGoto(r, "failed")
    /\ UNCHANGED <<ordersVars, payTables, outcomes>>

(* Fault: the unique index on the idempotency key is missing.              *)
InsertDuplicate(r) ==
    /\ preq[r].pc = "insert"
    /\ stored' = stored \cup {r}
    /\ pay' = [pay EXCEPT ![r] =
         [order |-> preq[r].order, method |-> preq[r].method,
          status |-> "CREATED", key |-> preq[r].key, ref |-> NoRef]]
    /\ PayGoto(r, "done")
    /\ UNCHANGED <<ordersVars, payLock, outcomes>>

(* The INSERT meets uq_payment_idempotency_key: the loser of a race finds  *)
(* and returns the winner's payment.                                       *)
InsertPayment(r) ==
    /\ preq[r].pc = "insert"
    /\ IF KeyUsed(preq[r].key)
       THEN UNCHANGED <<stored, pay>>
       ELSE /\ stored' = stored \cup {r}
            /\ pay' = [pay EXCEPT ![r] =
                 [order |-> preq[r].order, method |-> preq[r].method,
                  status |-> "CREATED", key |-> preq[r].key, ref |-> NoRef]]
    /\ PayGoto(r, "done")
    /\ UNCHANGED <<ordersVars, payLock, outcomes>>

-----------------------------------------------------------------------------
(* verify (method ONLINE, with the client's provider payment id ref) and   *)
(* confirm_cod (method COD).                                               *)
BeginVerify(r, x, m, ref) ==
    /\ preq[r].pc = "new"
    /\ m = "ONLINE" <=> ref \in Refs
    /\ preq' = [preq EXCEPT ![r] =
         [@ EXCEPT !.pc = IF x \in stored THEN "lock" ELSE "failed",
                   !.order = pay[x].order, !.payment = x, !.method = m, !.ref = ref]]
    /\ UNCHANGED <<ordersVars, payTables, outcomes>>

(* Fault: a plain SELECT.                                                  *)
ReadPaymentAtOnce(x) == x \in stored

PaymentUnlocked(x) == payLock[x] = NoRequest

(* Both lock the payment and look at its method and status: a wrong method *)
(* or a dead payment is refused, one that has succeeded is the answer.     *)
LockPayment(r) ==
    LET x == preq[r].payment IN
    /\ preq[r].pc = "lock"
    /\ PaymentUnlocked(x)
    /\ IF pay[x].method = preq[r].method /\ pay[x].status \in VERIFIABLE_FROM
       THEN PayGoto(r, "order") /\ payLock' = [payLock EXCEPT ![x] = r]
       ELSE /\ PayGoto(r, IF /\ pay[x].method = preq[r].method
                             /\ pay[x].status = "SUCCESS"
                          THEN "done" ELSE "failed")
            /\ UNCHANGED payLock
    /\ UNCHANGED <<ordersVars, stored, pay, outcomes>>

(* From here on the session keeps the order as it is read now.             *)
CheckOrder(r) ==
    /\ preq[r].pc = "order"
    /\ IF Payable(preq[r].order)
       THEN /\ preq' = [preq EXCEPT ![r] =
                 [@ EXCEPT !.pc = IF preq[r].method = "ONLINE"
                                  THEN "gateway" ELSE "flush",
                           !.seen = status[preq[r].order]]]
            /\ UNCHANGED payLock
       ELSE /\ PayGoto(r, "failed")
            /\ payLock' = PayReleased(r)
    /\ UNCHANGED <<ordersVars, stored, pay, outcomes>>

(* The gateway answers: an error or a timeout changes nothing, PENDING is  *)
(* recorded, a failure or a mismatching reference, amount or currency      *)
(* makes the payment FAILED, and a confirmed payment goes on to _succeed.  *)
GatewayFails(r) ==
    /\ preq[r].pc = "gateway"
    /\ PayGoto(r, "failed")
    /\ payLock' = PayReleased(r)
    /\ UNCHANGED <<ordersVars, stored, pay, outcomes>>

GatewayPending(r) ==
    /\ preq[r].pc = "gateway"
    /\ pay' = [pay EXCEPT ![preq[r].payment] = [@ EXCEPT !.status = "PENDING"]]
    /\ PayGoto(r, "done")
    /\ payLock' = PayReleased(r)
    /\ UNCHANGED <<ordersVars, stored, outcomes>>

GatewayRejects(r) ==
    /\ preq[r].pc = "gateway"
    /\ pay' = [pay EXCEPT ![preq[r].payment] = [@ EXCEPT !.status = "FAILED"]]
    /\ PayGoto(r, "publish")
    /\ payLock' = PayReleased(r)
    /\ UNCHANGED <<ordersVars, stored, outcomes>>

GatewayConfirms(r) ==
    /\ preq[r].pc = "gateway"
    /\ PayGoto(r, "flush")
    /\ UNCHANGED <<ordersVars, payTables, outcomes>>

(* Faults: either of the two unique indexes is missing.                    *)
SameRef(r, y) == y # preq[r].payment /\ preq[r].ref # NoRef /\ pay[y].ref = preq[r].ref
SameOrder(r, y) == y # preq[r].payment /\ pay[y].order = preq[r].order

(* r's payment may not succeed next to y: uq_payment_order_success and     *)
(* uq_payment_provider_payment_id.                                         *)
Collides(r, y) ==
    /\ y # preq[r].payment
    /\ \/ pay[y].order = preq[r].order
       \/ preq[r].ref # NoRef /\ pay[y].ref = preq[r].ref

(* Fault: transactions that are both about to flush wait for each other.   *)
MustWaitMutually(r) ==
    \E s \in PaymentRequests \ {r} :
        /\ preq[s].pc \in {"flush", "commit"}
        /\ preq[s].order = preq[r].order

(* Another transaction has flushed a colliding success and not ended yet.  *)
MustWait(r) ==
    \E s \in PaymentRequests \ {r} :
        /\ preq[s].pc = "commit"
        /\ \/ preq[s].order = preq[r].order
           \/ preq[r].ref # NoRef /\ preq[s].ref = preq[r].ref

(* Fault: SUCCESS is committed on its own, before the order is paid.       *)
CommitSuccessFirst(r) ==
    /\ preq[r].pc = "flush"
    /\ ~MustWait(r)
    /\ IF \E y \in PaymentIds : Succeeded(y) /\ Collides(r, y)
       THEN PayGoto(r, "failed") /\ UNCHANGED pay
       ELSE /\ PayGoto(r, "commit")
            /\ pay' = [pay EXCEPT ![preq[r].payment] =
                         [@ EXCEPT !.status = "SUCCESS", !.ref = preq[r].ref]]
    /\ payLock' = PayReleased(r)
    /\ UNCHANGED <<ordersVars, stored, outcomes>>

(* _succeed flushes SUCCESS; the unique indexes wait for a colliding       *)
(* transaction and refuse a colliding row.                                 *)
FlushSuccess(r) ==
    /\ preq[r].pc = "flush"
    /\ ~MustWait(r)
    /\ IF \E y \in PaymentIds : Succeeded(y) /\ Collides(r, y)
       THEN /\ PayGoto(r, "failed")
            /\ payLock' = PayReleased(r)
       ELSE /\ PayGoto(r, "commit")
            /\ UNCHANGED payLock
    /\ UNCHANGED <<ordersVars, stored, pay, outcomes>>

(* transition(PAY) looks the rule up for the status its session has seen;  *)
(* one commit makes SUCCESS and the order's new status visible together.   *)
(* Without a rule it refuses, and everything is rolled back.               *)
PayRules(seen) == {rule \in TRANSITIONS : rule.from = seen /\ rule.event = "PAY"}

CommitSuccess(r) ==
    /\ preq[r].pc = "commit"
    /\ IF PayRules(preq[r].seen) = {}
       THEN /\ PayGoto(r, "failed")
            /\ UNCHANGED <<pay, status>>
       ELSE /\ PayGoto(r, "publish")
            /\ pay' = [pay EXCEPT ![preq[r].payment] =
                         [@ EXCEPT !.status = "SUCCESS", !.ref = preq[r].ref]]
            /\ \E rule \in PayRules(preq[r].seen) :
                 status' = [status EXCEPT ![preq[r].order] = rule.to]
    /\ payLock' = PayReleased(r)
    /\ UNCHANGED <<invVars, taken, lifecycle, ord, stored, outcomes>>

PublishPayment(r) ==
    LET x == preq[r].payment IN
    /\ preq[r].pc = "publish"
    /\ outcomes' = outcomes \cup
         {[event |-> IF pay[x].status = "SUCCESS" THEN "PaymentSucceeded"
                                                  ELSE "PaymentFailed",
           payment |-> x]}
    /\ PayGoto(r, "done")
    /\ UNCHANGED <<ordersVars, payTables>>

CrashPayment(r) ==
    /\ preq[r].pc \notin Finished \cup {"new"}
    /\ PayGoto(r, "crashed")
    /\ payLock' = PayReleased(r)
    /\ UNCHANGED <<ordersVars, stored, pay, outcomes>>

-----------------------------------------------------------------------------
BeginPayment(r) ==
    \/ \E o \in OrderIds, m \in Method, k \in Keys \cup {NoKey} :
         BeginInitiate(r, o, m, k)
    \/ \E x \in PaymentIds, m \in Method, ref \in Refs \cup {NoRef} :
         BeginVerify(r, x, m, ref)

ContinuePayment(r) ==
    \/ CheckNoSuccess(r) \/ LookUpKey(r) \/ GatewayRefusesCreate(r) \/ InsertPayment(r)
    \/ LockPayment(r) \/ CheckOrder(r)
    \/ GatewayFails(r) \/ GatewayPending(r) \/ GatewayRejects(r) \/ GatewayConfirms(r)
    \/ FlushSuccess(r) \/ CommitSuccess(r) \/ PublishPayment(r)

PayNext ==
    \E r \in PaymentRequests : BeginPayment(r) \/ ContinuePayment(r) \/ CrashPayment(r)

PayQuiet == \A r \in PaymentRequests : preq[r].pc \in Finished

Next ==
    \/ AdjNext /\ UNCHANGED <<ordVars, payVars>>
    \/ OrdNext /\ UNCHANGED payVars
    \/ PayNext
    \/ AdjQuiet /\ OrdQuiet /\ PayQuiet /\ UNCHANGED vars

Spec == Init /\ [][Next]_vars

-----------------------------------------------------------------------------
(* Between the FOR UPDATE of a payment and the end of the transaction the  *)
(* payment belongs to one request and is still unsettled; every way out of *)
(* verify and confirm_cod gives the lock back.                             *)
Holding == {"order", "gateway", "flush", "commit"}

PaymentLockDiscipline ==
    /\ \A r \in PaymentRequests :
        preq[r].pc \in Holding =>
            /\ preq[r].payment \in stored
            /\ payLock[preq[r].payment] = r
            /\ pay[preq[r].payment].order = preq[r].order
            /\ pay[preq[r].payment].status \in VERIFIABLE_FROM
    /\ \A x \in PaymentIds :
        payLock[x] # NoRequest =>
            preq[payLock[x]].pc \in Holding /\ preq[payLock[x]].payment = x

(* No order is paid for twice: two attempts that the gateway confirms at   *)
(* the same time, or an online payment and cash, cannot both succeed.      *)
OneSuccessPerOrder ==
    \A x, y \in PaymentIds :
        Succeeded(x) /\ Succeeded(y) /\ pay[x].order = pay[y].order => x = y

(* One gateway payment settles at most one of our payments, also when two  *)
(* verifications, of two orders, present its id at the same time.          *)
RefBacksOnePayment ==
    \A x, y \in PaymentIds :
        Succeeded(x) /\ Succeeded(y) /\ pay[x].ref = pay[y].ref /\ pay[x].ref # NoRef
            => x = y

(* An idempotency key names one payment, however many calls with it race.  *)
KeyNamesOnePayment ==
    \A x, y \in stored : pay[x].key = pay[y].key /\ pay[x].key # NoKey => x = y

(* Goods never move on without money: an order that is PAID, or was packed,*)
(* shipped, delivered or completed after that, has a successful payment.   *)
PaidOrdersHaveMoney ==
    \A o \in OrderIds :
        status[o] \in PaidStates => \E x \in PaymentIds : Succeeded(x) /\ pay[x].order = o

(* A settled payment is never reopened: neither a duplicate callback nor a *)
(* late answer of the gateway changes a SUCCESS, FAILED or CANCELLED.      *)
SettledIsFinal ==
    [][\A x \in stored : pay[x].status \in TERMINAL => pay'[x] = pay[x]]_vars

-----------------------------------------------------------------------------
(* The requests about an order that are under way.                         *)
AboutOrder(o) ==
    {r \in OrderRequests :
        ord[r].pc \notin Finished \cup {"new"} /\ ord[r].order = o}
    \cup
    {r \in PaymentRequests :
        preq[r].pc \notin Finished \cup {"new"} /\ preq[r].order = o}

(* A transition overlaps no other request about its order.  Payments of    *)
(* one order may overlap each other, and requests about different orders   *)
(* and stock adjustments interleave freely.                                *)
TransitionsAlone ==
    \A o \in OrderIds : \A r \in AboutOrder(o) \cap OrderRequests, s \in AboutOrder(o) : r = s

(* The orders with a successful payment.                                   *)
PaidFor == {o \in OrderIds : \E x \in PaymentIds : Succeeded(x) /\ pay[x].order = o}

(* Whatever overlaps, the modules keep the promise the invoices rely on.   *)
Promise == INSTANCE PaidOrders WITH paid <- PaidFor

PromiseSpec == Promise!Spec

Life == INSTANCE OrderLifecycle WITH paid <- PaidFor

(* As long as transitions overlap no other request about their order, the  *)
(* modules implement the atomic lifecycle: the unique indexes are enough   *)
(* for the payments of one order, and the row locks on stock and the       *)
(* payment transaction for everything that different orders share.         *)
LifecycleSpec == Life!Spec

(* An order's lines are missing from stock exactly once while it is        *)
(* confirmed or later, and not at all when it is cancelled.  The docstring *)
(* of OrderService says that the transition table makes double restoration *)
(* impossible; two overlapping cancellations break it.                     *)
StockHeldOnce == Life!StockHeldOnce

(* Money is taken for an order exactly if the order is PAID or later.  The *)
(* payment design says that PAID and SUCCESS are atomic and that only a    *)
(* CONFIRMED order can be paid; a cancellation that overlaps breaks it.    *)
MoneyMatchesStatus == Life!PaidMeansMoney
=============================================================================
