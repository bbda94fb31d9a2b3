---------------------------- MODULE PayPalBilling ----------------------------
(***************************************************************************)
(* One organization's PayPal subscriptions: the rows the application keeps *)
(* (app/domain/subscriptions.py, app/api/v1/billing.py, the subscription   *)
(* routes of organizations.py and admin.py, the expiry loop of main.py),   *)
(* PayPal's own state, and the webhooks between the two.                   *)
(*                                                                         *)
(* PayPal delivers a webhook at least once: again after any answer but     *)
(* 200, late, and in any order.  So an event once sent may be received in  *)
(* any later state, any number of times.                                   *)
(*                                                                         *)
(* A request loads its rows, calls PayPal, and commits one transaction;    *)
(* other requests come between.  A request that fails writes nothing, but  *)
(* what it had PayPal do stays done.                                       *)
(***************************************************************************)
EXTENDS Organization, Sequences

CONSTANTS
  Workers,      \* requests in flight at once
  MaxSubs,      \* bound of the model on checkouts
  MaxSales,     \* bound of the model on the charges of one subscription
  MaxRefunds    \* bound of the model on refunds asked for

ASSUME BillingAssumption ==
  /\ MaxSubs \in Nat
  /\ MaxSales \in Nat
  /\ MaxRefunds \in Nat
  /\ None \notin {"approval_pending", "active", "past_due", "canceled"} \cup Plans

VARIABLES
  subs,         \* rows of billing_subscriptions, by created_at
  payments,     \* rows of billing_payments, by created_at
  refunds,      \* rows of billing_refunds, by created_at
  audit,        \* subscriptions with an audit event "..._cancel_failed"
  paypal,       \* the status of each subscription at PayPal
  returned,     \* the charges of which PayPal has accepted a refund
  events,       \* the webhooks PayPal has sent
  pending,      \* what each request holds in memory
  activated,    \* history: subscriptions whose ACTIVATED has been committed
  setBy,        \* history: who wrote org's plan and status last
  overlapped    \* history: two requests have been in flight at once

store == <<org, subs, payments, refunds, audit>>
outside == <<paypal, returned, events>>
history == <<activated, setBy, overlapped>>
billingVars == <<org, subs, payments, refunds, audit, paypal, returned, events,
                 pending, activated, setBy, overlapped>>

Sub == 1..MaxSubs
Sale == Sub \X (1..MaxSales)

RowStatus == {"approval_pending", "active", "past_due", "canceled"}
Live == {"active", "past_due"}        \* "suspended" is never assigned
PaymentStatus == {"completed", "refunded", "partially_refunded"}

Exists(s) == s <= Len(subs)
IsLive(s) == Exists(s) /\ subs[s].status \in Live

\* Mutant: the organization's current subscription is not looked for.
NoNewer(s) == FALSE
HasNewerLive(s) == \E t \in Sub : t > s /\ IsLive(t)

About(type, s) == [type |-> type, sub |-> s, sale |-> None]
OfSale(type, sale) == [type |-> type, sub |-> sale[1], sale |-> sale]

Event == [type : {"ACTIVATED", "CANCELLED", "FAILED"}, sub : Sub, sale : {None}]
         \cup [type : {"COMPLETED", "REFUNDED"}, sub : Sub, sale : Sale]

------------------------------------------------------------------------------
(* A request in memory: the columns of org and the statuses of rows it will *)
(* write, the subscriptions it still has to cancel at PayPal, whether it    *)
(* gives up when PayPal refuses, the payment it inserts, the payment it     *)
(* marks, the refund it asks for, the cancellations it has to audit, and    *)
(* (for the histories) whose ACTIVATED it is and who is writing.            *)

NoWork ==
  [ at |-> "idle", org |-> NoUpdate, rows |-> [s \in Sub |-> None], cancel |-> {},
    strict |-> FALSE, sale |-> None, mark |-> None, refund |-> None, audit |-> {},
    activates |-> {}, by |-> None ]

Request == [NoWork EXCEPT !.at = "working"]

\* The statuses an UPDATE names when subscription s moves to st.
RowTo(s, st) == [t \in Sub |-> IF t = s /\ subs[t].status # st THEN st ELSE None]

Begin(w, request) ==
  /\ pending[w] = NoWork
  /\ pending' = [pending EXCEPT ![w] = request]
  /\ overlapped' = (overlapped \/ \E v \in Workers : pending[v] # NoWork)
  /\ UNCHANGED <<store, outside, activated, setBy>>

Webhook(rows, columns) ==
  [Request EXCEPT !.rows = rows, !.org = Dirty(columns), !.by = "webhook"]

Quiet(rows) == [Request EXCEPT !.rows = rows]

Canceled == [NoUpdate EXCEPT !.subscription_status = "canceled", !.grace_period_ends_at = "set"]
Onto(s) == [NoUpdate EXCEPT !.plan = subs[s].plan, !.subscription_status = "active"]

\* Mutant: nothing is canceled.
NoneSuperseded(s) == {}
Superseded(s) == {t \in Sub \ {s} : IsLive(t)}

\* BILLING.SUBSCRIPTION.ACTIVATED: the organization moves onto s and its other
\* live subscriptions are canceled, unless it has moved on from s already.
ReceiveActivated(w, s) ==
  /\ About("ACTIVATED", s) \in events
  /\ IF HasNewerLive(s)
     THEN Begin(w, [Quiet(RowTo(s, "active")) EXCEPT !.cancel = {s}, !.activates = {s}])
     ELSE Begin(w, [Webhook(RowTo(s, "active"), [Onto(s) EXCEPT !.grace_period_ends_at = "unset"])
                      EXCEPT !.cancel = Superseded(s), !.activates = {s}])

\* BILLING.SUBSCRIPTION.CANCELLED
ReceiveCancelled(w, s) ==
  /\ About("CANCELLED", s) \in events
  /\ Begin(w, IF HasNewerLive(s) THEN Quiet(RowTo(s, "canceled"))
              ELSE Webhook(RowTo(s, "canceled"), Canceled))

\* BILLING.SUBSCRIPTION.PAYMENT.FAILED
ReceiveFailed(w, s) ==
  /\ About("FAILED", s) \in events
  /\ subs[s].status # "canceled"
  /\ Begin(w, IF HasNewerLive(s) THEN Quiet(RowTo(s, "past_due"))
              ELSE Webhook(RowTo(s, "past_due"),
                           [NoUpdate EXCEPT !.subscription_status = "past_due"]))

\* Mutant: the row of a canceled subscription is not looked at.
PaysFor(s) == ~HasNewerLive(s)
KeepsUp(s) == subs[s].status # "canceled" /\ ~HasNewerLive(s)

\* PAYMENT.SALE.COMPLETED: the payment is recorded once; the organization
\* follows the subscription unless that one is canceled or superseded.
ReceiveCompleted(w, sale) ==
  /\ OfSale("COMPLETED", sale) \in events
  /\ \A i \in DOMAIN payments : payments[i].sale # sale
  /\ Begin(w, [ (IF KeepsUp(sale[1]) THEN Webhook(RowTo(sale[1], "active"), Onto(sale[1]))
                                     ELSE Request) EXCEPT !.sale = sale ])

\* PAYMENT.SALE.REFUNDED
ReceiveRefunded(w, sale) ==
  /\ OfSale("REFUNDED", sale) \in events
  /\ \E i \in DOMAIN payments :
       /\ payments[i].sale = sale
       /\ Begin(w, [Request EXCEPT !.mark = [row |-> i, status |-> "partially_refunded"]])

------------------------------------------------------------------------------
(* Requests of the owner, of a platform admin, and the expiry loop *)

\* start_paypal_subscription: PayPal creates the subscription and the row is
\* inserted; nobody can approve it before this request has answered.
StartSubscription(p) ==
  /\ Len(subs) < MaxSubs
  /\ subs' = Append(subs, [status |-> "approval_pending", plan |-> p])
  /\ paypal' = [paypal EXCEPT ![Len(subs) + 1] = "pending"]
  /\ UNCHANGED <<org, payments, refunds, audit, returned, events, pending, history>>

\* cancel_subscription: the newest row that is pending or live, and the organization.
Cancelable(s) == Exists(s) /\ subs[s].status # "canceled"
NewestCancelable == {s \in Sub : Cancelable(s) /\ \A t \in Sub : t > s => ~Cancelable(t)}

CancelSubscription(w) ==
  Begin(w, [Request EXCEPT !.cancel = NewestCancelable, !.strict = TRUE,
                           !.org = Dirty(Canceled), !.by = "owner"])

\* switch_plan
SwitchPlan(w, p) ==
  /\ org.subscription_status # "canceled"
  /\ p # org.plan
  /\ Begin(w, [Request EXCEPT !.org = [NoUpdate EXCEPT !.plan = p], !.by = "owner"])

\* update_subscription of a platform admin: any of plan, status and last day.
UpdateSubscription(w, p, st, until) ==
  /\ <<p, st, until>> # <<None, None, None>>
  /\ Begin(w, [Request EXCEPT !.by = "admin",
       !.org = Dirty([NoUpdate EXCEPT !.plan = p, !.subscription_status = st,
                                      !.plan_expires_at = until])])

\* revert_expired_plans
RevertExpiredPlan(w) ==
  /\ org.plan_expires_at = "passed"
  /\ Begin(w, [Request EXCEPT !.by = "loop",
       !.org = Dirty([NoUpdate EXCEPT !.plan = Starter, !.plan_expires_at = "unset"])])

\* latest_refundable_payment
Refundable(i) == payments[i].status # "refunded"
Latest(i) == Refundable(i) /\ \A j \in DOMAIN payments : Refundable(j) => j <= i

\* create_prorated_refund: the unused part of the latest payment, which is
\* the whole of it only at the very start of its period.
StartRefund(w, whole) ==
  /\ Len(refunds) < MaxRefunds
  /\ \E i \in DOMAIN payments :
       /\ Latest(i)
       /\ Begin(w, [Request EXCEPT
            !.mark = [row |-> i, status |-> IF whole THEN "refunded" ELSE "partially_refunded"],
            !.refund = [sale |-> payments[i].sale, status |-> "pending"]])

------------------------------------------------------------------------------
(* Calls to PayPal, and the end of a request *)

\* A call may be refused, or done with its answer lost.
Answer == {"done", "refused", "lost"}

AtPayPal(s, answer) ==
  IF answer = "refused" THEN UNCHANGED <<paypal, events>>
  ELSE /\ paypal' = [paypal EXCEPT ![s] = "canceled"]
       /\ events' = IF paypal[s] = "active" THEN events \cup {About("CANCELLED", s)} ELSE events

\* Mutant: the row is marked whatever PayPal says.
AlwaysMarked(request, s, answer) ==
  [request EXCEPT !.cancel = @ \ {s}, !.rows[s] = "canceled"]

\* _cancel_superseded_subscription
AfterCancel(request, s, answer) ==
  IF answer = "done"
  THEN [request EXCEPT !.cancel = @ \ {s}, !.rows[s] = "canceled"]
  ELSE IF request.strict THEN NoWork
  ELSE [request EXCEPT !.cancel = @ \ {s}, !.audit = @ \cup {s}]

CallCancel(w, s, answer) ==
  /\ s \in pending[w].cancel
  /\ AtPayPal(s, answer)
  /\ pending' = [pending EXCEPT ![w] = AfterCancel(@, s, answer)]
  /\ UNCHANGED <<store, returned, history>>

\* Mutant: the answer's status is not looked at.
RefundAssumed(answer) == "completed"
\* The refund's status from the answer: COMPLETED and PENDING are an accepted
\* refund; "refused" is an answer that says FAILED or CANCELLED (a call that
\* answers with an error ends the request, as Abort).
RefundStatus(answer) == IF answer = "done" THEN "completed" ELSE "failed"

CallRefund(w, answer) ==
  /\ pending[w].refund # None
  /\ pending[w].refund.status = "pending"
  /\ IF answer = "refused" THEN UNCHANGED <<returned, events>>
     ELSE /\ returned' = returned \cup {pending[w].refund.sale}
          /\ events' = events \cup {OfSale("REFUNDED", pending[w].refund.sale)}
  /\ pending' = [pending EXCEPT ![w] = IF answer = "lost" THEN NoWork
                   ELSE [@ EXCEPT !.refund.status = RefundStatus(answer)]]
  /\ UNCHANGED <<store, paypal, history>>

Called(w) == pending[w].cancel = {} /\ (pending[w].refund # None => pending[w].refund.status # "pending")

\* Mutant: the table has no unique constraint.
AnyPayment(sale) == TRUE
\* uq_payment_provider_id
Unrecorded(sale) == \A i \in DOMAIN payments : payments[i].sale # sale

Commit(w) ==
  LET p == pending[w] IN
  /\ p # NoWork
  /\ Called(w)
  /\ p.sale # None => Unrecorded(p.sale)
  /\ org' = Written(p.org)
  /\ subs' = [s \in DOMAIN subs |->
                IF p.rows[s] = None THEN subs[s] ELSE [subs[s] EXCEPT !.status = p.rows[s]]]
  /\ LET marked == IF p.mark = None THEN payments
                   ELSE [payments EXCEPT ![p.mark.row].status = p.mark.status]
     IN payments' = IF p.sale = None THEN marked
                    ELSE Append(marked, [sale |-> p.sale, status |-> "completed"])
  /\ refunds' = IF p.refund = None THEN refunds ELSE Append(refunds, p.refund)
  /\ audit' = audit \cup p.audit
  /\ activated' = activated \cup p.activates
  /\ setBy' = [c \in DOMAIN setBy |-> IF p.org[c] = None THEN setBy[c] ELSE p.by]
  /\ pending' = [pending EXCEPT ![w] = NoWork]
  /\ UNCHANGED <<outside, overlapped>>

\* The request fails before its commit: an error, or the process dies.
Abort(w) ==
  /\ pending[w] # NoWork
  /\ pending' = [pending EXCEPT ![w] = NoWork]
  /\ UNCHANGED <<store, outside, history>>

------------------------------------------------------------------------------
(* PayPal and the clock *)

Sends(e) ==
  /\ events' = events \cup {e}
  /\ UNCHANGED <<store, returned, pending, history>>

PayerApproves(s) ==
  /\ paypal[s] = "pending"
  /\ paypal' = [paypal EXCEPT ![s] = "active"]
  /\ Sends(About("ACTIVATED", s))

\* The payer cancels at PayPal, or PayPal does after failed payments.
PayPalCancels(s) ==
  /\ paypal[s] = "active"
  /\ paypal' = [paypal EXCEPT ![s] = "canceled"]
  /\ Sends(About("CANCELLED", s))

Charge(sale) ==
  /\ paypal[sale[1]] = "active"
  /\ OfSale("COMPLETED", sale) \notin events
  /\ UNCHANGED paypal
  /\ Sends(OfSale("COMPLETED", sale))

ChargeFails(s) ==
  /\ paypal[s] = "active"
  /\ UNCHANGED paypal
  /\ Sends(About("FAILED", s))

\* The last day of a granted plan passes.
GrantLapses ==
  /\ org.plan_expires_at = "ahead"
  /\ org' = [org EXCEPT !.plan_expires_at = "passed"]
  /\ UNCHANGED <<subs, payments, refunds, audit, outside, pending, history>>

------------------------------------------------------------------------------

BillingInit ==
  /\ org = NewOrganization
  /\ subs = <<>>
  /\ payments = <<>>
  /\ refunds = <<>>
  /\ audit = {}
  /\ paypal = [s \in Sub |-> "none"]
  /\ returned = {}
  /\ events = {}
  /\ pending = [w \in Workers |-> NoWork]
  /\ activated = {}
  /\ setBy = [c \in {"plan", "subscription_status"} |-> "owner"]
  /\ overlapped = FALSE

Deliver(w) ==
  \/ \E s \in Sub : ReceiveActivated(w, s) \/ ReceiveCancelled(w, s) \/ ReceiveFailed(w, s)
  \/ \E sale \in Sale : ReceiveCompleted(w, sale) \/ ReceiveRefunded(w, sale)

Manage(w) ==
  \/ CancelSubscription(w)
  \/ \E p \in Plans : SwitchPlan(w, p)
  \/ \E p \in Plans \cup {None}, st \in SubscriptionStatus \cup {None}, until \in {"ahead", None} :
       UpdateSubscription(w, p, st, until)
  \/ RevertExpiredPlan(w)

Refund(w) == \E whole \in BOOLEAN : StartRefund(w, whole)

Proceed(w) ==
  \/ \E s \in Sub, answer \in Answer : CallCancel(w, s, answer)
  \/ \E answer \in Answer : CallRefund(w, answer)
  \/ Commit(w)
  \/ Abort(w)

Environment ==
  \/ \E p \in Paid : StartSubscription(p)
  \/ \E s \in Sub : PayerApproves(s) \/ PayPalCancels(s) \/ ChargeFails(s)
  \/ \E sale \in Sale : Charge(sale)
  \/ GrantLapses

BillingNext ==
  \/ \E w \in Workers : Deliver(w) \/ Manage(w) \/ Refund(w) \/ Proceed(w)
  \/ Environment

BillingSpec == BillingInit /\ [][BillingNext]_billingVars

------------------------------------------------------------------------------

UpdateRecord ==
  [ at : {"idle", "working"}, org : OrganizationUpdate, rows : [Sub -> RowStatus \cup {None}],
    cancel : SUBSET Sub, strict : BOOLEAN, sale : Sale \cup {None},
    mark : [row : Nat \ {0}, status : PaymentStatus] \cup {None},
    refund : [sale : Sale, status : {"pending", "completed", "failed"}] \cup {None},
    audit : SUBSET Sub, activates : SUBSET Sub, by : {"webhook", "owner", "admin", "loop", None} ]

\* The types; a subscription PayPal has not been asked for has no row.
BillingTypeOK ==
  /\ org \in OrganizationRow
  /\ subs \in Seq([status : RowStatus, plan : Paid]) /\ Len(subs) <= MaxSubs
  /\ payments \in Seq([sale : Sale, status : PaymentStatus])
  /\ refunds \in Seq([sale : Sale, status : {"completed", "failed"}])
  /\ audit \subseteq Sub
  /\ paypal \in [Sub -> {"none", "pending", "active", "canceled"}]
  /\ returned \subseteq Sale
  /\ events \subseteq Event
  /\ pending \in [Workers -> UpdateRecord]
  /\ activated \subseteq Sub
  /\ setBy \in [{"plan", "subscription_status"} -> {"webhook", "owner", "admin", "loop"}]
  /\ overlapped \in BOOLEAN

\* A row says "canceled" only of a subscription PayPal no longer charges: a
\* cancellation PayPal refused, or whose answer was lost, must not be written
\* down (_cancel_superseded_subscription, cancel_subscription), nor a webhook
\* taken for one.
CanceledAtPayPal ==
  \A s \in DOMAIN subs : subs[s].status = "canceled" => paypal[s] = "canceled"

\* A charge is one payment, however often its webhook comes and whoever else is
\* handling it: a refund is computed from one row (uq_payment_provider_id).
OnePaymentPerSale ==
  \A i, j \in DOMAIN payments : payments[i].sale = payments[j].sale => i = j

\* A refund recorded as completed is one that PayPal has accepted; one that it
\* answers as failed is recorded as failed (create_prorated_refund).
CompletedRefundsAreReal ==
  \A i \in DOMAIN refunds : refunds[i].status = "completed" => refunds[i].sale \in returned

\* Two activated subscriptions that both charge the customer are a failed
\* cancellation, of which the audit log tells: the webhook of either cancels the
\* other, and says so when PayPal refuses.  Of requests that come one by one.
DoubleBillingIsAudited ==
  ~overlapped =>
    \A s, t \in activated : s < t /\ IsLive(s) /\ IsLive(t) => s \in audit \/ t \in audit

\* No later checkout has come to anything.
Undisputed(s) == IsLive(s) /\ \A t \in Sub : t > s /\ Exists(t) => subs[t].status = "approval_pending"

\* Webhooks, in whatever order they come, leave the organization with the plan
\* and the status of its newest live subscription, as long as nobody else has
\* written them (apply_paypal_webhook).  Of requests that come one by one.
OrganizationFollowsNewest ==
  ~overlapped =>
    \A s \in activated : Undisputed(s) =>
      /\ setBy.plan = "webhook" => org.plan = subs[s].plan
      /\ setBy.subscription_status = "webhook" => org.subscription_status = subs[s].status

\* The payment of a canceled or superseded subscription is recorded and changes
\* nothing of the organization: no canceled customer is revived by the webhook of
\* an old charge.  Of requests that come one by one.
LatePaymentKeepsPlan ==
  [][ ~overlapped' /\ Len(payments') > Len(payments) =>
        LET s == payments'[Len(payments')].sale[1]
        IN subs[s].status = "canceled" \/ HasNewerLive(s) => org' = org ]_billingVars

\* What the owner is told: canceling stops new sessions, and it takes support to
\* reactivate the subscription (cancel_subscription).  The code cancels only the
\* newest pending or live row: an older one that was live goes on charging, and
\* its next payment takes the canceled organization back.  Of requests that come
\* one by one.
CancellationHolds ==
  [][ /\ ~overlapped'
      /\ setBy.subscription_status = "owner" /\ org.subscription_status = "canceled"
      /\ Len(payments') > Len(payments)
      /\ IsLive(payments'[Len(payments')].sale[1])
      => org' = org ]_billingVars
==============================================================================
