-------------------------- MODULE PayPalBillingProofs --------------------------
(***************************************************************************)
(* Theorems about PayPalBilling, for any number of requests at the same    *)
(* time, of checkouts, charges and refunds.  The argument: what PayPal has *)
(* done it never takes back (a canceled subscription stays canceled, money *)
(* returned stays returned), so what a request learnt before its commit    *)
(* still holds at its commit.  Of requests that come one by one, what a    *)
(* request promises of the store it will leave holds whatever its          *)
(* remaining calls come to.                                                *)
(***************************************************************************)
EXTENDS PayPalBilling, FiniteSums, TLAPS

Actor == {"webhook", "owner", "admin", "loop"}

\* A subscription without a row is unknown to PayPal, and nothing was sent of
\* it; a cancellation is sent when it has happened.
PayPalKnows ==
  /\ \A s \in Sub : s > Len(subs) => paypal[s] = "none"
  /\ \A e \in events :
       /\ e.type # "REFUNDED" => e.sub <= Len(subs)
       /\ e.type = "CANCELLED" => paypal[e.sub] = "canceled"

\* What a request in memory may say.
Learnt(r) ==
  /\ \A s \in r.cancel : s <= Len(subs)
  /\ \A s \in Sub : r.rows[s] = "canceled" => paypal[s] = "canceled"
  /\ r.refund # None /\ r.refund.status = "completed" => r.refund.sale \in returned
  /\ r.by \in Actor \/ (r.org.plan = None /\ r.org.subscription_status = None)

BillingInv ==
  /\ BillingTypeOK
  /\ PayPalKnows
  /\ \A w \in Workers : Learnt(pending[w])
  /\ CanceledAtPayPal
  /\ OnePaymentPerSale
  /\ CompletedRefundsAreReal

------------------------------------------------------------------------------

LEMMA ConstantFacts ==
  /\ MaxSubs \in Nat /\ Sub = 1..MaxSubs /\ Sub \subseteq Nat
  /\ None \notin RowStatus
BY BillingAssumption DEF Sub, RowStatus

\* A request that names no column and no row.
LEMMA NoWorkTyped ==
  /\ NoUpdate \in OrganizationUpdate
  /\ NoWork \in UpdateRecord /\ Request \in UpdateRecord
  /\ \A s \in Sub : NoWork.rows[s] = None /\ Request.rows[s] = None
  /\ NoWork.cancel = {} /\ NoWork.refund = None /\ NoWork.org = NoUpdate
  /\ Request.cancel = {} /\ Request.refund = None /\ Request.org = NoUpdate
<1>1. NoUpdate \in OrganizationUpdate
  BY DEF NoUpdate, OrganizationUpdate
<1> QED BY <1>1 DEF NoWork, Request, UpdateRecord

LEMMA NothingLearnt == Learnt(NoWork)
BY NoWorkTyped, ConstantFacts DEF Learnt, RowStatus, NoUpdate

LEMMA RequestLearnt == Learnt(Request)
BY NoWorkTyped, ConstantFacts DEF Learnt, RowStatus, NoUpdate

LEMMA BillingInvInit == BillingInit => BillingInv
<1> SUFFICES ASSUME BillingInit PROVE BillingInv
  OBVIOUS
<1>1. org \in OrganizationRow
  BY DEF BillingInit, NewOrganization, OrganizationRow, Plans, SubscriptionStatus
<1>2. BillingTypeOK
  <2>1. /\ subs \in Seq([status : RowStatus, plan : Paid]) /\ Len(subs) <= MaxSubs
        /\ payments \in Seq([sale : Sale, status : PaymentStatus])
        /\ refunds \in Seq([sale : Sale, status : {"completed", "failed"}])
    BY ConstantFacts DEF BillingInit
  <2>2. /\ audit \subseteq Sub /\ returned \subseteq Sale /\ events \subseteq Event
        /\ activated \subseteq Sub /\ overlapped \in BOOLEAN
        /\ paypal \in [Sub -> {"none", "pending", "active", "canceled"}]
        /\ setBy \in [{"plan", "subscription_status"} -> {"webhook", "owner", "admin", "loop"}]
    BY DEF BillingInit
  <2>3. pending \in [Workers -> UpdateRecord]
    BY NoWorkTyped DEF BillingInit
  <2> QED BY <1>1, <2>1, <2>2, <2>3 DEF BillingTypeOK
<1>3. PayPalKnows /\ CanceledAtPayPal /\ OnePaymentPerSale /\ CompletedRefundsAreReal
  BY DEF BillingInit, PayPalKnows, CanceledAtPayPal, OnePaymentPerSale, CompletedRefundsAreReal
<1>4. ASSUME NEW w \in Workers PROVE Learnt(pending[w])
  BY <1>4, NothingLearnt DEF BillingInit
<1> QED BY <1>2, <1>3, <1>4 DEF BillingInv

------------------------------------------------------------------------------
(* A request begins *)

\* The columns an UPDATE names are those of the request, or none.
LEMMA DirtyTyped ==
  ASSUME org \in OrganizationRow, NEW w \in OrganizationUpdate
  PROVE  Dirty(w) \in OrganizationUpdate
<1>1. DOMAIN w = {"plan", "subscription_status", "grace_period_ends_at", "plan_expires_at"}
  BY DEF OrganizationUpdate
<1>2. \A c \in DOMAIN w : Dirty(w)[c] = w[c] \/ Dirty(w)[c] = None
  BY DEF Dirty
<1>3. Dirty(w) = [c \in DOMAIN w |-> Dirty(w)[c]]
  BY DEF Dirty
<1> QED BY <1>1, <1>2, <1>3 DEF OrganizationUpdate

\* Only a status that differs is written.
LEMMA RowToTyped ==
  ASSUME NEW s, NEW st \in RowStatus
  PROVE  /\ RowTo(s, st) \in [Sub -> RowStatus \cup {None}]
         /\ \A t \in Sub : RowTo(s, st)[t] = "canceled" => t = s /\ st = "canceled"
BY ConstantFacts DEF RowTo, RowStatus

LEMMA BeginOK ==
  ASSUME BillingInv, NEW w \in Workers, NEW r \in UpdateRecord, Begin(w, r), Learnt(r)
  PROVE  BillingInv'
<1>1. /\ UNCHANGED <<org, subs, payments, refunds, audit, paypal, returned, events, activated, setBy>>
      /\ pending' = [pending EXCEPT ![w] = r]
      /\ overlapped' \in BOOLEAN
  BY DEF Begin, store, outside, BillingInv, BillingTypeOK
<1>2. BillingTypeOK'
  BY <1>1 DEF BillingInv, BillingTypeOK
<1>3. PayPalKnows' /\ CanceledAtPayPal' /\ OnePaymentPerSale' /\ CompletedRefundsAreReal'
  BY <1>1 DEF BillingInv, PayPalKnows, CanceledAtPayPal, OnePaymentPerSale, CompletedRefundsAreReal
<1>4. ASSUME NEW v \in Workers PROVE Learnt(pending[v])'
  <2>1. PICK p : p = pending'[v]
    OBVIOUS
  <2>2. Learnt(p)
    BY <1>1, <2>1 DEF BillingInv, BillingTypeOK
  <2> QED BY <1>1, <2>1, <2>2 DEF Learnt
<1> QED BY <1>2, <1>3, <1>4 DEF BillingInv

\* What a request of a webhook says, from the row and the columns it writes.
LEMMA WebhookTyped ==
  ASSUME BillingInv, NEW rows \in [Sub -> RowStatus \cup {None}],
         NEW columns \in OrganizationUpdate,
         \A s \in Sub : rows[s] = "canceled" => paypal[s] = "canceled"
  PROVE  /\ Webhook(rows, columns) \in UpdateRecord /\ Learnt(Webhook(rows, columns))
         /\ Webhook(rows, columns).cancel = {}
         /\ Quiet(rows) \in UpdateRecord /\ Learnt(Quiet(rows))
         /\ Quiet(rows).cancel = {}
<1>1. PICK columns2 \in OrganizationUpdate : columns2 = Dirty(columns)
  BY DirtyTyped DEF BillingInv, BillingTypeOK
<1>2. Webhook(rows, columns) = [Request EXCEPT !.rows = rows, !.org = columns2, !.by = "webhook"]
  BY <1>1 DEF Webhook
<1>3. Webhook(rows, columns) \in UpdateRecord /\ Quiet(rows) \in UpdateRecord
  BY <1>2, NoWorkTyped DEF Quiet, UpdateRecord
<1>4. /\ Webhook(rows, columns).rows = rows /\ Webhook(rows, columns).by = "webhook"
      /\ Webhook(rows, columns).cancel = {} /\ Webhook(rows, columns).refund = None
      /\ Quiet(rows).rows = rows /\ Quiet(rows).org = NoUpdate
      /\ Quiet(rows).cancel = {} /\ Quiet(rows).refund = None
  BY <1>2, NoWorkTyped DEF Quiet, UpdateRecord
<1> QED BY <1>3, <1>4 DEF Learnt, Actor, NoUpdate

\* More is added to a request: subscriptions to cancel that exist, its payment.
LEMMA MoreWork ==
  ASSUME NEW r \in UpdateRecord, Learnt(r),
         NEW S \in SUBSET Sub, \A s \in S : s <= Len(subs), NEW T \in SUBSET Sub
  PROVE  /\ [r EXCEPT !.cancel = S, !.activates = T] \in UpdateRecord
         /\ Learnt([r EXCEPT !.cancel = S, !.activates = T])
BY DEF UpdateRecord, Learnt

LEMMA WithPayment ==
  ASSUME NEW r \in UpdateRecord, Learnt(r), NEW sale \in Sale
  PROVE  [r EXCEPT !.sale = sale] \in UpdateRecord /\ Learnt([r EXCEPT !.sale = sale])
BY DEF UpdateRecord, Learnt

LEMMA WithMark ==
  ASSUME NEW i \in Nat \ {0}, NEW st \in PaymentStatus
  PROVE  LET r == [Request EXCEPT !.mark = [row |-> i, status |-> st]]
         IN r \in UpdateRecord /\ Learnt(r)
<1>1. PICK m \in [row : Nat \ {0}, status : PaymentStatus] : m = [row |-> i, status |-> st]
  OBVIOUS
<1>2. PICK r : r = [Request EXCEPT !.mark = m]
  OBVIOUS
<1>3. r \in UpdateRecord
  BY <1>2, NoWorkTyped DEF UpdateRecord
<1>4. r.cancel = {} /\ r.rows = Request.rows /\ r.refund = None /\ r.org = NoUpdate
  BY <1>2, NoWorkTyped DEF UpdateRecord
<1> QED BY <1>1, <1>2, <1>3, <1>4, RequestLearnt, NoWorkTyped DEF Learnt

\* What is said of sequences: their elements, functions on 1..n, one element replaced or appended.
LEMMA ElementOf ==
  ASSUME NEW R, NEW q \in Seq(R), NEW i \in 1..Len(q)
  PROVE  q[i] \in R
OBVIOUS

LEMMA SequenceOf ==
  ASSUME NEW R, NEW n \in Nat, NEW q, q = [i \in 1..n |-> q[i]], \A i \in 1..n : q[i] \in R
  PROVE  q \in Seq(R) /\ Len(q) = n
<1>1. q \in [1..n -> R]
  OBVIOUS
<1> QED BY <1>1

LEMMA Replaced ==
  ASSUME NEW A, NEW q \in Seq(A), NEW n, NEW x, n \in 1..Len(q) => x \in A
  PROVE  /\ [q EXCEPT ![n] = x] \in Seq(A) /\ Len([q EXCEPT ![n] = x]) = Len(q)
         /\ \A i \in 1..Len(q) : [q EXCEPT ![n] = x][i] = IF i = n THEN x ELSE q[i]
<1>1. PICK r : r = [q EXCEPT ![n] = x]
  OBVIOUS
<1>2. PICK k \in Nat : k = Len(q) /\ DOMAIN q = 1..k
  OBVIOUS
<1>3. \A i \in 1..k : r[i] = IF i = n THEN x ELSE q[i]
  BY <1>1, <1>2
<1>4. DOMAIN r = 1..k /\ r = [i \in 1..k |-> r[i]]
  BY <1>1, <1>2
<1>5. \A i \in 1..k : r[i] \in A
  BY <1>2, <1>3, ElementOf
<1>6. r \in Seq(A) /\ Len(r) = k
  BY <1>2, <1>4, <1>5, SequenceOf
<1> QED BY <1>1, <1>2, <1>3, <1>6

LEMMA OneMore ==
  ASSUME NEW R, NEW q \in Seq(R), NEW x \in R
  PROVE  /\ Append(q, x) \in Seq(R) /\ DOMAIN Append(q, x) = 1..(Len(q) + 1)
         /\ Append(q, x)[Len(q) + 1] = x
         /\ \A i \in 1..Len(q) : Append(q, x)[i] = q[i]
OBVIOUS

\* The columns webhooks and owners write.
LEMMA ColumnsTyped ==
  /\ Canceled \in OrganizationUpdate
  /\ [NoUpdate EXCEPT !.subscription_status = "past_due"] \in OrganizationUpdate
  /\ BillingTypeOK => \A s \in Sub : s <= Len(subs) =>
       /\ Onto(s) \in OrganizationUpdate
       /\ [Onto(s) EXCEPT !.grace_period_ends_at = "unset"] \in OrganizationUpdate
<1>1. Canceled \in OrganizationUpdate
      /\ [NoUpdate EXCEPT !.subscription_status = "past_due"] \in OrganizationUpdate
  BY NoWorkTyped DEF Canceled, OrganizationUpdate, SubscriptionStatus
<1>2. ASSUME BillingTypeOK, NEW s \in Sub, s <= Len(subs)
      PROVE  /\ Onto(s) \in OrganizationUpdate
             /\ [Onto(s) EXCEPT !.grace_period_ends_at = "unset"] \in OrganizationUpdate
  <2>1. PICK p \in Plans : p = subs[s].plan
    <3>1. s \in 1..Len(subs) /\ subs \in Seq([status : RowStatus, plan : Paid])
      BY <1>2, ConstantFacts DEF BillingTypeOK
    <3>2. subs[s] \in [status : RowStatus, plan : Paid]
      BY <3>1, ElementOf
    <3> QED BY <3>2 DEF Plans
  <2> QED BY <2>1, NoWorkTyped DEF Onto, OrganizationUpdate, SubscriptionStatus
<1> QED BY <1>1, <1>2

\* What a webhook about a subscription says of it.
LEMMA EventAbout ==
  ASSUME BillingInv
  PROVE  /\ \A s \in Sub, type \in {"ACTIVATED", "CANCELLED", "FAILED"} :
              About(type, s) \in events => s <= Len(subs)
         /\ \A s \in Sub : About("CANCELLED", s) \in events => paypal[s] = "canceled"
         /\ \A sale \in Sale : OfSale("COMPLETED", sale) \in events =>
              sale[1] \in Sub /\ sale[1] <= Len(subs)
BY DEF BillingInv, PayPalKnows, About, OfSale, Sale

LEMMA DeliverOK ==
  ASSUME BillingInv, NEW w \in Workers, Deliver(w)
  PROVE  BillingInv'
<1> USE ConstantFacts
<1>1. ASSUME NEW s \in Sub, ReceiveActivated(w, s) PROVE BillingInv'
  <2>1. s <= Len(subs) /\ Len(subs) \in Nat
    BY <1>1, EventAbout DEF ReceiveActivated, BillingInv, BillingTypeOK
  <2>2. PICK rows \in [Sub -> RowStatus \cup {None}] :
          rows = RowTo(s, "active") /\ \A t \in Sub : rows[t] # "canceled"
    BY RowToTyped DEF RowStatus
  <2>3. PICK columns \in OrganizationUpdate : columns = [Onto(s) EXCEPT !.grace_period_ends_at = "unset"]
    BY <2>1, ColumnsTyped DEF BillingInv
  <2>4. PICK q \in UpdateRecord : q = Quiet(rows) /\ Learnt(q)
    BY <2>2, <2>3, WebhookTyped
  <2>5. PICK h \in UpdateRecord : h = Webhook(rows, columns) /\ Learnt(h)
    BY <2>2, <2>3, WebhookTyped
  <2>6. CASE HasNewerLive(s)
    <3>1. Begin(w, [q EXCEPT !.cancel = {s}, !.activates = {s}])
      BY <1>1, <2>2, <2>4, <2>6 DEF ReceiveActivated
    <3>2. PICK S \in SUBSET Sub : S = {s}
      OBVIOUS
    <3>3. PICK r \in UpdateRecord : r = [q EXCEPT !.cancel = S, !.activates = S] /\ Learnt(r)
      BY <2>1, <2>4, <3>2, MoreWork
    <3> QED BY <3>1, <3>2, <3>3, BeginOK
  <2>7. CASE ~HasNewerLive(s)
    <3>1. Begin(w, [h EXCEPT !.cancel = Superseded(s), !.activates = {s}])
      BY <1>1, <2>2, <2>3, <2>5, <2>7 DEF ReceiveActivated
    <3>2. PICK S \in SUBSET Sub : S = Superseded(s) /\ \A t \in S : t <= Len(subs)
      BY DEF Superseded, IsLive, Exists
    <3>3. PICK T \in SUBSET Sub : T = {s}
      OBVIOUS
    <3>4. PICK r \in UpdateRecord : r = [h EXCEPT !.cancel = S, !.activates = T] /\ Learnt(r)
      BY <2>5, <3>2, MoreWork
    <3> QED BY <3>1, <3>2, <3>3, <3>4, BeginOK
  <2> QED BY <2>6, <2>7
<1>2. ASSUME NEW s \in Sub, ReceiveCancelled(w, s) PROVE BillingInv'
  <2>1. PICK rows \in [Sub -> RowStatus \cup {None}] :
          rows = RowTo(s, "canceled") /\ \A t \in Sub : rows[t] = "canceled" => t = s
    BY RowToTyped DEF RowStatus
  <2>2. \A t \in Sub : rows[t] = "canceled" => paypal[t] = "canceled"
    BY <1>2, <2>1, EventAbout DEF ReceiveCancelled
  <2>3. Begin(w, Quiet(rows)) \/ Begin(w, Webhook(rows, Canceled))
    BY <1>2, <2>1 DEF ReceiveCancelled
  <2> QED BY <2>2, <2>3, ColumnsTyped, WebhookTyped, BeginOK
<1>3. ASSUME NEW s \in Sub, ReceiveFailed(w, s) PROVE BillingInv'
  <2>1. PICK rows \in [Sub -> RowStatus \cup {None}] :
          rows = RowTo(s, "past_due") /\ \A t \in Sub : rows[t] # "canceled"
    BY RowToTyped DEF RowStatus
  <2>2. PICK columns \in OrganizationUpdate :
          columns = [NoUpdate EXCEPT !.subscription_status = "past_due"]
    BY ColumnsTyped
  <2>3. Begin(w, Quiet(rows)) \/ Begin(w, Webhook(rows, columns))
    BY <1>3, <2>1, <2>2 DEF ReceiveFailed
  <2> QED BY <2>1, <2>3, WebhookTyped, BeginOK
<1>4. ASSUME NEW sale \in Sale, ReceiveCompleted(w, sale) PROVE BillingInv'
  <2>1. sale[1] \in Sub /\ sale[1] <= Len(subs)
    BY <1>4, EventAbout DEF ReceiveCompleted
  <2>2. PICK rows \in [Sub -> RowStatus \cup {None}] :
          rows = RowTo(sale[1], "active") /\ \A t \in Sub : rows[t] # "canceled"
    BY RowToTyped DEF RowStatus
  <2>3. PICK columns \in OrganizationUpdate : columns = Onto(sale[1])
    BY <2>1, ColumnsTyped DEF BillingInv
  <2>4. PICK h \in UpdateRecord : Learnt(h) /\ Begin(w, [h EXCEPT !.sale = sale])
    <3>1. CASE KeepsUp(sale[1])
      BY <1>4, <2>2, <2>3, <3>1, WebhookTyped DEF ReceiveCompleted
    <3>2. CASE ~KeepsUp(sale[1])
      BY <1>4, <3>2, NoWorkTyped, RequestLearnt DEF ReceiveCompleted
    <3> QED BY <3>1, <3>2
  <2> QED BY <2>4, WithPayment, BeginOK
<1>5. ASSUME NEW sale \in Sale, ReceiveRefunded(w, sale) PROVE BillingInv'
  <2>1. PICK i \in DOMAIN payments :
          Begin(w, [Request EXCEPT !.mark = [row |-> i, status |-> "partially_refunded"]])
    BY <1>5 DEF ReceiveRefunded
  <2>2. i \in Nat \ {0}
    BY DEF BillingInv, BillingTypeOK
  <2>3. PICK r \in UpdateRecord :
          r = [Request EXCEPT !.mark = [row |-> i, status |-> "partially_refunded"]] /\ Learnt(r)
    BY <2>2, WithMark DEF PaymentStatus
  <2> QED BY <2>1, <2>3, BeginOK
<1> QED BY <1>1, <1>2, <1>3, <1>4, <1>5 DEF Deliver

\* A request that writes columns of the organization, and what it cancels first.
LEMMA WithColumns ==
  ASSUME NEW columns \in OrganizationUpdate, NEW by \in Actor
  PROVE  \E r \in UpdateRecord : Learnt(r) /\ r = [Request EXCEPT !.org = columns, !.by = by]
<1>1. PICK r : r = [Request EXCEPT !.org = columns, !.by = by]
  OBVIOUS
<1>2. r \in UpdateRecord
  BY <1>1, NoWorkTyped DEF UpdateRecord, Actor
<1>3. r.cancel = {} /\ r.rows = Request.rows /\ r.refund = None /\ r.by = by
  BY <1>1, NoWorkTyped DEF UpdateRecord
<1> QED BY <1>1, <1>2, <1>3, RequestLearnt DEF Learnt

LEMMA WithCancel ==
  ASSUME NEW columns \in OrganizationUpdate, NEW by \in Actor,
         NEW S \in SUBSET Sub, \A s \in S : s <= Len(subs)
  PROVE  \E r \in UpdateRecord : Learnt(r) /\
           r = [Request EXCEPT !.cancel = S, !.strict = TRUE, !.org = columns, !.by = by]
<1>1. PICK r : r = [Request EXCEPT !.cancel = S, !.strict = TRUE, !.org = columns, !.by = by]
  OBVIOUS
<1>2. r \in UpdateRecord
  BY <1>1, NoWorkTyped DEF UpdateRecord, Actor
<1>3. r.cancel = S /\ r.rows = Request.rows /\ r.refund = None /\ r.by = by
  BY <1>1, NoWorkTyped DEF UpdateRecord
<1> QED BY <1>1, <1>2, <1>3, RequestLearnt DEF Learnt

LEMMA ActorOK == {"owner", "admin", "loop"} \subseteq Actor
BY DEF Actor

LEMMA ManageOK ==
  ASSUME BillingInv, NEW w \in Workers, Manage(w)
  PROVE  BillingInv'
<1>1. org \in OrganizationRow
  BY DEF BillingInv, BillingTypeOK
<1>2. CASE CancelSubscription(w)
  <2>1. PICK columns \in OrganizationUpdate : columns = Dirty(Canceled)
    BY <1>1, ColumnsTyped, DirtyTyped
  <2>2. PICK S \in SUBSET Sub : S = NewestCancelable /\ \A s \in S : s <= Len(subs)
    <3>1. NewestCancelable \subseteq Sub /\ \A s \in NewestCancelable : Cancelable(s)
      BY DEF NewestCancelable
    <3> QED BY <3>1 DEF Cancelable, Exists
  <2>3. PICK r \in UpdateRecord : Learnt(r) /\
          r = [Request EXCEPT !.cancel = S, !.strict = TRUE, !.org = columns, !.by = "owner"]
    BY <2>2, WithCancel, ActorOK
  <2> QED BY <1>2, <2>1, <2>2, <2>3, BeginOK DEF CancelSubscription
<1>3. ASSUME NEW p \in Plans, SwitchPlan(w, p) PROVE BillingInv'
  <2>1. PICK columns \in OrganizationUpdate : columns = [NoUpdate EXCEPT !.plan = p]
    BY NoWorkTyped DEF OrganizationUpdate
  <2>2. PICK r \in UpdateRecord : Learnt(r) /\ r = [Request EXCEPT !.org = columns, !.by = "owner"]
    BY WithColumns, ActorOK
  <2> QED BY <1>3, <2>1, <2>2, BeginOK DEF SwitchPlan
<1>4. ASSUME NEW p \in Plans \cup {None}, NEW st \in SubscriptionStatus \cup {None},
             NEW until \in {"ahead", None}, UpdateSubscription(w, p, st, until)
      PROVE  BillingInv'
  <2>1. PICK named \in OrganizationUpdate :
          named = [NoUpdate EXCEPT !.plan = p, !.subscription_status = st, !.plan_expires_at = until]
    BY NoWorkTyped DEF OrganizationUpdate
  <2>2. PICK columns \in OrganizationUpdate : columns = Dirty(named)
    BY <1>1, DirtyTyped
  <2>3. PICK r \in UpdateRecord : Learnt(r) /\ r = [Request EXCEPT !.org = columns, !.by = "admin"]
    BY WithColumns, ActorOK
  <2>4. Begin(w, [Request EXCEPT !.by = "admin", !.org = columns])
    BY <1>4, <2>1, <2>2 DEF UpdateSubscription
  <2>5. [Request EXCEPT !.by = "admin", !.org = columns] = r
    BY <2>3, NoWorkTyped DEF UpdateRecord
  <2> QED BY <2>3, <2>4, <2>5, BeginOK
<1>5. CASE RevertExpiredPlan(w)
  <2>1. PICK named \in OrganizationUpdate :
          named = [NoUpdate EXCEPT !.plan = Starter, !.plan_expires_at = "unset"]
    BY NoWorkTyped DEF OrganizationUpdate, Plans
  <2>2. PICK columns \in OrganizationUpdate : columns = Dirty(named)
    BY <1>1, DirtyTyped
  <2>3. PICK r \in UpdateRecord : Learnt(r) /\ r = [Request EXCEPT !.org = columns, !.by = "loop"]
    BY WithColumns, ActorOK
  <2>4. Begin(w, [Request EXCEPT !.by = "loop", !.org = columns])
    BY <1>5, <2>1, <2>2 DEF RevertExpiredPlan
  <2>5. [Request EXCEPT !.by = "loop", !.org = columns] = r
    BY <2>3, NoWorkTyped DEF UpdateRecord
  <2> QED BY <2>3, <2>4, <2>5, BeginOK
<1> QED BY <1>2, <1>3, <1>4, <1>5 DEF Manage

LEMMA RefundOK ==
  ASSUME BillingInv, NEW w \in Workers, Refund(w)
  PROVE  BillingInv'
<1>1. PICK whole \in BOOLEAN, i \in DOMAIN payments :
        Begin(w, [Request EXCEPT
          !.mark = [row |-> i, status |-> IF whole THEN "refunded" ELSE "partially_refunded"],
          !.refund = [sale |-> payments[i].sale, status |-> "pending"]])
  BY DEF Refund, StartRefund
<1>2. i \in Nat \ {0} /\ i \in 1..Len(payments)
  BY DEF BillingInv, BillingTypeOK
<1>3. PICK sale \in Sale : sale = payments[i].sale
  <2>1. payments[i] \in [sale : Sale, status : PaymentStatus]
    BY <1>2, ElementOf DEF BillingInv, BillingTypeOK
  <2> QED BY <2>1
<1>4. PICK m \in [row : Nat \ {0}, status : PaymentStatus] :
        m = [row |-> i, status |-> IF whole THEN "refunded" ELSE "partially_refunded"]
  BY <1>2 DEF PaymentStatus
<1>5. PICK f \in [sale : Sale, status : {"pending", "completed", "failed"}] :
        f = [sale |-> sale, status |-> "pending"]
  OBVIOUS
<1>6. PICK r : r = [Request EXCEPT !.mark = m, !.refund = f]
  OBVIOUS
<1>7. r \in UpdateRecord
  BY <1>6, NoWorkTyped DEF UpdateRecord
<1>8. r.cancel = {} /\ r.rows = Request.rows /\ r.refund.status = "pending" /\ r.org = NoUpdate
  BY <1>5, <1>6, NoWorkTyped DEF UpdateRecord
<1>9. Learnt(r)
  BY <1>8, RequestLearnt, NoWorkTyped DEF Learnt, NoUpdate
<1> QED BY <1>1, <1>3, <1>4, <1>5, <1>6, <1>7, <1>9, BeginOK

------------------------------------------------------------------------------
(* PayPal acts, and what a request learnt stays true *)

LEMMA LearntStays ==
  ASSUME BillingInv, BillingTypeOK', NEW r \in UpdateRecord, Learnt(r),
         Len(subs) <= Len(subs'), returned \subseteq returned',
         \A s \in Sub : paypal[s] = "canceled" => paypal'[s] = "canceled"
  PROVE  Learnt(r)'
<1>1. Len(subs) \in Nat /\ Len(subs') \in Nat /\ \A s \in r.cancel : s \in Nat
  BY ConstantFacts DEF BillingInv, BillingTypeOK, UpdateRecord
<1> QED BY <1>1 DEF Learnt

\* PayPal moves and sends, the tables of payments and refunds stay.
LEMMA PayPalMoves ==
  ASSUME BillingInv, BillingTypeOK', PayPalKnows',
         UNCHANGED <<payments, refunds, returned, pending>>,
         Len(subs) <= Len(subs'),
         \A s \in 1..Len(subs) : subs'[s] = subs[s],
         \A s \in 1..Len(subs') : s > Len(subs) => subs'[s].status # "canceled",
         \A s \in Sub : paypal[s] = "canceled" => paypal'[s] = "canceled"
  PROVE  BillingInv'
<1>1. OnePaymentPerSale' /\ CompletedRefundsAreReal'
  BY DEF BillingInv, OnePaymentPerSale, CompletedRefundsAreReal
<1>2. CanceledAtPayPal'
  <2>1. Len(subs') <= MaxSubs /\ DOMAIN subs = 1..Len(subs) /\ DOMAIN subs' = 1..Len(subs')
        /\ Len(subs) \in Nat /\ Len(subs') \in Nat
    BY DEF BillingInv, BillingTypeOK
  <2> QED BY <2>1, ConstantFacts DEF BillingInv, CanceledAtPayPal
<1>3. ASSUME NEW v \in Workers PROVE Learnt(pending[v])'
  <2>1. PICK r \in UpdateRecord : r = pending[v] /\ Learnt(r)
    BY DEF BillingInv, BillingTypeOK
  <2>2. Learnt(r)' /\ pending'[v] = r
    BY <2>1, LearntStays
  <2> QED BY <2>2 DEF Learnt
<1> QED BY <1>1, <1>2, <1>3 DEF BillingInv

\* PayPal is told to cancel: it has, or nothing has happened.
LEMMA AtPayPalOK ==
  ASSUME BillingInv, NEW s \in Sub, s <= Len(subs), NEW answer \in Answer, AtPayPal(s, answer),
         UNCHANGED subs
  PROVE  /\ paypal' \in [Sub -> {"none", "pending", "active", "canceled"}]
         /\ events' \subseteq Event
         /\ PayPalKnows'
         /\ \A t \in Sub : paypal[t] = "canceled" => paypal'[t] = "canceled"
         /\ answer # "refused" => paypal'[s] = "canceled"
<1>1. CASE answer = "refused"
  BY <1>1 DEF AtPayPal, BillingInv, BillingTypeOK, PayPalKnows
<1>2. CASE answer # "refused"
  <2>1. paypal' = [paypal EXCEPT ![s] = "canceled"] /\ events' \subseteq events \cup {About("CANCELLED", s)}
    BY <1>2 DEF AtPayPal
  <2>2. paypal' \in [Sub -> {"none", "pending", "active", "canceled"}]
        /\ \A t \in Sub : paypal'[t] = IF t = s THEN "canceled" ELSE paypal[t]
    BY <2>1 DEF BillingInv, BillingTypeOK
  <2>3. About("CANCELLED", s) \in Event /\ About("CANCELLED", s).sub = s
    BY DEF About, Event
  <2>4. Len(subs) \in Nat /\ events \subseteq Event /\ \A e \in Event : e.sub \in Sub
    BY DEF BillingInv, BillingTypeOK, Event
  <2>5. PayPalKnows'
    <3>1. \A t \in Sub : t > Len(subs') => paypal'[t] = "none"
      BY <2>2, <2>4, ConstantFacts DEF BillingInv, PayPalKnows
    <3>2. ASSUME NEW e \in events'
          PROVE  /\ e.type # "REFUNDED" => e.sub <= Len(subs')
                 /\ e.type = "CANCELLED" => paypal'[e.sub] = "canceled"
      BY <2>1, <2>2, <2>3, <2>4 DEF BillingInv, PayPalKnows
    <3> QED BY <3>1, <3>2 DEF PayPalKnows
  <2> QED BY <1>2, <2>1, <2>2, <2>3, <2>4, <2>5
<1> QED BY <1>1, <1>2

LEMMA CallCancelOK ==
  ASSUME BillingInv, NEW w \in Workers, NEW s \in Sub, NEW answer \in Answer,
         CallCancel(w, s, answer)
  PROVE  BillingInv'
<1>1. PICK p \in UpdateRecord : p = pending[w] /\ Learnt(p)
  BY DEF BillingInv, BillingTypeOK
<1>2. PICK r : r = AfterCancel(p, s, answer)
  OBVIOUS
<1>3. /\ s \in p.cancel /\ AtPayPal(s, answer)
      /\ pending' = [pending EXCEPT ![w] = r]
      /\ UNCHANGED <<org, subs, payments, refunds, audit, returned, activated, setBy, overlapped>>
  BY <1>1, <1>2 DEF CallCancel, store, history
<1>4. s <= Len(subs)
  BY <1>1, <1>3 DEF Learnt
<1>5. /\ paypal' \in [Sub -> {"none", "pending", "active", "canceled"}]
      /\ events' \subseteq Event /\ PayPalKnows'
      /\ \A t \in Sub : paypal[t] = "canceled" => paypal'[t] = "canceled"
      /\ answer # "refused" => paypal'[s] = "canceled"
  BY <1>3, <1>4, AtPayPalOK
\* The row is marked when PayPal has answered that it is done.
<1>6. r \in UpdateRecord /\ Learnt(r)'
  <2>1. CASE answer = "done"
    <3>1. r = [p EXCEPT !.cancel = p.cancel \ {s}, !.rows[s] = "canceled"]
      BY <1>2, <2>1 DEF AfterCancel
    <3>2. PICK S \in SUBSET Sub : S = p.cancel \ {s}
      BY <1>1 DEF UpdateRecord
    <3>3. PICK rows \in [Sub -> RowStatus \cup {None}] : rows = [p.rows EXCEPT ![s] = "canceled"]
      BY <1>1 DEF UpdateRecord, RowStatus
    <3>4. /\ r \in UpdateRecord
          /\ r.cancel = S /\ r.rows = rows /\ r.refund = p.refund /\ r.org = p.org /\ r.by = p.by
      BY <1>1, <3>1, <3>2, <3>3 DEF UpdateRecord
    <3>5. \A t \in Sub : rows[t] = "canceled" => paypal'[t] = "canceled"
      BY <1>1, <1>5, <2>1, <3>3 DEF Learnt, UpdateRecord
    <3> QED BY <1>1, <1>3, <3>2, <3>4, <3>5 DEF Learnt
  <2>2. CASE answer # "done" /\ p.strict
    <3>1. r = NoWork
      BY <1>2, <2>2 DEF AfterCancel
    <3> QED BY <3>1, NoWorkTyped, ConstantFacts DEF Learnt, RowStatus, NoUpdate
  <2>3. CASE answer # "done" /\ ~p.strict
    <3>1. r = [p EXCEPT !.cancel = p.cancel \ {s}, !.audit = p.audit \cup {s}]
      BY <1>2, <2>3 DEF AfterCancel
    <3>2. /\ r \in UpdateRecord /\ r.cancel \subseteq p.cancel
          /\ r.rows = p.rows /\ r.refund = p.refund /\ r.org = p.org /\ r.by = p.by
      BY <1>1, <3>1 DEF UpdateRecord
    <3> QED BY <1>1, <1>3, <1>5, <3>2 DEF Learnt
  <2> QED BY <2>1, <2>2, <2>3 DEF Answer
<1>7. BillingTypeOK'
  BY <1>3, <1>5, <1>6 DEF BillingInv, BillingTypeOK
<1>8. CanceledAtPayPal' /\ OnePaymentPerSale' /\ CompletedRefundsAreReal'
  <2>1. DOMAIN subs \subseteq Sub
    BY ConstantFacts DEF BillingInv, BillingTypeOK
  <2> QED BY <1>3, <1>5, <2>1 DEF BillingInv, CanceledAtPayPal, OnePaymentPerSale, CompletedRefundsAreReal
<1>9. ASSUME NEW v \in Workers PROVE Learnt(pending[v])'
  <2>1. CASE v = w
    <3>1. pending'[v] = r
      BY <1>3, <2>1 DEF BillingInv, BillingTypeOK
    <3> QED BY <1>6, <3>1 DEF Learnt
  <2>2. CASE v # w
    <3>1. PICK q \in UpdateRecord : q = pending[v] /\ Learnt(q)
      BY DEF BillingInv, BillingTypeOK
    <3>2. pending'[v] = q
      BY <1>3, <2>2, <3>1 DEF BillingInv, BillingTypeOK
    <3>3. Learnt(q)'
      BY <1>3, <1>5, <3>1 DEF Learnt
    <3> QED BY <3>2, <3>3 DEF Learnt
  <2> QED BY <2>1, <2>2
<1> QED BY <1>5, <1>7, <1>8, <1>9 DEF BillingInv

LEMMA CallRefundOK ==
  ASSUME BillingInv, NEW w \in Workers, NEW answer \in Answer, CallRefund(w, answer)
  PROVE  BillingInv'
<1>1. PICK p \in UpdateRecord : p = pending[w] /\ Learnt(p)
  BY DEF BillingInv, BillingTypeOK
<1>2. PICK f \in [sale : Sale, status : {"pending", "completed", "failed"}] : f = p.refund
  BY <1>1 DEF CallRefund, UpdateRecord
<1>3. PICK r : r = IF answer = "lost" THEN NoWork
                   ELSE [p EXCEPT !.refund = [f EXCEPT !.status = RefundStatus(answer)]]
  OBVIOUS
<1>4. /\ pending' = [pending EXCEPT ![w] = r]
      /\ UNCHANGED <<org, subs, payments, refunds, audit, paypal, activated, setBy, overlapped>>
      /\ returned \subseteq returned' /\ returned' \subseteq returned \cup {f.sale}
      /\ events' \subseteq events \cup {OfSale("REFUNDED", f.sale)}
      /\ answer # "refused" => f.sale \in returned'
  BY <1>1, <1>2, <1>3 DEF CallRefund, store, history
<1>5. OfSale("REFUNDED", f.sale) \in Event /\ OfSale("REFUNDED", f.sale).type = "REFUNDED"
  BY DEF OfSale, Event, Sale
<1>6. r \in UpdateRecord /\ Learnt(r)'
  <2>1. CASE answer = "lost"
    BY <1>3, <2>1, NoWorkTyped, ConstantFacts DEF Learnt, RowStatus, NoUpdate
  <2>2. CASE answer # "lost"
    <3>1. PICK g \in [sale : Sale, status : {"pending", "completed", "failed"}] :
            /\ g = [f EXCEPT !.status = RefundStatus(answer)]
            /\ g.sale = f.sale /\ g.status = RefundStatus(answer)
      <4>1. PICK st \in {"pending", "completed", "failed"} : st = RefundStatus(answer)
        BY DEF RefundStatus
      <4>2. PICK g : g = [f EXCEPT !.status = st]
        OBVIOUS
      <4>3. g \in [sale : Sale, status : {"pending", "completed", "failed"}]
        BY <4>2
      <4>4. g.sale = f.sale /\ g.status = st
        BY <4>2
      <4> QED BY <4>1, <4>2, <4>3, <4>4
    <3>2. /\ r = [p EXCEPT !.refund = g]
          /\ r \in UpdateRecord /\ r.cancel = p.cancel
          /\ r.rows = p.rows /\ r.refund = g /\ r.org = p.org /\ r.by = p.by
      BY <1>1, <1>3, <2>2, <3>1 DEF UpdateRecord
    <3>3. g.status = "completed" => g.sale \in returned'
      BY <1>4, <3>1 DEF RefundStatus
    <3> QED BY <1>1, <1>4, <3>2, <3>3 DEF Learnt
  <2> QED BY <2>1, <2>2
<1>7. BillingTypeOK'
  BY <1>4, <1>5, <1>6 DEF BillingInv, BillingTypeOK
<1>8. PayPalKnows' /\ CanceledAtPayPal' /\ OnePaymentPerSale' /\ CompletedRefundsAreReal'
  BY <1>4, <1>5 DEF BillingInv, PayPalKnows, CanceledAtPayPal, OnePaymentPerSale, CompletedRefundsAreReal
<1>9. ASSUME NEW v \in Workers PROVE Learnt(pending[v])'
  <2>1. CASE v = w
    <3>1. pending'[v] = r
      BY <1>4, <2>1 DEF BillingInv, BillingTypeOK
    <3> QED BY <1>6, <3>1 DEF Learnt
  <2>2. CASE v # w
    <3>1. PICK q \in UpdateRecord : q = pending[v] /\ Learnt(q)
      BY DEF BillingInv, BillingTypeOK
    <3>2. pending'[v] = q
      BY <1>4, <2>2, <3>1 DEF BillingInv, BillingTypeOK
    <3>3. Learnt(q)'
      BY <1>4, <3>1 DEF Learnt
    <3> QED BY <3>2, <3>3 DEF Learnt
  <2> QED BY <2>1, <2>2
<1> QED BY <1>7, <1>8, <1>9 DEF BillingInv

------------------------------------------------------------------------------
(* A commit *)

LEMMA WrittenTyped ==
  ASSUME org \in OrganizationRow, NEW w \in OrganizationUpdate
  PROVE  Written(w) \in OrganizationRow
<1>1. DOMAIN org = {"plan", "subscription_status", "grace_period_ends_at", "plan_expires_at"}
  BY DEF OrganizationRow
<1>2. \A c \in DOMAIN org : Written(w)[c] = IF w[c] = None THEN org[c] ELSE w[c]
  BY DEF Written
<1>3. Written(w) = [c \in DOMAIN org |-> Written(w)[c]]
  BY DEF Written
<1>4. /\ Written(w).plan \in Plans /\ Written(w).subscription_status \in SubscriptionStatus
      /\ Written(w).grace_period_ends_at \in {"unset", "set"}
      /\ Written(w).plan_expires_at \in {"unset", "ahead", "passed"}
  BY <1>1, <1>2 DEF OrganizationRow, OrganizationUpdate
<1> QED BY <1>1, <1>3, <1>4 DEF OrganizationRow

\* The rows after an UPDATE of some statuses.
LEMMA RowsWritten ==
  ASSUME subs \in Seq([status : RowStatus, plan : Paid]), Len(subs) <= MaxSubs,
         NEW rows \in [Sub -> RowStatus \cup {None}],
         subs' = [s \in DOMAIN subs |->
                    IF rows[s] = None THEN subs[s] ELSE [subs[s] EXCEPT !.status = rows[s]]]
  PROVE  /\ subs' \in Seq([status : RowStatus, plan : Paid])
         /\ Len(subs') = Len(subs)
         /\ \A s \in DOMAIN subs :
              /\ subs'[s].status = IF rows[s] = None THEN subs[s].status ELSE rows[s]
              /\ subs'[s].plan = subs[s].plan
<1>1. Len(subs) \in Nat /\ DOMAIN subs = 1..Len(subs) /\ DOMAIN subs' = 1..Len(subs)
  OBVIOUS
<1>2. ASSUME NEW s \in 1..Len(subs)
      PROVE  /\ subs'[s] \in [status : RowStatus, plan : Paid]
             /\ subs'[s].status = IF rows[s] = None THEN subs[s].status ELSE rows[s]
             /\ subs'[s].plan = subs[s].plan
  <2>1. PICK q \in [status : RowStatus, plan : Paid] : q = subs[s]
    BY ElementOf
  <2>2. PICK st \in RowStatus \cup {None} : st = rows[s]
    BY <1>1, ConstantFacts
  <2>3. subs'[s] = IF st = None THEN q ELSE [q EXCEPT !.status = st]
    BY <1>1, <2>1, <2>2
  <2> QED BY <2>1, <2>2, <2>3
<1>3. subs' = [s \in 1..Len(subs) |-> subs'[s]]
  BY <1>1
<1>4. subs' \in Seq([status : RowStatus, plan : Paid]) /\ Len(subs') = Len(subs)
  BY <1>1, <1>2, <1>3, SequenceOf
<1> QED BY <1>1, <1>2, <1>4

\* The payments after one was marked: as many, of the same charges.
LEMMA MarkedPayments ==
  ASSUME payments \in Seq([sale : Sale, status : PaymentStatus]),
         NEW m \in [row : Nat \ {0}, status : PaymentStatus],
         NEW marked, marked = [payments EXCEPT ![m.row].status = m.status]
  PROVE  /\ marked \in Seq([sale : Sale, status : PaymentStatus]) /\ Len(marked) = Len(payments)
         /\ \A i \in 1..Len(payments) : marked[i].sale = payments[i].sale
<1> DEFINE R == [sale : Sale, status : PaymentStatus]
<1>1. PICK x : x = [payments[m.row] EXCEPT !.status = m.status]
  OBVIOUS
<1>2. ASSUME NEW i \in 1..Len(payments), i = m.row
      PROVE  x \in R /\ x.sale = payments[i].sale
  <2>1. PICK q \in R : q = payments[i]
    BY ElementOf
  <2>2. x = [q EXCEPT !.status = m.status]
    BY <1>1, <1>2, <2>1
  <2> QED BY <2>1, <2>2
<1>3. marked = [payments EXCEPT ![m.row] = x]
  BY <1>1
<1> HIDE DEF R
<1>4. payments \in Seq(R) /\ (m.row \in 1..Len(payments) => x \in R)
  BY <1>2 DEF R
<1>5. /\ marked \in Seq(R) /\ Len(marked) = Len(payments)
      /\ \A i \in 1..Len(payments) : marked[i] = IF i = m.row THEN x ELSE payments[i]
  BY <1>3, <1>4, Replaced
<1> QED BY <1>2, <1>5 DEF R

\* The payments after one was marked and one was inserted, of a charge that had none.
LEMMA PaymentsWritten ==
  ASSUME payments \in Seq([sale : Sale, status : PaymentStatus]), OnePaymentPerSale,
         NEW mark \in [row : Nat \ {0}, status : PaymentStatus] \cup {None},
         NEW sale \in Sale \cup {None}, sale # None => Unrecorded(sale),
         LET marked == IF mark = None THEN payments
                       ELSE [payments EXCEPT ![mark.row].status = mark.status]
         IN payments' = IF sale = None THEN marked
                        ELSE Append(marked, [sale |-> sale, status |-> "completed"])
  PROVE  payments' \in Seq([sale : Sale, status : PaymentStatus]) /\ OnePaymentPerSale'
<1> DEFINE R == [sale : Sale, status : PaymentStatus]
<1>1. PICK marked : marked = IF mark = None THEN payments
                             ELSE [payments EXCEPT ![mark.row].status = mark.status]
  OBVIOUS
<1>2. Len(payments) \in Nat /\ DOMAIN payments = 1..Len(payments)
  OBVIOUS
<1>3. /\ marked \in Seq(R) /\ Len(marked) = Len(payments)
      /\ \A i \in 1..Len(payments) : marked[i].sale = payments[i].sale
  <2>1. CASE mark = None
    BY <1>1, <2>1
  <2>2. CASE mark # None
    <3>1. PICK m \in [row : Nat \ {0}, status : PaymentStatus] : m = mark
      BY <2>2
    <3>2. marked = [payments EXCEPT ![m.row].status = m.status]
      BY <1>1, <2>2, <3>1
    <3> QED BY <3>1, <3>2, MarkedPayments
  <2> QED BY <2>1, <2>2
<1>4. marked \in Seq(R) /\ Len(marked) = Len(payments) /\ DOMAIN marked = 1..Len(payments)
  BY <1>3
<1>5. CASE sale = None
  <2>1. payments' = marked /\ DOMAIN payments' = DOMAIN payments
    BY <1>1, <1>2, <1>4, <1>5
  <2>2. OnePaymentPerSale'
    BY <1>2, <1>3, <2>1 DEF OnePaymentPerSale
  <2> QED BY <1>4, <2>1, <2>2
<1>6. CASE sale # None
  <2>1. PICK q \in R : q = [sale |-> sale, status |-> "completed"] /\ q.sale = sale
    BY <1>6 DEF PaymentStatus
  <2>2. payments' = Append(marked, q)
    BY <1>1, <1>6, <2>1
  <2> HIDE DEF R
  <2>3. payments' \in Seq(R) /\ DOMAIN payments' = 1..(Len(payments) + 1)
        /\ payments'[Len(payments) + 1] = q
        /\ \A i \in 1..Len(payments) : payments'[i] = marked[i]
    <3>1. /\ Append(marked, q) \in Seq(R) /\ DOMAIN Append(marked, q) = 1..(Len(marked) + 1)
          /\ Append(marked, q)[Len(marked) + 1] = q
          /\ \A i \in 1..Len(marked) : Append(marked, q)[i] = marked[i]
      BY <1>4, <2>1, OneMore
    <3> QED BY <1>4, <2>2, <3>1
  <2>4. \A i \in 1..Len(payments) : payments[i].sale # sale
    BY <1>2, <1>6 DEF Unrecorded
  <2>5. OnePaymentPerSale'
    <3> SUFFICES ASSUME NEW i \in DOMAIN payments', NEW j \in DOMAIN payments',
                        payments'[i].sale = payments'[j].sale
                 PROVE  i = j
      BY DEF OnePaymentPerSale
    <3>1. CASE i \in 1..Len(payments) /\ j \in 1..Len(payments)
      BY <1>2, <1>3, <2>3, <3>1 DEF OnePaymentPerSale
    <3>2. CASE i \notin 1..Len(payments) \/ j \notin 1..Len(payments)
      <4>1. (i = Len(payments) + 1 \/ i \in 1..Len(payments))
            /\ (j = Len(payments) + 1 \/ j \in 1..Len(payments))
        BY <1>2, <2>3
      <4> QED BY <1>3, <2>1, <2>3, <2>4, <3>2, <4>1
    <3> QED BY <3>1, <3>2
  <2> QED BY <2>3, <2>5 DEF R
<1> QED BY <1>5, <1>6

LEMMA CommitOK ==
  ASSUME BillingInv, NEW w \in Workers, Commit(w)
  PROVE  BillingInv'
<1>1. PICK p \in UpdateRecord : p = pending[w] /\ Learnt(p)
  BY DEF BillingInv, BillingTypeOK
<1>2. /\ p.org \in OrganizationUpdate /\ p.rows \in [Sub -> RowStatus \cup {None}]
      /\ p.sale \in Sale \cup {None}
      /\ p.mark \in [row : Nat \ {0}, status : PaymentStatus] \cup {None}
      /\ p.refund \in [sale : Sale, status : {"pending", "completed", "failed"}] \cup {None}
      /\ p.audit \subseteq Sub /\ p.activates \subseteq Sub
  BY <1>1 DEF UpdateRecord
<1>3. /\ org' = Written(p.org)
      /\ subs' = [s \in DOMAIN subs |->
                    IF p.rows[s] = None THEN subs[s] ELSE [subs[s] EXCEPT !.status = p.rows[s]]]
      /\ LET marked == IF p.mark = None THEN payments
                       ELSE [payments EXCEPT ![p.mark.row].status = p.mark.status]
         IN payments' = IF p.sale = None THEN marked
                        ELSE Append(marked, [sale |-> p.sale, status |-> "completed"])
      /\ p.sale # None => Unrecorded(p.sale)
  BY <1>1 DEF Commit
<1>4. /\ refunds' = IF p.refund = None THEN refunds ELSE Append(refunds, p.refund)
      /\ p.refund # None => p.refund.status # "pending"
      /\ audit' = audit \cup p.audit /\ activated' = activated \cup p.activates
      /\ setBy' = [c \in DOMAIN setBy |-> IF p.org[c] = None THEN setBy[c] ELSE p.by]
      /\ pending' = [pending EXCEPT ![w] = NoWork]
      /\ UNCHANGED <<paypal, returned, events, overlapped>>
  BY <1>1 DEF Commit, Called, outside
<1>5. /\ subs' \in Seq([status : RowStatus, plan : Paid]) /\ Len(subs') = Len(subs)
      /\ \A s \in DOMAIN subs : subs'[s].status = IF p.rows[s] = None THEN subs[s].status ELSE p.rows[s]
  BY <1>2, <1>3, RowsWritten DEF BillingInv, BillingTypeOK
<1>6. payments' \in Seq([sale : Sale, status : PaymentStatus]) /\ OnePaymentPerSale'
  BY <1>2, <1>3, PaymentsWritten DEF BillingInv, BillingTypeOK
<1>7. refunds' \in Seq([sale : Sale, status : {"completed", "failed"}]) /\ CompletedRefundsAreReal'
  <2>1. CASE p.refund = None
    BY <1>4, <2>1 DEF BillingInv, BillingTypeOK, CompletedRefundsAreReal
  <2>2. CASE p.refund # None
    <3>1. PICK f \in [sale : Sale, status : {"completed", "failed"}] :
            f = p.refund /\ (f.status = "completed" => f.sale \in returned)
      BY <1>1, <1>2, <1>4, <2>2 DEF Learnt
    <3>2. refunds' = Append(refunds, f) /\ refunds \in Seq([sale : Sale, status : {"completed", "failed"}])
      BY <1>4, <2>2, <3>1 DEF BillingInv, BillingTypeOK
    <3>3. refunds' \in Seq([sale : Sale, status : {"completed", "failed"}])
      BY <3>2
    <3>4. /\ DOMAIN refunds' = 1..(Len(refunds) + 1) /\ DOMAIN refunds = 1..Len(refunds)
          /\ Len(refunds) \in Nat /\ refunds'[Len(refunds) + 1] = f
          /\ \A i \in 1..Len(refunds) : refunds'[i] = refunds[i]
      BY <3>2
    <3>5. CompletedRefundsAreReal'
      BY <1>4, <3>1, <3>4 DEF BillingInv, CompletedRefundsAreReal
    <3> QED BY <3>3, <3>5
  <2> QED BY <2>1, <2>2
<1>8. setBy' \in [{"plan", "subscription_status"} -> {"webhook", "owner", "admin", "loop"}]
  BY <1>1, <1>4 DEF Learnt, Actor, BillingInv, BillingTypeOK
<1>9. BillingTypeOK'
  <2>1. org' \in OrganizationRow
    BY <1>2, <1>3, WrittenTyped DEF BillingInv, BillingTypeOK
  <2>2. pending' \in [Workers -> UpdateRecord]
    BY <1>4, NoWorkTyped DEF BillingInv, BillingTypeOK
  <2> QED BY <1>2, <1>4, <1>5, <1>6, <1>7, <1>8, <2>1, <2>2 DEF BillingInv, BillingTypeOK
<1>10. PayPalKnows'
  BY <1>4, <1>5 DEF BillingInv, PayPalKnows
<1>11. CanceledAtPayPal'
  <2>1. DOMAIN subs' = DOMAIN subs /\ DOMAIN subs \subseteq Sub
    BY <1>5, ConstantFacts DEF BillingInv, BillingTypeOK
  <2>2. ASSUME NEW s \in DOMAIN subs', subs'[s].status = "canceled" PROVE paypal'[s] = "canceled"
    BY <1>1, <1>4, <1>5, <2>1, <2>2 DEF BillingInv, CanceledAtPayPal, Learnt
  <2> QED BY <2>2 DEF CanceledAtPayPal
<1>12. ASSUME NEW v \in Workers PROVE Learnt(pending[v])'
  <2>1. PICK q \in UpdateRecord : q = pending'[v] /\ Learnt(q)
    BY <1>4, NoWorkTyped, NothingLearnt DEF BillingInv, BillingTypeOK
  <2>2. Learnt(q)'
    BY <1>4, <1>5, <2>1 DEF Learnt
  <2> QED BY <2>1, <2>2 DEF Learnt
<1> QED BY <1>6, <1>7, <1>9, <1>10, <1>11, <1>12 DEF BillingInv

LEMMA ProceedOK ==
  ASSUME BillingInv, NEW w \in Workers, Proceed(w)
  PROVE  BillingInv'
<1>1. ASSUME Abort(w) PROVE BillingInv'
  <2>1. /\ UNCHANGED <<org, subs, payments, refunds, audit, paypal, returned, events, activated,
                      setBy, overlapped>>
        /\ pending' = [pending EXCEPT ![w] = NoWork]
    BY <1>1 DEF Abort, store, outside, history
  <2>2. BillingTypeOK'
    BY <2>1, NoWorkTyped DEF BillingInv, BillingTypeOK
  <2>3. PayPalKnows' /\ CanceledAtPayPal' /\ OnePaymentPerSale' /\ CompletedRefundsAreReal'
    BY <2>1 DEF BillingInv, PayPalKnows, CanceledAtPayPal, OnePaymentPerSale, CompletedRefundsAreReal
  <2>4. ASSUME NEW v \in Workers PROVE Learnt(pending[v])'
    <3>1. PICK q : q = pending'[v] /\ Learnt(q)
      BY <2>1, NothingLearnt DEF BillingInv, BillingTypeOK
    <3> QED BY <2>1, <3>1 DEF Learnt
  <2> QED BY <2>2, <2>3, <2>4 DEF BillingInv
<1> QED BY <1>1, CallCancelOK, CallRefundOK, CommitOK DEF Proceed

------------------------------------------------------------------------------
(* PayPal and the clock *)

\* PayPal sends an event about a subscription that has a row.
LEMMA SendsOK ==
  ASSUME BillingInv, NEW e \in Event, Sends(e), NEW s \in Sub, e.sub = s, e.type # "REFUNDED",
         paypal[s] # "none",
         paypal' \in [Sub -> {"none", "pending", "active", "canceled"}],
         \A t \in Sub : t # s => paypal'[t] = paypal[t],
         paypal[s] = "canceled" \/ e.type = "CANCELLED" => paypal'[s] = "canceled"
  PROVE  BillingInv'
<1>1. /\ events' = events \cup {e}
      /\ UNCHANGED <<org, subs, payments, refunds, audit, returned, pending, activated, setBy, overlapped>>
  BY DEF Sends, store, history
<1>2. BillingTypeOK'
  BY <1>1 DEF BillingInv, BillingTypeOK
<1>3. Len(subs) \in Nat /\ s \in Nat /\ s <= Len(subs) /\ \A f \in events : f.sub \in Sub
  BY ConstantFacts DEF BillingInv, BillingTypeOK, PayPalKnows, Event
<1>4. PayPalKnows'
  <2>1. \A t \in Sub : t > Len(subs') => paypal'[t] = "none"
    BY <1>1, <1>3, ConstantFacts DEF BillingInv, PayPalKnows
  <2>2. ASSUME NEW f \in events'
        PROVE  /\ f.type # "REFUNDED" => f.sub <= Len(subs')
               /\ f.type = "CANCELLED" => paypal'[f.sub] = "canceled"
    BY <1>1, <1>3, <2>2 DEF BillingInv, PayPalKnows
  <2> QED BY <2>1, <2>2 DEF PayPalKnows
<1> QED BY <1>1, <1>2, <1>3, <1>4, PayPalMoves DEF BillingInv, BillingTypeOK

LEMMA AboutTyped ==
  /\ \A s \in Sub, type \in {"ACTIVATED", "CANCELLED", "FAILED"} :
       About(type, s) \in Event /\ About(type, s).sub = s /\ About(type, s).type = type
  /\ \A sale \in Sale :
       /\ OfSale("COMPLETED", sale) \in Event /\ OfSale("COMPLETED", sale).sub = sale[1]
       /\ OfSale("COMPLETED", sale).type = "COMPLETED"
<1>1. ASSUME NEW s \in Sub, NEW type \in {"ACTIVATED", "CANCELLED", "FAILED"}
      PROVE  About(type, s) \in Event /\ About(type, s).sub = s /\ About(type, s).type = type
  BY DEF About, Event
<1>2. ASSUME NEW sale \in Sale
      PROVE  /\ OfSale("COMPLETED", sale) \in Event /\ OfSale("COMPLETED", sale).sub = sale[1]
             /\ OfSale("COMPLETED", sale).type = "COMPLETED"
  BY DEF OfSale, Event, Sale
<1> QED BY <1>1, <1>2

LEMMA EnvironmentOK == ASSUME BillingInv, Environment PROVE BillingInv'
<1>1. paypal \in [Sub -> {"none", "pending", "active", "canceled"}]
  BY DEF BillingInv, BillingTypeOK
\* The new row is the first PayPal hears of the subscription.
<1>2. ASSUME NEW p \in Paid, StartSubscription(p) PROVE BillingInv'
  <2>1. PICK r \in [status : RowStatus, plan : Paid] :
          r = [status |-> "approval_pending", plan |-> p] /\ r.status # "canceled"
    <3>1. PICK r : r = [status |-> "approval_pending", plan |-> p]
      OBVIOUS
    <3>2. r \in [status : RowStatus, plan : Paid] /\ r.status # "canceled"
      BY <3>1 DEF RowStatus
    <3> QED BY <3>1, <3>2
  <2>2. /\ subs' = Append(subs, r) /\ Len(subs) < MaxSubs
        /\ paypal' = [paypal EXCEPT ![Len(subs) + 1] = "pending"]
        /\ UNCHANGED <<org, payments, refunds, audit, returned, events, pending, activated, setBy,
                      overlapped>>
    BY <1>2, <2>1 DEF StartSubscription, history
  <2>3. /\ subs' \in Seq([status : RowStatus, plan : Paid]) /\ DOMAIN subs' = 1..(Len(subs) + 1)
        /\ subs'[Len(subs) + 1] = r /\ \A s \in 1..Len(subs) : subs'[s] = subs[s]
        /\ Len(subs) \in Nat
    BY <2>1, <2>2, OneMore DEF BillingInv, BillingTypeOK
  <2>4. Len(subs') = Len(subs) + 1
    BY <2>3
  <2>5. paypal' \in [Sub -> {"none", "pending", "active", "canceled"}]
        /\ \A t \in Sub : paypal'[t] = IF t = Len(subs) + 1 THEN "pending" ELSE paypal[t]
    BY <1>1, <2>2
  <2>6. \A t \in Sub : t > Len(subs) => paypal[t] = "none"
    BY DEF BillingInv, PayPalKnows
  <2>7. BillingTypeOK'
    BY <2>2, <2>3, <2>4, <2>5, ConstantFacts DEF BillingInv, BillingTypeOK
  <2>8. PayPalKnows'
    <3>1. \A t \in Sub : t > Len(subs') => paypal'[t] = "none"
      BY <2>3, <2>4, <2>5, <2>6, ConstantFacts
    <3>2. ASSUME NEW f \in events'
          PROVE  /\ f.type # "REFUNDED" => f.sub <= Len(subs')
                 /\ f.type = "CANCELLED" => paypal'[f.sub] = "canceled"
      <4>1. f \in events /\ f.sub \in Sub /\ f.sub \in Nat
        BY <2>2, ConstantFacts DEF BillingInv, BillingTypeOK, Event
      <4> QED BY <2>3, <2>4, <2>5, <2>6, <4>1, ConstantFacts DEF BillingInv, PayPalKnows
    <3> QED BY <3>1, <3>2 DEF PayPalKnows
  <2>9. \A s \in Sub : paypal[s] = "canceled" => paypal'[s] = "canceled"
    BY <2>3, <2>5, <2>6, ConstantFacts
  <2>10. \A s \in 1..Len(subs') : s > Len(subs) => subs'[s].status # "canceled"
    BY <2>1, <2>3, <2>4
  <2> QED BY <2>2, <2>3, <2>4, <2>7, <2>8, <2>9, <2>10, PayPalMoves
<1>3. ASSUME NEW s \in Sub, PayerApproves(s) PROVE BillingInv'
  <2>1. PICK e \in Event : e = About("ACTIVATED", s) /\ e.sub = s /\ e.type = "ACTIVATED"
    BY AboutTyped
  <2> QED BY <1>1, <1>3, <2>1, SendsOK DEF PayerApproves
<1>4. ASSUME NEW s \in Sub, PayPalCancels(s) PROVE BillingInv'
  <2>1. PICK e \in Event : e = About("CANCELLED", s) /\ e.sub = s /\ e.type = "CANCELLED"
    BY AboutTyped
  <2> QED BY <1>1, <1>4, <2>1, SendsOK DEF PayPalCancels
<1>5. ASSUME NEW s \in Sub, ChargeFails(s) PROVE BillingInv'
  <2>1. PICK e \in Event : e = About("FAILED", s) /\ e.sub = s /\ e.type = "FAILED"
    BY AboutTyped
  <2> QED BY <1>1, <1>5, <2>1, SendsOK DEF ChargeFails
<1>6. ASSUME NEW sale \in Sale, Charge(sale) PROVE BillingInv'
  <2>1. PICK e \in Event : e = OfSale("COMPLETED", sale) /\ e.sub = sale[1] /\ e.type = "COMPLETED"
    BY AboutTyped
  <2>2. sale[1] \in Sub
    BY DEF Sale
  <2> QED BY <1>1, <1>6, <2>1, <2>2, SendsOK DEF Charge
<1>7. CASE GrantLapses
  <2>1. /\ org' = [org EXCEPT !.plan_expires_at = "passed"]
        /\ UNCHANGED <<subs, payments, refunds, audit, paypal, returned, events, pending, activated,
                      setBy, overlapped>>
    BY <1>7 DEF GrantLapses, outside, history
  <2>2. org' \in OrganizationRow
    BY <2>1 DEF BillingInv, BillingTypeOK, OrganizationRow
  <2>3. BillingTypeOK'
    BY <2>1, <2>2 DEF BillingInv, BillingTypeOK
  <2>4. PayPalKnows' /\ CanceledAtPayPal' /\ OnePaymentPerSale' /\ CompletedRefundsAreReal'
    BY <2>1 DEF BillingInv, PayPalKnows, CanceledAtPayPal, OnePaymentPerSale, CompletedRefundsAreReal
  <2>5. \A v \in Workers : Learnt(pending[v])'
    BY <2>1 DEF BillingInv, Learnt
  <2> QED BY <2>3, <2>4, <2>5 DEF BillingInv
<1> QED BY <1>2, <1>3, <1>4, <1>5, <1>6, <1>7 DEF Environment

LEMMA BillingInvStep == BillingInv /\ [BillingNext]_billingVars => BillingInv'
<1> SUFFICES ASSUME BillingInv, [BillingNext]_billingVars PROVE BillingInv'
  OBVIOUS
<1>1. CASE UNCHANGED billingVars
  <2>1. BillingTypeOK' /\ PayPalKnows' /\ CanceledAtPayPal' /\ OnePaymentPerSale'
        /\ CompletedRefundsAreReal'
    BY <1>1 DEF billingVars, BillingInv, BillingTypeOK, PayPalKnows, CanceledAtPayPal,
                OnePaymentPerSale, CompletedRefundsAreReal
  <2>2. \A v \in Workers : Learnt(pending[v])'
    BY <1>1 DEF billingVars, BillingInv, Learnt
  <2> QED BY <2>1, <2>2 DEF BillingInv
<1>2. CASE BillingNext
  BY <1>2, DeliverOK, ManageOK, RefundOK, ProceedOK, EnvironmentOK DEF BillingNext
<1> QED BY <1>1, <1>2

------------------------------------------------------------------------------

\* The types of the tables, of PayPal's side and of the requests in memory.
THEOREM BillingTyped == BillingSpec => []BillingTypeOK
<1>1. BillingInv => BillingTypeOK
  BY DEF BillingInv
<1> QED BY BillingInvInit, BillingInvStep, <1>1, PTL DEF BillingSpec

\* No subscription that PayPal still charges is marked canceled, though calls
\* are refused, answers lost, requests aborted and webhooks repeated and reordered
\* (_cancel_superseded_subscription, cancel_subscription, apply_paypal_webhook).
THEOREM CanceledMeansCanceled == BillingSpec => []CanceledAtPayPal
<1>1. BillingInv => CanceledAtPayPal
  BY DEF BillingInv
<1> QED BY BillingInvInit, BillingInvStep, <1>1, PTL DEF BillingSpec

\* A charge is recorded once, whoever handles its webhook at the same time
\* (uq_payment_provider_id).
THEOREM SalesRecordedOnce == BillingSpec => []OnePaymentPerSale
<1>1. BillingInv => OnePaymentPerSale
  BY DEF BillingInv
<1> QED BY BillingInvInit, BillingInvStep, <1>1, PTL DEF BillingSpec

\* A refund recorded as completed has been paid by PayPal (create_prorated_refund).
THEOREM RefundsArePaid == BillingSpec => []CompletedRefundsAreReal
<1>1. BillingInv => CompletedRefundsAreReal
  BY DEF BillingInv
<1> QED BY BillingInvInit, BillingInvStep, <1>1, PTL DEF BillingSpec

------------------------------------------------------------------------------
(* Of requests that come one by one, what a payment's webhook decided from   *)
(* the rows still holds at its commit.                                       *)

Alone == \A v, w \in Workers : pending[v] # NoWork /\ pending[w] # NoWork => v = w

\* The payment of a subscription that the organization no longer follows comes
\* with no change of the organization.
Decided(r) ==
  r.sale # None => /\ r.sale[1] \in 1..Len(subs)
                   /\ KeepsUp(r.sale[1]) \/ r.org = NoUpdate

PaymentInv == ~overlapped => Alone /\ \A w \in Workers : Decided(pending[w])

LEMMA NoPayment ==
  /\ NoWork.sale = None /\ Request.sale = None
  /\ \A rows, columns : Webhook(rows, columns).sale = None /\ Quiet(rows).sale = None
  /\ Decided(NoWork)
BY DEF NoWork, Request, Webhook, Quiet, Decided

LEMMA BeginsDecided ==
  ASSUME BillingInv, PaymentInv, NEW w \in Workers, NEW r, Begin(w, r), Decided(r)
  PROVE  PaymentInv'
<1> SUFFICES ASSUME ~overlapped' PROVE Alone' /\ \A v \in Workers : Decided(pending[v])'
  BY DEF PaymentInv
<1>1. /\ UNCHANGED subs /\ \A v \in Workers : pending[v] = NoWork
      /\ pending' = [pending EXCEPT ![w] = r]
  BY DEF Begin, store
<1>2. \A v \in Workers : pending'[v] = IF v = w THEN r ELSE NoWork
  BY <1>1 DEF BillingInv, BillingTypeOK
<1>3. Alone'
  BY <1>2 DEF Alone
<1>4. ASSUME NEW v \in Workers PROVE Decided(pending[v])'
  <2>1. PICK q : q = pending'[v] /\ Decided(q)
    BY <1>2, NoPayment
  <2> QED BY <1>1, <2>1 DEF Decided, KeepsUp, HasNewerLive, IsLive, Exists
<1> QED BY <1>3, <1>4

LEMMA DeliverDecided ==
  ASSUME BillingInv, PaymentInv, NEW w \in Workers, Deliver(w)
  PROVE  PaymentInv'
<1>1. ASSUME NEW s \in Sub, ReceiveActivated(w, s) PROVE PaymentInv'
  <2>1. PICK q, h : /\ q.sale = None /\ h.sale = None
                    /\ DOMAIN q = DOMAIN NoWork /\ DOMAIN h = DOMAIN NoWork
                    /\ \/ Begin(w, [q EXCEPT !.cancel = {s}, !.activates = {s}])
                       \/ Begin(w, [h EXCEPT !.cancel = Superseded(s), !.activates = {s}])
    <3>1. PICK q : q = Quiet(RowTo(s, "active"))
      OBVIOUS
    <3>2. PICK h : h = Webhook(RowTo(s, "active"), [Onto(s) EXCEPT !.grace_period_ends_at = "unset"])
      OBVIOUS
    <3>3. /\ q.sale = None /\ h.sale = None
          /\ DOMAIN q = DOMAIN NoWork /\ DOMAIN h = DOMAIN NoWork
      BY <3>1, <3>2, NoPayment DEF Quiet, Webhook, Request
    <3> QED BY <1>1, <3>1, <3>2, <3>3 DEF ReceiveActivated
  <2>2. /\ [q EXCEPT !.cancel = {s}, !.activates = {s}].sale = None
        /\ [h EXCEPT !.cancel = Superseded(s), !.activates = {s}].sale = None
    BY <2>1 DEF NoWork
  <2> QED BY <2>1, <2>2, BeginsDecided DEF Decided
<1>2. ASSUME NEW s \in Sub, ReceiveCancelled(w, s) \/ ReceiveFailed(w, s) PROVE PaymentInv'
  BY <1>2, NoPayment, BeginsDecided DEF ReceiveCancelled, ReceiveFailed, Decided
<1>3. ASSUME NEW sale \in Sale, ReceiveCompleted(w, sale) PROVE PaymentInv'
  <2>1. sale[1] \in 1..Len(subs)
    BY <1>3, EventAbout, ConstantFacts DEF ReceiveCompleted, BillingInv, BillingTypeOK
  <2>2. CASE KeepsUp(sale[1])
    <3>1. PICK h : /\ h.sale = None /\ DOMAIN h = DOMAIN NoWork
                   /\ Begin(w, [h EXCEPT !.sale = sale])
      <4>1. PICK h : h = Webhook(RowTo(sale[1], "active"), Onto(sale[1]))
        OBVIOUS
      <4>2. h.sale = None /\ DOMAIN h = DOMAIN NoWork
        BY <4>1, NoPayment DEF Webhook, Request
      <4> QED BY <1>3, <2>2, <4>1, <4>2 DEF ReceiveCompleted
    <3>2. PICK r : r = [h EXCEPT !.sale = sale]
      OBVIOUS
    <3>3. r.sale = sale
      BY <3>1, <3>2 DEF NoWork
    <3> QED BY <2>1, <2>2, <3>1, <3>2, <3>3, BeginsDecided DEF Decided
  <2>3. CASE ~KeepsUp(sale[1])
    <3>1. PICK r : r = [Request EXCEPT !.sale = sale]
      OBVIOUS
    <3>2. r.sale = sale /\ r.org = NoUpdate
      BY <3>1 DEF Request, NoWork
    <3> QED BY <1>3, <2>1, <2>3, <3>1, <3>2, BeginsDecided DEF ReceiveCompleted, Decided
  <2> QED BY <2>2, <2>3
<1>4. ASSUME NEW sale \in Sale, ReceiveRefunded(w, sale) PROVE PaymentInv'
  <2>1. PICK i \in DOMAIN payments :
          Begin(w, [Request EXCEPT !.mark = [row |-> i, status |-> "partially_refunded"]])
    BY <1>4 DEF ReceiveRefunded
  <2>2. [Request EXCEPT !.mark = [row |-> i, status |-> "partially_refunded"]].sale = None
    BY DEF Request, NoWork
  <2> QED BY <2>1, <2>2, BeginsDecided DEF Decided
<1> QED BY <1>1, <1>2, <1>3, <1>4 DEF Deliver

LEMMA ManageDecided ==
  ASSUME BillingInv, PaymentInv, NEW w \in Workers, Manage(w) \/ Refund(w)
  PROVE  PaymentInv'
<1>1. ASSUME NEW C, NEW columns, NEW by, NEW m, NEW f,
             \/ Begin(w, [Request EXCEPT !.cancel = C, !.strict = TRUE, !.org = columns, !.by = by])
             \/ Begin(w, [Request EXCEPT !.org = columns, !.by = by])
             \/ Begin(w, [Request EXCEPT !.by = by, !.org = columns])
             \/ Begin(w, [Request EXCEPT !.mark = m, !.refund = f])
      PROVE  PaymentInv'
  <2>1. /\ [Request EXCEPT !.cancel = C, !.strict = TRUE, !.org = columns, !.by = by].sale = None
        /\ [Request EXCEPT !.org = columns, !.by = by].sale = None
        /\ [Request EXCEPT !.by = by, !.org = columns].sale = None
        /\ [Request EXCEPT !.mark = m, !.refund = f].sale = None
    BY DEF Request, NoWork
  <2> QED BY <1>1, <2>1, BeginsDecided DEF Decided
<1>2. CASE CancelSubscription(w)
  BY <1>1, <1>2 DEF CancelSubscription
<1>3. CASE \E p \in Plans : SwitchPlan(w, p)
  BY <1>1, <1>3 DEF SwitchPlan
<1>4. ASSUME NEW p, NEW st, NEW until, UpdateSubscription(w, p, st, until) PROVE PaymentInv'
  BY <1>1, <1>4 DEF UpdateSubscription
<1>5. CASE RevertExpiredPlan(w)
  BY <1>1, <1>5 DEF RevertExpiredPlan
<1>6. CASE Refund(w)
  BY <1>1, <1>6 DEF Refund, StartRefund
<1> QED BY <1>2, <1>3, <1>4, <1>5, <1>6 DEF Manage

LEMMA ProceedDecided ==
  ASSUME BillingInv, PaymentInv, NEW w \in Workers, Proceed(w)
  PROVE  PaymentInv'
<1> SUFFICES ASSUME ~overlapped' PROVE Alone' /\ \A v \in Workers : Decided(pending[v])'
  BY DEF PaymentInv
<1>1. ~overlapped /\ pending[w] # NoWork
  BY DEF Proceed, CallCancel, CallRefund, Commit, Abort, history, NoWork
<1>2. \A v \in Workers : v # w => pending[v] = NoWork
  BY <1>1 DEF PaymentInv, Alone
<1>3. PICK p \in UpdateRecord : p = pending[w] /\ Decided(p)
  BY <1>1 DEF PaymentInv, BillingInv, BillingTypeOK
<1>4. ASSUME NEW r, pending' = [pending EXCEPT ![w] = r], Decided(r)'
      PROVE  Alone' /\ \A v \in Workers : Decided(pending[v])'
  <2>1. \A v \in Workers : pending'[v] = IF v = w THEN r ELSE NoWork
    BY <1>2, <1>4 DEF BillingInv, BillingTypeOK
  <2>2. ASSUME NEW v \in Workers PROVE Decided(pending[v])'
    BY <1>4, <2>1, NoPayment DEF Decided
  <2> QED BY <2>1, <2>2 DEF Alone
\* A request that has given up, or is done.
<1>5. Decided(NoWork)'
  BY NoPayment DEF Decided
<1>6. ASSUME NEW r, r.sale = p.sale, r.org = p.org, UNCHANGED subs PROVE Decided(r)'
  BY <1>3, <1>6 DEF Decided, KeepsUp, HasNewerLive, IsLive, Exists
<1>7. ASSUME NEW s \in Sub, NEW answer \in Answer, CallCancel(w, s, answer)
      PROVE  Alone' /\ \A v \in Workers : Decided(pending[v])'
  <2>1. PICK r : r = AfterCancel(p, s, answer)
    OBVIOUS
  <2>2. r = NoWork \/ (r.sale = p.sale /\ r.org = p.org)
    BY <2>1 DEF AfterCancel, UpdateRecord
  <2>3. pending' = [pending EXCEPT ![w] = r] /\ UNCHANGED subs
    BY <1>3, <1>7, <2>1 DEF CallCancel, store
  <2> QED BY <1>4, <1>5, <1>6, <2>2, <2>3
<1>8. ASSUME NEW answer \in Answer, CallRefund(w, answer)
      PROVE  Alone' /\ \A v \in Workers : Decided(pending[v])'
  <2>1. PICK r : r = IF answer = "lost" THEN NoWork
                     ELSE [p EXCEPT !.refund.status = RefundStatus(answer)]
    OBVIOUS
  <2>2. r = NoWork \/ (r.sale = p.sale /\ r.org = p.org)
    BY <2>1 DEF UpdateRecord
  <2>3. pending' = [pending EXCEPT ![w] = r] /\ UNCHANGED subs
    BY <1>3, <1>8, <2>1 DEF CallRefund, store
  <2> QED BY <1>4, <1>5, <1>6, <2>2, <2>3
<1>9. ASSUME Commit(w) \/ Abort(w) PROVE Alone' /\ \A v \in Workers : Decided(pending[v])'
  BY <1>4, <1>5, <1>9 DEF Commit, Abort
<1> QED BY <1>7, <1>8, <1>9 DEF Proceed

\* A new checkout is not live: whom the organization follows is as before.
LEMMA EnvironmentDecided ==
  ASSUME BillingInv, PaymentInv, Environment \/ UNCHANGED billingVars
  PROVE  PaymentInv'
<1>1. UNCHANGED <<pending, overlapped>>
  BY DEF Environment, StartSubscription, PayerApproves, PayPalCancels, ChargeFails, Charge, Sends,
         GrantLapses, history, billingVars
<1>2. ASSUME NEW s \in 1..Len(subs) PROVE KeepsUp(s)' <=> KeepsUp(s)
  <2>1. CASE UNCHANGED subs
    BY <2>1 DEF KeepsUp, HasNewerLive, IsLive, Exists
  <2>2. CASE \E p \in Paid : StartSubscription(p)
    <3>1. PICK r : subs' = Append(subs, r) /\ r.status = "approval_pending"
      BY <2>2 DEF StartSubscription
    <3>2. /\ Len(subs) \in Nat /\ Len(subs') = Len(subs) + 1
          /\ subs'[Len(subs) + 1] = r /\ \A t \in 1..Len(subs) : subs'[t] = subs[t]
      BY <3>1 DEF BillingInv, BillingTypeOK
    <3>3. \A t \in Sub : IsLive(t)' <=> IsLive(t)
      BY <3>1, <3>2, ConstantFacts DEF IsLive, Exists, Live
    <3> QED BY <3>2, <3>3 DEF KeepsUp, HasNewerLive
  <2> QED BY <2>1, <2>2 DEF Environment, PayerApproves, PayPalCancels, ChargeFails, Charge, Sends,
                            GrantLapses, store, billingVars
<1>3. Len(subs) \in Nat /\ Len(subs') \in Nat /\ Len(subs) <= Len(subs')
  <2>1. Len(subs) \in Nat
    BY DEF BillingInv, BillingTypeOK
  <2>2. CASE UNCHANGED subs
    BY <2>1, <2>2
  <2>3. CASE \E p \in Paid : StartSubscription(p)
    <3>1. PICK r : subs' = Append(subs, r)
      BY <2>3 DEF StartSubscription
    <3>2. Len(subs') = Len(subs) + 1
      BY <3>1 DEF BillingInv, BillingTypeOK
    <3> QED BY <2>1, <3>2
  <2> QED BY <2>2, <2>3 DEF Environment, PayerApproves, PayPalCancels, ChargeFails, Charge, Sends,
                            GrantLapses, store, billingVars
<1>4. ASSUME ~overlapped, NEW w \in Workers PROVE Decided(pending[w])'
  <2>1. Decided(pending[w])
    BY <1>4 DEF PaymentInv
  <2>2. pending[w] = pending'[w]
    BY <1>1
  <2> QED BY <1>2, <1>3, <2>1, <2>2 DEF Decided
<1>5. ~overlapped => Alone'
  BY <1>1 DEF PaymentInv, Alone
<1> QED BY <1>1, <1>4, <1>5 DEF PaymentInv

\* The step that records a payment is the commit of what was decided.
LEMMA LatePaymentStep ==
  ASSUME BillingInv, PaymentInv, [BillingNext]_billingVars, ~overlapped',
         Len(payments') > Len(payments),
         LET s == payments'[Len(payments')].sale[1] IN subs[s].status = "canceled" \/ HasNewerLive(s)
  PROVE  org' = org
<1>1. Len(payments) \in Nat
  BY DEF BillingInv, BillingTypeOK
<1>2. payments' # payments
  BY <1>1
<1>3. PICK w \in Workers : Commit(w)
  BY <1>2 DEF BillingNext, Deliver, ReceiveActivated, ReceiveCancelled, ReceiveFailed, ReceiveCompleted,
       ReceiveRefunded, Manage, CancelSubscription, SwitchPlan, UpdateSubscription, RevertExpiredPlan,
       Refund, StartRefund, Begin, Proceed, CallCancel, CallRefund, Abort, Environment,
       StartSubscription, PayerApproves, PayPalCancels, ChargeFails, Charge, Sends, GrantLapses,
       store, billingVars
<1>4. PICK p \in UpdateRecord : p = pending[w] /\ Decided(p)
  BY <1>3 DEF Commit, PaymentInv, BillingInv, BillingTypeOK
<1>5. PICK marked : /\ payments' = IF p.sale = None THEN marked
                                  ELSE Append(marked, [sale |-> p.sale, status |-> "completed"])
                    /\ marked = IF p.mark = None THEN payments
                                ELSE [payments EXCEPT ![p.mark.row].status = p.mark.status]
  BY <1>3, <1>4 DEF Commit
<1>6. marked \in Seq([sale : Sale, status : PaymentStatus]) /\ Len(marked) = Len(payments)
  <2>1. CASE p.mark = None
    BY <1>5, <2>1 DEF BillingInv, BillingTypeOK
  <2>2. CASE p.mark # None
    <3>1. PICK m \in [row : Nat \ {0}, status : PaymentStatus] : m = p.mark
      BY <1>4, <2>2 DEF UpdateRecord
    <3>2. marked = [payments EXCEPT ![m.row].status = m.status]
      BY <1>5, <2>2, <3>1
    <3>3. payments \in Seq([sale : Sale, status : PaymentStatus])
      BY DEF BillingInv, BillingTypeOK
    <3> QED BY <3>1, <3>2, <3>3, MarkedPayments
  <2> QED BY <2>1, <2>2
<1>7. p.sale # None
  <2> SUFFICES ASSUME p.sale = None PROVE FALSE
    OBVIOUS
  <2>1. payments' = marked
    BY <1>5
  <2> QED BY <1>1, <1>6, <2>1
<1>8. payments'[Len(payments')].sale = p.sale
  <2>1. PICK q : q = [sale |-> p.sale, status |-> "completed"]
    OBVIOUS
  <2>4. q.sale = p.sale
    BY <2>1
  <2>2. payments' = Append(marked, q)
    BY <1>5, <1>7, <2>1
  <2>3. Len(payments') = Len(marked) + 1 /\ payments'[Len(marked) + 1] = q
    BY <1>6, <2>2
  <2> QED BY <2>3, <2>4
<1>9. p.org = NoUpdate
  BY <1>4, <1>7, <1>8 DEF Decided, KeepsUp
<1>10. org' = Written(NoUpdate) /\ org \in OrganizationRow
  BY <1>3, <1>4, <1>9 DEF Commit, BillingInv, BillingTypeOK
<1> QED BY <1>10 DEF Written, NoUpdate, OrganizationRow

LEMMA PaymentInvInit == BillingInit => PaymentInv
BY NoPayment DEF BillingInit, PaymentInv, Alone

LEMMA PaymentInvStep == BillingInv /\ PaymentInv /\ [BillingNext]_billingVars => PaymentInv'
BY DeliverDecided, ManageDecided, ProceedDecided, EnvironmentDecided DEF BillingNext

\* The late payment of a canceled or superseded subscription changes nothing of
\* the organization (the PAYMENT.SALE.COMPLETED branch of apply_paypal_webhook).
THEOREM LatePayments == BillingSpec => LatePaymentKeepsPlan
<1>1. BillingInv /\ PaymentInv /\ [BillingNext]_billingVars =>
        [ ~overlapped' /\ Len(payments') > Len(payments) =>
            LET s == payments'[Len(payments')].sale[1]
            IN subs[s].status = "canceled" \/ HasNewerLive(s) => org' = org ]_billingVars
  BY LatePaymentStep
<1> QED BY BillingInvInit, BillingInvStep, PaymentInvInit, PaymentInvStep, <1>1, PTL
        DEF BillingSpec, LatePaymentKeepsPlan

------------------------------------------------------------------------------
(***************************************************************************)
(* Of requests that come one by one: the subscriptions that charge at the  *)
(* same time, and whom the organization follows.  A request in memory has  *)
(* been computed from rows that are still as they were, but it has yet to  *)
(* call PayPal, and any of its calls may fail.  So the invariant says what *)
(* the store comes to once a request is committed, however its remaining   *)
(* calls turn out.                                                         *)
(***************************************************************************)

\* The status of the row of s, and what the organization's columns and their
\* history come to, once request r has been committed.
After(r, s) ==
  IF r.strict /\ s \in r.cancel THEN "canceled"
  ELSE IF r.rows[s] = None THEN subs[s].status ELSE r.rows[s]

LiveAfter(r, s) == Exists(s) /\ After(r, s) \in Live

UndisputedAfter(r, s) ==
  LiveAfter(r, s) /\ \A t \in Sub : t > s /\ Exists(t) => After(r, t) = "approval_pending"

ColumnAfter(r, c) == IF r.org[c] = None THEN org[c] ELSE r.org[c]
SetAfter(r, c) == IF r.org[c] = None THEN setBy[c] ELSE r.by

ActivatedAfter(r) == activated \cup r.activates
Excused(r) == audit \cup r.audit \cup r.cancel

\* Only rows that exist are written, and none goes back to pending approval.
WritesRows(r) ==
  /\ \A s \in Sub : r.rows[s] # None => Exists(s) /\ r.rows[s] # "approval_pending"
  /\ \A s \in r.activates : s \in Sub /\ Exists(s) /\ After(r, s) # "approval_pending"

\* Of two subscriptions that stay live, the failure to cancel one is audited.
AuditsDoubles(r) ==
  \A s, t \in ActivatedAfter(r) :
    (s < t /\ LiveAfter(r, s) /\ LiveAfter(r, t)) => s \in Excused(r) \/ t \in Excused(r)

MovesOrganization(r) ==
  \A s \in ActivatedAfter(r) : UndisputedAfter(r, s) =>
    /\ SetAfter(r, "plan") = "webhook" => ColumnAfter(r, "plan") = subs[s].plan
    /\ SetAfter(r, "subscription_status") = "webhook" =>
         ColumnAfter(r, "subscription_status") = After(r, s)

Promises(r) == WritesRows(r) /\ AuditsDoubles(r) /\ MovesOrganization(r)

ActivatedOnce == \A s \in activated : Exists(s) /\ subs[s].status # "approval_pending"

Kept == ActivatedOnce /\ DoubleBillingIsAudited /\ OrganizationFollowsNewest

SerialInv ==
  ~overlapped => Kept /\ \A w \in Workers : pending[w] # NoWork => Promises(pending[w])

\* The columns a request leaves alone, and those it sets.
LEMMA DirtyColumn ==
  ASSUME BillingInv, NEW w \in OrganizationUpdate, NEW r, r.org = Dirty(w),
         NEW c \in {"plan", "subscription_status"}
  PROVE  /\ w[c] = None => r.org[c] = None
         /\ w[c] # None => ColumnAfter(r, c) = w[c]
<1>1. c \in DOMAIN w /\ c # "grace_period_ends_at"
  BY DEF OrganizationUpdate
<1>2. r.org[c] = IF w[c] = org[c] THEN None ELSE w[c]
  BY <1>1 DEF Dirty
<1> QED BY <1>2 DEF ColumnAfter

\* A request that writes no row and speaks for no webhook.
LEMMA PromisesNothing ==
  ASSUME BillingInv, SerialInv, ~overlapped, NEW r,
         \A s \in Sub : r.rows[s] = None,
         r.cancel = {}, r.audit = {}, r.activates = {},
         r.by # "webhook" \/ (r.org["plan"] = None /\ r.org["subscription_status"] = None)
  PROVE  Promises(r)
<1>1. \A s \in Sub : After(r, s) = subs[s].status
  BY DEF After
<1>2. \A s \in Sub : /\ LiveAfter(r, s) <=> IsLive(s)
                     /\ UndisputedAfter(r, s) <=> Undisputed(s)
  BY <1>1 DEF LiveAfter, IsLive, UndisputedAfter, Undisputed
<1>3. ActivatedAfter(r) = activated /\ activated \subseteq Sub /\ Excused(r) = audit
  BY DEF ActivatedAfter, Excused, BillingInv, BillingTypeOK
<1>4. WritesRows(r)
  BY DEF WritesRows
<1>5. AuditsDoubles(r)
  BY <1>2, <1>3 DEF AuditsDoubles, SerialInv, Kept, DoubleBillingIsAudited
<1>6. MovesOrganization(r)
  BY <1>1, <1>2, <1>3 DEF MovesOrganization, SerialInv, Kept, OrganizationFollowsNewest,
     SetAfter, ColumnAfter
<1> QED BY <1>4, <1>5, <1>6 DEF Promises

\* Among the rows from one that can be canceled on, there is a newest.
LEMMA NewestExists ==
  ASSUME NEW s \in Sub, Cancelable(s)
  PROVE  s \in NewestCancelable \/ \E t \in NewestCancelable : t > s
<1> DEFINE Above == {n \in Nat : MaxSubs - n \in Sub /\ Cancelable(MaxSubs - n) /\ MaxSubs - n >= s}
<1>1. MaxSubs - s \in Above
  BY ConstantFacts
<1>2. PICK m \in Above : m \in Nat /\ \A n \in Above : m <= n
  <2>1. Above \subseteq Nat /\ Above # {}
    BY <1>1
  <2> HIDE DEF Above
  <2> QED BY <2>1, LeastNatural
<1>3. PICK t \in Sub : t = MaxSubs - m /\ Cancelable(t) /\ t >= s
  BY <1>2
<1>4. ASSUME NEW u \in Sub, u > t, Cancelable(u) PROVE FALSE
  <2>1. PICK n \in Nat : n = MaxSubs - u /\ u = MaxSubs - n
    BY ConstantFacts
  <2>2. u >= s /\ n < m
    BY <1>2, <1>3, <1>4, <2>1, ConstantFacts
  <2>3. n \in Above
    BY <1>4, <2>1, <2>2
  <2> HIDE DEF Above
  <2> QED BY <1>2, <2>2, <2>3
<1>5. t \in NewestCancelable
  BY <1>3, <1>4 DEF NewestCancelable
<1> QED BY <1>3, <1>5, ConstantFacts

\* The owner's cancellation leaves no live subscription undisputed: the newest
\* row that could be live is canceled.
LEMMA PromisesCancel ==
  ASSUME BillingInv, SerialInv, ~overlapped, NEW r,
         \A s \in Sub : r.rows[s] = None,
         r.cancel = NewestCancelable, r.strict = TRUE, r.audit = {}, r.activates = {}
  PROVE  Promises(r)
<1>1. \A s \in Sub : After(r, s) = IF s \in NewestCancelable THEN "canceled" ELSE subs[s].status
  BY DEF After
<1>2. \A s \in Sub : LiveAfter(r, s) => IsLive(s)
  BY <1>1 DEF LiveAfter, IsLive, Live
<1>3. ActivatedAfter(r) = activated /\ activated \subseteq Sub /\ audit \subseteq Excused(r)
  BY DEF ActivatedAfter, Excused, BillingInv, BillingTypeOK
<1>4. WritesRows(r)
  BY DEF WritesRows
<1>5. AuditsDoubles(r)
  BY <1>2, <1>3 DEF AuditsDoubles, SerialInv, Kept, DoubleBillingIsAudited
<1>6. ASSUME NEW s \in Sub, UndisputedAfter(r, s) PROVE FALSE
  <2>1. LiveAfter(r, s) /\ Cancelable(s) /\ s \notin NewestCancelable
    BY <1>1, <1>2, <1>6 DEF UndisputedAfter, LiveAfter, IsLive, Live, Cancelable
  <2>2. PICK t \in NewestCancelable : t > s
    BY <2>1, NewestExists
  <2>3. After(r, t) = "canceled" /\ Exists(t) /\ t \in Sub
    BY <1>1, <2>2 DEF NewestCancelable, Cancelable
  <2> QED BY <1>6, <2>2, <2>3 DEF UndisputedAfter
<1>7. MovesOrganization(r)
  BY <1>3, <1>6 DEF MovesOrganization
<1> QED BY <1>4, <1>5, <1>7 DEF Promises

\* A webhook about s writes the row of s.  Where a newer subscription is live the
\* organization is that one's; where none is, the organization follows s.
LEMMA PromisesWebhook ==
  ASSUME BillingInv, SerialInv, ~overlapped, NEW r, NEW s \in Sub, Exists(s),
         NEW st \in {"active", "past_due", "canceled"}, r.rows = RowTo(s, st),
         r.strict = FALSE, r.audit = {}, r.activates \subseteq {s},
         s \in r.activates => st = "active" /\ (s \in r.cancel \/ Superseded(s) \subseteq r.cancel),
         s \in r.activates \/ st = "canceled" \/ subs[s].status # "canceled",
         HasNewerLive(s) => r.org["plan"] = None /\ r.org["subscription_status"] = None,
         ~HasNewerLive(s) =>
           /\ ColumnAfter(r, "subscription_status") = st
           /\ \/ st = "active" /\ ColumnAfter(r, "plan") = subs[s].plan
              \/ st # "active" /\ r.org["plan"] = None
  PROVE  Promises(r)
<1>1. st # None
  BY ConstantFacts DEF RowStatus
<1>2. \A t \in Sub : After(r, t) = IF t = s THEN st ELSE subs[t].status
  BY <1>1 DEF After, RowTo
<1>3. \A t \in Sub : t # s => (LiveAfter(r, t) <=> IsLive(t))
  BY <1>2 DEF LiveAfter, IsLive
<1>4. activated \subseteq Sub /\ ActivatedAfter(r) \subseteq activated \cup {s}
  BY DEF ActivatedAfter, BillingInv, BillingTypeOK
\* One that ACTIVATED has come of before and that is live after, was live.
<1>5. ASSUME s \in activated, s \notin r.activates, st # "canceled" PROVE IsLive(s)
  <2>1. subs[s].status # "approval_pending" /\ subs[s].status # "canceled"
    BY <1>5 DEF SerialInv, Kept, ActivatedOnce
  <2>2. subs[s].status \in RowStatus
    <3>1. s \in 1..Len(subs) /\ subs \in Seq([status : RowStatus, plan : Paid])
      BY ConstantFacts DEF Exists, BillingInv, BillingTypeOK
    <3>2. PICK row \in [status : RowStatus, plan : Paid] : row = subs[s]
      BY <3>1, ElementOf
    <3> QED BY <3>2
  <2> QED BY <2>1, <2>2 DEF IsLive, Live, RowStatus
<1>6. WritesRows(r)
  BY <1>2 DEF WritesRows, RowTo
<1>7. AuditsDoubles(r)
  <2> SUFFICES ASSUME NEW u \in ActivatedAfter(r), NEW v \in ActivatedAfter(r), u < v,
                      LiveAfter(r, u), LiveAfter(r, v)
               PROVE  u \in Excused(r) \/ v \in Excused(r)
    BY DEF AuditsDoubles
  <2>1. u \in Sub /\ v \in Sub /\ u # v
    <3>1. u \in Sub /\ v \in Sub
      BY <1>4
    <3> QED BY <3>1, ConstantFacts
  <2>2. CASE s \in r.activates /\ (u = s \/ v = s)
    BY <1>3, <2>1, <2>2 DEF Excused, Superseded
  <2>3. CASE ~(s \in r.activates /\ (u = s \/ v = s))
    <3>1. u \in activated /\ v \in activated
      BY <1>4, <2>3 DEF ActivatedAfter
    <3>2. IsLive(u) /\ IsLive(v)
      BY <1>2, <1>3, <1>5, <2>1, <2>3, <3>1 DEF LiveAfter, Live
    <3> QED BY <3>1, <3>2 DEF SerialInv, Kept, DoubleBillingIsAudited, Excused
  <2> QED BY <2>2, <2>3
<1>8. MovesOrganization(r)
  <2> SUFFICES ASSUME NEW u \in ActivatedAfter(r), UndisputedAfter(r, u)
               PROVE  /\ SetAfter(r, "plan") = "webhook" => ColumnAfter(r, "plan") = subs[u].plan
                      /\ SetAfter(r, "subscription_status") = "webhook" =>
                           ColumnAfter(r, "subscription_status") = After(r, u)
    BY DEF MovesOrganization
  <2>1. u \in Sub
    BY <1>4
  <2>2. ASSUME u = s PROVE ~HasNewerLive(s)
    <3> SUFFICES ASSUME NEW t \in Sub, t > s, IsLive(t) PROVE FALSE
      BY DEF HasNewerLive
    <3>1. t # s /\ Exists(t) /\ subs[t].status \in Live
      BY ConstantFacts DEF IsLive
    <3>2. After(r, t) = "approval_pending"
      BY <2>2, <3>1 DEF UndisputedAfter
    <3> QED BY <1>2, <3>1, <3>2 DEF Live
  <2>3. CASE u = s /\ st = "active"
    BY <1>2, <2>2, <2>3
  <2>4. CASE u = s /\ st # "active"
    <3>1. After(r, s) = st /\ st \in Live
      BY <1>2, <2>4 DEF UndisputedAfter, LiveAfter
    <3>2. s \in activated /\ s \notin r.activates /\ IsLive(s)
      BY <1>4, <1>5, <2>4, <3>1 DEF ActivatedAfter, Live
    <3>3. Undisputed(s)
      <4>1. ASSUME NEW t \in Sub, t > s, Exists(t) PROVE subs[t].status = "approval_pending"
        <5>1. t # s
          BY <4>1, ConstantFacts
        <5> QED BY <1>2, <2>4, <4>1, <5>1 DEF UndisputedAfter
      <4> QED BY <3>2, <4>1 DEF Undisputed
    <3>4. setBy["plan"] = "webhook" => org["plan"] = subs[s].plan
      BY <3>2, <3>3 DEF SerialInv, Kept, OrganizationFollowsNewest
    <3> QED BY <2>2, <2>4, <3>1, <3>4 DEF SetAfter, ColumnAfter
  <2>5. CASE u # s
    <3>1. u \in activated /\ IsLive(u) /\ After(r, u) = subs[u].status
      BY <1>2, <1>3, <1>4, <2>1, <2>5 DEF UndisputedAfter
    <3>2. u > s
      BY <1>2, <2>1, <2>5, ConstantFacts DEF UndisputedAfter
    <3>3. HasNewerLive(s)
      BY <2>1, <3>1, <3>2 DEF HasNewerLive
    <3>4. Undisputed(u)
      BY <1>2, <2>1, <3>1, <3>2, ConstantFacts DEF Undisputed, UndisputedAfter
    <3> QED BY <3>1, <3>3, <3>4
            DEF SetAfter, ColumnAfter, SerialInv, Kept, OrganizationFollowsNewest
  <2> QED BY <2>3, <2>4, <2>5
<1> QED BY <1>6, <1>7, <1>8 DEF Promises

\* What is promised of a store stays promised while the store stays.
LEMMA PromisesStay ==
  ASSUME UNCHANGED <<org, subs, audit, activated, setBy>>, NEW r, Promises(r)
  PROVE  Promises(r)'
<1>1. \A s : Exists(s)' = Exists(s) /\ After(r, s)' = After(r, s)
  BY DEF Exists, After
<1>2. \A s : LiveAfter(r, s)' = LiveAfter(r, s)
  BY <1>1 DEF LiveAfter
<1>3. WritesRows(r)' /\ AuditsDoubles(r)'
  BY <1>1, <1>2 DEF Promises, WritesRows, AuditsDoubles, ActivatedAfter, Excused
<1>4. MovesOrganization(r)'
  BY <1>1, <1>2 DEF Promises, MovesOrganization, UndisputedAfter, ActivatedAfter,
     SetAfter, ColumnAfter
<1> QED BY <1>3, <1>4 DEF Promises

LEMMA KeptStays ==
  ASSUME UNCHANGED <<org, subs, audit, activated, setBy>>, Kept, ~overlapped
  PROVE  Kept'
BY DEF Kept, ActivatedOnce, DoubleBillingIsAudited, OrganizationFollowsNewest, Undisputed, IsLive,
   Exists

\* After a step of the only request in flight.
LEMMA OneInFlight ==
  ASSUME BillingInv, NEW w \in Workers, NEW r, pending' = [pending EXCEPT ![w] = r],
         \A v \in Workers : v # w => pending[v] = NoWork,
         r # NoWork => Promises(r)'
  PROVE  \A v \in Workers : (pending[v] # NoWork => Promises(pending[v]))'
<1>1. \A v \in Workers : pending'[v] = IF v = w THEN r ELSE NoWork
  BY DEF BillingInv, BillingTypeOK
<1>2. ASSUME NEW v \in Workers, pending'[v] # NoWork PROVE Promises(pending[v])'
  <2>1. pending'[v] = r
    BY <1>1, <1>2
  <2> QED BY <1>2, <2>1 DEF Promises, WritesRows, AuditsDoubles, MovesOrganization,
             UndisputedAfter, LiveAfter, After, ActivatedAfter, SetAfter, ColumnAfter, Excused
<1> QED BY <1>2

\* A request begins: the store is as it was.
LEMMA BeginsPromised ==
  ASSUME BillingInv, SerialInv, NEW w \in Workers, NEW r, Begin(w, r),
         ~overlapped => Promises(r)
  PROVE  SerialInv'
<1> SUFFICES ASSUME ~overlapped'
             PROVE  Kept' /\ \A v \in Workers : (pending[v] # NoWork => Promises(pending[v]))'
  BY DEF SerialInv
<1>1. /\ UNCHANGED <<org, subs, audit, activated, setBy>> /\ ~overlapped
      /\ \A v \in Workers : pending[v] = NoWork
      /\ pending' = [pending EXCEPT ![w] = r]
  BY DEF Begin, store
<1>2. Kept'
  BY <1>1, KeptStays DEF SerialInv
<1>3. Promises(r)'
  BY <1>1, PromisesStay
<1> QED BY <1>1, <1>2, <1>3, OneInFlight

\* What the fields of a webhook's request are.
OfWebhook(r, rows, columns) ==
  /\ r.rows = rows /\ r.org = columns /\ r.strict = FALSE /\ r.audit = {}

LEMMA QuietFields ==
  ASSUME NEW rows, NEW r, r = Quiet(rows)
  PROVE  /\ OfWebhook(r, rows, NoUpdate) /\ r.activates = {} /\ r.cancel = {}
         /\ DOMAIN r = DOMAIN NoWork
BY DEF Quiet, Request, NoWork, OfWebhook

LEMMA WebhookFields ==
  ASSUME NEW rows, NEW columns, NEW r, r = Webhook(rows, columns)
  PROVE  /\ OfWebhook(r, rows, Dirty(columns)) /\ r.activates = {} /\ r.cancel = {}
         /\ DOMAIN r = DOMAIN NoWork
<1>1. PICK dirty : dirty = Dirty(columns)
  OBVIOUS
<1> QED BY <1>1 DEF Webhook, Request, NoWork, OfWebhook

LEMMA PaidFields ==
  ASSUME NEW q, DOMAIN q = DOMAIN NoWork, NEW rows, NEW columns, OfWebhook(q, rows, columns),
         q.activates = {}, q.cancel = {}, NEW sale, NEW r, r = [q EXCEPT !.sale = sale]
  PROVE  OfWebhook(r, rows, columns) /\ r.cancel = {} /\ r.activates = {}
BY DEF NoWork, OfWebhook

\* No plan of a row is NULL.
LEMMA PlanNamed ==
  ASSUME BillingInv, NEW s \in Sub, Exists(s)
  PROVE  subs[s].plan # None /\ "active" # None
<1>1. PICK row \in [status : RowStatus, plan : Paid] : row = subs[s]
  <2>1. s \in 1..Len(subs) /\ subs \in Seq([status : RowStatus, plan : Paid])
    BY ConstantFacts DEF Exists, BillingInv, BillingTypeOK
  <2> QED BY <2>1, ElementOf
<1> QED BY <1>1, BillingAssumption DEF Plans

\* A subscription a webhook is about has a row, and a plan to move onto.
LEMMA OntoColumns ==
  ASSUME BillingInv, NEW s \in Sub, Exists(s), NEW r,
         NEW w \in {Onto(s), [Onto(s) EXCEPT !.grace_period_ends_at = "unset"]}, r.org = Dirty(w)
  PROVE  /\ ColumnAfter(r, "subscription_status") = "active"
         /\ ColumnAfter(r, "plan") = subs[s].plan
<1>1. w \in OrganizationUpdate
  BY ColumnsTyped DEF Exists, BillingInv
<1>2. w["subscription_status"] = "active" /\ w["plan"] = subs[s].plan
  BY DEF Onto, NoUpdate
<1>3. "active" # None /\ subs[s].plan # None
  BY PlanNamed
<1> QED BY <1>1, <1>2, <1>3, DirtyColumn

\* Every webhook promises to keep what the store is to keep.
LEMMA DeliverPromised ==
  ASSUME BillingInv, SerialInv, NEW w \in Workers, Deliver(w)
  PROVE  SerialInv'
<1> USE ConstantFacts
<1>0. NoUpdate["plan"] = None /\ NoUpdate["subscription_status"] = None
  BY DEF NoUpdate
<1>1. ASSUME NEW s \in Sub, ReceiveActivated(w, s) PROVE SerialInv'
  <2>1. Exists(s)
    BY <1>1, EventAbout DEF ReceiveActivated, Exists
  <2>2. CASE HasNewerLive(s)
    <3>0. PICK q : q = Quiet(RowTo(s, "active"))
      OBVIOUS
    <3>1. PICK r : r = [q EXCEPT !.cancel = {s}, !.activates = {s}]
      OBVIOUS
    <3>2. Begin(w, r)
      BY <1>1, <2>2, <3>0, <3>1 DEF ReceiveActivated
    <3>3. OfWebhook(r, RowTo(s, "active"), NoUpdate) /\ r.cancel = {s} /\ r.activates = {s}
      <4>1. OfWebhook(q, RowTo(s, "active"), NoUpdate) /\ DOMAIN q = DOMAIN NoWork
        BY <3>0, QuietFields
      <4> QED BY <3>1, <4>1 DEF NoWork, OfWebhook
    <3>4. ~overlapped => Promises(r)
      BY <1>0, <2>1, <2>2, <3>3, PromisesWebhook DEF OfWebhook
    <3> QED BY <3>2, <3>4, BeginsPromised
  <2>3. CASE ~HasNewerLive(s)
    <3>0. PICK columns : columns = [Onto(s) EXCEPT !.grace_period_ends_at = "unset"]
      OBVIOUS
    <3>1. PICK q : q = Webhook(RowTo(s, "active"), columns)
      OBVIOUS
    <3>2. PICK r : r = [q EXCEPT !.cancel = Superseded(s), !.activates = {s}]
      OBVIOUS
    <3>3. Begin(w, r)
      BY <1>1, <2>3, <3>0, <3>1, <3>2 DEF ReceiveActivated
    <3>4. /\ OfWebhook(r, RowTo(s, "active"), Dirty(columns))
          /\ r.cancel = Superseded(s) /\ r.activates = {s}
      <4>1. OfWebhook(q, RowTo(s, "active"), Dirty(columns)) /\ DOMAIN q = DOMAIN NoWork
        BY <3>1, WebhookFields
      <4> QED BY <3>2, <4>1 DEF NoWork, OfWebhook
    <3>5. /\ ColumnAfter(r, "subscription_status") = "active"
          /\ ColumnAfter(r, "plan") = subs[s].plan
      BY <2>1, <3>0, <3>4, OntoColumns DEF OfWebhook
    <3>6. ~overlapped => Promises(r)
      BY <2>1, <2>3, <3>4, <3>5, PromisesWebhook DEF OfWebhook
    <3> QED BY <3>3, <3>6, BeginsPromised
  <2> QED BY <2>2, <2>3
<1>2. ASSUME NEW s \in Sub, ReceiveCancelled(w, s) PROVE SerialInv'
  <2>1. Exists(s)
    BY <1>2, EventAbout DEF ReceiveCancelled, Exists
  <2>2. CASE HasNewerLive(s)
    <3>1. PICK r : r = Quiet(RowTo(s, "canceled"))
      OBVIOUS
    <3>2. Begin(w, r)
      BY <1>2, <2>2, <3>1 DEF ReceiveCancelled
    <3>3. OfWebhook(r, RowTo(s, "canceled"), NoUpdate) /\ r.activates = {}
      BY <3>1, QuietFields
    <3>4. ~overlapped => Promises(r)
      BY <1>0, <2>1, <2>2, <3>3, PromisesWebhook DEF OfWebhook
    <3> QED BY <3>2, <3>4, BeginsPromised
  <2>3. CASE ~HasNewerLive(s)
    <3>1. PICK r : r = Webhook(RowTo(s, "canceled"), Canceled)
      OBVIOUS
    <3>w. OfWebhook(r, RowTo(s, "canceled"), Dirty(Canceled)) /\ r.activates = {}
      BY <3>1, WebhookFields
    <3>2. Begin(w, r)
      BY <1>2, <2>3, <3>1 DEF ReceiveCancelled
    <3>3. ColumnAfter(r, "subscription_status") = "canceled" /\ r.org["plan"] = None
      <4>1. Canceled \in OrganizationUpdate
        BY ColumnsTyped
      <4>2. Canceled["plan"] = None /\ Canceled["subscription_status"] = "canceled"
        BY DEF Canceled, NoUpdate
      <4>3. "canceled" # None
        BY DEF RowStatus
      <4> QED BY <3>w, <4>1, <4>2, <4>3, DirtyColumn DEF OfWebhook
    <3>4. ~overlapped => Promises(r)
      BY <2>1, <2>3, <3>w, <3>3, PromisesWebhook DEF OfWebhook
    <3> QED BY <3>2, <3>4, BeginsPromised
  <2> QED BY <2>2, <2>3
<1>3. ASSUME NEW s \in Sub, ReceiveFailed(w, s) PROVE SerialInv'
  <2>1. Exists(s) /\ subs[s].status # "canceled"
    BY <1>3, EventAbout DEF ReceiveFailed, Exists
  <2>2. CASE HasNewerLive(s)
    <3>1. PICK r : r = Quiet(RowTo(s, "past_due"))
      OBVIOUS
    <3>2. Begin(w, r)
      BY <1>3, <2>2, <3>1 DEF ReceiveFailed
    <3>3. OfWebhook(r, RowTo(s, "past_due"), NoUpdate) /\ r.activates = {}
      BY <3>1, QuietFields
    <3>4. ~overlapped => Promises(r)
      BY <1>0, <2>1, <2>2, <3>3, PromisesWebhook DEF OfWebhook
    <3> QED BY <3>2, <3>4, BeginsPromised
  <2>3. CASE ~HasNewerLive(s)
    <3>0. PICK columns \in OrganizationUpdate :
            columns = [NoUpdate EXCEPT !.subscription_status = "past_due"]
      BY ColumnsTyped
    <3>1. PICK r : r = Webhook(RowTo(s, "past_due"), columns)
      OBVIOUS
    <3>w. OfWebhook(r, RowTo(s, "past_due"), Dirty(columns)) /\ r.activates = {}
      BY <3>1, WebhookFields
    <3>2. Begin(w, r)
      BY <1>3, <2>3, <3>0, <3>1 DEF ReceiveFailed
    <3>3. ColumnAfter(r, "subscription_status") = "past_due" /\ r.org["plan"] = None
      <4>1. columns["plan"] = None /\ columns["subscription_status"] = "past_due"
        BY <3>0 DEF NoUpdate
      <4>2. "past_due" # None
        BY DEF RowStatus
      <4> QED BY <3>w, <4>1, <4>2, DirtyColumn DEF OfWebhook
    <3>4. ~overlapped => Promises(r)
      BY <2>1, <2>3, <3>w, <3>3, PromisesWebhook DEF OfWebhook
    <3> QED BY <3>2, <3>4, BeginsPromised
  <2> QED BY <2>2, <2>3
<1>4. ASSUME NEW sale \in Sale, ReceiveCompleted(w, sale) PROVE SerialInv'
  <2>1. PICK s \in Sub : s = sale[1] /\ Exists(s)
    BY <1>4, EventAbout DEF ReceiveCompleted, Exists
  <2>2. CASE KeepsUp(s)
    <3>0. PICK q : q = Webhook(RowTo(s, "active"), Onto(s))
      OBVIOUS
    <3>1. PICK r : r = [q EXCEPT !.sale = sale]
      OBVIOUS
    <3>2. Begin(w, r)
      BY <1>4, <2>1, <2>2, <3>0, <3>1 DEF ReceiveCompleted
    <3>3. OfWebhook(r, RowTo(s, "active"), Dirty(Onto(s))) /\ r.activates = {}
      BY <3>0, <3>1, WebhookFields, PaidFields
    <3>4. /\ ColumnAfter(r, "subscription_status") = "active"
          /\ ColumnAfter(r, "plan") = subs[s].plan
      BY <2>1, <3>3, OntoColumns DEF OfWebhook
    <3>5. ~overlapped => Promises(r)
      BY <2>1, <2>2, <3>3, <3>4, PromisesWebhook DEF KeepsUp, OfWebhook
    <3> QED BY <3>2, <3>5, BeginsPromised
  <2>3. CASE ~KeepsUp(s)
    <3>1. PICK r : r = [Request EXCEPT !.sale = sale]
      OBVIOUS
    <3>2. Begin(w, r)
      BY <1>4, <2>1, <2>3, <3>1 DEF ReceiveCompleted
    <3>3. /\ (\A t \in Sub : r.rows[t] = None) /\ r.org = NoUpdate
          /\ r.cancel = {} /\ r.audit = {} /\ r.activates = {}
      BY <3>1 DEF Request, NoWork
    <3> QED BY <1>0, <3>2, <3>3, PromisesNothing, BeginsPromised
  <2> QED BY <2>2, <2>3
<1>5. ASSUME NEW sale \in Sale, ReceiveRefunded(w, sale) PROVE SerialInv'
  <2>1. PICK mark : Begin(w, [Request EXCEPT !.mark = mark])
    BY <1>5 DEF ReceiveRefunded
  <2>2. PICK r : r = [Request EXCEPT !.mark = mark]
    OBVIOUS
  <2>3. /\ (\A t \in Sub : r.rows[t] = None) /\ r.org = NoUpdate
        /\ r.cancel = {} /\ r.audit = {} /\ r.activates = {}
    BY <2>2 DEF Request, NoWork
  <2> QED BY <1>0, <2>1, <2>2, <2>3, PromisesNothing, BeginsPromised
<1> QED BY <1>1, <1>2, <1>3, <1>4, <1>5 DEF Deliver

\* Requests of the owner, of a platform admin, of the expiry loop, and refunds.
LEMMA ManagePromised ==
  ASSUME BillingInv, SerialInv, NEW w \in Workers, Manage(w) \/ Refund(w)
  PROVE  SerialInv'
<1>1. ASSUME NEW columns, NEW by \in {"owner", "admin", "loop"},
             \/ Begin(w, [Request EXCEPT !.org = columns, !.by = by])
             \/ Begin(w, [Request EXCEPT !.by = by, !.org = columns])
      PROVE  SerialInv'
  <2>1. PICK r : /\ \/ r = [Request EXCEPT !.org = columns, !.by = by]
                    \/ r = [Request EXCEPT !.by = by, !.org = columns]
                 /\ Begin(w, r)
    BY <1>1
  <2>2. /\ (\A t \in Sub : r.rows[t] = None) /\ r.by = by
        /\ r.cancel = {} /\ r.audit = {} /\ r.activates = {}
    <3>1. CASE r = [Request EXCEPT !.org = columns, !.by = by]
      BY <3>1 DEF Request, NoWork
    <3>2. CASE r = [Request EXCEPT !.by = by, !.org = columns]
      BY <3>2 DEF Request, NoWork
    <3> QED BY <2>1, <3>1, <3>2
  <2>3. r.by # "webhook"
    BY <2>2
  <2> QED BY <2>1, <2>2, <2>3, PromisesNothing, BeginsPromised
<1>2. CASE CancelSubscription(w)
  <2>0. PICK columns : columns = Dirty(Canceled)
    OBVIOUS
  <2>1. PICK r : r = [Request EXCEPT !.cancel = NewestCancelable, !.strict = TRUE,
                                     !.org = columns, !.by = "owner"]
    OBVIOUS
  <2>2. Begin(w, r)
    BY <1>2, <2>0, <2>1 DEF CancelSubscription
  <2>3. /\ (\A t \in Sub : r.rows[t] = None)
        /\ r.cancel = NewestCancelable /\ r.strict = TRUE
        /\ r.audit = {} /\ r.activates = {}
    BY <2>1 DEF Request, NoWork
  <2> QED BY <2>2, <2>3, PromisesCancel, BeginsPromised
<1>3. CASE \E p \in Plans : SwitchPlan(w, p)
  BY <1>1, <1>3 DEF SwitchPlan
<1>4. ASSUME NEW p, NEW st, NEW until, UpdateSubscription(w, p, st, until) PROVE SerialInv'
  BY <1>1, <1>4 DEF UpdateSubscription
<1>5. CASE RevertExpiredPlan(w)
  BY <1>1, <1>5 DEF RevertExpiredPlan
<1>6. CASE Refund(w)
  <2>1. PICK mark, refund : Begin(w, [Request EXCEPT !.mark = mark, !.refund = refund])
    BY <1>6 DEF Refund, StartRefund
  <2>2. PICK r : r = [Request EXCEPT !.mark = mark, !.refund = refund]
    OBVIOUS
  <2>4. /\ (\A t \in Sub : r.rows[t] = None) /\ r.org = NoUpdate
        /\ r.cancel = {} /\ r.audit = {} /\ r.activates = {}
    BY <2>2 DEF Request, NoWork
  <2>3. NoUpdate["plan"] = None /\ NoUpdate["subscription_status"] = None
    BY DEF NoUpdate
  <2> QED BY <2>1, <2>2, <2>3, <2>4, PromisesNothing, BeginsPromised
<1> QED BY <1>2, <1>3, <1>4, <1>5, <1>6 DEF Manage

\* A call of a request makes it cancel less, or write more rows canceled, or
\* audit more; it promises what it did.
LEMMA PromisesLess ==
  ASSUME NEW p, Promises(p), NEW r,
         r.activates = p.activates, r.org = p.org, r.by = p.by, activated \cup p.activates \subseteq Sub,
         \A t \in Sub : r.rows[t] # None => r.rows[t] = p.rows[t] \/ (Exists(t) /\ r.rows[t] = "canceled"),
         \A t \in Sub : After(r, t) = After(p, t) \/ After(r, t) = "canceled",
         \A t \in Excused(p) : t \in Excused(r) \/ After(r, t) = "canceled"
  PROVE  Promises(r)
<1>1. ActivatedAfter(r) = ActivatedAfter(p) /\ ActivatedAfter(p) \subseteq Sub
  BY DEF ActivatedAfter
<1>2. \A t \in Sub : LiveAfter(r, t) => LiveAfter(p, t) /\ After(r, t) = After(p, t)
  BY DEF LiveAfter, Live
<1>3. WritesRows(r)
  BY DEF Promises, WritesRows
<1>4. AuditsDoubles(r)
  BY <1>1, <1>2 DEF Promises, AuditsDoubles, LiveAfter, Live
<1>5. \A s \in Sub : UndisputedAfter(r, s) => UndisputedAfter(p, s) /\ After(r, s) = After(p, s)
  BY <1>2 DEF UndisputedAfter
<1>6. MovesOrganization(r)
  BY <1>1, <1>5 DEF Promises, MovesOrganization, SetAfter, ColumnAfter
<1> QED BY <1>3, <1>4, <1>6 DEF Promises

\* A request goes on: it calls PayPal, is committed, or fails.
LEMMA ProceedPromised ==
  ASSUME BillingInv, PaymentInv, SerialInv, NEW w \in Workers, Proceed(w)
  PROVE  SerialInv'
<1> USE ConstantFacts
<1> SUFFICES ASSUME ~overlapped'
             PROVE  Kept' /\ \A v \in Workers : (pending[v] # NoWork => Promises(pending[v]))'
  BY DEF SerialInv
<1>1. ~overlapped /\ pending[w] # NoWork
  BY DEF Proceed, CallCancel, CallRefund, Commit, Abort, history, NoWork
<1>2. \A v \in Workers : v # w => pending[v] = NoWork
  BY <1>1 DEF PaymentInv, Alone
<1>3. PICK p \in UpdateRecord : p = pending[w] /\ Promises(p) /\ Learnt(p)
  BY <1>1 DEF SerialInv, BillingInv, BillingTypeOK
<1>4. activated \cup p.activates \subseteq Sub
  BY <1>3 DEF UpdateRecord, BillingInv, BillingTypeOK
\* A call writes nothing.
<1>5. ASSUME NEW r, pending' = [pending EXCEPT ![w] = r], r = NoWork \/ Promises(r),
             UNCHANGED <<org, subs, audit, activated, setBy>>
      PROVE  Kept' /\ \A v \in Workers : (pending[v] # NoWork => Promises(pending[v]))'
  <2>1. Kept'
    BY <1>1, <1>5, KeptStays DEF SerialInv
  <2>2. r # NoWork => Promises(r)'
    BY <1>5, PromisesStay
  <2> QED BY <1>2, <1>5, <2>1, <2>2, OneInFlight
<1>6. ASSUME NEW s \in Sub, NEW answer \in Answer, CallCancel(w, s, answer)
      PROVE  Kept' /\ \A v \in Workers : (pending[v] # NoWork => Promises(pending[v]))'
  <2>1. PICK r : r = AfterCancel(p, s, answer)
    OBVIOUS
  <2>2. /\ pending' = [pending EXCEPT ![w] = r]
        /\ UNCHANGED <<org, subs, audit, activated, setBy>>
        /\ s \in p.cancel
    BY <1>3, <1>6, <2>1 DEF CallCancel, store, history
  <2>3. Exists(s)
    BY <1>3, <2>2 DEF Learnt, Exists
  <2>4. CASE answer = "done"
    <3>1. r = [p EXCEPT !.cancel = p.cancel \ {s}, !.rows[s] = "canceled"]
      BY <2>1, <2>4 DEF AfterCancel
    <3>2. /\ r.activates = p.activates /\ r.org = p.org /\ r.by = p.by /\ r.audit = p.audit
          /\ r.cancel = p.cancel \ {s} /\ r.strict = p.strict
          /\ \A t \in Sub : r.rows[t] = IF t = s THEN "canceled" ELSE p.rows[t]
      BY <1>3, <3>1 DEF UpdateRecord
    <3>3. \A t \in Sub : After(r, t) = IF t = s THEN "canceled" ELSE After(p, t)
      BY <3>2 DEF After, RowStatus
    <3>4. \A t \in Excused(p) : t \in Excused(r) \/ After(r, t) = "canceled"
      BY <3>2, <3>3 DEF Excused
    <3>5. Promises(r)
      BY <1>3, <1>4, <2>3, <3>2, <3>3, <3>4, PromisesLess
    <3> QED BY <1>5, <2>2, <3>5
  <2>5. CASE answer # "done" /\ p.strict
    BY <1>5, <2>1, <2>2, <2>5 DEF AfterCancel
  <2>6. CASE answer # "done" /\ ~p.strict
    <3>1. r = [p EXCEPT !.cancel = p.cancel \ {s}, !.audit = p.audit \cup {s}]
      BY <2>1, <2>6 DEF AfterCancel
    <3>2. /\ r.activates = p.activates /\ r.org = p.org /\ r.by = p.by /\ r.audit = p.audit \cup {s}
          /\ r.cancel = p.cancel \ {s} /\ r.strict = p.strict /\ r.rows = p.rows
      BY <1>3, <3>1 DEF UpdateRecord
    <3>3. \A t \in Sub : After(r, t) = After(p, t)
      BY <2>6, <3>2 DEF After
    <3>4. \A t \in Excused(p) : t \in Excused(r)
      BY <3>2 DEF Excused
    <3>5. Promises(r)
      BY <1>3, <1>4, <3>2, <3>3, <3>4, PromisesLess
    <3> QED BY <1>5, <2>2, <3>5
  <2> QED BY <2>4, <2>5, <2>6
<1>7. ASSUME NEW answer \in Answer, CallRefund(w, answer)
      PROVE  Kept' /\ \A v \in Workers : (pending[v] # NoWork => Promises(pending[v]))'
  <2>1. PICK r : r = IF answer = "lost" THEN NoWork
                     ELSE [p EXCEPT !.refund.status = RefundStatus(answer)]
    OBVIOUS
  <2>2. /\ pending' = [pending EXCEPT ![w] = r]
        /\ UNCHANGED <<org, subs, audit, activated, setBy>>
    BY <1>3, <1>7, <2>1 DEF CallRefund, store, history
  <2>3. CASE answer = "lost"
    BY <1>5, <2>1, <2>2, <2>3
  <2>4. CASE answer # "lost"
    <3>1. /\ r.activates = p.activates /\ r.org = p.org /\ r.by = p.by /\ r.audit = p.audit
          /\ r.cancel = p.cancel /\ r.strict = p.strict /\ r.rows = p.rows
      BY <1>3, <2>1, <2>4 DEF UpdateRecord
    <3>2. \A t \in Sub : After(r, t) = After(p, t)
      BY <3>1 DEF After
    <3>3. Excused(p) = Excused(r)
      BY <3>1 DEF Excused
    <3>4. Promises(r)
      BY <1>3, <1>4, <3>1, <3>2, <3>3, PromisesLess
    <3> QED BY <1>5, <2>2, <3>4
  <2> QED BY <2>3, <2>4
<1>8. CASE Commit(w)
  <2>1. /\ org' = Written(p.org)
        /\ subs' = [s \in DOMAIN subs |->
                      IF p.rows[s] = None THEN subs[s] ELSE [subs[s] EXCEPT !.status = p.rows[s]]]
        /\ audit' = audit \cup p.audit /\ activated' = activated \cup p.activates
        /\ setBy' = [c \in DOMAIN setBy |-> IF p.org[c] = None THEN setBy[c] ELSE p.by]
        /\ pending' = [pending EXCEPT ![w] = NoWork]
        /\ p.cancel = {}
    BY <1>3, <1>8 DEF Commit, Called
  <2>2. Len(subs') = Len(subs) /\ DOMAIN subs = 1..Len(subs)
    BY <1>3, <2>1, RowsWritten DEF UpdateRecord, BillingInv, BillingTypeOK
  <2>3. \A s \in DOMAIN subs : /\ subs'[s].plan = subs[s].plan
                               /\ subs'[s].status = IF p.rows[s] = None THEN subs[s].status
                                                     ELSE p.rows[s]
    BY <1>3, <2>1, RowsWritten DEF UpdateRecord, BillingInv, BillingTypeOK
  <2>4. \A s \in Sub : /\ Exists(s)' = Exists(s)
                       /\ Exists(s) => subs'[s].plan = subs[s].plan /\ subs'[s].status = After(p, s)
    BY <2>1, <2>2, <2>3 DEF Exists, After
  <2>5. \A s \in Sub : IsLive(s)' = LiveAfter(p, s)
    BY <2>4 DEF IsLive, LiveAfter
  <2>6. \A s \in Sub : Undisputed(s)' => UndisputedAfter(p, s)
    BY <2>4, <2>5 DEF Undisputed, UndisputedAfter
  <2>7. /\ activated' = ActivatedAfter(p) /\ ActivatedAfter(p) \subseteq Sub /\ audit' = Excused(p)
    BY <1>4, <2>1 DEF ActivatedAfter, Excused
  <2>8. ActivatedOnce'
    <3>1. ASSUME NEW s \in activated' PROVE Exists(s)' /\ subs'[s].status # "approval_pending"
      <4>1. CASE s \in p.activates
        BY <1>3, <1>4, <2>4, <4>1 DEF Promises, WritesRows
      <4>2. CASE s \in activated
        <5>1. Exists(s) /\ subs[s].status # "approval_pending" /\ s \in Sub
          BY <1>1, <1>4, <4>2 DEF SerialInv, Kept, ActivatedOnce
        <5>2. After(p, s) # "approval_pending"
          BY <1>3, <2>1, <5>1 DEF After, Promises, WritesRows
        <5> QED BY <2>4, <5>1, <5>2
      <4> QED BY <2>1, <4>1, <4>2
    <3> QED BY <3>1 DEF ActivatedOnce
  <2>9. DoubleBillingIsAudited'
    BY <1>3, <2>5, <2>7 DEF DoubleBillingIsAudited, Promises, AuditsDoubles
  <2>10. OrganizationFollowsNewest'
    <3>1. \A c \in {"plan", "subscription_status"} :
            org'[c] = ColumnAfter(p, c) /\ setBy'[c] = SetAfter(p, c)
      BY <2>1 DEF Written, ColumnAfter, SetAfter, BillingInv, BillingTypeOK, OrganizationRow
    <3>2. ASSUME NEW s \in activated', Undisputed(s)'
          PROVE  /\ setBy'["plan"] = "webhook" => org'["plan"] = subs'[s].plan
                 /\ setBy'["subscription_status"] = "webhook" =>
                      org'["subscription_status"] = subs'[s].status
      <4>1. s \in ActivatedAfter(p) /\ s \in Sub /\ UndisputedAfter(p, s) /\ Exists(s)
        BY <2>6, <2>7, <3>2 DEF UndisputedAfter, LiveAfter
      <4> QED BY <1>3, <2>4, <3>1, <4>1 DEF Promises, MovesOrganization
    <3> QED BY <3>2 DEF OrganizationFollowsNewest
  <2> QED BY <1>2, <2>1, <2>8, <2>9, <2>10, OneInFlight DEF Kept
<1>9. CASE Abort(w)
  BY <1>5, <1>9 DEF Abort, store, history
<1> QED BY <1>6, <1>7, <1>8, <1>9 DEF Proceed

\* A refund asked for changes no subscription.
LEMMA RefundPromised ==
  ASSUME BillingInv, SerialInv, NEW w \in Workers, Refund(w)
  PROVE  SerialInv'
<1>1. PICK whole \in BOOLEAN, i \in DOMAIN payments :
        Begin(w, [Request EXCEPT
            !.mark = [row |-> i, status |-> IF whole THEN "refunded" ELSE "partially_refunded"],
            !.refund = [sale |-> payments[i].sale, status |-> "pending"]])
  BY DEF Refund, StartRefund
<1>2. PICK mark, refund :
        Begin(w, [Request EXCEPT !.mark = mark, !.refund = refund])
  BY <1>1
<1>3. PICK r : r = [Request EXCEPT !.mark = mark, !.refund = refund]
  OBVIOUS
<1>4. /\ r.rows = NoWork.rows /\ r.cancel = {} /\ r.audit = {} /\ r.activates = {}
      /\ r.org = NoUpdate
  BY <1>3 DEF Request, NoWork
<1>5. \A s \in Sub : r.rows[s] = None
  BY <1>4, NoWorkTyped
<1>6. r.org["plan"] = None /\ r.org["subscription_status"] = None
  BY <1>4 DEF NoUpdate
<1>7. ~overlapped => Promises(r)
  BY <1>4, <1>5, <1>6, PromisesNothing
<1> QED BY <1>2, <1>3, <1>7, BeginsPromised

\* A new checkout is neither live nor activated, and no request knows of it.
LEMMA StartPromised ==
  ASSUME BillingInv, SerialInv, NEW p \in Paid, StartSubscription(p)
  PROVE  SerialInv'
<1> USE ConstantFacts
<1> SUFFICES ASSUME ~overlapped'
             PROVE  Kept' /\ \A v \in Workers : (pending[v] # NoWork => Promises(pending[v]))'
  BY DEF SerialInv
<1>1. PICK row : row = [status |-> "approval_pending", plan |-> p]
  OBVIOUS
<1>2. /\ subs' = Append(subs, row) /\ row.status = "approval_pending"
      /\ UNCHANGED <<org, audit, activated, setBy, pending, overlapped>>
  BY <1>1 DEF StartSubscription, history
<1>3. /\ Len(subs) \in Nat /\ Len(subs') = Len(subs) + 1
      /\ subs'[Len(subs) + 1] = row /\ \A t \in 1..Len(subs) : subs'[t] = subs[t]
  BY <1>2 DEF BillingInv, BillingTypeOK
<1>4. PICK n \in Nat : n = Len(subs) + 1
  BY <1>3
<1>5. \A t \in Sub : /\ Exists(t)' <=> Exists(t) \/ t = n
                     /\ Exists(t) => subs'[t] = subs[t] /\ t # n
  BY <1>3, <1>4 DEF Exists
<1>6. subs'[n].status = "approval_pending" /\ ~Exists(n)
  BY <1>2, <1>3, <1>4 DEF Exists
<1>7. \A t \in Sub : IsLive(t)' <=> IsLive(t)
  BY <1>5, <1>6 DEF IsLive, Live
<1>8. \A t \in Sub : Undisputed(t)' <=> Undisputed(t)
  BY <1>5, <1>6, <1>7 DEF Undisputed
<1>9. activated \subseteq Sub
  BY DEF BillingInv, BillingTypeOK
<1>10. Kept'
  <2>1. Kept /\ ~overlapped
    BY <1>2 DEF SerialInv
  <2>2. ActivatedOnce'
    BY <1>2, <1>5, <1>9, <2>1 DEF Kept, ActivatedOnce
  <2>3. DoubleBillingIsAudited'
    BY <1>2, <1>7, <1>9, <2>1 DEF Kept, DoubleBillingIsAudited
  <2>4. OrganizationFollowsNewest'
    <3>1. \A s \in activated : Undisputed(s) => subs'[s] = subs[s]
      BY <1>5, <1>9 DEF Undisputed, IsLive
    <3> QED BY <1>2, <1>8, <1>9, <2>1, <3>1 DEF Kept, OrganizationFollowsNewest
  <2> QED BY <2>2, <2>3, <2>4 DEF Kept
<1>11. ASSUME NEW v \in Workers, pending'[v] # NoWork PROVE Promises(pending[v])'
  <2>1. PICK r \in UpdateRecord : r = pending[v] /\ Promises(r) /\ Learnt(r)
    BY <1>2, <1>11 DEF SerialInv, BillingInv, BillingTypeOK
  <2>2. \A t \in Sub : Exists(t) => After(r, t)' = After(r, t)
    BY <1>5 DEF After
  <2>3. n \in Sub => After(r, n)' = "approval_pending"
    <3>1. n \in Sub => r.rows[n] = None /\ n \notin r.cancel
      BY <1>6, <2>1 DEF Promises, WritesRows, Learnt, Exists
    <3> QED BY <1>6, <3>1 DEF After
  <2>4. \A t \in Sub : LiveAfter(r, t)' <=> LiveAfter(r, t)
    BY <1>5, <1>6, <2>2, <2>3 DEF LiveAfter, Live
  <2>5. \A t \in Sub : UndisputedAfter(r, t)' => UndisputedAfter(r, t)
    BY <1>5, <2>2, <2>4 DEF UndisputedAfter
  <2>6. ActivatedAfter(r)' = ActivatedAfter(r) /\ ActivatedAfter(r) \subseteq Sub
        /\ Excused(r)' = Excused(r)
    BY <1>2, <1>9, <2>1 DEF ActivatedAfter, Excused, UpdateRecord
  <2>7. WritesRows(r)'
    BY <1>5, <2>1, <2>2 DEF Promises, WritesRows
  <2>8. AuditsDoubles(r)'
    BY <2>1, <2>4, <2>6 DEF Promises, AuditsDoubles
  <2>9. MovesOrganization(r)'
    <3>1. \A c \in {"plan", "subscription_status"} :
            SetAfter(r, c)' = SetAfter(r, c) /\ ColumnAfter(r, c)' = ColumnAfter(r, c)
      BY <1>2 DEF SetAfter, ColumnAfter
    <3>2. \A t \in Sub : UndisputedAfter(r, t) => Exists(t) /\ subs'[t] = subs[t]
      BY <1>5 DEF UndisputedAfter, LiveAfter
    <3> QED BY <2>1, <2>2, <2>5, <2>6, <3>1, <3>2 DEF Promises, MovesOrganization
  <2>10. Promises(r)'
    BY <2>7, <2>8, <2>9 DEF Promises
  <2>11. pending'[v] = r
    BY <1>2, <2>1
  <2> QED BY <2>10, <2>11 DEF Promises, WritesRows, AuditsDoubles, MovesOrganization,
             UndisputedAfter, LiveAfter, After, ActivatedAfter, SetAfter, ColumnAfter, Excused
<1> QED BY <1>10, <1>11

\* PayPal and the clock write nothing that the promises are about.
LEMMA EnvironmentPromised ==
  ASSUME BillingInv, SerialInv, Environment \/ UNCHANGED billingVars
  PROVE  SerialInv'
<1>1. CASE \E p \in Paid : StartSubscription(p)
  BY <1>1, StartPromised
<1>2. CASE ~(\E p \in Paid : StartSubscription(p))
  <2>1. UNCHANGED <<subs, audit, activated, setBy, pending, overlapped>>
    BY <1>2 DEF Environment, PayerApproves, PayPalCancels, ChargeFails, Charge, Sends, GrantLapses,
           store, history, billingVars
  <2>2. org'["plan"] = org["plan"] /\ org'["subscription_status"] = org["subscription_status"]
    BY <1>2 DEF Environment, PayerApproves, PayPalCancels, ChargeFails, Charge, Sends, GrantLapses,
           store, billingVars, BillingInv, BillingTypeOK, OrganizationRow
  <2>3. Kept => Kept'
    BY <2>1, <2>2 DEF Kept, ActivatedOnce, DoubleBillingIsAudited, OrganizationFollowsNewest,
           Undisputed, IsLive, Exists
  <2>4. ASSUME NEW v \in Workers, Promises(pending[v]) PROVE Promises(pending[v])'
    <3>1. PICK r : r = pending[v] /\ r = pending'[v] /\ Promises(r)
      BY <2>1, <2>4
    <3>2. WritesRows(r)' /\ AuditsDoubles(r)'
      BY <2>1, <3>1 DEF Promises, WritesRows, AuditsDoubles, LiveAfter, After, Exists,
             ActivatedAfter, Excused
    <3>3. \A s \in ActivatedAfter(r) :
            UndisputedAfter(r, s)' = UndisputedAfter(r, s) /\ After(r, s)' = After(r, s)
      BY <2>1 DEF UndisputedAfter, LiveAfter, After, Exists
    <3>4. \A c \in {"plan", "subscription_status"} :
            SetAfter(r, c)' = SetAfter(r, c) /\ ColumnAfter(r, c)' = ColumnAfter(r, c)
      BY <2>1, <2>2 DEF SetAfter, ColumnAfter
    <3>5. MovesOrganization(r)'
      BY <2>1, <3>1, <3>3, <3>4 DEF Promises, MovesOrganization, ActivatedAfter
    <3> QED BY <3>1, <3>2, <3>5 DEF Promises, WritesRows, AuditsDoubles, MovesOrganization,
               UndisputedAfter, LiveAfter, After, ActivatedAfter, SetAfter, ColumnAfter, Excused
  <2> QED BY <2>1, <2>3, <2>4 DEF SerialInv
<1> QED BY <1>1, <1>2

LEMMA SerialInvInit == BillingInit => SerialInv
BY DEF BillingInit, SerialInv, Kept, ActivatedOnce, DoubleBillingIsAudited, OrganizationFollowsNewest

LEMMA SerialInvStep == BillingInv /\ PaymentInv /\ SerialInv /\ [BillingNext]_billingVars => SerialInv'
BY DeliverPromised, ManagePromised, RefundPromised, ProceedPromised, EnvironmentPromised
   DEF BillingNext

\* No customer pays two subscriptions unnoticed: the webhook of either activation
\* cancels the other, and the audit log tells when PayPal refuses
\* (_cancel_superseded_subscription, apply_paypal_webhook).
THEOREM DoublesAudited == BillingSpec => []DoubleBillingIsAudited
<1>1. SerialInv => DoubleBillingIsAudited
  BY DEF SerialInv, Kept, DoubleBillingIsAudited
<1> QED BY BillingInvInit, BillingInvStep, PaymentInvInit, PaymentInvStep, SerialInvInit,
        SerialInvStep, <1>1, PTL DEF BillingSpec

\* Whatever the order of the webhooks, the organization has the plan and the
\* status of its newest live subscription, where nobody else has written them
\* (apply_paypal_webhook).
THEOREM NewestFollowed == BillingSpec => []OrganizationFollowsNewest
<1>1. SerialInv => OrganizationFollowsNewest
  BY DEF SerialInv, Kept, OrganizationFollowsNewest
<1> QED BY BillingInvInit, BillingInvStep, PaymentInvInit, PaymentInvStep, SerialInvInit,
        SerialInvStep, <1>1, PTL DEF BillingSpec
=============================================================================
