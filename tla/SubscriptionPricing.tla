------------------------- MODULE SubscriptionPricing -------------------------
(***************************************************************************)
(* What a PayPal subscription costs: quotes, promotions and their window,  *)
(* billing dates, the revision of a running subscription's price, and the  *)
(* prorated refund (app/domain/subscriptions.py, app/api/v1/billing.py,    *)
(* the pricing routes of app/api/v1/admin.py).  Amounts are cents.         *)
(***************************************************************************)
EXTENDS Integers, FiniteSets

CONSTANTS
  Missing,         \* NULL
  Prices,          \* values of plans.monthly_price_cents
  Savings,         \* values of billing_settings.annual_savings_percent
  Discount,        \* organizations.discount_percent
  Offers,          \* the promotions an admin may run
  FirstDay,        \* the date of the checkout
  Waits,           \* days that pass at once
  Confirms,        \* requests that confirm a revision, in flight at once
  MaxCharges,      \* bound of the model on charges
  MaxEdits         \* bound of the model on the admin's changes

VARIABLES
  price,           \* plans.monthly_price_cents
  savings,         \* billing_settings.annual_savings_percent
  running,         \* the promotions that are active
  edits,           \* how many changes the admin has made
  row,             \* the row of billing_subscriptions
  cycles,          \* PayPal's billing cycles, and how many charges they have made
  link,            \* the cycles of a revision the payer has not approved
  confirming,      \* what each request that confirms holds in memory
  today,           \* the date
  charges,         \* charges PayPal has made
  made,            \* payments recorded for the subscription
  billed,          \* the date of the latest charge
  unconfirmed,     \* history: the payer approved cycles that were not read back, or
                   \* the request that read them back was overtaken
  onTime           \* history: the row was written before PayPal used its cycles

pricingVars == <<price, savings, running, edits, row, cycles, link, confirming, today, charges,
                 made, billed, unconfirmed, onTime>>

Intervals == {"monthly", "yearly"}

------------------------------------------------------------------------------
(* Dates <<year, month, day>> *)

LeapYear(y) == y % 4 = 0 /\ (y % 100 # 0 \/ y % 400 = 0)
DaysIn(y, m) == IF m = 2 THEN IF LeapYear(y) THEN 29 ELSE 28
                ELSE IF m \in {4, 6, 9, 11} THEN 30 ELSE 31

Date == {d \in Nat \X (1..12) \X (1..31) : d[3] <= DaysIn(d[1], d[2])}

AtMost(a, b) == IF a > b THEN b ELSE a

add_months(date, n) ==
  LET index == date[2] - 1 + n
      y == date[1] + index \div 12
      m == (index % 12) + 1
  IN <<y, m, AtMost(date[3], DaysIn(y, m))>>

Months(interval) == IF interval = "yearly" THEN 12 ELSE 1
next_billing_date(date, interval) == add_months(date, Months(interval))

MonthIndex(date) == 12 * date[1] + date[2]
Upto(a, b) == 31 * MonthIndex(a) + a[3] <= 31 * MonthIndex(b) + b[3]
During(date, offer) == Upto(offer.starts_at, date) /\ Upto(date, offer.ends_at)

DaysBefore == <<0, 31, 59, 90, 120, 151, 181, 212, 243, 273, 304, 334>>
DayNumber(date) ==
  LET y == IF date[2] > 2 THEN date[1] ELSE date[1] - 1
  IN 365 * date[1] + y \div 4 - y \div 100 + y \div 400 + DaysBefore[date[2]] + date[3]

\* The date some days (less than a month) on.
Later(date, days) ==
  LET last == DaysIn(date[1], date[2])
      month == add_months(<<date[1], date[2], 1>>, 1)
  IN IF date[3] + days <= last THEN <<date[1], date[2], date[3] + days>>
     ELSE <<month[1], month[2], date[3] + days - last>>

\* The dates of the charges, from the first on.
charge_at(first, interval) ==
  LET date[n \in 0..240] == IF n = 0 THEN first ELSE next_billing_date(date[n - 1], interval)
  IN date

\* promo_cycle_count: the charges from the first on that fall in the window.
promo_cycle_count(first, offer, interval) ==
  LET charge == charge_at(first, interval)
  IN CHOOSE n \in 0..240 : /\ n = 240 \/ ~During(charge[n], offer)
                           /\ \A m \in 0..(n - 1) : During(charge[m], offer)

------------------------------------------------------------------------------
(* Prices *)

\* Mutant: rounds down.
WholeCents(a, b) == a \div b
\* ROUND_HALF_UP to a cent of the amount a/b.
Cents(a, b) == a \div b + IF 2 * (a % b) >= b THEN 1 ELSE 0

PercentOff(amount, percent) == amount * (100 - percent)

\* list_price_cents, in hundredths of a cent.
list_price(interval) ==
  IF interval = "yearly" THEN PercentOff(12 * price, savings) ELSE 100 * price

Regular(interval) == Cents(PercentOff(list_price(interval), Discount), 10000)
Intro(interval, percent) == 
  Cents(PercentOff(PercentOff(list_price(interval), Discount), percent), 1000000)

Applies(offer, existing) ==
  /\ During(today, offer)
  /\ IF existing THEN offer.applies_to_existing ELSE offer.applies_to_new

Best(S) == {o \in S : \A p \in S : \/ p.percent_off < o.percent_off
                                   \/ p.percent_off = o.percent_off /\ p.created_at <= o.created_at}
\* active_promotion_for_plan: the largest discount, the newest of equals.
active_promotion(existing) == Best({o \in running : Applies(o, existing)})

\* Mutant: a promotion that is over by the first charge is quoted all the same.
EvenIfOver(first, offer, interval) == TRUE
StillRuns(first, offer, interval) == promo_cycle_count(first, offer, interval) > 0

quote_subscription(interval, existing, first) ==
  LET counted == {o \in active_promotion(existing) : StillRuns(first, o, interval)}
      regular == Regular(interval)
  IN IF counted = {} THEN [intro |-> regular, regular |-> regular, total |-> 0]
     ELSE LET o == CHOOSE o \in counted : TRUE
          IN [intro |-> Intro(interval, o.percent_off), regular |-> regular,
              total |-> promo_cycle_count(first, o, interval)]

Quote == [intro : Nat, regular : Nat, total : Nat]

\* billing_cycle_overrides: PayPal's first cycle is charged at least once.
Overrides(quote) == [quote EXCEPT !.total = IF @ = 0 THEN 1 ELSE @]

------------------------------------------------------------------------------

\* The columns of billing_subscriptions that say what is charged, and when.
Subscription ==
  [ interval : Intervals, amount : Nat, regular_amount : Nat, promo_cycles : Nat,
    current_period_start : Date \cup {Missing}, current_period_end : Date \cup {Missing} ]

\* What a request that confirms a revision holds: the columns it loaded, and the
\* cycles PayPal reported.
NoAnswer == [intro |-> 0, regular |-> 0, total |-> 0]
NotAsked == [at |-> "idle", loaded |-> [amount |-> 0, regular_amount |-> 0, promo_cycles |-> 0],
             read |-> NoAnswer]
Confirmation == [at : {"idle", "asking", "answered"},
                 loaded : [amount : Nat, regular_amount : Nat, promo_cycles : Nat], read : Quote]

\* The bounds of the admin's forms; a date of the model is one of the calendar,
\* and Wait passes less than a month.
ASSUME PricingAssumption ==
  /\ Prices \subseteq Nat /\ Savings \subseteq 0..100 /\ Discount \in 0..100
  /\ IsFiniteSet(Offers)
  /\ \A o \in Offers : o.percent_off \in 0..100 /\ o.created_at \in Nat
  /\ FirstDay \in Date
  /\ Waits \subseteq 0..28
  /\ Missing \notin Subscription \cup Quote

------------------------------------------------------------------------------
(* The admin's pages *)

Edits == edits < MaxEdits /\ edits' = edits + 1

ChangePrice(p) ==
  /\ Edits
  /\ price' = p
  /\ UNCHANGED <<savings, running, row, cycles, link, confirming, today, charges, made, billed,
                 unconfirmed, onTime>>

ChangeSavings(s) ==
  /\ Edits
  /\ savings' = s
  /\ UNCHANGED <<price, running, row, cycles, link, confirming, today, charges, made, billed,
                 unconfirmed, onTime>>

\* create_promotion, and update_promotion's is_active.
TogglePromotion(offer) ==
  /\ Edits
  /\ running' = IF offer \in running THEN running \ {offer} ELSE running \cup {offer}
  /\ UNCHANGED <<price, savings, row, cycles, link, confirming, today, charges, made, billed,
                 unconfirmed, onTime>>

------------------------------------------------------------------------------
(* One subscription *)

\* start_paypal_subscription
Subscribe(interval) ==
  /\ row = Missing
  /\ price > 0
  /\ LET q == quote_subscription(interval, FALSE, today) IN
     /\ row' = [interval |-> interval, amount |-> q.intro, regular_amount |-> q.regular,
                promo_cycles |-> q.total,
                current_period_start |-> Missing, current_period_end |-> Missing]
     /\ cycles' = [intro |-> q.intro, regular |-> q.regular, total |-> Overrides(q).total, used |-> 0]
  /\ UNCHANGED <<price, savings, running, edits, link, confirming, today, charges, made, billed, unconfirmed, onTime>>

PriceAtPayPal == IF cycles.used < cycles.total THEN cycles.intro ELSE cycles.regular

\* PayPal charges the first cycle at once and then at every billing date.
ChargeCycle ==
  /\ row # Missing
  /\ charges = made /\ charges < MaxCharges
  /\ today' = IF charges = 0 THEN today ELSE next_billing_date(billed, row.interval)
  /\ billed' = today'
  /\ charges' = charges + 1
  /\ cycles' = [cycles EXCEPT !.used = @ + 1]
  /\ UNCHANGED <<price, savings, running, edits, row, link, confirming, made, unconfirmed, onTime>>

\* PAYMENT.SALE.COMPLETED: the period begins when the webhook comes.
RecordPayment ==
  /\ row # Missing
  /\ made < charges
  /\ made' = made + 1
  /\ row' = [row EXCEPT !.current_period_start = today,
                        !.current_period_end = next_billing_date(today, row.interval)]
  /\ UNCHANGED <<price, savings, running, edits, cycles, link, confirming, today, charges, billed,
                 unconfirmed, onTime>>

\* What the application takes the next charge to be.
Forecast == IF row.promo_cycles > made THEN row.amount ELSE row.regular_amount

\* _pricing_update_for
NextCharge == IF row.current_period_end = Missing \/ ~Upto(today, row.current_period_end)
              THEN today ELSE row.current_period_end
PricingUpdate == quote_subscription(row.interval, TRUE, NextCharge)
Outdated == PricingUpdate.regular # row.regular_amount \/ PricingUpdate.intro # Forecast

\* revise_paypal_subscription, of an active subscription: one that PayPal has
\* begun to charge, whether or not the payment is recorded yet.
Revise ==
  /\ row # Missing /\ charges > 0
  /\ price > 0
  /\ Outdated
  /\ link' = Overrides(PricingUpdate)
  /\ UNCHANGED <<price, savings, running, edits, row, cycles, confirming, today, charges, made,
                 billed, unconfirmed, onTime>>

\* The payer follows the link; the new cycles start at the next charge.
ApproveRevision ==
  /\ link # Missing
  /\ cycles' = [intro |-> link.intro, regular |-> link.regular, total |-> link.total, used |-> 0]
  /\ link' = Missing
  /\ unconfirmed' = TRUE
  /\ UNCHANGED <<price, savings, running, edits, row, confirming, today, charges, made, billed, onTime>>

\* The columns that a confirmation writes, and the cycles as PayPal reports them.
Columns == [amount |-> row.amount, regular_amount |-> row.regular_amount,
            promo_cycles |-> row.promo_cycles]
Reported == [intro |-> cycles.intro, regular |-> cycles.regular, total |-> cycles.total]

Holds(c, state) == confirming' = [confirming EXCEPT ![c] = state]

\* confirm_paypal_subscription_revision loads the row: whoever asks, and as
\* often as asked.
ConfirmRevision(c) ==
  /\ row # Missing
  /\ confirming[c].at = "idle"
  /\ Holds(c, [at |-> "asking", loaded |-> Columns, read |-> NoAnswer])
  /\ UNCHANGED <<price, savings, running, edits, row, cycles, link, today, charges, made, billed,
                 unconfirmed, onTime>>

\* PayPal answers get_subscription.
PayPalReports(c) ==
  /\ confirming[c].at = "asking"
  /\ Holds(c, [at |-> "answered", loaded |-> confirming[c].loaded, read |-> Reported])
  /\ UNCHANGED <<price, savings, running, edits, row, cycles, link, today, charges, made, billed,
                 unconfirmed, onTime>>

\* PayPal does not answer, or the request dies.
ConfirmFails(c) ==
  /\ confirming[c].at # "idle"
  /\ Holds(c, NotAsked)
  /\ UNCHANGED <<price, savings, running, edits, row, cycles, link, today, charges, made, billed,
                 unconfirmed, onTime>>

\* Mutant: what was quoted is stored, whatever the payer approved.
Quoted(c) == [amount |-> PricingUpdate.intro, regular_amount |-> PricingUpdate.regular]
ReadBack(c) == [amount |-> confirming[c].read.intro, regular_amount |-> confirming[c].read.regular]

\* Mutant: PayPal's count is stored as it is.
PromoCyclesFromPayPal(c) ==
  LET read == confirming[c].read IN IF read.intro < read.regular THEN read.total ELSE 0
PromoCycles(c) ==
  LET read == confirming[c].read IN IF read.intro < read.regular THEN made + read.total ELSE 0

\* The UPDATE of one column: it is left out if the value is the one loaded.
Updated(now, loaded, new) == IF new = loaded THEN now ELSE new

Overtaken(c) == confirming[c].loaded # Columns \/ confirming[c].read # Reported

\* The payments are counted, and the columns that changed are written.  The
\* first of them are flushed before the count, which locks the row.
CommitConfirmation(c) ==
  LET loaded == confirming[c].loaded IN
  /\ confirming[c].at = "answered"
  /\ row' = [row EXCEPT
       !.amount = Updated(@, loaded.amount, ReadBack(c).amount),
       !.regular_amount = Updated(@, loaded.regular_amount, ReadBack(c).regular_amount),
       !.promo_cycles = Updated(@, loaded.promo_cycles, PromoCycles(c))]
  /\ Holds(c, NotAsked)
  /\ unconfirmed' = Overtaken(c)
  /\ onTime' = (cycles.used = 0 /\ made = charges)
  /\ UNCHANGED <<price, savings, running, edits, cycles, link, today, charges, made, billed>>

\* Days pass, but not beyond the next charge; the model stops on one day of a
\* period at most.
Wait(days) ==
  /\ charges > 0 /\ today = billed
  /\ Upto(Later(today, days), next_billing_date(billed, row.interval))
  /\ today' = Later(today, days)
  /\ UNCHANGED <<price, savings, running, edits, row, cycles, link, confirming, billed, charges, made,
                 unconfirmed, onTime>>

\* prorated_unused_amount of a payment for a period, on a date.
prorated_unused_amount(amount, start, end, date) ==
  IF Upto(end, date) THEN 0
  ELSE IF Upto(date, start) THEN amount
  ELSE Cents(amount * (DayNumber(end) - DayNumber(date)), DayNumber(end) - DayNumber(start))

------------------------------------------------------------------------------

PricingInit ==
  /\ price \in Prices
  /\ savings \in Savings
  /\ running \in SUBSET Offers
  /\ edits = 0
  /\ row = Missing
  /\ cycles = [intro |-> 0, regular |-> 0, total |-> 0, used |-> 0]
  /\ link = Missing
  /\ confirming = [c \in Confirms |-> NotAsked]
  /\ today = FirstDay
  /\ charges = 0 /\ made = 0 /\ billed = FirstDay
  /\ unconfirmed = FALSE
  /\ onTime = TRUE

PricingNext ==
  \/ \E p \in Prices : ChangePrice(p)
  \/ \E s \in Savings : ChangeSavings(s)
  \/ \E offer \in Offers : TogglePromotion(offer)
  \/ \E interval \in Intervals : Subscribe(interval)
  \/ ChargeCycle \/ RecordPayment
  \/ \E days \in Waits : Wait(days)
  \/ Revise \/ ApproveRevision
  \/ \E c \in Confirms : \/ ConfirmRevision(c) \/ PayPalReports(c) \/ ConfirmFails(c)
                         \/ CommitConfirmation(c)

PricingSpec == PricingInit /\ [][PricingNext]_pricingVars

------------------------------------------------------------------------------

\* The types; nothing is recorded that was not charged.
PricingTypeOK ==
  /\ price \in Prices /\ savings \in Savings /\ running \subseteq Offers /\ edits \in Nat
  /\ row \in Subscription \cup {Missing}
  /\ cycles \in [intro : Nat, regular : Nat, total : Nat, used : Nat]
  /\ link \in Quote \cup {Missing}
  /\ confirming \in [Confirms -> Confirmation]
  /\ today \in Date /\ billed \in Date
  /\ charges \in Nat /\ made \in 0..charges
  /\ unconfirmed \in BOOLEAN /\ onTime \in BOOLEAN

\* The amounts on the row are those PayPal charges, unless the payer has
\* approved others since and nobody has confirmed: a quote that was offered and
\* not approved, or that the admin changed meanwhile, is not stored
\* (confirm_paypal_subscription_revision reads the plan back from PayPal).  Two
\* confirmations may wait for PayPal at once; nothing is promised after one that
\* commits although the row or PayPal's cycles have changed since it read them.
StoredAmountsAreAgreed ==
  row # Missing /\ ~unconfirmed => row.amount = cycles.intro /\ row.regular_amount = cycles.regular

\* What the application takes the next charge to be, from its count of payments
\* and promo_cycles, is the price PayPal will charge, from its own count of cycles:
\* the billing page and the offer of a new price rest on it.  Of a revision
\* confirmed before its first charge.
ForecastIsPayPals ==
  row # Missing /\ ~unconfirmed /\ onTime /\ made = charges => Forecast = PriceAtPayPal

\* A new subscriber pays no more than any running promotion for new subscribers
\* would give, and never more than the regular price.  A subscriber who revises
\* is quoted a lower price only from a promotion that still runs at the next
\* charge, for at least that charge, and then the lowest of those that apply: the
\* best one today may be over by then (quote_subscription, _pricing_update_for).
QuoteIsTheBest ==
  /\ \A interval \in Intervals :
       LET q == quote_subscription(interval, FALSE, today) IN
       /\ \A o \in running : Applies(o, FALSE) => q.intro <= Intro(interval, o.percent_off)
       /\ q.intro <= q.regular
  /\ row # Missing /\ PricingUpdate.intro < PricingUpdate.regular =>
       LET q == PricingUpdate IN
       /\ q.total > 0
       /\ \E o \in running : During(NextCharge, o) /\ q.intro = Intro(row.interval, o.percent_off)
       /\ \A o \in running : Applies(o, TRUE) => q.intro <= Intro(row.interval, o.percent_off)

\* Days from a date to a later one, month by month.
DaysFrom(a, b) ==
  LET month(n) == add_months(<<a[1], a[2], 1>>, n)
      whole[n \in 0..12] == IF n = 0 THEN 0 ELSE whole[n - 1] + DaysIn(month(n - 1)[1], month(n - 1)[2])
  IN whole[MonthIndex(b) - MonthIndex(a)] - a[3] + b[3]

\* The refund of a payment is, to half a cent, its share of days not used, counted
\* on the calendar: across month ends, leap days and periods of unequal length;
\* and a period ends on a day that exists (prorated_unused_amount, add_months).
RefundIsTheUnusedPart ==
  made > 0 /\ made = charges =>
    LET start == row.current_period_start
        end == row.current_period_end
        paid == PriceAtPayPal
        refund == prorated_unused_amount(paid, start, end, today)
        period == DaysFrom(start, end)
        unused == DaysFrom(today, end)
        error == refund * period - paid * unused
    IN /\ end[3] \in 1..DaysIn(end[1], end[2])
       /\ 2 * error <= period /\ 2 * (-error) <= period
==============================================================================
