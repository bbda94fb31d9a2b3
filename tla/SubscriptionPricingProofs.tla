---------------------- MODULE SubscriptionPricingProofs ----------------------
(***************************************************************************)
(* Theorems about SubscriptionPricing, for every price, saving, discount   *)
(* and offer and any number of charges: what a row stores is what PayPal   *)
(* charges, what the application expects is what PayPal charges next, a    *)
(* quote is the best, a billing date is a day that exists, and a refund is *)
(* the unused part of a payment.                                           *)
(*                                                                         *)
(* Two recursive functions are reasoned about: charge_at, of which only    *)
(* the first value matters, and the days of DaysFrom, which are a          *)
(* difference of day numbers.  For each a solution of the recursion is     *)
(* given, since without one CHOOSE says nothing.                           *)
(***************************************************************************)
EXTENDS SubscriptionPricing, FiniteSums, TLAPS

\* Months after a date, in the month's length: add_months, by which periods end
\* and charges are counted, never makes a day that does not exist.
THEOREM MonthsLaterExists ==
  ASSUME NEW year \in Nat, NEW month \in 1..12, NEW day \in 1..DaysIn(year, month), NEW n \in Nat
  PROVE  LET later == add_months(<<year, month, day>>, n)
         IN /\ later[1] \in Nat /\ later[2] \in 1..12
            /\ later[3] \in 1..DaysIn(later[1], later[2])
<1> DEFINE index == month - 1 + n
           y == year + index \div 12
           m == (index % 12) + 1
<1>1. index \in Nat /\ y \in Nat /\ m \in 1..12
  OBVIOUS
<1>2. DaysIn(year, month) \in 28..31 /\ DaysIn(y, m) \in 28..31
  BY <1>1 DEF DaysIn
<1>3. AtMost(day, DaysIn(y, m)) \in 1..DaysIn(y, m)
  <2> HIDE DEF y, m
  <2> QED BY <1>2 DEF AtMost
<1>4. add_months(<<year, month, day>>, n) = <<y, m, AtMost(day, DaysIn(y, m))>>
  BY DEF add_months
<1> QED
  <2> HIDE DEF y, m
  <2> QED BY <1>1, <1>3, <1>4
\* Cents is the nearest: at most half a cent from the amount a/b.  So prices and
\* refunds are rounded once, never by more.
THEOREM CentsAreNearest ==
  ASSUME NEW a \in Nat, NEW b \in Nat \ {0}
  PROVE  /\ Cents(a, b) \in Nat
         /\ 2 * (Cents(a, b) * b - a) <= b
         /\ 2 * (a - Cents(a, b) * b) <= b
<1> DEFINE q == a \div b
           r == a % b
<1>1. q \in Nat /\ r \in 0..(b - 1) /\ a = b * q + r
  OBVIOUS
<1>2. CASE 2 * r >= b
  <2>1. Cents(a, b) = q + 1
    BY <1>1, <1>2 DEF Cents
  <2> HIDE DEF q, r
  <2>2. (q + 1) * b - a = b - r
    BY <1>1
  <2> QED BY <1>1, <1>2, <2>1, <2>2
<1>3. CASE 2 * r < b
  <2>1. Cents(a, b) = q
    BY <1>1, <1>3 DEF Cents
  <2> HIDE DEF q, r
  <2>2. a - q * b = r
    BY <1>1
  <2> QED BY <1>1, <1>3, <2>1, <2>2
<1> QED BY <1>1, <1>2, <1>3

------------------------------------------------------------------------------
(* Quotes.  A promotion is looked for by the date alone, and the charges it  *)
(* is good for are counted from the first: the one that is chosen counts the *)
(* first charge at least.                                                    *)

\* The recursion of charge_at has a solution, so charge_at is it.
LEMMA ChargesBegin ==
  ASSUME NEW first, NEW interval
  PROVE  charge_at(first, interval)[0] = first
<1> DEFINE Solves(f, k) == f = [n \in 0..k |-> IF n = 0 THEN first
                                               ELSE next_billing_date(f[n - 1], interval)]
           Good == {k \in Nat : \E f : Solves(f, k)}
<1>1. 0 \in Good
  <2>1. PICK f : f = [n \in 0..0 |-> first]
    OBVIOUS
  <2>2. Solves(f, 0)
    BY <2>1
  <2> QED BY <2>2
<1>2. ASSUME NEW k \in Nat, k \in Good PROVE k + 1 \in Good
  <2>1. PICK f : Solves(f, k)
    BY <1>2
  <2>2. PICK g : g = [n \in 0..(k + 1) |-> IF n <= k THEN f[n] ELSE next_billing_date(f[k], interval)]
    OBVIOUS
  <2>3. ASSUME NEW n \in 0..(k + 1)
        PROVE  g[n] = IF n = 0 THEN first ELSE next_billing_date(g[n - 1], interval)
    <3>1. CASE n = 0
      BY <2>1, <2>2, <3>1
    <3>2. CASE n \in 1..k
      <4>1. g[n] = f[n] /\ g[n - 1] = f[n - 1]
        BY <2>2, <3>2
      <4>2. f[n] = next_billing_date(f[n - 1], interval)
        BY <2>1, <3>2
      <4> QED BY <3>2, <4>1, <4>2
    <3>3. CASE n = k + 1
      <4>1. g[n] = next_billing_date(f[k], interval) /\ g[n - 1] = f[k]
        BY <2>2, <3>3
      <4> QED BY <3>3, <4>1
    <3> QED BY <3>1, <3>2, <3>3
  <2>4. Solves(g, k + 1)
    BY <2>2, <2>3
  <2> QED BY <2>4
<1>3. 240 \in Good
  <2> HIDE DEF Good
  <2> QED BY <1>1, <1>2, EveryNatural
<1>4. Solves(charge_at(first, interval), 240)
  BY <1>3 DEF charge_at
<1> QED BY <1>4

\* The count of charges is one of the CHOOSE's candidates.
LEMMA Counted ==
  ASSUME NEW first, NEW offer, NEW interval
  PROVE  /\ promo_cycle_count(first, offer, interval) \in 0..240
         /\ During(first, offer) <=> promo_cycle_count(first, offer, interval) > 0
<1> DEFINE charge == charge_at(first, interval)
           Outside == {n \in 0..240 : n = 240 \/ ~During(charge[n], offer)}
<1>1. PICK k \in Outside : \A n \in Outside : k <= n
  <2>1. Outside \in SUBSET Nat /\ 240 \in Outside
    OBVIOUS
  <2> HIDE DEF Outside
  <2> QED BY <2>1, LeastNatural
<1>2. /\ k \in 0..240 /\ (k = 240 \/ ~During(charge[k], offer))
      /\ \A m \in 0..(k - 1) : During(charge[m], offer)
  BY <1>1
<1>3. PICK count \in 0..240 :
        /\ count = promo_cycle_count(first, offer, interval)
        /\ count = 240 \/ ~During(charge[count], offer)
        /\ \A m \in 0..(count - 1) : During(charge[m], offer)
  <2> HIDE DEF charge
  <2>1. \E n \in 0..240 : /\ n = 240 \/ ~During(charge[n], offer)
                          /\ \A m \in 0..(n - 1) : During(charge[m], offer)
    BY <1>2
  <2>2. promo_cycle_count(first, offer, interval)
          = CHOOSE n \in 0..240 : /\ n = 240 \/ ~During(charge[n], offer)
                                  /\ \A m \in 0..(n - 1) : During(charge[m], offer)
    BY Zenon DEF promo_cycle_count, charge
  <2> QED BY <2>1, <2>2
<1>4. ASSUME During(first, offer) PROVE count > 0
  <2>1. During(charge[0], offer)
    BY <1>4, ChargesBegin
  <2> HIDE DEF charge
  <2> QED BY <1>3, <2>1
<1>5. ASSUME count > 0 PROVE During(first, offer)
  <2>1. 0 \in 0..(count - 1)
    BY <1>3, <1>5
  <2>2. During(charge[0], offer)
    <3> HIDE DEF charge
    <3> QED BY <1>3, <2>1
  <2> QED BY <2>2, ChargesBegin
<1> QED BY <1>3, <1>4, <1>5

\* Of offers that apply, one is best: larger than others, or newer.
LEMMA OneIsBest ==
  ASSUME NEW S \in SUBSET Offers, S # {}
  PROVE  Best(S) # {}
<1> DEFINE Beats(o, p) == \/ p.percent_off < o.percent_off
                          \/ p.percent_off = o.percent_off /\ p.created_at <= o.created_at
           Good == {T \in SUBSET Offers : T = {} \/ \E o \in T : \A p \in T : Beats(o, p)}
<1>1. {} \in Good
  OBVIOUS
<1>2. ASSUME NEW T \in SUBSET Offers, T \in Good, NEW x \in Offers \ T PROVE T \cup {x} \in Good
  <2>1. Beats(x, x)
    BY PricingAssumption
  <2>2. CASE T = {}
    BY <2>1, <2>2
  <2>3. CASE T # {}
    <3>1. PICK o \in T : \A p \in T : Beats(o, p)
      BY <1>2, <2>3
    <3>2. CASE Beats(o, x)
      BY <3>1, <3>2
    <3>3. CASE ~Beats(o, x)
      <4>1. ASSUME NEW p \in T PROVE Beats(x, p)
        <5>1. PICK a, b, c \in 0..100 : a = p.percent_off /\ b = o.percent_off /\ c = x.percent_off
          BY PricingAssumption
        <5>2. PICK i, j, k \in Nat : i = p.created_at /\ j = o.created_at /\ k = x.created_at
          BY PricingAssumption
        <5> QED BY <3>1, <3>3, <5>1, <5>2
      <4> QED BY <2>1, <4>1
    <3> QED BY <3>2, <3>3
  <2> QED BY <2>2, <2>3
<1>3. S \in Good
  <2>1. \A T \in SUBSET Offers : T \in Good => \A x \in Offers \ T : T \cup {x} \in Good
    BY <1>2
  <2>2. IsFiniteSet(Offers)
    BY PricingAssumption
  <2> HIDE DEF Good
  <2>3. \A T \in SUBSET Offers : T \in Good
    BY <1>1, <2>1, <2>2, EverySubset
  <2> QED BY <2>3
<1> QED BY <1>3 DEF Best

\* Rounding is the nearest cent and, of two as near, the larger.
LEMMA CentsBetween ==
  ASSUME NEW a \in Nat, NEW b \in Nat \ {0}
  PROVE  \E c \in Nat : /\ c = Cents(a, b)
                        /\ 2 * (c * b) - b <= 2 * a /\ 2 * a < 2 * (c * b) + b
<1> DEFINE q == a \div b
           r == a % b
<1>1. q \in Nat /\ r \in 0..(b - 1) /\ a = b * q + r
  OBVIOUS
<1>2. CASE 2 * r >= b
  <2>1. Cents(a, b) = q + 1
    BY <1>1, <1>2 DEF Cents
  <2> HIDE DEF q, r
  <2>2. (q + 1) * b - a = b - r
    BY <1>1
  <2>3. (q + 1) * b \in Int /\ q + 1 \in Nat
    BY <1>1
  <2>4. 2 * ((q + 1) * b) - b <= 2 * a /\ 2 * a < 2 * ((q + 1) * b) + b
    <3>1. PICK x \in Int : x = (q + 1) * b
      BY <2>3
    <3> QED BY <1>1, <1>2, <2>2, <3>1
  <2> QED BY <2>1, <2>3, <2>4
<1>3. CASE 2 * r < b
  <2>1. Cents(a, b) = q
    BY <1>1, <1>3 DEF Cents
  <2> HIDE DEF q, r
  <2>2. a - q * b = r /\ q * b \in Int
    BY <1>1
  <2>3. 2 * (q * b) - b <= 2 * a /\ 2 * a < 2 * (q * b) + b
    <3>1. PICK x \in Int : x = q * b
      BY <2>2
    <3> QED BY <1>1, <1>3, <2>2, <3>1
  <2> QED BY <1>1, <2>1, <2>3
<1> QED BY <1>1, <1>2, <1>3

\* The price of an interval before a promotion, in ten-thousandths of a cent.
LEMMA ListPrice ==
  ASSUME price \in Prices, savings \in Savings, NEW interval \in Intervals
  PROVE  PercentOff(list_price(interval), Discount) \in Nat
<1>1. PICK p \in Nat, s \in 0..100, d \in 0..100 : p = price /\ s = savings /\ d = Discount
  BY PricingAssumption
<1>2. \A x \in Nat, n \in 0..100 : PercentOff(x, n) \in Nat
  <2>1. \A x \in Nat, n \in 0..100 : 100 - n \in Nat
    OBVIOUS
  <2> QED BY <2>1 DEF PercentOff
<1>3. 12 * p \in Nat /\ 100 * p \in Nat
  OBVIOUS
<1>4. list_price(interval) \in Nat
  BY <1>1, <1>2, <1>3 DEF list_price
<1> QED BY <1>1, <1>2, <1>4

\* A promotion lowers the price, and a larger one lowers it more.
LEMMA IntroLowers ==
  ASSUME price \in Prices, savings \in Savings, NEW interval \in Intervals,
         NEW m \in 0..100, NEW n \in 0..100, m <= n
  PROVE  /\ Regular(interval) \in Nat /\ Intro(interval, m) \in Nat /\ Intro(interval, n) \in Nat
         /\ Intro(interval, n) <= Intro(interval, m)
         /\ Intro(interval, m) <= Regular(interval)
<1>1. PICK x \in Nat : x = PercentOff(list_price(interval), Discount)
  BY ListPrice
<1>2. PICK less \in Nat, more \in Nat : less = PercentOff(x, m) /\ more = PercentOff(x, n)
  BY DEF PercentOff
<1>3. more <= less
  <2>1. 100 - n \in Nat /\ 100 - m \in Nat /\ 100 - n <= 100 - m
    OBVIOUS
  <2>2. PICK j, k \in Nat : j = 100 - n /\ k = 100 - m /\ j <= k
    BY <2>1
  <2>3. x * j <= x * k
    BY <2>2
  <2> QED BY <1>2, <2>2, <2>3 DEF PercentOff
<1>4. less <= 100 * x
  <2>1. PICK k \in Nat : k = 100 - m /\ k <= 100
    OBVIOUS
  <2>2. x * k <= x * 100
    BY <2>1
  <2> QED BY <1>2, <2>1, <2>2 DEF PercentOff
<1>5. PICK c \in Nat : /\ c = Intro(interval, n)
                       /\ 2 * (c * 1000000) - 1000000 <= 2 * more
                       /\ 2 * more < 2 * (c * 1000000) + 1000000
  <2>1. PICK c \in Nat : /\ c = Cents(more, 1000000)
                         /\ 2 * (c * 1000000) - 1000000 <= 2 * more
                         /\ 2 * more < 2 * (c * 1000000) + 1000000
    BY CentsBetween
  <2> QED BY <1>1, <1>2, <2>1 DEF Intro
<1>6. PICK d \in Nat : /\ d = Intro(interval, m)
                       /\ 2 * (d * 1000000) - 1000000 <= 2 * less
                       /\ 2 * less < 2 * (d * 1000000) + 1000000
  <2>1. PICK d \in Nat : /\ d = Cents(less, 1000000)
                         /\ 2 * (d * 1000000) - 1000000 <= 2 * less
                         /\ 2 * less < 2 * (d * 1000000) + 1000000
    BY CentsBetween
  <2> QED BY <1>1, <1>2, <2>1 DEF Intro
<1>7. PICK e \in Nat : /\ e = Regular(interval)
                       /\ 2 * (e * 10000) - 10000 <= 2 * x
                       /\ 2 * x < 2 * (e * 10000) + 10000
  <2>1. PICK e \in Nat : /\ e = Cents(x, 10000)
                         /\ 2 * (e * 10000) - 10000 <= 2 * x
                         /\ 2 * x < 2 * (e * 10000) + 10000
    BY CentsBetween
  <2> QED BY <1>1, <2>1 DEF Regular
<1>8. c <= d
  BY <1>3, <1>5, <1>6
<1>9. d <= e
  BY <1>4, <1>6, <1>7
<1> QED BY <1>5, <1>6, <1>7, <1>8, <1>9

\* What is quoted: the regular price, or that of a promotion the first charge
\* falls into.
LEMMA Quotes ==
  ASSUME price \in Prices, savings \in Savings, running \subseteq Offers,
         NEW interval \in Intervals, NEW existing \in BOOLEAN, NEW first,
         NEW q, q = quote_subscription(interval, existing, first)
  PROVE  /\ q \in Quote
         /\ q.intro <= q.regular
         /\ q.total = 0 => q.intro = q.regular
<1> DEFINE counted == {o \in active_promotion(existing) : StillRuns(first, o, interval)}
<1>1. active_promotion(existing) \subseteq Offers
  BY DEF active_promotion, Best
<1>2. Regular(interval) \in Nat
  BY IntroLowers
<1>3. CASE counted = {}
  <2>1. q = [intro |-> Regular(interval), regular |-> Regular(interval), total |-> 0]
    BY <1>3 DEF quote_subscription
  <2> QED BY <1>2, <2>1 DEF Quote
<1>4. CASE counted # {}
  <2>1. PICK o : o = CHOOSE best \in counted : TRUE
    OBVIOUS
  <2>2. o \in counted
    BY <1>4, <2>1
  <2>3. PICK n \in 0..240 : n = promo_cycle_count(first, o, interval) /\ n > 0
    BY <2>2, Counted DEF StillRuns
  <2>4. q = [intro |-> Intro(interval, o.percent_off), regular |-> Regular(interval), total |-> n]
    BY <1>4, <2>1, <2>3 DEF quote_subscription
  <2>5. o.percent_off \in 0..100
    BY <1>1, <2>2, PricingAssumption
  <2>6. Intro(interval, o.percent_off) \in Nat /\ Intro(interval, o.percent_off) <= Regular(interval)
    BY <2>5, IntroLowers
  <2> QED BY <1>2, <2>3, <2>4, <2>6 DEF Quote
<1> QED BY <1>3, <1>4

\* The best of several offers has the lowest price of them.
LEMMA BestIsLowest ==
  ASSUME price \in Prices, savings \in Savings, NEW interval \in Intervals,
         NEW S \in SUBSET Offers, NEW o \in Best(S), NEW p \in S
  PROVE  Intro(interval, o.percent_off) <= Intro(interval, p.percent_off)
<1>1. PICK m, n \in 0..100 : m = p.percent_off /\ n = o.percent_off
  <2>1. o \in Offers /\ p \in Offers
    BY DEF Best
  <2> QED BY <2>1, PricingAssumption
<1>2. p.percent_off < o.percent_off \/ p.percent_off = o.percent_off
  BY DEF Best
<1>3. m <= n
  BY <1>1, <1>2
<1>4. Intro(interval, n) <= Intro(interval, m)
  BY <1>3, IntroLowers
<1> QED BY <1>1, <1>4

\* A lower price is that of the best offer, and the first charge falls into it.
LEMMA QuotedOffer ==
  ASSUME price \in Prices, savings \in Savings, running \subseteq Offers,
         NEW interval \in Intervals, NEW existing \in BOOLEAN, NEW first,
         NEW q, q = quote_subscription(interval, existing, first), q.intro < q.regular
  PROVE  \E o \in Best({x \in running : Applies(x, existing)}) :
           During(first, o) /\ q.intro = Intro(interval, o.percent_off) /\ q.total > 0
<1> DEFINE counted == {o \in active_promotion(existing) : StillRuns(first, o, interval)}
<1>1. ASSUME counted = {} PROVE FALSE
  <2>1. q = [intro |-> Regular(interval), regular |-> Regular(interval), total |-> 0]
    BY <1>1 DEF quote_subscription
  <2>2. PICK r \in Nat : r = Regular(interval)
    BY IntroLowers
  <2>3. q.intro = r /\ q.regular = r
    BY <2>1, <2>2
  <2> QED BY <2>2, <2>3
<1>2. PICK o : o = CHOOSE best \in counted : TRUE
  OBVIOUS
<1>3. o \in counted
  BY <1>1, <1>2
<1>4. q = [intro |-> Intro(interval, o.percent_off), regular |-> Regular(interval),
           total |-> promo_cycle_count(first, o, interval)]
  BY <1>1, <1>2 DEF quote_subscription
<1>5. During(first, o) /\ promo_cycle_count(first, o, interval) > 0
  BY <1>3, Counted DEF StillRuns
<1>6. o \in Best({x \in running : Applies(x, existing)})
  BY <1>3 DEF active_promotion
<1>7. q.intro = Intro(interval, o.percent_off) /\ q.total > 0
  BY <1>4, <1>5
<1> QED BY <1>5, <1>6, <1>7

\* The best promotion of today is quoted, if it still runs at the first charge.
LEMMA QuotesTheBest ==
  ASSUME price \in Prices, savings \in Savings, running \subseteq Offers,
         row # Missing => row.interval \in Intervals
  PROVE  QuoteIsTheBest
<1>1. ASSUME NEW interval \in Intervals, NEW q, q = quote_subscription(interval, FALSE, today)
      PROVE  /\ \A o \in running : Applies(o, FALSE) => q.intro <= Intro(interval, o.percent_off)
             /\ q.intro <= q.regular
  <2>1. q.intro <= q.regular
    BY <1>1, Quotes
  <2>2. ASSUME NEW p \in running, Applies(p, FALSE) PROVE q.intro <= Intro(interval, p.percent_off)
    <3> DEFINE S == {o \in running : Applies(o, FALSE)}
               counted == {o \in active_promotion(FALSE) : StillRuns(today, o, interval)}
    <3>1. active_promotion(FALSE) = Best(S) /\ S \subseteq Offers /\ p \in S
      BY <2>2 DEF active_promotion
    <3>2. Best(S) # {}
      BY <3>1, OneIsBest
    <3>3. \A o \in Best(S) : During(today, o)
      BY DEF Best, Applies
    <3>4. counted = Best(S)
      BY <3>1, <3>3, Counted DEF StillRuns
    <3>5. PICK o : o = CHOOSE best \in counted : TRUE
      OBVIOUS
    <3>6. o \in Best(S)
      BY <3>2, <3>4, <3>5
    <3>7. q.intro = Intro(interval, o.percent_off)
      BY <1>1, <3>2, <3>4, <3>5 DEF quote_subscription
    <3> HIDE DEF S
    <3> QED BY <3>1, <3>6, <3>7, BestIsLowest
  <2> QED BY <2>1, <2>2
<1>2. ASSUME row # Missing, NEW q, q = PricingUpdate, q.intro < q.regular
      PROVE  /\ q.total > 0
             /\ \E o \in running : During(NextCharge, o) /\ q.intro = Intro(row.interval, o.percent_off)
             /\ \A o \in running : Applies(o, TRUE) => q.intro <= Intro(row.interval, o.percent_off)
  <2> DEFINE S == {o \in running : Applies(o, TRUE)}
  <2>1. PICK o \in Best(S) :
          During(NextCharge, o) /\ q.intro = Intro(row.interval, o.percent_off) /\ q.total > 0
    BY <1>2, QuotedOffer DEF PricingUpdate
  <2>2. o \in running
    BY DEF Best
  <2>3. ASSUME NEW p \in running, Applies(p, TRUE) PROVE q.intro <= Intro(row.interval, p.percent_off)
    <3>1. S \subseteq Offers /\ p \in S
      BY <2>3
    <3> HIDE DEF S
    <3> QED BY <1>2, <2>1, <3>1, BestIsLowest
  <2> QED BY <2>1, <2>2, <2>3
<1> QED BY <1>1, <1>2 DEF QuoteIsTheBest

------------------------------------------------------------------------------
(* Dates *)

LEMMA DateParts ==
  ASSUME NEW d \in Date
  PROVE  /\ d[1] \in Nat /\ d[2] \in 1..12 /\ d[3] \in 1..31 /\ d[3] <= DaysIn(d[1], d[2])
         /\ d = <<d[1], d[2], d[3]>>
BY DEF Date

LEMMA MonthLength ==
  ASSUME NEW y \in Nat, NEW m \in 1..12
  PROVE  DaysIn(y, m) \in 28..31
BY DEF DaysIn

LEMMA AddMonths ==
  ASSUME NEW d \in Date, NEW n \in Nat, NEW later, later = add_months(d, n)
  PROVE  /\ later \in Date
         /\ MonthIndex(later) = MonthIndex(d) + n
         /\ d[3] = 1 => later[3] = 1
         /\ n > 0 => Upto(d, later)
<1> DEFINE index == d[2] - 1 + n
           y == d[1] + index \div 12
           m == (index % 12) + 1
<1>1. index \in Nat /\ y \in Nat /\ m \in 1..12 /\ 12 * y + m = 12 * d[1] + d[2] + n
  BY DateParts
<1>2. later = <<y, m, AtMost(d[3], DaysIn(y, m))>>
  BY DEF add_months
<1> HIDE DEF y, m
<1>3. AtMost(d[3], DaysIn(y, m)) \in 1..31 /\ AtMost(d[3], DaysIn(y, m)) <= DaysIn(y, m)
      /\ (d[3] = 1 => AtMost(d[3], DaysIn(y, m)) = 1)
  BY <1>1, DateParts, MonthLength DEF AtMost
<1>4. later \in Date
  BY <1>1, <1>2, <1>3 DEF Date
<1>5. MonthIndex(later) = MonthIndex(d) + n
  BY <1>1, <1>2, DateParts DEF MonthIndex
<1>6. ASSUME n > 0 PROVE Upto(d, later)
  <2>1. later[3] \in 1..31 /\ d[3] \in 1..31
    BY <1>4, DateParts
  <2>2. MonthIndex(d) \in Nat
    BY DateParts DEF MonthIndex
  <2> QED BY <1>5, <1>6, <2>1, <2>2 DEF Upto
<1> QED BY <1>2, <1>3, <1>4, <1>5, <1>6

LEMMA NextBillingDate ==
  ASSUME NEW d \in Date, NEW interval \in Intervals, NEW next, next = next_billing_date(d, interval)
  PROVE  next \in Date /\ Upto(d, next) /\ MonthIndex(next) - MonthIndex(d) \in {1, 12}
<1>1. PICK n \in {1, 12} : n = Months(interval)
  BY DEF Months
<1>2. next = add_months(d, n)
  BY <1>1 DEF next_billing_date
<1>3. MonthIndex(d) \in Nat
  BY DateParts DEF MonthIndex
<1> QED BY <1>2, <1>3, AddMonths

LEMMA LaterDate ==
  ASSUME NEW d \in Date, NEW days \in 0..28
  PROVE  Later(d, days) \in Date /\ Upto(d, Later(d, days))
<1>1. PICK last \in 28..31 : last = DaysIn(d[1], d[2])
  BY DateParts, MonthLength
<1>2. MonthIndex(d) \in Nat /\ MonthIndex(d) = 12 * d[1] + d[2]
  BY DateParts DEF MonthIndex
<1>3. CASE d[3] + days <= last
  <2>1. PICK e \in 1..31 : e = d[3] + days
    BY <1>1, <1>3, DateParts
  <2>2. Later(d, days) = <<d[1], d[2], e>>
    BY <1>1, <1>3, <2>1 DEF Later
  <2>3. <<d[1], d[2], e>> \in Date
    BY <1>1, <1>3, <2>1, DateParts DEF Date
  <2>4. Upto(d, <<d[1], d[2], e>>)
    BY <1>2, <2>1, DateParts DEF Upto, MonthIndex
  <2> QED BY <2>2, <2>3, <2>4
<1>4. CASE ~(d[3] + days <= last)
  <2>1. <<d[1], d[2], 1>> \in Date /\ MonthIndex(<<d[1], d[2], 1>>) = MonthIndex(d)
    BY <1>1, <1>2, DateParts DEF Date, MonthIndex
  <2>2. PICK month \in Date : /\ month = add_months(<<d[1], d[2], 1>>, 1)
                              /\ MonthIndex(month) = MonthIndex(d) + 1
    BY <2>1, AddMonths
  <2>3. PICK e \in 1..28 : e = d[3] + days - last
    BY <1>1, <1>4, DateParts
  <2>4. Later(d, days) = <<month[1], month[2], e>>
    BY <1>1, <1>4, <2>2, <2>3 DEF Later
  <2>5. <<month[1], month[2], e>> \in Date
    <3>1. DaysIn(month[1], month[2]) \in 28..31
      BY DateParts, MonthLength
    <3> QED BY <2>3, <3>1, DateParts DEF Date
  <2>6. MonthIndex(<<month[1], month[2], e>>) = MonthIndex(d) + 1
    BY <2>2 DEF MonthIndex
  <2>7. Upto(d, <<month[1], month[2], e>>)
    BY <1>2, <2>3, <2>6, DateParts DEF Upto
  <2> QED BY <2>4, <2>5, <2>7
<1> QED BY <1>3, <1>4

LEMMA DateIndex ==
  ASSUME NEW d \in Date
  PROVE  MonthIndex(d) \in Nat /\ MonthIndex(d) = 12 * d[1] + d[2]
BY DateParts DEF MonthIndex

\* The month index tells the year and the month.
LEMMA SameMonth ==
  ASSUME NEW d \in Date, NEW e \in Date, MonthIndex(d) = MonthIndex(e)
  PROVE  d[1] = e[1] /\ d[2] = e[2]
BY DateIndex, DateParts

\* Leap days up to a year.
Leaps(y) == y \div 4 - y \div 100 + y \div 400

LEMMA OneMultiple ==
  ASSUME NEW y \in Nat
  PROVE  /\ y \div 4 - (y - 1) \div 4 = IF y % 4 = 0 THEN 1 ELSE 0
         /\ y \div 100 - (y - 1) \div 100 = IF y % 100 = 0 THEN 1 ELSE 0
         /\ y \div 400 - (y - 1) \div 400 = IF y % 400 = 0 THEN 1 ELSE 0
OBVIOUS

LEMMA OneLeapDay ==
  ASSUME NEW y \in Nat
  PROVE  /\ Leaps(y) \in Int /\ Leaps(y - 1) \in Int
         /\ Leaps(y) - Leaps(y - 1) = IF LeapYear(y) THEN 1 ELSE 0
<1>1. /\ y % 400 = 0 => y % 100 = 0
      /\ y % 100 = 0 => y % 4 = 0
  OBVIOUS
<1>2. PICK a, b, c, d, e, f \in Int :
        /\ a = y \div 4 /\ b = y \div 100 /\ c = y \div 400
        /\ d = (y - 1) \div 4 /\ e = (y - 1) \div 100 /\ f = (y - 1) \div 400
  OBVIOUS
<1>3. /\ a - d = IF y % 4 = 0 THEN 1 ELSE 0
      /\ b - e = IF y % 100 = 0 THEN 1 ELSE 0
      /\ c - f = IF y % 400 = 0 THEN 1 ELSE 0
  BY <1>2, OneMultiple
<1>4. Leaps(y) = a - b + c /\ Leaps(y - 1) = d - e + f
  BY <1>2 DEF Leaps
<1>5. LeapYear(y) <=> y % 4 = 0 /\ (y % 100 # 0 \/ y % 400 = 0)
  BY DEF LeapYear
<1> QED BY <1>1, <1>3, <1>4, <1>5

LEMMA DayNumbers ==
  ASSUME NEW y \in Nat, NEW m \in 1..12, NEW d \in Nat
  PROVE  DayNumber(<<y, m, d>>) = 365 * y + Leaps(IF m > 2 THEN y ELSE y - 1) + DaysBefore[m] + d
<1>1. PICK z \in Int : z = IF m > 2 THEN y ELSE y - 1
  OBVIOUS
<1>2. DayNumber(<<y, m, d>>)
        = 365 * y + z \div 4 - z \div 100 + z \div 400 + DaysBefore[m] + d
  BY <1>1 DEF DayNumber
<1>3. z \div 4 \in Int /\ z \div 100 \in Int /\ z \div 400 \in Int /\ DaysBefore[m] \in Nat
  BY <1>1 DEF DaysBefore
<1> QED BY <1>1, <1>2, <1>3 DEF Leaps

\* A month has as many days as lie between its first day and the next one's.
LEMMA DaysOfMonth ==
  ASSUME NEW y \in Nat, NEW m \in 1..12
  PROVE  /\ DayNumber(<<y, m, 1>>) \in Int
         /\ m < 12 => DayNumber(<<y, m + 1, 1>>) = DayNumber(<<y, m, 1>>) + DaysIn(y, m)
         /\ m = 12 => DayNumber(<<y + 1, 1, 1>>) = DayNumber(<<y, m, 1>>) + DaysIn(y, m)
<1>1. /\ Leaps(y) \in Int /\ Leaps(y - 1) \in Int
      /\ Leaps(y) - Leaps(y - 1) = IF LeapYear(y) THEN 1 ELSE 0
  BY OneLeapDay
<1>2. DayNumber(<<y, m, 1>>) = 365 * y + Leaps(IF m > 2 THEN y ELSE y - 1) + DaysBefore[m] + 1
  BY DayNumbers
<1>3. DaysBefore[m] \in Nat
  BY DEF DaysBefore
<1>4. DayNumber(<<y, m, 1>>) \in Int
  BY <1>1, <1>2, <1>3
<1>5. ASSUME m < 12 PROVE DayNumber(<<y, m + 1, 1>>) = DayNumber(<<y, m, 1>>) + DaysIn(y, m)
  <2>1. DayNumber(<<y, m + 1, 1>>)
          = 365 * y + Leaps(IF m + 1 > 2 THEN y ELSE y - 1) + DaysBefore[m + 1] + 1
    BY <1>5, DayNumbers
  <2>2. DaysBefore[m + 1] \in Nat /\ DaysBefore[m + 1] - DaysBefore[m] =
          IF m = 2 THEN 28 ELSE IF m \in {4, 6, 9, 11} THEN 30 ELSE 31
    BY <1>5 DEF DaysBefore
  <2>3. CASE m = 2
    BY <1>1, <1>2, <1>3, <2>1, <2>2, <2>3 DEF DaysIn
  <2>4. CASE m # 2
    <3>1. Leaps(IF m + 1 > 2 THEN y ELSE y - 1) = Leaps(IF m > 2 THEN y ELSE y - 1)
      BY <2>4
    <3> QED BY <1>1, <1>2, <1>3, <2>1, <2>2, <2>4, <3>1 DEF DaysIn
  <2> QED BY <2>3, <2>4
<1>6. ASSUME m = 12 PROVE DayNumber(<<y + 1, 1, 1>>) = DayNumber(<<y, m, 1>>) + DaysIn(y, m)
  <2>1. DayNumber(<<y + 1, 1, 1>>) = 365 * (y + 1) + Leaps(y) + DaysBefore[1] + 1
    <3>1. DayNumber(<<y + 1, 1, 1>>) = 365 * (y + 1) + Leaps((y + 1) - 1) + DaysBefore[1] + 1
      BY DayNumbers
    <3>2. (y + 1) - 1 = y
      OBVIOUS
    <3> QED BY <3>1, <3>2
  <2>2. DaysBefore[1] = 0 /\ DaysBefore[12] = 334
    BY DEF DaysBefore
  <2>3. DayNumber(<<y, m, 1>>) = 365 * y + Leaps(y) + 334 + 1
    BY <1>2, <1>6, <2>2
  <2> QED BY <1>1, <1>6, <2>1, <2>2, <2>3 DEF DaysIn
<1> QED BY <1>4, <1>5, <1>6

LEMMA DayNumberTyped ==
  ASSUME NEW d \in Date
  PROVE  /\ DayNumber(d) \in Int /\ DayNumber(<<d[1], d[2], 1>>) \in Int
         /\ DayNumber(d) = DayNumber(<<d[1], d[2], 1>>) + d[3] - 1
<1>1. PICK x \in Int : x = 365 * d[1] + Leaps(IF d[2] > 2 THEN d[1] ELSE d[1] - 1) + DaysBefore[d[2]]
  <2>1. DaysBefore[d[2]] \in Nat
    BY DateParts DEF DaysBefore
  <2> QED BY <2>1, DateParts, OneLeapDay
<1>2. DayNumber(<<d[1], d[2], d[3]>>) = x + d[3]
  <2>1. d[3] \in Nat
    BY DateParts
  <2> QED BY <1>1, <2>1, DateParts, DayNumbers
<1>3. DayNumber(<<d[1], d[2], 1>>) = x + 1
  BY <1>1, DateParts, DayNumbers
<1>4. DayNumber(d) = x + d[3]
  BY <1>2, DateParts
<1> QED BY <1>1, <1>3, <1>4, DateParts

\* The first days of the months from a date on, and the days between them.
LEMMA MonthAfterMonth ==
  ASSUME NEW a \in Date, NEW n \in Nat,
         NEW this, this = add_months(<<a[1], a[2], 1>>, n),
         NEW next, next = add_months(<<a[1], a[2], 1>>, n + 1)
  PROVE  /\ this \in Date /\ next \in Date
         /\ this[3] = 1 /\ next[3] = 1
         /\ MonthIndex(this) = MonthIndex(a) + n
         /\ DayNumber(this) \in Int
         /\ DayNumber(next) = DayNumber(this) + DaysIn(this[1], this[2])
<1>1. PICK first \in Date : first = <<a[1], a[2], 1>> /\ first[3] = 1 /\ MonthIndex(first) = MonthIndex(a)
  <2>1. <<a[1], a[2], 1>> \in Date
    BY DateParts, MonthLength DEF Date
  <2> QED BY <2>1 DEF MonthIndex
<1>2. /\ this \in Date /\ MonthIndex(this) = MonthIndex(a) + n /\ this[3] = 1
      /\ next \in Date /\ MonthIndex(next) = MonthIndex(a) + n + 1 /\ next[3] = 1
  <2>1. this \in Date /\ MonthIndex(this) = MonthIndex(a) + n /\ this[3] = 1
    BY <1>1, AddMonths
  <2>2. PICK k \in Nat : k = n + 1
    OBVIOUS
  <2>3. next \in Date /\ MonthIndex(next) = MonthIndex(a) + k /\ next[3] = 1
    BY <1>1, <2>2, AddMonths
  <2>4. MonthIndex(a) \in Nat
    BY DateIndex
  <2> QED BY <2>1, <2>2, <2>3, <2>4
<1>3. MonthIndex(next) = MonthIndex(this) + 1
  BY <1>2, DateIndex
<1>4. /\ this[1] \in Nat /\ this[2] \in 1..12 /\ this = <<this[1], this[2], 1>>
      /\ next[1] \in Nat /\ next[2] \in 1..12 /\ next = <<next[1], next[2], 1>>
      /\ 12 * next[1] + next[2] = 12 * this[1] + this[2] + 1
  BY <1>2, <1>3, DateParts DEF MonthIndex
<1>5. \/ this[2] < 12 /\ next[1] = this[1] /\ next[2] = this[2] + 1
      \/ this[2] = 12 /\ next[1] = this[1] + 1 /\ next[2] = 1
  BY <1>4
<1>6. CASE this[2] < 12 /\ next[1] = this[1] /\ next[2] = this[2] + 1
  <2>1. next = <<this[1], this[2] + 1, 1>> /\ this = <<this[1], this[2], 1>>
    BY <1>4, <1>6
  <2>2. /\ DayNumber(<<this[1], this[2], 1>>) \in Int
        /\ DayNumber(<<this[1], this[2] + 1, 1>>)
             = DayNumber(<<this[1], this[2], 1>>) + DaysIn(this[1], this[2])
    BY <1>4, <1>6, DaysOfMonth
  <2> QED BY <1>2, <2>1, <2>2
<1>7. CASE this[2] = 12 /\ next[1] = this[1] + 1 /\ next[2] = 1
  <2>1. next = <<this[1] + 1, 1, 1>> /\ this = <<this[1], this[2], 1>>
    BY <1>4, <1>7
  <2>2. /\ DayNumber(<<this[1], this[2], 1>>) \in Int
        /\ DayNumber(<<this[1] + 1, 1, 1>>)
             = DayNumber(<<this[1], this[2], 1>>) + DaysIn(this[1], this[2])
    BY <1>4, <1>7, DaysOfMonth
  <2> QED BY <1>2, <2>1, <2>2
<1> QED BY <1>5, <1>6, <1>7

\* The days counted month by month are the difference of the day numbers, and
\* a later date has a larger one.
LEMMA DaysBetween ==
  ASSUME NEW a \in Date, NEW b \in Date, Upto(a, b), MonthIndex(b) - MonthIndex(a) <= 12
  PROVE  /\ DaysFrom(a, b) = DayNumber(b) - DayNumber(a)
         /\ DaysFrom(a, b) \in Nat
         /\ a # b => DaysFrom(a, b) > 0
<1> DEFINE month(n) == add_months(<<a[1], a[2], 1>>, n)
           Solves(f) == f = [n \in 0..12 |-> IF n = 0 THEN 0
                               ELSE f[n - 1] + DaysIn(month(n - 1)[1], month(n - 1)[2])]
           days(n) == DayNumber(month(n)) - DayNumber(month(0))
<1>1. ASSUME NEW n \in Nat
      PROVE  /\ month(n) \in Date /\ month(n)[3] = 1
             /\ MonthIndex(month(n)) = MonthIndex(a) + n
             /\ DayNumber(month(n)) \in Int
             /\ DayNumber(month(n + 1)) = DayNumber(month(n)) + DaysIn(month(n)[1], month(n)[2])
             /\ DaysIn(month(n)[1], month(n)[2]) \in 28..31
  <2>1. PICK this, next : this = month(n) /\ next = month(n + 1)
    OBVIOUS
  <2>2. /\ this \in Date /\ this[3] = 1 /\ MonthIndex(this) = MonthIndex(a) + n
        /\ DayNumber(this) \in Int /\ DayNumber(next) = DayNumber(this) + DaysIn(this[1], this[2])
    BY <2>1, MonthAfterMonth
  <2>3. DaysIn(this[1], this[2]) \in 28..31
    BY <2>2, DateParts, MonthLength
  <2> QED BY <2>1, <2>2, <2>3
<1>2. month(0) = <<a[1], a[2], 1>>
  <2>1. PICK d \in Date : d = month(0) /\ d[3] = 1 /\ MonthIndex(d) = MonthIndex(a)
    <3>1. MonthIndex(month(0)) = MonthIndex(a) + 0 /\ month(0) \in Date /\ month(0)[3] = 1
      BY <1>1
    <3> HIDE DEF month
    <3> QED BY <3>1, DateIndex
  <2>2. d[1] = a[1] /\ d[2] = a[2]
    BY <2>1, SameMonth
  <2> QED BY <2>1, <2>2, DateParts
<1> HIDE DEF month
\* The day numbers solve the recursion, and nothing else does.
<1>3. PICK whole : Solves(whole) /\ DaysFrom(a, b) = whole[MonthIndex(b) - MonthIndex(a)] - a[3] + b[3]
  <2>1. PICK f : f = [n \in 0..12 |-> days(n)]
    OBVIOUS
  <2>2. ASSUME NEW n \in 0..12
        PROVE  f[n] = IF n = 0 THEN 0 ELSE f[n - 1] + DaysIn(month(n - 1)[1], month(n - 1)[2])
    <3>1. CASE n = 0
      BY <1>1, <2>1, <3>1
    <3>2. CASE n # 0
      <4>1. PICK m \in 0..11 : m = n - 1 /\ n = m + 1
        BY <3>2
      <4>2. DayNumber(month(m + 1)) = DayNumber(month(m)) + DaysIn(month(m)[1], month(m)[2])
            /\ DayNumber(month(m)) \in Int /\ DayNumber(month(0)) \in Int
            /\ DaysIn(month(m)[1], month(m)[2]) \in 28..31
        BY <1>1
      <4>3. f[n] = days(m + 1) /\ f[n - 1] = days(m)
        BY <2>1, <4>1
      <4> QED BY <3>2, <4>1, <4>2, <4>3
    <3> QED BY <3>1, <3>2
  <2>3. Solves(f)
    BY <2>1, <2>2
  <2> QED BY <2>3 DEF DaysFrom, month
<1>4. ASSUME NEW n \in 0..12 PROVE whole[n] = days(n)
  <2> DEFINE Good == {k \in Nat : k <= 12 => whole[k] = days(k)}
  <2>1. 0 \in Good
    BY <1>1, <1>3
  <2>2. ASSUME NEW k \in Nat, k \in Good PROVE k + 1 \in Good
    <3> SUFFICES ASSUME k + 1 <= 12 PROVE whole[k + 1] = days(k + 1)
      OBVIOUS
    <3>1. whole[k] = days(k)
      BY <2>2
    <3>2. whole[k + 1] = whole[k] + DaysIn(month(k)[1], month(k)[2])
      <4>1. k + 1 \in 0..12 /\ k + 1 # 0 /\ (k + 1) - 1 = k
        OBVIOUS
      <4> QED BY <1>3, <4>1
    <3> QED BY <1>1, <3>1, <3>2
  <2>3. Nat \subseteq Good
    <3> HIDE DEF Good
    <3> QED BY <2>1, <2>2, EveryNatural
  <2> QED BY <2>3
<1>5. PICK n \in 0..12 : n = MonthIndex(b) - MonthIndex(a) /\ MonthIndex(b) = MonthIndex(a) + n
  <2>1. PICK i, j, k, l \in Nat : /\ i = MonthIndex(a) /\ j = MonthIndex(b)
                                  /\ k = a[3] /\ l = b[3] /\ k >= 1 /\ l <= 31
    BY DateIndex, DateParts
  <2>2. 31 * i + k <= 31 * j + l
    BY <2>1 DEF Upto
  <2> QED BY <2>1, <2>2
<1>6. month(n) = <<b[1], b[2], 1>>
  <2>1. PICK d \in Date : d = month(n) /\ d[3] = 1 /\ MonthIndex(d) = MonthIndex(b)
    BY <1>1, <1>5
  <2>2. d[1] = b[1] /\ d[2] = b[2]
    BY <2>1, SameMonth
  <2> QED BY <2>1, <2>2, DateParts
<1>7. DaysFrom(a, b) = days(n) - a[3] + b[3]
  BY <1>3, <1>4, <1>5
<1>8. DaysFrom(a, b) = DayNumber(b) - DayNumber(a)
  BY <1>2, <1>6, <1>7, DayNumberTyped, DateParts
\* A month that ends is longer than the day it is left on.
<1>9. CASE n = 0
  <2>1. a[1] = b[1] /\ a[2] = b[2] /\ a[3] <= b[3]
    BY <1>5, <1>9, DateParts DEF MonthIndex, Upto
  <2>2. days(n) = 0
    BY <1>1, <1>9
  <2>3. a # b => a[3] # b[3]
    BY <2>1, DateParts
  <2> QED BY <1>7, <1>8, <2>1, <2>2, <2>3, DateParts
<1>10. CASE n # 0
  <2> DEFINE Good == {k \in Nat : days(k + 1) >= days(1)}
  <2>1. 0 \in Good
    BY <1>1
  <2>2. ASSUME NEW k \in Nat, k \in Good PROVE k + 1 \in Good
    <3>1. k + 1 \in Nat
      OBVIOUS
    <3>2. /\ DayNumber(month((k + 1) + 1)) = DayNumber(month(k + 1)) + DaysIn(month(k + 1)[1], month(k + 1)[2])
          /\ DaysIn(month(k + 1)[1], month(k + 1)[2]) \in 28..31 /\ DayNumber(month(k + 1)) \in Int
      BY <1>1, <3>1
    <3>3. DayNumber(month(0)) \in Int /\ DayNumber(month(1)) \in Int
      BY <1>1
    <3> QED BY <2>2, <3>1, <3>2, <3>3
  <2>3. n - 1 \in Good
    <3>1. Nat \subseteq Good
      <4> HIDE DEF Good
      <4> QED BY <2>1, <2>2, EveryNatural
    <3> QED BY <1>10, <3>1
  <2>4. days(n) >= days(1) /\ days(n) \in Int
    <3>1. (n - 1) + 1 = n
      OBVIOUS
    <3> QED BY <1>1, <2>3, <3>1
  <2>5. days(1) = DaysIn(a[1], a[2])
    <3>1. DayNumber(month(0 + 1)) = DayNumber(month(0)) + DaysIn(month(0)[1], month(0)[2])
          /\ DayNumber(month(0)) \in Int /\ DaysIn(month(0)[1], month(0)[2]) \in 28..31
      BY <1>1
    <3>2. month(0)[1] = a[1] /\ month(0)[2] = a[2]
      BY <1>2
    <3> QED BY <3>1, <3>2
  <2>6. DaysIn(a[1], a[2]) \in 28..31 /\ a[3] <= DaysIn(a[1], a[2]) /\ a[3] \in Nat /\ b[3] \in 1..31
    BY DateParts, MonthLength
  <2>7. PICK x \in Int, y \in 28..31, i \in Nat, j \in 1..31 :
          x = days(n) /\ x >= y /\ i = a[3] /\ j = b[3] /\ i <= y
    BY <2>4, <2>5, <2>6
  <2>8. DaysFrom(a, b) = x - i + j
    BY <1>7, <2>7
  <2> QED BY <1>8, <2>7, <2>8
<1> QED BY <1>8, <1>9, <1>10

LEMMA SameDate ==
  ASSUME NEW a \in Date, NEW b \in Date, Upto(a, b), Upto(b, a)
  PROVE  a = b
<1>1. PICK i, j \in Nat, k, l \in 1..31 :
        i = MonthIndex(a) /\ j = MonthIndex(b) /\ k = a[3] /\ l = b[3]
  BY DateIndex, DateParts
<1>2. 31 * i + k <= 31 * j + l /\ 31 * j + l <= 31 * i + k
  BY <1>1 DEF Upto
<1>3. i = j /\ k = l
  BY <1>1, <1>2
<1>4. a[1] = b[1] /\ a[2] = b[2] /\ a[3] = b[3]
  BY <1>1, <1>3, SameMonth
<1> QED BY <1>4, DateParts

LEMMA UptoIndex ==
  ASSUME NEW a \in Date, NEW b \in Date, Upto(a, b)
  PROVE  MonthIndex(a) <= MonthIndex(b)
<1>1. PICK i, j \in Nat, k, l \in 1..31 :
        i = MonthIndex(a) /\ j = MonthIndex(b) /\ k = a[3] /\ l = b[3]
  BY DateIndex, DateParts
<1>2. 31 * i + k <= 31 * j + l
  BY <1>1 DEF Upto
<1> QED BY <1>1, <1>2

\* The refund of a payment for a period is its unused share to half a cent.
LEMMA RefundShare ==
  ASSUME NEW amount \in Nat, NEW start \in Date, NEW end \in Date, NEW date \in Date,
         Upto(start, date), Upto(date, end), MonthIndex(end) - MonthIndex(start) <= 12
  PROVE  \E refund \in Nat :
           /\ refund = prorated_unused_amount(amount, start, end, date)
           /\ 2 * (refund * DaysFrom(start, end) - amount * DaysFrom(date, end)) <= DaysFrom(start, end)
           /\ 2 * (-(refund * DaysFrom(start, end) - amount * DaysFrom(date, end))) <= DaysFrom(start, end)
<1>1. PICK i, j, k \in Nat : /\ i = MonthIndex(start) /\ j = MonthIndex(date) /\ k = MonthIndex(end)
                             /\ i <= j /\ j <= k /\ k - i <= 12
  BY DateIndex, UptoIndex
<1>2. Upto(start, end)
  <2>1. PICK x, y, z \in Nat : /\ x = 31 * MonthIndex(start) + start[3]
                               /\ y = 31 * MonthIndex(date) + date[3]
                               /\ z = 31 * MonthIndex(end) + end[3]
    BY DateIndex, DateParts
  <2> QED BY <2>1 DEF Upto
<1>3. PICK period \in Nat : /\ period = DaysFrom(start, end)
                            /\ period = DayNumber(end) - DayNumber(start)
                            /\ start # end => period > 0
  BY <1>1, <1>2, DaysBetween
<1>4. PICK unused \in Nat : /\ unused = DaysFrom(date, end)
                            /\ unused = DayNumber(end) - DayNumber(date)
  BY <1>1, DaysBetween
<1> SUFFICES \E refund \in Nat :
               /\ refund = prorated_unused_amount(amount, start, end, date)
               /\ 2 * (refund * period - amount * unused) <= period
               /\ 2 * (-(refund * period - amount * unused)) <= period
  BY <1>3, <1>4
<1>5. CASE Upto(end, date)
  <2>1. date = end
    BY <1>5, SameDate
  <2>2. unused = 0
    <3>1. PICK x \in Int : x = DayNumber(end)
      BY DayNumberTyped
    <3> QED BY <1>4, <2>1, <3>1
  <2>3. prorated_unused_amount(amount, start, end, date) = 0
    BY <1>5 DEF prorated_unused_amount
  <2> QED BY <2>2, <2>3
<1>6. CASE ~Upto(end, date) /\ Upto(date, start)
  <2>1. date = start
    BY <1>6, SameDate
  <2>2. unused = period
    BY <1>3, <1>4, <2>1
  <2>3. prorated_unused_amount(amount, start, end, date) = amount
    BY <1>6 DEF prorated_unused_amount
  <2>4. amount * period - amount * unused = 0
    BY <2>2
  <2> QED BY <2>3, <2>4
<1>7. CASE ~Upto(end, date) /\ ~Upto(date, start)
  <2>1. start # end
    BY <1>2, <1>7
  <2>2. prorated_unused_amount(amount, start, end, date) = Cents(amount * unused, period)
    BY <1>3, <1>4, <1>7 DEF prorated_unused_amount
  <2>3. PICK a \in Nat : a = amount * unused
    OBVIOUS
  <2>4. period \in Nat \ {0}
    BY <1>3, <2>1
  <2>5. PICK c \in Nat : /\ c = Cents(a, period)
                         /\ 2 * (c * period - a) <= period
                         /\ 2 * (a - c * period) <= period
    BY <2>3, <2>4, CentsAreNearest
  <2>6. -(c * period - a) = a - c * period
    <3>1. PICK x \in Int : x = c * period
      OBVIOUS
    <3> QED BY <3>1
  <2> QED BY <2>2, <2>3, <2>5, <2>6
<1> QED BY <1>5, <1>6, <1>7

------------------------------------------------------------------------------
(* What the row has been told, and what PayPal has done: the count of        *)
(* payments against PayPal's count of cycles, and the period against the     *)
(* date.                                                                     *)

\* A promotion's price is at most the regular one.  Until a revision is approved
\* the promotional payments that the row still expects are those that PayPal's
\* cycles still have, unless promotional and regular price are the same.
CountsAgree ==
  /\ row = Missing => charges = 0
  /\ cycles.intro <= cycles.regular
  /\ link # Missing => link.intro <= link.regular
  /\ row # Missing /\ ~unconfirmed /\ onTime =>
       \/ row.amount = row.regular_amount
       \/ row.promo_cycles + cycles.used = charges + cycles.total

\* The latest payment's period holds the date, and it is a billing period from
\* the charge's date on, or, where the webhook came late, from today on.
InPeriod ==
  made > 0 /\ made = charges =>
    /\ row # Missing
    /\ row.current_period_start \in {billed, today}
    /\ row.current_period_end = next_billing_date(row.current_period_start, row.interval)
    /\ Upto(row.current_period_start, today)
    /\ Upto(today, row.current_period_end)

\* A confirmation is of a row that is there.
Asked == row = Missing => \A c \in Confirms : confirming[c].at = "idle"

ChargesInv == PricingTypeOK /\ CountsAgree /\ InPeriod /\ Asked

LEMMA NotAskedTyped == NotAsked \in Confirmation
BY DEF NotAsked, Confirmation, NoAnswer, Quote

LEMMA ChargesInvInit == PricingInit => ChargesInv
<1> SUFFICES ASSUME PricingInit PROVE ChargesInv
  OBVIOUS
<1>1. PricingTypeOK
  <2>1. /\ price \in Prices /\ savings \in Savings /\ running \subseteq Offers /\ edits = 0
        /\ charges = 0 /\ made = 0 /\ row = Missing /\ link = Missing
        /\ unconfirmed = FALSE /\ onTime = TRUE
    BY DEF PricingInit
  <2>2. cycles \in [intro : Nat, regular : Nat, total : Nat, used : Nat]
    BY DEF PricingInit
  <2>3. today \in Date /\ billed \in Date
    BY PricingAssumption DEF PricingInit
  <2>4. /\ price \in Prices /\ savings \in Savings /\ running \subseteq Offers /\ edits \in Nat
        /\ row \in Subscription \cup {Missing} /\ link \in Quote \cup {Missing}
    BY <2>1
  <2>5. charges \in Nat /\ made \in 0..charges
    BY <2>1
  <2>6. unconfirmed \in BOOLEAN /\ onTime \in BOOLEAN
    BY <2>1
  <2>7. confirming \in [Confirms -> Confirmation]
    BY NotAskedTyped DEF PricingInit
  <2> QED BY <2>2, <2>3, <2>4, <2>5, <2>6, <2>7 DEF PricingTypeOK
<1>2. CountsAgree /\ InPeriod /\ Asked
  BY DEF PricingInit, CountsAgree, InPeriod, Asked, NotAsked
<1> QED BY <1>1, <1>2 DEF ChargesInv

\* Whatever leaves the subscription alone.
LEMMA ChargesStay ==
  ASSUME ChargesInv, PricingTypeOK',
         UNCHANGED <<row, cycles, link, confirming, today, charges, made, billed, unconfirmed, onTime>>
  PROVE  ChargesInv'
BY DEF ChargesInv, CountsAgree, InPeriod, Asked

LEMMA RowTyped ==
  ASSUME ChargesInv, row # Missing
  PROVE  /\ row \in Subscription /\ row.interval \in Intervals
         /\ row.amount \in Nat /\ row.regular_amount \in Nat /\ row.promo_cycles \in Nat
BY DEF ChargesInv, PricingTypeOK, Subscription

LEMMA AdminInv ==
  ASSUME ChargesInv,
         \/ \E p \in Prices : ChangePrice(p)
         \/ \E s \in Savings : ChangeSavings(s)
         \/ \E offer \in Offers : TogglePromotion(offer)
         \/ UNCHANGED pricingVars
  PROVE  ChargesInv'
<1>1. UNCHANGED <<row, cycles, link, confirming, today, charges, made, billed, unconfirmed, onTime>>
  BY DEF ChangePrice, ChangeSavings, TogglePromotion, pricingVars
<1>2. price' \in Prices /\ savings' \in Savings /\ running' \subseteq Offers /\ edits' \in Nat
  BY DEF ChangePrice, ChangeSavings, TogglePromotion, Edits, pricingVars, ChargesInv, PricingTypeOK
<1>3. PricingTypeOK'
  BY <1>1, <1>2 DEF ChargesInv, PricingTypeOK
<1> QED BY <1>1, <1>3, ChargesStay

\* The quote goes to the row and, one charge of it at least, to PayPal.
LEMMA SubscribeInv ==
  ASSUME ChargesInv, NEW interval \in Intervals, Subscribe(interval)
  PROVE  ChargesInv'
<1>1. PICK q \in Quote : /\ q = quote_subscription(interval, FALSE, today)
                         /\ q.intro <= q.regular /\ (q.total = 0 => q.intro = q.regular)
  BY Quotes DEF ChargesInv, PricingTypeOK
<1>2. PICK n \in Nat : n = Overrides(q).total /\ n = IF q.total = 0 THEN 1 ELSE q.total
  BY DEF Overrides, Quote
<1>3. /\ row = Missing
      /\ row' = [interval |-> interval, amount |-> q.intro, regular_amount |-> q.regular,
                 promo_cycles |-> q.total,
                 current_period_start |-> Missing, current_period_end |-> Missing]
      /\ cycles' = [intro |-> q.intro, regular |-> q.regular, total |-> n, used |-> 0]
      /\ UNCHANGED <<price, savings, running, edits, link, confirming, today, charges, made, billed,
                     unconfirmed, onTime>>
  BY <1>1, <1>2 DEF Subscribe
<1>4. q.intro \in Nat /\ q.regular \in Nat /\ q.total \in Nat
  BY DEF Quote
<1>5. row' \in Subscription /\ row' # Missing
  BY <1>3, <1>4, PricingAssumption DEF Subscription
<1>6. cycles' \in [intro : Nat, regular : Nat, total : Nat, used : Nat]
  BY <1>3, <1>4
<1>7. PricingTypeOK'
  BY <1>3, <1>5, <1>6 DEF ChargesInv, PricingTypeOK
<1>8. charges = 0 /\ made = 0
  BY <1>3 DEF ChargesInv, CountsAgree, PricingTypeOK
<1>9. CountsAgree'
  <2>1. /\ cycles'.intro = q.intro /\ cycles'.regular = q.regular
        /\ cycles'.used = 0 /\ cycles'.total = n /\ charges' = 0
        /\ row'.amount = q.intro /\ row'.regular_amount = q.regular /\ row'.promo_cycles = q.total
    BY <1>3, <1>8
  <2>2. cycles'.intro <= cycles'.regular /\ (link' # Missing => link'.intro <= link'.regular)
    BY <1>1, <1>3, <2>1 DEF ChargesInv, CountsAgree
  <2>3. \/ row'.amount = row'.regular_amount
        \/ row'.promo_cycles + cycles'.used = charges' + cycles'.total
    <3>1. CASE q.total = 0
      BY <1>1, <2>1, <3>1
    <3>2. CASE q.total # 0
      <4>1. q.total = n
        BY <1>2, <3>2
      <4>2. n + 0 = 0 + n
        OBVIOUS
      <4> QED BY <2>1, <4>1, <4>2
    <3> QED BY <3>1, <3>2
  <2> QED BY <1>5, <2>2, <2>3 DEF CountsAgree
<1>10. InPeriod'
  BY <1>3, <1>8 DEF InPeriod
<1>11. Asked'
  BY <1>5 DEF Asked
<1> QED BY <1>7, <1>9, <1>10, <1>11 DEF ChargesInv

\* PayPal's count of cycles and that of charges go together.
LEMMA ChargeCycleInv == ASSUME ChargesInv, ChargeCycle PROVE ChargesInv'
<1>1. PICK cs \in [intro : Nat, regular : Nat, total : Nat, used : Nat] : cs = cycles
  BY DEF ChargesInv, PricingTypeOK
<1>2. /\ row # Missing /\ charges = made /\ billed' = today'
      /\ today' = IF charges = 0 THEN today ELSE next_billing_date(billed, row.interval)
      /\ charges' = charges + 1 /\ charges \in Nat
      /\ cycles' = [cs EXCEPT !.used = cs.used + 1]
      /\ UNCHANGED <<price, savings, running, edits, row, link, confirming, made, unconfirmed, onTime>>
  BY <1>1 DEF ChargeCycle, ChargesInv, PricingTypeOK
<1>3. /\ cycles' \in [intro : Nat, regular : Nat, total : Nat, used : Nat]
      /\ cycles'.used = cs.used + 1 /\ cycles'.total = cs.total
      /\ cycles'.intro = cs.intro /\ cycles'.regular = cs.regular
  BY <1>2
<1>4. today' \in Date
  BY <1>2, RowTyped, NextBillingDate DEF ChargesInv, PricingTypeOK
<1>5. PricingTypeOK'
  <2>1. charges' \in Nat /\ made' \in 0..charges'
    BY <1>2 DEF ChargesInv, PricingTypeOK
  <2>2. billed' \in Date
    BY <1>2, <1>4
  <2> QED BY <1>2, <1>3, <1>4, <2>1, <2>2 DEF ChargesInv, PricingTypeOK
<1>6. CountsAgree'
  <2>1. row' # Missing
    BY <1>2
  <2>2. cycles'.intro <= cycles'.regular /\ (link' # Missing => link'.intro <= link'.regular)
    BY <1>1, <1>2, <1>3 DEF ChargesInv, CountsAgree
  <2>3. ASSUME ~unconfirmed', onTime'
        PROVE  \/ row'.amount = row'.regular_amount
               \/ row'.promo_cycles + cycles'.used = charges' + cycles'.total
    <3>1. \/ row.amount = row.regular_amount
          \/ row.promo_cycles + cs.used = charges + cs.total
      BY <1>1, <1>2, <2>3 DEF ChargesInv, CountsAgree
    <3>2. PICK n, u, t, c \in Nat : n = row.promo_cycles /\ u = cs.used /\ t = cs.total /\ c = charges
      BY <1>1, <1>2, RowTyped
    <3> QED BY <1>2, <1>3, <3>1, <3>2
  <2> QED BY <2>1, <2>2, <2>3 DEF CountsAgree
<1>7. InPeriod'
  <2>1. made' # charges'
    BY <1>2
  <2> QED BY <2>1 DEF InPeriod
<1>8. Asked'
  BY <1>2 DEF Asked
<1> QED BY <1>5, <1>6, <1>7, <1>8 DEF ChargesInv

\* The period begins today, and today's billing period holds today.
LEMMA RecordPaymentInv == ASSUME ChargesInv, RecordPayment PROVE ChargesInv'
<1>1. PICK r \in Subscription : r = row /\ r # Missing
  BY RowTyped DEF RecordPayment
<1>2. PICK next \in Date : next = next_billing_date(today, r.interval) /\ Upto(today, next)
  BY <1>1, NextBillingDate DEF ChargesInv, PricingTypeOK, Subscription
<1>3. /\ made < charges /\ made' = made + 1 /\ made \in Nat /\ charges \in Nat /\ today \in Date
      /\ row' = [r EXCEPT !.current_period_start = today, !.current_period_end = next]
      /\ UNCHANGED <<price, savings, running, edits, cycles, link, confirming, today, charges, billed,
                     unconfirmed, onTime>>
  BY <1>1, <1>2 DEF RecordPayment, ChargesInv, PricingTypeOK
<1>4. /\ row' \in Subscription /\ row'.current_period_start = today /\ row'.current_period_end = next
      /\ row'.interval = r.interval /\ row'.promo_cycles = r.promo_cycles
      /\ row'.amount = r.amount /\ row'.regular_amount = r.regular_amount
  BY <1>2, <1>3 DEF Subscription
<1>5. row' # Missing
  BY <1>4, PricingAssumption
<1>6. PricingTypeOK'
  <2>1. made' \in 0..charges'
    BY <1>3
  <2> QED BY <1>3, <1>4, <2>1 DEF ChargesInv, PricingTypeOK
<1>7. CountsAgree'
  BY <1>1, <1>3, <1>4, <1>5 DEF ChargesInv, CountsAgree
<1>8. InPeriod'
  <2>1. Upto(today, today)
    <3>1. PICK i, j \in Nat : i = MonthIndex(today) /\ j = today[3]
      BY <1>3, DateIndex, DateParts
    <3> QED BY <3>1 DEF Upto
  <2> QED BY <1>2, <1>3, <1>4, <1>5, <2>1 DEF InPeriod
<1>9. Asked'
  BY <1>5 DEF Asked
<1> QED BY <1>6, <1>7, <1>8, <1>9 DEF ChargesInv

\* Days pass within the billing period.
LEMMA WaitInv == ASSUME ChargesInv, NEW days \in Waits, Wait(days) PROVE ChargesInv'
<1>1. /\ today = billed /\ today \in Date /\ today' = Later(today, days)
      /\ Upto(today', next_billing_date(billed, row.interval))
      /\ UNCHANGED <<price, savings, running, edits, row, cycles, link, confirming, billed, charges,
                     made, unconfirmed, onTime>>
  BY DEF Wait, ChargesInv, PricingTypeOK
<1>2. today' \in Date /\ Upto(today, today')
  <2>1. days \in 0..28
    BY PricingAssumption
  <2> QED BY <1>1, <2>1, LaterDate
<1>3. PricingTypeOK'
  BY <1>1, <1>2 DEF ChargesInv, PricingTypeOK
<1>4. CountsAgree'
  BY <1>1 DEF ChargesInv, CountsAgree
<1>5. InPeriod'
  BY <1>1, <1>2 DEF ChargesInv, InPeriod
<1>6. Asked'
  BY <1>1 DEF ChargesInv, Asked
<1> QED BY <1>3, <1>4, <1>5, <1>6 DEF ChargesInv

\* A new price is offered and approved.
LEMMA RevisionInv ==
  ASSUME ChargesInv, Revise \/ ApproveRevision
  PROVE  ChargesInv'
<1>1. CASE Revise
  <2>1. PICK q \in Quote : q = PricingUpdate /\ q.intro <= q.regular
    <3>1. row.interval \in Intervals
      BY <1>1, RowTyped DEF Revise
    <3> QED BY <3>1, Quotes DEF PricingUpdate, ChargesInv, PricingTypeOK
  <2>2. /\ link' = [q EXCEPT !.total = IF q.total = 0 THEN 1 ELSE q.total]
        /\ UNCHANGED <<price, savings, running, edits, row, cycles, confirming, today, charges, made,
                       billed, unconfirmed, onTime>>
    BY <1>1, <2>1 DEF Revise, Overrides
  <2>3. link' \in Quote /\ link'.intro = q.intro /\ link'.regular = q.regular
    BY <2>2 DEF Quote
  <2>4. PricingTypeOK'
    BY <2>2, <2>3 DEF ChargesInv, PricingTypeOK
  <2>5. CountsAgree' /\ InPeriod' /\ Asked'
    BY <2>1, <2>2, <2>3 DEF ChargesInv, CountsAgree, InPeriod, Asked
  <2> QED BY <2>4, <2>5 DEF ChargesInv
<1>2. CASE ApproveRevision
  <2>1. PICK q \in Quote : q = link /\ q.intro <= q.regular
    BY <1>2 DEF ApproveRevision, ChargesInv, PricingTypeOK, CountsAgree
  <2>2. /\ cycles' = [intro |-> q.intro, regular |-> q.regular, total |-> q.total, used |-> 0]
        /\ link' = Missing /\ unconfirmed' = TRUE
        /\ UNCHANGED <<price, savings, running, edits, row, confirming, today, charges, made, billed, onTime>>
    BY <1>2, <2>1 DEF ApproveRevision
  <2>3. /\ cycles' \in [intro : Nat, regular : Nat, total : Nat, used : Nat]
        /\ cycles'.intro = q.intro /\ cycles'.regular = q.regular
    BY <2>2 DEF Quote
  <2>4. PricingTypeOK'
    BY <2>2, <2>3 DEF ChargesInv, PricingTypeOK
  <2>5. CountsAgree' /\ InPeriod' /\ Asked'
    BY <2>1, <2>2, <2>3 DEF ChargesInv, CountsAgree, InPeriod, Asked
  <2> QED BY <2>4, <2>5 DEF ChargesInv
<1> QED BY <1>1, <1>2

\* Loading the row, waiting for PayPal and giving up touch nothing else.
LEMMA ConfirmingInv ==
  ASSUME ChargesInv, NEW c \in Confirms,
         ConfirmRevision(c) \/ PayPalReports(c) \/ ConfirmFails(c)
  PROVE  ChargesInv'
<1>1. UNCHANGED <<price, savings, running, edits, row, cycles, link, today, charges, made, billed,
                  unconfirmed, onTime>>
  BY DEF ConfirmRevision, PayPalReports, ConfirmFails
<1>2. PICK state \in Confirmation : confirming' = [confirming EXCEPT ![c] = state]
  <2>1. CASE ConfirmRevision(c)
    <3>1. PICK state : /\ state = [at |-> "asking", loaded |-> Columns, read |-> NoAnswer]
                       /\ confirming' = [confirming EXCEPT ![c] = state]
      BY <2>1 DEF ConfirmRevision, Holds
    <3>2. Columns \in [amount : Nat, regular_amount : Nat, promo_cycles : Nat]
      BY <2>1, RowTyped DEF ConfirmRevision, Columns
    <3>3. NoAnswer \in Quote
      BY DEF NoAnswer, Quote
    <3>4. state \in Confirmation
      BY <3>1, <3>2, <3>3 DEF Confirmation
    <3> QED BY <3>1, <3>4
  <2>2. CASE PayPalReports(c)
    <3>1. PICK state : /\ state = [at |-> "answered", loaded |-> confirming[c].loaded, read |-> Reported]
                       /\ confirming' = [confirming EXCEPT ![c] = state]
      BY <2>2 DEF PayPalReports, Holds
    <3>2. confirming[c].loaded \in [amount : Nat, regular_amount : Nat, promo_cycles : Nat]
      BY DEF ChargesInv, PricingTypeOK, Confirmation
    <3>3. Reported \in Quote
      BY DEF Reported, Quote, ChargesInv, PricingTypeOK
    <3>4. state \in Confirmation
      BY <3>1, <3>2, <3>3 DEF Confirmation
    <3> QED BY <3>1, <3>4
  <2>3. CASE ConfirmFails(c)
    BY <2>3, NotAskedTyped DEF ConfirmFails, Holds
  <2> QED BY <2>1, <2>2, <2>3
<1>3. PricingTypeOK'
  <2>1. confirming' \in [Confirms -> Confirmation]
    BY <1>2 DEF ChargesInv, PricingTypeOK
  <2> QED BY <1>1, <2>1 DEF ChargesInv, PricingTypeOK
<1>4. row # Missing
  BY DEF ConfirmRevision, PayPalReports, ConfirmFails, ChargesInv, Asked
<1>5. CountsAgree' /\ InPeriod' /\ Asked'
  BY <1>1, <1>4 DEF ChargesInv, CountsAgree, InPeriod, Asked
<1> QED BY <1>3, <1>5 DEF ChargesInv

\* What a confirmation writes, and, unless it was overtaken, that it is what
\* PayPal charges now.
LEMMA Confirmed ==
  ASSUME ChargesInv, NEW c \in Confirms, CommitConfirmation(c)
  PROVE  /\ row \in Subscription /\ row # Missing
         /\ row' \in Subscription /\ row' # Missing
         /\ row'.interval = row.interval
         /\ row'.current_period_start = row.current_period_start
         /\ row'.current_period_end = row.current_period_end
         /\ ~unconfirmed' =>
              /\ row'.amount = cycles.intro /\ row'.regular_amount = cycles.regular
              /\ row'.promo_cycles = IF cycles.intro < cycles.regular THEN made + cycles.total ELSE 0
<1>1. row # Missing
  BY DEF CommitConfirmation, ChargesInv, Asked
<1>2. PICK r \in Subscription : r = row
  BY <1>1, RowTyped
<1>3. PICK loaded \in [amount : Nat, regular_amount : Nat, promo_cycles : Nat],
           read \in Quote : loaded = confirming[c].loaded /\ read = confirming[c].read
  BY DEF ChargesInv, PricingTypeOK, Confirmation
<1>4. PICK count \in Nat : count = PromoCycles(c)
        /\ count = IF read.intro < read.regular THEN made + read.total ELSE 0
  BY <1>3 DEF PromoCycles, Quote, ChargesInv, PricingTypeOK
<1>5. PICK amount \in Nat, regular \in Nat, promo \in Nat :
        /\ amount = Updated(r.amount, loaded.amount, read.intro)
        /\ regular = Updated(r.regular_amount, loaded.regular_amount, read.regular)
        /\ promo = Updated(r.promo_cycles, loaded.promo_cycles, count)
  BY <1>3, <1>4 DEF Updated, Subscription, Quote
<1>6. row' = [r EXCEPT !.amount = amount, !.regular_amount = regular, !.promo_cycles = promo]
  BY <1>2, <1>3, <1>4, <1>5 DEF CommitConfirmation, ReadBack
<1>7. /\ row' \in Subscription /\ row'.interval = r.interval
      /\ row'.amount = amount /\ row'.regular_amount = regular /\ row'.promo_cycles = promo
      /\ row'.current_period_start = r.current_period_start
      /\ row'.current_period_end = r.current_period_end
  BY <1>6 DEF Subscription
<1>8. row' # Missing
  BY <1>7, PricingAssumption
<1>9. ASSUME ~unconfirmed'
      PROVE  /\ amount = cycles.intro /\ regular = cycles.regular
             /\ promo = IF cycles.intro < cycles.regular THEN made + cycles.total ELSE 0
  <2>1. loaded = Columns /\ read = Reported
    BY <1>3, <1>9 DEF CommitConfirmation, Overtaken
  <2>2. /\ loaded.amount = r.amount /\ loaded.regular_amount = r.regular_amount
        /\ loaded.promo_cycles = r.promo_cycles
    BY <1>2, <2>1 DEF Columns
  <2>3. read.intro = cycles.intro /\ read.regular = cycles.regular /\ read.total = cycles.total
    BY <2>1 DEF Reported
  <2>4. amount = read.intro /\ regular = read.regular /\ promo = count
    BY <1>5, <2>2 DEF Updated
  <2> QED BY <1>4, <2>3, <2>4
<1> QED BY <1>1, <1>2, <1>7, <1>8, <1>9

LEMMA CommitConfirmationInv ==
  ASSUME ChargesInv, NEW c \in Confirms, CommitConfirmation(c)
  PROVE  ChargesInv'
<1>1. /\ confirming' = [confirming EXCEPT ![c] = NotAsked]
      /\ unconfirmed' = Overtaken(c)
      /\ onTime' = (cycles.used = 0 /\ made = charges)
      /\ UNCHANGED <<price, savings, running, edits, cycles, link, today, charges, made, billed>>
  BY DEF CommitConfirmation, Holds
<1>2. PricingTypeOK'
  <2>1. unconfirmed' \in BOOLEAN /\ onTime' \in BOOLEAN
    BY <1>1 DEF Overtaken
  <2>2. confirming' \in [Confirms -> Confirmation]
    BY <1>1, NotAskedTyped DEF ChargesInv, PricingTypeOK
  <2> QED BY <1>1, <2>1, <2>2, Confirmed DEF ChargesInv, PricingTypeOK
<1>3. PICK i, r, t, u, n, m \in Nat :
        /\ i = cycles.intro /\ r = cycles.regular /\ t = cycles.total /\ u = cycles.used
        /\ n = charges /\ m = made /\ i <= r
  BY DEF ChargesInv, PricingTypeOK, CountsAgree
<1>4. CountsAgree'
  <2>1. ASSUME ~unconfirmed', onTime'
        PROVE  \/ row'.amount = row'.regular_amount
               \/ row'.promo_cycles + cycles'.used = charges' + cycles'.total
    <3>1. /\ row'.amount = i /\ row'.regular_amount = r
          /\ row'.promo_cycles = IF i < r THEN m + t ELSE 0
      BY <1>3, <2>1, Confirmed
    <3>2. u = 0 /\ m = n
      BY <1>1, <1>3, <2>1
    <3>3. cycles'.used = u /\ cycles'.total = t /\ charges' = n
      BY <1>1, <1>3
    <3> QED BY <1>3, <3>1, <3>2, <3>3
  <2>2. cycles'.intro <= cycles'.regular /\ (link' # Missing => link'.intro <= link'.regular)
    BY <1>1 DEF ChargesInv, CountsAgree
  <2> QED BY <2>1, <2>2, Confirmed DEF CountsAgree
<1>5. InPeriod'
  BY <1>1, Confirmed DEF ChargesInv, InPeriod
<1>6. Asked'
  BY Confirmed DEF Asked
<1> QED BY <1>2, <1>4, <1>5, <1>6 DEF ChargesInv

LEMMA ChargesInvStep == ChargesInv /\ [PricingNext]_pricingVars => ChargesInv'
BY AdminInv, SubscribeInv, ChargeCycleInv, RecordPaymentInv, WaitInv, RevisionInv, ConfirmingInv,
   CommitConfirmationInv DEF PricingNext

------------------------------------------------------------------------------
(* The amounts. *)

\* The fields that the property reads are there.
Shaped ==
  /\ row # Missing => {"amount", "regular_amount"} \subseteq DOMAIN row
  /\ {"intro", "regular"} \subseteq DOMAIN cycles

PricingInv == Shaped /\ StoredAmountsAreAgreed

LEMMA PricingInvInit == PricingInit => PricingInv
BY DEF PricingInit, PricingInv, Shaped, StoredAmountsAreAgreed

LEMMA PricingInvStep == ChargesInv /\ PricingInv /\ [PricingNext]_pricingVars => PricingInv'
<1> SUFFICES ASSUME ChargesInv, PricingInv, [PricingNext]_pricingVars PROVE PricingInv'
  OBVIOUS
<1> USE DEF PricingInv, Shaped, StoredAmountsAreAgreed
\* Neither the row nor the cycles are touched.
<1>1. ASSUME UNCHANGED <<row, cycles, unconfirmed>> PROVE PricingInv'
  BY <1>1
<1>2. CASE \E p \in Prices : ChangePrice(p)
  BY <1>1, <1>2 DEF ChangePrice
<1>3. CASE \E s \in Savings : ChangeSavings(s)
  BY <1>1, <1>3 DEF ChangeSavings
<1>4. CASE \E offer \in Offers : TogglePromotion(offer)
  BY <1>1, <1>4 DEF TogglePromotion
<1>5. CASE \E days \in Waits : Wait(days)
  BY <1>1, <1>5 DEF Wait
<1>6. CASE Revise
  BY <1>1, <1>6 DEF Revise
<1>7. CASE UNCHANGED pricingVars
  BY <1>1, <1>7 DEF pricingVars
\* The quote goes to the row and to PayPal.
<1>8. CASE \E interval \in Intervals : Subscribe(interval)
  <2>1. PICK interval \in Intervals : Subscribe(interval)
    BY <1>8
  <2>2. PICK q : q = quote_subscription(interval, FALSE, today)
    OBVIOUS
  <2>3. /\ row' = [interval |-> interval, amount |-> q.intro, regular_amount |-> q.regular,
                   promo_cycles |-> q.total,
                   current_period_start |-> Missing, current_period_end |-> Missing]
        /\ cycles' = [intro |-> q.intro, regular |-> q.regular,
                      total |-> Overrides(q).total, used |-> 0]
    BY <2>1, <2>2 DEF Subscribe
  <2> QED BY <2>3
\* The count of charges is no part of it.
<1>9. CASE ChargeCycle
  BY <1>9 DEF ChargeCycle
<1>10. CASE RecordPayment
  BY <1>10 DEF RecordPayment
\* The payer's approval is not known yet.
<1>11. CASE ApproveRevision
  BY <1>11 DEF ApproveRevision
\* A confirmation holds what it reads until it commits, and stores it then.
<1>12. CASE \E c \in Confirms : ConfirmRevision(c) \/ PayPalReports(c) \/ ConfirmFails(c)
  BY <1>1, <1>12 DEF ConfirmRevision, PayPalReports, ConfirmFails
<1>13. CASE \E c \in Confirms : CommitConfirmation(c)
  <2>1. PICK c \in Confirms : CommitConfirmation(c)
    BY <1>13
  <2>2. cycles' = cycles
    BY <2>1 DEF CommitConfirmation
  <2>3. {"amount", "regular_amount"} \subseteq DOMAIN row'
    BY <2>1, Confirmed DEF Subscription
  <2> QED BY <2>1, <2>2, <2>3, Confirmed
<1> QED BY <1>2, <1>3, <1>4, <1>5, <1>6, <1>7, <1>8, <1>9, <1>10, <1>11, <1>12, <1>13
   DEF PricingNext

\* The amounts on the row are those PayPal charges unless an approval has not
\* been confirmed yet, whatever is quoted, edited and charged in between
\* (confirm_paypal_subscription_revision).
THEOREM AmountsAreAgreed == PricingSpec => []StoredAmountsAreAgreed
<1>1. PricingInv => StoredAmountsAreAgreed
  BY DEF PricingInv
<1> QED BY ChargesInvInit, ChargesInvStep, PricingInvInit, PricingInvStep, <1>1, PTL DEF PricingSpec

------------------------------------------------------------------------------

\* The types of the prices, the dates and both sides' records.
THEOREM PricingTyped == PricingSpec => []PricingTypeOK
<1>1. ChargesInv => PricingTypeOK
  BY DEF ChargesInv
<1> QED BY ChargesInvInit, ChargesInvStep, <1>1, PTL DEF PricingSpec

\* The application's forecast of the next charge is PayPal's price, though each
\* counts for itself and a revision begins PayPal's count again
\* (_pricing_update_for, confirm_paypal_subscription_revision).
THEOREM ForecastAgrees == PricingSpec => []ForecastIsPayPals
<1>1. PricingInv /\ ChargesInv => ForecastIsPayPals
  <2> SUFFICES ASSUME PricingInv, ChargesInv, row # Missing, ~unconfirmed, onTime, made = charges
               PROVE  Forecast = PriceAtPayPal
    BY DEF ForecastIsPayPals
  <2>1. row.amount = cycles.intro /\ row.regular_amount = cycles.regular
    BY DEF PricingInv, StoredAmountsAreAgreed
  <2>2. \/ row.amount = row.regular_amount
        \/ row.promo_cycles + cycles.used = charges + cycles.total
    BY DEF ChargesInv, CountsAgree
  <2>3. PICK n, u, t, c \in Nat :
          n = row.promo_cycles /\ u = cycles.used /\ t = cycles.total /\ c = charges
    BY RowTyped DEF ChargesInv, PricingTypeOK
  <2>4. n + u = c + t => (n > c <=> u < t)
    OBVIOUS
  <2> QED BY <2>1, <2>2, <2>3, <2>4 DEF Forecast, PriceAtPayPal
<1> QED BY PricingInvInit, PricingInvStep, ChargesInvInit, ChargesInvStep, <1>1, PTL DEF PricingSpec

\* Whatever promotions run, a new subscriber is quoted the best that applies,
\* and never more than the regular price; a revision lowers the price only by a
\* promotion that still runs at the next charge (active_promotion_for_plan,
\* quote_subscription, _pricing_update_for).
THEOREM BestQuoted == PricingSpec => []QuoteIsTheBest
<1>1. ChargesInv => QuoteIsTheBest
  BY QuotesTheBest, RowTyped DEF ChargesInv, PricingTypeOK
<1> QED BY ChargesInvInit, ChargesInvStep, <1>1, PTL DEF PricingSpec

\* On any date of any period, across month ends, leap days and the turn of a
\* century, a refund is the unused share of the payment to half a cent
\* (prorated_unused_amount).
THEOREM RefundsAreProrated == PricingSpec => []RefundIsTheUnusedPart
<1>1. ChargesInv => RefundIsTheUnusedPart
  <2> SUFFICES ASSUME ChargesInv, made > 0, made = charges PROVE RefundIsTheUnusedPart
    BY DEF RefundIsTheUnusedPart
  <2>1. PICK start, end : start = row.current_period_start /\ end = row.current_period_end
    OBVIOUS
  <2>2. /\ start \in Date /\ end = next_billing_date(start, row.interval) /\ row.interval \in Intervals
        /\ Upto(start, today) /\ Upto(today, end) /\ today \in Date
    BY <2>1, RowTyped DEF ChargesInv, InPeriod, PricingTypeOK
  <2>3. end \in Date /\ MonthIndex(end) - MonthIndex(start) <= 12
    BY <2>2, NextBillingDate
  <2>4. end[3] \in 1..DaysIn(end[1], end[2])
    BY <2>3, DateParts, MonthLength
  <2>5. PICK paid \in Nat : paid = PriceAtPayPal
    BY DEF PriceAtPayPal, ChargesInv, PricingTypeOK
  <2>6. PICK refund \in Nat :
           /\ refund = prorated_unused_amount(paid, start, end, today)
           /\ 2 * (refund * DaysFrom(start, end) - paid * DaysFrom(today, end)) <= DaysFrom(start, end)
           /\ 2 * (-(refund * DaysFrom(start, end) - paid * DaysFrom(today, end))) <= DaysFrom(start, end)
    BY <2>2, <2>3, RefundShare
  <2> QED BY <2>1, <2>4, <2>5, <2>6, Zenon DEF RefundIsTheUnusedPart
<1> QED BY ChargesInvInit, ChargesInvStep, <1>1, PTL DEF PricingSpec
=============================================================================
