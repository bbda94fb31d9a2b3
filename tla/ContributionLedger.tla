-------------------------- MODULE ContributionLedger --------------------------
(***************************************************************************)
(* The ledger of one organization: deliveries that turn each message of a  *)
(* mailbox into one contribution event (app/domain/ingestion.py), finance  *)
(* officers who resolve the queue of doubtful events                       *)
(* (app/api/v1/reconciliation.py), and readers that derive a session's     *)
(* totals from the ledger (app/domain/ledger.py).                          *)
(*                                                                         *)
(* Requests read and write in steps of their own, as in SessionLifecycle:  *)
(* a delivery looks for an earlier event, then matches a session, then     *)
(* inserts; a review loads its item, then decides, then commits; a reader  *)
(* runs two SELECTs.  Sessions are seen as ingestion sees them: a paused   *)
(* session is like a live one.                                             *)
(***************************************************************************)
EXTENDS Integers, Sequences, FiniteSets, Functions, TLC

CONSTANTS
  Sessions,         \* sessions of the organization
  TestSessions,     \* those with test_mode
  Watched,          \* those whose totals somebody reads
  Messages,         \* (mailbox_connection_id, provider_message_id)
  Mailbox,          \* the mailbox each message is in
  Linked,           \* the mailboxes each session listens to
  Profiles,         \* active parser profiles, numbered by created_at
  Threshold,        \* confidence_threshold of each, in halves
  ParseResult,      \* what parse_message makes of each message, by profile
  Amounts,          \* amounts an officer or a rehearsal may enter
  Deliveries,       \* webhook calls, polls and rehearsals in flight at once
  Reviewers,        \* requests to resolve an item in flight at once
  None,             \* a NULL column
  Skew,             \* how far a Date header may run ahead of our clock
  MaxTime,          \* bound of the model on the clock
  MaxLedger         \* bound of the model on the number of events

ASSUME LedgerAssumption ==
  /\ TestSessions \subseteq Sessions
  /\ Watched \subseteq Sessions
  /\ None \notin Sessions \cup Messages \cup Int
  /\ Profiles \subseteq Nat
  /\ Amounts \subseteq Nat
  /\ Threshold \in [Profiles -> 0..2]
  /\ \A m \in Messages, p \in Profiles :
       ParseResult[m][p] \in [specificity : 0..2, credit : BOOLEAN, amount : Nat \cup {None}]
  /\ Skew \in Nat
  /\ MaxTime \in Nat

VARIABLES
  now,          \* the wall clock
  received,     \* received_at of each message
  session,      \* status, watermark and the time it ended, of each session
  ledger,       \* contribution_events in order of commit; a position is an id
  items,        \* reconciliation_items: status by contribution_event_id
  delivering,   \* what each delivery holds in memory
  reviewing,    \* what each review holds in memory
  reading,      \* the totals being computed for each session: first SELECT
  shown         \* the totals last computed for each session

vars == <<now, received, session, ledger, items, delivering, reviewing, reading, shown>>

Time == 0..MaxTime
Eligible == {"authorized", "live"}
Reconciliable == {"ambiguous", "excluded_time_window"}
Idle == [at |-> "idle"]
Zero == [count |-> 0, total |-> 0]

Event(message, s, verdict, corrects) ==
  [message |-> message, session |-> s, decision |-> verdict.decision,
   amount |-> verdict.amount, corrects |-> corrects]

Ids == DOMAIN ledger
WithDecision(s, decision) ==
  {e \in Ids : ledger[e].session = s /\ ledger[e].decision = decision}

------------------------------------------------------------------------------
(***************************************************************************)
(* What the sessions do, as far as the ledger can see.                     *)
(***************************************************************************)

OnlySessions == UNCHANGED <<now, received, ledger, items, delivering, reviewing, reading, shown>>

Authorize(s) ==
  /\ session[s].status = "draft"
  /\ session' = [session EXCEPT ![s].status = "authorized", ![s].watermark = now]
  /\ OnlySessions

GoLive(s) ==
  /\ session[s].status = "authorized"
  /\ session' = [session EXCEPT ![s].status = "live"]
  /\ OnlySessions

End(s) ==
  /\ session[s].status # "ended"
  /\ session' = [session EXCEPT ![s].status = "ended", ![s].ended = now]
  /\ OnlySessions

------------------------------------------------------------------------------
(***************************************************************************)
(* Parsing and matching.                                                   *)
(***************************************************************************)

Matching(m) == {p \in Profiles : ParseResult[m][p].specificity > 0}

\* The most specific profile that matches the sender, the oldest among equals.
Best(m) ==
  {p \in Matching(m) : \A q \in Matching(m) :
     LET mine == ParseResult[m][p].specificity
         other == ParseResult[m][q].specificity
     IN mine > other \/ (mine = other /\ p <= q)}

\* In halves: a credit whose amount cannot be read is worth one.
Confidence(parsed) ==
  IF ~parsed.credit THEN 0 ELSE IF parsed.amount = None THEN 1 ELSE 2

Judged(decision, amount) == [decision |-> decision, amount |-> amount]

Judgement(parsed, threshold) ==
  IF ~parsed.credit THEN Judged("excluded_no_credit_intent", None)
  ELSE IF Confidence(parsed) < threshold
       THEN Judged("ambiguous", parsed.amount)
       ELSE Judged("accepted", parsed.amount)

\* The decision on a message that falls in the window of a session.
Verdict(m) ==
  IF Matching(m) = {} THEN {Judged("excluded_source_mismatch", None)}
  ELSE {Judgement(ParseResult[m][p], Threshold[p]) : p \in Best(m)}

Candidates(m) ==
  {s \in Sessions : /\ session[s].status \in Eligible
                    /\ session[s].watermark # None
                    /\ Mailbox[m] \in Linked[s]}

\* Mutant: the window is not looked at.
AnyWindow(m) == Candidates(m)
\* Mutant: the window opens after the instant of authorization.
AfterAuthorization(m) == {s \in Candidates(m) : session[s].watermark < received[m]}
InWindow(m) == {s \in Candidates(m) : session[s].watermark <= received[m]}

Latest(S) == {s \in S : \A t \in S : session[t].watermark <= session[s].watermark}
Earliest(S) == {s \in S : \A t \in S : session[s].watermark <= session[t].watermark}

\* The event a message becomes.  Equal watermarks are ordered by the database.
Matched(m) ==
  IF Candidates(m) = {}
  THEN {Event(m, None, Judged("excluded_no_active_session", None), None)}
  ELSE IF InWindow(m) # {}
       THEN {Event(m, s, v, None) : s \in Latest(InWindow(m)), v \in Verdict(m)}
       ELSE {Event(m, s, Judged("excluded_time_window", None), None) :
               s \in Earliest(Candidates(m))}

------------------------------------------------------------------------------
(***************************************************************************)
(* Deliveries: the webhook, the poller and the rehearsal route.            *)
(***************************************************************************)

Existing(m) == \E e \in Ids : ledger[e].message = m

\* ingest_message looks for an event of the same message; the provider may
\* deliver a message many times, to many requests.
Receive(d, m) ==
  /\ delivering[d] = Idle
  /\ received[m] <= now + Skew
  /\ ~Existing(m)
  /\ delivering' = [delivering EXCEPT ![d] = [at |-> "matching", message |-> m]]
  /\ UNCHANGED <<now, received, session, ledger, items, reviewing, reading, shown>>

Match(d) ==
  /\ delivering[d].at = "matching"
  /\ \E event \in Matched(delivering[d].message) :
       delivering' = [delivering EXCEPT ![d] = [at |-> "inserting", event |-> event]]
  /\ UNCHANGED <<now, received, session, ledger, items, reviewing, reading, shown>>

\* The rehearsal of a test session; its event belongs to no message.
SimulateDeposit(d, s, amount) ==
  /\ delivering[d] = Idle
  /\ s \in TestSessions
  /\ session[s].status = "live"
  /\ delivering' = [delivering EXCEPT ![d] =
       [at |-> "inserting", event |-> Event(None, s, Judged("accepted", amount), None)]]
  /\ UNCHANGED <<now, received, session, ledger, items, reviewing, reading, shown>>

\* Mutant: the item names the event before the new one.
RecordedBeforeFlush(event) ==
  /\ Len(ledger) < MaxLedger
  /\ ledger' = Append(ledger, event)
  /\ items' = IF event.decision \in Reconciliable /\ event.session # None
              THEN [e \in DOMAIN items \cup {Len(ledger)} |->
                      IF e \in DOMAIN items THEN items[e] ELSE "pending"]
              ELSE items

\* The new event, and its item if an officer should look at it.
Recorded(event) ==
  /\ Len(ledger) < MaxLedger
  /\ ledger' = Append(ledger, event)
  /\ items' = IF event.decision \in Reconciliable /\ event.session # None
              THEN [e \in DOMAIN items \cup {Len(ledger) + 1} |->
                      IF e \in DOMAIN items THEN items[e] ELSE "pending"]
              ELSE items

\* Mutant: the table has no unique constraint.
InsertUnchecked(d) ==
  /\ delivering[d].at = "inserting"
  /\ Recorded(delivering[d].event)
  /\ delivering' = [delivering EXCEPT ![d] = Idle]
  /\ UNCHANGED <<now, received, session, reviewing, reading, shown>>

\* Flush and commit, under the unique constraint on messages.
Insert(d) ==
  /\ delivering[d].at = "inserting"
  /\ delivering[d].event.message # None => ~Existing(delivering[d].event.message)
  /\ Recorded(delivering[d].event)
  /\ delivering' = [delivering EXCEPT ![d] = Idle]
  /\ UNCHANGED <<now, received, session, reviewing, reading, shown>>

\* The constraint refuses the insert, or the request dies: it is rolled back.
AbortDelivery(d) ==
  /\ delivering[d] # Idle
  /\ delivering' = [delivering EXCEPT ![d] = Idle]
  /\ UNCHANGED <<now, received, session, ledger, items, reviewing, reading, shown>>

------------------------------------------------------------------------------
(***************************************************************************)
(* Reconciliation.                                                         *)
(***************************************************************************)

Holds(r, state) ==
  /\ reviewing' = [reviewing EXCEPT ![r] = state]
  /\ UNCHANGED <<now, received, session, ledger, items, delivering, reading, shown>>

\* Mutant: an item may be resolved again.
ReviewAny(r, i) ==
  /\ reviewing[r] = Idle
  /\ Holds(r, [at |-> "deciding", item |-> i])

Review(r, i) ==
  /\ reviewing[r] = Idle
  /\ items[i] = "pending"
  /\ Holds(r, [at |-> "deciding", item |-> i])

Decides(r, event) == Holds(r, [at |-> "resolving", item |-> reviewing[r].item, event |-> event])

\* EXCLUDED and DUPLICATE add nothing to the ledger.
Exclude(r) ==
  /\ reviewing[r].at = "deciding"
  /\ Decides(r, None)

\* ACCEPTED adds an event that counts, with the officer's amount if given.
Accept(r, corrected) ==
  /\ reviewing[r].at = "deciding"
  /\ LET original == ledger[reviewing[r].item]
         amount == IF corrected # None THEN corrected ELSE original.amount
     IN /\ amount # None
        /\ Decides(r, Event(None, original.session, Judged("accepted", amount),
                            reviewing[r].item))

\* Mutant: an event may be reversed any number of times.
NeverReversed(target) == FALSE
Reversed(target) ==
  \E e \in Ids : ledger[e].corrects = target /\ ledger[e].decision = "reversed"

\* Mutant: the earlier contribution may be another session's.
ReverseAnywhere(r, target) ==
  /\ reviewing[r].at = "deciding"
  /\ ledger[target].decision = "accepted"
  /\ ledger[target].amount # None
  /\ ~Reversed(target)
  /\ Decides(r, Event(None, ledger[reviewing[r].item].session,
                      Judged("reversed", ledger[target].amount), target))

\* REVERSED nets an earlier contribution of the same session out.
Reverse(r, target) ==
  /\ reviewing[r].at = "deciding"
  /\ LET original == ledger[reviewing[r].item]
         earlier == ledger[target]
     IN /\ earlier.session = original.session
        /\ earlier.decision = "accepted"
        /\ earlier.amount # None
        /\ ~Reversed(target)
        /\ Decides(r, Event(None, original.session, Judged("reversed", earlier.amount), target))

\* db.commit(): the item is resolved and its event, if any, is in the ledger.
Resolve(r) ==
  /\ reviewing[r].at = "resolving"
  /\ LET event == reviewing[r].event IN
     IF event = None
     THEN UNCHANGED ledger
     ELSE Len(ledger) < MaxLedger /\ ledger' = Append(ledger, event)
  /\ items' = [items EXCEPT ![reviewing[r].item] = "resolved"]
  /\ reviewing' = [reviewing EXCEPT ![r] = Idle]
  /\ UNCHANGED <<now, received, session, delivering, reading, shown>>

AbortReview(r) ==
  /\ reviewing[r] # Idle
  /\ Holds(r, Idle)

------------------------------------------------------------------------------
(***************************************************************************)
(* compute_ledger_totals: two SELECTs, each with its own snapshot.         *)
(***************************************************************************)

\* What an event adds to a sum: SUM passes over NULL.
AmountOf == [e \in Ids |-> IF ledger[e].amount = None THEN 0 ELSE ledger[e].amount]

\* COUNT and SUM over the events of a session.
Aggregate(S) == [count |-> Cardinality(S), total |-> SumFunctionOnSet(AmountOf, S)]

Minus(a, b) == [count |-> a.count - b.count, total |-> a.total - b.total]

\* Mutant: the reversals are read before what they reverse.
ReversalsFirst == <<"reversed", "accepted">>
SelectOrder == <<"accepted", "reversed">>

Select(s, n) == Aggregate(WithDecision(s, SelectOrder[n]))

FirstSelect(s) ==
  /\ reading[s] = Idle
  /\ reading' = [reading EXCEPT ![s] = [at |-> "between", first |-> Select(s, 1)]]
  /\ UNCHANGED <<now, received, session, ledger, items, delivering, reviewing, shown>>

SecondSelect(s) ==
  /\ reading[s].at = "between"
  /\ LET sums == [decision \in {"accepted", "reversed"} |->
                    IF decision = SelectOrder[1] THEN reading[s].first ELSE Select(s, 2)]
     IN shown' = [shown EXCEPT ![s] = Minus(sums["accepted"], sums["reversed"])]
  /\ reading' = [reading EXCEPT ![s] = Idle]
  /\ UNCHANGED <<now, received, session, ledger, items, delivering, reviewing>>

Tick ==
  /\ now < MaxTime
  /\ now' = now + 1
  /\ UNCHANGED <<received, session, ledger, items, delivering, reviewing, reading, shown>>

------------------------------------------------------------------------------

Init ==
  /\ now = 0
  /\ received \in [Messages -> Time]
  /\ session = [s \in Sessions |-> [status |-> "draft", watermark |-> None, ended |-> None]]
  /\ ledger = << >>
  /\ items = [e \in {} |-> "pending"]
  /\ delivering = [d \in Deliveries |-> Idle]
  /\ reviewing = [r \in Reviewers |-> Idle]
  /\ reading = [s \in Sessions |-> Idle]
  /\ shown = [s \in Sessions |-> Zero]

Lifecycle == \E s \in Sessions : Authorize(s) \/ GoLive(s) \/ End(s)

Delivery ==
  \E d \in Deliveries :
    \/ \E m \in Messages : Receive(d, m)
    \/ Match(d)
    \/ \E s \in Sessions, amount \in Amounts : SimulateDeposit(d, s, amount)
    \/ Insert(d)
    \/ AbortDelivery(d)

Reconciliation ==
  \E r \in Reviewers :
    \/ \E i \in DOMAIN items : Review(r, i)
    \/ Exclude(r)
    \/ \E corrected \in Amounts \cup {None} : Accept(r, corrected)
    \/ \E target \in Ids : Reverse(r, target)
    \/ Resolve(r)
    \/ AbortReview(r)

Reading == \E s \in Watched : FirstSelect(s) \/ SecondSelect(s)

Next == Lifecycle \/ Delivery \/ Reconciliation \/ Reading \/ Tick

Spec == Init /\ [][Next]_vars

------------------------------------------------------------------------------
(***************************************************************************)
(* Properties that hold whatever the interleaving.                         *)
(***************************************************************************)

Decisions ==
  Reconciliable \cup {"accepted", "reversed", "excluded_source_mismatch",
                      "excluded_no_credit_intent", "excluded_no_active_session"}

\* The rows have the types of their columns: references lead to rows, and
\* what counts belongs to a session.
TypeOK ==
  /\ now \in Time
  /\ \A s \in Sessions : session[s].watermark \in Time \cup {None}
  /\ \A e \in Ids :
       /\ ledger[e].message \in Messages \cup {None}
       /\ ledger[e].session \in Sessions \cup {None}
       /\ ledger[e].decision \in Decisions
       /\ ledger[e].amount \in Nat \cup {None}
       /\ ledger[e].corrects \in (1..(e - 1)) \cup {None}
       /\ ledger[e].decision \in {"accepted", "reversed"} => ledger[e].session # None
  /\ DOMAIN items \subseteq Ids
  /\ \A i \in DOMAIN items : items[i] \in {"pending", "resolved"}

\* Redelivering a message, even to two requests at once, leaves one event of
\* it in the ledger (README.md:124 and acceptance criterion 3, README.md:242).
OneEventPerMessage ==
  \A e, f \in Ids :
    (ledger[e].message # None /\ ledger[e].message = ledger[f].message) => e = f

\* A message that counts without review arrived in the window of a session
\* that listens to its mailbox: not before the watermark and not after the
\* end (acceptance criterion 2, README.md:241), also when the session ends
\* while the message is being parsed.
CountedInWindow ==
  \A e \in Ids :
    (ledger[e].decision = "accepted" /\ ledger[e].message # None) =>
      LET s == session[ledger[e].session]
          at == received[ledger[e].message]
      IN /\ Mailbox[ledger[e].message] \in Linked[ledger[e].session]
         /\ s.watermark # None /\ s.watermark <= at
         /\ s.ended # None => at <= s.ended + Skew

\* A message that is left out as too early arrived before its session was
\* authorized: one that arrived at that very instant counts, whatever session was
\* authorized or ended while the message was on its way (ingestion.py:134).
OnlyEarlyIsExcluded ==
  \A e \in Ids :
    ledger[e].decision = "excluded_time_window" =>
      received[ledger[e].message] < session[ledger[e].session].watermark

\* The total that would be computed now, in one snapshot.
Net(s) == Minus(Aggregate(WithDecision(s, "accepted")), Aggregate(WithDecision(s, "reversed")))

\* The two SELECTs of compute_ledger_totals are not one snapshot, yet what
\* they show never claims more than the ledger holds: a deposit reversed
\* between them is not shown.
TotalsNeverOverstate ==
  [][\A s \in Sessions : shown'[s] # shown[s] =>
       /\ shown'[s].count <= Net(s).count
       /\ shown'[s].total <= Net(s).total]_vars

------------------------------------------------------------------------------
(***************************************************************************)
(* Properties of reviews made one at a time (Reviewers is a singleton).    *)
(***************************************************************************)

\* The deposit an accepted event stands for: the event it corrects, or itself.
Deposit(e) == IF ledger[e].corrects = None THEN e ELSE ledger[e].corrects

\* A deposit counts once: no doubtful event is accepted twice.
OneAcceptPerDeposit ==
  \A e, f \in Ids :
    (/\ ledger[e].decision = "accepted" /\ ledger[f].decision = "accepted"
     /\ Deposit(e) = Deposit(f)) => e = f

\* The accepted events of a session that no reversal names.
Standing(s) == {e \in WithDecision(s, "accepted") : ~Reversed(e)}

\* "a reversal ... should make the numbers go back down" (domain/ledger.py:18):
\* the net of a session is the sum of the contributions still standing.
NetIsStanding == \A s \in Sessions : Net(s) = Aggregate(Standing(s))

\* The ledger as a book of deposits: what deliveries and rehearsals added, with
\* the event that accepts each.
Deposits == {e \in Ids : ledger[e].corrects = None}

Acceptances(d) == {e \in Ids : ledger[e].decision = "accepted" /\ Deposit(e) = d}

Fate ==
  [d \in Deposits |->
     IF Acceptances(d) # {}
     THEN IF \E e \in Acceptances(d) : Reversed(e) THEN "reversed" ELSE "counts"
     ELSE IF d \in DOMAIN items /\ items[d] = "pending" THEN "doubtful" ELSE "excluded"]

Amount ==
  [d \in Deposits |-> IF Acceptances(d) = {} THEN ledger[d].amount
                      ELSE ledger[CHOOSE e \in Acceptances(d) : TRUE].amount]

DepositsBook ==
  [d \in Deposits |-> [message |-> ledger[d].message, session |-> ledger[d].session,
                       amount |-> Amount[d], fate |-> Fate[d]]]

Book == INSTANCE DepositBook WITH book <- DepositsBook

\* "never mutates the original ledger event" (README.md:173): though corrections
\* and reversals are events appended after those they correct, and totals are
\* two SELECTs, the ledger is a book in which each deposit is decided once and
\* taken back once, and no display shows more than the deposits that count.
ImplementsBook == Book!Spec
==============================================================================
