----------------------- MODULE ContributionLedgerProofs -----------------------
(***************************************************************************)
(* Proofs about ContributionLedger, for any number of sessions, messages,  *)
(* deliveries and reviews, and any parser profiles.                        *)
(*                                                                         *)
(* The invariant says what every event in the ledger has to answer for,    *)
(* and says the same of the events that deliveries and reviews still hold  *)
(* in memory: they were computed from a state that may have changed, and   *)
(* must be right in the state they are committed to.                       *)
(*                                                                         *)
(* Totals are sums over finite sets: a reader's first sum is no more than  *)
(* a later one of a larger set, and what reversals take back is the sum of *)
(* the events they name (FiniteSums).                                      *)
(***************************************************************************)
EXTENDS ContributionLedger, FiniteSums, TLAPS

EventType ==
  [message : Messages \cup {None}, session : Sessions \cup {None}, decision : Decisions,
   amount : Nat \cup {None}, corrects : Nat \cup {None}]

SessionType ==
  [status : {"draft", "authorized", "live", "ended"},
   watermark : Time \cup {None}, ended : Time \cup {None}]

\* A draft has no watermark, and the end is known exactly when it is over.
SessionsSound ==
  /\ now \in Time
  /\ received \in [Messages -> Time]
  /\ session \in [Sessions -> SessionType]
  /\ \A s \in Sessions :
       /\ session[s].status = "draft" => session[s].watermark = None
       /\ session[s].status # "draft" /\ session[s].status # "ended" =>
            session[s].watermark # None
       /\ session[s].ended # None => session[s].status = "ended"

Arrived(m) == received[m] <= now + Skew

\* What an event that counts without review has to answer for, and one that is
\* left out as too early.
InItsWindow(event) ==
  /\ (event.decision = "accepted" /\ event.message # None) =>
       LET s == session[event.session]
           at == received[event.message]
       IN /\ Mailbox[event.message] \in Linked[event.session]
          /\ s.watermark # None /\ s.watermark <= at
          /\ s.ended # None => at <= s.ended + Skew
  /\ event.decision = "excluded_time_window" =>
       /\ event.message # None /\ event.session # None
       /\ session[event.session].watermark # None
       /\ received[event.message] < session[event.session].watermark

Attributed(event) ==
  /\ event.decision \in {"accepted", "reversed"} => event.session # None
  /\ event.message # None => Arrived(event.message) /\ event.corrects = None
  /\ event.message = None => event.decision \in {"accepted", "reversed"}

EventOK(event) == event \in EventType /\ Attributed(event) /\ InItsWindow(event)

LedgerOK ==
  /\ ledger \in Seq(EventType)
  /\ \A e \in Ids : EventOK(ledger[e]) /\ ledger[e].corrects \in (1..(e - 1)) \cup {None}

\* Items are of doubtful events of a session.
Queued(i) ==
  /\ i \in Ids
  /\ ledger[i].decision \in Reconciliable
  /\ ledger[i].session # None

ItemsOK ==
  /\ \A i \in DOMAIN items : Queued(i)
  /\ items \in [DOMAIN items -> {"pending", "resolved"}]

DeliveryOK(d) ==
  \/ delivering[d] = Idle
  \/ /\ delivering[d].at = "matching"
     /\ delivering[d].message \in Messages
     /\ Arrived(delivering[d].message)
  \/ /\ delivering[d].at = "inserting"
     /\ EventOK(delivering[d].event)
     /\ delivering[d].event.corrects = None /\ delivering[d].event.decision # "reversed"

\* An event a review is about to add corrects an event in the ledger.
Correction(event) ==
  /\ event \in EventType
  /\ event.message = None
  /\ event.session # None
  /\ event.decision \in {"accepted", "reversed"}
  /\ event.corrects \in Ids

ReviewOK(r) ==
  \/ reviewing[r] = Idle
  \/ reviewing[r].at = "deciding" /\ reviewing[r].item \in DOMAIN items
  \/ /\ reviewing[r].at = "resolving"
     /\ reviewing[r].item \in DOMAIN items
     /\ reviewing[r].event # None => Correction(reviewing[r].event)

InFlightOK ==
  /\ DOMAIN delivering = Deliveries /\ DOMAIN reviewing = Reviewers
  /\ delivering = [d \in Deliveries |-> delivering[d]]
  /\ reviewing = [r \in Reviewers |-> reviewing[r]]
  /\ \A d \in Deliveries : DeliveryOK(d)
  /\ \A r \in Reviewers : ReviewOK(r)

IInv == SessionsSound /\ LedgerOK /\ ItemsOK /\ InFlightOK /\ OneEventPerMessage

------------------------------------------------------------------------------

\* Both the tables and the requests in memory are empty at first.
LEMMA InitIInv == Init => IInv
<1> USE LedgerAssumption
<1>1. ASSUME Init PROVE IInv
  <2>1. SessionsSound
    BY <1>1 DEF Init, SessionsSound, SessionType, Time
  <2>2. Ids = {} /\ ledger \in Seq(EventType)
    BY <1>1 DEF Init, Ids
  <2>3. LedgerOK /\ ItemsOK /\ OneEventPerMessage
    BY <1>1, <2>2 DEF Init, LedgerOK, ItemsOK, OneEventPerMessage
  <2>4. InFlightOK
    BY <1>1 DEF Init, InFlightOK, DeliveryOK, ReviewOK
  <2> QED BY <2>1, <2>3, <2>4 DEF IInv
<1> QED BY <1>1

\* Whatever the sessions do and however the clock moves, an event that was
\* rightly in its window stays so: a session that ends, ends no earlier than
\* the messages it took have arrived.
LEMMA EventsStand ==
  ASSUME SessionsSound, SessionsSound', received' = received,
         now' \in Nat, now <= now',
         \A s \in Sessions : session[s].watermark # None =>
           /\ session'[s].watermark = session[s].watermark
           /\ session'[s].ended \in {session[s].ended, now}
           /\ session[s].ended # None => session'[s].ended = session[s].ended,
         NEW event, EventOK(event)
  PROVE  EventOK(event)'
<1> USE LedgerAssumption
<1>1. Attributed(event)'
  BY DEF EventOK, EventType, Attributed, Arrived, SessionsSound, Time
<1>2. InItsWindow(event)'
  <2> DEFINE s == event.session
  <2>1. CASE event.decision = "accepted" /\ event.message # None
    <3>1. s \in Sessions /\ event.message \in Messages
      BY <2>1 DEF EventOK, EventType, Attributed
    <3>2. /\ Mailbox[event.message] \in Linked[s]
          /\ session[s].watermark # None /\ session[s].watermark <= received[event.message]
          /\ session[s].ended # None => received[event.message] <= session[s].ended + Skew
      BY <2>1 DEF EventOK, InItsWindow
    <3>3. received[event.message] <= now + Skew
      BY <2>1 DEF EventOK, Attributed, Arrived
    <3>4. session'[s].ended # None => received[event.message] <= session'[s].ended + Skew
      BY <3>1, <3>2, <3>3
    <3> QED BY <2>1, <3>1, <3>2, <3>4 DEF InItsWindow
  <2>2. CASE event.decision = "excluded_time_window"
    <3>1. /\ event.message # None /\ s # None /\ session[s].watermark # None
          /\ received[event.message] < session[s].watermark
      BY <2>2 DEF EventOK, InItsWindow
    <3>2. s \in Sessions
      BY <3>1 DEF EventOK, EventType
    <3> QED BY <2>2, <3>1, <3>2 DEF InItsWindow
  <2> QED BY <2>1, <2>2 DEF InItsWindow
<1> QED BY <1>1, <1>2 DEF EventOK

\* The sessions and the clock move on while the tables and the requests stay.
LEMMA WorldMoves ==
  ASSUME IInv, SessionsSound', now' \in Nat, now <= now',
         UNCHANGED <<received, ledger, items, delivering, reviewing>>,
         \A s \in Sessions : session[s].watermark # None =>
           /\ session'[s].watermark = session[s].watermark
           /\ session'[s].ended \in {session[s].ended, now}
           /\ session[s].ended # None => session'[s].ended = session[s].ended
  PROVE  IInv'
<1> USE LedgerAssumption
<1>1. \A event : EventOK(event) => EventOK(event)'
  BY EventsStand DEF IInv
<1>2. LedgerOK'
  <2>1. ledger' = ledger /\ Ids' = Ids
    BY DEF Ids
  <2>2. ASSUME NEW e \in Ids PROVE EventOK(ledger[e])'
    <3>1. EventOK(ledger[e])
      BY <2>2 DEF IInv, LedgerOK
    <3> QED BY <1>1, <3>1, <2>1 DEF EventOK, Attributed, InItsWindow, Arrived, EventType, Time
  <2> QED BY <2>1, <2>2 DEF IInv, LedgerOK
<1>3. ItemsOK' /\ OneEventPerMessage'
  BY DEF IInv, ItemsOK, Queued, OneEventPerMessage, Ids
<1>4. ASSUME NEW d \in Deliveries PROVE DeliveryOK(d)'
  <2>1. DeliveryOK(d) /\ delivering' = delivering
    BY DEF IInv, InFlightOK
  <2>2. CASE delivering[d] = Idle
    BY <2>1, <2>2 DEF DeliveryOK, Idle
  <2>3. CASE delivering[d].at = "matching" /\ delivering[d] # Idle
    BY <2>1, <2>3 DEF DeliveryOK, Idle, Arrived, IInv, SessionsSound, Time
  <2>4. CASE delivering[d].at = "inserting" /\ delivering[d] # Idle
    <3>1. /\ EventOK(delivering[d].event) /\ delivering[d].event.corrects = None
          /\ delivering[d].event.decision # "reversed"
      BY <2>1, <2>4 DEF DeliveryOK, Idle
    <3>2. EventOK(delivering[d].event)'
      BY <1>1, <3>1, <2>1 DEF EventOK, Attributed, InItsWindow, Arrived, EventType, Time
    <3> QED BY <2>1, <2>4, <3>1, <3>2 DEF DeliveryOK
  <2> QED BY <2>1, <2>2, <2>3, <2>4 DEF DeliveryOK
<1>5. \A r \in Reviewers : ReviewOK(r)'
  BY DEF IInv, InFlightOK, ReviewOK, Correction, Ids, EventType, Time
<1>6. InFlightOK'
  BY <1>4, <1>5 DEF IInv, InFlightOK
<1> QED BY <1>2, <1>3, <1>6 DEF IInv

\* What a sequence is after one more event.
LEMMA AppendFacts ==
  ASSUME ledger \in Seq(EventType), NEW event \in EventType, ledger' = Append(ledger, event)
  PROVE  /\ ledger' \in Seq(EventType)
         /\ Len(ledger) \in Nat /\ Ids = 1..Len(ledger)
         /\ Ids' = Ids \cup {Len(ledger) + 1}
         /\ Len(ledger) + 1 \notin Ids
         /\ \A e \in Ids : ledger'[e] = ledger[e]
         /\ ledger'[Len(ledger) + 1] = event
  BY DEF Ids

\* An event that answers for itself and repeats no message may be added.
LEMMA Appending ==
  ASSUME IInv, UNCHANGED <<now, received, session>>,
         NEW event, EventOK(event), ledger' = Append(ledger, event),
         event.corrects \in Ids \cup {None},
         event.message # None => ~Existing(event.message)
  PROVE  /\ SessionsSound' /\ LedgerOK' /\ OneEventPerMessage'
         /\ Ids' = Ids \cup {Len(ledger) + 1}
         /\ \A e \in Ids : ledger'[e] = ledger[e]
         /\ ledger'[Len(ledger) + 1] = event
<1> USE LedgerAssumption
<1>1. event \in EventType /\ ledger \in Seq(EventType)
  BY DEF EventOK, IInv, LedgerOK
<1>2. /\ ledger' \in Seq(EventType)
      /\ Len(ledger) \in Nat /\ Ids = 1..Len(ledger)
      /\ Ids' = Ids \cup {Len(ledger) + 1}
      /\ Len(ledger) + 1 \notin Ids
      /\ \A e \in Ids : ledger'[e] = ledger[e]
      /\ ledger'[Len(ledger) + 1] = event
  BY <1>1, AppendFacts
<1>3. SessionsSound'
  BY DEF IInv, SessionsSound
<1>4. ASSUME NEW x, EventOK(x) PROVE EventOK(x)'
  BY <1>4 DEF EventOK, Attributed, InItsWindow, Arrived, EventType, Time
<1>5. ASSUME NEW e \in Ids'
      PROVE  EventOK(ledger[e])' /\ (ledger[e].corrects \in (1..(e - 1)) \cup {None})'
  <2>1. CASE e \in Ids
    <3>1. EventOK(ledger[e]) /\ ledger[e].corrects \in (1..(e - 1)) \cup {None}
      BY <2>1 DEF IInv, LedgerOK
    <3>2. ledger'[e] = ledger[e]
      BY <2>1, <1>2
    <3> QED BY <3>1, <3>2, <1>4 DEF EventOK, Attributed, InItsWindow, Arrived, EventType, Time
  <2>2. CASE e = Len(ledger) + 1
    <3>1. ledger'[e] = event
      BY <2>2, <1>2
    <3>2. event.corrects \in (1..(e - 1)) \cup {None}
      BY <2>2, <1>2
    <3> QED BY <3>1, <3>2, <1>4 DEF EventOK, Attributed, InItsWindow, Arrived, EventType, Time
  <2> QED BY <2>1, <2>2, <1>2
<1>6. LedgerOK'
  BY <1>2, <1>5 DEF LedgerOK
<1>7. OneEventPerMessage'
  BY <1>2 DEF IInv, OneEventPerMessage, Existing
<1> QED BY <1>2, <1>3, <1>6, <1>7

\* What is in memory stays sound while the ledger and the queue only grow.
LEMMA RequestsStand ==
  ASSUME IInv, UNCHANGED <<now, received, session>>,
         Ids \subseteq Ids', DOMAIN items \subseteq DOMAIN items'
  PROVE  /\ \A d \in Deliveries : delivering'[d] = delivering[d] => DeliveryOK(d)'
         /\ \A r \in Reviewers : reviewing'[r] = reviewing[r] => ReviewOK(r)'
<1> USE LedgerAssumption
<1>1. ASSUME NEW d \in Deliveries, delivering'[d] = delivering[d] PROVE DeliveryOK(d)'
  BY <1>1 DEF IInv, InFlightOK, DeliveryOK, EventOK, Attributed, InItsWindow, Arrived,
              EventType, Time
<1>2. ASSUME NEW r \in Reviewers, reviewing'[r] = reviewing[r] PROVE ReviewOK(r)'
  BY <1>2 DEF IInv, InFlightOK, ReviewOK, Correction, EventType
<1> QED BY <1>1, <1>2

\* Parsing gives a typed decision and amount.
LEMMA VerdictTyped ==
  ASSUME NEW m \in Messages, NEW v \in Verdict(m)
  PROVE  /\ v.decision \in Decisions \ {"reversed", "excluded_time_window"}
         /\ v.amount \in Nat \cup {None}
<1> USE LedgerAssumption
<1>1. CASE Matching(m) = {}
  BY <1>1 DEF Verdict, Judged, Decisions
<1>2. CASE Matching(m) # {}
  <2>1. PICK p \in Best(m) : v = Judgement(ParseResult[m][p], Threshold[p])
    BY <1>2 DEF Verdict
  <2>2. ParseResult[m][p].amount \in Nat \cup {None}
    BY <2>1 DEF Best, Matching
  <2>3. v \in {Judged("excluded_no_credit_intent", None),
              Judged("ambiguous", ParseResult[m][p].amount),
              Judged("accepted", ParseResult[m][p].amount)}
    BY <2>1 DEF Judgement
  <2> QED BY <2>2, <2>3 DEF Judged, Decisions, Reconciliable
<1> QED BY <1>1, <1>2

\* The event a message becomes answers for itself.
LEMMA MatchedOK ==
  ASSUME IInv, NEW m \in Messages, Arrived(m), NEW event \in Matched(m)
  PROVE  EventOK(event) /\ event.corrects = None /\ event.decision # "reversed"
<1> USE LedgerAssumption
<1>1. CASE Candidates(m) = {}
  <2>1. event = Event(m, None, Judged("excluded_no_active_session", None), None)
    BY <1>1 DEF Matched
  <2> QED BY <2>1 DEF Event, Judged, EventOK, EventType, Decisions, Attributed, InItsWindow
<1>2. CASE Candidates(m) # {} /\ InWindow(m) # {}
  <2>1. PICK s \in Latest(InWindow(m)), v \in Verdict(m) : event = Event(m, s, v, None)
    BY <1>2 DEF Matched
  <2>2. /\ s \in Sessions /\ session[s].status \in Eligible
        /\ session[s].watermark # None /\ Mailbox[m] \in Linked[s]
        /\ session[s].watermark <= received[m]
    BY <2>1 DEF Latest, InWindow, Candidates
  <2>3. session[s].ended = None
    BY <2>2 DEF IInv, SessionsSound, Eligible
  <2>4. /\ v.decision \in Decisions \ {"reversed", "excluded_time_window"}
        /\ v.amount \in Nat \cup {None}
    BY <2>1, VerdictTyped
  <2>5. /\ event.message = m /\ event.session = s /\ event.decision = v.decision
        /\ event.corrects = None /\ event \in EventType
        /\ event.decision \notin {"reversed", "excluded_time_window"}
    BY <2>1, <2>2, <2>4 DEF Event, EventType
  <2>6. Attributed(event)
    BY <2>2, <2>5 DEF Attributed
  <2>7. InItsWindow(event)
    BY <2>2, <2>3, <2>5 DEF InItsWindow
  <2> QED BY <2>5, <2>6, <2>7 DEF EventOK
<1>3. CASE Candidates(m) # {} /\ InWindow(m) = {}
  <2>1. PICK s \in Earliest(Candidates(m)) :
          event = Event(m, s, Judged("excluded_time_window", None), None)
    BY <1>3 DEF Matched
  <2>2. /\ s \in Sessions /\ s \in Candidates(m) /\ session[s].watermark # None
        /\ ~(session[s].watermark <= received[m])
    BY <1>3, <2>1 DEF Earliest, Candidates, InWindow
  <2>3. session[s].watermark \in Nat /\ received[m] \in Nat
    BY <2>2 DEF IInv, SessionsSound, SessionType, Time
  <2>4. received[m] < session[s].watermark
    BY <2>2, <2>3
  <2> QED BY <2>1, <2>2, <2>4 DEF Event, Judged, EventOK, EventType, Decisions, Reconciliable,
                                  Attributed, InItsWindow
<1> QED BY <1>1, <1>2, <1>3

------------------------------------------------------------------------------

\* Every step of the sessions and of the clock.
LEMMA LifecycleSafe == IInv /\ (Lifecycle \/ Tick) => IInv'
<1> USE LedgerAssumption
<1> SUFFICES ASSUME IInv, Lifecycle \/ Tick PROVE IInv'
  OBVIOUS
<1>0. SessionsSound
  BY DEF IInv
<1>1. ASSUME NEW s \in Sessions, Authorize(s) PROVE IInv'
  <2>1. SessionsSound'
    BY <1>0, <1>1 DEF Authorize, OnlySessions, SessionsSound, SessionType, Time
  <2> QED BY <1>0, <1>1, <2>1, WorldMoves
          DEF Authorize, OnlySessions, SessionsSound, SessionType, Time
<1>2. ASSUME NEW s \in Sessions, GoLive(s) PROVE IInv'
  <2>1. SessionsSound'
    BY <1>0, <1>2 DEF GoLive, OnlySessions, SessionsSound, SessionType
  <2> QED BY <1>0, <1>2, <2>1, WorldMoves
          DEF GoLive, OnlySessions, SessionsSound, SessionType, Time
<1>3. ASSUME NEW s \in Sessions, End(s) PROVE IInv'
  <2>1. SessionsSound'
    BY <1>0, <1>3 DEF End, OnlySessions, SessionsSound, SessionType, Time
  <2> QED BY <1>0, <1>3, <2>1, WorldMoves
          DEF End, OnlySessions, SessionsSound, SessionType, Time
<1>4. CASE Tick
  <2>1. SessionsSound'
    BY <1>0, <1>4 DEF Tick, SessionsSound, Time
  <2> QED BY <1>0, <1>4, <2>1, WorldMoves DEF Tick, SessionsSound, Time
<1> QED BY <1>1, <1>2, <1>3, <1>4 DEF Lifecycle

\* A request changes what it holds in memory and nothing else.
LEMMA InMemory ==
  ASSUME IInv, UNCHANGED <<now, received, session, ledger, items>>,
         delivering' = [d \in Deliveries |-> delivering'[d]],
         reviewing' = [r \in Reviewers |-> reviewing'[r]],
         \A d \in Deliveries : delivering'[d] = delivering[d] \/ DeliveryOK(d)',
         \A r \in Reviewers : reviewing'[r] = reviewing[r] \/ ReviewOK(r)'
  PROVE  IInv'
<1>1. /\ \A d \in Deliveries : DeliveryOK(d)'
      /\ \A r \in Reviewers : ReviewOK(r)'
  BY RequestsStand DEF Ids
<1>2. InFlightOK'
  BY <1>1 DEF InFlightOK
<1>3. SessionsSound' /\ LedgerOK' /\ ItemsOK' /\ OneEventPerMessage'
  BY DEF IInv, SessionsSound, LedgerOK, ItemsOK, Queued, OneEventPerMessage, Ids,
         EventOK, Attributed, InItsWindow, Arrived, EventType, Time
<1> QED BY <1>2, <1>3 DEF IInv

\* Every step of a delivery.
LEMMA DeliverySafe == IInv /\ Delivery => IInv'
<1> USE LedgerAssumption
<1> SUFFICES ASSUME IInv, NEW d \in Deliveries,
                    \/ \E m \in Messages : Receive(d, m)
                    \/ Match(d)
                    \/ \E s \in Sessions, amount \in Amounts : SimulateDeposit(d, s, amount)
                    \/ Insert(d)
                    \/ AbortDelivery(d)
             PROVE  IInv'
  BY DEF Delivery
<1>0. /\ DeliveryOK(d)
      /\ delivering = [x \in Deliveries |-> delivering[x]]
      /\ reviewing = [x \in Reviewers |-> reviewing[x]]
      /\ SessionsSound
  BY DEF IInv, InFlightOK
<1>1. ASSUME NEW m \in Messages, Receive(d, m) PROVE IInv'
  <2>1. DeliveryOK(d)'
    BY <1>0, <1>1 DEF Receive, DeliveryOK, Arrived
  <2> QED BY <1>0, <1>1, <2>1, InMemory DEF Receive
<1>2. CASE Match(d)
  <2>1. PICK event \in Matched(delivering[d].message) :
          delivering' = [delivering EXCEPT ![d] = [at |-> "inserting", event |-> event]]
    BY <1>2 DEF Match
  <2>2. delivering[d].message \in Messages /\ Arrived(delivering[d].message)
    BY <1>0, <1>2 DEF Match, DeliveryOK, Idle
  <2>3. EventOK(event) /\ event.corrects = None /\ event.decision # "reversed"
    BY <2>1, <2>2, MatchedOK
  <2>4. DeliveryOK(d)'
    <3>1. EventOK(event)'
      BY <1>2, <2>3 DEF Match, EventOK, Attributed, InItsWindow, Arrived, EventType, Time
    <3>2. delivering'[d] = [at |-> "inserting", event |-> event]
      BY <1>0, <2>1
    <3> QED BY <2>3, <3>1, <3>2 DEF DeliveryOK, EventOK, Attributed, InItsWindow, Arrived,
                                    EventType, Time
  <2> QED BY <1>0, <1>2, <2>1, <2>4, InMemory DEF Match
<1>3. ASSUME NEW s \in Sessions, NEW amount \in Amounts, SimulateDeposit(d, s, amount)
      PROVE  IInv'
  <2> DEFINE event == Event(None, s, Judged("accepted", amount), None)
  <2>1. EventOK(event)' /\ event.corrects = None /\ event.decision # "reversed"
    BY DEF Event, Judged, EventOK, EventType, Decisions, Attributed, InItsWindow
  <2>2. delivering'[d] = [at |-> "inserting", event |-> event]
    BY <1>0, <1>3 DEF SimulateDeposit
  <2>3. DeliveryOK(d)'
    BY <2>1, <2>2 DEF DeliveryOK, EventOK, Attributed, InItsWindow, Arrived, EventType, Time
  <2> QED BY <1>0, <1>3, <2>3, InMemory DEF SimulateDeposit
<1>4. CASE Insert(d)
  <2> DEFINE event == delivering[d].event
             i == Len(ledger) + 1
  <2>1. EventOK(event) /\ event.corrects = None
    BY <1>0, <1>4 DEF Insert, DeliveryOK, Idle
  <2>2. /\ UNCHANGED <<now, received, session, reviewing>>
        /\ ledger' = Append(ledger, event)
        /\ event.message # None => ~Existing(event.message)
        /\ delivering' = [delivering EXCEPT ![d] = Idle]
    BY <1>4 DEF Insert, Recorded
  <2>3. /\ SessionsSound' /\ LedgerOK' /\ OneEventPerMessage'
        /\ Ids' = Ids \cup {i}
        /\ \A e \in Ids : ledger'[e] = ledger[e]
        /\ ledger'[i] = event
    <3> HIDE DEF event, i
    <3> QED BY <2>1, <2>2, Appending DEF i
  <2>4. ItemsOK' /\ DOMAIN items \subseteq DOMAIN items'
    <3>1. CASE event.decision \in Reconciliable /\ event.session # None
      <4>1. items' = [e \in DOMAIN items \cup {i} |->
                        IF e \in DOMAIN items THEN items[e] ELSE "pending"]
        BY <1>4, <3>1 DEF Insert, Recorded
      <4> HIDE DEF event, i
      <4> QED BY <2>3, <3>1, <4>1 DEF IInv, ItemsOK, Queued
    <3>2. CASE ~(event.decision \in Reconciliable /\ event.session # None)
      <4>1. items' = items
        BY <1>4, <3>2 DEF Insert, Recorded
      <4> HIDE DEF event, i
      <4> QED BY <2>3, <4>1 DEF IInv, ItemsOK, Queued
    <3> QED BY <3>1, <3>2
  <2>5. InFlightOK'
    <3>1. DeliveryOK(d)'
      BY <1>0, <2>2 DEF DeliveryOK
    <3>2. /\ \A x \in Deliveries : x # d => DeliveryOK(x)'
          /\ \A r \in Reviewers : ReviewOK(r)'
      BY <1>0, <2>2, <2>3, <2>4, RequestsStand
    <3>3. /\ delivering' = [x \in Deliveries |-> delivering'[x]]
          /\ reviewing' = [x \in Reviewers |-> reviewing'[x]]
      BY <1>0, <2>2
    <3> QED BY <3>1, <3>2, <3>3 DEF InFlightOK
  <2> QED BY <2>3, <2>4, <2>5 DEF IInv
<1>5. CASE AbortDelivery(d)
  <2>1. DeliveryOK(d)'
    BY <1>0, <1>5 DEF AbortDelivery, DeliveryOK
  <2> QED BY <1>0, <1>5, <2>1, InMemory DEF AbortDelivery
<1> QED BY <1>1, <1>2, <1>3, <1>4, <1>5

\* Every step of a review.
LEMMA ReconciliationSafe == IInv /\ Reconciliation => IInv'
<1> USE LedgerAssumption
<1> SUFFICES ASSUME IInv, NEW r \in Reviewers,
                    \/ \E i \in DOMAIN items : Review(r, i)
                    \/ Exclude(r)
                    \/ \E corrected \in Amounts \cup {None} : Accept(r, corrected)
                    \/ \E target \in Ids : Reverse(r, target)
                    \/ Resolve(r)
                    \/ AbortReview(r)
             PROVE  IInv'
  BY DEF Reconciliation
<1>0. /\ ReviewOK(r)
      /\ delivering = [x \in Deliveries |-> delivering[x]]
      /\ reviewing = [x \in Reviewers |-> reviewing[x]]
  BY DEF IInv, InFlightOK
\* A step that only changes what the review holds.
<1>h. ASSUME NEW state, Holds(r, state), ReviewOK(r)' PROVE IInv'
  BY <1>0, <1>h, InMemory DEF Holds
<1>1. ASSUME NEW i \in DOMAIN items, Review(r, i) PROVE IInv'
  <2>1. ReviewOK(r)'
    BY <1>0, <1>1 DEF Review, Holds, ReviewOK
  <2> QED BY <1>1, <1>h, <2>1 DEF Review
<1>2. CASE Exclude(r)
  <2>1. ReviewOK(r)'
    BY <1>0, <1>2 DEF Exclude, Decides, Holds, ReviewOK, Idle
  <2> QED BY <1>2, <1>h, <2>1 DEF Exclude, Decides
\* A decision to add an event.
<1>d. ASSUME NEW event, Correction(event), reviewing[r].at = "deciding", Decides(r, event)
      PROVE  IInv'
  <2>1. reviewing[r].item \in DOMAIN items
    BY <1>0, <1>d DEF ReviewOK, Idle
  <2>2. /\ reviewing'[r] = [at |-> "resolving", item |-> reviewing[r].item, event |-> event]
        /\ UNCHANGED <<items, ledger>>
    BY <1>0, <1>d DEF Decides, Holds
  <2>3. ReviewOK(r)'
    BY <1>d, <2>1, <2>2 DEF ReviewOK, Correction, Ids, EventType
  <2> QED BY <1>d, <1>h, <2>3 DEF Decides
<1>3. ASSUME NEW corrected \in Amounts \cup {None}, Accept(r, corrected) PROVE IInv'
  <2> DEFINE item == reviewing[r].item
             original == ledger[item]
             amount == IF corrected # None THEN corrected ELSE original.amount
             event == Event(None, original.session, Judged("accepted", amount), item)
  <2>1. Queued(item)
    BY <1>0, <1>3 DEF Accept, ReviewOK, Idle, IInv, ItemsOK
  <2>2. original \in EventType /\ item \in Nat
    BY <2>1 DEF Queued, IInv, LedgerOK, EventOK, Ids
  <2>3. amount \in Nat
    BY <1>3, <2>2 DEF Accept, EventType
  <2>4. Correction(event)
    BY <2>1, <2>2, <2>3 DEF Correction, Queued, Event, Judged, EventType, Decisions
  <2> QED BY <1>3, <1>d, <2>4 DEF Accept
<1>4. ASSUME NEW target \in Ids, Reverse(r, target) PROVE IInv'
  <2> DEFINE item == reviewing[r].item
             original == ledger[item]
             event == Event(None, original.session, Judged("reversed", ledger[target].amount),
                            target)
  <2>1. Queued(item)
    BY <1>0, <1>4 DEF Reverse, ReviewOK, Idle, IInv, ItemsOK
  <2>2. original \in EventType /\ ledger[target] \in EventType /\ target \in Nat
    BY <2>1 DEF Queued, IInv, LedgerOK, EventOK, Ids
  <2>3. Correction(event)
    BY <2>1, <2>2 DEF Correction, Queued, Event, Judged, EventType, Decisions
  <2> QED BY <1>4, <1>d, <2>3 DEF Reverse
<1>5. CASE Resolve(r)
  <2>1. /\ reviewing[r].item \in DOMAIN items
        /\ reviewing[r].event # None => Correction(reviewing[r].event)
    BY <1>0, <1>5 DEF Resolve, ReviewOK, Idle
  <2>2. /\ UNCHANGED <<now, received, session, delivering>>
        /\ items' = [items EXCEPT ![reviewing[r].item] = "resolved"]
        /\ reviewing' = [reviewing EXCEPT ![r] = Idle]
    BY <1>5 DEF Resolve
  <2>3. /\ SessionsSound' /\ LedgerOK' /\ OneEventPerMessage'
        /\ Ids \subseteq Ids'
        /\ \A e \in Ids : ledger'[e] = ledger[e]
    <3>1. CASE reviewing[r].event = None
      <4>1. ledger' = ledger
        BY <1>5, <3>1 DEF Resolve
      <4> QED BY <2>2, <4>1 DEF IInv, SessionsSound, LedgerOK, OneEventPerMessage, Ids,
                   EventOK, Attributed, InItsWindow, Arrived, EventType, Time
    <3>2. CASE reviewing[r].event # None
      <4> DEFINE event == reviewing[r].event
      <4>1. ledger' = Append(ledger, event)
        BY <1>5, <3>2 DEF Resolve
      <4>2. EventOK(event) /\ event.corrects \in Ids /\ event.message = None
        BY <2>1, <3>2 DEF Correction, EventOK, Attributed, InItsWindow
      <4> HIDE DEF event
      <4> QED BY <2>2, <4>1, <4>2, Appending
    <3> QED BY <3>1, <3>2
  <2>4. ItemsOK' /\ DOMAIN items' = DOMAIN items
    BY <2>2, <2>3 DEF IInv, ItemsOK, Queued
  <2>5. InFlightOK'
    <3>1. ReviewOK(r)'
      BY <1>0, <2>2 DEF ReviewOK
    <3>2. /\ \A d \in Deliveries : DeliveryOK(d)'
          /\ \A x \in Reviewers : x # r => ReviewOK(x)'
      BY <1>0, <2>2, <2>3, <2>4, RequestsStand
    <3>3. /\ delivering' = [x \in Deliveries |-> delivering'[x]]
          /\ reviewing' = [x \in Reviewers |-> reviewing'[x]]
      BY <1>0, <2>2
    <3> QED BY <3>1, <3>2, <3>3 DEF InFlightOK
  <2> QED BY <2>3, <2>4, <2>5 DEF IInv
<1>6. CASE AbortReview(r)
  <2>1. ReviewOK(r)'
    BY <1>0, <1>6 DEF AbortReview, Holds, ReviewOK
  <2> QED BY <1>6, <1>h, <2>1 DEF AbortReview
<1> QED BY <1>1, <1>2, <1>3, <1>4, <1>5, <1>6

\* Reading totals, and doing nothing.
LEMMA NothingWritten ==
  IInv /\ UNCHANGED <<now, received, session, ledger, items, delivering, reviewing>> => IInv'
<1> SUFFICES ASSUME IInv,
                    UNCHANGED <<now, received, session, ledger, items, delivering, reviewing>>
             PROVE  IInv'
  OBVIOUS
<1> QED BY InMemory DEF IInv, InFlightOK

\* The invariant holds in every state.
THEOREM LedgerInvariance == Spec => []IInv
<1>1. IInv /\ [Next]_vars => IInv'
  BY LifecycleSafe, DeliverySafe, ReconciliationSafe, NothingWritten
  DEF Next, Reading, FirstSelect, SecondSelect, vars
<1> QED BY InitIInv, <1>1, PTL DEF Spec

\* The rows keep the types of their columns.
THEOREM LedgerTyped == Spec => []TypeOK
<1>1. IInv => TypeOK
  BY DEF IInv, TypeOK, SessionsSound, SessionType, LedgerOK, EventOK, EventType, Attributed,
         ItemsOK, Queued
<1> QED BY <1>1, LedgerInvariance, PTL

\* Redelivery is idempotent, however many requests bring the message at once.
THEOREM Idempotence == Spec => []OneEventPerMessage
<1>1. IInv => OneEventPerMessage
  BY DEF IInv
<1> QED BY <1>1, LedgerInvariance, PTL

\* What counts without review arrived in the window of its session, though
\* the session may have ended while the message was being parsed.
THEOREM WindowKept == Spec => []CountedInWindow
<1>1. IInv => CountedInWindow
  BY DEF IInv, LedgerOK, EventOK, InItsWindow, CountedInWindow
<1> QED BY <1>1, LedgerInvariance, PTL

\* What is left out as too early came before the authorization of its session,
\* whatever was authorized or ended in between: a watermark is set once.
THEOREM OnlyEarlyLeftOut == Spec => []OnlyEarlyIsExcluded
<1>1. IInv => OnlyEarlyIsExcluded
  BY DEF IInv, LedgerOK, EventOK, InItsWindow, OnlyEarlyIsExcluded
<1> QED BY <1>1, LedgerInvariance, PTL

------------------------------------------------------------------------------
(***************************************************************************)
(* Reviews made one at a time: a deposit is never accepted twice.  The     *)
(* invariant is that the item under review is still pending, and that the  *)
(* item of an accepted correction is not.                                  *)
(***************************************************************************)

OneReviewer == \A r, q \in Reviewers : r = q

UnderReview(r) ==
  reviewing[r] # Idle =>
    /\ items[reviewing[r].item] = "pending"
    /\ (reviewing[r].at = "resolving" /\ reviewing[r].event # None
          /\ reviewing[r].event.decision = "accepted") =>
         reviewing[r].event.corrects = reviewing[r].item

Settled(e) ==
  (ledger[e].decision = "accepted" /\ ledger[e].corrects # None) =>
    ledger[e].corrects \in DOMAIN items /\ items[ledger[e].corrects] = "resolved"

Reviewed ==
  /\ \A r \in Reviewers : UnderReview(r)
  /\ \A e \in Ids : Settled(e)
  /\ OneAcceptPerDeposit

\* A step that adds no event and resolves no item keeps what is settled.
LEMMA SettledStays ==
  ASSUME IInv, Reviewed, ledger' = ledger, items' = items
  PROVE  (\A e \in Ids : Settled(e))' /\ OneAcceptPerDeposit'
  BY DEF Reviewed, Settled, OneAcceptPerDeposit, Deposit, Ids

\* Every step keeps reviewed what is reviewed.
LEMMA ReviewedStep ==
  ASSUME OneReviewer, IInv, IInv', Reviewed, [Next]_vars
  PROVE  Reviewed'
<1> USE LedgerAssumption
<1>i. Idle.at = "idle"
  BY DEF Idle
\* The steps of other actors that write neither the ledger nor the queue.
<1>1. CASE UNCHANGED <<ledger, items, reviewing>>
  <2>1. \A r \in Reviewers : UnderReview(r)'
    BY <1>1 DEF Reviewed, UnderReview
  <2> QED BY <1>1, <2>1, SettledStays DEF Reviewed
<1>2. ASSUME NEW d \in Deliveries, Insert(d) PROVE Reviewed'
  <2> DEFINE event == delivering[d].event
  <2>0. PICK i : i = Len(ledger) + 1
    OBVIOUS
  <2>1. EventOK(event) /\ event.corrects = None
    BY <1>2 DEF Insert, IInv, InFlightOK, DeliveryOK, Idle
  <2>2. /\ ledger' = Append(ledger, event)
        /\ reviewing' = reviewing
    BY <1>2 DEF Insert, Recorded
  <2>3. \A e \in DOMAIN items : e \in DOMAIN items' /\ items'[e] = items[e]
    BY <1>2 DEF Insert, Recorded
  <2>4. /\ Ids' = Ids \cup {i} /\ i \notin Ids
        /\ \A e \in Ids : ledger'[e] = ledger[e]
        /\ ledger'[i] = event
    <3> HIDE DEF event
    <3> QED BY <2>0, <2>1, <2>2, AppendFacts DEF EventOK, IInv, LedgerOK
  <2>5. \A r \in Reviewers : UnderReview(r)'
    BY <2>2, <2>3 DEF Reviewed, UnderReview, IInv, InFlightOK, ReviewOK
  <2>6. (\A e \in Ids : Settled(e))'
    BY <2>1, <2>3, <2>4 DEF Reviewed, Settled
  <2>7. OneAcceptPerDeposit'
    <3> SUFFICES ASSUME NEW e \in Ids', NEW f \in Ids',
                        ledger'[e].decision = "accepted", ledger'[f].decision = "accepted",
                        Deposit(e)' = Deposit(f)'
                 PROVE  e = f
      BY DEF OneAcceptPerDeposit
    <3>1. \A x \in Ids : Deposit(x)' = Deposit(x) /\ Deposit(x) \in Ids
      BY <2>4 DEF Deposit, IInv, LedgerOK, Ids
    <3>2. Deposit(i)' = i
      BY <2>1, <2>4 DEF Deposit
    <3> HIDE DEF event
    <3> QED BY <2>4, <3>1, <3>2 DEF Reviewed, OneAcceptPerDeposit
  <2> QED BY <2>5, <2>6, <2>7 DEF Reviewed
<1>3. ASSUME NEW r \in Reviewers, NEW state, Holds(r, state),
             state # Idle =>
               /\ items[state.item] = "pending"
               /\ (state.at = "resolving" /\ state.event # None
                     /\ state.event.decision = "accepted") =>
                    state.event.corrects = state.item
      PROVE  Reviewed'
  <2>1. reviewing' = [reviewing EXCEPT ![r] = state] /\ UNCHANGED <<ledger, items>>
    BY <1>3 DEF Holds
  <2>2. \A q \in Reviewers : UnderReview(q)'
    BY <1>3, <2>1 DEF Reviewed, UnderReview, IInv, InFlightOK
  <2> QED BY <2>1, <2>2, SettledStays DEF Reviewed
<1>4. ASSUME NEW r \in Reviewers, NEW i \in DOMAIN items, Review(r, i) PROVE Reviewed'
  BY <1>4, <1>3 DEF Review
<1>5. ASSUME NEW r \in Reviewers, NEW event, reviewing[r].at = "deciding", Decides(r, event),
             (event # None /\ event.decision = "accepted") => event.corrects = reviewing[r].item
      PROVE  Reviewed'
  <2>1. items[reviewing[r].item] = "pending"
    BY <1>5, <1>i DEF Reviewed, UnderReview
  <2> QED BY <1>5, <2>1, <1>3 DEF Decides
<1>6. ASSUME NEW r \in Reviewers, Exclude(r) PROVE Reviewed'
  BY <1>6, <1>5 DEF Exclude
<1>7. ASSUME NEW r \in Reviewers, NEW corrected \in Amounts \cup {None}, Accept(r, corrected)
      PROVE  Reviewed'
  BY <1>7, <1>5 DEF Accept, Event
<1>8. ASSUME NEW r \in Reviewers, NEW target \in Ids, Reverse(r, target) PROVE Reviewed'
  BY <1>8, <1>5 DEF Reverse, Event, Judged
<1>9. ASSUME NEW r \in Reviewers, Resolve(r) PROVE Reviewed'
  <2> DEFINE item == reviewing[r].item
             event == reviewing[r].event
  <2>1. /\ item \in DOMAIN items /\ Queued(item) /\ items[item] = "pending"
        /\ event # None => Correction(event)
        /\ (event # None /\ event.decision = "accepted") => event.corrects = item
    BY <1>9, <1>i DEF Resolve, IInv, InFlightOK, ReviewOK, ItemsOK, Reviewed, UnderReview
  <2>2. /\ items' = [items EXCEPT ![item] = "resolved"]
        /\ reviewing' = [reviewing EXCEPT ![r] = Idle]
    BY <1>9 DEF Resolve
  <2>3. \A q \in Reviewers : UnderReview(q)'
    BY <2>2 DEF OneReviewer, UnderReview, IInv, InFlightOK
  <2>4. \A e \in Ids : Settled(e) /\ (ledger[e].decision = "accepted" => Deposit(e) # item)
    <3> SUFFICES ASSUME NEW e \in Ids, ledger[e].decision = "accepted"
                 PROVE  Settled(e) /\ Deposit(e) # item
      BY DEF Reviewed, Settled
    <3>1. Settled(e)
      BY DEF Reviewed
    <3> QED BY <2>1, <3>1 DEF Deposit, Settled, Queued, Reconciliable
  <2>5. CASE event = None
    <3>1. ledger' = ledger
      BY <1>9, <2>5 DEF Resolve
    <3>2. (\A e \in Ids : Settled(e))'
      BY <2>2, <2>4, <3>1 DEF Settled, Ids, IInv, ItemsOK
    <3>3. OneAcceptPerDeposit'
      BY <3>1 DEF Reviewed, OneAcceptPerDeposit, Deposit, Ids
    <3> QED BY <2>3, <3>2, <3>3 DEF Reviewed
  <2>6. CASE event # None
    <3>0. PICK i : i = Len(ledger) + 1
      OBVIOUS
    <3>1. ledger' = Append(ledger, event)
      BY <1>9, <2>6 DEF Resolve
    <3>2. /\ Ids' = Ids \cup {i} /\ i \notin Ids
          /\ \A e \in Ids : ledger'[e] = ledger[e]
          /\ ledger'[i] = event
      <4>1. event \in EventType /\ ledger \in Seq(EventType)
        BY <2>1, <2>6 DEF Correction, IInv, LedgerOK
      <4> HIDE DEF event
      <4> QED BY <3>0, <3>1, <4>1, AppendFacts
    <3>3. Correction(event) /\ (event.decision = "accepted" => event.corrects = item)
      BY <2>1, <2>6
    <3> HIDE DEF event, item
    <3>4. (\A e \in Ids : Settled(e))'
      BY <2>1, <2>2, <2>4, <3>2, <3>3 DEF Settled, IInv, ItemsOK
    <3>5. OneAcceptPerDeposit'
      <4> SUFFICES ASSUME NEW e \in Ids', NEW f \in Ids',
                          ledger'[e].decision = "accepted", ledger'[f].decision = "accepted",
                          Deposit(e)' = Deposit(f)'
                   PROVE  e = f
        BY DEF OneAcceptPerDeposit
      <4>1. \A x \in Ids : Deposit(x)' = Deposit(x)
        BY <3>2 DEF Deposit
      <4>2. event.decision = "accepted" => Deposit(i)' = item
        BY <3>2, <3>3, <2>1 DEF Deposit, Correction, Queued, IInv, LedgerOK, Ids
      <4> QED BY <2>4, <3>2, <4>1, <4>2 DEF Reviewed, OneAcceptPerDeposit
    <3> QED BY <2>3, <3>4, <3>5 DEF Reviewed
  <2> QED BY <2>5, <2>6
<1>10. ASSUME NEW r \in Reviewers, AbortReview(r) PROVE Reviewed'
  BY <1>10, <1>3 DEF AbortReview
<1> QED BY <1>1, <1>2, <1>4, <1>6, <1>7, <1>8, <1>9, <1>10
        DEF Next, Lifecycle, Authorize, GoLive, End, OnlySessions, Tick, Reading, FirstSelect,
            SecondSelect, Delivery, Receive, Match, SimulateDeposit, AbortDelivery,
            Reconciliation, vars

\* With reviews one at a time, no deposit is accepted twice.
THEOREM CountedOnce ==
  ASSUME OneReviewer
  PROVE  Spec => []OneAcceptPerDeposit
<1>1. Init => Reviewed
  BY DEF Init, Reviewed, UnderReview, OneAcceptPerDeposit, Ids
<1>2. IInv /\ IInv' /\ Reviewed /\ [Next]_vars => Reviewed'
  BY ReviewedStep
<1>3. Reviewed => OneAcceptPerDeposit
  BY DEF Reviewed
<1> QED BY <1>1, <1>2, <1>3, LedgerInvariance, PTL DEF Spec

------------------------------------------------------------------------------
(***************************************************************************)
(* What a reader computes.  The ledger only grows, so the contributions    *)
(* that the first SELECT summed are still there at the second; a reader    *)
(* between the two holds no more than the ledger does.                     *)
(***************************************************************************)

Sums == [count : Nat, total : Nat]

NoMore(a, b) == a.count <= b.count /\ a.total <= b.total

ReadingOK(s) ==
  \/ reading[s] = Idle
  \/ /\ reading[s].at = "between"
     /\ reading[s].first \in Sums
     /\ NoMore(reading[s].first, Select(s, 1))

ReadersOK ==
  /\ reading = [s \in Sessions |-> reading[s]]
  /\ shown = [s \in Sessions |-> shown[s]]
  /\ \A s \in Sessions : ReadingOK(s)

\* The first events of a ledger are finitely many.
LEMMA FirstFinite ==
  ASSUME NEW n \in Nat, NEW S \in SUBSET (1..n)
  PROVE  IsFiniteSet(S)
<1>1. IsFiniteSet(1..n)
  BY FS_Interval
<1> QED BY <1>1, FS_Subset

\* A set of events has a finite number of amounts, and a count and a sum.
LEMMA AggregateTyped ==
  ASSUME LedgerOK, NEW S \in SUBSET Ids
  PROVE  /\ IsFiniteSet(S)
         /\ \A e \in S : AmountOf[e] \in Nat
         /\ Aggregate(S) \in Sums
<1>1. Ids = 1..Len(ledger) /\ Len(ledger) \in Nat
  BY DEF LedgerOK, Ids
<1>2. IsFiniteSet(S)
  BY <1>1, FirstFinite
<1>3. \A e \in Ids : AmountOf[e] \in Nat
  BY DEF LedgerOK, EventOK, EventType, AmountOf
<1>4. Cardinality(S) \in Nat
  BY <1>2, FS_CardinalityType
<1>5. SumFunctionOnSet(AmountOf, S) \in Nat
  BY <1>2, <1>3, SumNat
<1> QED BY <1>2, <1>3, <1>4, <1>5 DEF Aggregate, Sums

\* Every step leaves the events in the ledger as they are.
LEMMA LedgerGrows ==
  ASSUME IInv, [Next]_vars
  PROVE  Ids \subseteq Ids' /\ \A e \in Ids : ledger'[e] = ledger[e]
<1>1. ASSUME NEW event, event \in EventType, ledger' = Append(ledger, event)
      PROVE  Ids \subseteq Ids' /\ \A e \in Ids : ledger'[e] = ledger[e]
  BY <1>1, AppendFacts DEF IInv, LedgerOK
<1>2. ASSUME NEW d \in Deliveries, Insert(d)
      PROVE  Ids \subseteq Ids' /\ \A e \in Ids : ledger'[e] = ledger[e]
  <2>1. EventOK(delivering[d].event)
    BY <1>2 DEF Insert, IInv, InFlightOK, DeliveryOK, Idle
  <2> QED BY <1>1, <1>2, <2>1 DEF Insert, Recorded, EventOK
<1>3. ASSUME NEW r \in Reviewers, Resolve(r)
      PROVE  Ids \subseteq Ids' /\ \A e \in Ids : ledger'[e] = ledger[e]
  <2>1. CASE reviewing[r].event = None
    BY <1>3, <2>1 DEF Resolve, Ids
  <2>2. CASE reviewing[r].event # None
    <3>1. Correction(reviewing[r].event)
      BY <1>3, <2>2 DEF Resolve, IInv, InFlightOK, ReviewOK, Idle
    <3> QED BY <1>1, <1>3, <2>2, <3>1 DEF Resolve, Correction
  <2> QED BY <2>1, <2>2
<1>4. CASE ledger' = ledger
  BY <1>4 DEF Ids
<1> QED BY <1>2, <1>3, <1>4
        DEF Next, Lifecycle, Authorize, GoLive, End, OnlySessions, Tick, Reading, FirstSelect,
            SecondSelect, Delivery, Receive, Match, SimulateDeposit, AbortDelivery,
            Reconciliation, Review, Exclude, Accept, Reverse, Decides, Holds, AbortReview, vars

\* What is summed later over more events is no less.
LEMMA AggregateGrows ==
  ASSUME LedgerOK, LedgerOK', Ids \subseteq Ids', \A e \in Ids : ledger'[e] = ledger[e],
         NEW T \in SUBSET Ids, NEW S \in SUBSET Ids', T \subseteq S
  PROVE  /\ NoMore(Aggregate(T), Aggregate(S)')
         /\ Aggregate(T) \in Sums /\ Aggregate(S)' \in Sums
<1>1. /\ IsFiniteSet(T) /\ \A e \in T : AmountOf[e] \in Nat
      /\ Aggregate(T) \in Sums
  BY AggregateTyped
<1>2. PICK amounts : amounts = AmountOf'
  OBVIOUS
<1>3. IsFiniteSet(S) /\ \A e \in S : amounts[e] \in Nat
  <2>1. Ids' = 1..Len(ledger') /\ Len(ledger') \in Nat
    BY DEF LedgerOK, Ids
  <2>2. \A e \in Ids' : AmountOf'[e] \in Nat
    BY DEF LedgerOK, EventOK, EventType, AmountOf
  <2>3. IsFiniteSet(S)
    BY <2>1, FirstFinite
  <2> QED BY <1>2, <2>2, <2>3
<1>4. \A e \in T : amounts[e] = AmountOf[e]
  BY <1>2 DEF AmountOf
<1>5. Cardinality(T) <= Cardinality(S)
  BY <1>3, FS_Subset
<1>6. SumFunctionOnSet(AmountOf, T) <= SumFunctionOnSet(amounts, S)
  <2>1. SumFunctionOnSet(amounts, T) = SumFunctionOnSet(AmountOf, T)
    BY <1>1, <1>4, SumSame
  <2>2. SumFunctionOnSet(amounts, T) <= SumFunctionOnSet(amounts, S)
    BY <1>3, SumMonotone
  <2> QED BY <2>1, <2>2
<1>7. Aggregate(S)' = [count |-> Cardinality(S), total |-> SumFunctionOnSet(amounts, S)]
  BY <1>2 DEF Aggregate
<1>8. Aggregate(S)' \in Sums
  <2>1. Cardinality(S) \in Nat /\ SumFunctionOnSet(amounts, S) \in Nat
    BY <1>3, FS_CardinalityType, SumNat
  <2> QED BY <1>7, <2>1 DEF Sums
<1>9. NoMore(Aggregate(T), Aggregate(S)')
  BY <1>5, <1>6, <1>7 DEF Aggregate, NoMore
<1> QED BY <1>1, <1>8, <1>9

\* What a reader holds between its SELECTs is never more than the ledger holds.
LEMMA ReadersStep ==
  ASSUME IInv, IInv', ReadersOK, [Next]_vars
  PROVE  ReadersOK'
<1>1. /\ Ids \subseteq Ids'
      /\ \A e \in Ids : ledger'[e] = ledger[e]
      /\ LedgerOK /\ LedgerOK'
  BY LedgerGrows DEF IInv
\* The first SELECT now is no more than the first SELECT after the step.
<1>2. ASSUME NEW s \in Sessions
      PROVE  /\ NoMore(Select(s, 1), Select(s, 1)')
             /\ Select(s, 1) \in Sums /\ Select(s, 1)' \in Sums
  <2>1. PICK T \in SUBSET Ids, S \in SUBSET Ids' :
          T = WithDecision(s, SelectOrder[1]) /\ S = WithDecision(s, SelectOrder[1])'
    BY DEF WithDecision
  <2>2. T \subseteq S
    BY <1>1, <2>1 DEF WithDecision, SelectOrder
  <2>3. /\ NoMore(Aggregate(T), Aggregate(S)')
        /\ Aggregate(T) \in Sums /\ Aggregate(S)' \in Sums
    BY <1>1, <2>2, AggregateGrows
  <2>4. Select(s, 1) = Aggregate(T) /\ Select(s, 1)' = Aggregate(S)'
    BY <2>1 DEF Select, Aggregate
  <2> QED BY <2>3, <2>4
\* A reader that does not step holds what it held.
<1>3. ASSUME NEW s \in Sessions, reading'[s] = reading[s] PROVE ReadingOK(s)'
  <2>1. CASE reading[s] = Idle
    BY <1>3, <2>1 DEF ReadingOK
  <2>2. CASE reading[s] # Idle
    <3>1. PICK a, b, c : a = reading[s].first /\ b = Select(s, 1) /\ c = Select(s, 1)'
      OBVIOUS
    <3>2. a \in Sums /\ b \in Sums /\ c \in Sums /\ NoMore(a, b) /\ NoMore(b, c)
      BY <1>2, <2>2, <3>1 DEF ReadersOK, ReadingOK
    <3>3. NoMore(a, c)
      BY <3>2 DEF NoMore, Sums
    <3>4. reading'[s].at = "between" /\ reading'[s].first = a
      BY <1>3, <2>2, <3>1 DEF ReadersOK, ReadingOK
    <3> QED BY <3>1, <3>2, <3>3, <3>4 DEF ReadingOK
  <2> QED BY <2>1, <2>2
<1>4. ASSUME NEW s \in Sessions, FirstSelect(s) PROVE ReadersOK'
  <2>1. /\ reading' = [reading EXCEPT ![s] = [at |-> "between", first |-> Select(s, 1)]]
        /\ shown' = shown /\ ledger' = ledger
    BY <1>4 DEF FirstSelect
  <2>2. PICK a : a = Select(s, 1)
    OBVIOUS
  <2>3. Select(s, 1)' = a /\ a \in Sums /\ NoMore(a, a)
    <3>1. Select(s, 1)' = Select(s, 1)
      BY <2>1 DEF Select, Aggregate, WithDecision, AmountOf, Ids
    <3> QED BY <1>2, <2>2, <3>1 DEF NoMore, Sums
  <2>4. reading'[s] = [at |-> "between", first |-> a]
    BY <2>1, <2>2 DEF ReadersOK
  <2>5. ReadingOK(s)'
    BY <2>3, <2>4 DEF ReadingOK
  <2>6. \A z \in Sessions : z # s => reading'[z] = reading[z]
    BY <2>1 DEF ReadersOK
  <2>7. /\ reading' = [z \in Sessions |-> reading'[z]]
        /\ shown' = [z \in Sessions |-> shown'[z]]
    BY <2>1 DEF ReadersOK
  <2> QED BY <1>3, <2>5, <2>6, <2>7 DEF ReadersOK
<1>5. ASSUME NEW s \in Sessions, SecondSelect(s) PROVE ReadersOK'
  <2>1. /\ reading' = [reading EXCEPT ![s] = Idle]
        /\ \E new : shown' = [shown EXCEPT ![s] = new]
    BY <1>5 DEF SecondSelect
  <2>2. reading'[s] = Idle /\ \A z \in Sessions : z # s => reading'[z] = reading[z]
    BY <2>1 DEF ReadersOK
  <2>3. ReadingOK(s)'
    BY <2>2 DEF ReadingOK
  <2>4. /\ reading' = [z \in Sessions |-> reading'[z]]
        /\ shown' = [z \in Sessions |-> shown'[z]]
    BY <2>1 DEF ReadersOK
  <2> QED BY <1>3, <2>2, <2>3, <2>4 DEF ReadersOK
<1>6. CASE UNCHANGED <<reading, shown>>
  BY <1>3, <1>6 DEF ReadersOK
<1> QED BY <1>4, <1>5, <1>6, LedgerAssumption
        DEF Next, Lifecycle, Authorize, GoLive, End, OnlySessions, Tick, Reading,
            Delivery, Receive, Match, SimulateDeposit, Insert, AbortDelivery,
            Reconciliation, Review, Exclude, Accept, Reverse, Resolve, Decides, Holds,
            AbortReview, vars

\* What a step shows is no more than the net of that moment.
LEMMA NothingOverstated ==
  ASSUME IInv, ReadersOK, [Next]_vars, NEW s \in Sessions, shown'[s] # shown[s]
  PROVE  shown'[s].count <= Net(s).count /\ shown'[s].total <= Net(s).total
<1>1. SecondSelect(s)
  <2>1. ASSUME NEW z \in Sessions, SecondSelect(z) PROVE z = s
    <3>1. \E new : shown' = [shown EXCEPT ![z] = new]
      BY <2>1 DEF SecondSelect
    <3> QED BY <3>1 DEF ReadersOK
  <2>2. shown' # shown
    OBVIOUS
  <2> QED BY <2>1, <2>2, LedgerAssumption
        DEF Next, Lifecycle, Authorize, GoLive, End, OnlySessions, Tick, Reading, FirstSelect,
            Delivery, Receive, Match, SimulateDeposit, Insert, AbortDelivery,
            Reconciliation, Review, Exclude, Accept, Reverse, Resolve, Decides, Holds,
            AbortReview, vars
<1>2. PICK held, first, second :
        held = reading[s].first /\ first = Select(s, 1) /\ second = Select(s, 2)
  OBVIOUS
<1>3. held \in Sums /\ NoMore(held, first)
  BY <1>1, <1>2 DEF SecondSelect, ReadersOK, ReadingOK, Idle
<1>4. first \in Sums /\ second \in Sums
  BY <1>2, AggregateTyped DEF Select, WithDecision, IInv
<1>5. shown'[s] = Minus(held, second)
  <2> DEFINE sums == [decision \in {"accepted", "reversed"} |->
                        IF decision = SelectOrder[1] THEN held ELSE second]
  <2>1. sums["accepted"] = held /\ sums["reversed"] = second
    BY DEF SelectOrder
  <2>2. shown' = [shown EXCEPT ![s] = Minus(sums["accepted"], sums["reversed"])]
    BY <1>1, <1>2 DEF SecondSelect
  <2> HIDE DEF sums
  <2> QED BY <2>1, <2>2 DEF ReadersOK
<1>6. Net(s) = Minus(first, second)
  BY <1>2 DEF Net, Select, SelectOrder
<1>7. Minus(held, second).count <= Minus(first, second).count
  BY <1>3, <1>4 DEF Minus, NoMore, Sums
<1>8. Minus(held, second).total <= Minus(first, second).total
  BY <1>3, <1>4 DEF Minus, NoMore, Sums
<1> QED BY <1>5, <1>6, <1>7, <1>8

\* However deliveries, reviews and readers interleave, the two SELECTs never
\* show more than the ledger holds at the second.
THEOREM NeverOverstated == Spec => TotalsNeverOverstate
<1>1. Init => ReadersOK
  BY DEF Init, ReadersOK, ReadingOK
<1>2. IInv /\ IInv' /\ ReadersOK /\ [Next]_vars => ReadersOK'
  BY ReadersStep
<1>3. IInv /\ ReadersOK /\ [Next]_vars =>
        [\A s \in Sessions : shown'[s] # shown[s] =>
           /\ shown'[s].count <= Net(s).count
           /\ shown'[s].total <= Net(s).total]_vars
  BY NothingOverstated
<1> QED BY <1>1, <1>2, <1>3, LedgerInvariance, PTL DEF Spec, TotalsNeverOverstate

------------------------------------------------------------------------------
(***************************************************************************)
(* The net of a session is what still stands.  The invariant is that the   *)
(* reversals are matched one to one with accepted events of their session, *)
(* for the same amount.  The reversal an officer is about to commit keeps  *)
(* to it because nobody else reverses meanwhile: hence one reviewer.       *)
(***************************************************************************)

Undoes(event) ==
  event.decision = "reversed" =>
    /\ event.corrects \in Ids
    /\ ledger[event.corrects].decision = "accepted"
    /\ ledger[event.corrects].session = event.session
    /\ ledger[event.corrects].amount = event.amount

ToUndo(r) ==
  (reviewing[r].at = "resolving" /\ reviewing[r].event # None) =>
    /\ Undoes(reviewing[r].event)
    /\ reviewing[r].event.decision = "reversed" => ~Reversed(reviewing[r].event.corrects)

OneReversal ==
  \A e, f \in Ids :
    (/\ ledger[e].decision = "reversed" /\ ledger[f].decision = "reversed"
     /\ ledger[e].corrects = ledger[f].corrects) => e = f

Netted ==
  /\ \A e \in Ids : Undoes(ledger[e])
  /\ OneReversal
  /\ \A r \in Reviewers : ToUndo(r)

\* An event that undoes what nothing has undone may be added.
LEMMA UndoneOnce ==
  ASSUME IInv, Netted, NEW event \in EventType, ledger' = Append(ledger, event),
         Undoes(event), event.decision = "reversed" => ~Reversed(event.corrects)
  PROVE  (\A e \in Ids : Undoes(ledger[e]))' /\ OneReversal'
<1>0. PICK i : i = Len(ledger) + 1
  OBVIOUS
<1>1. /\ Ids' = Ids \cup {i} /\ i \notin Ids
      /\ \A e \in Ids : ledger'[e] = ledger[e]
      /\ ledger'[i] = event
  BY <1>0, AppendFacts DEF IInv, LedgerOK
<1>2. ASSUME NEW x, Undoes(x) PROVE Undoes(x)'
  BY <1>1, <1>2 DEF Undoes
<1>3. ASSUME NEW e \in Ids' PROVE Undoes(ledger[e])'
  <2>1. Undoes(ledger'[e])
    BY <1>1 DEF Netted
  <2> QED BY <1>2, <2>1 DEF Undoes
<1>4. OneReversal'
  <2> SUFFICES ASSUME NEW e \in Ids', NEW f \in Ids',
                      ledger'[e].decision = "reversed", ledger'[f].decision = "reversed",
                      ledger'[e].corrects = ledger'[f].corrects
               PROVE  e = f
    BY DEF OneReversal
  <2>1. CASE e \in Ids /\ f \in Ids
    BY <1>1, <2>1 DEF Netted, OneReversal
  <2>2. CASE e = i /\ f \in Ids
    BY <1>1, <2>2 DEF Reversed
  <2>3. CASE e \in Ids /\ f = i
    BY <1>1, <2>3 DEF Reversed
  <2> QED BY <1>1, <2>1, <2>2, <2>3
<1> QED BY <1>3, <1>4

\* Every step keeps the reversals matched.
LEMMA NettedStep ==
  ASSUME OneReviewer, IInv, Netted, [Next]_vars
  PROVE  Netted'
<1> USE LedgerAssumption
<1>1. CASE UNCHANGED <<ledger, reviewing>>
  BY <1>1 DEF Netted, Undoes, OneReversal, ToUndo, Reversed, Ids
<1>2. ASSUME NEW d \in Deliveries, Insert(d) PROVE Netted'
  <2>0. EventOK(delivering[d].event) /\ delivering[d].event.decision # "reversed"
    BY <1>2 DEF Insert, IInv, InFlightOK, DeliveryOK, Idle
  <2>1. PICK event \in EventType :
          /\ ledger' = Append(ledger, event)
          /\ event.decision # "reversed"
    BY <1>2, <2>0 DEF Insert, Recorded, EventOK
  <2>2. (\A e \in Ids : Undoes(ledger[e]))' /\ OneReversal'
    BY <2>1, UndoneOnce DEF Undoes
  <2>3. \A r \in Reviewers : ToUndo(r)'
    <3>0. PICK i : i = Len(ledger) + 1
      OBVIOUS
    <3>1. /\ Ids' = Ids \cup {i}
          /\ \A e \in Ids : ledger'[e] = ledger[e]
          /\ ledger'[i] = event
      BY <2>1, <3>0, AppendFacts DEF IInv, LedgerOK
    <3>2. reviewing' = reviewing
      BY <1>2 DEF Insert
    <3>3. ASSUME NEW x, Undoes(x) PROVE Undoes(x)'
      BY <3>1, <3>3 DEF Undoes
    <3>4. ASSUME NEW x \in Ids, ~Reversed(x) PROVE ~Reversed(x)'
      BY <2>1, <3>1, <3>4 DEF Reversed
    <3>5. ASSUME NEW r \in Reviewers, reviewing[r].at = "resolving", reviewing[r].event # None
          PROVE  ToUndo(r)'
      <4>1. PICK x : x = reviewing[r].event
        OBVIOUS
      <4>2. Undoes(x) /\ (x.decision = "reversed" => ~Reversed(x.corrects))
        BY <3>5, <4>1 DEF Netted, ToUndo
      <4>3. x.decision = "reversed" => ~Reversed(x.corrects)'
        BY <3>4, <4>2 DEF Undoes
      <4> QED BY <3>2, <3>3, <4>1, <4>2, <4>3 DEF ToUndo, Undoes, Reversed
    <3> QED BY <3>2, <3>5 DEF ToUndo
  <2> QED BY <2>2, <2>3 DEF Netted
\* A step that only changes what the review holds.
<1>3. ASSUME NEW r \in Reviewers, NEW state, Holds(r, state),
             (state.at = "resolving" /\ state.event # None) =>
               /\ Undoes(state.event)
               /\ state.event.decision = "reversed" => ~Reversed(state.event.corrects)
      PROVE  Netted'
  <2>1. reviewing' = [reviewing EXCEPT ![r] = state] /\ ledger' = ledger
    BY <1>3 DEF Holds
  <2>2. \A q \in Reviewers : reviewing'[q] = IF q = r THEN state ELSE reviewing[q]
    BY <2>1 DEF IInv, InFlightOK
  <2>3. \A q \in Reviewers : ToUndo(q)'
    BY <1>3, <2>1, <2>2 DEF Netted, ToUndo, Undoes, Reversed, Ids
  <2> QED BY <2>1, <2>3 DEF Netted, Undoes, OneReversal, Ids
<1>4. ASSUME NEW r \in Reviewers, NEW i \in DOMAIN items, Review(r, i) PROVE Netted'
  BY <1>4, <1>3 DEF Review
<1>5. ASSUME NEW r \in Reviewers, Exclude(r) PROVE Netted'
  BY <1>5, <1>3 DEF Exclude, Decides
<1>6. ASSUME NEW r \in Reviewers, NEW corrected \in Amounts \cup {None}, Accept(r, corrected)
      PROVE  Netted'
  BY <1>6, <1>3 DEF Accept, Decides, Event, Judged, Undoes
<1>7. ASSUME NEW r \in Reviewers, NEW target \in Ids, Reverse(r, target) PROVE Netted'
  BY <1>7, <1>3 DEF Reverse, Decides, Event, Judged, Undoes
<1>8. ASSUME NEW r \in Reviewers, Resolve(r) PROVE Netted'
  <2>1. \A q \in Reviewers : ToUndo(q)'
    BY <1>8 DEF Resolve, OneReviewer, ToUndo, Idle, IInv, InFlightOK
  <2>2. CASE reviewing[r].event = None
    BY <1>8, <2>1, <2>2 DEF Resolve, Netted, Undoes, OneReversal, Ids
  <2>3. CASE reviewing[r].event # None
    <3>1. PICK event \in EventType : event = reviewing[r].event
      BY <1>8, <2>3 DEF Resolve, IInv, InFlightOK, ReviewOK, Correction, Idle
    <3>2. /\ ledger' = Append(ledger, event) /\ Undoes(event)
          /\ event.decision = "reversed" => ~Reversed(event.corrects)
      BY <1>8, <2>3, <3>1 DEF Resolve, Netted, ToUndo
    <3> QED BY <2>1, <3>2, UndoneOnce DEF Netted
  <2> QED BY <2>2, <2>3
<1>9. ASSUME NEW r \in Reviewers, AbortReview(r) PROVE Netted'
  BY <1>9, <1>3 DEF AbortReview, Idle
<1> QED BY <1>1, <1>2, <1>4, <1>5, <1>6, <1>7, <1>8, <1>9
        DEF Next, Lifecycle, Authorize, GoLive, End, OnlySessions, Tick, Reading, FirstSelect,
            SecondSelect, Delivery, Receive, Match, SimulateDeposit, AbortDelivery,
            Reconciliation, vars

\* Where the reversals are matched, they take out exactly what no longer stands.
LEMMA MatchedNets ==
  ASSUME IInv, Netted, NEW s \in Sessions
  PROVE  Net(s) = Aggregate(Standing(s))
<1> DEFINE A == WithDecision(s, "accepted")
           R == WithDecision(s, "reversed")
           S == Standing(s)
           named == [e \in Ids |-> ledger[e].corrects]
           U == {named[e] : e \in R}
<1>1. /\ A \in SUBSET Ids /\ R \in SUBSET Ids /\ S \in SUBSET A /\ U \in SUBSET A
      /\ A = S \cup U /\ S \cap U = {}
  <2>1. A \in SUBSET Ids /\ R \in SUBSET Ids /\ S \in SUBSET A
    BY DEF WithDecision, Standing
  <2>2. \A e \in R : named[e] \in A /\ Reversed(named[e])
    BY DEF WithDecision, Netted, Undoes, Reversed
  <2>3. \A e \in A \ S : e \in U
    BY DEF WithDecision, Standing, Netted, Undoes, Reversed
  <2>4. \A e \in S : ~Reversed(e)
    BY DEF Standing
  <2> QED BY <2>1, <2>2, <2>3, <2>4
<1>2. /\ \A x, y \in R : named[x] = named[y] => x = y
      /\ \A x \in R : AmountOf[named[x]] = AmountOf[x]
  BY DEF WithDecision, Netted, OneReversal, Undoes, AmountOf
<1>3. LedgerOK
  BY DEF IInv
<1> HIDE DEF A, R, S, named
<1>4. /\ IsFiniteSet(A) /\ IsFiniteSet(R) /\ IsFiniteSet(S) /\ IsFiniteSet(U)
      /\ \A e \in A \cup R : AmountOf[e] \in Int
  BY <1>1, <1>3, AggregateTyped
<1>5. Cardinality(A) = Cardinality(S) + Cardinality(R)
  <2>1. Cardinality(U) = Cardinality(R)
    <3> DEFINE to == [x \in R |-> named[x]]
    <3>1. to \in Bijection(R, U)
      BY <1>2 DEF Bijection, Injection, Surjection, IsInjective
    <3> QED BY <1>4, <3>1, FS_Bijection DEF ExistsBijection
  <2>2. Cardinality(S \cup U) = Cardinality(S) + Cardinality(U) - Cardinality(S \cap U)
    BY <1>4, FS_Union
  <2>3. /\ Cardinality(S) \in Nat /\ Cardinality(R) \in Nat
        /\ Cardinality(S \cap U) = 0
    BY <1>1, <1>4, FS_CardinalityType, FS_EmptySet
  <2> QED BY <1>1, <2>1, <2>2, <2>3
<1>6. SumFunctionOnSet(AmountOf, A)
        = SumFunctionOnSet(AmountOf, S) + SumFunctionOnSet(AmountOf, R)
  <2>1. SumFunctionOnSet(AmountOf, U) = SumFunctionOnSet(AmountOf, R)
    BY <1>2, <1>4, SumImage
  <2>2. SumFunctionOnSet(AmountOf, S \cup U)
          = SumFunctionOnSet(AmountOf, S) + SumFunctionOnSet(AmountOf, U)
    BY <1>1, <1>4, SumDisjoint
  <2> QED BY <1>1, <2>1, <2>2
<1>7. /\ Aggregate(A) \in Sums /\ Aggregate(R) \in Sums /\ Aggregate(S) \in Sums
  BY <1>1, <1>3, AggregateTyped
<1>8. Minus(Aggregate(A), Aggregate(R)) = Aggregate(S)
  BY <1>5, <1>6, <1>7 DEF Minus, Aggregate, Sums
<1> QED BY <1>8 DEF Net, A, R, S

\* With reviews one at a time, the net of every session is the sum of the
\* contributions still standing: a reversal takes out once what it names.
THEOREM StandingNetted ==
  ASSUME OneReviewer
  PROVE  Spec => []NetIsStanding
<1>1. Init => Netted
  BY DEF Init, Netted, OneReversal, ToUndo, Idle, Ids
<1>2. IInv /\ Netted /\ [Next]_vars => Netted'
  BY NettedStep
<1>3. IInv /\ Netted => NetIsStanding
  BY MatchedNets DEF NetIsStanding
<1> QED BY <1>1, <1>2, <1>3, LedgerInvariance, PTL DEF Spec

------------------------------------------------------------------------------
(***************************************************************************)
(* The ledger implements DepositBook.  A correction belongs to the session *)
(* of the deposit it corrects, and so does the one an officer is about to  *)
(* commit: then each event added is one operation on the book.             *)
(***************************************************************************)

Traced ==
  /\ \A e \in Ids :
       (ledger[e].decision = "accepted" /\ ledger[e].corrects # None) =>
         ledger[e].session = ledger[ledger[e].corrects].session
  /\ \A r \in Reviewers :
       (reviewing[r].at = "resolving" /\ reviewing[r].event # None) =>
         /\ reviewing[r].event.session = ledger[reviewing[r].item].session
         /\ reviewing[r].event.amount \in Nat

BookInv == IInv /\ Reviewed /\ Netted /\ ReadersOK /\ Traced

\* What becomes of the ledger, the queue and the reviews in one step.
LEMMA StepKinds ==
  ASSUME IInv, [Next]_vars
  PROVE  \/ UNCHANGED <<ledger, items, reviewing>>
         \/ /\ \E d \in Deliveries : Insert(d)
            /\ UNCHANGED <<reviewing, shown>>
         \/ /\ \E r \in Reviewers : \E state : Holds(r, state)
            /\ UNCHANGED <<ledger, items, shown>>
         \/ /\ \E r \in Reviewers : Resolve(r)
            /\ UNCHANGED shown
  BY DEF Next, Lifecycle, Authorize, GoLive, End, OnlySessions, Tick, Reading, FirstSelect,
         SecondSelect, Delivery, Receive, Match, SimulateDeposit, AbortDelivery, Insert,
         Reconciliation, Review, Exclude, Accept, Reverse, Decides, Holds, AbortReview, Resolve,
         vars

\* Every step keeps corrections in the session of what they correct.
LEMMA TracedStep ==
  ASSUME OneReviewer, IInv, Reviewed, Traced, [Next]_vars
  PROVE  Traced'
<1> USE LedgerAssumption
<1>1. /\ Ids \subseteq Ids'
      /\ \A e \in Ids : ledger'[e] = ledger[e]
  BY LedgerGrows
\* A new event in the session of what it corrects.
<1>2. ASSUME NEW event \in EventType, ledger' = Append(ledger, event),
             (event.decision = "accepted" /\ event.corrects # None) =>
               event.corrects \in Ids /\ event.session = ledger[event.corrects].session
      PROVE  \A e \in Ids' :
               (ledger'[e].decision = "accepted" /\ ledger'[e].corrects # None) =>
                 ledger'[e].session = ledger'[ledger'[e].corrects].session
  <2>0. PICK i : i = Len(ledger) + 1
    OBVIOUS
  <2>1. Ids' = Ids \cup {i} /\ ledger'[i] = event
    BY <1>2, <2>0, AppendFacts DEF IInv, LedgerOK
  <2>2. ASSUME NEW e \in Ids, ledger[e].decision = "accepted", ledger[e].corrects # None
        PROVE  ledger'[e].session = ledger'[ledger'[e].corrects].session
    <3>1. ledger[e].corrects \in Ids
      BY <2>2 DEF IInv, LedgerOK, Ids
    <3> QED BY <1>1, <2>2, <3>1 DEF Traced
  <2>3. (event.decision = "accepted" /\ event.corrects # None) =>
           event.session = ledger'[event.corrects].session
    BY <1>1, <1>2
  <2> QED BY <1>1, <2>1, <2>2, <2>3
<1>3. ASSUME ledger' = ledger
      PROVE  \A e \in Ids' :
               (ledger'[e].decision = "accepted" /\ ledger'[e].corrects # None) =>
                 ledger'[e].session = ledger'[ledger'[e].corrects].session
  BY <1>3 DEF Traced, Ids
\* A step that only changes what the review holds.
<1>4. ASSUME NEW r \in Reviewers, NEW state, Holds(r, state),
             (state.at = "resolving" /\ state.event # None) =>
               /\ state.event.session = ledger[state.item].session
               /\ state.event.amount \in Nat
      PROVE  Traced'
  <2>1. reviewing' = [reviewing EXCEPT ![r] = state] /\ ledger' = ledger
    BY <1>4 DEF Holds
  <2>2. \A q \in Reviewers : reviewing'[q] = IF q = r THEN state ELSE reviewing[q]
    BY <2>1 DEF IInv, InFlightOK
  <2>3. \A e \in Ids' :
          (ledger'[e].decision = "accepted" /\ ledger'[e].corrects # None) =>
             ledger'[e].session = ledger'[ledger'[e].corrects].session
    BY <1>3, <2>1
  <2>4. \A q \in Reviewers :
          (reviewing'[q].at = "resolving" /\ reviewing'[q].event # None) =>
             /\ reviewing'[q].event.session = ledger'[reviewing'[q].item].session
             /\ reviewing'[q].event.amount \in Nat
    BY <1>4, <2>1, <2>2 DEF Traced
  <2> QED BY <2>3, <2>4 DEF Traced
<1>5. ASSUME UNCHANGED <<ledger, reviewing>> PROVE Traced'
  BY <1>5 DEF Traced, Ids
<1>6. ASSUME NEW d \in Deliveries, Insert(d) PROVE Traced'
  <2>1. PICK event \in EventType : ledger' = Append(ledger, event) /\ event.corrects = None
    BY <1>6 DEF Insert, Recorded, IInv, InFlightOK, DeliveryOK, EventOK, Idle
  <2>2. reviewing' = reviewing
    BY <1>6 DEF Insert
  <2>3. \A r \in Reviewers : reviewing[r].at = "resolving" => reviewing[r].item \in Ids
    BY DEF IInv, InFlightOK, ReviewOK, Idle, ItemsOK, Queued
  <2> QED BY <1>1, <1>2, <2>1, <2>2, <2>3 DEF Traced
<1>7. ASSUME NEW r \in Reviewers, NEW i \in DOMAIN items, Review(r, i) PROVE Traced'
  BY <1>7, <1>4 DEF Review
<1>8. ASSUME NEW r \in Reviewers, Exclude(r) PROVE Traced'
  BY <1>8, <1>4 DEF Exclude, Decides
<1>9. ASSUME NEW r \in Reviewers, NEW corrected \in Amounts \cup {None}, Accept(r, corrected)
      PROVE  Traced'
  <2>1. reviewing[r].item \in Ids
    BY <1>9 DEF Accept, IInv, InFlightOK, ReviewOK, Idle, ItemsOK, Queued
  <2>2. ledger[reviewing[r].item].amount \in Nat \cup {None}
    BY <2>1 DEF IInv, LedgerOK, EventOK, EventType
  <2> QED BY <1>9, <1>4, <2>2 DEF Accept, Decides, Event, Judged
<1>10. ASSUME NEW r \in Reviewers, NEW target \in Ids, Reverse(r, target) PROVE Traced'
  <2>1. ledger[target].amount \in Nat \cup {None}
    BY <1>10 DEF IInv, LedgerOK, EventOK, EventType
  <2> QED BY <1>10, <1>4, <2>1 DEF Reverse, Decides, Event, Judged
<1>11. ASSUME NEW r \in Reviewers, Resolve(r) PROVE Traced'
  <2>1. \A q \in Reviewers : reviewing'[q] = Idle
    BY <1>11 DEF Resolve, OneReviewer, IInv, InFlightOK
  <2>2. CASE reviewing[r].event = None
    BY <1>11, <1>3, <2>1, <2>2 DEF Resolve, Traced, Idle
  <2>3. CASE reviewing[r].event # None
    <3>1. PICK event : event = reviewing[r].event
      OBVIOUS
    <3>2. Correction(event) /\ event.session = ledger[reviewing[r].item].session
      BY <1>11, <2>3, <3>1 DEF Resolve, IInv, InFlightOK, ReviewOK, Idle, Traced
    <3>3. event.decision = "accepted" => event.corrects = reviewing[r].item
      BY <1>11, <2>3, <3>1 DEF Resolve, Reviewed, UnderReview, Idle
    <3>4. ledger' = Append(ledger, event)
      BY <1>11, <2>3, <3>1 DEF Resolve
    <3>5. \A e \in Ids' :
            (ledger'[e].decision = "accepted" /\ ledger'[e].corrects # None) =>
              ledger'[e].session = ledger'[ledger'[e].corrects].session
      BY <1>2, <3>2, <3>3, <3>4 DEF Correction
    <3> QED BY <2>1, <3>5 DEF Traced, Idle
  <2> QED BY <2>2, <2>3
<1>12. ASSUME NEW r \in Reviewers, AbortReview(r) PROVE Traced'
  BY <1>12, <1>4 DEF AbortReview, Idle
<1> QED BY <1>5, <1>6, <1>7, <1>8, <1>9, <1>10, <1>11, <1>12
        DEF Next, Lifecycle, Authorize, GoLive, End, OnlySessions, Tick, Reading, FirstSelect,
            SecondSelect, Delivery, Receive, Match, SimulateDeposit, AbortDelivery,
            Reconciliation, vars

\* What is accepted stands for one deposit, and what is queued is a deposit.
LEMMA DepositFacts ==
  ASSUME IInv, Reviewed
  PROVE  /\ \A i \in DOMAIN items : i \in Deposits
         /\ \A e \in Ids : ledger[e].decision = "accepted" =>
              Deposit(e) \in Deposits /\ e \in Acceptances(Deposit(e))
         /\ \A d : \A e, f \in Acceptances(d) : e = f
         /\ Deposits \subseteq Ids
         /\ \A i \in DOMAIN items : items[i] = "pending" => Acceptances(i) = {}
<1> USE LedgerAssumption
<1>1. ASSUME NEW i \in DOMAIN items PROVE i \in Ids /\ ledger[i].corrects = None
  BY DEF IInv, ItemsOK, Queued, LedgerOK, EventOK, Attributed, Reconciliable
<1>2. ASSUME NEW e \in Ids, ledger[e].decision = "accepted" PROVE Deposit(e) \in Deposits
  <2>1. CASE ledger[e].corrects = None
    BY <2>1 DEF Deposit, Deposits
  <2>2. CASE ledger[e].corrects # None
    BY <1>1, <1>2, <2>2 DEF Deposit, Deposits, Reviewed, Settled
  <2> QED BY <2>1, <2>2
<1>3. ASSUME NEW i \in DOMAIN items, items[i] = "pending", NEW e \in Acceptances(i) PROVE FALSE
  <2>1. e \in Ids /\ ledger[e].decision = "accepted" /\ Deposit(e) = i /\ Settled(e)
    BY DEF Acceptances, Reviewed
  <2>2. CASE ledger[e].corrects = None
    BY <1>3, <2>1, <2>2 DEF Deposit, IInv, ItemsOK, Queued, Reconciliable
  <2>3. CASE ledger[e].corrects # None
    BY <1>3, <2>1, <2>3 DEF Deposit, Settled
  <2> QED BY <2>2, <2>3
<1> QED BY <1>1, <1>2, <1>3 DEF Deposits, Acceptances, Reviewed, OneAcceptPerDeposit

\* The entry of a deposit with one acceptance, and with none.
LEMMA EntryIs ==
  ASSUME NEW d \in Deposits, \A e, f \in Acceptances(d) : e = f
  PROVE  /\ Acceptances(d) = {} =>
              /\ Amount[d] = ledger[d].amount
              /\ Fate[d] = IF d \in DOMAIN items /\ items[d] = "pending"
                           THEN "doubtful" ELSE "excluded"
         /\ \A e \in Acceptances(d) :
              /\ Amount[d] = ledger[e].amount
              /\ Fate[d] = IF Reversed(e) THEN "reversed" ELSE "counts"
<1>1. ASSUME NEW e \in Acceptances(d) PROVE (CHOOSE x \in Acceptances(d) : TRUE) = e
  OBVIOUS
<1> QED BY <1>1 DEF Amount, Fate

\* The columns of the book.
LEMMA BookIs ==
  /\ DOMAIN DepositsBook = Deposits
  /\ DepositsBook = [d \in Deposits |-> DepositsBook[d]]
  /\ \A d \in Deposits :
       DepositsBook[d] = [message |-> ledger[d].message, session |-> ledger[d].session,
                          amount |-> Amount[d], fate |-> Fate[d]]
BY DEF DepositsBook

\* The book's balance of a session is what still stands in the ledger.
LEMMA BalanceIs ==
  ASSUME IInv, Reviewed, Traced, NEW s \in Sessions
  PROVE  Book!Balance(s) = Aggregate(Standing(s))
<1> DEFINE S == Standing(s)
           C == Book!Counting(s)
           worth == Book!Worth
           to == [e \in Ids |-> Deposit(e)]
<1>1. C = {d \in Deposits : ledger[d].session = s /\ Fate[d] = "counts"}
  BY BookIs DEF Book!Counting, Book!Entries
<1>2. ASSUME NEW e \in S
      PROVE  /\ e \in Ids /\ to[e] \in C
             /\ worth[to[e]] = AmountOf[e]
  <2>1. /\ e \in Ids /\ ledger[e].decision = "accepted" /\ ledger[e].session = s
        /\ ~Reversed(e)
    BY DEF Standing, WithDecision
  <2>2. /\ Deposit(e) \in Deposits /\ e \in Acceptances(Deposit(e))
        /\ \A x, y \in Acceptances(Deposit(e)) : x = y
    BY <2>1, DepositFacts
  <2>3. Fate[Deposit(e)] = "counts" /\ Amount[Deposit(e)] = ledger[e].amount
    BY <2>1, <2>2, EntryIs
  <2>4. ledger[Deposit(e)].session = s
    BY <2>1 DEF Deposit, Traced
  <2>5. worth[Deposit(e)] = AmountOf[e]
    BY <2>1, <2>2, <2>3, BookIs DEF Book!Worth, Book!Entries, AmountOf
  <2> QED BY <1>1, <2>1, <2>2, <2>3, <2>4, <2>5
<1>3. ASSUME NEW d \in C PROVE \E e \in S : to[e] = d
  <2>1. d \in Deposits /\ ledger[d].session = s /\ Fate[d] = "counts"
    BY <1>1
  <2>2. PICK e \in Acceptances(d) : ~Reversed(e)
    BY <2>1 DEF Fate
  <2>3. e \in Ids /\ ledger[e].decision = "accepted" /\ Deposit(e) = d
    BY <2>2 DEF Acceptances
  <2>4. ledger[e].session = s
    BY <2>1, <2>3 DEF Deposit, Traced
  <2> QED BY <2>2, <2>3, <2>4 DEF Standing, WithDecision
<1>4. \A e, f \in S : to[e] = to[f] => e = f
  BY DEF Standing, WithDecision, Reviewed, OneAcceptPerDeposit
<1>5. IsFiniteSet(S) /\ \A e \in S : AmountOf[e] \in Int
  <2>1. S \in SUBSET Ids /\ LedgerOK
    BY DEF Standing, WithDecision, IInv
  <2> QED BY <2>1, AggregateTyped
<1>6. Book!Balance(s) = [count |-> Cardinality(C), total |-> SumFunctionOnSet(worth, C)]
  <2>1. \A T : Book!Cardinality(T) = Cardinality(T)
    BY DEF Book!Cardinality, Cardinality
  <2>2. \A f, T : Book!SumFunctionOnSet(f, T) = SumFunctionOnSet(f, T)
    BY DEF Book!SumFunctionOnSet, Book!FoldFunctionOnSet, Book!MapThenFoldSet,
           SumFunctionOnSet, FoldFunctionOnSet, MapThenFoldSet
  <2> QED BY <2>1, <2>2 DEF Book!Balance
<1> HIDE DEF S, C, worth, to
<1>7. C = {to[e] : e \in S}
  BY <1>2, <1>3
<1>8. Cardinality(C) = Cardinality(S)
  <2> DEFINE g == [e \in S |-> to[e]]
  <2>1. g \in Bijection(S, C)
    BY <1>4, <1>7 DEF Bijection, Injection, Surjection, IsInjective
  <2> QED BY <1>5, <2>1, FS_Bijection DEF ExistsBijection
<1>9. SumFunctionOnSet(worth, C) = SumFunctionOnSet(AmountOf, S)
  BY <1>2, <1>4, <1>5, <1>7, SumImage
<1> QED BY <1>6, <1>8, <1>9 DEF Aggregate, S

\* The same of the state after a step.
LEMMA NextBookIs ==
  /\ DOMAIN DepositsBook' = Deposits'
  /\ DepositsBook' = [d \in Deposits' |-> DepositsBook'[d]]
  /\ \A d \in Deposits' :
       DepositsBook'[d] = [message |-> ledger'[d].message, session |-> ledger'[d].session,
                           amount |-> Amount'[d], fate |-> Fate'[d]]
BY DEF DepositsBook

LEMMA NextEntryIs ==
  ASSUME NEW d \in Deposits', NEW A, A = Acceptances(d)', \A e, f \in A : e = f
  PROVE  /\ A = {} =>
              /\ Amount'[d] = ledger'[d].amount
              /\ Fate'[d] = IF d \in DOMAIN items' /\ items'[d] = "pending"
                            THEN "doubtful" ELSE "excluded"
         /\ \A e \in A :
              /\ Amount'[d] = ledger'[e].amount
              /\ Fate'[d] = IF Reversed(e)' THEN "reversed" ELSE "counts"
<1>1. Amount'[d] = IF A = {} THEN ledger'[d].amount ELSE ledger'[CHOOSE e \in A : TRUE].amount
  BY DEF Amount
<1>2. Fate'[d] = IF A # {}
                 THEN IF \E e \in A : Reversed(e)' THEN "reversed" ELSE "counts"
                 ELSE IF d \in DOMAIN items' /\ items'[d] = "pending"
                      THEN "doubtful" ELSE "excluded"
  BY DEF Fate
<1>3. ASSUME NEW e \in A PROVE (CHOOSE x \in A : TRUE) = e
  OBVIOUS
<1> QED BY <1>1, <1>2, <1>3

\* A deposit to which nothing happens keeps its entry.
LEMMA EntryStays ==
  ASSUME IInv, Reviewed, Ids \subseteq Ids', \A e \in Ids : ledger'[e] = ledger[e],
         NEW d \in Deposits, Acceptances(d)' = Acceptances(d),
         \A e \in Acceptances(d) : Reversed(e)' <=> Reversed(e),
         Acceptances(d) = {} => 
           ((d \in DOMAIN items' /\ items'[d] = "pending") <=>
            (d \in DOMAIN items /\ items[d] = "pending"))
  PROVE  d \in Deposits' /\ DepositsBook'[d] = DepositsBook[d]
<1>1. d \in Ids /\ ledger[d].corrects = None
  BY DEF Deposits
<1>2. d \in Deposits'
  BY <1>1 DEF Deposits
<1>3. PICK A : A = Acceptances(d) /\ A = Acceptances(d)'
  OBVIOUS
<1>4. A \subseteq Ids /\ \A e, f \in A : e = f
  BY <1>3, DepositFacts DEF Acceptances
<1>5. CASE A = {}
  <2>1. /\ Amount[d] = ledger[d].amount
        /\ Fate[d] = IF d \in DOMAIN items /\ items[d] = "pending"
                     THEN "doubtful" ELSE "excluded"
    BY <1>3, <1>4, <1>5, EntryIs
  <2>2. /\ Amount'[d] = ledger'[d].amount
        /\ Fate'[d] = IF d \in DOMAIN items' /\ items'[d] = "pending"
                      THEN "doubtful" ELSE "excluded"
    BY <1>2, <1>3, <1>5, NextEntryIs
  <2> QED BY <1>1, <1>2, <1>3, <1>5, <2>1, <2>2, BookIs, NextBookIs
<1>6. ASSUME NEW e \in A PROVE DepositsBook'[d] = DepositsBook[d]
  <2>1. /\ Amount[d] = ledger[e].amount
        /\ Fate[d] = IF Reversed(e) THEN "reversed" ELSE "counts"
    BY <1>3, <1>4, EntryIs
  <2>2. /\ Amount'[d] = ledger'[e].amount
        /\ Fate'[d] = IF Reversed(e)' THEN "reversed" ELSE "counts"
    BY <1>2, <1>3, <1>4, NextEntryIs
  <2>3. ledger'[e] = ledger[e] /\ (Reversed(e)' <=> Reversed(e))
    BY <1>3, <1>4
  <2> QED BY <1>1, <1>2, <2>1, <2>2, <2>3, BookIs, NextBookIs
<1> QED BY <1>2, <1>5, <1>6

\* What the event i adds to the acceptances of d.
Joining(d, event, i) ==
  {e \in {i} : /\ event.decision = "accepted"
               /\ d = IF event.corrects = None THEN i ELSE event.corrects}

\* What one more event does to acceptances and reversals.
LEMMA AfterAppend ==
  ASSUME IInv, NEW event \in EventType, ledger' = Append(ledger, event),
         NEW i, i = Len(ledger) + 1
  PROVE  /\ Ids' = Ids \cup {i} /\ i \notin Ids
         /\ \A e \in Ids : ledger'[e] = ledger[e]
         /\ ledger'[i] = event
         /\ \A d : Acceptances(d)' = Acceptances(d) \cup Joining(d, event, i)
         /\ \A e : Reversed(e)' <=>
              Reversed(e) \/ (event.decision = "reversed" /\ event.corrects = e)
<1>1. /\ Ids' = Ids \cup {i} /\ i \notin Ids
      /\ \A e \in Ids : ledger'[e] = ledger[e]
      /\ ledger'[i] = event
  BY AppendFacts DEF IInv, LedgerOK
<1>2. /\ \A e \in Ids : Deposit(e)' = Deposit(e)
      /\ Deposit(i)' = IF event.corrects = None THEN i ELSE event.corrects
  BY <1>1 DEF Deposit
<1>3. ASSUME NEW d
      PROVE  Acceptances(d)' = Acceptances(d) \cup Joining(d, event, i)
  BY <1>1, <1>2 DEF Acceptances, Joining
<1>4. ASSUME NEW e
      PROVE  Reversed(e)' <=>
               Reversed(e) \/ (event.decision = "reversed" /\ event.corrects = e)
  BY <1>1 DEF Reversed
<1> QED BY <1>1, <1>3, <1>4

\* A delivery or a rehearsal that commits enters its event in the book.
LEMMA InsertEnters ==
  ASSUME IInv, Reviewed, NEW d \in Deliveries, Insert(d), UNCHANGED shown
  PROVE  \E i \in DOMAIN DepositsBook' \ Book!Entries : Book!Enter(i, DepositsBook'[i])
<1> USE LedgerAssumption
<1>0. PICK i : i = Len(ledger) + 1
  OBVIOUS
<1>1. PICK event \in EventType :
        /\ ledger' = Append(ledger, event)
        /\ event.corrects = None /\ event.decision # "reversed" /\ Attributed(event)
        /\ event.message # None => ~Existing(event.message)
        /\ items' = IF event.decision \in Reconciliable /\ event.session # None
                    THEN [e \in DOMAIN items \cup {i} |->
                            IF e \in DOMAIN items THEN items[e] ELSE "pending"]
                    ELSE items
  <2>1. /\ EventOK(delivering[d].event) /\ delivering[d].event.corrects = None
        /\ delivering[d].event.decision # "reversed"
    BY DEF Insert, IInv, InFlightOK, DeliveryOK, Idle
  <2> QED BY <1>0, <2>1 DEF Insert, Recorded, EventOK
<1>2. /\ Ids' = Ids \cup {i} /\ i \notin Ids
      /\ \A e \in Ids : ledger'[e] = ledger[e]
      /\ ledger'[i] = event
      /\ \A x : Acceptances(x)' =
           Acceptances(x) \cup
             {e \in {i} : event.decision = "accepted" /\ x = i}
      /\ \A e : Reversed(e)' <=> Reversed(e)
  <2>1. ledger' = Append(ledger, event)
    BY <1>1
  <2>2. /\ Ids' = Ids \cup {i} /\ i \notin Ids
        /\ \A e \in Ids : ledger'[e] = ledger[e]
        /\ ledger'[i] = event
        /\ \A x : Acceptances(x)' = Acceptances(x) \cup Joining(x, event, i)
        /\ \A e : Reversed(e)' <=>
             Reversed(e) \/ (event.decision = "reversed" /\ event.corrects = e)
    BY <1>0, <2>1, AfterAppend
  <2>3. \A x : Joining(x, event, i) = {e \in {i} : event.decision = "accepted" /\ x = i}
    BY <1>1 DEF Joining
  <2> QED BY <1>1, <2>2, <2>3
<1>3. Deposits' = Deposits \cup {i} /\ Deposits \subseteq Ids
  BY <1>1, <1>2 DEF Deposits
<1>4. ASSUME NEW x \in Deposits PROVE DepositsBook'[x] = DepositsBook[x]
  <2>1. x \in Ids /\ x # i
    BY <1>2, <1>3
  <2>2. Acceptances(x)' = Acceptances(x)
    BY <1>2, <2>1
  <2>3. (x \in DOMAIN items' /\ items'[x] = "pending") <=>
          (x \in DOMAIN items /\ items[x] = "pending")
    BY <1>1, <2>1
  <2> QED BY <1>2, <2>2, <2>3, EntryStays
<1>5. PICK A : A = Acceptances(i)'
  OBVIOUS
<1>6. A = {e \in {i} : event.decision = "accepted"}
  <2>1. Acceptances(i) = {}
    BY <1>2 DEF Acceptances, Deposit, IInv, LedgerOK, Ids
  <2> QED BY <1>2, <1>5, <2>1
<1>7. PICK new : new = DepositsBook'[i]
  OBVIOUS
<1>8. /\ new.message = event.message /\ new.session = event.session
      /\ new.fate = Fate'[i]
  <2>1. i \in Deposits'
    BY <1>3
  <2>2. DepositsBook'[i] = [message |-> ledger'[i].message, session |-> ledger'[i].session,
                            amount |-> Amount'[i], fate |-> Fate'[i]]
    BY <2>1, NextBookIs
  <2> QED BY <1>2, <1>7, <2>2
<1>9. \/ new.fate \in {"counts", "doubtful"} /\ new.session \in Sessions
      \/ new.fate = "excluded"
  <2>0. event.session \in Sessions \cup {None}
    BY DEF EventType
  <2>1. CASE event.decision = "accepted"
    <3>1. Fate'[i] = IF Reversed(i)' THEN "reversed" ELSE "counts"
      BY <1>3, <1>5, <1>6, <2>1, NextEntryIs
    <3>2. ~Reversed(i)'
      <4>1. ~Reversed(i)
        <5>1. i \in Nat
          BY <1>0 DEF IInv, LedgerOK
        <5>2. \A e \in Ids : ledger[e].corrects \in Ids \cup {None}
          BY DEF IInv, LedgerOK, Ids
        <5> QED BY <1>2, <5>1, <5>2 DEF Reversed
      <4> QED BY <1>2, <4>1
    <3>3. new.fate = "counts"
      BY <1>8, <3>1, <3>2
    <3> QED BY <1>1, <1>8, <2>0, <2>1, <3>3 DEF Attributed
  <2>2. CASE event.decision # "accepted"
    <3>1. Fate'[i] = IF i \in DOMAIN items' /\ items'[i] = "pending"
                     THEN "doubtful" ELSE "excluded"
      BY <1>3, <1>5, <1>6, <2>2, NextEntryIs
    <3>2. i \notin DOMAIN items
      BY <1>2 DEF IInv, ItemsOK, Queued
    <3>3. (i \in DOMAIN items' /\ items'[i] = "pending") => event.session # None
      BY <1>1, <3>2
    <3> QED BY <1>8, <2>0, <3>1, <3>3
  <2> QED BY <2>1, <2>2
<1>10. new.message # None => \A e \in Deposits : DepositsBook[e].message # new.message
  BY <1>1, <1>3, <1>8, BookIs DEF Existing
<1>11. DepositsBook' = [e \in Deposits \cup {i} |-> IF e = i THEN new ELSE DepositsBook[e]]
  BY <1>3, <1>4, <1>7, NextBookIs
<1>12. Book!Entries = Deposits
  BY BookIs DEF Book!Entries
<1>13. Book!Enter(i, new)
  BY <1>9, <1>10, <1>11, <1>12 DEF Book!Enter
<1> QED BY <1>2, <1>3, <1>7, <1>12, <1>13, NextBookIs

\* The entry under review is doubtful, and no event accepts it.
LEMMA DoubtfulIs ==
  ASSUME IInv, Reviewed, NEW r \in Reviewers, reviewing[r].at = "resolving",
         NEW item, item = reviewing[r].item
  PROVE  /\ item \in DOMAIN items /\ items[item] = "pending"
         /\ item \in Deposits /\ item \in Ids /\ item # None
         /\ Acceptances(item) = {}
         /\ DepositsBook[item] = [message |-> ledger[item].message,
                                  session |-> ledger[item].session,
                                  amount |-> ledger[item].amount, fate |-> "doubtful"]
<1> USE LedgerAssumption
<1>1. item \in DOMAIN items /\ items[item] = "pending"
  BY DEF Reviewed, UnderReview, IInv, InFlightOK, ReviewOK, Idle
<1>2. item \in Deposits /\ item \in Ids /\ Acceptances(item) = {}
  BY <1>1, DepositFacts
<1>3. item # None
  BY <1>2 DEF IInv, LedgerOK, Ids
<1>4. Amount[item] = ledger[item].amount /\ Fate[item] = "doubtful"
  BY <1>1, <1>2, EntryIs
<1> QED BY <1>1, <1>2, <1>3, <1>4, BookIs

\* The entry under review once it is decided and no event accepts it.
LEMMA LeftOutIs ==
  ASSUME NEW item \in Deposits', Acceptances(item)' = {}, items'[item] = "resolved"
  PROVE  DepositsBook'[item] = [message |-> ledger'[item].message,
                                session |-> ledger'[item].session,
                                amount |-> ledger'[item].amount, fate |-> "excluded"]
<1>1. PICK A : A = Acceptances(item)' /\ A = {}
  OBVIOUS
<1>2. Amount'[item] = ledger'[item].amount /\ Fate'[item] = "excluded"
  BY <1>1, NextEntryIs
<1> QED BY <1>2, NextBookIs

\* EXCLUDED and DUPLICATE leave the entry out.
LEMMA ExclusionLeavesOut ==
  ASSUME IInv, Reviewed, NEW r \in Reviewers, Resolve(r), UNCHANGED shown,
         reviewing[r].event = None, NEW item, item = reviewing[r].item
  PROVE  Book!LeaveOut(item)
<1>1. /\ item \in DOMAIN items /\ item \in Deposits /\ item \in Ids
      /\ Acceptances(item) = {}
      /\ DepositsBook[item] = [message |-> ledger[item].message,
                               session |-> ledger[item].session,
                               amount |-> ledger[item].amount, fate |-> "doubtful"]
  BY DoubtfulIs DEF Resolve
<1>2. ledger' = ledger /\ items' = [items EXCEPT ![item] = "resolved"]
  BY DEF Resolve
<1>3. /\ Ids' = Ids /\ Deposits' = Deposits
      /\ \A x : Acceptances(x)' = Acceptances(x)
      /\ \A e : Reversed(e)' <=> Reversed(e)
  BY <1>2 DEF Ids, Deposits, Acceptances, Deposit, Reversed
<1>4. ASSUME NEW x \in Deposits, x # item PROVE DepositsBook'[x] = DepositsBook[x]
  <2>1. Acceptances(x)' = Acceptances(x)
    BY <1>3
  <2> QED BY <1>2, <1>3, <1>4, <2>1, EntryStays
<1>5. DepositsBook'[item] = [message |-> ledger[item].message,
                             session |-> ledger[item].session,
                             amount |-> ledger[item].amount, fate |-> "excluded"]
  <2>1. Acceptances(item)' = {} /\ items'[item] = "resolved" /\ item \in Deposits'
    BY <1>1, <1>2, <1>3
  <2> QED BY <1>2, <2>1, LeftOutIs
<1>6. DepositsBook' = [DepositsBook EXCEPT ![item].fate = "excluded"]
  BY <1>1, <1>3, <1>4, <1>5, BookIs, NextBookIs
<1> QED BY <1>6 DEF Book!LeaveOut

\* Nothing refers to an event that is not in the ledger yet.
LEMMA NoneAhead ==
  ASSUME IInv, NEW i, i = Len(ledger) + 1
  PROVE  ~Reversed(i)
<1>1. i \in Nat /\ i \notin Ids /\ i # None
  BY LedgerAssumption DEF IInv, LedgerOK, Ids
<1>2. \A e \in Ids : ledger[e].corrects \in Ids \cup {None}
  BY DEF IInv, LedgerOK, Ids
<1> QED BY <1>1, <1>2 DEF Reversed

\* The event a review commits, and what it does to the ledger.
LEMMA Committed ==
  ASSUME IInv, Reviewed, NEW r \in Reviewers, Resolve(r), NEW event,
         event = reviewing[r].event, event # None, NEW i, i = Len(ledger) + 1
  PROVE  /\ Correction(event)
         /\ Ids' = Ids \cup {i} /\ i \notin Ids
         /\ \A e \in Ids : ledger'[e] = ledger[e]
         /\ ledger'[i] = event
         /\ Deposits' = Deposits
         /\ \A d : Acceptances(d)' = Acceptances(d) \cup Joining(d, event, i)
         /\ \A e : Reversed(e)' <=>
              Reversed(e) \/ (event.decision = "reversed" /\ event.corrects = e)
<1>1. Correction(event)
  BY DEF Resolve, IInv, InFlightOK, ReviewOK, Idle
<1>2. event \in EventType /\ ledger' = Append(ledger, event)
  BY <1>1 DEF Resolve, Correction
<1>3. /\ Ids' = Ids \cup {i} /\ i \notin Ids
      /\ \A e \in Ids : ledger'[e] = ledger[e]
      /\ ledger'[i] = event
      /\ \A d : Acceptances(d)' = Acceptances(d) \cup Joining(d, event, i)
      /\ \A e : Reversed(e)' <=>
           Reversed(e) \/ (event.decision = "reversed" /\ event.corrects = e)
  BY <1>2, AfterAppend
<1>4. event.corrects # None
  BY <1>1, LedgerAssumption DEF Correction, IInv, LedgerOK, Ids
<1>5. Deposits' = Deposits
  BY <1>3, <1>4 DEF Deposits
<1> QED BY <1>1, <1>3, <1>5

\* ACCEPTED makes the entry count, for the amount of the event it adds.
LEMMA AcceptanceCounts ==
  ASSUME IInv, Reviewed, Traced, NEW r \in Reviewers, Resolve(r), UNCHANGED shown,
         NEW event, event = reviewing[r].event, event # None, event.decision = "accepted",
         NEW item, item = reviewing[r].item
  PROVE  Book!Accept(item, DepositsBook'[item].amount)
<1>0. PICK i : i = Len(ledger) + 1
  OBVIOUS
<1>1. /\ item \in DOMAIN items /\ item \in Deposits /\ item \in Ids /\ item # None
      /\ Acceptances(item) = {}
      /\ DepositsBook[item] = [message |-> ledger[item].message,
                               session |-> ledger[item].session,
                               amount |-> ledger[item].amount, fate |-> "doubtful"]
  BY DoubtfulIs DEF Resolve
<1>2. /\ Ids' = Ids \cup {i} /\ i \notin Ids
      /\ \A e \in Ids : ledger'[e] = ledger[e]
      /\ ledger'[i] = event
      /\ Deposits' = Deposits
      /\ \A d : Acceptances(d)' = Acceptances(d) \cup Joining(d, event, i)
      /\ \A e : Reversed(e)' <=>
           Reversed(e) \/ (event.decision = "reversed" /\ event.corrects = e)
  BY <1>0, Committed
<1>3. event.corrects = item /\ event.amount \in Nat
  BY DEF Resolve, Reviewed, UnderReview, Traced, Idle
<1>4. \A d : Joining(d, event, i) = IF d = item THEN {i} ELSE {}
  BY <1>1, <1>3 DEF Joining
<1>5. \A e : Reversed(e)' <=> Reversed(e)
  BY <1>2
<1>6. ASSUME NEW x \in Deposits, x # item PROVE DepositsBook'[x] = DepositsBook[x]
  <2>1. Acceptances(x)' = Acceptances(x)
    BY <1>2, <1>4, <1>6
  <2>2. items' = [items EXCEPT ![item] = "resolved"]
    BY DEF Resolve
  <2> QED BY <1>2, <1>5, <1>6, <2>1, <2>2, EntryStays
<1>7. DepositsBook'[item] = [message |-> ledger[item].message,
                             session |-> ledger[item].session,
                             amount |-> event.amount, fate |-> "counts"]
  <2>1. PICK A : A = Acceptances(item)' /\ A = {i}
    BY <1>1, <1>2, <1>4
  <2>2. ~Reversed(i)'
    BY <1>0, <1>5, NoneAhead
  <2>3. item \in Deposits'
    BY <1>1, <1>2
  <2>4. Amount'[item] = event.amount /\ Fate'[item] = "counts"
    <3>1. i \in A /\ \A e, f \in A : e = f
      BY <2>1
    <3>2. /\ Amount'[item] = ledger'[i].amount
          /\ Fate'[item] = IF Reversed(i)' THEN "reversed" ELSE "counts"
      BY <2>1, <2>3, <3>1, NextEntryIs
    <3> QED BY <1>2, <2>2, <3>2
  <2>5. ledger'[item] = ledger[item]
    BY <1>1, <1>2
  <2> QED BY <2>3, <2>4, <2>5, NextBookIs
<1>8. DepositsBook' = [DepositsBook EXCEPT ![item] = DepositsBook'[item]]
  BY <1>1, <1>2, <1>6, BookIs, NextBookIs
<1> QED BY <1>1, <1>3, <1>7, <1>8 DEF Book!Accept

\* REVERSED takes back the deposit the target stands for, and no other.
LEMMA ReversalTakesBack ==
  ASSUME IInv, Reviewed, Netted, Traced, NEW r \in Reviewers, Resolve(r), UNCHANGED shown,
         NEW event, event = reviewing[r].event, event # None, event.decision = "reversed",
         NEW item, item = reviewing[r].item
  PROVE  \E d \in Deposits : Book!TakeBack(item, d)
<1>0. PICK i, target, d : /\ i = Len(ledger) + 1
                          /\ target = event.corrects /\ d = Deposit(target)
  OBVIOUS
<1>1. /\ item \in DOMAIN items /\ item \in Deposits /\ item \in Ids
      /\ Acceptances(item) = {}
      /\ DepositsBook[item] = [message |-> ledger[item].message,
                               session |-> ledger[item].session,
                               amount |-> ledger[item].amount, fate |-> "doubtful"]
  BY DoubtfulIs DEF Resolve
<1>2. /\ Ids' = Ids \cup {i} /\ i \notin Ids
      /\ \A e \in Ids : ledger'[e] = ledger[e]
      /\ Deposits' = Deposits
      /\ \A x : Acceptances(x)' = Acceptances(x) \cup Joining(x, event, i)
      /\ \A e : Reversed(e)' <=>
           Reversed(e) \/ (event.decision = "reversed" /\ event.corrects = e)
  BY <1>0, Committed
<1>3. /\ target \in Ids /\ ledger[target].decision = "accepted"
      /\ ledger[target].session = ledger[item].session
      /\ ledger[target].amount \in Nat
      /\ ~Reversed(target)
  BY <1>0 DEF Resolve, Netted, ToUndo, Undoes, Traced
<1>4. /\ d \in Deposits /\ target \in Acceptances(d) /\ d # item /\ d \in Ids
      /\ ledger[d].session = ledger[item].session
  <2>1. d \in Deposits /\ target \in Acceptances(d) /\ d \in Ids
    BY <1>0, <1>3, DepositFacts
  <2>2. ledger[d].session = ledger[target].session
    BY <1>0, <1>3 DEF Deposit, Traced
  <2> QED BY <1>1, <1>3, <2>1, <2>2
<1>5. /\ \A x : Acceptances(x)' = Acceptances(x)
      /\ \A e : Reversed(e)' <=> Reversed(e) \/ e = target
  <2>1. \A x : Joining(x, event, i) = {}
    BY DEF Joining
  <2> QED BY <1>0, <1>2, <2>1
<1>6. ASSUME NEW x \in Deposits, x # item, x # d PROVE DepositsBook'[x] = DepositsBook[x]
  <2>1. Acceptances(x)' = Acceptances(x)
    BY <1>5
  <2>2. items' = [items EXCEPT ![item] = "resolved"]
    BY DEF Resolve
  <2>3. \A e \in Acceptances(x) : e # target
    BY <1>0, <1>6 DEF Acceptances
  <2>4. \A e \in Acceptances(x) : Reversed(e)' <=> Reversed(e)
    BY <1>5, <2>3
  <2> QED BY <1>2, <1>6, <2>1, <2>2, <2>4, EntryStays
<1>7. DepositsBook'[item] = [message |-> ledger[item].message,
                             session |-> ledger[item].session,
                             amount |-> ledger[item].amount, fate |-> "excluded"]
  <2>1. Acceptances(item)' = {} /\ item \in Deposits' /\ ledger'[item] = ledger[item]
    BY <1>1, <1>2, <1>5
  <2>2. items'[item] = "resolved"
    BY <1>1 DEF Resolve
  <2> QED BY <2>1, <2>2, LeftOutIs
<1>8. /\ DepositsBook[d] = [message |-> ledger[d].message, session |-> ledger[d].session,
                            amount |-> ledger[target].amount, fate |-> "counts"]
      /\ DepositsBook'[d] = [message |-> ledger[d].message, session |-> ledger[d].session,
                             amount |-> ledger[target].amount, fate |-> "reversed"]
  <2>1. PICK A : A = Acceptances(d) /\ A = Acceptances(d)'
    BY <1>5
  <2>2. target \in A /\ \A e, f \in A : e = f
    BY <1>4, <2>1, DepositFacts
  <2>3. Amount[d] = ledger[target].amount /\ Fate[d] = "counts"
    <3>1. \A e, f \in Acceptances(d) : e = f
      BY DepositFacts
    <3> QED BY <1>3, <1>4, <3>1, EntryIs
  <2>4. d \in Deposits' /\ Reversed(target)'
    BY <1>2, <1>4, <1>5
  <2>5. Amount'[d] = ledger'[target].amount /\ Fate'[d] = "reversed"
    BY <2>1, <2>2, <2>4, NextEntryIs
  <2>6. ledger'[target] = ledger[target] /\ ledger'[d] = ledger[d]
    BY <1>2, <1>3, <1>4
  <2> QED BY <1>4, <2>3, <2>4, <2>5, <2>6, BookIs, NextBookIs
<1>9. DepositsBook' =
        [DepositsBook EXCEPT ![item].fate = "excluded", ![d].fate = "reversed"]
  BY <1>1, <1>2, <1>4, <1>6, <1>7, <1>8, BookIs, NextBookIs
<1>10. ledger[target].amount # None
  BY <1>3, LedgerAssumption
<1>11. Book!TakeBack(item, d)
  BY <1>1, <1>4, <1>8, <1>9, <1>10 DEF Book!TakeBack
<1> QED BY <1>4, <1>11

\* The book changes with the ledger and the queue only.
LEMMA BookStays ==
  ASSUME ledger' = ledger, items' = items
  PROVE  DepositsBook' = DepositsBook
<1>1. /\ Deposits' = Deposits
      /\ \A x : Acceptances(x)' = Acceptances(x)
      /\ \A e : Reversed(e)' <=> Reversed(e)
  BY DEF Ids, Deposits, Acceptances, Deposit, Reversed
<1>2. Amount' = Amount
  BY DEF Amount, Ids, Deposits, Acceptances, Deposit
<1>3. Fate' = Fate
  BY DEF Fate, Ids, Deposits, Acceptances, Deposit, Reversed
<1> QED BY <1>1, <1>2, <1>3 DEF DepositsBook

\* A step that writes nothing may show totals: they are no more than the balance.
LEMMA ReadingShows ==
  ASSUME BookInv, [Next]_vars, shown' # shown
  PROVE  \E s \in Sessions : Book!Show(s, shown'[s])
<1>1. PICK s \in Sessions : /\ \E totals : shown' = [shown EXCEPT ![s] = totals]
                            /\ UNCHANGED <<ledger, items>>
  BY LedgerAssumption
  DEF Next, Lifecycle, Authorize, GoLive, End, OnlySessions, Tick, Reading, FirstSelect,
      SecondSelect, Delivery, Receive, Match, SimulateDeposit, Insert, AbortDelivery,
      Reconciliation, Review, Exclude, Accept, Reverse, Decides, Holds, AbortReview, Resolve,
      vars
<1>2. PICK totals : totals = shown'[s]
  OBVIOUS
<1>3. shown' = [shown EXCEPT ![s] = totals] /\ totals # shown[s]
  BY <1>1, <1>2 DEF BookInv, ReadersOK
<1>4. totals.count <= Net(s).count /\ totals.total <= Net(s).total
  BY <1>2, <1>3, NothingOverstated DEF BookInv
<1>5. Net(s) = Book!Balance(s)
  BY MatchedNets, BalanceIs DEF BookInv
<1>6. DepositsBook' = DepositsBook
  BY <1>1, BookStays
<1>7. Book!Show(s, totals)
  BY <1>3, <1>4, <1>5, <1>6 DEF Book!Show
<1> QED BY <1>2, <1>7

\* A commit of a review is one of an officer's decisions.
LEMMA ResolveDecides ==
  ASSUME BookInv, NEW r \in Reviewers, Resolve(r), UNCHANGED shown
  PROVE  \E d \in Book!Doubtful :
           \/ Book!Accept(d, DepositsBook'[d].amount)
           \/ Book!LeaveOut(d)
           \/ \E e \in Book!Entries : Book!TakeBack(d, e)
<1>0. IInv /\ Reviewed /\ Netted /\ Traced
  BY DEF BookInv
<1>1. PICK item, event : item = reviewing[r].item /\ event = reviewing[r].event
  OBVIOUS
<1>2. /\ item \in Deposits
      /\ DepositsBook[item] = [message |-> ledger[item].message,
                               session |-> ledger[item].session,
                               amount |-> ledger[item].amount, fate |-> "doubtful"]
  BY <1>0, <1>1, DoubtfulIs DEF Resolve
<1>3. Book!Entries = Deposits
  BY BookIs DEF Book!Entries
<1>4. item \in Book!Doubtful
  BY <1>2, <1>3 DEF Book!Doubtful
<1>5. CASE event = None
  BY <1>0, <1>1, <1>4, <1>5, ExclusionLeavesOut
<1>6. CASE event # None /\ event.decision = "accepted"
  BY <1>0, <1>1, <1>4, <1>6, AcceptanceCounts
<1>7. CASE event # None /\ event.decision = "reversed"
  BY <1>0, <1>1, <1>3, <1>4, <1>7, ReversalTakesBack
<1>8. event # None => event.decision \in {"accepted", "reversed"}
  BY <1>0, <1>1 DEF Resolve, IInv, InFlightOK, ReviewOK, Correction, Idle
<1> QED BY <1>5, <1>6, <1>7, <1>8

\* Every step of the ledger is one operation on the book, or none.
LEMMA StepImplements ==
  ASSUME BookInv, [Next]_vars
  PROVE  [Book!Next]_<<DepositsBook, shown>>
<1>0. IInv /\ Reviewed
  BY DEF BookInv
<1>1. CASE shown' # shown
  <2>1. \E s \in Sessions : Book!Show(s, shown'[s])
    BY <1>1, ReadingShows
  <2> QED BY <2>1 DEF Book!Next
<1>2. CASE shown' = shown /\ UNCHANGED <<ledger, items>>
  BY <1>2, BookStays
<1>3. ASSUME NEW d \in Deliveries, Insert(d), shown' = shown
      PROVE  [Book!Next]_<<DepositsBook, shown>>
  <2>1. \E i \in DOMAIN DepositsBook' \ Book!Entries : Book!Enter(i, DepositsBook'[i])
    BY <1>0, <1>3, InsertEnters
  <2> QED BY <2>1 DEF Book!Next
<1>4. ASSUME NEW r \in Reviewers, Resolve(r), shown' = shown
      PROVE  [Book!Next]_<<DepositsBook, shown>>
  <2>1. \E d \in Book!Doubtful :
          \/ Book!Accept(d, DepositsBook'[d].amount)
          \/ Book!LeaveOut(d)
          \/ \E e \in Book!Entries : Book!TakeBack(d, e)
    BY <1>4, ResolveDecides
  <2> QED BY <2>1 DEF Book!Next
<1> QED BY <1>0, <1>1, <1>2, <1>3, <1>4, StepKinds

\* With reviews one at a time, the ledger implements the book of deposits: a
\* step commits one entry, one decision or one reversal, or shows totals that
\* are no more than the deposits that count at that moment.
THEOREM LedgerImplementsBook ==
  ASSUME OneReviewer
  PROVE  Spec => ImplementsBook
<1>1. Init => BookInv
  <2> SUFFICES ASSUME Init PROVE BookInv
    OBVIOUS
  <2>1. IInv
    BY InitIInv
  <2>2. Reviewed /\ Netted
    BY DEF Init, Reviewed, UnderReview, OneAcceptPerDeposit, Netted, OneReversal, ToUndo, Idle,
           Ids
  <2>3. ReadersOK /\ Traced
    BY DEF Init, ReadersOK, ReadingOK, Traced, Idle, Ids
  <2> QED BY <2>1, <2>2, <2>3 DEF BookInv
<1>2. IInv' /\ BookInv /\ [Next]_vars => BookInv'
  BY ReviewedStep, NettedStep, ReadersStep, TracedStep DEF BookInv
<1>3. Init => Book!Init
  <2> SUFFICES ASSUME Init PROVE Book!Init
    OBVIOUS
  <2>1. Deposits = {}
    BY DEF Init, Deposits, Ids
  <2>2. DepositsBook = [d \in {} |-> None]
    BY <2>1, BookIs
  <2>3. shown = [s \in Sessions |-> [count |-> 0, total |-> 0]]
    BY DEF Init, Zero
  <2> QED BY <2>2, <2>3 DEF Book!Init
<1>4. BookInv /\ [Next]_vars => [Book!Next]_<<DepositsBook, shown>>
  BY StepImplements
<1> QED BY <1>1, <1>2, <1>3, <1>4, LedgerInvariance, PTL DEF Spec, ImplementsBook, Book!Spec
==============================================================================
