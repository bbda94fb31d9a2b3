------------------------- MODULE MCContributionLedger -------------------------
(*****************************************************************************)
(* Values for the constants of ContributionLedger, and its two parts, looked *)
(* at one at a time: what deliveries make of messages, and what reviews make *)
(* of the events.  The initial state says which.                             *)
(*****************************************************************************)
EXTENDS ContributionLedger

CONSTANTS
  s1, s2, m1, m2, m3, m4, b1, b2,
  Foci            \* the parts to look at

VARIABLE focus

\* s1 listens to every mailbox, s2 to one of them.
MCMailbox == (m1 :> b1) @@ (m2 :> b1) @@ (m3 :> b2) @@ (m4 :> b1)
MCLinked == (s1 :> {b1, b2}) @@ (s2 :> {b1})

\* A profile of a whole domain and a stricter one of an address.
MCThreshold == (1 :> 1) @@ (2 :> 2)

Read(specificity, credit, amount) ==
  [specificity |-> specificity, credit |-> credit, amount |-> amount]

Unreadable == (1 :> Read(1, TRUE, None)) @@ (2 :> Read(2, TRUE, None))

\* A clear credit; two whose amount cannot be read, which are doubtful; one for
\* the wide profile alone, where it is good enough without an amount.
MCParseResult ==
  (m1 :> ((1 :> Read(1, TRUE, 2)) @@ (2 :> Read(2, TRUE, 2)))) @@
  (m2 :> Unreadable) @@ (m4 :> Unreadable) @@
  (m3 :> ((1 :> Read(1, TRUE, None)) @@ (2 :> Read(0, FALSE, None))))

\* m2 and m4 are interchangeable: both come to the same mailbox and neither can be
\* read.
Symmetry == Permutations(Deliveries) \cup Permutations(Reviewers) \cup Permutations({m2, m4})

MCInit ==
  /\ focus \in Foci
  /\ Init
  /\ \A m \in Messages : focus = "reviews" \/ m \in {m2, m4} => received[m] = 0

\* What the sessions do that makes a difference to the ledger: only a rehearsal
\* asks whether one is live, and one that was never authorized may as well not end.
Progressing ==
  \/ \E s \in Sessions : Authorize(s) \/ (session[s].watermark # None /\ End(s))
  \/ \E s \in TestSessions : GoLive(s)

\* Deliveries of two messages at a time, and the clock.
Ingesting ==
  \/ Progressing \/ Tick
  \/ \E d \in Deliveries : \/ \E m \in {m1, m3} : Receive(d, m)
                           \/ Match(d) \/ Insert(d) \/ AbortDelivery(d)

\* Reviews of doubtful messages, which come one at a time, and of rehearsals.
Reviewing ==
  \/ Progressing \/ Reconciliation \/ Reading
  \/ \E d \in Deliveries :
       /\ \A e \in Deliveries \ {d} : delivering[e] = Idle
       /\ \/ \E m \in Messages \cap {m2, m4} : Receive(d, m)
          \/ \E s \in Sessions, amount \in Amounts : SimulateDeposit(d, s, amount)
          \/ Match(d) \/ Insert(d) \/ AbortDelivery(d)

MCNext ==
  /\ \/ focus = "deliveries" /\ Ingesting
     \/ focus = "reviews" /\ Reviewing
  /\ UNCHANGED focus

MCSpec == MCInit /\ [][MCNext]_<<vars, focus>>
===============================================================================
