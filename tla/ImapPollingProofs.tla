-------------------------- MODULE ImapPollingProofs --------------------------
(***************************************************************************)
(* Theorems about ImapPolling, for any number of mailboxes and pollers.    *)
(*                                                                         *)
(* A poll works from a watermark it loaded long ago, on messages it        *)
(* fetched a while ago, while others commit.  The invariant says what each *)
(* stage of a poll accounts for: everything in the mailbox up to the UID   *)
(* it will leave as the watermark is dealt with already, or is among what  *)
(* the poll holds.  That is never undone, since UIDs only grow and events  *)
(* are only added; so it does not even depend on the lock.  The lock is    *)
(* what keeps two batches from containing the same message.                *)
(***************************************************************************)
EXTENDS ImapPolling, TLAPS

Messages == {MessageId[u] : u \in Uids}

ConnType ==
  [status : {"absent", "connected", "revoked", "deleted"},
   imap_last_uid : Nat \cup {None}, baseline : Nat]

\* Every message of b up to n that came after the connection was made is
\* settled or in S.
Accounted(b, n, S) ==
  \A u \in inbox[b] : (conn[b].baseline < u /\ u <= n) => Settled(b, u) \/ u \in S

\* A watermark that is, or was, in the row of b.
Watermark(b, uid) ==
  /\ uid \in Nat \cup {None}
  /\ Since(uid) <= highest[b]
  /\ Accounted(b, Since(uid), {})

Exists(b) == b \in Mailboxes /\ conn[b].status # "absent"

Named(batch) == {u \in Uids : MessageId[u] \in batch}

Waiting == [at : {"waiting", "locked"}, box : Mailboxes, loaded : Nat \cup {None}]
Fetched ==
  [at : {"fetched"}, box : Mailboxes, found : SUBSET Uids, missed : SUBSET Uids,
   top : Nat \cup {None}]
Ingested ==
  [at : {"ingested"}, box : Mailboxes, batch : SUBSET Messages, missed : SUBSET Uids,
   top : Nat \cup {None}]
Committed == [at : {"committed", "told"}, box : Mailboxes, batch : SUBSET Messages]

\* What a poll answers for, by what it holds.
Answers(r) ==
  \/ r = Idle
  \/ r \in Waiting /\ Exists(r.box) /\ Watermark(r.box, r.loaded)
  \/ /\ r \in Fetched /\ Exists(r.box)
     /\ Since(r.top) <= highest[r.box]
     /\ Accounted(r.box, Since(r.top), r.found \cup r.missed)
  \/ /\ r \in Ingested /\ Exists(r.box)
     /\ Since(r.top) <= highest[r.box]
     /\ Accounted(r.box, Since(r.top), Named(r.batch) \cup r.missed)
  \/ r \in Committed /\ Exists(r.box) /\ r.batch \subseteq recorded[r.box]

MailOK ==
  /\ highest \in [Mailboxes -> Nat]
  /\ inbox \in [Mailboxes -> SUBSET Uids]
  /\ \A b \in Mailboxes : \A u \in inbox[b] : u <= highest[b]

RowsOK ==
  /\ conn \in [Mailboxes -> ConnType]
  /\ recorded \in [Mailboxes -> SUBSET Messages]
  /\ skipped \in [Mailboxes -> SUBSET Uids]
  /\ told \in [Mailboxes -> SUBSET Messages]
  /\ \A b \in Mailboxes :
       IF conn[b].status = "absent" THEN conn[b].imap_last_uid = None
       ELSE Watermark(b, conn[b].imap_last_uid)
  /\ ToldIsRecorded

\* A baseline being read belongs to a row that does not exist yet.
RequestsOK ==
  /\ creating \in [Mailboxes -> Nat \cup {None}]
  /\ \A b \in Mailboxes : creating[b] # None =>
       conn[b].status = "absent" /\ creating[b] <= highest[b]
  /\ starting \subseteq Mailboxes /\ stopping \subseteq Mailboxes

TasksOK ==
  /\ watching \subseteq Mailboxes
  /\ DOMAIN todo \subseteq Mailboxes
  /\ \A b \in DOMAIN todo : Exists(b) /\ Watermark(b, todo[b])

\* A lock is held exactly by the poll that is past it.
LocksOK ==
  /\ lock \in [Mailboxes -> Pollers \cup {None}]
  /\ poll = [p \in Pollers |-> poll[p]]
  /\ \A b \in Mailboxes, p \in Pollers :
       lock[b] = p <=> (poll[p].at \in Holding /\ poll[p].box = b)

\* What a poll is about to insert is not in the ledger.
Fresh == \A p \in Pollers : poll[p].at = "ingested" => poll[p].batch \cap recorded[poll[p].box] = {}

PollsOK == \A p \in Pollers : Answers(poll[p])

IInv == MailOK /\ RowsOK /\ RequestsOK /\ TasksOK /\ LocksOK /\ Fresh /\ PollsOK
------------------------------------------------------------------------------

\* Nothing is connected at first but the connections that have no watermark.
LEMMA InitIInv == Init => IInv
<1> SUFFICES ASSUME Init PROVE IInv
  OBVIOUS
<1> USE PollingAssumption
<1>1. MailOK
  BY DEF Init, MailOK
<1>2. ASSUME NEW b \in Mailboxes, NEW n, NEW S PROVE Accounted(b, n, S)
  BY DEF Init, Accounted
<1>3. RowsOK
  <2>1. conn \in [Mailboxes -> ConnType]
    <3>1. Row("connected", None, 0) \in ConnType /\ Row("absent", None, 0) \in ConnType
      BY DEF ConnType, Row
    <3> QED BY <3>1 DEF Init
  <2>2. ASSUME NEW b \in Mailboxes PROVE Watermark(b, conn[b].imap_last_uid)
    BY <1>2 DEF Init, Watermark, Since, Row
  <2>3. \A b \in Mailboxes : conn[b].imap_last_uid = None
    BY DEF Init, Row
  <2> QED BY <2>1, <2>2, <2>3 DEF Init, RowsOK, ToldIsRecorded
<1>4. RequestsOK
  BY DEF Init, RequestsOK
<1>5. TasksOK
  BY DEF Init, TasksOK, Nothing
<1>6. LocksOK
  BY DEF Init, LocksOK, Idle, Holding, Pollers
<1>7. Fresh
  BY DEF Init, Fresh, Idle
<1>8. PollsOK
  BY DEF Init, PollsOK, Answers
<1> QED BY <1>1, <1>3, <1>4, <1>5, <1>6, <1>7, <1>8 DEF IInv

------------------------------------------------------------------------------

\* What every step of the system respects: UIDs grow, events stay, and a
\* connection's baseline is its own for good.
Grows ==
  /\ \A b \in Mailboxes :
       /\ highest'[b] \in Nat /\ highest'[b] >= highest[b]
       /\ \A u \in inbox'[b] : u \in Uids /\ (u \in inbox[b] \/ u > highest[b])
       /\ recorded[b] \subseteq recorded'[b]
       /\ skipped[b] \subseteq skipped'[b]
       /\ Exists(b) => Exists(b)' /\ conn'[b].baseline = conn[b].baseline

\* What was accounted for stays accounted for.
LEMMA AccountedStays ==
  IInv /\ Grows =>
    \A b \in Mailboxes : \A n \in Nat : \A S :
      (Exists(b) /\ n <= highest[b] /\ Accounted(b, n, S)) => Accounted(b, n, S)'
<1> SUFFICES ASSUME IInv, Grows, NEW b \in Mailboxes, Exists(b), NEW n \in Nat, n <= highest[b],
                    NEW S, Accounted(b, n, S)
             PROVE  Accounted(b, n, S)'
  OBVIOUS
<1> SUFFICES ASSUME NEW u \in inbox'[b], conn'[b].baseline < u, u <= n
             PROVE  Settled(b, u)' \/ u \in S
  BY DEF Accounted
<1>0. highest[b] \in Nat
  BY DEF IInv, MailOK
<1>1. u \in inbox[b]
  <2>1. u \in Nat /\ (u \in inbox[b] \/ u > highest[b])
    BY DEF Grows, Uids
  <2>2. CASE u \in inbox[b]
    BY <2>2
  <2>3. CASE u > highest[b]
    BY <2>1, <2>3, <1>0
  <2> QED BY <2>1, <2>2, <2>3
<1>2. Settled(b, u) \/ u \in S
  BY <1>1 DEF Accounted, Grows
<1> QED BY <1>2 DEF Settled, Grows

\* A watermark once loaded stays one.
LEMMA WatermarkStays ==
  IInv /\ Grows =>
    \A b \in Mailboxes : \A uid :
      (Exists(b) /\ Watermark(b, uid)) => Exists(b)' /\ Watermark(b, uid)'
<1> SUFFICES ASSUME IInv, Grows, NEW b \in Mailboxes, Exists(b), NEW uid, Watermark(b, uid)
             PROVE  Exists(b)' /\ Watermark(b, uid)'
  OBVIOUS
<1>1. Since(uid) \in Nat /\ Since(uid) <= highest[b] /\ Accounted(b, Since(uid), {})
  BY DEF Watermark, Since
<1>2. Accounted(b, Since(uid), {})'
  BY <1>1, AccountedStays
<1>3. Since(uid) <= highest'[b]
  BY <1>1 DEF Grows, IInv, MailOK
<1> QED BY <1>1, <1>2, <1>3 DEF Grows, Watermark

\* What a poll answers for stays so, whatever others do.
LEMMA AnswersStay == IInv /\ Grows => \A r : Answers(r) => Answers(r)'
<1> SUFFICES ASSUME IInv, Grows, NEW r, Answers(r) PROVE Answers(r)'
  OBVIOUS
<1> DEFINE b == r.box
<1>1. CASE r = Idle
  BY <1>1 DEF Answers
<1>2. CASE r \in Waiting /\ Exists(b) /\ Watermark(b, r.loaded)
  <2>1. Exists(b)' /\ Watermark(b, r.loaded)'
    BY <1>2, WatermarkStays DEF Exists
  <2> QED BY <1>2, <2>1 DEF Answers
<1>3. CASE /\ r \in Fetched /\ Exists(b) /\ Since(r.top) <= highest[b]
           /\ Accounted(b, Since(r.top), r.found \cup r.missed)
  <2>1. b \in Mailboxes /\ Since(r.top) \in Nat
    BY <1>3 DEF Exists, Since, Fetched
  <2>2. /\ Accounted(b, Since(r.top), r.found \cup r.missed)'
        /\ Exists(b)' /\ Since(r.top) <= highest'[b]
    BY <1>3, <2>1, AccountedStays DEF Grows, IInv, MailOK
  <2> QED BY <1>3, <2>2 DEF Answers
<1>4. CASE /\ r \in Ingested /\ Exists(b) /\ Since(r.top) <= highest[b]
           /\ Accounted(b, Since(r.top), Named(r.batch) \cup r.missed)
  <2>1. b \in Mailboxes /\ Since(r.top) \in Nat
    BY <1>4 DEF Exists, Since, Ingested
  <2>2. /\ Accounted(b, Since(r.top), Named(r.batch) \cup r.missed)'
        /\ Exists(b)' /\ Since(r.top) <= highest'[b]
    BY <1>4, <2>1, AccountedStays DEF Grows, IInv, MailOK
  <2> QED BY <1>4, <2>2 DEF Answers
<1>5. CASE r \in Committed /\ Exists(b) /\ r.batch \subseteq recorded[b]
  BY <1>5 DEF Answers, Exists, Grows
<1> QED BY <1>1, <1>2, <1>3, <1>4, <1>5 DEF Answers

\* A poll that takes no step goes on answering for what it holds.
LEMMA PollStays ==
  ASSUME IInv, Grows, NEW q \in Pollers, poll'[q] = poll[q]
  PROVE  Answers(poll[q])'
<1>1. PICK r : r = poll[q]
  OBVIOUS
<1>2. Answers(r)
  BY <1>1 DEF IInv, PollsOK
<1>3. Answers(r)'
  BY <1>2, AnswersStay
<1>4. r = poll'[q]
  BY <1>1
<1> QED BY <1>3, <1>4 DEF Answers, Exists, Watermark, Accounted, Settled

\* What the sweep has loaded stays good while it waits its turn.
LEMMA TodoStays ==
  ASSUME IInv, Grows, DOMAIN todo' \subseteq DOMAIN todo,
         \A b \in DOMAIN todo' : todo'[b] = todo[b]
  PROVE  \A b \in DOMAIN todo' : b \in Mailboxes /\ Exists(b)' /\ Watermark(b, todo[b])'
<1> SUFFICES ASSUME NEW b \in DOMAIN todo'
             PROVE  b \in Mailboxes /\ Exists(b)' /\ Watermark(b, todo[b])'
  OBVIOUS
<1>1. PICK uid : uid = todo[b]
  OBVIOUS
<1>2. b \in Mailboxes /\ Exists(b) /\ Watermark(b, uid)
  BY <1>1 DEF IInv, TasksOK
<1>3. Exists(b)' /\ Watermark(b, uid)'
  BY <1>2, WatermarkStays
<1>4. uid = todo'[b]
  BY <1>1
<1> QED BY <1>2, <1>3, <1>4 DEF Watermark, Accounted, Settled, Since

------------------------------------------------------------------------------

\* A step that touches neither the mail nor the rows.
LEMMA Untouched ==
  ASSUME IInv, UNCHANGED <<mail, rows>>
  PROVE  Grows /\ MailOK' /\ RowsOK'
<1>1. Grows
  BY DEF Grows, mail, rows, IInv, MailOK, Exists
<1>2. MailOK'
  BY DEF IInv, MailOK, mail
<1>3. RowsOK'
  BY DEF IInv, RowsOK, mail, rows, Watermark, Accounted, Settled, ToldIsRecorded
<1> QED BY <1>1, <1>2, <1>3

\* Requests in progress, while the rows that exist stay what they are.
LEMMA RequestsStay ==
  ASSUME IInv, UNCHANGED <<mail, requests>>,
         \A b \in Mailboxes : conn[b].status = "absent" => conn'[b].status = "absent"
  PROVE  RequestsOK'
BY DEF IInv, RequestsOK, mail, requests

\* A poll that goes on keeps its lock, and the others keep theirs.
LEMMA MovesOn ==
  ASSUME LocksOK, NEW p \in Pollers, NEW r,
         UNCHANGED lock, poll' = [poll EXCEPT ![p] = r],
         r.at \in Holding <=> poll[p].at \in Holding,
         r.box = poll[p].box
  PROVE  LocksOK'
BY DEF LocksOK

\* A poll that ends gives up its lock and no other.
LEMMA FinishLocks ==
  ASSUME LocksOK, NEW p \in Pollers, Finish(p)
  PROVE  LocksOK'
<1> USE PollingAssumption
<1>1. lock' \in [Mailboxes -> Pollers \cup {None}]
  BY DEF LocksOK, Finish, Unlocked
<1>2. poll' = [q \in Pollers |-> poll'[q]]
  BY DEF LocksOK, Finish
<1>3. ASSUME NEW b \in Mailboxes, NEW q \in Pollers
      PROVE  lock'[b] = q <=> (poll'[q].at \in Holding /\ poll'[q].box = b)
  <2>1. CASE q = p
    <3>1. poll'[q].at \notin Holding
      BY <2>1 DEF Finish, LocksOK, Idle, Holding
    <3>2. lock'[b] # p
      BY DEF Finish, Unlocked
    <3> QED BY <2>1, <3>1, <3>2
  <2>2. CASE q # p
    <3>1. poll'[q] = poll[q]
      BY <2>2 DEF Finish, LocksOK
    <3>2. lock'[b] = q <=> lock[b] = q
      BY <2>2 DEF Finish, Unlocked
    <3> QED BY <3>1, <3>2 DEF LocksOK
  <2> QED BY <2>1, <2>2
<1> QED BY <1>1, <1>2, <1>3 DEF LocksOK

\* Nothing is inserted by a step that leaves the ledger alone and starts no
\* new batch.
LEMMA FreshStays ==
  ASSUME IInv, UNCHANGED recorded,
         \A q \in Pollers : poll'[q].at = "ingested" => poll'[q] = poll[q]
  PROVE  Fresh'
BY DEF IInv, Fresh

\* The parts of the invariant that such a step still has to show.
LEMMA QuietStep ==
  ASSUME IInv, UNCHANGED <<mail, rows>>,
         \A q \in Pollers : poll'[q] = poll[q] \/ Answers(poll[q])',
         LocksOK', RequestsOK', TasksOK', Fresh'
  PROVE  IInv'
<1>1. Grows /\ MailOK' /\ RowsOK'
  BY Untouched
<1>2. PollsOK'
  BY <1>1, PollStays DEF PollsOK
<1> QED BY <1>1, <1>2 DEF IInv

\* Tasks that stay, or drop mailboxes from the sweep.
LEMMA TasksStay ==
  ASSUME IInv, Grows, watching' \subseteq Mailboxes,
         DOMAIN todo' \subseteq DOMAIN todo, \A b \in DOMAIN todo' : todo'[b] = todo[b]
  PROVE  TasksOK'
BY TodoStays DEF TasksOK

\* What a poll answers for, by the stage it has reached.
LEMMA Stages ==
  ASSUME IInv, NEW p \in Pollers
  PROVE
    /\ poll[p].at \in {"waiting", "locked"} =>
         poll[p] \in Waiting /\ Exists(poll[p].box) /\ Watermark(poll[p].box, poll[p].loaded)
    /\ poll[p].at = "fetched" =>
         /\ poll[p] \in Fetched /\ Exists(poll[p].box)
         /\ Since(poll[p].top) <= highest[poll[p].box]
         /\ Accounted(poll[p].box, Since(poll[p].top), poll[p].found \cup poll[p].missed)
    /\ poll[p].at = "ingested" =>
         /\ poll[p] \in Ingested /\ Exists(poll[p].box)
         /\ Since(poll[p].top) <= highest[poll[p].box]
         /\ Accounted(poll[p].box, Since(poll[p].top), Named(poll[p].batch) \cup poll[p].missed)
    /\ poll[p].at \in {"committed", "told"} =>
         /\ poll[p] \in Committed /\ Exists(poll[p].box)
         /\ poll[p].batch \subseteq recorded[poll[p].box]
<1>1. Answers(poll[p])
  BY DEF IInv, PollsOK
<1>2. poll[p] = Idle => poll[p].at = "idle"
  BY DEF Idle
<1>3. poll[p] \in Waiting => poll[p].at \in {"waiting", "locked"}
  BY DEF Waiting
<1>4. poll[p] \in Fetched => poll[p].at = "fetched"
  BY DEF Fetched
<1>5. poll[p] \in Ingested => poll[p].at = "ingested"
  BY DEF Ingested
<1>6. poll[p] \in Committed => poll[p].at \in {"committed", "told"}
  BY DEF Committed
<1> QED BY <1>1, <1>2, <1>3, <1>4, <1>5, <1>6 DEF Answers

\* A poll that waited takes the lock.
LEMMA AcquireSafe == ASSUME IInv, NEW p \in Pollers, Acquire(p) PROVE IInv'
<1> USE PollingAssumption
<1> DEFINE b == poll[p].box
<1>1. poll[p] \in Waiting /\ Exists(b) /\ Watermark(b, poll[p].loaded)
  BY Stages DEF Acquire
<1>2. Grows
  BY Untouched DEF Acquire
<1>3. Answers(poll[p])'
  <2>1. PICK r : r = [poll[p] EXCEPT !.at = "locked"]
    OBVIOUS
  <2>2. r \in Waiting /\ r.box = b /\ r.loaded = poll[p].loaded
    BY <1>1, <2>1 DEF Waiting
  <2>3. Answers(r)'
    BY <1>1, <1>2, <2>2, AnswersStay DEF Answers
  <2>4. r = poll'[p]
    BY <2>1 DEF Acquire, IInv, LocksOK
  <2> QED BY <2>3, <2>4 DEF Answers, Exists, Watermark, Accounted, Settled
<1>4. LocksOK'
  <2>1. b \in Mailboxes
    BY <1>1 DEF Exists
  <2>2. lock' \in [Mailboxes -> Pollers \cup {None}] /\ poll' = [q \in Pollers |-> poll'[q]]
    BY <2>1 DEF Acquire, IInv, LocksOK
  <2>3. ASSUME NEW x \in Mailboxes, NEW q \in Pollers
        PROVE  lock'[x] = q <=> (poll'[q].at \in Holding /\ poll'[q].box = x)
    <3>1. lock[x] = q <=> (poll[q].at \in Holding /\ poll[q].box = x)
      BY DEF IInv, LocksOK
    <3>2. CASE q = p
      <4>1. poll'[p].at = "locked" /\ poll'[p].box = b
        BY <1>1 DEF Acquire, IInv, LocksOK, Waiting
      <4>2. poll[p].at \notin Holding
        BY DEF Acquire, Holding
      <4>3. lock'[x] = p <=> x = b
        <5>1. lock[x] # p
          BY <3>1, <3>2, <4>2
        <5>2. lock'[x] = IF x = b THEN p ELSE lock[x]
          BY <2>1 DEF Acquire, IInv, LocksOK
        <5> QED BY <5>1, <5>2
      <4> QED BY <3>2, <4>1, <4>3 DEF Holding
    <3>3. CASE q # p
      <4>1. poll'[q] = poll[q]
        BY <3>3 DEF Acquire, IInv, LocksOK
      <4>2. lock'[x] = q <=> lock[x] = q
        BY <3>3, <2>1 DEF Acquire, IInv, LocksOK
      <4> QED BY <3>1, <4>1, <4>2
    <3> QED BY <3>2, <3>3
  <2> QED BY <2>2, <2>3 DEF LocksOK
<1>5. RequestsOK' /\ TasksOK'
  <2>1. RequestsOK'
    BY RequestsStay DEF Acquire, rows
  <2>2. TasksOK'
    BY <1>2, TasksStay DEF Acquire, tasks, IInv, TasksOK
  <2> QED BY <2>1, <2>2
<1>6. Fresh'
  <2>1. ASSUME NEW q \in Pollers, poll'[q].at = "ingested" PROVE poll'[q] = poll[q]
    BY <2>1 DEF Acquire, IInv, LocksOK
  <2> QED BY <2>1, FreshStays DEF Acquire, rows
<1>7. \A q \in Pollers : poll'[q] = poll[q] \/ Answers(poll[q])'
  BY <1>3 DEF Acquire, IInv, LocksOK
<1> QED BY <1>4, <1>5, <1>6, <1>7, QuietStep DEF Acquire

\* A poll that ends without a commit leaves nothing behind.
LEMMA FinishSafe ==
  ASSUME IInv, NEW p \in Pollers, Finish(p), UNCHANGED <<mail, rows>>, RequestsOK', TasksOK'
  PROVE  IInv'
<1>1. LocksOK'
  BY FinishLocks DEF IInv
<1>2. Answers(poll[p])'
  BY DEF Finish, IInv, LocksOK, Answers
<1>3. \A q \in Pollers : poll'[q] = poll[q] \/ Answers(poll[q])'
  BY <1>2 DEF Finish, IInv, LocksOK
<1>4. Fresh'
  <2>1. ASSUME NEW q \in Pollers, poll'[q].at = "ingested" PROVE poll'[q] = poll[q]
    BY <2>1 DEF Finish, IInv, LocksOK, Idle
  <2> QED BY <2>1, FreshStays DEF rows
<1> QED BY <1>1, <1>3, <1>4, QuietStep

\* Steps that go on holding the lock, with something else in memory.
LEMMA HoldSafe ==
  ASSUME IInv, NEW p \in Pollers, NEW r, poll' = [poll EXCEPT ![p] = r],
         UNCHANGED <<mail, rows, requests, tasks, lock>>,
         poll[p].at \in Holding, r.at \in Holding, r.box = poll[p].box,
         r.at = "ingested" => r.batch \cap recorded[r.box] = {},
         Answers(r)
  PROVE  IInv'
<1>1. LocksOK'
  BY MovesOn DEF IInv
<1>2. RequestsOK'
  BY RequestsStay DEF rows
<1>3. TasksOK'
  <2>1. Grows
    BY Untouched
  <2> QED BY <2>1, TasksStay DEF tasks, IInv, TasksOK
<1>4. Fresh'
  BY DEF Fresh, IInv, LocksOK, rows
<1>5. Answers(poll[p])'
  <2>1. Answers(r)'
    BY Untouched, AnswersStay
  <2>2. r = poll'[p]
    BY DEF IInv, LocksOK
  <2> QED BY <2>1, <2>2 DEF Answers, Exists, Watermark, Accounted, Settled
<1>6. \A q \in Pollers : poll'[q] = poll[q] \/ Answers(poll[q])'
  BY <1>5 DEF IInv, LocksOK
<1> QED BY <1>1, <1>2, <1>3, <1>4, <1>6, QuietStep

\* A fetch looks at everything between the watermark it loaded and the one
\* it will leave.
LEMMA FetchSafe == ASSUME IInv, NEW p \in Pollers, Fetch(p) PROVE IInv'
<1> DEFINE b == poll[p].box
<1>1. poll[p] \in Waiting /\ Exists(b) /\ Watermark(b, poll[p].loaded)
  BY Stages DEF Fetch
<1>2. PICK missed \in SUBSET New(p), top \in Greatest(New(p)) \cup {None} :
        /\ top = None <=> New(p) = {}
        /\ poll' = [poll EXCEPT ![p] =
             [at |-> "fetched", box |-> b, found |-> New(p) \ missed,
              missed |-> missed, top |-> top]]
  BY DEF Fetch
<1>3. PICK r : r = [at |-> "fetched", box |-> b, found |-> New(p) \ missed,
                    missed |-> missed, top |-> top]
  OBVIOUS
<1>4. b \in Mailboxes /\ inbox[b] \subseteq Uids /\ New(p) \subseteq inbox[b]
  BY <1>1 DEF Exists, IInv, MailOK, New
<1>5. top = None \/ (top \in New(p) /\ top \in Nat /\ top <= highest[b])
  BY <1>2, <1>4 DEF Greatest, IInv, MailOK, Uids
<1>6. r \in Fetched /\ r.box = b /\ r.found \cup r.missed = New(p) /\ r.top = top
  BY <1>2, <1>3, <1>4, <1>5 DEF Fetched
<1>7. Since(top) <= highest[b]
  BY <1>4, <1>5 DEF Since, IInv, MailOK
<1>8. Accounted(b, Since(top), New(p))
  <2> SUFFICES ASSUME NEW u \in inbox[b], conn[b].baseline < u, u <= Since(top)
               PROVE  Settled(b, u) \/ u \in New(p)
    BY DEF Accounted
  <2>1. u \in Nat /\ Since(poll[p].loaded) \in Nat
    BY <1>1, <1>4 DEF Uids, Waiting, Since
  <2>2. CASE u > Since(poll[p].loaded)
    BY <2>2 DEF New
  <2>3. CASE u <= Since(poll[p].loaded)
    BY <1>1, <2>3 DEF Watermark, Accounted
  <2> QED BY <2>1, <2>2, <2>3
<1>9. Answers(r)
  BY <1>1, <1>6, <1>7, <1>8 DEF Answers
<1>10. poll' = [poll EXCEPT ![p] = r] /\ r.at = "fetched"
  BY <1>2, <1>3
<1> QED BY <1>6, <1>9, <1>10, HoldSafe DEF Fetch, Holding

\* What a poll has found is recorded already, or is in its batch.
LEMMA IngestSafe == ASSUME IInv, NEW p \in Pollers, Ingest(p) PROVE IInv'
<1> DEFINE b == poll[p].box
<1>1. /\ poll[p] \in Fetched /\ Exists(b) /\ Since(poll[p].top) <= highest[b]
      /\ Accounted(b, Since(poll[p].top), poll[p].found \cup poll[p].missed)
  BY Stages DEF Ingest
<1>2. PICK r : r = [at |-> "ingested", box |-> b, batch |-> Batch(p),
                    missed |-> poll[p].missed, top |-> poll[p].top]
  OBVIOUS
<1>3. /\ r \in Ingested /\ r.box = b /\ r.batch = Batch(p)
      /\ r.missed = poll[p].missed /\ r.top = poll[p].top
  BY <1>1, <1>2 DEF Fetched, Ingested, Batch, Messages
<1>4. Accounted(b, Since(r.top), Named(r.batch) \cup r.missed)
  <2> SUFFICES ASSUME NEW u \in inbox[b], conn[b].baseline < u, u <= Since(r.top)
               PROVE  Settled(b, u) \/ u \in Named(r.batch) \/ u \in r.missed
    BY DEF Accounted
  <2>1. u \in Uids
    BY <1>1 DEF Exists, IInv, MailOK
  <2>2. Settled(b, u) \/ u \in poll[p].found \/ u \in poll[p].missed
    BY <1>1, <1>3 DEF Accounted
  <2>3. ASSUME u \in poll[p].found PROVE Settled(b, u) \/ u \in Named(r.batch)
    BY <1>3, <2>1, <2>3 DEF Batch, Named, Settled
  <2> QED BY <1>3, <2>2, <2>3
<1>5. Answers(r)
  BY <1>1, <1>3, <1>4 DEF Answers
<1>6. r.batch \cap recorded[r.box] = {}
  BY <1>3 DEF Batch
<1>7. poll' = [poll EXCEPT ![p] = r] /\ r.at = "ingested"
  BY <1>2 DEF Ingest
<1> QED BY <1>3, <1>5, <1>6, <1>7, HoldSafe DEF Ingest, Holding

\* A poll that fails, or has nothing left to do, ends.
LEMMA EndSafe ==
  ASSUME IInv, NEW p \in Pollers, FetchError(p) \/ Release(p) \/ IngestFails(p) \/ CommitFails(p)
  PROVE  IInv'
<1>1. Finish(p) /\ UNCHANGED <<mail, rows, requests>>
  BY DEF FetchError, Release, IngestFails, CommitFails, Fails
<1>2. UNCHANGED watching /\ (todo' = Nothing \/ UNCHANGED todo)
  BY DEF FetchError, Release, IngestFails, CommitFails, Fails, tasks
<1>3. RequestsOK'
  BY <1>1, RequestsStay DEF rows
<1>4. TasksOK'
  <2>1. DOMAIN todo' \subseteq DOMAIN todo /\ \A b \in DOMAIN todo' : todo'[b] = todo[b]
    BY <1>2 DEF Nothing
  <2> QED BY <1>1, <1>2, <2>1, Untouched, TasksStay DEF IInv, TasksOK
<1> QED BY <1>1, <1>3, <1>4, FinishSafe

\* A mailbox that is no longer read: its watcher is cancelled.
LEMMA StopWatchingSafe == ASSUME IInv, NEW b \in Mailboxes, StopWatching(b) PROVE IInv'
<1>1. UNCHANGED <<mail, rows, creating, starting, todo>> /\ stopping' \subseteq Mailboxes
  BY DEF StopWatching, IInv, RequestsOK
<1>2. RequestsOK'
  BY <1>1 DEF IInv, RequestsOK, mail, rows
<1>3. TasksOK'
  <2>1. watching' \subseteq Mailboxes
    BY DEF StopWatching, IInv, TasksOK
  <2> QED BY <1>1, <2>1, Untouched, TasksStay
<1>4. CASE b \in watching
  <2>1. Finish(b) /\ b \in Pollers
    BY <1>4 DEF StopWatching, Pollers
  <2> QED BY <1>1, <1>2, <1>3, <2>1, FinishSafe
<1>5. CASE b \notin watching
  <2>1. UNCHANGED <<lock, poll>>
    BY <1>5 DEF StopWatching
  <2>2. LocksOK' /\ Fresh'
    BY <1>1, <2>1 DEF IInv, LocksOK, Fresh, rows
  <2> QED BY <1>1, <1>2, <1>3, <2>1, <2>2, QuietStep
<1> QED BY <1>4, <1>5

\* Two polls never hold the same lock.
LEMMA Exclusive ==
  ASSUME LocksOK, NEW p \in Pollers, NEW q \in Pollers, poll[p].box \in Mailboxes,
         poll[p].at \in Holding, poll[q].at \in Holding, poll[q].box = poll[p].box
  PROVE  q = p
BY DEF LocksOK

\* A commit records what the poll answers for, and the watermark passes over
\* nothing else; whoever else had the same message in hand would have to
\* hold the same lock.
LEMMA CommitSafe == ASSUME IInv, NEW p \in Pollers, Commit(p) PROVE IInv'
<1>b. PICK b, batch, missed :
        b = poll[p].box /\ batch = poll[p].batch /\ missed = poll[p].missed
  OBVIOUS
<1>0. /\ poll[p].at = "ingested"
      /\ conn' = [conn EXCEPT ![b].imap_last_uid = Advanced(p)]
      /\ recorded' = [recorded EXCEPT ![b] = @ \cup batch]
      /\ skipped' = [skipped EXCEPT ![b] = @ \cup missed]
      /\ poll' = [poll EXCEPT ![p] = [at |-> "committed", box |-> b, batch |-> batch]]
      /\ UNCHANGED <<mail, told, requests, tasks, lock, restarts>>
  BY <1>b DEF Commit
<1>1. /\ poll[p] \in Ingested /\ Exists(b) /\ Since(poll[p].top) <= highest[b]
      /\ Accounted(b, Since(poll[p].top), Named(batch) \cup missed)
  BY <1>b, <1>0, Stages
<1>2. b \in Mailboxes /\ batch \subseteq Messages /\ missed \subseteq Uids
      /\ poll[p].top \in Nat \cup {None}
  BY <1>b, <1>1 DEF Exists, Ingested
<1>3. /\ conn \in [Mailboxes -> ConnType] /\ recorded \in [Mailboxes -> SUBSET Messages]
      /\ skipped \in [Mailboxes -> SUBSET Uids] /\ highest \in [Mailboxes -> Nat]
  BY DEF IInv, RowsOK, MailOK
<1>4. \A x \in Mailboxes :
        /\ conn'[x] = IF x = b THEN [conn[b] EXCEPT !.imap_last_uid = Advanced(p)] ELSE conn[x]
        /\ recorded'[x] = IF x = b THEN recorded[b] \cup batch ELSE recorded[x]
        /\ skipped'[x] = IF x = b THEN skipped[b] \cup missed ELSE skipped[x]
  BY <1>0, <1>2, <1>3
<1>5. \A x \in Mailboxes :
        /\ conn'[x].status = conn[x].status /\ conn'[x].baseline = conn[x].baseline
        /\ recorded[x] \subseteq recorded'[x] /\ skipped[x] \subseteq skipped'[x]
  BY <1>3, <1>4 DEF ConnType
<1>6. Grows
  BY <1>0, <1>3, <1>5 DEF Grows, Exists, mail, IInv, MailOK
<1>7. Advanced(p) \in Nat \cup {None}
  BY <1>b, <1>2, <1>3 DEF Advanced, ConnType
<1>8. MailOK'
  BY <1>0 DEF IInv, MailOK, mail
<1>9. conn'[b].imap_last_uid = Advanced(p)
  BY <1>2, <1>3, <1>4 DEF ConnType
<1>10. Watermark(b, Advanced(p)) \/ Advanced(p) = poll[p].top
  BY <1>b, <1>1 DEF Advanced, IInv, RowsOK, Exists
<1>11. PICK n : n = Advanced(p)
  OBVIOUS
<1>12. Watermark(b, n)'
  <2>1. CASE Watermark(b, n)
    BY <1>1, <1>2, <1>6, <2>1, WatermarkStays
  <2>2. CASE n = poll[p].top
    <3>1. n \in Nat \cup {None} /\ Since(n) \in Nat /\ Since(n) <= highest[b]
      BY <1>1, <1>2, <2>2 DEF Since
    <3>2. Accounted(b, Since(n), {})'
      <4> SUFFICES ASSUME NEW u \in inbox'[b], conn'[b].baseline < u, u <= Since(n)
                   PROVE  Settled(b, u)'
        BY DEF Accounted
      <4>1. u \in inbox[b] /\ conn[b].baseline < u
        BY <1>0, <1>2, <1>5 DEF mail
      <4>2. Settled(b, u) \/ u \in Named(batch) \/ u \in missed
        BY <1>1, <2>2, <4>1 DEF Accounted
      <4> QED BY <1>2, <1>4, <4>2 DEF Settled, Named
    <3> QED BY <1>0, <3>1, <3>2 DEF Watermark, mail
  <2> QED BY <1>10, <1>11, <2>1, <2>2
<1>13. RowsOK'
  <2>1. conn' \in [Mailboxes -> ConnType]
    BY <1>0, <1>3, <1>7 DEF ConnType
  <2>2. recorded' \in [Mailboxes -> SUBSET Messages] /\ skipped' \in [Mailboxes -> SUBSET Uids]
    BY <1>0, <1>2, <1>3
  <2>3. told' \in [Mailboxes -> SUBSET Messages] /\ ToldIsRecorded'
    BY <1>0, <1>5 DEF IInv, RowsOK, ToldIsRecorded
  <2>4. ASSUME NEW x \in Mailboxes
        PROVE  IF conn'[x].status = "absent" THEN conn'[x].imap_last_uid = None
               ELSE Watermark(x, conn[x].imap_last_uid)'
    <3>1. CASE x = b
      BY <1>1, <1>5, <1>9, <1>11, <1>12, <3>1 DEF Exists, Watermark
    <3>2. CASE x # b /\ conn[x].status = "absent"
      BY <1>4, <3>2 DEF IInv, RowsOK
    <3>3. CASE x # b /\ conn[x].status # "absent"
      <4>1. PICK uid : uid = conn[x].imap_last_uid
        OBVIOUS
      <4>2. Watermark(x, uid)'
        BY <1>6, <3>3, <4>1, WatermarkStays DEF IInv, RowsOK, Exists
      <4>3. uid = conn'[x].imap_last_uid /\ conn'[x].status # "absent"
        BY <1>4, <3>3, <4>1
      <4> QED BY <4>2, <4>3 DEF Watermark
    <3> QED BY <3>1, <3>2, <3>3
  <2> QED BY <2>1, <2>2, <2>3, <2>4 DEF RowsOK
<1>14. RequestsOK' /\ TasksOK'
  <2>1. RequestsOK'
    BY <1>0, <1>5, RequestsStay
  <2>2. TasksOK'
    BY <1>0, <1>6, TasksStay DEF tasks, IInv, TasksOK
  <2> QED BY <2>1, <2>2
<1>15. LocksOK'
  <2>1. PICK r : r = [at |-> "committed", box |-> b, batch |-> batch]
    OBVIOUS
  <2>2. r.at \in Holding /\ poll[p].at \in Holding /\ r.box = b
    BY <1>b, <1>0, <2>1 DEF Holding
  <2>3. poll' = [poll EXCEPT ![p] = r]
    BY <1>0, <2>1
  <2> QED BY <1>b, <1>0, <2>2, <2>3, MovesOn DEF IInv
<1>16. \A q \in Pollers :
         poll'[q] = IF q = p THEN [at |-> "committed", box |-> b, batch |-> batch] ELSE poll[q]
  BY <1>0 DEF IInv, LocksOK
<1>17. Fresh'
  <2> SUFFICES ASSUME NEW q \in Pollers, poll'[q].at = "ingested"
               PROVE  poll'[q].batch \cap recorded'[poll'[q].box] = {}
    BY DEF Fresh
  <2>1. q # p /\ poll'[q] = poll[q]
    BY <1>16
  <2>2. poll[q].at = "ingested" /\ poll[q].batch \cap recorded[poll[q].box] = {}
    BY <2>1 DEF IInv, Fresh
  <2>3. poll[q].box # b
    BY <1>b, <1>0, <1>2, <2>1, <2>2, Exclusive DEF IInv, Holding
  <2>4. poll[q].box \in Mailboxes
    BY <2>2, Stages DEF Exists
  <2> QED BY <1>4, <2>1, <2>2, <2>3, <2>4
<1>18. PollsOK'
  <2> SUFFICES ASSUME NEW q \in Pollers PROVE Answers(poll[q])'
    BY DEF PollsOK
  <2>1. CASE q # p
    BY <1>6, <1>16, <2>1, PollStays
  <2>2. CASE q = p
    <3>1. poll'[p] \in Committed /\ poll'[p].box = b /\ poll'[p].batch = batch
      BY <1>2, <1>16 DEF Committed
    <3>2. Exists(b)' /\ batch \subseteq recorded'[b]
      BY <1>1, <1>2, <1>4, <1>6 DEF Grows
    <3>3. Exists(poll[p].box)'
      BY <1>1, <1>5, <3>1 DEF Exists
    <3> QED BY <2>2, <3>1, <3>2, <3>3 DEF Answers
  <2> QED BY <2>1, <2>2
<1> QED BY <1>8, <1>13, <1>14, <1>15, <1>17, <1>18 DEF IInv

\* The displays are told of what is committed.
LEMMA BroadcastSafe == ASSUME IInv, NEW p \in Pollers, Broadcast(p) PROVE IInv'
<1>b. PICK b, batch : b = poll[p].box /\ batch = poll[p].batch
  OBVIOUS
<1>0. /\ poll[p].at = "committed"
      /\ told' = [told EXCEPT ![b] = @ \cup batch]
      /\ poll' = [poll EXCEPT ![p].at = "told"]
      /\ UNCHANGED <<mail, conn, recorded, skipped, requests, tasks, lock, restarts>>
  BY <1>b DEF Broadcast
<1>1. poll[p] \in Committed /\ b \in Mailboxes /\ batch \subseteq recorded[b]
  BY <1>b, <1>0, Stages DEF Exists
<1>2. PICK r : r = [at |-> "told", box |-> b, batch |-> batch]
  OBVIOUS
<1>3. r \in Committed /\ r.at = "told" /\ r.box = b /\ r.batch = batch
  BY <1>b, <1>1, <1>2 DEF Committed
<1>4. poll' = [poll EXCEPT ![p] = r]
  <2>1. [poll[p] EXCEPT !.at = "told"] = r
    BY <1>b, <1>1, <1>2 DEF Committed
  <2> QED BY <1>0, <2>1
<1>5. \A q \in Pollers : poll'[q] = IF q = p THEN r ELSE poll[q]
  BY <1>4 DEF IInv, LocksOK
<1>6. Grows /\ MailOK'
  <2>1. Grows
    BY <1>0 DEF Grows, mail, IInv, MailOK, Exists
  <2>2. MailOK'
    BY <1>0 DEF IInv, MailOK, mail
  <2> QED BY <2>1, <2>2
<1>7. RowsOK'
  <2>1. batch \subseteq Messages
    BY <1>b, <1>1 DEF Committed
  <2>2. told' \in [Mailboxes -> SUBSET Messages] /\ ToldIsRecorded'
    BY <1>0, <1>1, <2>1 DEF IInv, RowsOK, ToldIsRecorded
  <2> QED BY <1>0, <2>2 DEF IInv, RowsOK, mail, Watermark, Accounted, Settled
<1>8. RequestsOK' /\ TasksOK'
  <2>1. RequestsOK'
    BY <1>0, RequestsStay
  <2>2. TasksOK'
    BY <1>0, <1>6, TasksStay DEF tasks, IInv, TasksOK
  <2> QED BY <2>1, <2>2
<1>9. LocksOK'
  BY <1>b, <1>0, <1>3, <1>4, MovesOn DEF IInv, Holding
<1>10. Fresh'
  <2>1. ASSUME NEW q \in Pollers, poll'[q].at = "ingested" PROVE poll'[q] = poll[q]
    BY <1>3, <1>5, <2>1
  <2> QED BY <1>0, <2>1, FreshStays
<1>11. PollsOK'
  <2> SUFFICES ASSUME NEW q \in Pollers PROVE Answers(poll[q])'
    BY DEF PollsOK
  <2>1. CASE q # p
    BY <1>5, <1>6, <2>1, PollStays
  <2>2. CASE q = p
    <3>1. Answers(r)
      BY <1>b, <1>0, <1>1, <1>3, Stages DEF Answers
    <3>2. Answers(r)' /\ r = poll'[p]
      BY <1>5, <1>6, <3>1, AnswersStay
    <3> QED BY <2>2, <3>2 DEF Answers, Exists, Watermark, Accounted, Settled
  <2> QED BY <2>1, <2>2
<1> QED BY <1>6, <1>7, <1>8, <1>9, <1>10, <1>11 DEF IInv

\* A poll begins with a watermark that its caller has read.
LEMMA PollsSafe ==
  ASSUME IInv, NEW p \in Pollers, NEW b, NEW uid, Exists(b), Watermark(b, uid),
         Polls(p, b, uid), UNCHANGED <<mail, rows, requests, lock>>, TasksOK'
  PROVE  IInv'
<1>1. PICK r : r = [at |-> "waiting", box |-> b, loaded |-> uid]
  OBVIOUS
<1>2. r \in Waiting /\ r.at = "waiting" /\ r.box = b /\ r.loaded = uid
  BY <1>1 DEF Waiting, Exists, Watermark
<1>3. poll[p] = Idle /\ poll[p].at = "idle"
  BY DEF Polls, Idle
<1>4. poll' = [poll EXCEPT ![p] = r]
  BY <1>1 DEF Polls
<1>5. \A q \in Pollers : poll'[q] = IF q = p THEN r ELSE poll[q]
  BY <1>4 DEF IInv, LocksOK
<1>6. Answers(poll[p])'
  <2>1. Answers(r)
    BY <1>2 DEF Answers
  <2>2. Answers(r)' /\ r = poll'[p]
    BY <1>5, <2>1, Untouched, AnswersStay
  <2> QED BY <2>2 DEF Answers, Exists, Watermark, Accounted, Settled
<1>7. LocksOK'
  <2>1. poll' = [q \in Pollers |-> poll'[q]]
    BY <1>4 DEF IInv, LocksOK
  <2>2. r.at \notin Holding /\ poll[p].at \notin Holding
    BY <1>2, <1>3 DEF Holding
  <2> QED BY <1>5, <2>1, <2>2 DEF IInv, LocksOK
<1>8. RequestsOK'
  BY RequestsStay DEF rows
<1>9. Fresh'
  <2>1. ASSUME NEW q \in Pollers, poll'[q].at = "ingested" PROVE poll'[q] = poll[q]
    BY <1>2, <1>5, <2>1
  <2> QED BY <2>1, FreshStays DEF rows
<1>10. \A q \in Pollers : poll'[q] = poll[q] \/ Answers(poll[q])'
  BY <1>5, <1>6
<1> QED BY <1>7, <1>8, <1>9, <1>10, QuietStep

\* A watcher, and a request, read the watermark in the row.
LEMMA RowPollSafe ==
  ASSUME IInv, NEW p \in Pollers, NEW b \in Mailboxes, Connected(b),
         Polls(p, b, conn[b].imap_last_uid), UNCHANGED <<mail, rows, requests, tasks, lock>>
  PROVE  IInv'
<1>1. PICK uid : uid = conn[b].imap_last_uid
  OBVIOUS
<1>2. Exists(b) /\ Watermark(b, uid)
  BY <1>1 DEF Exists, Connected, IInv, RowsOK
<1>3. TasksOK'
  BY Untouched, TasksStay DEF tasks, IInv, TasksOK
<1> QED BY <1>1, <1>2, <1>3, PollsSafe

\* The sweep goes by what it read when it began.
LEMMA SweepNextSafe == ASSUME IInv, NEW b \in Mailboxes, SweepNext(b) PROVE IInv'
<1>1. PICK uid : uid = todo[b]
  OBVIOUS
<1>2. Exists(b) /\ Watermark(b, uid) /\ Polls(Sweep, b, uid) /\ Sweep \in Pollers
  BY <1>1 DEF SweepNext, IInv, TasksOK, Pollers
<1>3. TasksOK'
  BY Untouched, TasksStay DEF SweepNext, IInv, TasksOK
<1> QED BY <1>2, <1>3, PollsSafe DEF SweepNext

\* Steps that leave the polls alone.
LEMMA NoPollSafe ==
  ASSUME IInv, Grows, UNCHANGED <<lock, poll, recorded>>, MailOK', RowsOK', RequestsOK', TasksOK'
  PROVE  IInv'
<1>1. LocksOK' /\ Fresh'
  BY DEF IInv, LocksOK, Fresh
<1>2. PollsOK'
  BY PollStays DEF PollsOK
<1> QED BY <1>1, <1>2 DEF IInv

\* The sweep begins with the watermarks of all connected mailboxes.
LEMMA SweepBeginsSafe == ASSUME IInv, SweepBegins PROVE IInv'
<1>1. Grows /\ MailOK' /\ RowsOK'
  BY Untouched DEF SweepBegins
<1>2. RequestsOK'
  BY RequestsStay DEF SweepBegins, rows
<1>3. TasksOK'
  <2> SUFFICES ASSUME NEW b \in DOMAIN todo' PROVE Exists(b)' /\ Watermark(b, todo[b])'
    BY DEF TasksOK, SweepBegins, IInv
  <2>1. PICK uid : uid = conn[b].imap_last_uid
    OBVIOUS
  <2>2. b \in Mailboxes /\ Connected(b) /\ todo'[b] = uid
    BY <2>1 DEF SweepBegins
  <2>3. Exists(b) /\ Watermark(b, uid)
    BY <2>1, <2>2 DEF Exists, Connected, IInv, RowsOK
  <2>4. Exists(b)' /\ Watermark(b, uid)'
    BY <1>1, <2>2, <2>3, WatermarkStays
  <2> QED BY <2>2, <2>4 DEF Watermark
<1> QED BY <1>1, <1>2, <1>3, NoPollSafe DEF SweepBegins, rows

------------------------------------------------------------------------------

\* New mail gets a UID above every watermark; mail that is gone needs none.
LEMMA MailSafe ==
  ASSUME IInv, NEW b \in Mailboxes,
         Arrive(b) \/ \E uid \in Uids : Remove(b, uid)
  PROVE  IInv'
<1>1. /\ UNCHANGED <<rows, requests, tasks, lock, poll>>
      /\ \A x \in Mailboxes : highest'[x] \in Nat /\ highest'[x] >= highest[x]
      /\ \A x \in Mailboxes : \A u \in inbox'[x] :
           u \in Uids /\ u <= highest'[x] /\ (u \in inbox[x] \/ u > highest[x])
      /\ highest' \in [Mailboxes -> Nat] /\ inbox' \in [Mailboxes -> SUBSET Uids]
  <2>0. highest \in [Mailboxes -> Nat] /\ inbox \in [Mailboxes -> SUBSET Uids]
        /\ \A x \in Mailboxes : \A u \in inbox[x] : u <= highest[x]
    BY DEF IInv, MailOK
  <2>1. CASE Arrive(b)
    <3>1. /\ highest[b] < MaxUid /\ UNCHANGED <<rows, requests, tasks, lock, poll>>
          /\ highest' = [highest EXCEPT ![b] = @ + 1]
          /\ inbox' = [inbox EXCEPT ![b] = @ \cup {highest[b] + 1}]
      BY <2>1 DEF Arrive
    <3>2. highest[b] \in Nat /\ highest[b] + 1 \in Uids
      BY <2>0, <3>1, PollingAssumption DEF Uids
    <3>3. \A x \in Mailboxes :
            /\ highest'[x] = IF x = b THEN highest[b] + 1 ELSE highest[x]
            /\ inbox'[x] = IF x = b THEN inbox[b] \cup {highest[b] + 1} ELSE inbox[x]
      BY <2>0, <3>1
    <3>4. \A x \in Mailboxes : highest'[x] \in Nat /\ highest'[x] >= highest[x]
      BY <2>0, <3>2, <3>3
    <3>5. ASSUME NEW x \in Mailboxes, NEW u \in inbox'[x]
          PROVE  u \in Uids /\ u <= highest'[x] /\ (u \in inbox[x] \/ u > highest[x])
      BY <2>0, <3>2, <3>3 DEF Uids
    <3>6. highest' \in [Mailboxes -> Nat] /\ inbox' \in [Mailboxes -> SUBSET Uids]
      BY <2>0, <3>1, <3>2
    <3> QED BY <3>1, <3>4, <3>5, <3>6
  <2>2. CASE \E uid \in Uids : Remove(b, uid)
    <3>1. PICK uid \in Uids : Remove(b, uid)
      BY <2>2
    <3>2. /\ UNCHANGED <<highest, rows, requests, tasks, lock, poll>>
          /\ inbox' = [inbox EXCEPT ![b] = @ \ {uid}]
      BY <3>1 DEF Remove
    <3> QED BY <2>0, <3>2
  <2> QED BY <2>1, <2>2
<1>2. Grows
  BY <1>1 DEF Grows, rows, Exists
<1>3. MailOK'
  BY <1>1 DEF MailOK
<1>4. RowsOK'
  <2>1. ASSUME NEW x \in Mailboxes
        PROVE  IF conn'[x].status = "absent" THEN conn'[x].imap_last_uid = None
               ELSE Watermark(x, conn[x].imap_last_uid)'
    <3>1. PICK uid : uid = conn[x].imap_last_uid
      OBVIOUS
    <3>2. ASSUME conn[x].status # "absent" PROVE Watermark(x, uid)'
      BY <1>2, <3>1, <3>2, WatermarkStays DEF IInv, RowsOK, Exists
    <3>3. conn' = conn
      BY <1>1 DEF rows
    <3> QED BY <3>1, <3>2, <3>3 DEF IInv, RowsOK, Watermark
  <2> QED BY <1>1, <2>1 DEF IInv, RowsOK, rows, ToldIsRecorded
<1>5. RequestsOK'
  <2> SUFFICES ASSUME NEW x \in Mailboxes, creating'[x] # None
               PROVE  conn'[x].status = "absent" /\ creating'[x] <= highest'[x]
    BY <1>1 DEF IInv, RequestsOK, requests
  <2>1. /\ creating[x] \in Nat /\ creating[x] <= highest[x] /\ conn[x].status = "absent"
        /\ creating'[x] = creating[x] /\ conn' = conn
    BY <1>1 DEF IInv, RequestsOK, requests, rows
  <2>2. highest[x] \in Nat /\ highest'[x] \in Nat /\ highest'[x] >= highest[x]
    BY <1>1 DEF IInv, MailOK
  <2> QED BY <2>1, <2>2
<1>6. TasksOK'
  BY <1>1, <1>2, TasksStay DEF tasks, IInv, TasksOK
<1> QED BY <1>1, <1>2, <1>3, <1>4, <1>5, <1>6, NoPollSafe DEF rows

\* The baseline is read before the row exists.
LEMMA ConnectSafe == ASSUME IInv, NEW b \in Mailboxes, Connect(b) PROVE IInv'
<1>1. Grows /\ MailOK' /\ RowsOK'
  BY Untouched DEF Connect
<1>2. RequestsOK'
  BY DEF Connect, IInv, RequestsOK, MailOK, mail, rows
<1>3. TasksOK'
  BY <1>1, TasksStay DEF Connect, tasks, IInv, TasksOK
<1> QED BY <1>1, <1>2, <1>3, NoPollSafe DEF Connect, rows

\* A connection starts at its baseline: there is nothing to account for yet.
LEMMA CreateSafe == ASSUME IInv, NEW b \in Mailboxes, Create(b) PROVE IInv'
<1>0. /\ creating[b] \in Nat /\ creating[b] <= highest[b] /\ conn[b].status = "absent"
      /\ conn \in [Mailboxes -> ConnType] /\ creating \in [Mailboxes -> Nat \cup {None}]
      /\ UNCHANGED <<mail, recorded, skipped, told, stopping, tasks, lock, poll, restarts>>
  BY DEF Create, IInv, RequestsOK, RowsOK
<1>1. PICK n : n = creating[b]
  OBVIOUS
<1>2. /\ conn' = [conn EXCEPT ![b] = Row("connected", n, n)]
      /\ creating' = [creating EXCEPT ![b] = None] /\ starting' = starting \cup {b}
  BY <1>1 DEF Create
<1>3. \A x \in Mailboxes : conn'[x] = IF x = b THEN Row("connected", n, n) ELSE conn[x]
  BY <1>0, <1>2
<1>4. Row("connected", n, n) \in ConnType
  BY <1>0, <1>1 DEF Row, ConnType
<1>5. Grows
  BY <1>0, <1>3 DEF Grows, mail, IInv, MailOK, Exists
<1>6. MailOK'
  BY <1>0 DEF IInv, MailOK, mail
<1>7. RowsOK'
  <2>1. conn' \in [Mailboxes -> ConnType]
    BY <1>0, <1>2, <1>4
  <2>2. /\ recorded' \in [Mailboxes -> SUBSET Messages] /\ skipped' \in [Mailboxes -> SUBSET Uids]
        /\ told' \in [Mailboxes -> SUBSET Messages] /\ ToldIsRecorded'
    BY <1>0 DEF IInv, RowsOK, ToldIsRecorded
  <2>3. ASSUME NEW x \in Mailboxes
        PROVE  IF conn'[x].status = "absent" THEN conn'[x].imap_last_uid = None
               ELSE Watermark(x, conn[x].imap_last_uid)'
    <3>1. CASE x # b
      <4>1. PICK uid : uid = conn[x].imap_last_uid
        OBVIOUS
      <4>2. ASSUME conn[x].status # "absent" PROVE Watermark(x, uid)'
        BY <1>5, <4>1, <4>2, WatermarkStays DEF IInv, RowsOK, Exists
      <4>3. conn'[x] = conn[x]
        BY <1>3, <3>1
      <4> QED BY <4>1, <4>2, <4>3 DEF IInv, RowsOK, Watermark
    <3>2. CASE x = b
      <4>1. conn'[b].status = "connected" /\ conn'[b].imap_last_uid = n /\ conn'[b].baseline = n
        BY <1>3 DEF Row
      <4>2. n \in Nat /\ Since(n) = n
        BY <1>0, <1>1, PollingAssumption DEF Since
      <4>3. Accounted(b, n, {})'
        <5> SUFFICES ASSUME NEW u \in inbox'[b], conn'[b].baseline < u, u <= n PROVE FALSE
          BY DEF Accounted
        <5>1. u \in Nat
          BY <1>0 DEF IInv, MailOK, mail, Uids
        <5> QED BY <4>1, <4>2, <5>1
      <4>4. Watermark(b, n)'
        BY <1>0, <1>1, <4>2, <4>3 DEF Watermark, mail, Since
      <4> QED BY <3>2, <4>1, <4>4 DEF Watermark
    <3> QED BY <3>1, <3>2
  <2> QED BY <2>1, <2>2, <2>3 DEF RowsOK
<1>8. RequestsOK'
  BY <1>0, <1>2, <1>3 DEF IInv, RequestsOK, mail
<1>9. TasksOK'
  BY <1>0, <1>5, TasksStay DEF tasks, IInv, TasksOK
<1> QED BY <1>0, <1>5, <1>6, <1>7, <1>8, <1>9, NoPollSafe

\* A connection that changes its status keeps its watermark.
LEMMA StatusSafe ==
  ASSUME IInv, NEW b \in Mailboxes, Revoke(b) \/ Delete(b)
  PROVE  IInv'
<1>0. PICK s \in {"revoked", "deleted"} : conn' = [conn EXCEPT ![b].status = s]
  BY DEF Revoke, Delete
<1>1. /\ conn[b].status # "absent" /\ conn \in [Mailboxes -> ConnType]
      /\ UNCHANGED <<mail, recorded, skipped, told, creating, starting, tasks, lock, poll, restarts>>
      /\ stopping' \subseteq Mailboxes
  BY DEF Revoke, Delete, Connected, IInv, RowsOK, RequestsOK
<1>2. \A x \in Mailboxes :
        /\ conn'[x].imap_last_uid = conn[x].imap_last_uid
        /\ conn'[x].baseline = conn[x].baseline
        /\ conn'[x].status = "absent" <=> conn[x].status = "absent"
  BY <1>0, <1>1 DEF ConnType
<1>3. Grows
  BY <1>1, <1>2 DEF Grows, mail, IInv, MailOK, Exists
<1>4. MailOK'
  BY <1>1 DEF IInv, MailOK, mail
<1>5. RowsOK'
  <2>1. conn' \in [Mailboxes -> ConnType]
    BY <1>0, <1>1 DEF ConnType
  <2>2. /\ recorded' \in [Mailboxes -> SUBSET Messages] /\ skipped' \in [Mailboxes -> SUBSET Uids]
        /\ told' \in [Mailboxes -> SUBSET Messages] /\ ToldIsRecorded'
    BY <1>1 DEF IInv, RowsOK, ToldIsRecorded
  <2>3. ASSUME NEW x \in Mailboxes
        PROVE  IF conn'[x].status = "absent" THEN conn'[x].imap_last_uid = None
               ELSE Watermark(x, conn[x].imap_last_uid)'
    <3>1. PICK uid : uid = conn[x].imap_last_uid
      OBVIOUS
    <3>2. ASSUME conn[x].status # "absent" PROVE Watermark(x, uid)'
      BY <1>3, <3>1, <3>2, WatermarkStays DEF IInv, RowsOK, Exists
    <3>3. uid = conn'[x].imap_last_uid
      BY <1>2, <3>1
    <3> QED BY <1>2, <3>1, <3>2, <3>3 DEF IInv, RowsOK, Watermark
  <2> QED BY <2>1, <2>2, <2>3 DEF RowsOK
<1>6. RequestsOK'
  BY <1>1, <1>2 DEF IInv, RequestsOK, mail
<1>7. TasksOK'
  BY <1>1, <1>3, TasksStay DEF tasks, IInv, TasksOK
<1> QED BY <1>1, <1>3, <1>4, <1>5, <1>6, <1>7, NoPollSafe

\* Watchers come and go without touching a poll.
LEMMA WatcherSafe ==
  ASSUME IInv, NEW b \in Mailboxes, StartWatching(b) \/ WatchEnds(b)
  PROVE  IInv'
<1>1. /\ UNCHANGED <<mail, rows, creating, stopping, todo, lock, poll>>
      /\ watching' \subseteq Mailboxes /\ starting' \subseteq Mailboxes
  BY DEF StartWatching, WatchEnds, requests, IInv, TasksOK, RequestsOK
<1>2. RequestsOK'
  BY <1>1 DEF IInv, RequestsOK, mail, rows
<1>3. TasksOK'
  BY <1>1, Untouched, TasksStay
<1> QED BY <1>1, <1>2, <1>3, Untouched, NoPollSafe DEF rows

\* After a restart there is only what was committed.
LEMMA RestartSafe == ASSUME IInv, Restart PROVE IInv'
<1>1. Grows /\ MailOK' /\ RowsOK'
  BY Untouched DEF Restart
<1>2. RequestsOK'
  BY DEF Restart, RequestsOK
<1>3. TasksOK'
  BY <1>1, TasksStay DEF Restart, Nothing
<1>4. \A p \in Pollers : poll'[p] = Idle
  BY DEF Restart
<1>5. LocksOK'
  BY <1>4, PollingAssumption DEF Restart, LocksOK, Idle, Holding
<1>6. Fresh' /\ PollsOK'
  BY <1>4 DEF Fresh, PollsOK, Answers, Idle
<1> QED BY <1>1, <1>2, <1>3, <1>5, <1>6 DEF IInv

------------------------------------------------------------------------------

\* Every step of the system keeps the invariant.
LEMMA StepSafe == IInv /\ [Next]_vars => IInv'
<1> SUFFICES ASSUME IInv, [Next]_vars PROVE IInv'
  OBVIOUS
<1>1. CASE Inboxes
  BY <1>1, MailSafe DEF Inboxes
<1>2. CASE Polling
  BY <1>2, AcquireSafe, FetchSafe, IngestSafe, EndSafe, CommitSafe, BroadcastSafe
     DEF Polling, Work
<1>3. CASE Callers
  <2>1. ASSUME NEW b \in Mailboxes, WatchIteration(b) PROVE IInv'
    BY <2>1, RowPollSafe DEF WatchIteration, Pollers
  <2>2. ASSUME NEW p \in Checks, NEW b \in Mailboxes, CheckNow(p, b) PROVE IInv'
    BY <2>2, RowPollSafe DEF CheckNow, Pollers
  <2> QED BY <1>3, <2>1, <2>2, WatcherSafe, SweepNextSafe, SweepBeginsSafe DEF Callers
<1>4. CASE Connections
  BY <1>4, ConnectSafe, CreateSafe, WatcherSafe, StatusSafe, StopWatchingSafe DEF Connections
<1>5. CASE Restart
  BY <1>5, RestartSafe
<1>6. CASE UNCHANGED vars
  <2>1. UNCHANGED <<mail, rows, requests, tasks, lock, poll>>
    BY <1>6 DEF vars
  <2>2. RequestsOK' /\ TasksOK'
    BY <2>1, RequestsStay, Untouched, TasksStay DEF rows, tasks, IInv, TasksOK
  <2> QED BY <2>1, <2>2, Untouched, NoPollSafe DEF rows
<1> QED BY <1>1, <1>2, <1>3, <1>4, <1>5, <1>6 DEF Next

\* Polls of any number of callers, cancelled and restarted at any await, keep
\* to what each of them answers for.
THEOREM PollingInvariance == Spec => []IInv
<1>1. Init => IInv
  BY InitIInv
<1>2. IInv /\ [Next]_vars => IInv'
  BY StepSafe
<1> QED BY <1>1, <1>2, PTL DEF Spec

\* A lock is held exactly by the poll that is past it, on every path out of
\* poll_imap_connection, and rows and tasks have their types.
THEOREM PollingTyped == Spec => []TypeOK
<1>1. IInv => TypeOK
  <2> SUFFICES ASSUME IInv PROVE TypeOK
    OBVIOUS
  <2>1. ASSUME NEW b \in Mailboxes PROVE inbox[b] \subseteq 1..highest[b]
    BY DEF IInv, MailOK, Uids
  <2>2. ASSUME NEW b \in Mailboxes
        PROVE  /\ conn[b].status \in {"absent", "connected", "revoked", "deleted"}
               /\ conn[b].imap_last_uid \in (0..highest[b]) \cup {None}
    <3>1. conn[b] \in ConnType /\ highest[b] \in Nat
      BY DEF IInv, RowsOK, MailOK
    <3>2. conn[b].imap_last_uid = None \/ Watermark(b, conn[b].imap_last_uid)
      BY DEF IInv, RowsOK
    <3> QED BY <3>1, <3>2 DEF ConnType, Watermark, Since
  <2>3. ASSUME NEW b \in Mailboxes, NEW p \in Pollers
        PROVE  lock[b] = p <=> (poll[p].at \in Holding /\ poll[p].box = b)
    BY DEF IInv, LocksOK
  <2> QED BY <2>1, <2>2, <2>3 DEF TypeOK, IInv, TasksOK, RequestsOK
<1> QED BY <1>1, PollingInvariance, PTL

\* No message of a connected mailbox is passed over by the watermark
\* (_fetch_new_sync's docstring), whatever polls overlap, fail or die.
THEOREM NothingPassedOver == Spec => []WatermarkCovers
<1>1. IInv => WatermarkCovers
  <2> SUFFICES ASSUME IInv, NEW b \in Mailboxes, NEW u \in inbox[b],
                      conn[b].imap_last_uid # None, conn[b].baseline < u,
                      u <= conn[b].imap_last_uid
               PROVE  Settled(b, u)
    BY DEF WatermarkCovers
  <2>1. Watermark(b, conn[b].imap_last_uid)
    BY DEF IInv, RowsOK
  <2> QED BY <2>1 DEF Watermark, Accounted, Since
<1> QED BY <1>1, PollingInvariance, PTL

\* No poll is about to insert a message that is recorded, or that another
\* poll is about to insert (the lock of _lock_for).
THEOREM NoRaceLost == Spec => []NoLostRace
<1>1. IInv => NoLostRace
  <2> SUFFICES ASSUME IInv, NEW p \in Pollers, poll[p].at = "ingested"
               PROVE  /\ poll[p].batch \cap recorded[poll[p].box] = {}
                      /\ \A q \in Pollers :
                           (poll[q].at = "ingested" /\ poll[q].box = poll[p].box) => q = p
    BY DEF NoLostRace
  <2>1. poll[p].box \in Mailboxes
    BY Stages DEF Exists
  <2>2. poll[p].batch \cap recorded[poll[p].box] = {}
    BY DEF IInv, Fresh
  <2> QED BY <2>1, <2>2, Exclusive DEF IInv, Holding
<1> QED BY <1>1, PollingInvariance, PTL

\* What a display has been told of is committed (poll_imap_connection
\* broadcasts after db.commit()).
THEOREM ToldAfterCommit == Spec => []ToldIsRecorded
<1>1. IInv => ToldIsRecorded
  BY DEF IInv, RowsOK
<1> QED BY <1>1, PollingInvariance, PTL
=============================================================================
