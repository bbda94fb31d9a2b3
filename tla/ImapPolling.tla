----------------------------- MODULE ImapPolling -----------------------------
(***************************************************************************)
(* Mailboxes that are read over IMAP: app/domain/imap_polling.py, its      *)
(* three callers (the watcher of a mailbox, app/domain/imap_idle.py; the   *)
(* sweep of all of them, app/main.py; the button "check now") and the life *)
(* of a connection, app/api/v1/connections.py.                             *)
(*                                                                         *)
(* A poll loads the connection's row, waits for the mailbox's lock,        *)
(* fetches what is above the watermark it loaded, ingests it, commits the  *)
(* events and the new watermark together, and tells the displays.  Tasks   *)
(* of one event loop interleave at each of these awaits, a watcher can be  *)
(* cancelled at any of them, and the process can die.  What an event says  *)
(* is ContributionLedger's; here it is the Message-ID that was recorded.   *)
(***************************************************************************)
EXTENDS Naturals, FiniteSets

CONSTANTS
  Mailboxes,        \* connections, each by its own row
  Sweep,            \* the fallback poll loop
  Checks,           \* "check now" requests in flight at once
  MessageId,        \* the Message-ID header of the message with each UID
  Refused,          \* the UIDs of messages that the database will not store
  None,             \* a NULL column, a free lock
  MaxUid,           \* bound of the model on a mailbox
  MaxRestarts       \* bound of the model on restarts of the process

Uids == 1..MaxUid

\* A watcher is named after its mailbox.
Pollers == Mailboxes \cup {Sweep} \cup Checks

ASSUME PollingAssumption ==
  /\ MaxUid \in Nat /\ MaxRestarts \in Nat
  /\ Refused \subseteq Uids
  /\ None \notin Nat \cup Pollers
  /\ Sweep \notin Mailboxes \cup Checks /\ Mailboxes \cap Checks = {}

VARIABLES
  inbox,        \* the UIDs of the messages in each mailbox
  highest,      \* the last UID that each mailbox gave out
  conn,         \* the mailbox_connections rows
  recorded,     \* the Message-IDs with an event, of each mailbox
  skipped,      \* the UIDs passed over as unreadable, of each mailbox
  told,         \* the Message-IDs whose batch was announced
  creating,     \* the baseline a request to connect has read, if one has
  starting,     \* mailboxes connected, whose watcher is about to start
  stopping,     \* mailboxes revoked or deleted, whose watcher is to stop
  watching,     \* the watcher tasks, by mailbox
  todo,         \* the mailboxes the sweep has loaded and not yet polled
  lock,         \* the holder of each mailbox's lock
  poll,         \* the poll each task is in
  restarts      \* how often the process has been restarted

mail == <<inbox, highest>>
rows == <<conn, recorded, skipped, told>>
requests == <<creating, starting, stopping>>
tasks == <<watching, todo>>
vars == <<mail, rows, requests, tasks, lock, poll, restarts>>

Idle == [at |-> "idle"]
Nothing == [b \in {} |-> None]

\* Where a poll starts: "search ALL" when there is no watermark yet.
Since(uid) == IF uid = None THEN 0 ELSE uid

Row(status, uid, baseline) == [status |-> status, imap_last_uid |-> uid, baseline |-> baseline]

Connected(b) == conn[b].status = "connected"

------------------------------------------------------------------------------
(***************************************************************************)
(* The mail server, and the people who read the same inbox.                *)
(***************************************************************************)

Arrive(b) ==
  /\ highest[b] < MaxUid
  /\ highest' = [highest EXCEPT ![b] = @ + 1]
  /\ inbox' = [inbox EXCEPT ![b] = @ \cup {highest[b] + 1}]
  /\ UNCHANGED <<rows, requests, tasks, lock, poll, restarts>>

\* A message is deleted, or moved to another folder.
Remove(b, uid) ==
  /\ uid \in inbox[b]
  /\ inbox' = [inbox EXCEPT ![b] = @ \ {uid}]
  /\ UNCHANGED <<highest, rows, requests, tasks, lock, poll, restarts>>

------------------------------------------------------------------------------
(***************************************************************************)
(* One poll: poll_imap_connection.                                         *)
(***************************************************************************)

\* The caller has loaded the row; the poll goes by the watermark it saw.
Polls(p, b, uid) ==
  /\ poll[p] = Idle
  /\ poll' = [poll EXCEPT ![p] = [at |-> "waiting", box |-> b, loaded |-> uid]]

\* Mutant: the lock is not waited for.
AcquireBusy(p) ==
  /\ poll[p].at = "waiting"
  /\ poll' = [poll EXCEPT ![p].at = "locked"]
  /\ lock' = [lock EXCEPT ![poll[p].box] = p]
  /\ UNCHANGED <<mail, rows, requests, tasks, restarts>>

Acquire(p) ==
  /\ poll[p].at = "waiting"
  /\ lock[poll[p].box] = None
  /\ poll' = [poll EXCEPT ![p].at = "locked"]
  /\ lock' = [lock EXCEPT ![poll[p].box] = p]
  /\ UNCHANGED <<mail, rows, requests, tasks, restarts>>

\* The greatest number of a set of UIDs, as the set of it.
Greatest(S) == {u \in S : \A v \in S : v <= u}

\* What the server offers above the watermark that was loaded.
New(p) == {u \in inbox[poll[p].box] : u > Since(poll[p].loaded)}

\* Each message is fetched on its own; one that cannot be fetched or parsed
\* is passed over.  With nothing new there is no new watermark.
Fetch(p) ==
  /\ poll[p].at = "locked"
  /\ \E missed \in SUBSET New(p), top \in Greatest(New(p)) \cup {None} :
       /\ top = None <=> New(p) = {}
       /\ poll' = [poll EXCEPT ![p] =
            [at |-> "fetched", box |-> poll[p].box, found |-> New(p) \ missed,
             missed |-> missed, top |-> top]]
  /\ UNCHANGED <<mail, rows, requests, tasks, lock, restarts>>

Unlocked(p) ==
  [b \in Mailboxes |-> IF lock[b] = p THEN None ELSE lock[b]]

Finish(p) ==
  /\ poll' = [poll EXCEPT ![p] = Idle]
  /\ lock' = Unlocked(p)

\* Mutant: the poll returns without leaving the lock.
FetchErrorLocked(p) ==
  /\ poll[p].at = "locked"
  /\ poll' = [poll EXCEPT ![p] = Idle]
  /\ UNCHANGED <<mail, rows, requests, tasks, lock, restarts>>

\* An exception rolls the whole batch back.  A watcher and a request give up
\* the poll; the sweep also gives up the mailboxes it has not reached, since
\* its database session is unusable until it is closed.
Fails(p) ==
  /\ Finish(p)
  /\ todo' = IF p = Sweep THEN Nothing ELSE todo
  /\ UNCHANGED <<mail, rows, requests, watching, restarts>>

\* The server cannot be reached or refuses the login: only webhook_health is
\* written, and the next poll tries again.  There may be no row to write to.
FetchError(p) ==
  /\ poll[p].at = "locked"
  /\ \/ /\ conn[poll[p].box].status = "deleted"
        /\ Fails(p)
     \/ /\ conn[poll[p].box].status # "deleted"
        /\ Finish(p)
        /\ UNCHANGED <<mail, rows, requests, tasks, restarts>>

\* What is new in the ledger among the messages a poll has found.
Batch(p) == {MessageId[u] : u \in poll[p].found} \ recorded[poll[p].box]

\* A new event is refused: the connection's row is gone, or the message does
\* not fit the table.
Unstorable(p) ==
  /\ Batch(p) # {}
  /\ \/ conn[poll[p].box].status = "deleted"
     \/ \E u \in poll[p].found \cap Refused : MessageId[u] \in Batch(p)

Ingest(p) ==
  /\ poll[p].at = "fetched"
  /\ ~Unstorable(p)
  /\ poll' = [poll EXCEPT ![p] =
       [at |-> "ingested", box |-> poll[p].box, batch |-> Batch(p),
        missed |-> poll[p].missed, top |-> poll[p].top]]
  /\ UNCHANGED <<mail, rows, requests, tasks, lock, restarts>>

IngestFails(p) ==
  /\ poll[p].at = "fetched"
  /\ Unstorable(p)
  /\ Fails(p)

\* The row is gone, or another poll recorded one of the messages first.
Conflict(p) ==
  \/ conn[poll[p].box].status = "deleted"
  \/ poll[p].batch \cap recorded[poll[p].box] # {}

\* Mutant: the watermark goes to the end of the mailbox.
AdvancedToEnd(p) == highest[poll[p].box]

\* The watermark a poll leaves: past everything it looked at.
Advanced(p) ==
  IF poll[p].top = None THEN conn[poll[p].box].imap_last_uid ELSE poll[p].top

Commit(p) ==
  /\ poll[p].at = "ingested"
  /\ ~Conflict(p)
  /\ LET b == poll[p].box IN
     /\ conn' = [conn EXCEPT ![b].imap_last_uid = Advanced(p)]
     /\ recorded' = [recorded EXCEPT ![b] = @ \cup poll[p].batch]
     /\ skipped' = [skipped EXCEPT ![b] = @ \cup poll[p].missed]
     /\ poll' = [poll EXCEPT ![p] =
          [at |-> "committed", box |-> b, batch |-> poll[p].batch]]
  /\ UNCHANGED <<mail, told, requests, tasks, lock, restarts>>

CommitFails(p) ==
  /\ poll[p].at = "ingested"
  /\ Conflict(p)
  /\ Fails(p)

\* Mutant: the displays are told as soon as the events are in memory.
BroadcastEarly(p) ==
  /\ poll[p].at \in {"ingested", "committed"}
  /\ told' = [told EXCEPT ![poll[p].box] = @ \cup poll[p].batch]
  /\ poll' = [poll EXCEPT ![p].at = IF @ = "ingested" THEN @ ELSE "told"]
  /\ UNCHANGED <<mail, conn, recorded, skipped, requests, tasks, lock, restarts>>

Broadcast(p) ==
  /\ poll[p].at = "committed"
  /\ told' = [told EXCEPT ![poll[p].box] = @ \cup poll[p].batch]
  /\ poll' = [poll EXCEPT ![p].at = "told"]
  /\ UNCHANGED <<mail, conn, recorded, skipped, requests, tasks, lock, restarts>>

\* The messages are marked as seen, as a courtesy to people, and the server
\* connection is closed.
Release(p) ==
  /\ poll[p].at = "told"
  /\ Finish(p)
  /\ UNCHANGED <<mail, rows, requests, tasks, restarts>>

------------------------------------------------------------------------------
(***************************************************************************)
(* Who polls.                                                              *)
(***************************************************************************)

\* A watcher polls, waits for the server to push or for a timeout, and does
\* it again; it ends by itself when its connection is no longer connected.
WatchIteration(b) ==
  /\ b \in watching
  /\ Connected(b)
  /\ Polls(b, b, conn[b].imap_last_uid)
  /\ UNCHANGED <<mail, rows, requests, tasks, lock, restarts>>

\* Mutant: an exception ends the task for good.
WatchEndsAnyway(b) ==
  /\ b \in watching
  /\ poll[b] = Idle
  /\ watching' = watching \ {b}
  /\ UNCHANGED <<mail, rows, requests, todo, lock, poll, restarts>>

WatchEnds(b) ==
  /\ b \in watching
  /\ poll[b] = Idle
  /\ ~Connected(b)
  /\ watching' = watching \ {b}
  /\ UNCHANGED <<mail, rows, requests, todo, lock, poll, restarts>>

\* The sweep loads every connected mailbox at once.
SweepBegins ==
  /\ poll[Sweep] = Idle
  /\ DOMAIN todo = {}
  /\ \E b \in Mailboxes : Connected(b)
  /\ todo' = [b \in {x \in Mailboxes : Connected(x)} |-> conn[b].imap_last_uid]
  /\ UNCHANGED <<mail, rows, requests, watching, lock, poll, restarts>>

SweepNext(b) ==
  /\ b \in DOMAIN todo
  /\ Polls(Sweep, b, todo[b])
  /\ todo' = [x \in DOMAIN todo \ {b} |-> todo[x]]
  /\ UNCHANGED <<mail, rows, requests, watching, lock, restarts>>

CheckNow(p, b) ==
  /\ p \in Checks
  /\ Connected(b)
  /\ Polls(p, b, conn[b].imap_last_uid)
  /\ UNCHANGED <<mail, rows, requests, tasks, lock, restarts>>

------------------------------------------------------------------------------
(***************************************************************************)
(* The life of a connection.                                               *)
(***************************************************************************)

\* The login is tried, and STATUS gives the baseline: what is in the mailbox
\* already is history.  Without an answer to STATUS none of it is.
Connect(b) ==
  /\ conn[b].status = "absent"
  /\ creating[b] = None
  /\ \E uid \in {highest[b], 0} : creating' = [creating EXCEPT ![b] = uid]
  /\ UNCHANGED <<mail, rows, starting, stopping, tasks, lock, poll, restarts>>

Create(b) ==
  /\ creating[b] # None
  /\ creating' = [creating EXCEPT ![b] = None]
  /\ conn' = [conn EXCEPT ![b] = Row("connected", creating[b], creating[b])]
  /\ starting' = starting \cup {b}
  /\ UNCHANGED <<mail, recorded, skipped, told, stopping, tasks, lock, poll, restarts>>

\* After the commit, and only if the row still says so.
StartWatching(b) ==
  /\ b \in starting
  /\ starting' = starting \ {b}
  /\ watching' = IF Connected(b) THEN watching \cup {b} ELSE watching
  /\ UNCHANGED <<mail, rows, creating, stopping, todo, lock, poll, restarts>>

\* Revoking twice changes nothing more.
Revoke(b) ==
  /\ conn[b].status \in {"connected", "revoked"}
  /\ conn' = [conn EXCEPT ![b].status = "revoked"]
  /\ stopping' = stopping \cup {b}
  /\ UNCHANGED <<mail, recorded, skipped, told, creating, starting, tasks, lock, poll, restarts>>

\* Only without events: the database keeps the row while one refers to it,
\* or is being inserted.
Delete(b) ==
  /\ conn[b].status = "revoked"
  /\ recorded[b] = {}
  /\ \A p \in Pollers : poll[p].at = "ingested" /\ poll[p].box = b => poll[p].batch = {}
  /\ conn' = [conn EXCEPT ![b].status = "deleted"]
  /\ stopping' = stopping \cup {b}
  /\ UNCHANGED <<mail, recorded, skipped, told, creating, starting, tasks, lock, poll, restarts>>

\* stop_watching, after the commit: the watcher is cancelled wherever it is.
StopWatching(b) ==
  /\ b \in stopping
  /\ stopping' = stopping \ {b}
  /\ IF b \in watching
     THEN Finish(b) /\ watching' = watching \ {b}
     ELSE UNCHANGED <<lock, poll, watching>>
  /\ UNCHANGED <<mail, rows, creating, starting, todo, restarts>>

\* The process dies or is stopped, and starts again: what was not committed
\* is gone, and a watcher is started for every connected mailbox.
Restart ==
  /\ restarts < MaxRestarts
  /\ restarts' = restarts + 1
  /\ creating' = [b \in Mailboxes |-> None]
  /\ starting' = {}
  /\ stopping' = {}
  /\ watching' = {b \in Mailboxes : Connected(b)}
  /\ todo' = Nothing
  /\ lock' = [b \in Mailboxes |-> None]
  /\ poll' = [p \in Pollers |-> Idle]
  /\ UNCHANGED <<mail, rows>>

------------------------------------------------------------------------------

\* A mailbox may have been connected before the watermark existed, and mail may
\* have come and gone.
Init ==
  /\ inbox = [b \in Mailboxes |-> {}]
  /\ highest \in [Mailboxes -> 0..MaxUid]
  /\ conn \in [Mailboxes -> {Row("connected", None, 0), Row("absent", None, 0)}]
  /\ recorded = [b \in Mailboxes |-> {}]
  /\ skipped = [b \in Mailboxes |-> {}]
  /\ told = [b \in Mailboxes |-> {}]
  /\ creating = [b \in Mailboxes |-> None]
  /\ starting = {}
  /\ stopping = {}
  /\ watching = {b \in Mailboxes : Connected(b)}
  /\ todo = Nothing
  /\ lock = [b \in Mailboxes |-> None]
  /\ poll = [p \in Pollers |-> Idle]
  /\ restarts = 0

Inboxes == \E b \in Mailboxes : Arrive(b) \/ \E uid \in Uids : Remove(b, uid)

\* The steps of a poll that has the lock.
Work(p) ==
  \/ Fetch(p) \/ FetchError(p)
  \/ Ingest(p) \/ IngestFails(p)
  \/ Commit(p) \/ CommitFails(p)
  \/ Broadcast(p) \/ Release(p)

Polling == \E p \in Pollers : Acquire(p) \/ Work(p)

Callers ==
  \/ \E b \in Mailboxes : WatchIteration(b) \/ WatchEnds(b) \/ SweepNext(b)
  \/ SweepBegins
  \/ \E p \in Checks, b \in Mailboxes : CheckNow(p, b)

Connections ==
  \E b \in Mailboxes :
    \/ Connect(b) \/ Create(b) \/ StartWatching(b)
    \/ Revoke(b) \/ Delete(b) \/ StopWatching(b)

Next == Inboxes \/ Polling \/ Callers \/ Connections \/ Restart

Spec == Init /\ [][Next]_vars

\* The event loop runs every task that can run, asyncio.Lock is first come
\* first served, and a server that is asked again and again answers at last.
Fairness ==
  /\ \A p \in Pollers : WF_vars(Work(p))
  /\ \A b \in Mailboxes :
       /\ WF_vars(StartWatching(b))
       /\ WF_vars(WatchIteration(b))
       /\ SF_vars(Acquire(b))
       /\ SF_vars(Fetch(b))

------------------------------------------------------------------------------

Holding == {"locked", "fetched", "ingested", "committed", "told"}

\* Rows, tasks and polls have their types, and a lock is held exactly by the
\* poll that is past it.
TypeOK ==
  /\ \A b \in Mailboxes :
       /\ inbox[b] \subseteq 1..highest[b]
       /\ conn[b].status \in {"absent", "connected", "revoked", "deleted"}
       /\ conn[b].imap_last_uid \in (0..highest[b]) \cup {None}
       /\ \A p \in Pollers : lock[b] = p <=> (poll[p].at \in Holding /\ poll[p].box = b)
  /\ watching \subseteq Mailboxes /\ starting \subseteq Mailboxes /\ stopping \subseteq Mailboxes
  /\ DOMAIN todo \subseteq Mailboxes

\* A message of a mailbox has been dealt with: it has an event, or a poll
\* looked at it and could not read it.
Settled(b, uid) == MessageId[uid] \in recorded[b] \/ uid \in skipped[b]

\* "advance the watermark past everything looked at" (imap_polling.py:231):
\* and past nothing else.  No message that came after the connection was made
\* is at or below the watermark without having been dealt with, whichever
\* polls loaded which watermark, lost their batch, or died.
WatermarkCovers ==
  \A b \in Mailboxes : \A uid \in inbox[b] :
    (/\ conn[b].imap_last_uid # None
     /\ conn[b].baseline < uid /\ uid <= conn[b].imap_last_uid) => Settled(b, uid)

\* Polls of one mailbox exclude each other (imap_polling.py:38), so that none
\* ever loses a race for a message to another: what a poll is about to
\* insert is not in the ledger, and no other poll is about to insert it.
NoLostRace ==
  \A p \in Pollers : poll[p].at = "ingested" =>
    /\ poll[p].batch \cap recorded[poll[p].box] = {}
    /\ \A q \in Pollers :
         (poll[q].at = "ingested" /\ poll[q].box = poll[p].box) => q = p

\* The displays are never told of a deposit that can still be rolled back.
ToldIsRecorded == \A b \in Mailboxes : told[b] \subseteq recorded[b]

\* Nothing ahead of a message in its mailbox keeps polls from committing.
Storable(b) == inbox[b] \cap Refused = {}

\* A deposit is never silently missed: while its mailbox stays connected, a
\* message that stays in it is dealt with in the end, whatever the errors,
\* the races between callers, the cancelled polls and the restarts.
DepositsAreSeen ==
  \A b \in Mailboxes, uid \in Uids :
    (uid \in inbox[b] /\ uid > conn[b].baseline /\ Connected(b))
      ~> (Settled(b, uid) \/ uid \notin inbox[b] \/ ~Connected(b) \/ ~Storable(b))

\* "Mailbox revocation stops retrieval immediately" (acceptance criterion 8,
\* README.md:247): no message is fetched from a revoked mailbox once the
\* request that revoked it has done all it does.
RevokedIsNotFetched ==
  [][\A p \in Pollers :
       (Fetch(p) /\ New(p) # {}) => Connected(poll[p].box) \/ poll[p].box \in stopping]_vars
==============================================================================
