----------------------------- MODULE DisplayFeed -----------------------------
(***************************************************************************)
(* What a projector shows of a session (app/domain/realtime.py, the        *)
(* websocket /live and broadcast_session_update of app/api/v1/sessions.py, *)
(* the script of app/api/display_page.py).                                 *)
(*                                                                         *)
(* What a display shows has two parts: the row of the session, and the     *)
(* totals of its ledger.  Several tasks change one or the other; each      *)
(* publishes the row as it holds it in memory and the totals as it counts  *)
(* them then.  A display reads a snapshot, then subscribes; a frame can be *)
(* lost on a connection that stays open.                                   *)
(***************************************************************************)
EXTENDS Integers, Sequences

CONSTANTS
  Unset,
  Publishers,     \* tasks that change the session or count a deposit
  MaxFrames,      \* frames a queue holds
  MaxChanges      \* bound of the model on changes

ASSUME FeedAssumption ==
  /\ MaxFrames \in Nat \ {0}
  /\ MaxChanges \in Nat
  /\ Unset \notin [session : Nat, totals : Nat]

VARIABLES
  truth,          \* what is committed: the session's row and the totals, numbered
  announcing,     \* where each publisher is, the row it holds and its payload
  socket,         \* the display's connection, as the server sees it
  snapshot,       \* the first payload of the connection
  queue,          \* frames waiting for the connection
  sending,        \* the frame on its way
  shown           \* the state the display shows

feedVars == <<truth, announcing, socket, snapshot, queue, sending, shown>>

NoNews == [at |-> "idle", session |-> 0, payload |-> Unset]

Changes == truth.session + truth.totals

At(p, state) ==
  /\ announcing' = [announcing EXCEPT ![p] = state]
  /\ UNCHANGED <<socket, snapshot, queue, sending, shown>>

\* A request or a task loads the session.
LoadSession(p) ==
  /\ announcing[p].at = "idle"
  /\ At(p, [at |-> "loaded", session |-> truth.session, payload |-> Unset])
  /\ UNCHANGED truth

\* A route commits a change of the session and will refresh its row.
ChangeSession(p) ==
  /\ announcing[p].at = "loaded"
  /\ Changes < MaxChanges
  /\ truth' = [truth EXCEPT !.session = @ + 1]
  /\ At(p, [announcing[p] EXCEPT !.at = "stale"])

\* The webhook, a poll, an officer or the rehearsal commits an event.  The row is
\* not refreshed: it is the one loaded before, unless it has left the memory.
CommitDeposit(p) ==
  /\ announcing[p].at = "loaded"
  /\ Changes < MaxChanges
  /\ truth' = [truth EXCEPT !.totals = @ + 1]
  /\ \E state \in {"stale", "ready"} : At(p, [announcing[p] EXCEPT !.at = state])

\* db.refresh, or db.get of a row that is not in memory.
Refresh(p) ==
  /\ announcing[p].at = "stale"
  /\ At(p, [at |-> "ready", session |-> truth.session, payload |-> Unset])
  /\ UNCHANGED truth

\* _public_payload: the row that is held, and the totals of now.
ComputePayload(p) ==
  /\ announcing[p].at = "ready"
  /\ At(p, [announcing[p] EXCEPT
              !.at = "computed",
              !.payload = [session |-> announcing[p].session, totals |-> truth.totals]])
  /\ UNCHANGED truth

\* Mutant: a queue without a bound.
AllKept(frames) == frames
Kept(frames) == IF Len(frames) = MaxFrames THEN Tail(frames) ELSE frames

\* publish: a full queue loses its oldest frame.
Publish(p) ==
  /\ announcing[p].at = "computed"
  /\ announcing' = [announcing EXCEPT ![p] = NoNews]
  /\ queue' = IF socket # "open" THEN queue
              ELSE Append(Kept(queue), announcing[p].payload)
  /\ UNCHANGED <<truth, socket, snapshot, sending, shown>>

\* The request is refused, or the task ends between its commit and its broadcast.
NeverPublished(p) ==
  /\ announcing[p].at # "idle"
  /\ At(p, NoNews)
  /\ UNCHANGED truth

\* session_live reads the row, then the totals, and releases its database
\* connection.
LoadSnapshot ==
  /\ socket = "closed"
  /\ socket' = "loading"
  /\ snapshot' = truth
  /\ UNCHANGED <<truth, announcing, queue, sending, shown>>

CountSnapshot ==
  /\ socket = "loading"
  /\ socket' = "loaded"
  /\ snapshot' = [snapshot EXCEPT !.totals = truth.totals]
  /\ UNCHANGED <<truth, announcing, queue, sending, shown>>

\* Mutant: the connection begins with the next change.
NoSnapshot == Unset
FirstFrame == snapshot

\* session_live: subscribe and send the snapshot.
JoinFeed ==
  /\ socket = "loaded"
  /\ socket' = "open"
  /\ queue' = <<>>
  /\ sending' = FirstFrame
  /\ UNCHANGED <<truth, announcing, snapshot, shown>>

SendNext ==
  /\ socket = "open"
  /\ sending = Unset
  /\ queue # <<>>
  /\ sending' = Head(queue)
  /\ queue' = Tail(queue)
  /\ UNCHANGED <<truth, announcing, socket, snapshot, shown>>

\* onmessage
Render ==
  /\ sending # Unset
  /\ shown' = sending
  /\ sending' = Unset
  /\ UNCHANGED <<truth, announcing, socket, snapshot, queue>>

\* A frame is dropped and nobody notices.
Lose ==
  /\ sending # Unset
  /\ sending' = Unset
  /\ UNCHANGED <<truth, announcing, socket, snapshot, queue, shown>>

\* The page's timer, or the network, closes the socket; its frames are gone.
CloseSocket ==
  /\ socket # "closed"
  /\ socket' = "closed"
  /\ snapshot' = Unset
  /\ queue' = <<>>
  /\ sending' = Unset
  /\ UNCHANGED <<truth, announcing, shown>>

FeedInit ==
  /\ truth = [session |-> 0, totals |-> 0]
  /\ announcing = [p \in Publishers |-> NoNews]
  /\ socket = "closed"
  /\ snapshot = Unset
  /\ queue = <<>>
  /\ sending = Unset
  /\ shown = Unset

FeedNext ==
  \/ \E p \in Publishers : \/ LoadSession(p) \/ ChangeSession(p) \/ CommitDeposit(p) \/ Refresh(p)
                           \/ ComputePayload(p) \/ Publish(p) \/ NeverPublished(p)
  \/ LoadSnapshot \/ CountSnapshot \/ JoinFeed \/ SendNext \/ Render \/ Lose \/ CloseSocket

\* The page reconnects whenever its socket is closed, and closes it every 45
\* seconds; a display that is told again and again hears it at last.
FeedFairness ==
  /\ WF_feedVars(LoadSnapshot)
  /\ SF_feedVars(CountSnapshot)
  /\ SF_feedVars(JoinFeed)
  /\ WF_feedVars(CloseSocket)
  /\ SF_feedVars(Render)

FeedSpec == FeedInit /\ [][FeedNext]_feedVars /\ FeedFairness

------------------------------------------------------------------------------

Payload == [session : 0..MaxChanges, totals : 0..MaxChanges]

\* The types; a queue holds no more frames than its bound.
FeedTypeOK ==
  /\ truth \in Payload
  /\ announcing \in [Publishers -> [at : {"idle", "loaded", "stale", "ready", "computed"},
                                    session : 0..MaxChanges, payload : Payload \cup {Unset}]]
  /\ socket \in {"closed", "loading", "loaded", "open"}
  /\ snapshot \in Payload \cup {Unset}
  /\ queue \in Seq(Payload) /\ Len(queue) <= MaxFrames
  /\ sending \in Payload \cup {Unset}
  /\ shown \in Payload \cup {Unset}

\* When no change comes any more, the display shows the session and the totals as
\* they are and stays there: whatever was lost, reordered, published from an old
\* row, or missed while connecting.
DisplayConverges == <>[](shown = truth)
=============================================================================
