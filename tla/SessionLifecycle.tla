--------------------------- MODULE SessionLifecycle ---------------------------
(***************************************************************************)
(* One row of the table `sessions`, its approvals (the finance officers'   *)
(* one-time codes) and the requests that act on them:                      *)
(* app/api/v1/sessions.py over app/domain/sessions.py.                     *)
(*                                                                         *)
(* A request is not atomic.  FastAPI's dependency loads the row, the       *)
(* handler checks and edits the object in memory, and the commit sends one *)
(* UPDATE that names only the columns whose value changed, with the values *)
(* computed from the row as it was loaded; no WHERE clause and no lock     *)
(* guards it.  So each handler here is a step that reads and decides, and  *)
(* Commit is the step that writes; steps of other requests come between.   *)
(* A request that the code refuses (4xx) changes nothing and is no step.   *)
(***************************************************************************)
EXTENDS Integers, FiniteSets

CONSTANTS
  Clients,          \* requests in flight at once
  ApprovalId,       \* primary keys of approvals
  None,             \* a NULL column
  Duration,         \* duration_seconds of the session
  Extensions,       \* values of additional_seconds
  Goals,            \* values a goal_amount may be set to
  Visibilities,     \* values amount_visible may be set to
  ApprovalTTL,      \* APPROVAL_TTL_MINUTES
  MaxAttempts,      \* MAX_APPROVAL_ATTEMPTS
  MaxTime,          \* bound of the model on the clock
  MaxVersion        \* bound of the model on the row's version

ASSUME NoneAssumption == None \notin Int
ASSUME ApprovalsAssumption == None \notin ApprovalId
ASSUME TimesAssumption == 
  /\ Duration \in Nat
  /\ Extensions \subseteq Nat
  /\ Goals \subseteq Nat
  /\ Visibilities \subseteq BOOLEAN
  /\ ApprovalTTL \in Nat
  /\ MaxAttempts \in Nat \ {0}
  /\ MaxTime \in Nat
  /\ MaxVersion \in Nat

VARIABLES
  now,          \* the wall clock
  row,          \* the committed session row
  approvals,    \* the committed approval rows
  failures,     \* audit_events "session.verify_failed", counted by approval
  pending       \* what each request holds in memory

vars == <<now, row, approvals, failures, pending>>

Status == {"draft", "approval_requested", "authorized", "live", "paused", "ended"}

\* Mutant: a session may go live without a code.
LooseTransitions ==
  [ draft |-> {"approval_requested", "ended"},
    approval_requested |-> {"approval_requested", "authorized", "live", "ended"},
    authorized |-> {"live", "ended"},
    live |-> {"paused", "ended"},
    paused |-> {"live", "ended"},
    ended |-> {} ]

\* "reconciling" and "closed" are never assigned by any handler.
AllowedTransitions ==
  [ draft |-> {"approval_requested", "ended"},
    approval_requested |-> {"approval_requested", "authorized", "ended"},
    authorized |-> {"live", "ended"},
    live |-> {"paused", "ended"},
    paused |-> {"live", "ended"},
    ended |-> {} ]

Time == Int
Stamps == {"starts_at", "ends_at", "paused_at", "watermark"}
Columns == Stamps \cup {"status", "version", "goal_amount", "amount_visible"}

\* The type of each column of a session and of an approval.
ColumnType ==
  [ status |-> Status, version |-> Nat,
    starts_at |-> Time \cup {None}, ends_at |-> Time \cup {None},
    paused_at |-> Time \cup {None}, watermark |-> Time \cup {None},
    goal_amount |-> Nat \cup {None}, amount_visible |-> BOOLEAN ]

Approval ==
  [ issued : BOOLEAN, attempts : Nat, locked : BOOLEAN,
    verified_at : Time \cup {None}, expires_at : Time ]

\* A key that no row uses yet.
Unissued ==
  [issued |-> FALSE, attempts |-> 0, locked |-> FALSE, verified_at |-> None, expires_at |-> 0]

\* What an UPDATE with the column values w makes of the row r.
Updated(r, w) == [col \in DOMAIN r |-> IF col \in DOMAIN w THEN w[col] ELSE r[col]]

\* The columns of w that the unit of work finds changed against the loaded
\* row.  A timestamp just read from the clock always differs from an older
\* one, though this model's coarse clock may repeat it.
Dirty(w) ==
  [col \in {x \in DOMAIN w : w[x] # row[x] \/ (x \in Stamps /\ w[x] # None)} |-> w[col]]

------------------------------------------------------------------------------

Idle == [at |-> "idle"]

\* A request that has decided what to write: the columns of the session row,
\* the columns of each approval, the approval that a wrong code was tried
\* on, and the version its caller expected (None: the route takes none).
Writing(expected, columns, codes, guess) ==
  [at |-> "commit", expected |-> expected, row |-> columns, codes |-> codes, guess |-> guess]

NoCodes == [a \in {} |-> Unissued]
NoColumns == [col \in {} |-> None]

check_version(expected) == row.version = expected

\* Mutant: a move that keeps the version.
MovedSilently(version, to) == [status |-> to, version |-> version]

\* transition(): its guard and what it assigns.
CanMove(from, to) == to \in AllowedTransitions[from]
Moved(version, to) == [status |-> to, version |-> version + 1]

\* A request begins with the row it loads; the bound on versions is the model's.
Begins(c) == pending[c] = Idle /\ row.version < MaxVersion

\* A route that takes expected_version, and the columns it assigns.
Guarded(c, expected, columns) ==
  /\ Begins(c)
  /\ check_version(expected)
  /\ pending' = [pending EXCEPT ![c] = Writing(expected, Dirty(columns), NoCodes, None)]
  /\ UNCHANGED <<now, row, approvals, failures>>

\* A route that also moves the session to another status.
Moves(c, expected, to, columns) ==
  /\ CanMove(row.status, to)
  /\ Guarded(c, expected,
       [col \in DOMAIN columns \cup {"status", "version"} |->
          IF col \in DOMAIN columns THEN columns[col] ELSE Moved(row.version, to)[col]])

\* Mutant: monitoring is counted from the start and not from the approval.
StartMonitoring(c, expected) ==
  Moves(c, expected, "live",
        [starts_at |-> now, ends_at |-> now + Duration, watermark |-> now])

Start(c, expected) ==
  Moves(c, expected, "live", [starts_at |-> now, ends_at |-> now + Duration])

\* Mutant: the instant of the pause is not kept.
PauseUndated(c, expected) == Moves(c, expected, "paused", NoColumns)

Pause(c, expected) ==
  Moves(c, expected, "paused", [paused_at |-> now])

\* ends_at moves by the time spent paused, if both instants are known.
Resume(c, expected) ==
  Moves(c, expected, "live",
        IF row.paused_at # None /\ row.ends_at # None
        THEN [paused_at |-> None, ends_at |-> row.ends_at + (now - row.paused_at)]
        ELSE [paused_at |-> None])

\* Mutant: an end time that is set is taken for one that has passed.
EverStarted == row.ends_at # None

Over == row.ends_at # None /\ now >= row.ends_at

\* ends_at is brought forward to now, never moved later.
Close(c, expected) ==
  Moves(c, expected, "ended", IF Over THEN NoColumns ELSE [ends_at |-> now])

Extend(c, expected, seconds) ==
  /\ row.status \in {"live", "paused"}
  /\ row.ends_at # None
  /\ Guarded(c, expected, [ends_at |-> row.ends_at + seconds, version |-> row.version + 1])

UpdateGoal(c, expected, goal) ==
  /\ row.status \in {"live", "paused"}
  /\ row.goal_amount # None
  /\ goal > row.goal_amount
  /\ Guarded(c, expected, [goal_amount |-> goal, version |-> row.version + 1])

SetVisibility(c, expected, visible) ==
  Guarded(c, expected, [amount_visible |-> visible, version |-> row.version + 1])

------------------------------------------------------------------------------
(***************************************************************************)
(* The approval routes take no expected_version.  They read the session    *)
(* row first and the approvals in a later query.                           *)
(***************************************************************************)

Unexpired(a) == approvals[a].expires_at >= now

\* Mutant: only the expiry is looked at.
OutstandingByExpiry(a) == approvals[a].issued /\ Unexpired(a)

\* Neither verified, nor locked, nor expired.
Outstanding(a) ==
  /\ approvals[a].issued
  /\ approvals[a].verified_at = None
  /\ ~approvals[a].locked
  /\ Unexpired(a)

RequestApproval(c) ==
  /\ Begins(c)
  /\ row.status \in {"draft", "approval_requested"}
  /\ CanMove(row.status, "approval_requested")
  /\ pending' = [pending EXCEPT ![c] =
       [at |-> "requesting", row |-> Dirty(Moved(row.version, "approval_requested"))]]
  /\ UNCHANGED <<now, row, approvals, failures>>

\* A fresh uuid.
Unused(a) ==
  /\ ~approvals[a].issued
  /\ \A d \in Clients : pending[d].at = "commit" => a \notin DOMAIN pending[d].codes

\* The other columns keep the defaults that Unissued has already.
NewApproval ==
  [issued |-> TRUE, expires_at |-> now + ApprovalTTL]

\* Mutant: the codes before the new one are left as they are.
IssueAnotherCode(c, a) ==
  /\ pending[c].at = "requesting"
  /\ Unused(a)
  /\ pending' = [pending EXCEPT ![c] =
       Writing(None, pending[c].row, [x \in {a} |-> NewApproval], None)]
  /\ UNCHANGED <<now, row, approvals, failures>>

\* Locks every outstanding approval and adds a new one.
IssueCode(c, a) ==
  /\ pending[c].at = "requesting"
  /\ Unused(a)
  /\ LET replaced == {x \in ApprovalId : Outstanding(x)}
         codes == [x \in replaced \cup {a} |-> IF x = a THEN NewApproval ELSE [locked |-> TRUE]]
     IN pending' = [pending EXCEPT ![c] = Writing(None, pending[c].row, codes, None)]
  /\ UNCHANGED <<now, row, approvals, failures>>

VerifyApproval(c) ==
  /\ Begins(c)
  /\ pending' = [pending EXCEPT ![c] =
       [at |-> "verifying", status |-> row.status, version |-> row.version]]
  /\ UNCHANGED <<now, row, approvals, failures>>

\* Mutant: attempts are counted but lock nothing.
WrongCodeCounted(c, a) ==
  /\ pending[c].at = "verifying"
  /\ Outstanding(a)
  /\ pending' = [pending EXCEPT ![c] =
       Writing(None, NoColumns, [x \in {a} |-> [attempts |-> approvals[a].attempts + 1]], a)]
  /\ UNCHANGED <<now, row, approvals, failures>>

\* Mutant: every attempt writes the lock anew from its own count.
WrongCodeRewritesLock(c, a) ==
  /\ pending[c].at = "verifying"
  /\ Outstanding(a)
  /\ LET attempts == approvals[a].attempts + 1
         columns == [attempts |-> attempts, locked |-> attempts >= MaxAttempts]
     IN pending' = [pending EXCEPT ![c] =
          Writing(None, NoColumns, [x \in {a} |-> columns], a)]
  /\ UNCHANGED <<now, row, approvals, failures>>

\* A wrong code costs an attempt, whatever the status of the session is.
WrongCode(c, a) ==
  /\ pending[c].at = "verifying"
  /\ Outstanding(a)
  /\ LET attempts == approvals[a].attempts + 1
         columns == IF attempts >= MaxAttempts
                    THEN [attempts |-> attempts, locked |-> TRUE]
                    ELSE [attempts |-> attempts]
     IN pending' = [pending EXCEPT ![c] = Writing(None, NoColumns,
                                                  [x \in {a} |-> columns], a)]
  /\ UNCHANGED <<now, row, approvals, failures>>

RightCode(c, a) ==
  /\ pending[c].at = "verifying"
  /\ Outstanding(a)
  /\ CanMove(pending[c].status, "authorized")
  /\ pending' = [pending EXCEPT ![c] =
       Writing(None,
               [status |-> "authorized", version |-> pending[c].version + 1, watermark |-> now],
               [x \in {a} |-> [verified_at |-> now]], None)]
  /\ UNCHANGED <<now, row, approvals, failures>>

------------------------------------------------------------------------------

\* db.commit(): every change of the request becomes visible at once.
Commit(c) ==
  /\ pending[c].at = "commit"
  /\ LET p == pending[c] IN
     /\ row' = Updated(row, p.row)
     /\ approvals' = [a \in ApprovalId |->
          IF a \in DOMAIN p.codes THEN Updated(approvals[a], p.codes[a]) ELSE approvals[a]]
     /\ failures' = [a \in ApprovalId |-> IF a = p.guess THEN failures[a] + 1 ELSE failures[a]]
  /\ pending' = [pending EXCEPT ![c] = Idle]
  /\ UNCHANGED now

\* The request is refused after its first read, or raises, is cancelled or
\* dies with the process before its commit: the transaction is rolled back.
Abort(c) ==
  /\ pending[c] # Idle
  /\ pending' = [pending EXCEPT ![c] = Idle]
  /\ UNCHANGED <<now, row, approvals, failures>>

Tick ==
  /\ now < MaxTime
  /\ now' = now + 1
  /\ UNCHANGED <<row, approvals, failures, pending>>

------------------------------------------------------------------------------

\* create_session leaves a draft, with a fundraising target or without one.
Init ==
  /\ now = 0
  /\ \E goal \in Goals \cup {None} :
       row = [status |-> "draft", version |-> 1, starts_at |-> None, ends_at |-> None,
              paused_at |-> None, watermark |-> None, goal_amount |-> goal,
              amount_visible |-> FALSE]
  /\ approvals = [a \in ApprovalId |-> Unissued]
  /\ failures = [a \in ApprovalId |-> 0]
  /\ pending = [c \in Clients |-> Idle]

\* A caller may send any version it has seen.
Versioned(c) ==
  \E expected \in 1..MaxVersion :
    \/ Start(c, expected)
    \/ Pause(c, expected)
    \/ Resume(c, expected)
    \/ Close(c, expected)
    \/ \E seconds \in Extensions : Extend(c, expected, seconds)
    \/ \E goal \in Goals : UpdateGoal(c, expected, goal)
    \/ \E visible \in Visibilities : SetVisibility(c, expected, visible)

Approving(c) ==
  \/ RequestApproval(c)
  \/ VerifyApproval(c)
  \/ \E a \in ApprovalId : IssueCode(c, a) \/ WrongCode(c, a) \/ RightCode(c, a)

Next ==
  \/ \E c \in Clients : Versioned(c) \/ Approving(c) \/ Commit(c) \/ Abort(c)
  \/ Tick

Spec == Init /\ [][Next]_vars

------------------------------------------------------------------------------
(***************************************************************************)
(* Properties that hold whatever the interleaving of requests.             *)
(***************************************************************************)

RowsTyped ==
  /\ now \in Nat
  /\ DOMAIN row = Columns
  /\ \A col \in Columns : row[col] \in ColumnType[col]
  /\ approvals \in [ApprovalId -> Approval]
  /\ failures \in [ApprovalId -> Nat]
  /\ \A c \in Clients : pending[c].at \in {"idle", "requesting", "verifying", "commit"}

ClockColumnsSet ==
  /\ row.status = "paused" => row.paused_at # None
  /\ row.status = "ended" => row.ends_at # None

\* The rows and the writes in flight have the types of the columns, and a status
\* comes with its instant: a paused session knows when it was paused and an ended
\* one when it ended, from which resume and the reports compute.
TypeOK == RowsTyped /\ ClockColumnsSet

\* Dual control: a session is never authorized, live or paused unless a
\* finance officer's code has been verified (README.md:240), whatever stale
\* row a request that moves it was computed from.
DualControl ==
  row.status \in {"authorized", "live", "paused"} =>
    \E a \in ApprovalId : approvals[a].verified_at # None

\* Monitoring starts when a code was verified: the watermark that ingestion
\* compares with received_at is set on every session that may count, and is
\* the instant of a verification (README.md:89).
WatermarkIsAVerification ==
  /\ row.status \in {"authorized", "live", "paused"} => row.watermark # None
  /\ row.watermark # None =>
       \E a \in ApprovalId : approvals[a].verified_at = row.watermark

\* A lock put on a code is never taken back, and every code that used up its
\* attempts is locked, even when a late request writes back a lower count.
LockoutIsPermanent ==
  [][\A a \in ApprovalId :
       /\ approvals[a].locked => approvals'[a].locked
       /\ approvals'[a].attempts >= MaxAttempts => approvals'[a].locked]_vars

------------------------------------------------------------------------------
(***************************************************************************)
(* Properties of requests served one at a time (Clients is a singleton).   *)
(***************************************************************************)

Machine == INSTANCE SessionStateMachine WITH phase <- row.status, edition <- row.version

\* The status follows the documented state machine, atomically, and every
\* change is told by a new version.
ImplementsMachine == Machine!Spec

\* "Once verified or locked out, a row is never reused for authorization"
\* (db/models/approval.py:18): no step verifies a code that has been verified
\* or locked before it, by its own attempts or by a newer code.
SpentCodeIsDead ==
  [][\A a \in ApprovalId :
       (approvals[a].verified_at # None \/ approvals[a].locked) =>
         approvals'[a].verified_at = approvals[a].verified_at]_vars

\* A new code replaces the one before it: two codes are never good at once.
OneOutstandingCode ==
  \A a, b \in ApprovalId : Outstanding(a) /\ Outstanding(b) => a = b

\* No more than MAX_APPROVAL_ATTEMPTS wrong codes are ever heard for one
\* approval, by the audit trail's own count.
GuessesBounded == \A a \in ApprovalId : failures[a] <= MaxAttempts

\* An ended session's end time is not in the future: the public countdown of
\* a closed session is over.
EndedIsOver == row.status = "ended" => row.ends_at <= now

\* Optimistic locking protects the end of a session (README.md:82 and 93):
\* no request that quotes a version takes an ended session out of "ended".
EndedIsFinal ==
  [][\A c \in Clients :
       (Commit(c) /\ pending[c].expected # None /\ row.status = "ended") =>
         row'.status = "ended"]_vars

\* "pausing freezes the countdown" (README.md:91): a session that goes back
\* from paused to live has as much time left, when the request reads the
\* clock, as when it was paused.
PauseFreezesCountdown ==
  [][\A c \in Clients :
       (/\ Commit(c)
        /\ row.status = "paused" /\ row'.status = "live"
        /\ row.ends_at # None /\ row'.ends_at # None) =>
         row'.ends_at - row.ends_at \in 0..(now - row.paused_at)]_vars
==============================================================================
