------------------------ MODULE SessionLifecycleProofs ------------------------
(***************************************************************************)
(* Theorems about SessionLifecycle, for any number of concurrent requests, *)
(* of approvals, any durations and no bound on time or versions other than *)
(* the constants.  The argument: no request is protected from the others,  *)
(* so what keeps the row sound is what each UPDATE in flight may contain   *)
(* (InFlightOK), and that nothing a write relies on is ever taken back:    *)
(* the watermark and the end time, once set, are never NULL again.         *)
(***************************************************************************)
EXTENDS SessionLifecycle, TLAPS

Running == {"authorized", "live", "paused"}

\* What a handler may send: columns of the row, of their type, where only
\* paused_at may go back to NULL.
ColumnsTyped(w) ==
  /\ DOMAIN w \subseteq Columns
  /\ \A col \in DOMAIN w :
       /\ w[col] \in ColumnType[col]
       /\ col \in Stamps \ {"paused_at"} => w[col] # None

\* What a handler may send to approvals: a new row, a higher count, a lock
\* that is on, a verification.
CodesTyped(codes) ==
  /\ DOMAIN codes \subseteq ApprovalId
  /\ \A a \in DOMAIN codes :
       /\ DOMAIN codes[a] \subseteq {"issued", "attempts", "locked", "verified_at", "expires_at"}
       /\ "issued" \in DOMAIN codes[a] => codes[a].issued = TRUE
       /\ "attempts" \in DOMAIN codes[a] =>
            /\ codes[a].attempts \in Nat
            /\ codes[a].attempts >= MaxAttempts => "locked" \in DOMAIN codes[a]
       /\ "locked" \in DOMAIN codes[a] => codes[a].locked = TRUE
       /\ "verified_at" \in DOMAIN codes[a] => codes[a].verified_at \in Time
       /\ "expires_at" \in DOMAIN codes[a] => codes[a].expires_at \in Time

\* A status that may count contributions comes with a watermark, its own or
\* the row's; a pause with its instant; an end with an end time.
StatusJustified(w) ==
  "status" \in DOMAIN w =>
    /\ w.status \in Running => "watermark" \in DOMAIN w \/ row.watermark # None
    /\ w.status = "paused" => "paused_at" \in DOMAIN w /\ w.paused_at # None
    /\ w.status = "ended" => "ends_at" \in DOMAIN w \/ row.ends_at # None

\* paused_at is only written by a move between live and paused.
PauseJustified(w) == "paused_at" \in DOMAIN w => "status" \in DOMAIN w

\* The watermark and the verification of a code are written together.
WatermarkJustified(w, codes) ==
  /\ "watermark" \in DOMAIN w =>
       \E a \in DOMAIN codes : "verified_at" \in DOMAIN codes[a] /\ codes[a].verified_at = w.watermark
  /\ \A a \in DOMAIN codes :
       "verified_at" \in DOMAIN codes[a] => "watermark" \in DOMAIN w

SafeWrite(w, codes) ==
  /\ ColumnsTyped(w)
  /\ CodesTyped(codes)
  /\ StatusJustified(w)
  /\ PauseJustified(w)
  /\ WatermarkJustified(w, codes)

InFlightOK(p) ==
  \/ p = Idle
  \/ /\ p.at = "verifying"
     /\ p.status \in Status /\ p.version \in Nat
  \/ /\ p.at = "requesting"
     /\ SafeWrite(p.row, NoCodes)
  \/ /\ p.at = "commit"
     /\ SafeWrite(p.row, p.codes)

ExhaustedIsLocked ==
  \A a \in ApprovalId : approvals[a].attempts >= MaxAttempts => approvals[a].locked

IInv ==
  /\ RowsTyped
  /\ ExhaustedIsLocked
  /\ WatermarkIsAVerification
  /\ ClockColumnsSet
  /\ DOMAIN pending = Clients
  /\ \A c \in Clients : InFlightOK(pending[c])

------------------------------------------------------------------------------

\* A session just created satisfies the inductive invariant: nothing is in flight.
LEMMA InitIInv == Init => IInv
<1> SUFFICES ASSUME Init PROVE IInv
  OBVIOUS
<1>1. RowsTyped
  <2>1. PICK goal \in Goals \cup {None} :
          row = [status |-> "draft", version |-> 1, starts_at |-> None, ends_at |-> None,
                 paused_at |-> None, watermark |-> None, goal_amount |-> goal,
                 amount_visible |-> FALSE]
    BY DEF Init
  <2>2. DOMAIN row = Columns
    BY <2>1 DEF Columns, Stamps
  <2>3. ASSUME NEW col \in Columns
        PROVE  row[col] \in ColumnType[col]
    <3>1. CASE col \in Stamps
      BY <2>1, <3>1 DEF Stamps, ColumnType
    <3>2. CASE col = "status"
      BY <2>1, <3>2 DEF ColumnType, Status
    <3>3. CASE col = "version"
      BY <2>1, <3>3 DEF ColumnType
    <3>4. CASE col = "goal_amount"
      BY <2>1, <3>4, TimesAssumption DEF ColumnType
    <3>5. CASE col = "amount_visible"
      BY <2>1, <3>5 DEF ColumnType
    <3> QED
      BY <3>1, <3>2, <3>3, <3>4, <3>5 DEF Columns
  <2>4. approvals \in [ApprovalId -> Approval]
    BY DEF Init, Unissued, Approval, Time
  <2>5. /\ now \in Nat
        /\ failures \in [ApprovalId -> Nat]
        /\ \A c \in Clients : pending[c].at \in {"idle", "requesting", "verifying", "commit"}
    BY DEF Init, Idle
  <2> QED
    BY <2>2, <2>3, <2>4, <2>5 DEF RowsTyped
<1>2. WatermarkIsAVerification /\ ClockColumnsSet
  BY DEF Init, WatermarkIsAVerification, ClockColumnsSet
<1>3. DOMAIN pending = Clients /\ \A c \in Clients : InFlightOK(pending[c])
  BY DEF Init, InFlightOK
<1>4. ExhaustedIsLocked
  BY TimesAssumption DEF Init, ExhaustedIsLocked, Unissued
<1> QED
  BY <1>1, <1>2, <1>3, <1>4 DEF IInv

\* What Dirty keeps of the columns a handler assigns.
LEMMA DirtyColumns ==
  ASSUME NEW w, ColumnsTyped(w)
  PROVE  /\ ColumnsTyped(Dirty(w))
         /\ DOMAIN Dirty(w) \subseteq DOMAIN w
         /\ \A col \in DOMAIN Dirty(w) : Dirty(w)[col] = w[col]
         /\ \A col \in DOMAIN w :
              (w[col] # row[col] \/ (col \in Stamps /\ w[col] # None)) => col \in DOMAIN Dirty(w)
BY DEF Dirty, ColumnsTyped

\* A step that only gives a request a safe write keeps the invariant.
LEMMA PendingStep ==
  ASSUME IInv, NEW c \in Clients, NEW p, InFlightOK(p),
         p.at \in {"idle", "requesting", "verifying", "commit"},
         pending' = [pending EXCEPT ![c] = p],
         UNCHANGED <<now, row, approvals, failures>>
  PROVE  IInv'
<1>1. RowsTyped'
  BY DEF IInv, RowsTyped
<1>2. WatermarkIsAVerification' /\ ClockColumnsSet' /\ ExhaustedIsLocked'
  BY DEF IInv, WatermarkIsAVerification, ClockColumnsSet, ExhaustedIsLocked
<1>3. \A q : InFlightOK(q)' <=> InFlightOK(q)
  BY DEF InFlightOK, SafeWrite, StatusJustified, ColumnsTyped, CodesTyped, PauseJustified,
         WatermarkJustified
<1>4. DOMAIN pending' = Clients /\ \A d \in Clients : InFlightOK(pending'[d])
  BY DEF IInv
<1>5. \A d \in Clients : InFlightOK(pending[d])'
  BY <1>3, <1>4
<1> QED
  BY <1>1, <1>2, <1>4, <1>5 DEF IInv

\* A write with no code to it.
LEMMA NoCodesSafe ==
  ASSUME NEW w, ColumnsTyped(w), StatusJustified(w), PauseJustified(w),
         "watermark" \notin DOMAIN w
  PROVE  SafeWrite(w, NoCodes)
BY DEF SafeWrite, NoCodes, CodesTyped, WatermarkJustified

\* The routes that take a version: safe columns make a safe step.
LEMMA GuardedSafe ==
  ASSUME IInv, NEW c \in Clients, NEW expected, NEW columns, Guarded(c, expected, columns),
         ColumnsTyped(columns), StatusJustified(Dirty(columns)), PauseJustified(Dirty(columns)),
         "watermark" \notin DOMAIN columns
  PROVE  IInv'
<1> DEFINE p == Writing(expected, Dirty(columns), NoCodes, None)
<1>1. SafeWrite(Dirty(columns), NoCodes)
  BY DirtyColumns, NoCodesSafe
<1>2. p.at = "commit" /\ p.row = Dirty(columns) /\ p.codes = NoCodes
  BY DEF Writing
<1>3. InFlightOK(p)
  BY <1>1, <1>2 DEF InFlightOK
<1>4. /\ pending' = [pending EXCEPT ![c] = p]
      /\ UNCHANGED <<now, row, approvals, failures>>
  BY DEF Guarded
<1> QED
  BY <1>2, <1>3, <1>4, PendingStep

\* A change that leaves the status alone: Extend, UpdateGoal, SetVisibility.
LEMMA EditSafe ==
  ASSUME IInv, NEW c \in Clients, NEW expected, NEW columns, Guarded(c, expected, columns),
         ColumnsTyped(columns), DOMAIN columns \cap {"status", "paused_at", "watermark"} = {}
  PROVE  IInv'
<1>1. StatusJustified(Dirty(columns)) /\ PauseJustified(Dirty(columns))
  BY DirtyColumns DEF StatusJustified, PauseJustified
<1> QED
  BY <1>1, GuardedSafe

\* A move of the status: Start, Pause, Resume, Close.
LEMMA MoveSafe ==
  ASSUME IInv, NEW c \in Clients, NEW expected, NEW to \in {"live", "paused", "ended"},
         NEW columns, ColumnsTyped(columns), Moves(c, expected, to, columns),
         DOMAIN columns \subseteq {"starts_at", "ends_at", "paused_at"},
         to = "paused" => "paused_at" \in DOMAIN columns /\ columns.paused_at # None,
         to = "ended" => "ends_at" \in DOMAIN columns \/ row.ends_at # None
  PROVE  IInv'
<1> DEFINE w == [col \in DOMAIN columns \cup {"status", "version"} |->
                   IF col \in DOMAIN columns THEN columns[col] ELSE Moved(row.version, to)[col]]
<1>1. row.status \in Status /\ row.version \in Nat
  BY DEF IInv, RowsTyped, Columns, ColumnType
<1>2. w.status = to /\ w.version = row.version + 1
  BY DEF Moved
<1>3. ColumnsTyped(w)
  <2>1. DOMAIN w \subseteq Columns
    BY DEF Columns, Stamps
  <2>2. ASSUME NEW col \in DOMAIN w
        PROVE  w[col] \in ColumnType[col] /\ (col \in Stamps \ {"paused_at"} => w[col] # None)
    <3>1. CASE col \in DOMAIN columns
      BY <3>1 DEF ColumnsTyped
    <3>2. CASE col = "status"
      BY <1>2, <3>2 DEF ColumnType, Status, Stamps
    <3>3. CASE col = "version"
      BY <1>1, <1>2, <3>3 DEF ColumnType, Stamps
    <3> QED
      BY <3>1, <3>2, <3>3
  <2> QED
    BY <2>1, <2>2 DEF ColumnsTyped
<1>4. to # row.status /\ (to \in Running => row.status \in Running)
  BY <1>1 DEF Moves, CanMove, AllowedTransitions, Running, Status
<1>5. "status" \in DOMAIN Dirty(w) /\ Dirty(w).status = to
  BY <1>2, <1>3, <1>4, DirtyColumns
<1>6. PauseJustified(Dirty(w))
  BY <1>5 DEF PauseJustified
<1>7. StatusJustified(Dirty(w))
  <2>1. to \in Running => row.watermark # None
    BY <1>4 DEF IInv, WatermarkIsAVerification, Running
  <2>2. to = "paused" => "paused_at" \in DOMAIN Dirty(w) /\ Dirty(w).paused_at # None
    BY <1>3, DirtyColumns DEF Stamps
  <2>3. to = "ended" => "ends_at" \in DOMAIN Dirty(w) \/ row.ends_at # None
    BY <1>3, DirtyColumns DEF Stamps, ColumnsTyped
  <2> QED
    BY <1>5, <2>1, <2>2, <2>3 DEF StatusJustified
<1>8. "watermark" \notin DOMAIN w
  OBVIOUS
<1>9. Guarded(c, expected, w)
  BY DEF Moves
<1> HIDE DEF w
<1> QED
  BY <1>3, <1>6, <1>7, <1>8, <1>9, GuardedSafe

\* The columns a timestamp can be taken from, with their types.
LEMMA Stamped ==
  ASSUME RowsTyped
  PROVE  /\ now \in Int /\ now # None /\ Duration \in Int
         /\ row.ends_at \in Int \cup {None} /\ row.paused_at \in Int \cup {None}
         /\ row.status \in Status /\ row.version \in Nat
         /\ row.goal_amount \in Nat \cup {None}
BY NoneAssumption, TimesAssumption DEF RowsTyped, Columns, Stamps, ColumnType, Time

\* Every request that quotes a version keeps the invariant.
LEMMA VersionedSafe ==
  ASSUME IInv, NEW c \in Clients, Versioned(c)
  PROVE  IInv'
<1> USE NoneAssumption, TimesAssumption
<1>0. RowsTyped
  BY DEF IInv
<1>t. \A i, j \in Int : i + j \in Int /\ i - j \in Int /\ i + j # None /\ i - j # None
  OBVIOUS
<1>1. PICK expected \in 1..MaxVersion :
        \/ Start(c, expected) \/ Pause(c, expected) \/ Resume(c, expected) \/ Close(c, expected)
        \/ \E seconds \in Extensions : Extend(c, expected, seconds)
        \/ \E goal \in Goals : UpdateGoal(c, expected, goal)
        \/ \E visible \in Visibilities : SetVisibility(c, expected, visible)
  BY DEF Versioned
<1>2. CASE Start(c, expected)
  <2> DEFINE w == [starts_at |-> now, ends_at |-> now + Duration]
  <2>1. ColumnsTyped(w)
    BY <1>0, <1>t, Stamped DEF ColumnsTyped, Columns, Stamps, ColumnType, Time
  <2>2. Moves(c, expected, "live", w)
    BY <1>2 DEF Start
  <2>3. DOMAIN w \subseteq {"starts_at", "ends_at", "paused_at"}
    OBVIOUS
  <2> HIDE DEF w
  <2> QED
    BY <2>1, <2>2, <2>3, MoveSafe
<1>3. CASE Pause(c, expected)
  <2> DEFINE w == [paused_at |-> now]
  <2>1. ColumnsTyped(w) /\ w.paused_at # None
    BY <1>0, Stamped DEF ColumnsTyped, Columns, Stamps, ColumnType, Time
  <2>2. Moves(c, expected, "paused", w)
    BY <1>3 DEF Pause
  <2>3. DOMAIN w = {"paused_at"}
    OBVIOUS
  <2> HIDE DEF w
  <2> QED
    BY <2>1, <2>2, <2>3, MoveSafe
<1>4. CASE Resume(c, expected)
  <2> DEFINE w == IF row.paused_at # None /\ row.ends_at # None
                  THEN [paused_at |-> None, ends_at |-> row.ends_at + (now - row.paused_at)]
                  ELSE [paused_at |-> None]
  <2>1. ColumnsTyped(w)
    <3>1. CASE row.paused_at # None /\ row.ends_at # None
      BY <1>0, <1>t, <3>1, Stamped DEF ColumnsTyped, Columns, Stamps, ColumnType, Time
    <3>2. CASE ~(row.paused_at # None /\ row.ends_at # None)
      BY <3>2 DEF ColumnsTyped, Columns, Stamps, ColumnType, Time
    <3> QED
      BY <3>1, <3>2
  <2>2. Moves(c, expected, "live", w)
    BY <1>4 DEF Resume
  <2>3. DOMAIN w \subseteq {"starts_at", "ends_at", "paused_at"}
    OBVIOUS
  <2> HIDE DEF w
  <2> QED
    BY <2>1, <2>2, <2>3, MoveSafe
<1>5. CASE Close(c, expected)
  <2> DEFINE w == IF Over THEN NoColumns ELSE [ends_at |-> now]
  <2>1. ColumnsTyped(w)
    BY <1>0, Stamped DEF ColumnsTyped, NoColumns, Columns, Stamps, ColumnType, Time
  <2>2. Moves(c, expected, "ended", w)
    BY <1>5 DEF Close
  <2>3. DOMAIN w \subseteq {"starts_at", "ends_at", "paused_at"}
    BY DEF NoColumns
  <2>4. "ends_at" \in DOMAIN w \/ row.ends_at # None
    BY DEF Over
  <2> HIDE DEF w
  <2> QED
    BY <2>1, <2>2, <2>3, <2>4, MoveSafe
<1>6. ASSUME NEW seconds \in Extensions, Extend(c, expected, seconds)
      PROVE  IInv'
  <2> DEFINE w == [ends_at |-> row.ends_at + seconds, version |-> row.version + 1]
  <2>1. ColumnsTyped(w)
    <3>1. seconds \in Int /\ row.ends_at \in Int
      BY <1>0, <1>6, Stamped DEF Extend
    <3>2. row.ends_at + seconds \in Int /\ row.ends_at + seconds # None
      BY <1>t, <3>1
    <3> QED
      BY <1>0, <3>2, Stamped DEF ColumnsTyped, Columns, Stamps, ColumnType, Time
  <2>2. Guarded(c, expected, w)
    BY <1>6 DEF Extend
  <2>3. DOMAIN w = {"ends_at", "version"}
    OBVIOUS
  <2> HIDE DEF w
  <2> QED
    BY <2>1, <2>2, <2>3, EditSafe
<1>7. ASSUME NEW goal \in Goals, UpdateGoal(c, expected, goal)
      PROVE  IInv'
  <2> DEFINE w == [goal_amount |-> goal, version |-> row.version + 1]
  <2>1. ColumnsTyped(w)
    BY <1>0, Stamped DEF ColumnsTyped, Columns, Stamps, ColumnType
  <2>2. Guarded(c, expected, w)
    BY <1>7 DEF UpdateGoal
  <2>3. DOMAIN w = {"goal_amount", "version"}
    OBVIOUS
  <2> HIDE DEF w
  <2> QED
    BY <2>1, <2>2, <2>3, EditSafe
<1>8. ASSUME NEW visible \in Visibilities, SetVisibility(c, expected, visible)
      PROVE  IInv'
  <2> DEFINE w == [amount_visible |-> visible, version |-> row.version + 1]
  <2>1. ColumnsTyped(w)
    <3>1. DOMAIN w = {"amount_visible", "version"}
      OBVIOUS
    <3>2. w["version"] \in Nat
      BY <1>0, Stamped
    <3>3. w["amount_visible"] \in BOOLEAN
      OBVIOUS
    <3> HIDE DEF w
    <3> QED
      BY <3>1, <3>2, <3>3 DEF ColumnsTyped, Columns, Stamps, ColumnType
  <2>2. Guarded(c, expected, w)
    BY <1>8 DEF SetVisibility
  <2>3. DOMAIN w = {"amount_visible", "version"}
    OBVIOUS
  <2> HIDE DEF w
  <2> QED
    BY <2>1, <2>2, <2>3, EditSafe
<1> QED
  BY <1>1, <1>2, <1>3, <1>4, <1>5, <1>6, <1>7, <1>8

\* The approval routes: what they read, and the codes they decide to write.
LEMMA ApprovingSafe ==
  ASSUME IInv, NEW c \in Clients, Approving(c)
  PROVE  IInv'
<1> USE NoneAssumption, TimesAssumption
<1>0. RowsTyped /\ InFlightOK(pending[c])
  BY DEF IInv
<1>1. CASE RequestApproval(c)
  <2> DEFINE w == Moved(row.version, "approval_requested")
             p == [at |-> "requesting", row |-> Dirty(w)]
  <2>1. ColumnsTyped(w) /\ DOMAIN w = {"status", "version"} /\ w.status = "approval_requested"
    BY <1>0, Stamped DEF Moved, ColumnsTyped, Columns, Stamps, ColumnType, Status
  <2>2. StatusJustified(Dirty(w)) /\ PauseJustified(Dirty(w))
    BY <2>1, DirtyColumns DEF StatusJustified, PauseJustified, Running
  <2>3. ColumnsTyped(Dirty(w)) /\ "watermark" \notin DOMAIN Dirty(w)
    BY <2>1, DirtyColumns
  <2>4. SafeWrite(Dirty(w), NoCodes)
    BY <2>2, <2>3, NoCodesSafe
  <2>5. InFlightOK(p) /\ p.at = "requesting"
    BY <2>4 DEF InFlightOK
  <2>6. pending' = [pending EXCEPT ![c] = p] /\ UNCHANGED <<now, row, approvals, failures>>
    BY <1>1 DEF RequestApproval
  <2> QED
    BY <2>5, <2>6, PendingStep
<1>2. CASE VerifyApproval(c)
  <2> DEFINE p == [at |-> "verifying", status |-> row.status, version |-> row.version]
  <2>1. InFlightOK(p) /\ p.at = "verifying"
    BY <1>0, Stamped DEF InFlightOK
  <2>2. pending' = [pending EXCEPT ![c] = p] /\ UNCHANGED <<now, row, approvals, failures>>
    BY <1>2 DEF VerifyApproval
  <2> QED
    BY <2>1, <2>2, PendingStep
<1>3. ASSUME NEW a \in ApprovalId, IssueCode(c, a)
      PROVE  IInv'
  <2> DEFINE replaced == {x \in ApprovalId : Outstanding(x)}
             codes == [x \in replaced \cup {a} |-> IF x = a THEN NewApproval ELSE [locked |-> TRUE]]
             p == Writing(None, pending[c].row, codes, None)
  <2>1. SafeWrite(pending[c].row, NoCodes)
    BY <1>0, <1>3 DEF IssueCode, InFlightOK, Idle
  <2>2. "watermark" \notin DOMAIN pending[c].row
    BY <2>1 DEF SafeWrite, WatermarkJustified, NoCodes
  <2>3. \A x \in DOMAIN codes : "verified_at" \notin DOMAIN codes[x]
    BY DEF NewApproval
  <2>4. CodesTyped(codes)
    BY <1>0 DEF CodesTyped, NewApproval, RowsTyped, Time
  <2>5. WatermarkJustified(pending[c].row, codes)
    BY <2>2, <2>3 DEF WatermarkJustified
  <2>6. SafeWrite(pending[c].row, codes)
    BY <2>1, <2>4, <2>5 DEF SafeWrite
  <2>7. InFlightOK(p) /\ p.at = "commit"
    BY <2>6 DEF InFlightOK, Writing
  <2>8. pending' = [pending EXCEPT ![c] = p] /\ UNCHANGED <<now, row, approvals, failures>>
    BY <1>3 DEF IssueCode
  <2> QED
    BY <2>7, <2>8, PendingStep
<1>4. ASSUME NEW a \in ApprovalId, WrongCode(c, a)
      PROVE  IInv'
  <2> DEFINE attempts == approvals[a].attempts + 1
             columns == IF attempts >= MaxAttempts
                        THEN [attempts |-> attempts, locked |-> TRUE]
                        ELSE [attempts |-> attempts]
             codes == [x \in {a} |-> columns]
             p == Writing(None, NoColumns, codes, a)
  <2>1. attempts \in Nat
    BY <1>0 DEF RowsTyped, Approval
  <2>2. CodesTyped(codes) /\ "verified_at" \notin DOMAIN columns
    BY <2>1 DEF CodesTyped
  <2>3. SafeWrite(NoColumns, codes)
    BY <2>2 DEF SafeWrite, NoColumns, ColumnsTyped, StatusJustified, PauseJustified,
                WatermarkJustified
  <2>4. InFlightOK(p) /\ p.at = "commit"
    BY <2>3 DEF InFlightOK, Writing
  <2>5. pending' = [pending EXCEPT ![c] = p] /\ UNCHANGED <<now, row, approvals, failures>>
    BY <1>4 DEF WrongCode
  <2> QED
    BY <2>4, <2>5, PendingStep
<1>5. ASSUME NEW a \in ApprovalId, RightCode(c, a)
      PROVE  IInv'
  <2> DEFINE w == [status |-> "authorized", version |-> pending[c].version + 1, watermark |-> now]
             codes == [x \in {a} |-> [verified_at |-> now]]
             p == Writing(None, w, codes, None)
  <2>1. pending[c].version \in Nat
    BY <1>0, <1>5 DEF RightCode, InFlightOK, Idle
  <2>2. now \in Int /\ now # None
    BY <1>0, Stamped
  <2>3. ColumnsTyped(w)
    BY <2>1, <2>2 DEF ColumnsTyped, Columns, Stamps, ColumnType, Time, Status
  <2>4. CodesTyped(codes)
    BY <2>2 DEF CodesTyped, Time
  <2>5. StatusJustified(w) /\ PauseJustified(w) /\ WatermarkJustified(w, codes)
    BY DEF StatusJustified, PauseJustified, WatermarkJustified
  <2>6. InFlightOK(p) /\ p.at = "commit"
    BY <2>3, <2>4, <2>5 DEF SafeWrite, InFlightOK, Writing
  <2>7. pending' = [pending EXCEPT ![c] = p] /\ UNCHANGED <<now, row, approvals, failures>>
    BY <1>5 DEF RightCode
  <2> QED
    BY <2>6, <2>7, PendingStep
<1> QED
  BY <1>1, <1>2, <1>3, <1>4, <1>5 DEF Approving

\* Commit: what one request writes, and that the others stay justified.
LEMMA CommitSafe ==
  ASSUME IInv, NEW c \in Clients, Commit(c)
  PROVE  IInv'
<1> DEFINE p == pending[c]
<1>0. RowsTyped /\ SafeWrite(p.row, p.codes)
  BY DEF IInv, Commit, InFlightOK, Idle
<1>1. /\ row' = Updated(row, p.row)
      /\ approvals' = [a \in ApprovalId |->
           IF a \in DOMAIN p.codes THEN Updated(approvals[a], p.codes[a]) ELSE approvals[a]]
      /\ failures' = [a \in ApprovalId |-> IF a = p.guess THEN failures[a] + 1 ELSE failures[a]]
      /\ pending' = [pending EXCEPT ![c] = Idle]
      /\ now' = now
  BY DEF Commit
<1>2. /\ DOMAIN row' = Columns
      /\ \A col \in Columns : row'[col] = IF col \in DOMAIN p.row THEN p.row[col] ELSE row[col]
  BY <1>0, <1>1 DEF Updated, RowsTyped
<1>3. \A col \in Columns : row'[col] \in ColumnType[col]
  BY <1>0, <1>2 DEF SafeWrite, ColumnsTyped, RowsTyped
<1>4. \A a \in ApprovalId :
        approvals'[a] \in Approval /\
        approvals'[a].verified_at =
          IF a \in DOMAIN p.codes /\ "verified_at" \in DOMAIN p.codes[a]
          THEN p.codes[a].verified_at ELSE approvals[a].verified_at
  <2> SUFFICES ASSUME NEW a \in ApprovalId
               PROVE  approvals'[a] \in Approval /\
                      approvals'[a].verified_at =
                        IF a \in DOMAIN p.codes /\ "verified_at" \in DOMAIN p.codes[a]
                        THEN p.codes[a].verified_at ELSE approvals[a].verified_at
    OBVIOUS
  <2>1. CASE a \notin DOMAIN p.codes
    BY <1>0, <1>1, <2>1 DEF RowsTyped
  <2>2. CASE a \in DOMAIN p.codes
    <3> DEFINE old == approvals[a]
               code == p.codes[a]
               new == approvals'[a]
    <3>1. old \in Approval
      BY <1>0 DEF RowsTyped
    <3>2. new = [col \in DOMAIN old |-> IF col \in DOMAIN code THEN code[col] ELSE old[col]]
      BY <1>1, <2>2 DEF Updated
    <3>3. new = [issued |-> new.issued, attempts |-> new.attempts, locked |-> new.locked,
                 verified_at |-> new.verified_at, expires_at |-> new.expires_at]
      BY <3>1, <3>2 DEF Approval
    <3>4. new.issued \in BOOLEAN /\ new.locked \in BOOLEAN
      BY <1>0, <2>2, <3>1, <3>2 DEF Approval, SafeWrite, CodesTyped
    <3>5. new.attempts \in Nat /\ new.verified_at \in Time \cup {None} /\ new.expires_at \in Time
      BY <1>0, <2>2, <3>1, <3>2 DEF Approval, SafeWrite, CodesTyped
    <3>6. new \in Approval
      BY <3>3, <3>4, <3>5 DEF Approval
    <3>7. new.verified_at = IF "verified_at" \in DOMAIN code THEN code.verified_at
                            ELSE old.verified_at
      BY <3>1, <3>2 DEF Approval
    <3> QED
      BY <2>2, <3>6, <3>7
  <2> QED
    BY <2>1, <2>2
<1>5. RowsTyped'
  <2>1. approvals' \in [ApprovalId -> Approval]
    BY <1>1, <1>4
  <2>2. failures' \in [ApprovalId -> Nat]
    BY <1>0, <1>1 DEF RowsTyped
  <2>3. \A d \in Clients : pending'[d].at \in {"idle", "requesting", "verifying", "commit"}
    BY <1>0, <1>1 DEF RowsTyped, Idle, IInv
  <2> QED
    BY <1>0, <1>1, <1>2, <1>3, <2>1, <2>2, <2>3 DEF RowsTyped
<1>6. /\ row.watermark # None => row'.watermark # None
      /\ row.ends_at # None => row'.ends_at # None
  BY <1>0, <1>2 DEF SafeWrite, ColumnsTyped, Columns, Stamps
<1>7. /\ row'.status \in Running => row'.watermark # None
      /\ row'.status = "paused" => row'.paused_at # None
      /\ row'.status = "ended" => row'.ends_at # None
  <2>1. /\ row.status \in Running => row.watermark # None
        /\ row.status = "paused" => row.paused_at # None
        /\ row.status = "ended" => row.ends_at # None
    BY DEF IInv, WatermarkIsAVerification, ClockColumnsSet, Running
  <2>2. CASE "status" \in DOMAIN p.row
    <3>1. row'.status = p.row.status
      BY <1>2, <2>2 DEF Columns
    <3>2. \A col \in {"watermark", "ends_at"} : col \in DOMAIN p.row => row'[col] # None
      BY <1>0, <1>2 DEF SafeWrite, ColumnsTyped, Columns, Stamps
    <3>3. "paused_at" \in DOMAIN p.row => row'.paused_at = p.row.paused_at
      BY <1>2 DEF Columns, Stamps
    <3> QED
      BY <1>0, <1>6, <2>2, <3>1, <3>2, <3>3 DEF SafeWrite, StatusJustified
  <2>3. CASE "status" \notin DOMAIN p.row
    <3>1. row'.status = row.status
      BY <1>2, <2>3 DEF Columns
    <3>2. row'.paused_at = row.paused_at
      BY <1>0, <1>2, <2>3 DEF SafeWrite, PauseJustified, Columns, Stamps
    <3> QED
      BY <1>6, <2>1, <3>1, <3>2
  <2> QED
    BY <2>2, <2>3
<1>8. row'.watermark # None => \E a \in ApprovalId : approvals'[a].verified_at = row'.watermark
  <2>1. CASE "watermark" \in DOMAIN p.row
    <3>1. PICK a \in DOMAIN p.codes : /\ "verified_at" \in DOMAIN p.codes[a]
                                      /\ p.codes[a].verified_at = p.row.watermark
      BY <1>0, <2>1 DEF SafeWrite, WatermarkJustified
    <3>2. a \in ApprovalId
      BY <1>0 DEF SafeWrite, CodesTyped
    <3>3. row'.watermark = p.row.watermark
      BY <1>2, <2>1 DEF Columns, Stamps
    <3> QED
      BY <1>4, <3>1, <3>2, <3>3
  <2>2. CASE "watermark" \notin DOMAIN p.row
    <3>1. row'.watermark = row.watermark
      BY <1>2, <2>2 DEF Columns, Stamps
    <3>2. \A a \in ApprovalId : approvals'[a].verified_at = approvals[a].verified_at
      BY <1>0, <1>4, <2>2 DEF SafeWrite, WatermarkJustified
    <3> QED
      BY <3>1, <3>2 DEF IInv, WatermarkIsAVerification
  <2> QED
    BY <2>1, <2>2
<1>9. WatermarkIsAVerification' /\ ClockColumnsSet'
  BY <1>7, <1>8 DEF WatermarkIsAVerification, ClockColumnsSet, Running
<1>10. \A w : StatusJustified(w) => StatusJustified(w)'
  BY <1>6 DEF StatusJustified
<1>11. \A q : InFlightOK(q) => InFlightOK(q)'
  BY <1>10 DEF InFlightOK, SafeWrite, ColumnsTyped, CodesTyped, PauseJustified, WatermarkJustified
<1>12. DOMAIN pending' = Clients /\ \A d \in Clients : InFlightOK(pending'[d])
  BY <1>1 DEF IInv, InFlightOK
<1>13. \A d \in Clients : InFlightOK(pending[d])'
  BY <1>11, <1>12
<1>14. ExhaustedIsLocked'
  <2> SUFFICES ASSUME NEW a \in ApprovalId, approvals'[a].attempts >= MaxAttempts
               PROVE  approvals'[a].locked
    BY DEF ExhaustedIsLocked
  <2>1. approvals[a].attempts >= MaxAttempts => approvals[a].locked
    BY DEF IInv, ExhaustedIsLocked
  <2>2. CASE a \notin DOMAIN p.codes
    BY <1>1, <2>1, <2>2
  <2>3. CASE a \in DOMAIN p.codes
    <3>1. approvals[a] \in Approval
      BY <1>0 DEF RowsTyped
    <3>2. approvals'[a] = [col \in DOMAIN approvals[a] |->
             IF col \in DOMAIN p.codes[a] THEN p.codes[a][col] ELSE approvals[a][col]]
      BY <1>1, <2>3 DEF Updated
    <3> QED
      BY <1>0, <2>1, <2>3, <3>1, <3>2 DEF Approval, SafeWrite, CodesTyped
  <2> QED
    BY <2>2, <2>3
<1> QED
  BY <1>5, <1>9, <1>12, <1>13, <1>14 DEF IInv

\* Every step keeps the invariant.
LEMMA StepSafe == IInv /\ [Next]_vars => IInv'
<1> SUFFICES ASSUME IInv, [Next]_vars PROVE IInv'
  OBVIOUS
<1>1. ASSUME NEW c \in Clients, Abort(c)
      PROVE  IInv'
  <2>1. InFlightOK(Idle) /\ Idle.at = "idle"
    BY DEF InFlightOK, Idle
  <2> QED
    BY <1>1, <2>1, PendingStep DEF Abort
<1>2. \A q : UNCHANGED row => (InFlightOK(q)' <=> InFlightOK(q))
  BY DEF InFlightOK, SafeWrite, StatusJustified, ColumnsTyped, CodesTyped, PauseJustified,
         WatermarkJustified
<1>3. CASE Tick
  <2>1. RowsTyped'
    BY <1>3 DEF IInv, RowsTyped, Tick
  <2>2. WatermarkIsAVerification' /\ ClockColumnsSet' /\ ExhaustedIsLocked'
    BY <1>3 DEF IInv, WatermarkIsAVerification, ClockColumnsSet, ExhaustedIsLocked, Tick
  <2> QED
    BY <1>2, <1>3, <2>1, <2>2 DEF IInv, Tick
<1>4. CASE UNCHANGED vars
  <2>1. RowsTyped'
    BY <1>4 DEF IInv, RowsTyped, vars
  <2>2. WatermarkIsAVerification' /\ ClockColumnsSet' /\ ExhaustedIsLocked'
    BY <1>4 DEF IInv, WatermarkIsAVerification, ClockColumnsSet, ExhaustedIsLocked, vars
  <2> QED
    BY <1>2, <1>4, <2>1, <2>2 DEF IInv, vars
<1> QED
  BY <1>1, <1>3, <1>4, VersionedSafe, ApprovingSafe, CommitSafe DEF Next

\* The inductive invariant holds in every reachable state.
THEOREM Invariance == Spec => []IInv
<1> QED
  BY InitIInv, StepSafe, PTL DEF Spec

\* The rows and counters keep their types under every interleaving of the
\* handlers of app/api/v1/sessions.py; pause, resume and close leave the instants
\* that later requests compute from.
THEOREM TypeCorrect == Spec => []TypeOK
<1>1. IInv => TypeOK
  BY DEF IInv, TypeOK
<1> QED
  BY <1>1, Invariance, PTL

\* The watermark of verify_approval is never lost, and never invented.
THEOREM WatermarkSound == Spec => []WatermarkIsAVerification
<1>1. IInv => WatermarkIsAVerification
  BY DEF IInv
<1> QED
  BY <1>1, Invariance, PTL

\* Dual control: no interleaving of any number of requests makes a session
\* authorized, live or paused before a code is verified.
THEOREM DualControlHolds == Spec => []DualControl
<1>1. IInv => DualControl
  BY DEF IInv, WatermarkIsAVerification, DualControl
<1> QED
  BY <1>1, Invariance, PTL

\* The lock on a code outlives every late write to its row.
THEOREM LockoutHolds == Spec => LockoutIsPermanent
<1> DEFINE Kept == \A a \in ApprovalId :
                     /\ approvals[a].locked => approvals'[a].locked
                     /\ approvals'[a].attempts >= MaxAttempts => approvals'[a].locked
<1>1. ASSUME IInv, IInv', [Next]_vars
      PROVE  Kept
  <2>1. \A a \in ApprovalId : approvals'[a].attempts >= MaxAttempts => approvals'[a].locked
    BY <1>1 DEF IInv, ExhaustedIsLocked
  <2>2. ASSUME NEW c \in Clients, Commit(c), NEW a \in ApprovalId, approvals[a].locked
        PROVE  approvals'[a].locked
    <3>1. RowsTyped /\ SafeWrite(pending[c].row, pending[c].codes)
      BY <1>1, <2>2 DEF IInv, Commit, InFlightOK, Idle
    <3>2. approvals[a] \in Approval
      BY <3>1 DEF RowsTyped
    <3>3. approvals'[a] = IF a \in DOMAIN pending[c].codes
                          THEN Updated(approvals[a], pending[c].codes[a]) ELSE approvals[a]
      BY <2>2 DEF Commit
    <3> QED
      BY <2>2, <3>1, <3>2, <3>3 DEF Approval, Updated, SafeWrite, CodesTyped
  <2>3. (\E c \in Clients : Commit(c)) \/ UNCHANGED approvals
    BY <1>1 DEF Next, Versioned, Start, Pause, Resume, Close, Extend, UpdateGoal, SetVisibility,
                Moves, Guarded, Approving, RequestApproval, VerifyApproval, IssueCode, WrongCode,
                RightCode, Abort, Tick, vars
  <2> QED
    BY <2>1, <2>2, <2>3
<1>2. ASSUME IInv, IInv', [Next]_vars
      PROVE  [Kept]_vars
  BY <1>1, <1>2
<1> QED
  BY <1>2, Invariance, PTL DEF Spec, LockoutIsPermanent

------------------------------------------------------------------------------
(***************************************************************************)
(* Theorems about SessionLifecycle when requests are served one at a time: *)
(* the documented state machine is implemented, and codes keep their       *)
(* promises.  (With two requests at once they fail; the runs show how.)    *)
(* The argument: between what the only request reads and its commit the    *)
(* row and the codes stay as they were; only the clock goes on.            *)
(***************************************************************************)

OneClient == \A c, d \in Clients : c = d

\* The row that the commit of p leaves.
After(p) == Updated(row, p.row)

\* Nothing moves, or a new version tells of a move that is allowed.
RowStep(n) ==
  \/ n.status = row.status /\ n.version = row.version
  \/ /\ n.version = row.version + 1
     /\ n.status = row.status \/ n.status \in AllowedTransitions[row.status]

EndsInThePast(n) == n.status = "ended" => n.ends_at <= now

\* A code is issued or dated anew.
Renews(code) == "issued" \in DOMAIN code \/ "expires_at" \in DOMAIN code

\* A code is verified that is neither verified nor locked; a new one comes with
\* a lock on those outstanding; and attempts are counted for the code that was
\* tried, which has one left.
CodesFresh(p) ==
  /\ \A a \in DOMAIN p.codes :
       /\ "verified_at" \in DOMAIN p.codes[a] => approvals[a].verified_at = None /\ ~approvals[a].locked
       /\ Renews(p.codes[a]) =>
            \A x \in ApprovalId \ {a} :
              /\ x \in DOMAIN p.codes => ~Renews(p.codes[x])
              /\ Outstanding(x) => x \in DOMAIN p.codes /\ "locked" \in DOMAIN p.codes[x]
  /\ \A a \in ApprovalId : a = p.guess <=> a \in DOMAIN p.codes /\ "attempts" \in DOMAIN p.codes[a]
  /\ p.guess \in ApprovalId =>
       /\ p.codes[p.guess].attempts = approvals[p.guess].attempts + 1
       /\ approvals[p.guess].attempts < MaxAttempts

\* What the request holds is computed from the rows as they are.
UpToDate(p) ==
  /\ p.at = "requesting" =>
       /\ row.status \in {"draft", "approval_requested"}
       /\ After(p).status = "approval_requested" /\ After(p).version = row.version + 1
  /\ p.at = "verifying" => p.status = row.status /\ p.version = row.version
  /\ p.at = "commit" =>
       /\ p.expected # None => p.expected = row.version
       /\ RowStep(After(p)) /\ EndsInThePast(After(p)) /\ CodesFresh(p)

\* The audit trail and the column count the same attempts.
AttemptsCounted ==
  \A a \in ApprovalId : failures[a] = approvals[a].attempts /\ approvals[a].attempts <= MaxAttempts

SerialInv ==
  /\ \A c \in Clients : UpToDate(pending[c])
  /\ AttemptsCounted
  /\ OneOutstandingCode
  /\ EndedIsOver

------------------------------------------------------------------------------

LEMMA SerialInit == Init => SerialInv
<1> SUFFICES ASSUME Init PROVE SerialInv
  OBVIOUS
<1>1. \A c \in Clients : UpToDate(pending[c])
  BY DEF Init, UpToDate, Idle
<1>2. AttemptsCounted /\ OneOutstandingCode
  BY TimesAssumption DEF Init, AttemptsCounted, OneOutstandingCode, Outstanding, Unissued
<1>3. EndedIsOver
  BY DEF Init, EndedIsOver
<1> QED BY <1>1, <1>2, <1>3 DEF SerialInv

\* What is not dirty has the row's value already.
LEMMA DirtyUpdates ==
  ASSUME NEW w, DOMAIN w \subseteq DOMAIN row
  PROVE  Updated(row, Dirty(w)) = Updated(row, w)
BY DEF Updated, Dirty

\* A read leaves the rows and gives the request what is up to date.
LEMMA ReadStep ==
  ASSUME OneClient, SerialInv, NEW c \in Clients, NEW p, UpToDate(p),
         DOMAIN pending = Clients, pending' = [pending EXCEPT ![c] = p],
         UNCHANGED <<now, row, approvals, failures>>
  PROVE  SerialInv'
<1>1. pending'[c] = p /\ \A d \in Clients : d = c
  BY DEF OneClient
<1>2. \A q : UpToDate(q) => UpToDate(q)'
  BY DEF UpToDate, After, RowStep, EndsInThePast, CodesFresh, Outstanding, Unexpired
<1>3. \A d \in Clients : UpToDate(pending[d])'
  BY <1>1, <1>2
<1>4. AttemptsCounted' /\ OneOutstandingCode' /\ EndedIsOver'
  BY DEF SerialInv, AttemptsCounted, OneOutstandingCode, Outstanding, Unexpired, EndedIsOver
<1> QED BY <1>3, <1>4 DEF SerialInv

\* A route that quotes a version: the row it leaves is a step and, when ended,
\* over.
LEMMA GuardedSerial ==
  ASSUME OneClient, IInv, SerialInv, NEW c \in Clients, NEW expected, NEW columns,
         DOMAIN columns \subseteq Columns, Guarded(c, expected, columns),
         RowStep(Updated(row, columns)), EndsInThePast(Updated(row, columns))
  PROVE  SerialInv'
<1> DEFINE p == Writing(expected, Dirty(columns), NoCodes, None)
<1>1. After(p) = Updated(row, columns)
  BY DirtyUpdates DEF After, Writing, IInv, RowsTyped
<1>2. p.expected = row.version /\ p.at = "commit" /\ p.codes = NoCodes /\ p.guess = None
  BY DEF Guarded, check_version, Writing
<1>3. CodesFresh(p)
  BY <1>2, ApprovalsAssumption DEF CodesFresh, NoCodes
<1> HIDE DEF p
<1>4. UpToDate(p)
  BY <1>1, <1>2, <1>3 DEF UpToDate
<1>5. pending' = [pending EXCEPT ![c] = p] /\ UNCHANGED <<now, row, approvals, failures>>
  BY DEF Guarded, p
<1> QED BY <1>4, <1>5, ReadStep DEF IInv

LEMMA MovesSerial ==
  ASSUME OneClient, IInv, SerialInv, NEW c \in Clients, NEW expected, NEW to, NEW columns,
         DOMAIN columns \subseteq Stamps, Moves(c, expected, to, columns),
         to = "ended" => (IF "ends_at" \in DOMAIN columns THEN columns.ends_at ELSE row.ends_at) <= now
  PROVE  SerialInv'
<1> DEFINE w == [col \in DOMAIN columns \cup {"status", "version"} |->
                   IF col \in DOMAIN columns THEN columns[col] ELSE Moved(row.version, to)[col]]
           n == Updated(row, w)
<1>1. DOMAIN w = DOMAIN columns \cup {"status", "version"} /\ DOMAIN w \subseteq Columns
      /\ w.status = to /\ w.version = row.version + 1
      /\ ("ends_at" \in DOMAIN columns => w.ends_at = columns.ends_at)
  BY DEF Moved, Columns, Stamps
<1>2. Guarded(c, expected, w) /\ to \in AllowedTransitions[row.status]
  BY DEF Moves, CanMove
<1> HIDE DEF w
<1>3. n.status = to /\ n.version = row.version + 1
      /\ n.ends_at = IF "ends_at" \in DOMAIN columns THEN columns.ends_at ELSE row.ends_at
  BY <1>1 DEF Updated, IInv, RowsTyped, Columns, Stamps
<1>4. RowStep(n) /\ EndsInThePast(n)
  BY <1>2, <1>3 DEF RowStep, EndsInThePast
<1> QED BY <1>1, <1>2, <1>4, GuardedSerial

\* A change that leaves the status alone.
LEMMA EditSerial ==
  ASSUME OneClient, IInv, SerialInv, NEW c \in Clients, NEW expected, NEW columns,
         DOMAIN columns \subseteq Columns \ {"status"}, "version" \in DOMAIN columns,
         columns.version = row.version + 1, Guarded(c, expected, columns),
         "ends_at" \in DOMAIN columns => row.status # "ended"
  PROVE  SerialInv'
<1> DEFINE n == Updated(row, columns)
<1>1. n.status = row.status /\ n.version = row.version + 1
      /\ ("ends_at" \notin DOMAIN columns => n.ends_at = row.ends_at)
  BY DEF Updated, IInv, RowsTyped, Columns, Stamps
<1>2. RowStep(n) /\ EndsInThePast(n)
  BY <1>1 DEF RowStep, EndsInThePast, SerialInv, EndedIsOver
<1> QED BY <1>2, GuardedSerial

LEMMA VersionedSerial ==
  ASSUME OneClient, IInv, SerialInv, NEW c \in Clients, Versioned(c)
  PROVE  SerialInv'
<1>0. row.ends_at \in Int \cup {None} /\ now \in Int /\ row.status \in Status
  BY Stamped DEF IInv
<1>1. PICK expected \in 1..MaxVersion :
        \/ Start(c, expected) \/ Pause(c, expected) \/ Resume(c, expected) \/ Close(c, expected)
        \/ \E seconds \in Extensions : Extend(c, expected, seconds)
        \/ \E goal \in Goals : UpdateGoal(c, expected, goal)
        \/ \E visible \in Visibilities : SetVisibility(c, expected, visible)
  BY DEF Versioned
<1>2. CASE Start(c, expected)
  <2> DEFINE w == [starts_at |-> now, ends_at |-> now + Duration]
  <2>1. Moves(c, expected, "live", w) /\ DOMAIN w \subseteq Stamps
    BY <1>2 DEF Start, Stamps
  <2> HIDE DEF w
  <2> QED BY <2>1, MovesSerial
<1>3. CASE Pause(c, expected)
  <2> DEFINE w == [paused_at |-> now]
  <2>1. Moves(c, expected, "paused", w) /\ DOMAIN w \subseteq Stamps
    BY <1>3 DEF Pause, Stamps
  <2> HIDE DEF w
  <2> QED BY <2>1, MovesSerial
<1>4. CASE Resume(c, expected)
  <2> DEFINE w == IF row.paused_at # None /\ row.ends_at # None
                  THEN [paused_at |-> None, ends_at |-> row.ends_at + (now - row.paused_at)]
                  ELSE [paused_at |-> None]
  <2>1. Moves(c, expected, "live", w) /\ DOMAIN w \subseteq Stamps
    BY <1>4 DEF Resume, Stamps
  <2> HIDE DEF w
  <2> QED BY <2>1, MovesSerial
<1>5. CASE Close(c, expected)
  <2> DEFINE w == IF Over THEN NoColumns ELSE [ends_at |-> now]
  <2>1. Moves(c, expected, "ended", w) /\ DOMAIN w \subseteq Stamps
    BY <1>5 DEF Close, NoColumns, Stamps
  <2>2. (IF "ends_at" \in DOMAIN w THEN w.ends_at ELSE row.ends_at) <= now
    BY <1>0, NoneAssumption DEF Over, NoColumns
  <2> HIDE DEF w
  <2> QED BY <2>1, <2>2, MovesSerial
<1>6. ASSUME NEW seconds \in Extensions, Extend(c, expected, seconds) PROVE SerialInv'
  <2> DEFINE w == [ends_at |-> row.ends_at + seconds, version |-> row.version + 1]
  <2>1. Guarded(c, expected, w) /\ row.status # "ended"
    BY <1>6 DEF Extend
  <2>2. DOMAIN w = {"ends_at", "version"} /\ w.version = row.version + 1
    OBVIOUS
  <2> HIDE DEF w
  <2> QED BY <2>1, <2>2, EditSerial DEF Columns, Stamps
<1>7. ASSUME NEW goal \in Goals, UpdateGoal(c, expected, goal) PROVE SerialInv'
  <2> DEFINE w == [goal_amount |-> goal, version |-> row.version + 1]
  <2>1. Guarded(c, expected, w)
    BY <1>7 DEF UpdateGoal
  <2>2. DOMAIN w = {"goal_amount", "version"} /\ w.version = row.version + 1
    OBVIOUS
  <2> HIDE DEF w
  <2> QED BY <2>1, <2>2, EditSerial DEF Columns, Stamps
<1>8. ASSUME NEW visible \in Visibilities, SetVisibility(c, expected, visible) PROVE SerialInv'
  <2> DEFINE w == [amount_visible |-> visible, version |-> row.version + 1]
  <2>1. Guarded(c, expected, w)
    BY <1>8 DEF SetVisibility
  <2>2. DOMAIN w = {"amount_visible", "version"} /\ w.version = row.version + 1
    OBVIOUS
  <2> HIDE DEF w
  <2> QED BY <2>1, <2>2, EditSerial DEF Columns, Stamps
<1> QED BY <1>1, <1>2, <1>3, <1>4, <1>5, <1>6, <1>7, <1>8

\* The approval routes.
LEMMA ApprovingSerial ==
  ASSUME OneClient, IInv, SerialInv, NEW c \in Clients, Approving(c)
  PROVE  SerialInv'
<1>0. /\ RowsTyped /\ DOMAIN pending = Clients /\ UpToDate(pending[c]) /\ InFlightOK(pending[c])
      /\ DOMAIN row = Columns /\ row.version \in Nat /\ row.status \in Status
  BY Stamped DEF IInv, SerialInv, RowsTyped
<1>1. CASE RequestApproval(c)
  <2> DEFINE w == Moved(row.version, "approval_requested")
             p == [at |-> "requesting", row |-> Dirty(w)]
  <2>1. DOMAIN w = {"status", "version"} /\ w.status = "approval_requested" /\ w.version = row.version + 1
    BY DEF Moved
  <2>2. After(p) = Updated(row, w)
    BY <1>0, <2>1, DirtyUpdates DEF After, Columns
  <2>3. After(p).status = "approval_requested" /\ After(p).version = row.version + 1
    BY <1>0, <2>1, <2>2 DEF Updated, Columns
  <2>4. UpToDate(p)
    BY <1>1, <2>3 DEF UpToDate, RequestApproval
  <2> QED BY <1>0, <1>1, <2>4, ReadStep DEF RequestApproval
<1>2. CASE VerifyApproval(c)
  <2> DEFINE p == [at |-> "verifying", status |-> row.status, version |-> row.version]
  <2>1. UpToDate(p)
    BY DEF UpToDate
  <2> QED BY <1>0, <1>2, <2>1, ReadStep DEF VerifyApproval
<1>3. ASSUME NEW a \in ApprovalId, IssueCode(c, a) PROVE SerialInv'
  <2> DEFINE replaced == {x \in ApprovalId : Outstanding(x)}
             codes == [x \in replaced \cup {a} |-> IF x = a THEN NewApproval ELSE [locked |-> TRUE]]
             p == Writing(None, pending[c].row, codes, None)
  <2>1. p.at = "commit" /\ p.expected = None /\ p.codes = codes /\ p.guess = None /\ p.row = pending[c].row
    BY DEF Writing
  <2>2. CodesFresh(p)
    <3>1. \A x \in DOMAIN codes : codes[x] = IF x = a THEN NewApproval ELSE [locked |-> TRUE]
      OBVIOUS
    <3>2. \A x \in DOMAIN codes : /\ "verified_at" \notin DOMAIN codes[x] /\ "attempts" \notin DOMAIN codes[x]
                                  /\ Renews(codes[x]) => x = a
                                  /\ x # a => "locked" \in DOMAIN codes[x]
      BY <3>1 DEF NewApproval, Renews
    <3>3. \A x \in ApprovalId : Outstanding(x) => x \in DOMAIN codes
      OBVIOUS
    <3> HIDE DEF codes
    <3> QED BY <2>1, <3>2, <3>3, ApprovalsAssumption DEF CodesFresh
  <2>3. /\ row.status \in {"draft", "approval_requested"}
        /\ After(pending[c]).status = "approval_requested" /\ After(pending[c]).version = row.version + 1
    BY <1>0, <1>3 DEF IssueCode, UpToDate
  <2>4. After(p) = After(pending[c])
    BY <2>1 DEF After
  <2>5. RowStep(After(p)) /\ EndsInThePast(After(p))
    BY <2>3, <2>4 DEF RowStep, EndsInThePast, AllowedTransitions
  <2>6. UpToDate(p)
    BY <2>1, <2>2, <2>5 DEF UpToDate
  <2>7. pending' = [pending EXCEPT ![c] = p] /\ UNCHANGED <<now, row, approvals, failures>>
    BY <1>3 DEF IssueCode
  <2> HIDE DEF p
  <2> QED BY <1>0, <2>6, <2>7, ReadStep
<1>4. ASSUME NEW a \in ApprovalId, WrongCode(c, a) PROVE SerialInv'
  <2> DEFINE attempts == approvals[a].attempts + 1
             columns == IF attempts >= MaxAttempts
                        THEN [attempts |-> attempts, locked |-> TRUE]
                        ELSE [attempts |-> attempts]
             codes == [x \in {a} |-> columns]
             p == Writing(None, NoColumns, codes, a)
  <2>1. p.at = "commit" /\ p.expected = None /\ p.codes = codes /\ p.guess = a /\ p.row = NoColumns
    BY DEF Writing
  <2>2. /\ After(p).status = row.status /\ After(p).version = row.version
        /\ After(p).ends_at = row.ends_at
    BY <1>0, <2>1 DEF After, Updated, NoColumns, Columns, Stamps
  <2>3. approvals[a].attempts < MaxAttempts
    BY <1>0, <1>4, TimesAssumption DEF WrongCode, Outstanding, IInv, ExhaustedIsLocked, RowsTyped, Approval
  <2>4. /\ columns.attempts = attempts /\ "attempts" \in DOMAIN columns
        /\ "verified_at" \notin DOMAIN columns /\ ~Renews(columns)
    BY DEF Renews
  <2>5. CodesFresh(p)
    <3>1. DOMAIN codes = {a} /\ codes[a] = columns
      OBVIOUS
    <3> HIDE DEF columns, codes, p
    <3>2. p.codes[a].attempts = approvals[a].attempts + 1
      BY <2>1, <2>4, <3>1
    <3> QED BY <2>1, <2>3, <2>4, <3>1, <3>2 DEF CodesFresh
  <2>6. UpToDate(p)
    BY <2>1, <2>2, <2>5 DEF UpToDate, RowStep, EndsInThePast, SerialInv, EndedIsOver
  <2>7. pending' = [pending EXCEPT ![c] = p] /\ UNCHANGED <<now, row, approvals, failures>>
    BY <1>4 DEF WrongCode
  <2> HIDE DEF p
  <2> QED BY <1>0, <2>6, <2>7, ReadStep
<1>5. ASSUME NEW a \in ApprovalId, RightCode(c, a) PROVE SerialInv'
  <2> DEFINE w == [status |-> "authorized", version |-> pending[c].version + 1, watermark |-> now]
             codes == [x \in {a} |-> [verified_at |-> now]]
             p == Writing(None, w, codes, None)
  <2>1. p.at = "commit" /\ p.expected = None /\ p.codes = codes /\ p.guess = None /\ p.row = w
    BY DEF Writing
  <2>2. pending[c].version = row.version /\ "authorized" \in AllowedTransitions[row.status]
    BY <1>0, <1>5 DEF RightCode, UpToDate, CanMove
  <2>3. After(p).status = "authorized" /\ After(p).version = row.version + 1
    BY <1>0, <2>1, <2>2 DEF After, Updated, Columns
  <2>4. RowStep(After(p)) /\ EndsInThePast(After(p))
    BY <2>2, <2>3 DEF RowStep, EndsInThePast
  <2>5. CodesFresh(p)
    BY <1>5, <2>1, ApprovalsAssumption DEF CodesFresh, RightCode, Outstanding, Renews
  <2>6. UpToDate(p)
    BY <2>1, <2>4, <2>5 DEF UpToDate
  <2>7. pending' = [pending EXCEPT ![c] = p] /\ UNCHANGED <<now, row, approvals, failures>>
    BY <1>5 DEF RightCode
  <2> HIDE DEF p
  <2> QED BY <1>0, <2>6, <2>7, ReadStep
<1> QED BY <1>1, <1>2, <1>3, <1>4, <1>5 DEF Approving

------------------------------------------------------------------------------
(* The commit *)

\* What a commit leaves of an approval.
LEMMA CodeWritten ==
  ASSUME IInv, NEW c \in Clients, Commit(c), NEW a \in ApprovalId
  PROVE  LET codes == pending[c].codes IN
         /\ approvals[a] \in Approval /\ approvals'[a] \in Approval
         /\ a \notin DOMAIN codes => approvals'[a] = approvals[a]
         /\ a \in DOMAIN codes =>
              \A col \in {"issued", "attempts", "locked", "verified_at", "expires_at"} :
                approvals'[a][col] = IF col \in DOMAIN codes[a] THEN codes[a][col] ELSE approvals[a][col]
<1>1. IInv'
  BY CommitSafe
<1>2. approvals[a] \in Approval /\ approvals'[a] \in Approval
  BY <1>1 DEF IInv, RowsTyped
<1>3. approvals'[a] = IF a \in DOMAIN pending[c].codes
                      THEN Updated(approvals[a], pending[c].codes[a]) ELSE approvals[a]
  BY DEF Commit
<1> QED BY <1>2, <1>3 DEF Updated, Approval

LEMMA CommitSerial ==
  ASSUME OneClient, IInv, SerialInv, NEW c \in Clients, Commit(c)
  PROVE  SerialInv'
<1> DEFINE p == pending[c]
<1>0. /\ UpToDate(p) /\ p.at = "commit" /\ SafeWrite(p.row, p.codes) /\ CodesFresh(p)
      /\ DOMAIN pending = Clients /\ now' = now
      /\ \A a \in DOMAIN p.codes : a \in ApprovalId
  BY DEF SerialInv, IInv, Commit, InFlightOK, Idle, UpToDate, SafeWrite, CodesTyped
<1>1. \A d \in Clients : UpToDate(pending[d])'
  <2>1. \A d \in Clients : pending'[d] = Idle
    BY <1>0 DEF Commit, OneClient
  <2> QED BY <2>1 DEF UpToDate, Idle
<1>2. EndedIsOver'
  BY <1>0 DEF Commit, UpToDate, After, EndsInThePast, EndedIsOver
<1>3. AttemptsCounted'
  <2> SUFFICES ASSUME NEW a \in ApprovalId
               PROVE  failures'[a] = approvals'[a].attempts /\ approvals'[a].attempts <= MaxAttempts
    BY DEF AttemptsCounted
  <2>1. /\ failures[a] = approvals[a].attempts /\ approvals[a].attempts <= MaxAttempts
        /\ approvals[a].attempts \in Nat
    BY DEF SerialInv, AttemptsCounted, IInv, RowsTyped, Approval
  <2>2. failures'[a] = IF a = p.guess THEN failures[a] + 1 ELSE failures[a]
    BY DEF Commit
  <2>3. CASE a = p.guess
    <3>1. /\ a \in DOMAIN p.codes /\ "attempts" \in DOMAIN p.codes[a]
          /\ p.codes[a].attempts = approvals[a].attempts + 1 /\ approvals[a].attempts < MaxAttempts
      BY <1>0, <2>3 DEF CodesFresh
    <3>2. approvals'[a].attempts = approvals[a].attempts + 1
      BY <3>1, CodeWritten
    <3> QED BY <2>1, <2>2, <2>3, <3>1, <3>2, TimesAssumption
  <2>4. CASE a # p.guess
    <3>1. ~(a \in DOMAIN p.codes /\ "attempts" \in DOMAIN p.codes[a])
      BY <1>0, <2>4 DEF CodesFresh
    <3>2. approvals'[a].attempts = approvals[a].attempts
      BY <3>1, CodeWritten
    <3> QED BY <2>1, <2>2, <2>4, <3>2
  <2> QED BY <2>3, <2>4
<1>4. OneOutstandingCode'
  <2>1. ASSUME NEW a \in ApprovalId, Outstanding(a)', ~(a \in DOMAIN p.codes /\ Renews(p.codes[a]))
        PROVE  Outstanding(a) /\ ~(a \in DOMAIN p.codes /\ "locked" \in DOMAIN p.codes[a])
    <3>1. CASE a \notin DOMAIN p.codes
      BY <1>0, <2>1, <3>1, CodeWritten DEF Outstanding, Unexpired
    <3>2. CASE a \in DOMAIN p.codes
      <4>1. \A col \in {"issued", "attempts", "locked", "verified_at", "expires_at"} :
              approvals'[a][col] = IF col \in DOMAIN p.codes[a] THEN p.codes[a][col] ELSE approvals[a][col]
        BY <3>2, CodeWritten
      <4>2. approvals'[a].issued /\ approvals'[a].verified_at = None /\ ~approvals'[a].locked
            /\ approvals'[a].expires_at >= now
        BY <1>0, <2>1 DEF Outstanding, Unexpired
      <4>3. "issued" \notin DOMAIN p.codes[a] /\ "expires_at" \notin DOMAIN p.codes[a]
        BY <2>1, <3>2 DEF Renews
      <4>4. /\ "locked" \in DOMAIN p.codes[a] => p.codes[a].locked = TRUE
            /\ "verified_at" \in DOMAIN p.codes[a] => p.codes[a].verified_at \in Int
        BY <1>0, <3>2 DEF SafeWrite, CodesTyped, Time
      <4>5. "locked" \notin DOMAIN p.codes[a] /\ "verified_at" \notin DOMAIN p.codes[a]
        BY <4>1, <4>2, <4>4, NoneAssumption
      <4> QED BY <4>1, <4>2, <4>3, <4>5 DEF Outstanding, Unexpired
    <3> QED BY <3>1, <3>2
  <2>2. SUFFICES ASSUME NEW a \in ApprovalId, NEW b \in ApprovalId, a # b, Outstanding(a)', Outstanding(b)'
                 PROVE  FALSE
    BY DEF OneOutstandingCode
  <2>3. ASSUME NEW x \in ApprovalId, NEW y \in ApprovalId, x # y, Outstanding(y)',
               x \in DOMAIN p.codes, Renews(p.codes[x])
        PROVE  FALSE
    <3>1. /\ y \in DOMAIN p.codes => ~Renews(p.codes[y])
          /\ Outstanding(y) => y \in DOMAIN p.codes /\ "locked" \in DOMAIN p.codes[y]
      BY <1>0, <2>3 DEF CodesFresh
    <3> QED BY <2>1, <2>3, <3>1
  <2>4. Outstanding(a) /\ Outstanding(b)
    BY <2>1, <2>2, <2>3
  <2> QED BY <2>2, <2>4 DEF SerialInv, OneOutstandingCode
<1> QED BY <1>1, <1>2, <1>3, <1>4 DEF SerialInv

LEMMA TickSerial ==
  ASSUME IInv, SerialInv, Tick
  PROVE  SerialInv'
<1>1. now \in Int /\ now' = now + 1 /\ UNCHANGED <<row, approvals, failures, pending>>
  BY Stamped DEF IInv, Tick
<1>2. \A a \in ApprovalId : Outstanding(a)' => Outstanding(a)
  <2>1. \A a \in ApprovalId : approvals[a].expires_at \in Int
    BY DEF IInv, RowsTyped, Approval, Time
  <2> QED BY <1>1, <2>1 DEF Outstanding, Unexpired
<1>3. ASSUME NEW d \in Clients PROVE UpToDate(pending[d])'
  <2> DEFINE p == pending[d]
  <2>1. UpToDate(p) /\ InFlightOK(p)
    BY DEF SerialInv, IInv
  <2>2. CASE p.at = "commit"
    <3>1. SafeWrite(p.row, p.codes) /\ RowStep(After(p)) /\ EndsInThePast(After(p)) /\ CodesFresh(p)
      BY <2>1, <2>2 DEF InFlightOK, Idle, UpToDate
    <3>2. After(p).status = "ended" => After(p).ends_at \in Int
      <4>1. /\ "ends_at" \in DOMAIN p.row => p.row.ends_at \in Int
            /\ "status" \in DOMAIN p.row /\ p.row.status = "ended"
                 => "ends_at" \in DOMAIN p.row \/ row.ends_at # None
        BY <3>1 DEF SafeWrite, ColumnsTyped, ColumnType, Stamps, Time, StatusJustified
      <4>2. row.ends_at \in Int \cup {None} /\ (row.status = "ended" => row.ends_at # None)
            /\ DOMAIN row = Columns
        BY Stamped DEF IInv, ClockColumnsSet, RowsTyped
      <4> QED BY <4>1, <4>2 DEF After, Updated, Columns, Stamps
    <3>3. EndsInThePast(After(p))'
      BY <1>1, <3>1, <3>2 DEF EndsInThePast, After
    <3>4. RowStep(After(p))'
      BY <1>1, <3>1 DEF RowStep, After
    <3>5. CodesFresh(p)'
      BY <1>1, <1>2, <3>1 DEF CodesFresh
    <3> QED BY <1>1, <2>1, <2>2, <3>3, <3>4, <3>5 DEF UpToDate
  <2>3. CASE p.at # "commit"
    BY <1>1, <2>1, <2>3 DEF UpToDate, After
  <2> QED BY <2>2, <2>3
<1>4. AttemptsCounted' /\ OneOutstandingCode'
  BY <1>1, <1>2 DEF SerialInv, AttemptsCounted, OneOutstandingCode
<1>5. EndedIsOver'
  <2>1. row.status = "ended" => row.ends_at \in Int
    BY Stamped DEF IInv, ClockColumnsSet
  <2> QED BY <1>1, <2>1 DEF SerialInv, EndedIsOver
<1> QED BY <1>3, <1>4, <1>5 DEF SerialInv

LEMMA SerialStep ==
  ASSUME OneClient
  PROVE  IInv /\ SerialInv /\ [Next]_vars => SerialInv'
<1> SUFFICES ASSUME IInv, SerialInv, [Next]_vars PROVE SerialInv'
  OBVIOUS
<1>1. ASSUME NEW c \in Clients, Abort(c) PROVE SerialInv'
  <2>1. UpToDate(Idle)
    BY DEF UpToDate, Idle
  <2> QED BY <1>1, <2>1, ReadStep DEF Abort, IInv
<1>2. CASE UNCHANGED vars
  BY <1>2 DEF vars, SerialInv, UpToDate, After, RowStep, EndsInThePast, CodesFresh, Outstanding,
     Unexpired, AttemptsCounted, OneOutstandingCode, EndedIsOver
<1> QED BY <1>1, <1>2, VersionedSerial, ApprovingSerial, CommitSerial, TickSerial DEF Next

LEMMA SerialInvariance ==
  ASSUME OneClient
  PROVE  Spec => [](IInv /\ SerialInv)
<1>1. IInv /\ SerialInv /\ [Next]_vars => SerialInv'
  BY SerialStep
<1> QED BY <1>1, SerialInit, InitIInv, StepSafe, PTL DEF Spec

------------------------------------------------------------------------------
(* What callers may rely on, one request at a time *)

\* A new code replaces the one before it (request_approval).
THEOREM OneCodeAtATime ==
  ASSUME OneClient
  PROVE  Spec => []OneOutstandingCode
<1>1. SerialInv => OneOutstandingCode
  BY DEF SerialInv
<1> QED BY <1>1, SerialInvariance, PTL

\* No more wrong codes are heard than MAX_APPROVAL_ATTEMPTS (verify_approval).
THEOREM GuessesAreBounded ==
  ASSUME OneClient
  PROVE  Spec => []GuessesBounded
<1>1. IInv /\ SerialInv => GuessesBounded
  BY DEF SerialInv, AttemptsCounted, GuessesBounded
<1> QED BY <1>1, SerialInvariance, PTL

\* The countdown of an ended session is over (close_session, extend_session).
THEOREM EndedStaysOver ==
  ASSUME OneClient
  PROVE  Spec => []EndedIsOver
<1>1. SerialInv => EndedIsOver
  BY DEF SerialInv
<1> QED BY <1>1, SerialInvariance, PTL

\* Steps other than a commit leave the rows.
LEMMA OnlyCommitsWrite ==
  ASSUME [Next]_vars
  PROVE  (\E c \in Clients : Commit(c)) \/ UNCHANGED <<row, approvals>>
<1>1. ASSUME NEW c \in Clients, Versioned(c) PROVE UNCHANGED <<row, approvals>>
  <2>1. ASSUME NEW expected, NEW columns, Guarded(c, expected, columns)
        PROVE  UNCHANGED <<row, approvals>>
    BY <2>1 DEF Guarded
  <2>2. ASSUME NEW expected, NEW to, NEW columns, Moves(c, expected, to, columns)
        PROVE  UNCHANGED <<row, approvals>>
    BY <2>1, <2>2 DEF Moves
  <2>3. PICK expected \in 1..MaxVersion :
          \/ Start(c, expected)
          \/ Pause(c, expected)
          \/ Resume(c, expected)
          \/ Close(c, expected)
          \/ \E seconds \in Extensions : Extend(c, expected, seconds)
          \/ \E goal \in Goals : UpdateGoal(c, expected, goal)
          \/ \E visible \in Visibilities : SetVisibility(c, expected, visible)
    BY <1>1 DEF Versioned
  <2>4. CASE Start(c, expected)
    BY <2>2, <2>4 DEF Start
  <2>5. CASE Pause(c, expected)
    BY <2>2, <2>5 DEF Pause
  <2>6. CASE Resume(c, expected)
    BY <2>2, <2>6 DEF Resume
  <2>7. CASE Close(c, expected)
    BY <2>2, <2>7 DEF Close
  <2>8. CASE \E seconds \in Extensions : Extend(c, expected, seconds)
    BY <2>1, <2>8 DEF Extend
  <2>9. CASE \E goal \in Goals : UpdateGoal(c, expected, goal)
    BY <2>1, <2>9 DEF UpdateGoal
  <2>10. CASE \E visible \in Visibilities : SetVisibility(c, expected, visible)
    BY <2>1, <2>10 DEF SetVisibility
  <2> QED BY <2>3, <2>4, <2>5, <2>6, <2>7, <2>8, <2>9, <2>10
<1>2. ASSUME NEW c \in Clients, Approving(c) PROVE UNCHANGED <<row, approvals>>
  <2>1. ASSUME NEW a \in ApprovalId, IssueCode(c, a) \/ WrongCode(c, a) \/ RightCode(c, a)
        PROVE  UNCHANGED <<row, approvals>>
    BY <2>1 DEF IssueCode, WrongCode, RightCode
  <2>2. CASE RequestApproval(c) \/ VerifyApproval(c)
    BY <2>2 DEF RequestApproval, VerifyApproval
  <2> QED BY <1>2, <2>1, <2>2 DEF Approving
<1>3. ASSUME NEW c \in Clients, Abort(c) PROVE UNCHANGED <<row, approvals>>
  BY <1>3 DEF Abort
<1>4. CASE Tick
  BY <1>4 DEF Tick
<1>5. CASE UNCHANGED vars
  BY <1>5 DEF vars
<1> QED BY <1>1, <1>2, <1>3, <1>4, <1>5 DEF Next

\* A code verified or locked is never verified again (verify_approval).
THEOREM SpentCodesStayDead ==
  ASSUME OneClient
  PROVE  Spec => SpentCodeIsDead
<1> DEFINE Dead == \A a \in ApprovalId :
                     (approvals[a].verified_at # None \/ approvals[a].locked) =>
                       approvals'[a].verified_at = approvals[a].verified_at
<1>1. ASSUME IInv, SerialInv, [Next]_vars PROVE Dead
  <2>1. ASSUME NEW c \in Clients, Commit(c), NEW a \in ApprovalId,
               approvals[a].verified_at # None \/ approvals[a].locked
        PROVE  approvals'[a].verified_at = approvals[a].verified_at
    <3>1. CodesFresh(pending[c])
      BY <1>1, <2>1 DEF SerialInv, UpToDate, Commit
    <3>2. ~(a \in DOMAIN pending[c].codes /\ "verified_at" \in DOMAIN pending[c].codes[a])
      BY <2>1, <3>1 DEF CodesFresh
    <3> QED BY <1>1, <2>1, <3>2, CodeWritten
  <2> QED BY <1>1, <2>1, OnlyCommitsWrite
<1>2. IInv /\ SerialInv /\ [Next]_vars => [Dead]_vars
  BY <1>1
<1> QED BY <1>2, SerialInvariance, PTL DEF Spec, SpentCodeIsDead

\* The routes implement the documented state machine: a session begins as a draft
\* and each step is one of the machine's or leaves status and version.
THEOREM LifecycleImplementsMachine ==
  ASSUME OneClient
  PROVE  Spec => ImplementsMachine
<1>1. Init => Machine!Init
  BY DEF Init, Machine!Init
<1>2. ASSUME IInv, SerialInv, [Next]_vars
      PROVE  [Machine!Next]_<<row.status, row.version>>
  <2>1. ASSUME NEW c \in Clients, Commit(c)
        PROVE  [Machine!Next]_<<row.status, row.version>>
    <3>1. RowStep(row') /\ row.status \in Status
      BY <1>2, <2>1, Stamped DEF SerialInv, UpToDate, After, Commit, IInv
    <3>2. CASE row'.status = row.status /\ row'.version = row.version
      BY <3>2
    <3>3. CASE row'.status = row.status /\ row'.version = row.version + 1
      BY <3>3 DEF Machine!Next, Machine!Edit
    <3>4. CASE row'.status \in AllowedTransitions[row.status] /\ row'.version = row.version + 1
      BY <3>1, <3>4 DEF Status, AllowedTransitions, Machine!Next, Machine!AskForCode,
         Machine!Authorize, Machine!GoLive, Machine!Hold, Machine!Finish, Machine!Step,
         Machine!Working
    <3> QED BY <3>1, <3>2, <3>3, <3>4 DEF RowStep
  <2> QED BY <1>2, <2>1, OnlyCommitsWrite
<1>3. IInv /\ SerialInv /\ [Next]_vars => [Machine!Next]_<<row.status, row.version>>
  BY <1>2
<1> QED BY <1>1, <1>3, SerialInvariance, PTL DEF Spec, ImplementsMachine, Machine!Spec
==============================================================================
