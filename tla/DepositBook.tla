------------------------------ MODULE DepositBook ------------------------------
(***************************************************************************)
(* What the ledger promises to those who look at a session's totals: a     *)
(* book with one entry for each deposit.  A deposit counts, is doubtful    *)
(* until an officer decides, or is left out; one that counts may be        *)
(* reversed, once.  An operation is atomic, and an entry that has left a   *)
(* fate never comes back to it.  No total that is shown is more than what  *)
(* the entries that count come to.                                         *)
(*                                                                         *)
(* Nothing here knows of requests, of corrections that are events of their *)
(* own, or of SELECTs.                                                     *)
(***************************************************************************)
EXTENDS Integers, FiniteSets, Functions

CONSTANTS
  Sessions,
  None            \* no session, message or amount

VARIABLES
  book,           \* message, session, amount and fate of each deposit
  shown           \* the totals last shown of each session

Entries == DOMAIN book

Doubtful == {d \in Entries : book[d].fate = "doubtful"}

Counting(s) == {d \in Entries : book[d].session = s /\ book[d].fate = "counts"}

\* A contribution whose amount is not known counts as one, for nothing.
Worth == [d \in Entries |-> IF book[d].amount = None THEN 0 ELSE book[d].amount]

Balance(s) ==
  [count |-> Cardinality(Counting(s)), total |-> SumFunctionOnSet(Worth, Counting(s))]

Init ==
  /\ book = [d \in {} |-> None]
  /\ shown = [s \in Sessions |-> [count |-> 0, total |-> 0]]

\* A new deposit; of each message there is one.
Enter(d, new) ==
  /\ new.message # None => \A e \in Entries : book[e].message # new.message
  /\ \/ new.fate \in {"counts", "doubtful"} /\ new.session \in Sessions
     \/ new.fate = "excluded"
  /\ book' = [e \in Entries \cup {d} |-> IF e = d THEN new ELSE book[e]]
  /\ shown' = shown

\* An officer's decisions on a doubtful deposit d.
Accept(d, amount) ==
  /\ amount \in Nat
  /\ book' = [book EXCEPT ![d] = [message |-> book[d].message, session |-> book[d].session,
                                 amount |-> amount, fate |-> "counts"]]
  /\ shown' = shown

LeaveOut(d) ==
  /\ book' = [book EXCEPT ![d].fate = "excluded"]
  /\ shown' = shown

\* The notice d says that the deposit e of its session was taken back.
TakeBack(d, e) ==
  /\ book[e].fate = "counts"
  /\ book[e].session = book[d].session
  /\ book[e].amount # None
  /\ book' = [book EXCEPT ![d].fate = "excluded", ![e].fate = "reversed"]
  /\ shown' = shown

\* What is shown may be behind, but is never too much.
Show(s, totals) ==
  /\ totals # shown[s]
  /\ totals.count <= Balance(s).count
  /\ totals.total <= Balance(s).total
  /\ shown' = [shown EXCEPT ![s] = totals]
  /\ book' = book

\* Details of a new entry, amount or total are those of the step's result.
Next ==
  \/ \E d \in DOMAIN book' \ Entries : Enter(d, book'[d])
  \/ \E d \in Doubtful :
       Accept(d, book'[d].amount) \/ LeaveOut(d) \/ \E e \in Entries : TakeBack(d, e)
  \/ \E s \in Sessions : Show(s, shown'[s])

Spec == Init /\ [][Next]_<<book, shown>>
================================================================================
