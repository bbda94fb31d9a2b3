--------------------------- MODULE MCImapPolling ---------------------------
(***************************************************************************)
(* Values for the constants of ImapPolling, and its two parts, looked at   *)
(* one at a time: every caller, on a mailbox whose first message the       *)
(* database refuses; and the watcher and the sweep, on one where that      *)
(* message has come and gone.  The initial state says which.               *)
(***************************************************************************)
EXTENDS ImapPolling, TLC

CONSTANTS
  i1, i2, i3,
  Foci            \* the parts to look at

VARIABLE focus

MCDistinct == (1 :> i1) @@ (2 :> i2) @@ (3 :> i3)

Gone == IF focus = "callers" THEN 0 ELSE 1

MCInit ==
  /\ focus \in Foci
  /\ Init
  /\ \A b \in Mailboxes : highest[b] = Gone

\* Two messages come; the process restarts only among the fewer tasks.
MCNext ==
  /\ Next
  /\ \A b \in Mailboxes : highest'[b] <= Gone + 2
  /\ focus = "callers" => restarts' = 0
  /\ focus = "deposits" => \A c \in Checks : poll'[c] = Idle
  /\ UNCHANGED focus

MCSpec == MCInit /\ [][MCNext]_<<vars, focus>> /\ Fairness
=============================================================================
