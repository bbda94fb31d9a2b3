-------------------------- MODULE SessionStateMachine --------------------------
(***************************************************************************)
(* What the lifecycle of a session promises its callers: one object, with  *)
(* a phase that moves along the edges of README.md:82 (draft ->            *)
(* approval_requested -> authorized -> live <-> paused -> ended), an       *)
(* edition that names the object's contents, and changes that are atomic:  *)
(* each one is told by a new edition.  Nothing here knows of requests.     *)
(***************************************************************************)
EXTENDS Naturals

VARIABLES
  phase,        \* where the session is in its life
  edition       \* the number callers quote in expected_version

Working == {"live", "paused"}

Init ==
  /\ phase = "draft"
  /\ edition = 1

Step(from, to) ==
  /\ phase \in from
  /\ phase' = to
  /\ edition' = edition + 1

AskForCode == Step({"draft", "approval_requested"}, "approval_requested")
Authorize == Step({"approval_requested"}, "authorized")
GoLive == Step({"authorized", "paused"}, "live")
Hold == Step({"live"}, "paused")
\* Cancels a session that never ran, or closes one that did.
Finish == Step({"draft", "approval_requested", "authorized"} \cup Working, "ended")
\* A change of the contents: the end time, the target, the visibility.
Edit == phase' = phase /\ edition' = edition + 1

Next == AskForCode \/ Authorize \/ GoLive \/ Hold \/ Finish \/ Edit

Spec == Init /\ [][Next]_<<phase, edition>>
==============================================================================
