---------------------------- MODULE ExecPromise ----------------------------
(***************************************************************************)
(* What Bash.exec promises its caller, whatever the script does: a call    *)
(* starts at most Limit commands; once an execution limit is hit no other  *)
(* command starts; and the call ends by resolving its promise with an exit *)
(* code, never by rejecting it with an error of the interpreter's own      *)
(* control flow.                                                           *)
(***************************************************************************)
EXTENDS Naturals

CONSTANTS
  Limit,   \* limits.maxCommandCount
  First    \* commands already counted when a call begins

VARIABLES
  phase,   \* "running", "aborting" (a limit was hit) or "resolved"
  started  \* commands counted so far

TypeInv ==
  /\ phase \in {"running", "aborting", "resolved"}
  /\ started \in First .. (Limit + 1)

Init == phase = "running" /\ started = First

StartCommand ==
  /\ phase = "running" /\ started < Limit
  /\ started' = started + 1
  /\ UNCHANGED phase

HitLimit ==
  /\ phase = "running"
  /\ phase' = "aborting"
  /\ started' \in {started, started + 1}

Resolve ==
  /\ phase \in {"running", "aborting"}
  /\ phase' = "resolved"
  /\ UNCHANGED started

NextCall ==
  /\ phase = "resolved"
  /\ phase' = "running" /\ started' = First

Next == StartCommand \/ HitLimit \/ Resolve \/ NextCall

Spec == Init /\ [][Next]_<<phase, started>> /\ WF_<<phase, started>>(Resolve)
=============================================================================
