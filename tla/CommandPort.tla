---------------------------- MODULE CommandPort -----------------------------
(***************************************************************************)
(* What the callers of modem_cmd_expect() and its relatives rely on: a     *)
(* synchronous port.  One command is under way at a time, the modem        *)
(* executes it before its call returns or never, and a call returns true   *)
(* only for a command that the modem has accepted.                         *)
(***************************************************************************)
EXTENDS Naturals, Sequences

VARIABLES
  asking,  \* a call is under way
  said,    \* what the modem said to each command: "none", "ok" or "error"
  results  \* what each call returned

vars == <<asking, said, results>>

Init == asking = FALSE /\ said = <<>> /\ results = <<>>

Call ==
  /\ ~asking
  /\ asking' = TRUE
  /\ said' = Append(said, "none")
  /\ UNCHANGED results

\* The command that is under way is executed, or refused.
Execute ==
  /\ asking
  /\ said[Len(said)] = "none"
  /\ \E answer \in {"ok", "error"} : said' = [said EXCEPT ![Len(said)] = answer]
  /\ UNCHANGED <<asking, results>>

Returned(ok) ==
  /\ asking
  /\ ok => said[Len(said)] = "ok"
  /\ results' = Append(results, ok)

Return == \E ok \in BOOLEAN : Returned(ok) /\ asking' = FALSE /\ UNCHANGED said

\* coap_publish_impl() sends the request as soon as its parameters are taken.
ReturnAndCall ==
  /\ Returned(TRUE)
  /\ said' = Append(said, "none")
  /\ UNCHANGED asking

Next == Call \/ Execute \/ Return \/ ReturnAndCall

Spec == Init /\ [][Next]_vars
=============================================================================
