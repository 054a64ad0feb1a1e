--------------------------- MODULE TransferLedger ---------------------------
(***************************************************************************)
(* What easycwmpd promises of a Download or Upload it has accepted, without *)
(* files, events, timers or sessions: it is run before it is reported, only *)
(* a report the ACS has answered is struck off, and what is struck off or   *)
(* lost stays so.  A run or an answer that was not recorded before the      *)
(* process died is forgotten, and happens again.                            *)
(***************************************************************************)
CONSTANT Transfers

VARIABLE status   \* of each transfer

LInit == status = [t \in Transfers |-> "none"]

Becomes(t, from, to) == /\ status[t] = from
                        /\ status' = [status EXCEPT ![t] = to]

Accept(t) == Becomes(t, "none", "queued")

\* The script has run; then the report is on file in the place of the request.
Run(t)    == Becomes(t, "queued", "run")
Finish(t) == Becomes(t, "run", "done")

\* The ACS has answered the report; then it is no longer on file.
Acknowledge(t) == Becomes(t, "done", "told")
Settle(t)      == Becomes(t, "told", "reported")

\* The process dies before the run, or the answer, is recorded.
Forget(t) == Becomes(t, "run", "queued") \/ Becomes(t, "told", "done")

\* The file, or the request between two saves, is gone.
Lose(S) == /\ \A t \in S : status[t] \in {"queued", "run", "done", "told"}
           /\ status' = [t \in Transfers |->
                           IF t \in S THEN "lost" ELSE status[t]]

LNext == \/ \E t \in Transfers : \/ Accept(t) \/ Run(t) \/ Finish(t)
                                 \/ Acknowledge(t) \/ Settle(t) \/ Forget(t)
         \/ \E S \in SUBSET Transfers : Lose(S)

LSpec == LInit /\ [][LNext]_status

=============================================================================
