----------------------------- MODULE MCObjects -----------------------------
(***************************************************************************)
(* Mailboxes and handles for TLC: two readers on two cores, and the        *)
(* handles of two processes, four handles in all.  A behaviour is one of   *)
(* the mailboxes, with the scheduler beneath them, or of the system calls  *)
(* on handles, and `focus` says of which.                                  *)
(***************************************************************************)
EXTENDS Mailbox, HandleCalls

VARIABLE focus      \* what runs: "mailbox" or "handles"

objectVars == <<focus, vars, handleVars>>

MCHandleSet == 1..4

\* Where the readers start matters only where they run.
MCInit ==
    /\ focus \in {"mailbox", "handles"} /\ Init /\ CallsInit
    /\ focus = "handles" => runnable[BootCore] = Threads

Only(c) ==
    /\ focus = c /\ focus' = focus
    /\ IF c = "mailbox" THEN UNCHANGED handleVars ELSE UNCHANGED vars

MCNext ==
    \/ Only("mailbox") /\ Next
    \/ Only("handles") /\ CallsNext

MCSpec == MCInit /\ [][MCNext]_objectVars
=============================================================================
