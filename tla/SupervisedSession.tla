-------------------------- MODULE SupervisedSession --------------------------
(***************************************************************************)
(* What guest_worker_process_session.hpp promises its caller: one worker   *)
(* is launched, the exchange                                               *)
(*   HELLO -> READY -> RUN -> ... -> [FAULT | DIAGNOSTIC] -> STOP -> TERMINATE *)
(* only moves forward, and the call returns, with success only after an    *)
(* accepted STOP, when the worker is no longer owned (exited and reaped).  *)
(***************************************************************************)
VARIABLES phase,    \* how far the exchange has come
          owned,    \* a worker process exists and has not been reaped
          outcome   \* what the call returned

vars == <<phase, owned, outcome>>

Active == {"idle", "handshake", "running", "terminal", "stopped"}

Init == phase = "idle" /\ owned = FALSE /\ outcome = "none"

Launch ==
    /\ phase = "idle" /\ phase' = "handshake"
    /\ owned' = TRUE /\ UNCHANGED outcome

Proceed ==
    /\ \/ phase = "handshake" /\ phase' = "running"
       \/ phase = "running" /\ phase' \in {"terminal", "stopped"}
       \/ phase = "terminal" /\ phase' = "stopped"
    /\ UNCHANGED <<owned, outcome>>

Abort ==
    /\ phase \in Active /\ phase' = "failed"
    /\ UNCHANGED <<owned, outcome>>

\* The worker exited by itself after STOP and has been reaped.
Release ==
    /\ phase = "stopped" /\ owned
    /\ owned' = FALSE /\ phase' \in {"stopped", "failed"} /\ UNCHANGED outcome

ReturnSuccess ==
    /\ phase = "stopped" /\ ~owned
    /\ phase' = "done" /\ outcome' = "success" /\ UNCHANGED owned

\* A failing call tears down whatever it still owns before it returns.
ReturnFailure ==
    /\ phase = "failed"
    /\ phase' = "done" /\ owned' = FALSE /\ outcome' = "failure"

Next == Launch \/ Proceed \/ Abort \/ Release \/ ReturnSuccess \/ ReturnFailure

Safety == Init /\ [][Next]_vars
Spec == Safety /\ <>(phase = "done")
=============================================================================
