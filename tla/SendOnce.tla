------------------------------- MODULE SendOnce ------------------------------
(***************************************************************************)
(* What the callers of send_transaction_wrapper                            *)
(* (rust-client/src/rpc.rs) are promised, without attempts, signatures or  *)
(* a network: the transaction takes effect at most once, success is        *)
(* reported only after it has, one report is made, and it is the last.     *)
(* Failure promises nothing: the transaction may have taken effect, or may *)
(* still do so.                                                            *)
(***************************************************************************)
EXTENDS Naturals

VARIABLES
    asked,     \* whether it is to be sent, not only simulated or priced
    effects,   \* how often the transaction took effect
    report     \* "none", "ok" (sucess_cb) or "failed" (failed_cb)

vars == <<asked, effects, report>>

Init == asked \in BOOLEAN /\ effects = 0 /\ report = "none"

TakeEffect ==
    /\ asked /\ effects = 0
    /\ effects' = 1
    /\ UNCHANGED <<asked, report>>

ReportOk ==
    /\ asked /\ report = "none" /\ effects = 1
    /\ report' = "ok"
    /\ UNCHANGED <<asked, effects>>

ReportFailed ==
    /\ asked /\ report = "none"
    /\ report' = "failed"
    /\ UNCHANGED <<asked, effects>>

Report == ReportOk \/ ReportFailed

Next == TakeEffect \/ Report

Safety   == Init /\ [][Next]_vars
Fairness == WF_vars(Report)
=============================================================================
