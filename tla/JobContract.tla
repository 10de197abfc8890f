----------------------------- MODULE JobContract -----------------------------
(***************************************************************************)
(* What the service promises about a job, whoever works on it: a job that  *)
(* was accepted is queued and then settled with a verdict, it never goes   *)
(* back, and a job that is completed has its analysis.  With Final a       *)
(* verdict is the last word; without it a later attempt may replace one    *)
(* verdict by another.                                                     *)
(***************************************************************************)
CONSTANTS Jobs, Final

VARIABLES status, analysed

vars == <<status, analysed>>

Verdicts == {"completed", "failed", "dispatch_failed"}

Init ==
    /\ status = [j \in Jobs |-> "absent"]
    /\ analysed = [j \in Jobs |-> FALSE]

Accept(j) ==
    /\ status[j] = "absent"
    /\ status' = [status EXCEPT ![j] = "queued"]
    /\ UNCHANGED analysed

Settle(j, verdict) ==
    /\ status[j] # "absent"
    /\ Final => status[j] = "queued"
    /\ status' = [status EXCEPT ![j] = verdict]
    /\ analysed' = [analysed EXCEPT ![j] = @ \/ verdict = "completed"]

Next == \E j \in Jobs : Accept(j) \/ \E v \in Verdicts : Settle(j, v)

Spec == Init /\ [][Next]_vars
=============================================================================
