---------------------------- MODULE BatchContract ----------------------------
(***************************************************************************)
(* What a monitoring batch promises to whoever submits it and polls it,    *)
(* with no queue, no worker and no lock in sight: companies receive        *)
(* results while the batch runs, the batch closes once all have one, with  *)
(* the status those results call for, and reopens only to give the failed  *)
(* companies another chance.                                               *)
(***************************************************************************)
CONSTANT Company

VARIABLES status,  \* of the batch
          result   \* of each company, "open" while there is none

Outcomes == {"SUCCEEDED", "BLOCKED", "FAILED"}

Init ==
    /\ status = "ABSENT"
    /\ result = [c \in Company |-> "open"]

Create ==
    /\ status = "ABSENT"
    /\ status' = "RUNNING"
    /\ UNCHANGED result

\* Open companies receive their results, any number at a time.
Settle ==
    /\ status = "RUNNING"
    /\ result' \in [Company -> Outcomes \cup {"open"}]
    /\ \A c \in Company : result[c] # "open" => result'[c] = result[c]
    /\ UNCHANGED status

ClosingStatus ==
    IF \A c \in Company : result[c] = "SUCCEEDED" THEN "SUCCEEDED"
    ELSE IF \E c \in Company : result[c] = "SUCCEEDED" THEN "PARTIAL_SUCCESS"
    ELSE "FAILED"

Close ==
    /\ status = "RUNNING"
    /\ \A c \in Company : result[c] # "open"
    /\ status' = ClosingStatus
    /\ UNCHANGED result

Reopen ==
    /\ status \in {"PARTIAL_SUCCESS", "FAILED"}
    /\ status' = "RUNNING"
    /\ result' = [c \in Company |-> IF result[c] = "FAILED" THEN "open" ELSE result[c]]

Next == Create \/ Settle \/ Close \/ Reopen

Spec == Init /\ [][Next]_<<status, result>>
=============================================================================
