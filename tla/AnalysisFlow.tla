---------------------------- MODULE AnalysisFlow ----------------------------
(***************************************************************************)
(* What one analysis owes its readers, whatever tasks and keys carry it:   *)
(* the security stage reaches a verdict, the report then repeats that very *)
(* verdict, and a report is never published before there is a verdict.     *)
(***************************************************************************)
CONSTANTS Tasks, Verdicts

VARIABLES
    verdict,    \* of the security stage: {} or {v}
    report      \* what the published report says: {} or {v}

flowVars == <<verdict, report>>

FlowInit ==
    /\ verdict = [t \in Tasks |-> {}]
    /\ report = [t \in Tasks |-> {}]

\* The verdict may still change while nothing is published.
Assess(t) ==
    /\ report[t] = {}
    /\ \E v \in Verdicts : verdict' = [verdict EXCEPT ![t] = {v}]
    /\ UNCHANGED report

Publish(t) ==
    /\ verdict[t] # {}
    /\ report' = [report EXCEPT ![t] = verdict[t]]
    /\ UNCHANGED verdict

FlowNext == \E t \in Tasks : Assess(t) \/ Publish(t)

FlowSpec == FlowInit /\ [][FlowNext]_flowVars
============================================================================
