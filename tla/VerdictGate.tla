---------------------------- MODULE VerdictGate ----------------------------
(***************************************************************************)
(* What the conflict stage promises to whoever reads the cached security   *)
(* result: the merge gate opens only when every finding is waived, and a   *)
(* finding is waived only by the rule engine or, if the rule engine left   *)
(* it to a human, after somebody appealed its id.  No checkpoint, task or  *)
(* cache appears here; AppealResume is shown to implement this             *)
(* specification.                                                          *)
(***************************************************************************)
CONSTANTS Findings, Ids

VARIABLES
    auto,       \* what the rule engine says of each finding, fixed
    idOf,       \* the id each finding is appealed under, fixed
    appealed,   \* ids somebody appealed
    gate,       \* "unset" | "blocked" | "open"
    waived      \* findings the published decision waives

gateVars == <<auto, idOf, appealed, gate, waived>>

\* The findings a decision may waive now.
Waivable ==
    {f \in Findings : \/ auto[f] = "waive"
                      \/ auto[f] = "human" /\ idOf[f] \in appealed}

GateInit ==
    /\ auto \in [Findings -> {"block", "waive", "human"}]
    /\ idOf \in [Findings -> Ids]
    /\ appealed = {}
    /\ gate = "unset"
    /\ waived = {}

Appeal(i) ==
    /\ appealed' = appealed \union {i}
    /\ UNCHANGED <<auto, idOf, gate, waived>>

\* A blocking decision may be published at any time.
Block ==
    /\ gate' = "blocked"
    /\ waived' \in SUBSET Waivable
    /\ UNCHANGED <<auto, idOf, appealed>>

Open ==
    /\ Waivable = Findings
    /\ gate' = "open"
    /\ waived' = Findings
    /\ UNCHANGED <<auto, idOf, appealed>>

GateNext == Block \/ Open \/ \E i \in Ids : Appeal(i)

GateSpec == GateInit /\ [][GateNext]_gateVars
============================================================================
