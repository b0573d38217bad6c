--------------------------- MODULE ConflictGraph ---------------------------
(***************************************************************************)
(* The conflict-resolution StateGraph of agents/conflict/agent.py, seen as *)
(* operators on the checkpoint LangGraph persists after every node:        *)
(*                                                                         *)
(*   auto_resolve --unresolved?--> (interrupt) human_review --> finalize   *)
(*                --all resolved-----------------------------> finalize    *)
(*                                                                         *)
(* A finding is opaque.  What the rule engine decides about it is the      *)
(* function `auto', and the id under which people appeal it is `idOf': two *)
(* findings may share an id (one rule firing at two places, one CVE in two *)
(* packages).                                                              *)
(***************************************************************************)
EXTENDS FiniteSets

CONSTANTS
    Findings,   \* findings of the security report under review
    Ids         \* values of cve_id / rule_id, the key of human_input

Verdict == {"block", "waive"}

\* What _auto_resolve_node does with a finding: a verdict, or None (a human must decide).
AutoOutcome == Verdict \union {"human"}

\* Node the saved checkpoint runs next; "none" is a thread that was never started.
Node == {"none", "auto_resolve", "human_review", "finalize", "end"}

\* human_input maps a finding id to "waive": the appeal API passes no other decision, so the
\* dictionary is the set of its keys.
Checkpoint ==
    [next       : Node,
     unresolved : SUBSET Findings,
     human      : SUBSET Ids,
     verdict    : [Findings -> Verdict \union {"none"}],
     decided    : BOOLEAN]

NoVerdict == [f \in Findings |-> "none"]

NoCheckpoint ==
    [next |-> "none", unresolved |-> {}, human |-> {}, verdict |-> NoVerdict, decided |-> FALSE]

\* run() builds this state and gives it to ainvoke: whatever the thread held is overwritten.
InitialState ==
    [NoCheckpoint EXCEPT !.next = "auto_resolve"]

\* The route naming a node the graph does not have.
RouteToUnknownNode(unresolved) ==
    IF unresolved # {} THEN "human" ELSE "finalize"

\* _route_after_resolve.
RouteAfterResolve(unresolved) ==
    IF unresolved # {} THEN "human_review" ELSE "finalize"

\* _auto_resolve_node followed by the conditional edge.
AutoResolve(c, auto) ==
    LET unresolved == {f \in Findings : auto[f] = "human"} IN
    [c EXCEPT !.unresolved = unresolved,
              !.verdict    = [f \in Findings |-> IF f \in unresolved THEN "none" ELSE auto[f]],
              !.next       = RouteAfterResolve(unresolved)]

\* _human_review_node taking any answer for an answer to every finding.
HumanVerdictDefaultWaive(c, id) == IF c.human # {} THEN "waive" ELSE "block"

\* _human_review_node: a finding nobody named in human_input is blocked.
HumanVerdict(c, id) == IF id \in c.human THEN "waive" ELSE "block"

HumanReview(c, idOf) ==
    [c EXCEPT !.verdict    = [f \in Findings |->
                                IF f \in c.unresolved THEN HumanVerdict(c, idOf[f])
                                                      ELSE c.verdict[f]],
              !.unresolved = {},
              !.next       = "finalize"]

\* _finalize_node.
Finalize(c) == [c EXCEPT !.decided = TRUE, !.next = "end"]

\* overall_blocking = any(verdict == block).
AnyBlock(verdict) == \E f \in Findings : verdict[f] = "block"

\* get_pending_human_items: [] unless the thread waits before human_review.
PendingIds(c, idOf) ==
    IF c.next = "human_review" THEN {idOf[f] : f \in c.unresolved} ELSE {}

\* Handing the decision to ainvoke as its input, which replays the graph from the start.
UpdateStateRestarting(c, id) == [c EXCEPT !.human = {id}, !.next = "auto_resolve"]

\* update_state(config, {"human_input": {id: "waive"}}): the key is replaced, not merged, and
\* the node the thread is at stays the same.
UpdateState(c, id) == [c EXCEPT !.human = {id}]

\* One superstep of ainvoke from a checkpoint.
NodeStep(c, auto, idOf) ==
    CASE c.next = "auto_resolve" -> AutoResolve(c, auto)
      [] c.next = "human_review" -> HumanReview(c, idOf)
      [] c.next = "finalize"     -> Finalize(c)
      [] OTHER                   -> c
============================================================================
