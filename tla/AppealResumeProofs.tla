------------------------- MODULE AppealResumeProofs -------------------------
(***************************************************************************)
(* Proofs about AppealResume, for every report, every number of scans and  *)
(* appeals and every bound.                                                *)
(***************************************************************************)
EXTENDS AppealResume, TLAPS

-----------------------------------------------------------------------------
(* Lemmas about the graph's nodes.                                         *)

\* The state run() starts from is a checkpoint.
LEMMA InitialStateType == NoCheckpoint \in Checkpoint /\ InitialState \in Checkpoint
  BY DEF NoCheckpoint, InitialState, Checkpoint, Node, Verdict, NoVerdict

\* A node takes a checkpoint to a checkpoint.
LEMMA NodeStepType ==
  ASSUME NEW c \in Checkpoint,
         NEW au \in [Findings -> AutoOutcome],
         NEW id \in [Findings -> Ids]
  PROVE  NodeStep(c, au, id) \in Checkpoint
<1>1. CASE c.next = "auto_resolve"
  <2>1. AutoResolve(c, au) \in Checkpoint
    BY DEF AutoResolve, RouteAfterResolve, Checkpoint, Node, Verdict, AutoOutcome
  <2>2. QED BY <1>1, <2>1 DEF NodeStep
<1>2. CASE c.next = "human_review"
  <2>1. HumanReview(c, id) \in Checkpoint
    BY DEF HumanReview, HumanVerdict, Checkpoint, Node, Verdict
  <2>2. QED BY <1>2, <2>1 DEF NodeStep
<1>3. CASE c.next = "finalize"
  <2>1. Finalize(c) \in Checkpoint
    BY DEF Finalize, Checkpoint, Node
  <2>2. QED BY <1>3, <2>1 DEF NodeStep
<1>4. CASE c.next \notin {"auto_resolve", "human_review", "finalize"}
  BY <1>4 DEF NodeStep
<1>5. QED BY <1>1, <1>2, <1>3, <1>4

\* A decision entered for an id is a checkpoint.
LEMMA UpdateStateType ==
  ASSUME NEW c \in Checkpoint, NEW i \in Ids
  PROVE  UpdateState(c, i) \in Checkpoint
  BY DEF UpdateState, Checkpoint

\* Every decision that may be cached is one.
LEMMA DecisionType ==
  ASSUME NEW c \in Checkpoint
  PROVE  /\ ScanDecision(c) \in Cache
         /\ ResumeDecision(c) \in Cache
         /\ DegradedDecision \in Cache
         /\ ChainFailure \in Cache
  BY DEF ScanDecision, ResumeDecision, DegradedDecision, ChainFailure, Cache, Checkpoint,
         NoVerdict, Verdict, AnyBlock

-----------------------------------------------------------------------------
(* Type correctness.                                                       *)

\* An appeal is in the status "none" exactly while nobody submitted it.
Submitted ==
    \A a \in Appeals : /\ apc[a] = "none" <=> status[a] = "none"
                       /\ apc[a] # "none" => appealId[a] \in Ids

TypeInv == TypeOK /\ Submitted

\* The scan's steps preserve the types.
LEMMA ScanType ==
  ASSUME TypeInv, NEW s \in Scans,
         ScanRun(s) \/ ScanDegrade(s) \/ ScanCrash(s)
  PROVE  TypeInv'
<1> USE DEF TypeInv, TypeOK, Submitted, ScanUnchanged
<1>1. CASE ScanInvoke(s)
  BY <1>1, InitialStateType DEF ScanInvoke
<1>2. CASE ScanNode(s)
  <2>1. NodeStep(mem[s], auto, idOf) \in Checkpoint
    BY NodeStepType
  <2>2. QED BY <1>2, <2>1 DEF ScanNode
<1>3. CASE ScanPublish(s)
  BY <1>3, DecisionType DEF ScanPublish
<1>4. CASE ScanDegrade(s)
  BY <1>4, DecisionType, InitialStateType DEF ScanDegrade
<1>5. CASE ScanCrash(s)
  BY <1>5 DEF ScanCrash
<1>6. QED BY <1>1, <1>2, <1>3, <1>4, <1>5 DEF ScanRun

\* So do the appeals'.
LEMMA AppealType ==
  ASSUME TypeInv, NEW a \in Appeals,
         Submit(a) \/ AppealRun(a) \/ ResumeRaises(a) \/ Crash(a)
  PROVE  TypeInv'
<1> USE DEF TypeInv, TypeOK, Submitted, AppealUnchanged, Goto, InFlight
<1>1. CASE Submit(a)
  BY <1>1, AppealConstants DEF Submit
<1>2. CASE FailNoPendingState(a)
  BY <1>2 DEF FailNoPendingState, MarkStatus, AuditRow
<1>3. CASE FailFindingNotPending(a)
  BY <1>3 DEF FailFindingNotPending, MarkStatus
<1>4. CASE PassPendingCheck(a)
  BY <1>4 DEF PassPendingCheck
<1>5. CASE InjectDecision(a)
  <2>1. UpdateState(ckpt, appealId[a]) \in Checkpoint
    BY <1>5, UpdateStateType DEF InjectDecision
  <2>2. QED BY <1>5, <2>1 DEF InjectDecision
<1>6. CASE LoadCheckpoint(a)
  BY <1>6 DEF LoadCheckpoint
<1>7. CASE RunNode(a)
  <2>1. NodeStep(mem[a], auto, idOf) \in Checkpoint
    BY NodeStepType
  <2>2. QED BY <1>7, <2>1 DEF RunNode
<1>8. CASE RefreshCache(a)
  BY <1>8, DecisionType DEF RefreshCache
<1>9. CASE AuditApproval(a)
  BY <1>9 DEF AuditApproval, AuditRow
<1>10. CASE MarkResolved(a)
  BY <1>10 DEF MarkResolved, MarkStatus
<1>11. CASE ResumeRaises(a)
  BY <1>11 DEF ResumeRaises, MarkStatus
<1>12. CASE Crash(a)
  BY <1>12 DEF Crash
<1>13. QED
  BY <1>1, <1>2, <1>3, <1>4, <1>5, <1>6, <1>7, <1>8, <1>9, <1>10, <1>11, <1>12 DEF AppealRun

LEMMA TypeInvInit == Init => TypeInv
  BY InitialStateType DEF Init, TypeInv, TypeOK, Submitted, Cache, NoCache, NoVerdict, Verdict

LEMMA TypeInvNext == TypeInv /\ [Next]_vars => TypeInv'
<1> SUFFICES ASSUME TypeInv, [Next]_vars PROVE TypeInv'
  OBVIOUS
<1>1. CASE Next
  BY <1>1, ScanType, AppealType DEF Next
<1>2. CASE UNCHANGED vars
  BY <1>2 DEF vars, TypeInv, TypeOK, Submitted
<1>3. QED BY <1>1, <1>2

\* Every variable keeps its type, and no appeal runs before it is submitted.
THEOREM TypeCorrect == Spec => []TypeInv
  BY TypeInvInit, TypeInvNext, PTL DEF Spec

\* The same, of TypeOK as the runs check it.
THEOREM TypeOKHolds == Spec => []TypeOK
<1>1. TypeInv => TypeOK BY DEF TypeInv
<1>2. QED BY <1>1, TypeCorrect, PTL

-----------------------------------------------------------------------------
(* A waiver always has a cause.                                            *)

\* The strengthening: what a checkpoint will waive is justified before it is waived.
CauseOf(c) ==
    /\ c.human \subseteq Appealed
    /\ c.unresolved \subseteq {f \in Findings : auto[f] = "human"}
    /\ WaivedBy(c.verdict) \subseteq Waivable

CauseInv ==
    /\ CauseOf(ckpt)
    /\ \A p \in Scans \union Appeals : CauseOf(mem[p])
    /\ WaivedBy(cache.verdict) \subseteq Waivable

\* A node waives what the rule engine waives and what human_input names, no more.
LEMMA NodeStepCause ==
  ASSUME TypeOK, NEW c \in Checkpoint, CauseOf(c)
  PROVE  CauseOf(NodeStep(c, auto, idOf))
<1> USE DEF TypeOK, CauseOf, WaivedBy, Waivable
<1>1. CASE c.next = "auto_resolve"
  <2>1. NodeStep(c, auto, idOf) = AutoResolve(c, auto)
    BY <1>1 DEF NodeStep
  <2>2. QED BY <2>1 DEF AutoResolve, Checkpoint, AutoOutcome
<1>2. CASE c.next = "human_review"
  <2>1. NodeStep(c, auto, idOf) = HumanReview(c, idOf)
    BY <1>2 DEF NodeStep
  <2>2. QED BY <2>1 DEF HumanReview, HumanVerdict, Checkpoint
<1>3. CASE c.next = "finalize"
  <2>1. NodeStep(c, auto, idOf) = Finalize(c)
    BY <1>3 DEF NodeStep
  <2>2. QED BY <2>1 DEF Finalize, Checkpoint
<1>4. CASE c.next \notin {"auto_resolve", "human_review", "finalize"}
  <2>1. NodeStep(c, auto, idOf) = c
    BY <1>4 DEF NodeStep
  <2>2. QED BY <2>1
<1>5. QED BY <1>1, <1>2, <1>3, <1>4

\* An id stays appealed, and the report does not change.
LEMMA AppealedGrows ==
  ASSUME TypeInv, [Next]_vars
  PROVE  /\ Appealed \subseteq Appealed'
         /\ UNCHANGED <<auto, idOf>>
<1> USE DEF TypeInv, TypeOK, Submitted, Appealed
<1>1. ASSUME NEW s \in Scans, ScanRun(s) \/ ScanDegrade(s) \/ ScanCrash(s)
      PROVE  UNCHANGED <<auto, idOf, appealId, status>>
  BY <1>1 DEF ScanRun, ScanInvoke, ScanNode, ScanPublish, ScanDegrade, ScanCrash, ScanUnchanged
<1>2. ASSUME NEW a \in Appeals, Submit(a)
      PROVE  Appealed \subseteq Appealed' /\ UNCHANGED <<auto, idOf>>
  BY <1>2 DEF Submit
<1>3. ASSUME NEW a \in Appeals, AppealRun(a) \/ ResumeRaises(a) \/ Crash(a)
      PROVE  /\ UNCHANGED <<auto, idOf, appealId>>
             /\ \/ UNCHANGED status
                \/ status[a] # "none" /\ status' = [status EXCEPT ![a] = "failed"]
                \/ status[a] # "none" /\ status' = [status EXCEPT ![a] = "resolved"]
  BY <1>3 DEF AppealRun, FailNoPendingState, FailFindingNotPending, PassPendingCheck,
              InjectDecision, LoadCheckpoint, RunNode, RefreshCache, AuditApproval,
              MarkResolved, ResumeRaises, Crash, MarkStatus, AppealUnchanged, Goto, InFlight
<1>4. CASE Next
  BY <1>1, <1>2, <1>3, <1>4 DEF Next
<1>5. CASE UNCHANGED vars
  BY <1>5 DEF vars
<1>6. QED BY <1>4, <1>5

\* What has a cause keeps it.
LEMMA CauseStable ==
  ASSUME TypeInv, [Next]_vars
  PROVE  /\ Waivable \subseteq Waivable'
         /\ \A c \in Checkpoint : CauseOf(c) => CauseOf(c)'
<1>1. Appealed \subseteq Appealed' /\ UNCHANGED <<auto, idOf>>
  BY AppealedGrows
<1>2. Waivable \subseteq Waivable'
  BY <1>1 DEF Waivable
<1>3. QED BY <1>1, <1>2 DEF CauseOf

LEMMA CauseInit == Init => CauseInv
  BY DEF Init, CauseInv, CauseOf, NoCheckpoint, NoCache, NoVerdict, WaivedBy

\* Nothing enters the checkpoint, a copy of it or the cache but what has a cause already.
LEMMA CauseSources ==
  ASSUME TypeInv, CauseInv, [Next]_vars
  PROVE  /\ CauseOf(ckpt') \/ \E a \in Appeals :
                /\ status[a] # "none"
                /\ ckpt' = UpdateState(ckpt, appealId[a])
         /\ \A p \in Scans \union Appeals : CauseOf(mem'[p])
         /\ WaivedBy(cache'.verdict) \subseteq Waivable
<1> DEFINE Sources ==
         /\ CauseOf(ckpt') \/ \E a \in Appeals :
                /\ status[a] # "none"
                /\ ckpt' = UpdateState(ckpt, appealId[a])
         /\ \A p \in Scans \union Appeals : CauseOf(mem'[p])
         /\ WaivedBy(cache'.verdict) \subseteq Waivable
<1>1. CauseOf(InitialState)
  BY DEF CauseOf, InitialState, NoCheckpoint, NoVerdict, WaivedBy
<1>2. \A p \in Scans \union Appeals : CauseOf(NodeStep(mem[p], auto, idOf))
  BY NodeStepCause DEF TypeInv, TypeOK, CauseInv
<1>3. \A p \in Scans \union Appeals :
        /\ WaivedBy(ScanDecision(mem[p]).verdict) \subseteq Waivable
        /\ WaivedBy(ResumeDecision(mem[p]).verdict) \subseteq Waivable
  BY DEF CauseInv, CauseOf, ScanDecision, ResumeDecision, WaivedBy, NoVerdict
<1>4. /\ WaivedBy(DegradedDecision.verdict) \subseteq Waivable
      /\ WaivedBy(ChainFailure.verdict) \subseteq Waivable
  BY DEF DegradedDecision, ChainFailure, WaivedBy, NoVerdict
<1>5. ASSUME NEW s \in Scans, ScanRun(s) \/ ScanDegrade(s) \/ ScanCrash(s)
      PROVE  Sources
  BY <1>1, <1>2, <1>3, <1>4, <1>5
     DEF ScanRun, ScanInvoke, ScanNode, ScanPublish, ScanDegrade, ScanCrash, CauseInv,
         TypeInv, TypeOK
<1>6. ASSUME NEW a \in Appeals, Submit(a) \/ AppealRun(a) \/ ResumeRaises(a) \/ Crash(a)
      PROVE  Sources
  <2>1. CASE InjectDecision(a)
    BY <2>1 DEF InjectDecision, AppealUnchanged, CauseInv, TypeInv, Submitted
  <2>2. CASE LoadCheckpoint(a)
    BY <2>2 DEF LoadCheckpoint, CauseInv, TypeInv, TypeOK
  <2>3. CASE RunNode(a)
    BY <2>3, <1>2 DEF RunNode, CauseInv, TypeInv, TypeOK
  <2>4. CASE RefreshCache(a)
    BY <2>4, <1>3 DEF RefreshCache, CauseInv
  <2>5. CASE UNCHANGED <<ckpt, mem, cache>>
    BY <2>5 DEF CauseInv
  <2>6. QED
    BY <1>6, <2>1, <2>2, <2>3, <2>4, <2>5
       DEF AppealRun, Submit, FailNoPendingState, FailFindingNotPending, PassPendingCheck,
           AuditApproval, MarkResolved, ResumeRaises, Crash
<1>7. CASE Next
  BY <1>5, <1>6, <1>7 DEF Next
<1>8. CASE UNCHANGED vars
  BY <1>8 DEF vars, CauseInv
<1>9. QED BY <1>7, <1>8

LEMMA CauseNext ==
  ASSUME TypeInv, TypeInv', CauseInv, [Next]_vars
  PROVE  CauseInv'
<1>1. CauseOf(ckpt)'
  <2>1. CASE CauseOf(ckpt')
    BY <2>1, CauseStable DEF TypeInv, TypeOK, CauseOf
  <2>2. CASE \E a \in Appeals : status[a] # "none" /\ ckpt' = UpdateState(ckpt, appealId[a])
    <3>1. PICK a \in Appeals : status[a] # "none" /\ ckpt' = UpdateState(ckpt, appealId[a])
      BY <2>2
    <3>2. ckpt'.human = {appealId[a]} /\ appealId[a] \in Appealed
      BY <3>1 DEF UpdateState, Appealed, TypeInv, TypeOK, Checkpoint
    <3>3. ckpt'.unresolved = ckpt.unresolved /\ ckpt'.verdict = ckpt.verdict
      BY <3>1 DEF UpdateState, TypeInv, TypeOK, Checkpoint
    <3>4. CauseOf(ckpt')
      BY <3>2, <3>3 DEF CauseOf, CauseInv
    <3>5. QED BY <3>4, CauseStable DEF TypeInv, TypeOK, CauseOf
  <2>3. QED BY <2>1, <2>2, CauseSources
<1>2. \A p \in Scans \union Appeals : CauseOf(mem[p])'
  BY CauseSources, CauseStable DEF TypeInv, TypeOK, CauseOf
<1>3. (WaivedBy(cache.verdict) \subseteq Waivable)'
  BY CauseSources, CauseStable DEF WaivedBy
<1>4. QED BY <1>1, <1>2, <1>3 DEF CauseInv

\* However many scans and appeals interleave, crash or repeat, nobody's finding is waived unless
\* the rule engine waived it or somebody appealed its id.
THEOREM WaiverHasCauseHolds == Spec => []WaiverHasCause
<1>1. TypeInv /\ CauseInv => WaiverHasCause
  BY DEF CauseInv, CauseOf, WaiverHasCause
<1>2. Init => CauseInv
  BY CauseInit
<1>3. TypeInv /\ TypeInv' /\ CauseInv /\ [Next]_vars => CauseInv'
  BY CauseNext
<1>4. QED BY <1>1, <1>2, <1>3, TypeCorrect, PTL DEF Spec

-----------------------------------------------------------------------------
(* With one delivery of the security chain the gate opens on a decision.   *)

\* How far a thread that is past auto_resolve has got.
Reviewed(c) ==
    /\ c.next \in {"human_review", "finalize", "end"}
    /\ \A f \in Findings : c.verdict[f] = "none" => f \in c.unresolved
    /\ c.next # "human_review" => c.unresolved = {}

\* A decision has a verdict on every finding.
Complete(c) == c.decided => \A f \in Findings : c.verdict[f] # "none"

\* The strengthening: an appeal past the pending check works on a thread the scan has left, so
\* its resumed graph cannot be interrupted again.
ReviewInv ==
    /\ Complete(ckpt)
    /\ \A p \in Scans \union Appeals : Complete(mem[p])
    /\ \A s \in Scans : scanPc[s] = "ready" => ckpt.next = "none"
    /\ \A s \in Scans : scanPc[s] = "invoked" =>
           \/ mem[s].next = "auto_resolve" /\ ~mem[s].decided
           \/ mem[s].next = "finalize" /\ Reviewed(mem[s])
    /\ ckpt.next \in {"human_review", "finalize", "end"} => Reviewed(ckpt)
    /\ ckpt.next = "human_review" => \A s \in Scans : scanPc[s] \notin {"ready", "invoked"}
    /\ \A a \in Appeals : apc[a] \in {"resume", "updated", "running", "returned"} =>
           /\ \A s \in Scans : scanPc[s] \notin {"ready", "invoked"}
           /\ ckpt.next \in {"human_review", "finalize", "end"}
    /\ \A a \in Appeals : apc[a] = "running" =>
           mem[a].next # "end" /\ Reviewed(mem[a])
    /\ \A a \in Appeals : apc[a] = "returned" => mem[a].decided
    /\ ckpt.next = "end" => ckpt.decided
    /\ UnblockedIsDecided

\* auto_resolve leaves an undecided thread at human_review or at finalize.
LEMMA AutoResolveReview ==
  ASSUME TypeOK, NEW c \in Checkpoint, c.next = "auto_resolve", ~c.decided
  PROVE  LET d == NodeStep(c, auto, idOf) IN
         d.next \in {"human_review", "finalize"} /\ Reviewed(d) /\ ~d.decided
<1>1. NodeStep(c, auto, idOf) = AutoResolve(c, auto)
  BY DEF NodeStep
<1>2. QED
  BY <1>1 DEF AutoResolve, RouteAfterResolve, Reviewed, Checkpoint, TypeOK, AutoOutcome, Verdict

\* human_review gives every finding a verdict and moves on to finalize.
LEMMA HumanReviewReview ==
  ASSUME TypeOK, NEW c \in Checkpoint, c.next = "human_review", Reviewed(c)
  PROVE  LET d == NodeStep(c, auto, idOf) IN
         d.next = "finalize" /\ Reviewed(d) /\ Complete(d)
<1>1. NodeStep(c, auto, idOf) = HumanReview(c, idOf)
  BY DEF NodeStep
<1>2. QED
  BY <1>1 DEF HumanReview, HumanVerdict, Reviewed, Complete, Checkpoint

\* finalize decides every finding.
LEMMA FinalizeReview ==
  ASSUME TypeOK, NEW c \in Checkpoint, c.next = "finalize", Reviewed(c)
  PROVE  LET d == NodeStep(c, auto, idOf) IN
         d.next = "end" /\ d.decided /\ Reviewed(d) /\ Complete(d)
<1>1. NodeStep(c, auto, idOf) = Finalize(c)
  BY DEF NodeStep
<1>2. QED
  BY <1>1 DEF Finalize, Reviewed, Complete, Checkpoint

\* A decision that is complete and blocks nothing waives everything.
LEMMA UnblockedWaivesAll ==
  ASSUME NEW c \in Checkpoint, Complete(c), c.decided, ~AnyBlock(c.verdict)
  PROVE  WaivedBy(c.verdict) = Findings
  BY DEF Complete, AnyBlock, WaivedBy, Checkpoint, Verdict

\* The broker delivers the security chain once.
SingleDelivery == \A s, t \in Scans : s = t

LEMMA ReviewInit == Init => ReviewInv
  BY DEF Init, ReviewInv, Complete, Reviewed, NoCheckpoint, NoCache, UnblockedIsDecided

LEMMA ReviewScan ==
  ASSUME SingleDelivery, TypeInv, TypeInv', ReviewInv, NEW s \in Scans,
         ScanRun(s) \/ ScanDegrade(s) \/ ScanCrash(s)
  PROVE  ReviewInv'
<1> USE DEF ReviewInv, TypeInv, TypeOK, ScanUnchanged, SingleDelivery
<1>1. CASE ScanInvoke(s)
  <2>1. InitialState.next = "auto_resolve" /\ ~InitialState.decided
    BY DEF InitialState, NoCheckpoint
  <2>2. QED BY <1>1, <2>1 DEF ScanInvoke, Complete, Reviewed, UnblockedIsDecided
<1>2. CASE ScanNode(s)
  <2> DEFINE d == NodeStep(mem[s], auto, idOf)
  <2>1. /\ ckpt' = d
        /\ mem' = [mem EXCEPT ![s] = d]
        /\ scanPc' = [scanPc EXCEPT ![s] =
                        IF d.next \in {"human_review", "end"} THEN "returned" ELSE @]
        /\ UNCHANGED <<apc, cache>>
    BY <1>2 DEF ScanNode
  <2>2. /\ scanPc[s] = "invoked"
        /\ \A a \in Appeals : apc[a] \notin {"resume", "updated", "running", "returned"}
    BY <1>2 DEF ScanNode
  <2>3. /\ Reviewed(d) /\ Complete(d)
        /\ d.next \in {"human_review", "finalize", "end"}
        /\ d.next = "end" => d.decided
    <3>1. CASE mem[s].next = "auto_resolve" /\ ~mem[s].decided
      BY <3>1, AutoResolveReview DEF Complete
    <3>2. CASE mem[s].next = "finalize" /\ Reviewed(mem[s])
      BY <3>2, FinalizeReview
    <3>3. QED BY <2>2, <3>1, <3>2
  <2>4. scanPc'[s] = "invoked" <=> d.next = "finalize"
    BY <2>1, <2>2, <2>3
  <2> HIDE DEF d
  <2>5. QED BY <2>1, <2>2, <2>3, <2>4, AppealConstants DEF UnblockedIsDecided
<1>3. CASE ScanPublish(s)
  <2>1. UnblockedIsDecided'
    <3>1. CASE cache' = ScanDecision(mem[s])
      BY <3>1, UnblockedWaivesAll DEF ScanDecision, UnblockedIsDecided
    <3>2. CASE UNCHANGED cache
      BY <3>2 DEF UnblockedIsDecided
    <3>3. QED BY <1>3, <3>1, <3>2 DEF ScanPublish
  <2>2. QED BY <1>3, <2>1 DEF ScanPublish
<1>4. CASE ScanDegrade(s)
  <2>1. UnblockedIsDecided'
    <3>1. CASE cache' = DegradedDecision
      BY <3>1 DEF DegradedDecision, UnblockedIsDecided, WaivedBy
    <3>2. CASE cache' = ChainFailure
      BY <3>2 DEF ChainFailure, UnblockedIsDecided
    <3>3. QED BY <1>4, <3>1, <3>2 DEF ScanDegrade
  <2>2. UNCHANGED <<ckpt, mem, apc>> /\ scanPc' = [scanPc EXCEPT ![s] = "done"]
    BY <1>4 DEF ScanDegrade
  <2>3. QED BY <2>1, <2>2
<1>5. CASE ScanCrash(s)
  BY <1>5 DEF ScanCrash, UnblockedIsDecided
<1>6. QED BY <1>1, <1>2, <1>3, <1>4, <1>5 DEF ScanRun

LEMMA ReviewAppeal ==
  ASSUME SingleDelivery, TypeInv, TypeInv', ReviewInv, NEW a \in Appeals,
         Submit(a) \/ AppealRun(a) \/ ResumeRaises(a) \/ Crash(a)
  PROVE  ReviewInv'
<1> USE DEF ReviewInv, TypeInv, TypeOK, AppealUnchanged, Goto
<1>1. CASE /\ UNCHANGED <<ckpt, mem, cache, scanPc>>
           /\ \E pc \in {"queued", "lost", "done", "cached", "audited"} :
                apc' = [apc EXCEPT ![a] = pc]
  BY <1>1 DEF UnblockedIsDecided
<1>2. CASE PassPendingCheck(a)
  <2>1. ckpt.next = "human_review"
    BY <1>2 DEF PassPendingCheck, SeenPending, PendingIds
  <2>2. QED BY <1>2, <2>1 DEF PassPendingCheck, UnblockedIsDecided
<1>3. CASE InjectDecision(a)
  <2>1. /\ ckpt'.next = ckpt.next /\ ckpt'.unresolved = ckpt.unresolved
        /\ ckpt'.verdict = ckpt.verdict /\ ckpt'.decided = ckpt.decided
    BY <1>3 DEF InjectDecision, UpdateState, Checkpoint
  <2>2. QED BY <1>3, <2>1 DEF InjectDecision, Reviewed, Complete, UnblockedIsDecided
<1>4. CASE LoadCheckpoint(a)
  BY <1>4, AppealConstants DEF LoadCheckpoint, UnblockedIsDecided
<1>5. CASE RunNode(a)
  <2> DEFINE d == NodeStep(mem[a], auto, idOf)
  <2>1. /\ ckpt' = d
        /\ mem' = [mem EXCEPT ![a] = d]
        /\ apc' = [apc EXCEPT ![a] =
                     IF d.next \in {"human_review", "end"} THEN "returned" ELSE "running"]
        /\ UNCHANGED <<scanPc, cache>>
    BY <1>5 DEF RunNode
  <2>2. /\ apc[a] = "running"
        /\ \A s \in Scans : scanPc[s] \notin {"ready", "invoked"}
    BY <1>5 DEF RunNode
  <2>3. /\ Reviewed(d) /\ Complete(d)
        /\ d.next \in {"finalize", "end"}
        /\ d.next = "end" => d.decided
    <3>1. CASE mem[a].next = "human_review"
      BY <2>2, <3>1, HumanReviewReview
    <3>2. CASE mem[a].next = "finalize"
      BY <2>2, <3>2, FinalizeReview
    <3>3. QED BY <2>2, <3>1, <3>2 DEF Reviewed
  <2> HIDE DEF d
  <2>4. QED BY <2>1, <2>2, <2>3, AppealConstants DEF UnblockedIsDecided
<1>6. CASE RefreshCache(a)
  <2>1. UnblockedIsDecided'
    <3>1. CASE cache' = ResumeDecision(mem[a])
      <4>1. mem[a] \in Checkpoint /\ mem[a].decided /\ Complete(mem[a])
        BY <1>6 DEF RefreshCache
      <4>2. QED BY <3>1, <4>1, UnblockedWaivesAll DEF ResumeDecision, UnblockedIsDecided
    <3>2. CASE UNCHANGED cache
      BY <3>2 DEF UnblockedIsDecided
    <3>3. QED BY <1>6, <3>1, <3>2 DEF RefreshCache
  <2>2. QED BY <1>6, <2>1 DEF RefreshCache
<1>7. QED
  BY <1>1, <1>2, <1>3, <1>4, <1>5, <1>6
     DEF AppealRun, Submit, FailNoPendingState, FailFindingNotPending, AuditApproval,
         MarkResolved, ResumeRaises, Crash

LEMMA ReviewNext ==
  ASSUME SingleDelivery, TypeInv, TypeInv', ReviewInv, [Next]_vars
  PROVE  ReviewInv'
<1>1. CASE Next
  BY <1>1, ReviewScan, ReviewAppeal DEF Next
<1>2. CASE UNCHANGED vars
  BY <1>2 DEF vars, ReviewInv, UnblockedIsDecided, Complete, Reviewed
<1>3. QED BY <1>1, <1>2

\* With one delivery of the security chain, no interleaving of appeals, crashes and faults
\* publishes an unblocking result that does not waive every finding.
THEOREM UnblockedIsDecidedHolds ==
  ASSUME SingleDelivery
  PROVE  Spec => []UnblockedIsDecided
<1>1. Init => ReviewInv
  BY ReviewInit
<1>2. TypeInv /\ TypeInv' /\ ReviewInv /\ [Next]_vars => ReviewInv'
  BY ReviewNext
<1>3. ReviewInv => UnblockedIsDecided
  BY DEF ReviewInv
<1>4. QED BY <1>1, <1>2, <1>3, TypeCorrect, PTL DEF Spec

-----------------------------------------------------------------------------
(* With one delivery the conflict stage implements VerdictGate.            *)

\* A step publishes a result or records an appeal, never both.
LEMMA OneThingAtATime ==
  ASSUME TypeInv, [Next]_vars
  PROVE  \/ UNCHANGED cache /\ Appealed' = Appealed
         \/ UNCHANGED cache /\ \E i \in Ids : Appealed' = Appealed \union {i}
         \/ cache'.present /\ Appealed' = Appealed
<1> USE DEF TypeInv, TypeOK, Submitted
<1>1. ASSUME NEW s \in Scans, ScanRun(s) \/ ScanDegrade(s) \/ ScanCrash(s)
      PROVE  (UNCHANGED cache \/ cache'.present) /\ Appealed' = Appealed
  BY <1>1 DEF ScanRun, ScanInvoke, ScanNode, ScanPublish, ScanDegrade, ScanCrash, ScanUnchanged,
              ScanDecision, DegradedDecision, ChainFailure, Appealed
<1>2. ASSUME NEW a \in Appeals, Submit(a)
      PROVE  UNCHANGED cache /\ \E i \in Ids : Appealed' = Appealed \union {i}
  <2>1. PICK i \in Ids : appealId' = [appealId EXCEPT ![a] = i]
    BY <1>2 DEF Submit
  <2>2. status[a] = "none" /\ status' = [status EXCEPT ![a] = "pending_review"]
    BY <1>2 DEF Submit
  <2>3. Appealed' = Appealed \union {i}
    BY <2>1, <2>2 DEF Appealed
  <2>4. QED BY <1>2, <2>3 DEF Submit
<1>3. ASSUME NEW a \in Appeals, AppealRun(a) \/ ResumeRaises(a) \/ Crash(a)
      PROVE  (UNCHANGED cache \/ cache'.present) /\ Appealed' = Appealed
  <2>1. UNCHANGED appealId /\ (UNCHANGED cache \/ cache'.present)
    BY <1>3 DEF AppealRun, FailNoPendingState, FailFindingNotPending, PassPendingCheck,
              InjectDecision, LoadCheckpoint, RunNode, RefreshCache, AuditApproval,
              MarkResolved, ResumeRaises, Crash, AppealUnchanged, ResumeDecision
  <2>2. \A b \in Appeals : status'[b] = "none" <=> status[b] = "none"
    BY <1>3 DEF AppealRun, FailNoPendingState, FailFindingNotPending, PassPendingCheck,
              InjectDecision, LoadCheckpoint, RunNode, RefreshCache, AuditApproval,
              MarkResolved, ResumeRaises, Crash, MarkStatus, Goto, InFlight
  <2>3. QED BY <2>1, <2>2 DEF Appealed
<1> HIDE DEF TypeInv, TypeOK, Submitted
<1>4. CASE Next
  BY <1>1, <1>2, <1>3, <1>4 DEF Next
<1>5. CASE UNCHANGED vars
  BY <1>5 DEF vars, Appealed
<1>6. QED BY <1>4, <1>5

LEMMA GateStarts == Init => Gate!GateInit
  BY DEF Init, Gate!GateInit, Appealed, AutoOutcome, Verdict, NoCache, NoVerdict, WaivedBy

LEMMA GateSteps ==
  ASSUME TypeInv, TypeInv', CauseInv, ReviewInv', [Next]_vars
  PROVE  [Gate!GateNext]_Gate!gateVars
<1>1. UNCHANGED <<auto, idOf>>
  BY AppealedGrows
<1>2. WaivedBy(cache'.verdict) \subseteq Waivable
  BY CauseSources
<1>3. CASE UNCHANGED cache /\ Appealed' = Appealed
  BY <1>1, <1>3 DEF Gate!gateVars, WaivedBy
<1>4. CASE UNCHANGED cache /\ \E i \in Ids : Appealed' = Appealed \union {i}
  BY <1>1, <1>4 DEF Gate!GateNext, Gate!Appeal, WaivedBy
<1>5. CASE cache'.present /\ Appealed' = Appealed
  <2>1. CASE cache'.blocking
    <3>1. Gate!Block
      BY <1>1, <1>2, <1>5, <2>1 DEF Gate!Block, Gate!Waivable, Waivable, WaivedBy
    <3>2. QED BY <3>1 DEF Gate!GateNext
  <2>2. CASE ~cache'.blocking
    <3>1. WaivedBy(cache'.verdict) = Findings
      BY <1>5, <2>2 DEF ReviewInv, UnblockedIsDecided, WaivedBy
    <3>2. Gate!Open
      BY <1>1, <1>2, <1>5, <2>2, <3>1 DEF Gate!Open, Gate!Waivable, Waivable, WaivedBy
    <3>3. QED BY <3>2 DEF Gate!GateNext
  <2>3. QED BY <2>1, <2>2
<1>6. QED BY <1>3, <1>4, <1>5, OneThingAtATime

\* With one delivery of the security chain, every behaviour of scan, appeals, crashes and faults
\* is a behaviour of the verdict gate.
THEOREM ImplementsGateHolds ==
  ASSUME SingleDelivery
  PROVE  Spec => ImplementsGate
<1>1. Init => Gate!GateInit /\ CauseInv /\ ReviewInv
  BY GateStarts, CauseInit, ReviewInit
<1>2. TypeInv /\ TypeInv' /\ CauseInv /\ [Next]_vars => CauseInv'
  BY CauseNext
<1>3. TypeInv /\ TypeInv' /\ ReviewInv /\ [Next]_vars => ReviewInv'
  BY ReviewNext
<1>4. TypeInv /\ TypeInv' /\ CauseInv /\ ReviewInv' /\ [Next]_vars
        => [Gate!GateNext]_Gate!gateVars
  BY GateSteps
<1>5. QED
  BY <1>1, <1>2, <1>3, <1>4, TypeCorrect, PTL DEF Spec, ImplementsGate, Gate!GateSpec

-----------------------------------------------------------------------------
(* What a resolved appeal has behind it.                                   *)

\* An appeal marked resolved has its row in the audit log.
ResolvedIsAudited ==
    \A a \in Appeals : status[a] = "resolved" => <<"appeal_approved", a>> \in audit

\* An appeal whose task has ended is answered.
EndedIsAnswered == \A a \in Appeals : apc[a] = "done" => status[a] \in {"failed", "resolved"}

\* The scans do not touch the appeals.
LEMMA ScanLeavesAppeals ==
  ASSUME NEW s \in Scans, ScanRun(s) \/ ScanDegrade(s) \/ ScanCrash(s)
  PROVE  UNCHANGED <<auto, idOf, apc, appealId, status, audit>>
  BY DEF ScanRun, ScanInvoke, ScanNode, ScanPublish, ScanDegrade, ScanCrash, ScanUnchanged

\* An appeal about to be marked has been audited.
ApprovalInv ==
    \A a \in Appeals : apc[a] = "audited" \/ status[a] = "resolved"
                          => <<"appeal_approved", a>> \in audit

LEMMA ApprovalStep ==
  ASSUME TypeInv, ApprovalInv, [Next]_vars
  PROVE  ApprovalInv'
<1>1. CASE \E s \in Scans : ScanRun(s) \/ ScanDegrade(s) \/ ScanCrash(s)
  BY <1>1, ScanLeavesAppeals DEF ApprovalInv
<1>2. CASE \E a \in Appeals : Submit(a) \/ AppealRun(a) \/ ResumeRaises(a) \/ Crash(a)
  <2>1. PICK a \in Appeals : Submit(a) \/ AppealRun(a) \/ ResumeRaises(a) \/ Crash(a)
    BY <1>2
  <2> USE DEF Submit, AppealRun, FailNoPendingState, FailFindingNotPending, PassPendingCheck,
              InjectDecision, LoadCheckpoint, RunNode, RefreshCache, AuditApproval, MarkResolved,
              ResumeRaises, Crash, MarkStatus, AuditRow, Goto
  <2>2. audit \subseteq audit'
    BY <2>1
  <2>3. \A b \in Appeals \ {a} : apc'[b] = apc[b] /\ status'[b] = status[b]
    BY <2>1 DEF TypeInv, TypeOK
  <2>4. apc'[a] = "audited" => <<"appeal_approved", a>> \in audit'
    BY <2>1 DEF TypeInv, TypeOK
  <2>5. status'[a] = "resolved" => status[a] = "resolved" \/ apc[a] = "audited"
    BY <2>1 DEF TypeInv, TypeOK
  <2> QED BY <2>2, <2>3, <2>4, <2>5 DEF ApprovalInv
<1>3. CASE UNCHANGED vars
  BY <1>3 DEF vars, ApprovalInv
<1> QED BY <1>1, <1>2, <1>3 DEF Next

\* No appeal is resolved without its row in the audit log, whatever raises and however often its
\* task is delivered: a write that raises ends the task before the status.
THEOREM ResolvedIsAuditedHolds == Spec => []ResolvedIsAudited
<1>1. Init => ApprovalInv
  BY DEF Init, ApprovalInv
<1>2. TypeInv /\ ApprovalInv /\ [Next]_vars => ApprovalInv'
  BY ApprovalStep
<1>3. ApprovalInv => ResolvedIsAudited
  BY DEF ApprovalInv, ResolvedIsAudited
<1> QED BY <1>1, <1>2, <1>3, TypeCorrect, PTL DEF Spec

\* While Redis, SQLite and the graph answer, no task of an appeal ends without an answer, although
\* workers may die and messages come again: the safety half of AppealSettles.
THEOREM EndedIsAnsweredHolds ==
  ASSUME ~Faults
  PROVE  Spec => []EndedIsAnswered
<1>1. Init => EndedIsAnswered
  BY DEF Init, EndedIsAnswered
<1>2. TypeInv /\ EndedIsAnswered /\ [Next]_vars => EndedIsAnswered'
  <2> SUFFICES ASSUME TypeInv, EndedIsAnswered, [Next]_vars PROVE EndedIsAnswered'
    OBVIOUS
  <2>1. CASE \E s \in Scans : ScanRun(s) \/ ScanDegrade(s) \/ ScanCrash(s)
    BY <2>1, ScanLeavesAppeals DEF EndedIsAnswered
  <2>2. CASE \E a \in Appeals : Submit(a) \/ AppealRun(a) \/ ResumeRaises(a) \/ Crash(a)
    <3>1. PICK a \in Appeals : Submit(a) \/ AppealRun(a) \/ ResumeRaises(a) \/ Crash(a)
      BY <2>2
    <3> USE DEF Submit, AppealRun, FailNoPendingState, FailFindingNotPending, PassPendingCheck,
                InjectDecision, LoadCheckpoint, RunNode, RefreshCache, AuditApproval, MarkResolved,
                ResumeRaises, Crash, MarkStatus, AuditRow, Goto, TypeInv, TypeOK
    <3>2. \A b \in Appeals \ {a} : apc'[b] = apc[b] /\ status'[b] = status[b]
      BY <3>1
    <3>3. apc'[a] = "done" => status'[a] \in {"failed", "resolved"}
      BY <3>1 DEF InFlight
    <3> QED BY <3>2, <3>3 DEF EndedIsAnswered
  <2>3. CASE UNCHANGED vars
    BY <2>3 DEF vars, EndedIsAnswered
  <2> QED BY <2>1, <2>2, <2>3 DEF Next
<1> QED BY <1>1, <1>2, TypeCorrect, PTL DEF Spec

-----------------------------------------------------------------------------
(* A resolved appeal was applied, as long as the appeals name one id.      *)

OneIdAppealed ==
    \A a, b \in Appeals : apc[a] # "none" /\ apc[b] # "none" => appealId[a] = appealId[b]

\* The thread waives what an appeal of the id asks for.
AppliedTo(c, i) ==
    \A f \in Findings : auto[f] = "human" /\ idOf[f] = i => c.verdict[f] = "waive"

\* A thread that pauses has all findings left to a human before it.
LeftToHuman(c) ==
    c.next = "human_review" => \A f \in Findings : auto[f] = "human" => f \in c.unresolved

Past(c) == c.next \in {"finalize", "end"}

NothingLeft == \A f \in Findings : auto[f] # "human"

\* The strengthening: the one id is in human_input before human_review runs, in the checkpoint and
\* in every copy of it, and what comes after human_review has applied it.
AppliedInv ==
    /\ LeftToHuman(ckpt)
    /\ \A a \in Appeals : LeftToHuman(mem[a])
    /\ Past(ckpt) => \A a \in Appeals : apc[a] # "none" => AppliedTo(ckpt, appealId[a])
    /\ \A a \in Appeals :
           apc[a] = "updated" /\ ckpt.next = "human_review" => ckpt.human = {appealId[a]}
    /\ \A a \in Appeals : apc[a] = "running" =>
           \/ mem[a].next = "human_review" /\ mem[a].human = {appealId[a]}
           \/ mem[a].next = "finalize" /\ AppliedTo(mem[a], appealId[a])
    /\ \A a \in Appeals : apc[a] \in {"returned", "cached", "audited"} \/ status[a] = "resolved" =>
           Past(ckpt) /\ \A s \in Scans : scanPc[s] \notin {"ready", "invoked"}
    /\ \A s \in Scans : scanPc[s] = "invoked" /\ mem[s].next = "finalize" => NothingLeft
    /\ Past(ckpt) => NothingLeft \/ \E a \in Appeals : apc[a] # "none"

\* What auto_resolve leaves to a human pauses the thread.
LEMMA AutoResolvePauses ==
  ASSUME TypeOK, NEW c \in Checkpoint, c.next = "auto_resolve"
  PROVE  LET d == NodeStep(c, auto, idOf) IN
         LeftToHuman(d) /\ (Past(d) => NothingLeft)
<1>1. NodeStep(c, auto, idOf) = AutoResolve(c, auto)
  BY DEF NodeStep
<1> QED BY <1>1 DEF AutoResolve, RouteAfterResolve, LeftToHuman, Past, NothingLeft, Checkpoint

\* human_review waives the findings of the id in human_input.
LEMMA HumanReviewApplies ==
  ASSUME NEW c \in Checkpoint, NEW i \in Ids,
         c.next = "human_review", c.human = {i}, LeftToHuman(c)
  PROVE  LET d == NodeStep(c, auto, idOf) IN d.next = "finalize" /\ AppliedTo(d, i)
<1>1. NodeStep(c, auto, idOf) = HumanReview(c, idOf)
  BY DEF NodeStep
<1> QED BY <1>1 DEF HumanReview, HumanVerdict, LeftToHuman, AppliedTo, Checkpoint

\* finalize changes no verdict.
LEMMA FinalizeKeeps ==
  ASSUME NEW c \in Checkpoint, c.next = "finalize"
  PROVE  LET d == NodeStep(c, auto, idOf) IN
         d.next = "end" /\ \A i \in Ids : AppliedTo(c, i) => AppliedTo(d, i)
<1>1. NodeStep(c, auto, idOf) = Finalize(c)
  BY DEF NodeStep
<1> QED BY <1>1 DEF Finalize, AppliedTo, Checkpoint

LEMMA AppliedScan ==
  ASSUME SingleDelivery, TypeInv, ReviewInv, AppliedInv, NEW s \in Scans,
         ScanRun(s) \/ ScanDegrade(s) \/ ScanCrash(s)
  PROVE  AppliedInv'
<1>1. UNCHANGED <<auto, idOf, apc, appealId, status>>
  BY ScanLeavesAppeals
<1>2. /\ \A a \in Appeals : mem'[a] = mem[a]
      /\ \A t \in Scans : t = s
  BY AppealConstants
     DEF ScanRun, ScanInvoke, ScanNode, ScanPublish, ScanDegrade, ScanCrash, TypeInv, TypeOK,
         SingleDelivery
<1>3. CASE ScanInvoke(s)
  <2>1. ckpt'.next = "auto_resolve" /\ mem'[s].next = "auto_resolve"
    BY <1>3 DEF ScanInvoke, InitialState, NoCheckpoint, TypeInv, TypeOK
  <2>2. scanPc[s] = "ready"
    BY <1>3 DEF ScanInvoke
  <2>3. ~Past(ckpt)' /\ LeftToHuman(ckpt)'
    BY <2>1 DEF Past, LeftToHuman
  <2>4. \A a \in Appeals : apc[a] \notin {"returned", "cached", "audited"} /\ status[a] # "resolved"
    BY <2>2 DEF AppliedInv
  <2>5. \A t \in Scans : mem'[t].next # "finalize"
    BY <1>2, <2>1
  <2> QED BY <1>1, <1>2, <2>1, <2>3, <2>4, <2>5 DEF AppliedInv, LeftToHuman, AppliedTo
<1>4. CASE ScanNode(s)
  <2> DEFINE d == NodeStep(mem[s], auto, idOf)
  <2>1. /\ scanPc[s] = "invoked" /\ ckpt' = d /\ mem'[s] = d
        /\ scanPc' = [scanPc EXCEPT ![s] =
                        IF d.next \in {"human_review", "end"} THEN "returned" ELSE @]
    BY <1>4 DEF ScanNode, TypeInv, TypeOK
  <2>2. mem[s] \in Checkpoint /\ TypeOK
    BY DEF TypeInv, TypeOK
  <2>3. LeftToHuman(d) /\ (Past(d) => NothingLeft)
    <3>1. CASE mem[s].next = "auto_resolve"
      BY <2>2, <3>1, AutoResolvePauses
    <3>2. CASE mem[s].next = "finalize"
      <4>1. d.next = "end" /\ NothingLeft
        BY <2>1, <2>2, <3>2, FinalizeKeeps DEF AppliedInv
      <4> QED BY <4>1 DEF LeftToHuman
    <3> QED BY <2>1, <3>1, <3>2 DEF ReviewInv
  <2> HIDE DEF d
  <2>4. \A a \in Appeals : AppliedTo(ckpt, appealId[a])' \/ ~Past(d)
    BY <1>1, <2>3 DEF AppliedTo, NothingLeft
  <2>5. \A a \in Appeals : /\ apc[a] \notin {"updated", "running", "returned", "cached", "audited"}
                           /\ status[a] # "resolved"
    BY <2>1 DEF ReviewInv, AppliedInv
  <2>6. LeftToHuman(ckpt)' /\ (Past(ckpt)' <=> Past(d))
    BY <1>1, <2>1, <2>3 DEF LeftToHuman, Past
  <2>7. \A t \in Scans : mem'[t].next = "finalize" => NothingLeft
    BY <1>2, <2>1, <2>3 DEF Past
  <2>8. Past(ckpt)' => NothingLeft'
    BY <1>1, <2>3, <2>6 DEF NothingLeft
  <2>9. NothingLeft' <=> NothingLeft
    BY <1>1 DEF NothingLeft
  <2> QED BY <1>1, <1>2, <2>4, <2>5, <2>6, <2>7, <2>8, <2>9 DEF AppliedInv, LeftToHuman
<1>5. CASE ScanPublish(s) \/ ScanDegrade(s) \/ ScanCrash(s)
  <2>1. UNCHANGED <<ckpt, mem>> /\ scanPc'[s] \notin {"ready", "invoked"}
    BY <1>5 DEF ScanPublish, ScanDegrade, ScanCrash, TypeInv, TypeOK
  <2>2. NothingLeft' <=> NothingLeft
    BY <1>1 DEF NothingLeft
  <2>3. LeftToHuman(ckpt)' /\ \A a \in Appeals : LeftToHuman(mem[a])'
    BY <1>1, <2>1 DEF AppliedInv, LeftToHuman
  <2>4. Past(ckpt)' => /\ Past(ckpt)
                      /\ \A a \in Appeals : apc[a] # "none" => AppliedTo(ckpt, appealId[a])'
    BY <1>1, <2>1 DEF AppliedInv, Past, AppliedTo
  <2> QED BY <1>1, <1>2, <2>1, <2>2, <2>3, <2>4 DEF AppliedInv, Past, AppliedTo
<1> QED BY <1>3, <1>4, <1>5 DEF ScanRun

LEMMA AppliedAppeal ==
  ASSUME TypeInv, ReviewInv, AppliedInv, OneIdAppealed', NEW a \in Appeals,
         Submit(a) \/ AppealRun(a) \/ ResumeRaises(a) \/ Crash(a)
  PROVE  AppliedInv'
<1>1. UNCHANGED <<auto, idOf, scanPc>>
  BY DEF Submit, AppealRun, FailNoPendingState, FailFindingNotPending, PassPendingCheck,
         InjectDecision, LoadCheckpoint, RunNode, RefreshCache, AuditApproval, MarkResolved,
         ResumeRaises, Crash, AppealUnchanged
<1>2. \A b \in Appeals \ {a} :
        apc'[b] = apc[b] /\ status'[b] = status[b] /\ appealId'[b] = appealId[b]
  BY DEF Submit, AppealRun, FailNoPendingState, FailFindingNotPending, PassPendingCheck,
         InjectDecision, LoadCheckpoint, RunNode, RefreshCache, AuditApproval, MarkResolved,
         ResumeRaises, Crash, AppealUnchanged, MarkStatus, Goto, TypeInv, TypeOK
<1>3. \A s \in Scans : mem'[s] = mem[s]
  BY AppealConstants
     DEF Submit, AppealRun, FailNoPendingState, FailFindingNotPending, PassPendingCheck,
         InjectDecision, LoadCheckpoint, RunNode, RefreshCache, AuditApproval, MarkResolved,
         ResumeRaises, Crash, TypeInv, TypeOK
<1>4. \A b \in Appeals : apc'[b] # "none" => appealId'[b] = appealId'[a]
  <2>1. apc'[a] # "none"
    BY DEF Submit, AppealRun, FailNoPendingState, FailFindingNotPending, PassPendingCheck,
           InjectDecision, LoadCheckpoint, RunNode, RefreshCache, AuditApproval, MarkResolved,
           ResumeRaises, Crash, Goto, InFlight, TypeInv, TypeOK
  <2> QED BY <2>1 DEF OneIdAppealed
<1>5. CASE Submit(a)
  <2>1. UNCHANGED <<ckpt, mem>> /\ apc[a] = "none" /\ apc'[a] \in {"queued", "lost"}
        /\ status'[a] # "resolved"
    BY <1>5 DEF Submit, Goto, TypeInv, TypeOK
  <2>2. ASSUME Past(ckpt), NEW b \in Appeals, apc'[b] # "none"
        PROVE  AppliedTo(ckpt, appealId'[b])
    <3>1. CASE NothingLeft
      BY <3>1 DEF NothingLeft, AppliedTo
    <3>2. CASE ~NothingLeft
      <4>1. PICK e \in Appeals : apc[e] # "none"
        BY <2>2, <3>2 DEF AppliedInv
      <4>2. e # a /\ appealId'[e] = appealId[e] /\ apc'[e] # "none"
        BY <1>2, <2>1, <4>1
      <4>3. appealId'[b] = appealId[e]
        BY <1>4, <2>2, <4>2
      <4> QED BY <2>2, <4>1, <4>3 DEF AppliedInv
    <3> QED BY <3>1, <3>2
  <2>3. (Past(ckpt) => \A b \in Appeals : apc[b] # "none" => AppliedTo(ckpt, appealId[b]))'
    BY <1>1, <2>1, <2>2 DEF Past, AppliedTo
  <2>4. (Past(ckpt) => NothingLeft \/ \E b \in Appeals : apc[b] # "none")'
    BY <2>1
  <2> QED BY <1>1, <1>2, <2>1, <2>3, <2>4 DEF AppliedInv, LeftToHuman, Past, AppliedTo, NothingLeft
<1>6. CASE InjectDecision(a)
  <2>1. /\ ckpt'.next = ckpt.next /\ ckpt'.unresolved = ckpt.unresolved
        /\ ckpt'.verdict = ckpt.verdict /\ ckpt'.human = {appealId[a]}
    BY <1>6 DEF InjectDecision, UpdateState, Checkpoint, TypeInv, TypeOK
  <2>2. UNCHANGED <<mem, status, appealId>> /\ apc[a] = "resume" /\ apc'[a] = "updated"
    BY <1>6 DEF InjectDecision, AppealUnchanged, Goto, TypeInv, TypeOK
  <2>3. \A b \in Appeals : apc'[b] = "updated" => ckpt'.human = {appealId'[b]}
    BY <1>4, <2>1, <2>2
  <2> QED BY <1>1, <1>2, <2>1, <2>2, <2>3
          DEF AppliedInv, LeftToHuman, Past, AppliedTo, NothingLeft
<1>7. CASE LoadCheckpoint(a)
  <2>1. /\ UNCHANGED <<ckpt, status, appealId>> /\ apc[a] = "updated"
        /\ mem'[a] = ckpt /\ \A b \in Appeals \ {a} : mem'[b] = mem[b]
        /\ apc'[a] = IF ckpt.next = "end" THEN "returned" ELSE "running"
    BY <1>7 DEF LoadCheckpoint, AppealUnchanged, Goto, TypeInv, TypeOK
  <2>2. /\ ckpt.next \in {"human_review", "finalize", "end"}
        /\ \A s \in Scans : scanPc[s] \notin {"ready", "invoked"}
    BY <2>1 DEF ReviewInv
  <2>3. Past(ckpt) => AppliedTo(ckpt, appealId[a])
    BY <2>1 DEF AppliedInv
  <2>4. ckpt.next = "human_review" => ckpt.human = {appealId[a]}
    BY <2>1 DEF AppliedInv
  <2> QED BY <1>1, <1>2, <1>3, <2>1, <2>2, <2>3, <2>4
          DEF AppliedInv, LeftToHuman, Past, AppliedTo, NothingLeft
<1>8. CASE RunNode(a)
  <2> DEFINE d == NodeStep(mem[a], auto, idOf)
  <2>1. /\ UNCHANGED <<status, appealId>> /\ apc[a] = "running"
        /\ ckpt' = d /\ mem'[a] = d /\ \A b \in Appeals \ {a} : mem'[b] = mem[b]
        /\ apc'[a] = IF d.next \in {"human_review", "end"} THEN "returned" ELSE "running"
    BY <1>8 DEF RunNode, AppealUnchanged, Goto, TypeInv, TypeOK
  <2>2. /\ mem[a] \in Checkpoint /\ appealId[a] \in Ids /\ LeftToHuman(mem[a])
        /\ \A s \in Scans : scanPc[s] \notin {"ready", "invoked"}
    BY <2>1 DEF TypeInv, TypeOK, Submitted, ReviewInv, AppliedInv
  <2>3. d.next \in {"finalize", "end"} /\ AppliedTo(d, appealId[a])
    <3>1. CASE mem[a].next = "human_review" /\ mem[a].human = {appealId[a]}
      BY <2>2, <3>1, HumanReviewApplies
    <3>2. CASE mem[a].next = "finalize" /\ AppliedTo(mem[a], appealId[a])
      BY <2>2, <3>2, FinalizeKeeps
    <3> QED BY <2>1, <3>1, <3>2 DEF AppliedInv
  <2> HIDE DEF d
  <2>4. \A b \in Appeals : apc'[b] # "none" => AppliedTo(d, appealId'[b])
    BY <1>4, <2>1, <2>3
  <2>5. apc'[a] # "none"
    BY <2>1
  <2> QED BY <1>1, <1>2, <1>3, <2>1, <2>2, <2>3, <2>4, <2>5
          DEF AppliedInv, LeftToHuman, Past, AppliedTo, NothingLeft
<1>9. CASE RefreshCache(a) \/ AuditApproval(a) \/ MarkResolved(a)
  <2>1. /\ UNCHANGED <<ckpt, mem, appealId>>
        /\ apc[a] \in {"returned", "cached", "audited"}
        /\ apc'[a] \in {"cached", "audited", "done"}
    BY <1>9 DEF RefreshCache, AuditApproval, MarkResolved, AppealUnchanged, Goto, TypeInv, TypeOK
  <2> QED BY <1>1, <1>2, <2>1 DEF AppliedInv, LeftToHuman, Past, AppliedTo, NothingLeft
<1>10. CASE /\ UNCHANGED <<ckpt, mem, appealId>>
            /\ \E pc \in {"queued", "resume", "done"} : apc' = [apc EXCEPT ![a] = pc]
            /\ status'[a] = "resolved" => status[a] = "resolved"
            /\ apc[a] # "none"
  <2>1. apc'[a] \in {"queued", "resume", "done"}
    BY <1>10 DEF TypeInv, TypeOK
  <2> QED BY <1>1, <1>2, <1>10, <2>1 DEF AppliedInv, LeftToHuman, Past, AppliedTo, NothingLeft
<1> QED
  BY <1>5, <1>6, <1>7, <1>8, <1>9, <1>10
     DEF AppealRun, FailNoPendingState, FailFindingNotPending, PassPendingCheck, ResumeRaises,
         Crash, InFlight, MarkStatus, Goto, TypeInv, TypeOK, AppealUnchanged

\* With one delivery of the security chain and all appeals of the task naming one finding id, a
\* resolved appeal was applied: whatever raises or crashes, its findings are waived in the thread.
\* (Appeals of two ids may replace each other's human_input.)
THEOREM ResolvedIsAppliedHolds ==
  ASSUME SingleDelivery
  PROVE  Spec /\ []OneIdAppealed => []ResolvedIsApplied
<1>1. Init => AppliedInv
  BY DEF Init, AppliedInv, LeftToHuman, Past, NoCheckpoint
<1>2. TypeInv /\ TypeInv' /\ ReviewInv /\ AppliedInv /\ OneIdAppealed' /\ [Next]_vars => AppliedInv'
  <2> SUFFICES ASSUME TypeInv, ReviewInv, AppliedInv, OneIdAppealed', [Next]_vars
               PROVE  AppliedInv'
    OBVIOUS
  <2>1. CASE Next
    BY <2>1, AppliedScan, AppliedAppeal DEF Next
  <2>2. CASE UNCHANGED vars
    BY <2>2 DEF vars, AppliedInv, LeftToHuman, Past, AppliedTo, NothingLeft
  <2> QED BY <2>1, <2>2
<1>3. TypeInv /\ AppliedInv => ResolvedIsApplied
  BY DEF TypeInv, Submitted, AppliedInv, AppliedTo, ResolvedIsApplied
<1>4. Spec => []ReviewInv
  <2>1. TypeInv /\ TypeInv' /\ ReviewInv /\ [Next]_vars => ReviewInv'
    BY ReviewNext
  <2> QED BY <2>1, ReviewInit, TypeCorrect, PTL DEF Spec
<1> QED BY <1>1, <1>2, <1>3, <1>4, TypeCorrect, PTL DEF Spec
============================================================================
