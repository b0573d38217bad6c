------------------------ MODULE IngressCallbackProofs ------------------------
(* Theorems about the two edges of the service towards other systems:       *)
(* Ingress, what comes in and what clients are told, and Callback, what is  *)
(* sent out.  The two share nothing but this module.                        *)
EXTENDS Ingress, Callback, FiniteSetTheorems, TLAPS

-----------------------------------------------------------------------------
(* Ingress: deduplication, and what clients are told.                       *)

\* A status that is there has a value.
StatusNamed == \A t \in Tasks : status[t].left > 0 => status[t].value # "none"

IngressTypes == IngressTypeOK /\ StatusNamed

Started == {"running", "published", "completed", "failed"}

Dispatched(t) == work[t] \in {"queued"} \union Started

\* The lifetimes are positive, and the sets disjoint.
LEMMA Lifetimes ==
  /\ DedupTtl \in Nat \ {0} /\ ResultTtl \in Nat \ {0} /\ StatusTtl \in Nat \ {0}
  /\ NoCommit \notin Commits /\ NoTask \notin Tasks /\ Handlers \intersect Requests = {}
  /\ Handlers \subseteq Tasks /\ Requests \subseteq Tasks
BY IngressConstants DEF Tasks

LEMMA IngressTypesStart == IngressInit => IngressTypes
<1> SUFFICES ASSUME IngressInit PROVE IngressTypes
  OBVIOUS
<1> USE Lifetimes DEF IngressInit
<1>1. at \in [Handlers -> HandlerStep] /\ work \in [Tasks -> Work]
  BY DEF HandlerStep, Work
<1>2. dedup \in [Commits -> [task : Handlers \union {NoTask}, left : 0 .. DedupTtl]]
  BY DEF NoDedup
<1>3. status \in [Tasks -> [value : StatusValue, left : 0 .. StatusTtl]] /\ StatusNamed
  BY DEF NoStatus, StatusValue, StatusNamed
<1>4. answer \in [task : Tasks \union {NoTask}, says : Answer]
  BY DEF NoAnswer, Answer
<1>5. /\ commit \in [Handlers -> Commits \union {NoCommit}]
      /\ result \in [Tasks -> 0 .. ResultTtl] /\ claim \in [Handlers -> 0 .. DedupTtl]
      /\ asked \in Tasks \union {NoTask}
  OBVIOUS
<1>6. unread \in BOOLEAN
  OBVIOUS
<1> QED BY <1>1, <1>2, <1>3, <1>4, <1>5, <1>6 DEF IngressTypes, IngressTypeOK

StatusType == status \in [Tasks -> [value : StatusValue, left : 0 .. StatusTtl]] /\ StatusNamed

\* A status that is written has a value and a lifetime.
LEMMA StatusWritten ==
  ASSUME IngressTypes, NEW t \in Tasks, NEW s \in StatusValue \ {"none"},
         SetStatus(t, s) \/ UNCHANGED status
  PROVE  StatusType'
<1>1. DEFINE new == [value |-> s, left |-> StatusTtl]
<1>2. new \in [value : StatusValue, left : 0 .. StatusTtl] /\ new.value # "none"
  BY Lifetimes DEF StatusValue
<1>3. CASE UNCHANGED status
  BY <1>3 DEF IngressTypes, IngressTypeOK, StatusType, StatusNamed
<1>4. CASE status' = [status EXCEPT ![t] = new]
  <2> HIDE DEF new
  <2> QED BY <1>2, <1>4 DEF IngressTypes, IngressTypeOK, StatusType, StatusNamed
<1> QED BY <1>3, <1>4 DEF SetStatus

\* A handler keeps the types.
LEMMA TypeHandler ==
  ASSUME IngressTypes, NEW h \in Handlers, HandlerNext(h)
  PROVE  IngressTypes'
<1> USE Lifetimes DEF IngressTypes, StatusNamed, IngressTypeOK, HandlerStep, Work, StatusValue, Answer,
        taskKeys, poll, Goto, SetStatus
<1>1. ASSUME NEW k \in Commits, Deliver(h, k) PROVE IngressTypes'
  BY <1>1 DEF Deliver
<1>2. ASSUME FindDuplicate(h) PROVE IngressTypes'
  BY <1>2 DEF FindDuplicate
<1>3. ASSUME FindNothing(h) PROVE IngressTypes'
  BY <1>3 DEF FindNothing
<1>4. ASSUME Dispatch(h) PROVE IngressTypes'
  <2>1. /\ \E w \in {"queued", "refused"} : work' = [work EXCEPT ![h] = w]
        /\ \E s \in {"dedup", "done"} : at' = [at EXCEPT ![h] = s]
        /\ UNCHANGED <<commit, dedup, status, result, poll, claim>>
    BY <1>4 DEF Dispatch
  <2>2. work' \in [Tasks -> Work] /\ at' \in [Handlers -> HandlerStep]
    BY <2>1
  <2> QED BY <2>1, <2>2
<1>5. ASSUME WriteDedup(h) PROVE IngressTypes'
  <2>1. [task |-> h, left |-> DedupTtl] \in [task : Handlers \union {NoTask}, left : 0 .. DedupTtl]
    OBVIOUS
  <2>2. dedup' \in [Commits -> [task : Handlers \union {NoTask}, left : 0 .. DedupTtl]]
    BY <1>5, <2>1 DEF WriteDedup
  <2> QED BY <1>5, <2>2 DEF WriteDedup
<1>6. ASSUME WritePending(h) PROVE IngressTypes'
  <2>1. StatusType'
    BY <1>6, StatusWritten DEF WritePending, StatusValue
  <2> QED BY <1>6, <2>1 DEF WritePending, StatusType
<1>7. ASSUME HandlerDies(h) PROVE IngressTypes'
  BY <1>7 DEF HandlerDies
<1> QED BY <1>1, <1>2, <1>3, <1>4, <1>5, <1>6, <1>7 DEF HandlerNext

\* So do the REST API and the workers.
LEMMA TypeTask ==
  ASSUME IngressTypes, NEW t \in Tasks, SubmitAnalysis(t) \/ WorkerNext(t)
  PROVE  IngressTypes'
<1> USE Lifetimes DEF IngressTypes, StatusNamed, IngressTypeOK, Work, StatusValue, Answer,
        taskKeys, poll
<1>1. ASSUME SubmitAnalysis(t) PROVE IngressTypes'
  <2>1. /\ \E w \in {"queued", "refused"} : work' = [work EXCEPT ![t] = w]
        /\ SetStatus(t, "pending") \/ UNCHANGED status
        /\ UNCHANGED <<at, commit, dedup, result, poll, claim>>
    BY <1>1 DEF SubmitAnalysis
  <2>2. StatusType'
    BY <2>1, StatusWritten
  <2>3. work' \in [Tasks -> Work]
    BY <2>1
  <2> QED BY <2>1, <2>2, <2>3 DEF StatusType
<1>2. ASSUME WorkerStarts(t) PROVE IngressTypes'
  <2>1. StatusType'
    BY <1>2, StatusWritten DEF WorkerStarts, TrySetStatus
  <2>2. /\ work' = [work EXCEPT ![t] = "running"]
        /\ UNCHANGED <<at, commit, dedup, result, poll, claim>>
    BY <1>2 DEF WorkerStarts
  <2> QED BY <2>1, <2>2 DEF StatusType
<1>3. ASSUME WorkerGoesOn(t) PROVE IngressTypes'
  <2>1. StatusType'
    BY <1>3, StatusWritten DEF WorkerGoesOn
  <2> QED BY <1>3, <2>1 DEF WorkerGoesOn, StatusType
<1>4. ASSUME WorkerPublishes(t) PROVE IngressTypes'
  BY <1>4 DEF WorkerPublishes
<1>5. ASSUME WorkerCompletes(t) PROVE IngressTypes'
  <2>1. StatusType'
    BY <1>5, StatusWritten DEF WorkerCompletes, TrySetStatus
  <2>2. /\ work' = [work EXCEPT ![t] = "completed"]
        /\ UNCHANGED <<at, commit, dedup, result, poll, claim>>
    BY <1>5 DEF WorkerCompletes
  <2> QED BY <2>1, <2>2 DEF StatusType
<1>6. ASSUME WorkerFails(t) PROVE IngressTypes'
  BY <1>6 DEF WorkerFails
<1> QED BY <1>1, <1>2, <1>3, <1>4, <1>5, <1>6 DEF WorkerNext

\* And polling and the passing of an hour.
LEMMA TypePoll ==
  ASSUME IngressTypes, (\E t \in Tasks : PollResult(t) \/ PollResultFails(t)) \/ PollStatus
         \/ PollStatusFails \/ Hour
  PROVE  IngressTypes'
<1> USE Lifetimes DEF IngressTypes, StatusNamed, IngressTypeOK, StatusValue, Answer, taskKeys
<1>1. ASSUME NEW t \in Tasks, PollResult(t) PROVE IngressTypes'
  <2>1. [task |-> t, says |-> "error"] \in [task : Tasks \union {NoTask}, says : Answer]
    OBVIOUS
  <2>2. /\ answer' \in [task : Tasks \union {NoTask}, says : Answer]
        /\ asked' \in Tasks \union {NoTask} /\ unread' \in BOOLEAN
        /\ UNCHANGED <<at, commit, dedup, work, status, result, claim>>
    BY <1>1, <2>1 DEF PollResult
  <2> QED BY <2>2
<1>2. ASSUME PollStatus PROVE IngressTypes'
  <2>1. asked \in Tasks
    BY <1>2 DEF PollStatus
  <2> QED BY <1>2, <2>1 DEF PollStatus
<1>3. ASSUME Hour PROVE IngressTypes'
  <2>1. result' \in [Tasks -> 0 .. ResultTtl] /\ claim' \in [Handlers -> 0 .. DedupTtl]
    <3>1. \A bound \in Nat : \A left \in 0 .. bound : OneLess(left) \in 0 .. bound
      BY DEF OneLess
    <3>2. /\ result' = [t \in Tasks |-> OneLess(result[t])]
          /\ claim' = [h \in Handlers |-> OneLess(claim[h])]
      BY <1>3 DEF Hour
    <3>3. \A t \in Tasks : OneLess(result[t]) \in 0 .. ResultTtl
      BY <3>1
    <3>4. \A h \in Handlers : OneLess(claim[h]) \in 0 .. DedupTtl
      BY <3>1
    <3> QED BY <3>2, <3>3, <3>4
  <2>2. dedup' \in [Commits -> [task : Handlers \union {NoTask}, left : 0 .. DedupTtl]]
    <3>1. NoDedup \in [task : Handlers \union {NoTask}, left : 0 .. DedupTtl]
      BY DEF NoDedup
    <3>2. \A k \in Commits : dedup[k].left > 1 =>
             [dedup[k] EXCEPT !.left = @ - 1]
                \in [task : Handlers \union {NoTask}, left : 0 .. DedupTtl]
      OBVIOUS
    <3> QED BY <1>3, <3>1, <3>2 DEF Hour
  <2>3. status' \in [Tasks -> [value : StatusValue, left : 0 .. StatusTtl]]
    <3>1. NoStatus \in [value : StatusValue, left : 0 .. StatusTtl]
      BY DEF NoStatus
    <3>2. \A t \in Tasks : status[t].left > 1 =>
             [status[t] EXCEPT !.left = @ - 1] \in [value : StatusValue, left : 0 .. StatusTtl]
      OBVIOUS
    <3> QED BY <1>3, <3>1, <3>2 DEF Hour
  <2>4. StatusNamed'
    BY <1>3 DEF Hour, NoStatus
  <2>5. NoAnswer \in [task : Tasks \union {NoTask}, says : Answer]
    BY DEF NoAnswer
  <2> QED BY <1>3, <2>1, <2>2, <2>3, <2>4, <2>5 DEF Hour
<1>4. ASSUME NEW t \in Tasks, PollResultFails(t) PROVE IngressTypes'
  BY <1>4 DEF PollResultFails
<1>5. ASSUME PollStatusFails PROVE IngressTypes'
  BY <1>5 DEF PollStatusFails
<1> QED BY <1>1, <1>2, <1>3, <1>4, <1>5

LEMMA IngressTypesStep ==
  ASSUME IngressTypes, [IngressNext]_ingressVars
  PROVE  IngressTypes'
<1>1. CASE UNCHANGED ingressVars
  BY <1>1 DEF ingressVars, taskKeys, poll, IngressTypes, StatusNamed, IngressTypeOK
<1>2. CASE IngressNext
  BY <1>2, Lifetimes, TypeHandler, TypeTask, TypePoll DEF IngressNext
<1> QED BY <1>1, <1>2

THEOREM IngressTypesCorrect == IngressSpec => []IngressTypes
<1>1. IngressTypes /\ [IngressNext]_ingressVars => IngressTypes'
  BY IngressTypesStep
<1> QED BY <1>1, IngressTypesStart, PTL DEF IngressSpec

\* Whatever handlers, workers and clients do, and whichever commands fail, the keys keep their form.
THEOREM IngressTypeOKHolds == IngressSpec => []IngressTypeOK
<1>1. IngressTypes => IngressTypeOK
  BY DEF IngressTypes
<1> QED BY <1>1, IngressTypesCorrect, PTL

-----------------------------------------------------------------------------
(* Deduplication.                                                           *)

\* Past the dispatch a handler's analysis is dispatched; a key names a handler that is past it, and
\* outlives what the history holds of it.
DedupInv ==
    /\ \A h \in Handlers : at[h] \in {"dedup", "pending"} => Dispatched(h)
    /\ \A h \in Handlers : at[h] = "idle" => claim[h] = 0
    /\ \A h \in Handlers : at[h] # "idle" => commit[h] \in Commits
    /\ \A k \in Commits : dedup[k].left > 0 =>
          /\ dedup[k].task \in Handlers
          /\ at[dedup[k].task] \in {"pending", "done", "dead"}
          /\ commit[dedup[k].task] = k
          /\ Dispatched(dedup[k].task)
    /\ \A h \in Handlers : claim[h] > 0 =>
          commit[h] \in Commits /\ claim[h] <= dedup[commit[h]].left

LEMMA DedupStarts == IngressInit => DedupInv
BY Lifetimes DEF IngressInit, DedupInv, NoDedup

LEMMA DedupHandler ==
  ASSUME IngressTypes, DedupInv, NEW h \in Handlers, HandlerNext(h)
  PROVE  DedupInv'
<1> USE Lifetimes DEF IngressTypes, IngressTypeOK, DedupInv, Dispatched, Started, HandlerStep, Work,
        taskKeys, poll, Goto
<1>1. ASSUME NEW k \in Commits, Deliver(h, k) PROVE DedupInv'
  BY <1>1 DEF Deliver
<1>2. ASSUME FindDuplicate(h) PROVE DedupInv'
  BY <1>2 DEF FindDuplicate
<1>3. ASSUME FindNothing(h) PROVE DedupInv'
  BY <1>3 DEF FindNothing
<1>4. ASSUME Dispatch(h) PROVE DedupInv'
  <2>1. at[h] = "dispatch" /\ UNCHANGED <<commit, dedup, claim>>
    BY <1>4 DEF Dispatch
  <2>2. \A g \in Handlers : g # h => work'[g] = work[g] /\ at'[g] = at[g]
    BY <1>4 DEF Dispatch
  <2>3. at'[h] # "idle" /\ (at'[h] \in {"dedup", "pending"} => work'[h] = "queued")
    BY <1>4 DEF Dispatch
  <2>4. \A g \in Handlers : at'[g] \in {"dedup", "pending"} =>
           work'[g] \in {"queued"} \union Started
    BY <2>2, <2>3
  <2>5. \A g \in Handlers : at[g] = "idle" <=> at'[g] = "idle"
    BY <2>1, <2>2, <2>3
  <2>6. \A k \in Commits : dedup[k].left > 0 => dedup[k].task # h
    BY <2>1
  <2> QED BY <2>1, <2>2, <2>4, <2>5, <2>6
<1>5. ASSUME WriteDedup(h) PROVE DedupInv'
  <2>1. /\ at[h] = "dedup" /\ at' = [at EXCEPT ![h] = "pending"] /\ Dispatched(h)
        /\ claim' = [claim EXCEPT ![h] = DedupTtl]
        /\ UNCHANGED <<commit, work>>
    BY <1>5 DEF WriteDedup
  <2>2. commit[h] \in Commits
    BY <2>1
  <2>3. /\ dedup'[commit[h]] = [task |-> h, left |-> DedupTtl]
        /\ \A k \in Commits : k # commit[h] => dedup'[k] = dedup[k]
    BY <1>5, <2>2 DEF WriteDedup
  <2>4. \A g \in Handlers : g # h => at'[g] = at[g] /\ claim'[g] = claim[g]
    BY <2>1
  <2>5. at'[h] = "pending" /\ claim'[h] = DedupTtl
    BY <2>1
  <2>6. \A g \in Handlers : claim'[g] > 0 =>
           commit'[g] \in Commits /\ claim'[g] <= dedup'[commit'[g]].left
    BY <2>1, <2>2, <2>3, <2>4, <2>5
  <2>7. \A k \in Commits : dedup'[k].left > 0 =>
          /\ dedup'[k].task \in Handlers
          /\ at'[dedup'[k].task] \in {"pending", "done", "dead"}
          /\ commit'[dedup'[k].task] = k
          /\ work'[dedup'[k].task] \in {"queued"} \union Started
    BY <2>1, <2>2, <2>3, <2>4, <2>5
  <2> QED BY <2>1, <2>2, <2>4, <2>5, <2>6, <2>7
<1>6. ASSUME WritePending(h) PROVE DedupInv'
  BY <1>6 DEF WritePending
<1>7. ASSUME HandlerDies(h) PROVE DedupInv'
  BY <1>7 DEF HandlerDies
<1> QED BY <1>1, <1>2, <1>3, <1>4, <1>5, <1>6, <1>7 DEF HandlerNext

\* The REST API and the workers neither touch the keys of deduplication nor take a dispatch back.
LEMMA DedupTask ==
  ASSUME IngressTypes, DedupInv, NEW t \in Tasks,
         (t \in Requests /\ SubmitAnalysis(t)) \/ WorkerNext(t)
  PROVE  DedupInv'
<1>1. UNCHANGED <<at, commit, dedup, claim>>
  BY DEF SubmitAnalysis, WorkerNext, WorkerStarts, WorkerGoesOn, WorkerPublishes, WorkerCompletes,
         WorkerFails
<1>2. \A h \in Handlers : Dispatched(h) => work'[h] \in {"queued"} \union Started
  <2>1. CASE t \in Requests /\ SubmitAnalysis(t)
    BY <2>1, Lifetimes DEF IngressTypes, IngressTypeOK, SubmitAnalysis, Dispatched
  <2>2. CASE WorkerNext(t)
    BY <2>2, Lifetimes DEF IngressTypes, IngressTypeOK, Dispatched, Started, WorkerNext, WorkerStarts,
       WorkerGoesOn, WorkerPublishes, WorkerCompletes, WorkerFails
  <2> QED BY <2>1, <2>2
<1> QED BY <1>1, <1>2 DEF DedupInv, Dispatched

\* An hour passes for a key and for the history alike.
LEMMA DedupHour ==
  ASSUME IngressTypes, DedupInv, Hour
  PROVE  DedupInv'
<1>1. /\ dedup' = [k \in Commits |-> IF dedup[k].left > 1
                                    THEN [dedup[k] EXCEPT !.left = @ - 1] ELSE NoDedup]
      /\ claim' = [h \in Handlers |-> OneLess(claim[h])]
      /\ UNCHANGED <<at, commit, work>>
  BY DEF Hour
<1>2. \A k \in Commits : /\ dedup[k].left \in Nat
                         /\ dedup'[k].left = OneLess(dedup[k].left)
                         /\ dedup'[k].left > 0 => dedup'[k].task = dedup[k].task
                                                  /\ dedup[k].left > 0
  BY <1>1 DEF IngressTypes, IngressTypeOK, NoDedup, OneLess
<1>3. \A h \in Handlers : claim[h] \in Nat /\ claim'[h] = OneLess(claim[h])
  BY <1>1 DEF IngressTypes, IngressTypeOK
<1>4. \A a, b \in Nat : a <= b => OneLess(a) <= OneLess(b)
  BY DEF OneLess
<1>5. \A a \in Nat : OneLess(a) > 0 => a > 0
  BY DEF OneLess
<1>6. OneLess(0) = 0
  BY DEF OneLess
<1>7. \A k \in Commits : dedup'[k].left > 0 =>
        /\ dedup'[k].task \in Handlers
        /\ at'[dedup'[k].task] \in {"pending", "done", "dead"}
        /\ commit'[dedup'[k].task] = k
        /\ work'[dedup'[k].task] \in {"queued"} \union Started
  BY <1>1, <1>2 DEF DedupInv, Dispatched
<1>8. \A h \in Handlers : claim'[h] > 0 =>
        commit'[h] \in Commits /\ claim'[h] <= dedup'[commit'[h]].left
  BY <1>1, <1>2, <1>3, <1>4, <1>5 DEF DedupInv
<1> QED BY <1>1, <1>3, <1>6, <1>7, <1>8 DEF DedupInv, Dispatched

LEMMA DedupStep ==
  ASSUME IngressTypes, DedupInv, [IngressNext]_ingressVars
  PROVE  DedupInv'
<1>1. CASE UNCHANGED <<at, commit, dedup, work, claim>>
  BY <1>1 DEF DedupInv, Dispatched
<1>2. CASE \E h \in Handlers : HandlerNext(h)
  BY <1>2, DedupHandler
<1>3. CASE \E t \in Tasks : (t \in Requests /\ SubmitAnalysis(t)) \/ WorkerNext(t)
  BY <1>3, DedupTask
<1>4. CASE (\E q \in Requests : PollResult(q) \/ PollResultFails(q)) \/ PollStatus \/ PollStatusFails
  BY <1>1, <1>4 DEF PollResult, PollResultFails, PollStatus, PollStatusFails
<1>5. CASE Hour
  BY <1>5, DedupHour
<1>6. CASE UNCHANGED ingressVars
  BY <1>1, <1>6 DEF ingressVars
<1> QED BY <1>2, <1>3, <1>4, <1>5, <1>6, Lifetimes DEF IngressNext

THEOREM DedupCorrect == IngressSpec => [](IngressTypes /\ DedupInv)
<1>1. IngressTypes /\ DedupInv /\ [IngressNext]_ingressVars => IngressTypes' /\ DedupInv'
  BY IngressTypesStep, DedupStep
<1>2. IngressInit => IngressTypes /\ DedupInv
  BY IngressTypesStart, DedupStarts
<1> QED BY <1>1, <1>2, PTL DEF IngressSpec

\* A dedup key names an analysis of its own commit that was dispatched, for any number of handlers,
\* whatever fails.
THEOREM DedupNamesDispatchedHolds == IngressSpec => []DedupNamesDispatched
<1>1. IngressTypes /\ DedupInv => DedupNamesDispatched
  BY DEF DedupInv, DedupNamesDispatched, Dispatched, Started
<1> QED BY <1>1, DedupCorrect, PTL

\* No handler gets past the check while some handler's key has time to live.
LEMMA CheckIsFresh ==
  ASSUME IngressTypes, DedupInv, [IngressNext]_ingressVars, NEW g \in Handlers, NEW h \in Handlers,
         at[h] = "get", at'[h] = "dispatch", commit[g] = commit[h]
  PROVE  claim[g] = 0
<1>1. FindNothing(h)
  <2>1. PICK f \in Handlers : HandlerNext(f)
    BY Lifetimes DEF IngressNext, ingressVars, SubmitAnalysis, WorkerNext, WorkerStarts,
       WorkerGoesOn, WorkerPublishes, WorkerCompletes, WorkerFails, PollResult, PollResultFails,
       PollStatus, PollStatusFails, Hour
  <2>2. f = h
    BY <2>1 DEF IngressTypes, IngressTypeOK, HandlerNext, Deliver, FindDuplicate, FindNothing, Dispatch,
       WriteDedup, WritePending, HandlerDies, Goto
  <2> QED BY <2>1, <2>2 DEF IngressTypes, IngressTypeOK, HandlerNext, Deliver, FindDuplicate, Dispatch,
             WriteDedup, WritePending, HandlerDies, Goto
<1>2. dedup[commit[h]].left <= 0
  <2>1. commit[h] \in Commits
    BY DEF DedupInv
  <2> QED BY <1>1, <2>1 DEF FindNothing, Named, IngressTypes, IngressTypeOK
<1> QED BY <1>2 DEF DedupInv, IngressTypes, IngressTypeOK

\* Within the lifetime of the key a commit is not analysed again once its handler has left it.
THEOREM OneAnalysisPerCommitHolds == IngressSpec => OneAnalysisPerCommit
<1>1. IngressTypes /\ DedupInv /\ [IngressNext]_ingressVars =>
        [\A g, h \in Handlers :
           at[h] = "get" /\ at'[h] = "dispatch" /\ commit[g] = commit[h] => claim[g] = 0]_ingressVars
  BY CheckIsFresh
<1> QED BY <1>1, DedupCorrect, PTL DEF IngressSpec, OneAnalysisPerCommit

-----------------------------------------------------------------------------
(* What clients are told.                                                   *)

\* The status of a submitted analysis is no further than its work; what a client was told this hour
\* is still what the keys say, or they say more.
AnswerInv ==
    /\ asked \in Requests \union {NoTask}
    /\ answer.task \in Requests \union {NoTask}
    /\ \A q \in Requests : status[q].left > 0 =>
          /\ status[q].value = "completed" => work[q] = "completed"
          /\ status[q].value = "running" => work[q] \in Started
    /\ answer.task # NoTask =>
          /\ answer.says = "error" => result[answer.task] > 0 /\ (asked # answer.task \/ unread)
          /\ answer.says \in {"running", "completed"} => status[answer.task].left > 0
          /\ answer.says = "completed" => status[answer.task].value = "completed"
          /\ answer.says = "running" => status[answer.task].value \in {"running", "completed"}

LEMMA AnswerStarts == IngressInit => AnswerInv
BY Lifetimes DEF IngressInit, AnswerInv, NoAnswer, NoStatus

\* Handlers write to the status of their own tasks.
LEMMA AnswerHandler ==
  ASSUME IngressTypes, AnswerInv, NEW h \in Handlers, HandlerNext(h)
  PROVE  AnswerInv'
<1>1. /\ UNCHANGED <<result, asked, unread, answer>>
      /\ \A q \in Requests : status'[q] = status[q] /\ work'[q] = work[q]
  BY Lifetimes DEF IngressTypes, IngressTypeOK, HandlerNext, Deliver, FindDuplicate, FindNothing,
     Dispatch, WriteDedup, WritePending, HandlerDies, SetStatus, taskKeys, poll
<1> QED BY <1>1, Lifetimes DEF AnswerInv

\* A submission and each step of a worker, by what they do to the keys of their task.
LEMMA AnswerTask ==
  ASSUME IngressTypes, AnswerInv, NEW t \in Tasks,
         (t \in Requests /\ SubmitAnalysis(t)) \/ WorkerNext(t)
  PROVE  AnswerInv'
<1> USE Lifetimes DEF IngressTypes, IngressTypeOK, AnswerInv, Started
<1>1. UNCHANGED <<asked, unread, answer>>
  BY DEF SubmitAnalysis, WorkerNext, WorkerStarts, WorkerGoesOn, WorkerPublishes, WorkerCompletes,
         WorkerFails, poll
<1>2. \A u \in Tasks : u # t => /\ status'[u] = status[u] /\ work'[u] = work[u]
                                /\ result'[u] = result[u]
  BY DEF SubmitAnalysis, WorkerNext, WorkerStarts, WorkerGoesOn, WorkerPublishes, WorkerCompletes,
         WorkerFails, taskKeys, TrySetStatus, SetStatus
<1>3. result[t] > 0 => result'[t] > 0
  BY DEF SubmitAnalysis, WorkerNext, WorkerStarts, WorkerGoesOn, WorkerPublishes, WorkerCompletes,
         WorkerFails, taskKeys
<1>4. status'[t] = status[t] \/ status'[t].left = StatusTtl
  BY DEF SubmitAnalysis, WorkerNext, WorkerStarts, WorkerGoesOn, WorkerPublishes, WorkerCompletes,
         WorkerFails, taskKeys, TrySetStatus, SetStatus
<1>5. CASE t \in Requests
  <2>1. /\ status'[t] # status[t] =>
             \/ work[t] \in {"none", "queued"}
             \/ work[t] = "running" /\ status'[t].value = "running"
             \/ work[t] = "published" /\ status'[t].value = "completed"
        /\ status'[t] # status[t] /\ status'[t].value = "running" => work'[t] = "running"
        /\ status'[t] # status[t] /\ status'[t].value = "completed" => work'[t] = "completed"
        /\ work[t] = "completed" => work'[t] = "completed"
        /\ work[t] \in Started => work'[t] \in Started
    BY DEF SubmitAnalysis, WorkerNext, WorkerStarts, WorkerGoesOn, WorkerPublishes,
           WorkerCompletes, WorkerFails, taskKeys, TrySetStatus, SetStatus
  <2>2. \A q \in Requests : status'[q].left > 0 =>
          /\ status'[q].value = "completed" => work'[q] = "completed"
          /\ status'[q].value = "running" => work'[q] \in Started
    BY <1>2, <2>1
  <2>3. status[t].left > 0 =>
          /\ status[t].value \in {"running", "completed"} => status'[t].left > 0
          /\ status[t].value = "completed" => status'[t].value = "completed"
          /\ status[t].value = "running" => status'[t].value \in {"running", "completed"}
    BY <1>4, <1>5, <2>1
  <2> QED BY <1>1, <1>2, <1>3, <1>5, <2>2, <2>3
<1>6. CASE t \notin Requests
  BY <1>1, <1>2, <1>6
<1> QED BY <1>5, <1>6

\* A client reads what is there.
LEMMA AnswerPoll ==
  ASSUME IngressTypes, AnswerInv, (\E q \in Requests : PollResult(q) \/ PollResultFails(q)) \/ PollStatus
         \/ PollStatusFails
  PROVE  AnswerInv'
<1> USE Lifetimes DEF IngressTypes, IngressTypeOK, AnswerInv, taskKeys
<1>1. ASSUME NEW q \in Requests, PollResult(q) PROVE AnswerInv'
  BY <1>1 DEF PollResult
<1>2. ASSUME PollStatus PROVE AnswerInv'
  <2>1. /\ asked \in Requests /\ asked' = NoTask /\ asked \in Tasks
        /\ UNCHANGED <<work, status, result>>
    BY <1>2 DEF PollStatus
  <2>2. answer' = [task |-> asked, says |-> IF status[asked].left > 0
                                            THEN status[asked].value ELSE "pending"]
    BY <1>2 DEF PollStatus
  <2>3. answer'.task = asked
        /\ answer'.says = IF status[asked].left > 0 THEN status[asked].value ELSE "pending"
    BY <2>2
  <2>4. status[asked].value \in StatusValue
    BY <2>1
  <2>5. CASE status[asked].left > 0
    BY <2>1, <2>3, <2>4, <2>5 DEF StatusValue
  <2>6. CASE ~(status[asked].left > 0)
    BY <2>1, <2>3, <2>6
  <2> QED BY <2>5, <2>6
<1>3. ASSUME NEW q \in Requests, PollResultFails(q) PROVE AnswerInv'
  BY <1>3 DEF PollResultFails
<1>4. ASSUME PollStatusFails PROVE AnswerInv'
  BY <1>4 DEF PollStatusFails
<1> QED BY <1>1, <1>2, <1>3, <1>4

\* What is left after an hour was there before, and nobody remembers an answer.
LEMMA AnswerHour ==
  ASSUME IngressTypes, AnswerInv, Hour
  PROVE  AnswerInv'
<1>1. answer' = NoAnswer /\ UNCHANGED <<asked, unread, work>>
  BY DEF Hour
<1>2. \A q \in Requests : status'[q].left > 0 =>
         status[q].left > 0 /\ status'[q].value = status[q].value
  BY Lifetimes DEF Hour, NoStatus, IngressTypes, IngressTypeOK
<1> QED BY <1>1, <1>2 DEF AnswerInv, NoAnswer, Started

LEMMA AnswerStep ==
  ASSUME IngressTypes, AnswerInv, [IngressNext]_ingressVars
  PROVE  AnswerInv'
<1>1. CASE UNCHANGED ingressVars
  BY <1>1 DEF ingressVars, taskKeys, poll, AnswerInv
<1>2. CASE IngressNext
  BY <1>2, Lifetimes, AnswerHandler, AnswerTask, AnswerPoll, AnswerHour DEF IngressNext
<1> QED BY <1>1, <1>2

\* An answer about the task of the last one ranks no lower.
LEMMA ForwardStep ==
  ASSUME IngressTypes, AnswerInv, [IngressNext]_ingressVars, answer.task # NoTask,
         answer'.task = answer.task, ~unread'
  PROVE  Rank(answer.says) <= Rank(answer'.says)
<1> USE DEF Rank, IngressTypes, IngressTypeOK, Answer
<1>1. CASE answer' = answer
  BY <1>1
<1>2. CASE answer' # answer
  <2>1. CASE \E q \in Requests : PollResult(q) \/ PollResultFails(q)
    BY <1>2, <2>1 DEF PollResult, PollResultFails
  <2>2. CASE PollStatus
    <3>1. asked = answer.task /\ ~unread /\ answer'.says = IF status[asked].left > 0
                                                THEN status[asked].value ELSE "pending"
      BY <2>2 DEF PollStatus
    <3> QED BY <3>1 DEF AnswerInv
  <2>3. ~Hour
    BY DEF Hour, NoAnswer
  <2> QED BY <1>2, <2>1, <2>2, <2>3 DEF IngressNext, HandlerNext, Deliver, FindDuplicate,
        FindNothing, Dispatch, WriteDedup, WritePending, HandlerDies, SubmitAnalysis, WorkerNext,
        WorkerStarts, WorkerGoesOn, WorkerPublishes, WorkerCompletes, WorkerFails, PollStatusFails,
        poll, ingressVars
<1> QED BY <1>1, <1>2

\* However the two reads of GET /tasks/{id} fall between the writes of the workers, and whichever of
\* them are lost, what a client is told moves forward within the lifetime of the keys, as long as the
\* result can be read.
THEOREM AnswersForwardHolds == IngressSpec => AnswersForward
<1>1. AnswerInv /\ IngressTypes /\ [IngressNext]_ingressVars => AnswerInv'
  BY AnswerStep
<1>2. IngressTypes /\ AnswerInv /\ [IngressNext]_ingressVars =>
        [answer.task # NoTask /\ answer'.task = answer.task /\ ~unread'
           => Rank(answer.says) <= Rank(answer'.says)]_ingressVars
  BY ForwardStep
<1> QED BY <1>1, <1>2, AnswerStarts, IngressTypesCorrect, PTL DEF IngressSpec, AnswersForward
-----------------------------------------------------------------------------
(* Callback: a callback is not given up before its retries are used up, the *)
(* last attempt of an execution comes too late, the executions are bounded. *)

LEMMA LevelsAre == MaxRetries \in Nat /\ Levels = 0 .. MaxRetries /\ 0 \in Levels
BY CallbackConstants DEF Levels

\* Before a POST there is an attempt left, and a sleep is one that the backoff table has.
AttemptLeft ==
    \A c \in Calls : /\ run[c].doing = "send" => run[c].attempt < Attempts
                     /\ run[c].doing = "sleep" => run[c].attempt \in 1 .. Attempts - 1

CallbackTypes == CallbackTypeOK /\ AttemptLeft

\* How the record of an execution looks when there is none, and at its start.
LEMMA NoRunIsRun ==
  /\ NoRun \in Run /\ NoRun.doing = "nothing"
  /\ \A n \in Levels : /\ FirstAttempt(n) \in Run /\ FirstAttempt(n).doing = "send"
                        /\ FirstAttempt(n).attempt = 0 /\ FirstAttempt(n).level = n
<1>1. 0 \in 0 .. Attempts /\ 0 \in Levels /\ 0 \in Nat
  BY LevelsAre, CallbackConstants
<1> QED BY <1>1 DEF NoRun, FirstAttempt, Run

LEMMA CallbackTypesStart == CallbackInit => CallbackTypes
<1> SUFFICES ASSUME CallbackInit PROVE CallbackTypes
  OBVIOUS
<1>1. messages \in [Calls -> [Levels -> Nat]] /\ runs \in [Calls -> Nat]
  BY DEF CallbackInit
<1>2. \A c \in Calls : run[c] = NoRun
  BY DEF CallbackInit
<1>3. run \in [Calls -> Run] /\ AttemptLeft
  BY <1>2, NoRunIsRun DEF CallbackInit, AttemptLeft
<1> QED BY <1>1, <1>3 DEF CallbackInit, CallbackTypes, CallbackTypeOK

\* Time passes in naturals.
LEMMA LaterIsRun ==
  ASSUME CallbackTypeOK, NEW c \in Calls, NEW s \in Nat
  PROVE  /\ Later(c, s) \in Run
         /\ Later(c, s).attempt = run[c].attempt
         /\ Later(c, s).level = run[c].level
<1> DEFINE e == IF run[c].limited THEN run[c].elapsed ELSE run[c].elapsed + s
           l == run[c].limited \/ Strikes(c, s)
<1>1. run[c] \in Run
  BY DEF CallbackTypeOK
<1>2. e \in Nat
  BY <1>1 DEF Run
<1>3. l \in BOOLEAN
  BY Zenon
<1>4. Later(c, s) = [run[c] EXCEPT !.elapsed = e, !.limited = l]
  BY DEF Later
<1> HIDE DEF e, l
<1> QED BY <1>1, <1>2, <1>3, <1>4 DEF Run

\* A retry sends messages to the next level.
LEMMA TypeRetry ==
  ASSUME CallbackTypes, NEW c \in Calls, NEW copies \in Nat, Retry(c, copies),
         got' \in [Calls -> BOOLEAN]
  PROVE  CallbackTypes'
<1> USE DEF CallbackTypes, CallbackTypeOK
<1>1. run' \in [Calls -> Run]
  BY NoRunIsRun DEF Retry
<1>2. run[c].level \in Levels
  BY DEF Run
<1>3. messages' \in [Calls -> [Levels -> Nat]]
  <2>1. CASE run[c].level < MaxRetries
    <3>1. run[c].level + 1 \in Levels
      BY <1>2, <2>1, LevelsAre
    <3>2. messages[c][run[c].level + 1] + copies \in Nat
      BY <3>1
    <3> QED BY <2>1, <3>1, <3>2 DEF Retry
  <2>2. CASE ~(run[c].level < MaxRetries)
    BY <2>2 DEF Retry
  <2> QED BY <2>1, <2>2
<1>4. AttemptLeft'
  BY DEF Retry, AttemptLeft, NoRun
<1> QED BY <1>1, <1>3, <1>4 DEF Retry

LEMMA CallbackTypesStep ==
  ASSUME CallbackTypes, [CallbackNext]_callbackVars
  PROVE  CallbackTypes'
<1> USE LevelsAre, NoRunIsRun, CallbackConstants DEF CallbackTypes, CallbackTypeOK
<1>1. ASSUME NEW c \in Calls, Announce(c) PROVE CallbackTypes'
  BY <1>1 DEF Announce, Enqueue, AttemptLeft
<1>2. ASSUME NEW c \in Calls, NEW n \in Levels, TakeAt(c, n) PROVE CallbackTypes'
  <2>1. messages' \in [Calls -> [Levels -> Nat]]
    <3>1. messages[c][n] - 1 \in Nat
      BY <1>2 DEF TakeAt
    <3>2. messages' = [messages EXCEPT ![c][n] = messages[c][n] - 1]
      BY <1>2 DEF TakeAt
    <3> QED BY <3>1, <3>2
  <2>2. run' \in [Calls -> Run]
    BY <1>2 DEF TakeAt
  <2>3. AttemptLeft'
    <3>1. \A d \in Calls : run'[d] = run[d]
             \/ run'[d] = FirstAttempt(n)
      BY <1>2 DEF TakeAt
    <3>2. FirstAttempt(n).doing = "send" /\ FirstAttempt(n).attempt = 0 /\ 0 < Attempts
      OBVIOUS
    <3> QED BY <3>1, <3>2 DEF AttemptLeft
  <2>4. UNCHANGED got /\ runs' \in [Calls -> Nat]
    BY <1>2 DEF TakeAt
  <2> QED BY <1>2, <2>1, <2>2, <2>3, <2>4
<1>3. ASSUME NEW c \in Calls, SendSucceeds(c) PROVE CallbackTypes'
  <2>1. run' \in [Calls -> Run] /\ \A d \in Calls : run'[d] = run[d] \/ run'[d] = NoRun
    BY <1>3 DEF SendSucceeds
  <2>2. got' \in [Calls -> BOOLEAN]
    BY <1>3 DEF SendSucceeds
  <2>3. AttemptLeft'
    BY <2>1 DEF AttemptLeft
  <2> QED BY <1>3, <2>1, <2>2, <2>3 DEF SendSucceeds
<1>4. ASSUME NEW c \in Calls, SendFails(c) PROVE CallbackTypes'
  <2>1. PICK s \in SendSeconds :
          run' = [run EXCEPT ![c] =
                    [Later(c, s) EXCEPT
                       !.attempt = @ + 1,
                       !.doing = IF run[c].attempt + 1 < Attempts THEN "sleep" ELSE "failed"]]
    BY <1>4 DEF SendFails
  <2>2. Later(c, s) \in Run /\ Later(c, s).attempt = run[c].attempt
    BY LaterIsRun
  <2>3. run[c].attempt \in 0 .. Attempts - 1
    <3>1. run[c].doing = "send" /\ run[c].attempt \in 0 .. Attempts
      BY <1>4 DEF SendFails, Run
    <3> QED BY <3>1 DEF AttemptLeft
  <2>4. run'[c] \in Run /\ (run'[c].doing = "sleep" => run'[c].attempt \in 1 .. Attempts - 1)
        /\ run'[c].doing # "send"
    <3> DEFINE a == run[c].attempt + 1
               d == IF a < Attempts THEN "sleep" ELSE "failed"
    <3>1. a \in 1 .. Attempts
      BY <2>3
    <3>2. d \in {"sleep", "failed"} /\ (d = "sleep" => a < Attempts)
      OBVIOUS
    <3>3. PICK later \in Run : later = Later(c, s) /\ later.attempt = run[c].attempt
      BY <2>2
    <3>4. run'[c] = [later EXCEPT !.attempt = a, !.doing = d]
      BY <2>1, <3>3
    <3> HIDE DEF a, d
    <3>5. run'[c] \in Run /\ run'[c].attempt = a /\ run'[c].doing = d
      <4>1. a \in 0 .. Attempts /\ d \in {"nothing", "send", "sleep", "failed"}
        BY <3>1, <3>2
      <4>2. /\ [later EXCEPT !.attempt = a, !.doing = d] \in Run
            /\ [later EXCEPT !.attempt = a, !.doing = d].attempt = a
            /\ [later EXCEPT !.attempt = a, !.doing = d].doing = d
        BY <4>1 DEF Run
      <4> QED BY <3>4, <4>2, Zenon
    <3> QED BY <3>1, <3>2, <3>5
  <2>5. run' \in [Calls -> Run] /\ AttemptLeft'
    BY <2>1, <2>4 DEF AttemptLeft
  <2> QED BY <1>4, <2>5 DEF SendFails, Unanswered
<1>5. ASSUME NEW c \in Calls, Sleep(c) PROVE CallbackTypes'
  <2>1. run[c].attempt \in 1 .. Attempts - 1
    BY <1>5 DEF Sleep, AttemptLeft
  <2>2. /\ Later(c, Backoff[run[c].attempt]) \in Run
        /\ Later(c, Backoff[run[c].attempt]).attempt = run[c].attempt
    BY <2>1, LaterIsRun
  <2>3. run' = [run EXCEPT ![c] = [Later(c, Backoff[run[c].attempt]) EXCEPT !.doing = "send"]]
    BY <1>5 DEF Sleep
  <2>4. run'[c] \in Run /\ run'[c].attempt < Attempts /\ run'[c].doing = "send"
    <3>1. run'[c] = [Later(c, Backoff[run[c].attempt]) EXCEPT !.doing = "send"]
      BY <2>3
    <3>2. PICK later \in Run : /\ later = Later(c, Backoff[run[c].attempt])
                               /\ later.attempt = run[c].attempt
      BY <2>2
    <3>3. run'[c] = [later EXCEPT !.doing = "send"]
      BY <3>1, <3>2
    <3>4. run'[c] \in Run /\ run'[c].attempt = later.attempt /\ run'[c].doing = "send"
      BY <3>3 DEF Run
    <3> QED BY <2>1, <3>2, <3>4
  <2>5. run' \in [Calls -> Run] /\ AttemptLeft'
    BY <2>3, <2>4 DEF AttemptLeft
  <2> QED BY <1>5, <2>5 DEF Sleep
<1>6. ASSUME NEW c \in Calls, LimitInSend(c) \/ LimitInSleep(c) \/ SenderFails(c)
      PROVE  CallbackTypes'
  <2>1. got' \in [Calls -> BOOLEAN]
    BY <1>6 DEF LimitInSend, LimitInSleep, SenderFails, Unanswered
  <2> QED BY <1>6, <2>1, TypeRetry DEF LimitInSend, LimitInSleep, SenderFails
<1>7. CASE UNCHANGED callbackVars
  BY <1>7 DEF callbackVars, AttemptLeft
<1> QED BY <1>1, <1>2, <1>3, <1>4, <1>5, <1>6, <1>7 DEF CallbackNext, Take, RunStep

THEOREM CallbackTypesCorrect == CallbackSpec => []CallbackTypes
<1>1. CallbackTypes /\ [CallbackNext]_callbackVars => CallbackTypes'
  BY CallbackTypesStep
<1> QED BY <1>1, CallbackTypesStart, PTL DEF CallbackSpec

-----------------------------------------------------------------------------
(* Not giving up early.                                                     *)

\* A message is at a level only after that many executions, and the execution it starts is one more.
Earned(c) ==
    /\ \A n \in Levels : messages[c][n] > 0 => runs[c] >= n
    /\ run[c].doing # "nothing" => runs[c] > run[c].level

PursuitInv ==
    \A c \in Calls : Earned(c) /\ (runs[c] > 0 /\ ~got[c] => ~Settled(c) \/ runs[c] > MaxRetries)

\* A retry leads to the next level, or this was the last.
LEMMA PursuitRetry ==
  ASSUME CallbackTypes, PursuitInv, NEW c \in Calls, NEW copies \in Nat \ {0}, run[c].doing # "nothing",
         Retry(c, copies)
  PROVE  Earned(c)' /\ (~Settled(c)' \/ runs'[c] > MaxRetries)
<1> USE LevelsAre DEF CallbackTypes, CallbackTypeOK
<1>1. run[c].level \in Levels /\ runs[c] \in Nat /\ runs' = runs /\ runs[c] > run[c].level
  BY DEF Run, Retry, PursuitInv, Earned
<1>2. run'[c] = NoRun
  BY DEF Retry
<1>3. CASE run[c].level < MaxRetries
  <2>1. run[c].level + 1 \in Levels
    BY <1>1, <1>3
  <2>2. /\ messages'[c][run[c].level + 1] = messages[c][run[c].level + 1] + copies
        /\ \A n \in Levels : n # run[c].level + 1 => messages'[c][n] = messages[c][n]
    BY <1>3, <2>1 DEF Retry
  <2>3. messages[c][run[c].level + 1] \in Nat
    BY <2>1
  <2>4. messages'[c][run[c].level + 1] > 0
    BY <2>2, <2>3
  <2>5. \A n \in Levels : messages'[c][n] > 0 => runs'[c] >= n
    <3> SUFFICES ASSUME NEW n \in Levels, messages'[c][n] > 0 PROVE runs[c] >= n
      BY <1>1
    <3>1. CASE n = run[c].level + 1
      <4>1. run[c].level \in Nat /\ runs[c] \in Nat /\ runs[c] > run[c].level
        BY <1>1
      <4> HIDE DEF CallbackTypes, CallbackTypeOK
      <4> QED BY <3>1, <4>1
    <3>2. CASE n # run[c].level + 1
      BY <2>2, <3>2 DEF PursuitInv, Earned
    <3> QED BY <3>1, <3>2
  <2>6. ~Settled(c)'
    BY <2>1, <2>4 DEF Settled
  <2> QED BY <1>2, <2>5, <2>6, NoRunIsRun DEF Earned
<1>4. CASE ~(run[c].level < MaxRetries)
  <2>1. messages' = messages /\ runs'[c] > MaxRetries
    BY <1>1, <1>4 DEF Retry
  <2> QED BY <1>1, <1>2, <2>1, NoRunIsRun DEF Earned, PursuitInv
<1> QED BY <1>3, <1>4

\* A failed POST and a sleep leave the execution going on at its level.
LEMMA ExecutionGoesOn ==
  ASSUME CallbackTypes, NEW c \in Calls, SendFails(c) \/ Sleep(c)
  PROVE  run'[c].doing # "nothing" /\ run[c].doing # "nothing" /\ run'[c].level = run[c].level
<1> USE LevelsAre DEF CallbackTypes, CallbackTypeOK
<1>0. run[c].doing # "nothing"
  BY DEF SendFails, Sleep
<1>1. CASE SendFails(c)
  <2>1. PICK s \in SendSeconds :
          run' = [run EXCEPT ![c] =
                    [Later(c, s) EXCEPT
                       !.attempt = @ + 1,
                       !.doing = IF run[c].attempt + 1 < Attempts THEN "sleep" ELSE "failed"]]
    BY <1>1 DEF SendFails
  <2>2. s \in Nat
    BY CallbackConstants
  <2>3. Later(c, s) \in Run /\ Later(c, s).level = run[c].level
    BY <2>2, LaterIsRun
  <2> QED BY <1>0, <2>1, <2>3 DEF Run
<1>2. CASE Sleep(c)
  <2>1. run[c].attempt \in 1 .. Attempts - 1
    BY <1>2 DEF Sleep, AttemptLeft
  <2>2. Backoff[run[c].attempt] \in Nat
    BY <2>1, CallbackConstants
  <2>3. /\ Later(c, Backoff[run[c].attempt]) \in Run
        /\ Later(c, Backoff[run[c].attempt]).level = run[c].level
    BY <2>2, LaterIsRun
  <2>4. run' = [run EXCEPT ![c] = [Later(c, Backoff[run[c].attempt]) EXCEPT !.doing = "send"]]
    BY <1>2 DEF Sleep
  <2> QED BY <1>0, <2>3, <2>4 DEF Run
<1> QED BY <1>0, <1>1, <1>2

\* What another callback does leaves this one alone, and so does a step that only lengthens an
\* execution.
LEMMA PursuitStep ==
  ASSUME CallbackTypes, PursuitInv, [CallbackNext]_callbackVars
  PROVE  PursuitInv'
<1> USE LevelsAre DEF CallbackTypes, CallbackTypeOK
<1> SUFFICES ASSUME NEW c \in Calls
             PROVE  Earned(c)' /\ (runs'[c] > 0 /\ ~got'[c] => ~Settled(c)' \/ runs'[c] > MaxRetries)
  BY DEF PursuitInv
<1> DEFINE Goal == Earned(c)' /\ (runs'[c] > 0 /\ ~got'[c] => ~Settled(c)' \/ runs'[c] > MaxRetries)
<1>1. ASSUME messages'[c] = messages[c], runs'[c] = runs[c], got'[c] = got[c], run'[c] = run[c]
      PROVE  Goal
  BY <1>1 DEF PursuitInv, Earned, Settled
<1>2. CASE UNCHANGED callbackVars
  BY <1>1, <1>2 DEF callbackVars
<1>3. ASSUME NEW d \in Calls, d # c, Announce(d) \/ Take(d) \/ RunStep(d)
      PROVE  Goal
  <2>1. /\ messages'[c] = messages[c] /\ runs'[c] = runs[c] /\ got'[c] = got[c]
        /\ run'[c] = run[c]
    BY <1>3 DEF Announce, Enqueue, Take, TakeAt, RunStep, SendSucceeds, SendFails, Sleep,
       LimitInSend, LimitInSleep, SenderFails, Retry, Unanswered
  <2> QED BY <1>1, <2>1
<1>4. ASSUME Announce(c) PROVE Goal
  <2>1. runs'[c] = 0 /\ run'[c] = run[c] /\ run[c].doing = "nothing"
    BY <1>4 DEF Announce, Enqueue, Settled
  <2>2. \A n \in Levels : messages'[c][n] > 0 => n = 0
    BY <1>4 DEF Announce, Enqueue, Settled
  <2> QED BY <2>1, <2>2 DEF Earned
<1>5. ASSUME NEW n \in Levels, TakeAt(c, n) PROVE Goal
  <2>1. /\ run'[c] = FirstAttempt(n) /\ runs'[c] = runs[c] + 1
        /\ messages[c][n] > 0 /\ messages'[c] = [messages[c] EXCEPT ![n] = @ - 1]
    BY <1>5 DEF TakeAt
  <2>2. run'[c].doing # "nothing" /\ run'[c].level = n
    BY <2>1, NoRunIsRun
  <2>3. runs[c] \in Nat /\ runs[c] >= n
    BY <2>1 DEF PursuitInv, Earned
  <2>4. \A m \in Levels : messages'[c][m] > 0 => messages[c][m] > 0
    BY <2>1
  <2>5. \A m \in Levels : messages'[c][m] > 0 => runs'[c] >= m
    BY <2>1, <2>3, <2>4 DEF PursuitInv, Earned
  <2> QED BY <2>1, <2>2, <2>3, <2>5 DEF Earned, Settled
<1>6. ASSUME SendSucceeds(c) PROVE Goal
  <2>1. messages' = messages /\ runs' = runs /\ got'[c] /\ run'[c] = NoRun
    BY <1>6 DEF SendSucceeds
  <2> QED BY <2>1, NoRunIsRun DEF Earned, PursuitInv
<1>7. ASSUME SendFails(c) \/ Sleep(c) PROVE Goal
  <2>1. messages' = messages /\ runs' = runs /\ run[c].doing # "nothing"
    BY <1>7 DEF SendFails, Sleep
  <2>2. run'[c].doing # "nothing" /\ run'[c].level = run[c].level
    BY <1>7, ExecutionGoesOn
  <2> QED BY <2>1, <2>2 DEF Earned, Settled, PursuitInv
<1>8. ASSUME LimitInSend(c) \/ LimitInSleep(c) \/ SenderFails(c) PROVE Goal
  BY <1>8, PursuitRetry DEF LimitInSend, LimitInSleep, SenderFails
<1>9. CASE CallbackNext
  <2>1. PICK d \in Calls : Announce(d) \/ Take(d) \/ RunStep(d)
    BY <1>9 DEF CallbackNext
  <2>2. CASE d # c
    BY <1>3, <2>1, <2>2
  <2>3. CASE d = c
    <3>1. CASE Announce(c)
      BY <1>4, <3>1
    <3>2. CASE Take(c)
      BY <1>5, <3>2 DEF Take
    <3>3. CASE RunStep(c)
      BY <1>6, <1>7, <1>8, <3>3 DEF RunStep
    <3> QED BY <2>1, <2>3, <3>1, <3>2, <3>3
  <2> QED BY <2>2, <2>3
<1> QED BY <1>2, <1>9

LEMMA PursuitStarts == CallbackInit => PursuitInv
BY LevelsAre, NoRunIsRun DEF CallbackInit, PursuitInv, Earned

\* Whatever the numbers of retries, attempts and seconds: a callback that is at rest without its
\* receiver having processed it was executed at every level.
THEOREM GivesUpLateHolds == CallbackSpec => []GivesUpLate
<1>1. CallbackTypes /\ PursuitInv /\ [CallbackNext]_callbackVars => PursuitInv'
  BY PursuitStep
<1>2. PursuitInv => GivesUpLate
  BY DEF PursuitInv, GivesUpLate
<1> QED BY <1>1, <1>2, CallbackTypesCorrect, PursuitStarts, PTL DEF CallbackSpec

-----------------------------------------------------------------------------
(* The attempt the soft limit is meant to prevent.                          *)

\* The last of the pauses is as long as the limit: 30 and 30 seconds in the code.
LastPauseIsLong == Attempts > 1 /\ Backoff[Attempts - 1] >= SoftLimit

\* Past that pause the limit has struck.
LateInv ==
    \A c \in Calls :
        run[c].attempt >= Attempts - 1 /\ run[c].doing # "sleep" => run[c].limited

\* A limit that has struck has struck for good.
LEMMA LimitStays ==
  ASSUME CallbackTypeOK, NEW c \in Calls, NEW s \in Nat, run[c].limited
  PROVE  Later(c, s).limited
<1>1. run[c] \in Run
  BY DEF CallbackTypeOK
<1> QED BY <1>1 DEF Later, Run

LEMMA LateStep ==
  ASSUME LastPauseIsLong, CallbackTypes, LateInv, [CallbackNext]_callbackVars
  PROVE  LateInv'
<1> USE LevelsAre, CallbackConstants DEF CallbackTypes, CallbackTypeOK, LateInv
<1>1. ASSUME NEW d \in Calls, run'[d] = NoRun \/ (\E n \in Levels : run'[d] = FirstAttempt(n)),
             \A c \in Calls \ {d} : run'[c] = run[c]
      PROVE  LateInv'
  <2>1. run'[d].attempt = 0
    BY <1>1, NoRunIsRun DEF NoRun
  <2>2. ~(0 >= Attempts - 1)
    BY DEF LastPauseIsLong
  <2> QED BY <1>1, <2>1, <2>2
<1>2. ASSUME NEW d \in Calls, SendFails(d) PROVE LateInv'
  <2>1. PICK s \in SendSeconds :
          run' = [run EXCEPT ![d] =
                    [Later(d, s) EXCEPT
                       !.attempt = @ + 1,
                       !.doing = IF run[d].attempt + 1 < Attempts THEN "sleep" ELSE "failed"]]
    BY <1>2 DEF SendFails
  <2>2. Later(d, s) \in Run /\ s \in Nat
    BY LaterIsRun
  <2>3. run[d] \in Run /\ run[d].doing = "send"
    BY <1>2 DEF SendFails
  <2>4. /\ run'[d].doing = IF run[d].attempt + 1 < Attempts THEN "sleep" ELSE "failed"
        /\ run'[d].limited = Later(d, s).limited
    BY <2>1, <2>2 DEF Run
  <2>5. CASE run[d].attempt + 1 < Attempts
    BY <2>1, <2>4, <2>5
  <2>6. CASE ~(run[d].attempt + 1 < Attempts)
    <3>1. run[d].attempt >= Attempts - 1
      BY <2>3, <2>6 DEF Run
    <3>2. run[d].limited
      BY <2>3, <3>1
    <3>3. run'[d].limited
      BY <2>2, <2>4, <3>2, LimitStays
    <3> QED BY <2>1, <3>3
  <2> QED BY <2>5, <2>6
<1>3. ASSUME NEW d \in Calls, Sleep(d) PROVE LateInv'
  <2>1. run[d] \in Run /\ run[d].attempt \in 1 .. Attempts - 1
    BY <1>3 DEF Sleep, AttemptLeft
  <2> DEFINE pause == Backoff[run[d].attempt]
  <2>2. pause \in Nat
    BY <2>1
  <2>3. Later(d, pause) \in Run /\ Later(d, pause).attempt = run[d].attempt
    BY <2>2, LaterIsRun
  <2>4. run' = [run EXCEPT ![d] = [Later(d, pause) EXCEPT !.doing = "send"]]
    BY <1>3 DEF Sleep
  <2>5. run'[d].attempt = run[d].attempt /\ run'[d].limited = Later(d, pause).limited
    BY <2>3, <2>4 DEF Run
  <2>6. CASE run[d].attempt >= Attempts - 1
    <3>1. run[d].attempt = Attempts - 1 /\ run[d].elapsed \in Nat
      <4>1. run[d].elapsed \in Nat
        BY <2>1 DEF Run
      <4>2. \A a \in 1 .. Attempts - 1 : a >= Attempts - 1 => a = Attempts - 1
        OBVIOUS
      <4> QED BY <2>1, <2>6, <4>1, <4>2
    <3>2. run[d].elapsed + pause >= SoftLimit
      BY <3>1 DEF LastPauseIsLong
    <3>3. run[d].limited
      BY <1>3, <3>2 DEF Sleep, Strikes
    <3> QED BY <2>2, <2>4, <2>5, <3>3, LimitStays
  <2>7. CASE ~(run[d].attempt >= Attempts - 1)
    BY <2>4, <2>5, <2>7
  <2> QED BY <2>6, <2>7
<1>4. CASE UNCHANGED <<run>>
  BY <1>4
<1>5. CASE CallbackNext
  <2>1. PICK d \in Calls : Announce(d) \/ Take(d) \/ RunStep(d)
    BY <1>5 DEF CallbackNext
  <2>2. CASE Announce(d)
    BY <1>4, <2>2 DEF Announce, Enqueue
  <2>3. CASE Take(d) \/ SendSucceeds(d) \/ LimitInSend(d) \/ LimitInSleep(d) \/ SenderFails(d)
    BY <1>1, <2>3 DEF Take, TakeAt, SendSucceeds, LimitInSend, LimitInSleep, SenderFails, Retry
  <2> QED BY <1>2, <1>3, <2>1, <2>2, <2>3 DEF RunStep
<1> QED BY <1>4, <1>5 DEF callbackVars

LEMMA LateStarts == LastPauseIsLong /\ CallbackInit => LateInv
BY CallbackConstants DEF CallbackInit, LateInv, NoRun, LastPauseIsLong

\* With a last pause as long as the soft limit, whatever else the numbers are, the sender's last
\* attempt is made only after the limit was taken for a failed POST.
THEOREM LastAttemptIsLateHolds ==
  ASSUME LastPauseIsLong
  PROVE  CallbackSpec => []LastAttemptIsLate
<1>1. CallbackTypes /\ LateInv /\ [CallbackNext]_callbackVars => LateInv'
  BY LastPauseIsLong, LateStep
<1>2. CallbackInit => LateInv
  BY LastPauseIsLong, LateStarts
<1>3. CallbackTypes /\ LateInv => LastAttemptIsLate
  <2> SUFFICES ASSUME CallbackTypes, LateInv, NEW c \in Calls, run[c].attempt = Attempts
               PROVE  run[c].limited
    BY DEF LastAttemptIsLate
  <2>1. Attempts \in Nat /\ run[c].attempt >= Attempts - 1 /\ run[c].attempt \notin 1 .. Attempts - 1
    BY CallbackConstants
  <2> QED BY <2>1 DEF CallbackTypes, AttemptLeft, LateInv
<1> QED BY <1>1, <1>2, <1>3, CallbackTypesCorrect, PTL DEF CallbackSpec
-----------------------------------------------------------------------------
(* The executions are bounded.                                              *)

\* A set of n + 1 elements has twice as many subsets as one of n.
LEMMA Doubling ==
  ASSUME NEW n \in Nat
  PROVE  2 ^ n \in Nat /\ 2 ^ (n + 1) = 2 * 2 ^ n
<1> DEFINE S == SUBSET (1 .. n)
           T == {X \union {n + 1} : X \in S}
           f == [X \in S |-> X \union {n + 1}]
<1>1. IsFiniteSet(1 .. n) /\ Cardinality(1 .. n) = n
  BY FS_Interval
<1>2. IsFiniteSet(1 .. n + 1) /\ Cardinality(1 .. n + 1) = n + 1
  BY FS_Interval
<1>3. IsFiniteSet(S) /\ Cardinality(S) = 2 ^ n /\ 2 ^ n \in Nat
  BY <1>1, FS_SUBSET, FS_CardinalityType
<1>4. Cardinality(SUBSET (1 .. n + 1)) = 2 ^ (n + 1)
  BY <1>2, FS_SUBSET
<1>5. f \in Bijection(S, T)
  <2>1. f \in [S -> T] /\ \A t \in T : \E X \in S : f[X] = t
    OBVIOUS
  <2>2. ASSUME NEW X \in S, NEW Y \in S, f[X] = f[Y] PROVE X = Y
    <3>1. n + 1 \notin X /\ n + 1 \notin Y
      OBVIOUS
    <3>2. X \union {n + 1} = Y \union {n + 1}
      BY <2>2
    <3> QED BY <3>1, <3>2
  <2> HIDE DEF S, T, f
  <2> QED BY <2>1, <2>2 DEF Bijection, Injection, Surjection, IsInjective
<1>6. IsFiniteSet(T) /\ Cardinality(T) = Cardinality(S)
  BY <1>3, <1>5, FS_Bijection DEF ExistsBijection
<1>7. SUBSET (1 .. n + 1) = S \union T /\ S \intersect T = {}
  <2>1. ASSUME NEW X \in SUBSET (1 .. n + 1) PROVE X \in S \union T
    <3>1. CASE n + 1 \in X
      <4>1. X \ {n + 1} \in S /\ X = (X \ {n + 1}) \union {n + 1}
        BY <3>1
      <4> QED BY <4>1
    <3>2. CASE n + 1 \notin X
      <4>1. X \subseteq 1 .. n
        BY <3>2
      <4> QED BY <4>1
    <3> QED BY <3>1, <3>2
  <2>2. ASSUME NEW X \in S \union T PROVE X \in SUBSET (1 .. n + 1)
    OBVIOUS
  <2>3. ASSUME NEW X \in S, X \in T PROVE FALSE
    <3>1. n + 1 \in X
      BY <2>3
    <3> QED BY <3>1
  <2> QED BY <2>1, <2>2, <2>3
<1>8. Cardinality(S \intersect T) = 0
  BY <1>7, FS_EmptySet
<1>9. Cardinality(S \union T) = Cardinality(S) + Cardinality(T) - 0
  <2> HIDE DEF S, T
  <2> QED BY <1>3, <1>6, <1>8, FS_Union
<1> HIDE DEF S, T
<1>10. 2 ^ (n + 1) = Cardinality(S) + Cardinality(T) - 0
  BY <1>4, <1>7, <1>9, Zenon
<1>11. PICK k \in Nat : k = 2 ^ n
  BY <1>3
<1>12. 2 ^ (n + 1) = k + k - 0
  BY <1>3, <1>6, <1>10, <1>11, Zenon
<1>13. 2 * k = k + k - 0
  OBVIOUS
<1> QED BY <1>3, <1>11, <1>12, <1>13, Zenon

\* The nodes of the tree of retries below a message of level n, its own included.
Nodes(n) == 2 ^ (MaxRetries + 1 - n) - 1

LEMMA NodesAre ==
  /\ Nodes(MaxRetries + 1) = 0
  /\ \A n \in 0 .. MaxRetries + 1 : Nodes(n) \in Nat
  /\ \A n \in Levels : Nodes(n) = 1 + 2 * Nodes(n + 1)
<1>1. 2 ^ 0 = 1
  <2>1. Cardinality(SUBSET {}) = 2 ^ 0 /\ SUBSET {} = {{}}
    BY FS_EmptySet, FS_SUBSET
  <2>2. Cardinality({{}}) = 1
    BY FS_Singleton
  <2> QED BY <2>1, <2>2
<1>2. \A n \in Nat : 2 ^ n \in Nat \ {0}
  <2> SUFFICES ASSUME NEW n \in Nat, 2 ^ n = 0 PROVE FALSE
    BY Doubling
  <2>1. IsFiniteSet(SUBSET (1 .. n)) /\ Cardinality(SUBSET (1 .. n)) = 2 ^ n
    <3>1. IsFiniteSet(1 .. n) /\ Cardinality(1 .. n) = n
      BY FS_Interval
    <3> QED BY <3>1, FS_SUBSET
  <2>2. SUBSET (1 .. n) = {}
    BY <2>1, FS_EmptySet
  <2> QED BY <2>2
<1>3. Nodes(MaxRetries + 1) = 0
  <2>1. MaxRetries + 1 - (MaxRetries + 1) = 0
    BY LevelsAre
  <2>2. Nodes(MaxRetries + 1) = 1 - 1
    BY <1>1, <2>1, Zenon DEF Nodes
  <2> QED BY <2>2
<1>4. ASSUME NEW n \in 0 .. MaxRetries + 1 PROVE Nodes(n) \in Nat
  <2>1. MaxRetries + 1 - n \in Nat
    BY LevelsAre
  <2>2. PICK k \in Nat \ {0} : k = 2 ^ (MaxRetries + 1 - n)
    BY <1>2, <2>1
  <2>3. Nodes(n) = k - 1
    BY <2>2, Zenon DEF Nodes
  <2> QED BY <2>3
<1>5. ASSUME NEW n \in Levels PROVE Nodes(n) = 1 + 2 * Nodes(n + 1)
  <2>1. PICK d \in Nat : d = MaxRetries + 1 - (n + 1) /\ d + 1 = MaxRetries + 1 - n
    <3>1. MaxRetries + 1 - (n + 1) \in Nat
          /\ MaxRetries + 1 - (n + 1) + 1 = MaxRetries + 1 - n
      BY LevelsAre
    <3> QED BY <3>1
  <2>2. PICK k \in Nat : k = 2 ^ d
    BY Doubling
  <2>3. Nodes(n) = 2 * k - 1
    BY <2>1, <2>2, Doubling, Zenon DEF Nodes
  <2>4. Nodes(n + 1) = k - 1
    BY <2>1, <2>2, Zenon DEF Nodes
  <2> QED BY <2>3, <2>4
<1> QED BY <1>3, <1>4, <1>5

\* s[k] is the sum of the trees below the messages at the levels before k.  Carried as a witness, it
\* needs no recursion.
SumsOf(m, s) ==
    /\ s \in [0 .. MaxRetries + 1 -> Nat]
    /\ s[0] = 0
    /\ \A k \in Levels : s[k + 1] = s[k] + m[k] * Nodes(k)
    /\ \A j, k \in 0 .. MaxRetries + 1 : j <= k => s[j] <= s[k]

LEMMA SumAdds ==
  ASSUME NEW m \in [Levels -> Nat], NEW s, SumsOf(m, s), NEW n \in Levels, NEW d \in Nat,
         NEW m2, m2 = [m EXCEPT ![n] = m[n] + d]
  PROVE  \E t : /\ SumsOf(m2, t)
                /\ t[MaxRetries + 1] = s[MaxRetries + 1] + d * Nodes(n)
<1> DEFINE w == d * Nodes(n)
           t == [k \in 0 .. MaxRetries + 1 |-> IF k > n THEN s[k] + w ELSE s[k]]
<1>1. w \in Nat /\ Nodes(n) \in Nat /\ n \in 0 .. MaxRetries + 1 /\ MaxRetries \in Nat
  <2>1. n \in 0 .. MaxRetries + 1 /\ MaxRetries \in Nat
    BY LevelsAre
  <2>2. Nodes(n) \in Nat
    BY <2>1, NodesAre
  <2> QED BY <2>1, <2>2
<1>2. (m[n] + d) * Nodes(n) = m[n] * Nodes(n) + w
  BY <1>1
<1>3. m2[n] * Nodes(n) = m[n] * Nodes(n) + w /\ m[n] * Nodes(n) \in Nat
  BY <1>1, <1>2
<1>4. \A k \in Levels : k # n => m2[k] = m[k]
  OBVIOUS
<1> HIDE DEF w
<1>5. t \in [0 .. MaxRetries + 1 -> Nat]
  BY <1>1 DEF SumsOf
<1>6. t[0] = 0
  BY <1>1, LevelsAre DEF SumsOf
<1>7. \A k \in Levels : t[k + 1] = t[k] + m2[k] * Nodes(k)
  <2> SUFFICES ASSUME NEW k \in Levels PROVE t[k + 1] = t[k] + m2[k] * Nodes(k)
    OBVIOUS
  <2>1. k \in 0 .. MaxRetries + 1 /\ k + 1 \in 0 .. MaxRetries + 1 /\ k \in Int /\ n \in Int
    BY <1>1, LevelsAre
  <2>2. s[k + 1] = s[k] + m[k] * Nodes(k) /\ s[k] \in Nat /\ s[k + 1] \in Nat
    BY <2>1 DEF SumsOf
  <2>3. m[k] * Nodes(k) \in Nat
    BY <2>1, NodesAre
  <2>4. PICK p \in Nat : p = m[k] * Nodes(k)
    BY <2>3
  <2>5. CASE k = n
    <3>1. m2[k] * Nodes(k) = p + w
      BY <1>3, <2>4, <2>5
    <3>2. t[k + 1] = s[k + 1] + w /\ t[k] = s[k]
      BY <2>1, <2>5
    <3> QED BY <1>1, <2>2, <2>4, <3>1, <3>2
  <2>6. CASE k # n
    <3>1. m2[k] * Nodes(k) = p
      BY <1>4, <2>4, <2>6
    <3>2. \/ t[k + 1] = s[k + 1] + w /\ t[k] = s[k] + w
          \/ t[k + 1] = s[k + 1] /\ t[k] = s[k]
      BY <2>1, <2>6
    <3> QED BY <1>1, <2>2, <2>4, <3>1, <3>2
  <2> QED BY <2>5, <2>6
<1>8. \A j, k \in 0 .. MaxRetries + 1 : j <= k => t[j] <= t[k]
  BY <1>1 DEF SumsOf
<1>9. t[MaxRetries + 1] = s[MaxRetries + 1] + w
  BY <1>1, LevelsAre DEF Levels
<1>10. SumsOf(m2, t)
  BY <1>5, <1>6, <1>7, <1>8 DEF SumsOf
<1> HIDE DEF t
<1> QED BY <1>9, <1>10 DEF w

LEMMA SumTakes ==
  ASSUME NEW m \in [Levels -> Nat], NEW s, SumsOf(m, s), NEW n \in Levels, m[n] > 0,
         NEW m2, m2 = [m EXCEPT ![n] = m[n] - 1]
  PROVE  \E t : /\ SumsOf(m2, t)
                /\ s[MaxRetries + 1] = t[MaxRetries + 1] + Nodes(n)
<1> DEFINE w == Nodes(n)
           t == [k \in 0 .. MaxRetries + 1 |-> IF k > n THEN s[k] - w ELSE s[k]]
<1>1. w \in Nat /\ n \in 0 .. MaxRetries /\ n \in 0 .. MaxRetries + 1 /\ MaxRetries \in Nat
      /\ n + 1 \in 0 .. MaxRetries + 1
  BY LevelsAre, NodesAre
<1>2. PICK r \in Nat : m[n] = r + 1
  <2>1. m[n] - 1 \in Nat /\ m[n] = (m[n] - 1) + 1
    OBVIOUS
  <2> QED BY <2>1
<1>3. m2[n] * w \in Nat /\ m[n] * w = m2[n] * w + w
  <2>1. m2[n] = r
    BY <1>2
  <2>2. r * w \in Nat /\ (r + 1) * w = r * w + w
    BY <1>1
  <2> QED BY <1>2, <2>1, <2>2
<1>4. \A k \in Levels : k # n => m2[k] = m[k]
  OBVIOUS
<1>5. \A k \in 0 .. MaxRetries + 1 : k > n => s[k] >= s[n] + w
  <2>1. s[n + 1] = s[n] + m[n] * w /\ s[n] \in Nat
    BY <1>1 DEF SumsOf
  <2>2. PICK p \in Nat : p = m2[n] * w
    BY <1>3
  <2>3. s[n + 1] = s[n] + (p + w)
    BY <1>3, <2>1, <2>2
  <2> SUFFICES ASSUME NEW k \in 0 .. MaxRetries + 1, k > n PROVE s[k] >= s[n] + w
    OBVIOUS
  <2>4. s[n + 1] <= s[k] /\ s[k] \in Nat
    BY <1>1 DEF SumsOf
  <2> HIDE DEF w
  <2> QED BY <1>1, <2>1, <2>3, <2>4
<1>6. m[n] * Nodes(n) = m2[n] * Nodes(n) + w
  BY <1>3
<1> HIDE DEF w
<1>7. t \in [0 .. MaxRetries + 1 -> Nat]
  <2> SUFFICES ASSUME NEW k \in 0 .. MaxRetries + 1 PROVE t[k] \in Nat
    OBVIOUS
  <2>1. s[k] \in Nat /\ s[n] \in Nat
    BY <1>1 DEF SumsOf
  <2> QED BY <1>1, <1>5, <2>1
<1>8. t[0] = 0
  BY <1>1 DEF SumsOf
<1>9. \A k \in Levels : t[k + 1] = t[k] + m2[k] * Nodes(k)
  <2> SUFFICES ASSUME NEW k \in Levels PROVE t[k + 1] = t[k] + m2[k] * Nodes(k)
    OBVIOUS
  <2>1. k \in 0 .. MaxRetries + 1 /\ k + 1 \in 0 .. MaxRetries + 1 /\ k \in Int /\ n \in Int
    BY <1>1, LevelsAre
  <2>2. s[k + 1] = s[k] + m[k] * Nodes(k) /\ s[k] \in Nat /\ s[k + 1] \in Nat
    BY <2>1 DEF SumsOf
  <2>3. CASE k = n
    <3>1. PICK p \in Nat : p = m2[n] * Nodes(n)
      BY <1>3 DEF w
    <3>2. m[k] * Nodes(k) = p + w
      BY <1>6, <2>3, <3>1
    <3>3. t[k + 1] = s[k + 1] - w /\ t[k] = s[k]
      BY <2>1, <2>3
    <3> QED BY <1>1, <2>2, <2>3, <3>1, <3>2, <3>3
  <2>4. CASE k # n
    <3>1. PICK p \in Nat : p = m[k] * Nodes(k)
      BY <2>1, NodesAre
    <3>2. m2[k] * Nodes(k) = p
      BY <1>4, <2>4, <3>1
    <3>3. \/ t[k + 1] = s[k + 1] - w /\ t[k] = s[k] - w
          \/ t[k + 1] = s[k + 1] /\ t[k] = s[k]
      BY <2>1, <2>4
    <3> QED BY <1>1, <2>2, <3>1, <3>2, <3>3
  <2> QED BY <2>3, <2>4
<1>10. \A j, k \in 0 .. MaxRetries + 1 : j <= k => t[j] <= t[k]
  <2> SUFFICES ASSUME NEW j \in 0 .. MaxRetries + 1, NEW k \in 0 .. MaxRetries + 1, j <= k
               PROVE  t[j] <= t[k]
    OBVIOUS
  <2>1. s[j] <= s[k] /\ s[j] \in Nat /\ s[k] \in Nat /\ s[n] \in Nat /\ (j <= n => s[j] <= s[n])
    BY <1>1 DEF SumsOf
  <2> QED BY <1>1, <1>5, <2>1
<1>11. s[MaxRetries + 1] = t[MaxRetries + 1] + w
  <2>1. s[MaxRetries + 1] \in Nat /\ t[MaxRetries + 1] = s[MaxRetries + 1] - w
    BY <1>1 DEF SumsOf
  <2> QED BY <1>1, <2>1
<1>12. SumsOf(m2, t)
  BY <1>7, <1>8, <1>9, <1>10 DEF SumsOf
<1> HIDE DEF t
<1> QED BY <1>11, <1>12 DEF w
LEMMA SumsOfNothing ==
  \E s : SumsOf([n \in Levels |-> 0], s) /\ s[MaxRetries + 1] = 0
<1> DEFINE s == [k \in 0 .. MaxRetries + 1 |-> 0]
           m == [n \in Levels |-> 0]
<1>1. ASSUME NEW k \in Levels PROVE s[k + 1] = s[k] + m[k] * Nodes(k)
  <2>1. k \in 0 .. MaxRetries + 1 /\ k + 1 \in 0 .. MaxRetries + 1
    BY LevelsAre
  <2>2. PICK w \in Nat : w = Nodes(k)
    BY <2>1, NodesAre
  <2>3. s[k + 1] = 0 /\ s[k] = 0 /\ m[k] = 0 /\ 0 + 0 * w = 0
    BY <2>1
  <2> HIDE DEF s, m
  <2> QED BY <2>2, <2>3
<1>2. s \in [0 .. MaxRetries + 1 -> Nat] /\ \A j, k \in 0 .. MaxRetries + 1 : s[j] <= s[k]
  OBVIOUS
<1>3. s[MaxRetries + 1] = 0 /\ s[0] = 0
  BY LevelsAre
<1> HIDE DEF s, m
<1>4. SumsOf(m, s)
  BY <1>1, <1>2, <1>3 DEF SumsOf
<1> QED BY <1>3, <1>4 DEF m

\* What the execution under way may still send.
Ahead(c) == IF run[c].doing = "nothing" THEN 0 ELSE 2 * Nodes(run[c].level + 1)

\* The executions so far and those that may still come stay within the tree.
WithinTree(c) ==
    \E s : SumsOf(messages[c], s) /\ runs[c] + s[MaxRetries + 1] + Ahead(c) <= Nodes(0)

BudgetInv == \A c \in Calls : WithinTree(c)

LEMMA AheadIs ==
  ASSUME CallbackTypes, NEW c \in Calls
  PROVE  /\ Ahead(c) \in Nat
         /\ run[c].doing # "nothing" => Ahead(c) = 2 * Nodes(run[c].level + 1)
         /\ run[c].doing = "nothing" => Ahead(c) = 0
<1>1. run[c].level + 1 \in 0 .. MaxRetries + 1
  BY LevelsAre DEF CallbackTypes, CallbackTypeOK, Run
<1> QED BY <1>1, NodesAre DEF Ahead

LEMMA BudgetStarts == CallbackInit => BudgetInv
<1> SUFFICES ASSUME CallbackInit, NEW c \in Calls PROVE WithinTree(c)
  BY DEF BudgetInv
<1>1. messages[c] = [n \in Levels |-> 0] /\ runs[c] = 0 /\ run[c].doing = "nothing"
  BY NoRunIsRun DEF CallbackInit
<1>2. Nodes(0) \in Nat /\ Ahead(c) = 0
  BY <1>1, LevelsAre, NodesAre DEF Ahead
<1>3. PICK s : SumsOf([n \in Levels |-> 0], s) /\ s[MaxRetries + 1] = 0
  BY SumsOfNothing
<1>4. runs[c] + s[MaxRetries + 1] + Ahead(c) <= Nodes(0)
  BY <1>1, <1>2, <1>3
<1> QED BY <1>1, <1>3, <1>4 DEF WithinTree

\* At most two messages are sent in place of an execution.
LEMMA BudgetRetry ==
  ASSUME CallbackTypes, NEW c \in Calls, WithinTree(c), NEW copies \in {1, 2},
         run[c].doing # "nothing", Retry(c, copies)
  PROVE  WithinTree(c)'
<1>1. run[c].level \in Levels /\ runs[c] \in Nat /\ messages[c] \in [Levels -> Nat]
  BY LevelsAre DEF Run, CallbackTypes, CallbackTypeOK
<1>2. PICK s : SumsOf(messages[c], s) /\ runs[c] + s[MaxRetries + 1] + Ahead(c) <= Nodes(0)
  BY DEF WithinTree
<1>3. s[MaxRetries + 1] \in Nat /\ Nodes(0) \in Nat
  BY <1>2, LevelsAre, NodesAre DEF SumsOf
<1>4. Ahead(c) = 2 * Nodes(run[c].level + 1) /\ Ahead(c) \in Nat
  BY AheadIs
<1>5. Ahead(c)' = 0 /\ runs'[c] = runs[c]
  BY NoRunIsRun DEF Retry, Ahead, CallbackTypes, CallbackTypeOK
<1>6. CASE run[c].level < MaxRetries
  <2>1. run[c].level + 1 \in Levels
    BY <1>1, <1>6, LevelsAre
  <2>2. messages'[c] =
          [messages[c] EXCEPT ![run[c].level + 1] = messages[c][run[c].level + 1] + copies]
    BY <1>6, <2>1 DEF Retry, CallbackTypes, CallbackTypeOK
  <2>3. PICK t : SumsOf(messages'[c], t)
               /\ t[MaxRetries + 1] = s[MaxRetries + 1] + copies * Nodes(run[c].level + 1)
    <3>1. copies \in Nat
      OBVIOUS
    <3>2. PICK l \in Levels : l = run[c].level + 1
      BY <2>1
    <3>3. PICK m, m2 :
              /\ m \in [Levels -> Nat] /\ m = messages[c] /\ m2 = messages'[c]
              /\ m2 = [m EXCEPT ![l] = m[l] + copies]
      BY <1>1, <2>2, <3>2
    <3>4. SumsOf(m, s)
      BY <1>2, <3>3
    <3>5. \E t : SumsOf(m2, t) /\ t[MaxRetries + 1] = s[MaxRetries + 1] + copies * Nodes(l)
      BY <3>1, <3>3, <3>4, SumAdds
    <3> QED BY <3>2, <3>3, <3>5
  <2>4. Nodes(run[c].level + 1) \in Nat
    <3>1. run[c].level + 1 \in 0 .. MaxRetries + 1
      BY <2>1, LevelsAre
    <3> QED BY <3>1, NodesAre
  <2>5. copies * Nodes(run[c].level + 1) <= Ahead(c) /\ copies * Nodes(run[c].level + 1) \in Nat
    BY <1>4, <2>4
  <2>6. runs'[c] + t[MaxRetries + 1] + Ahead(c)' <= Nodes(0)
    <3>1. PICK k \in Nat : k = copies * Nodes(run[c].level + 1)
      BY <2>5
    <3> QED BY <1>1, <1>2, <1>3, <1>4, <1>5, <2>3, <2>5, <3>1
  <2> QED BY <2>3, <2>6 DEF WithinTree
<1>7. CASE ~(run[c].level < MaxRetries)
  <2>1. messages' = messages
    BY <1>7 DEF Retry
  <2>2. runs'[c] + s[MaxRetries + 1] + Ahead(c)' <= Nodes(0)
    BY <1>1, <1>2, <1>3, <1>4, <1>5
  <2> QED BY <1>2, <2>1, <2>2 DEF WithinTree
<1> QED BY <1>6, <1>7

LEMMA BudgetStep ==
  ASSUME CallbackTypes, BudgetInv, [CallbackNext]_callbackVars
  PROVE  BudgetInv'
<1> SUFFICES ASSUME NEW c \in Calls PROVE WithinTree(c)'
  BY DEF BudgetInv
<1>1. WithinTree(c) /\ runs[c] \in Nat /\ messages[c] \in [Levels -> Nat]
  BY LevelsAre DEF BudgetInv, CallbackTypes, CallbackTypeOK
<1>2. PICK s : SumsOf(messages[c], s) /\ runs[c] + s[MaxRetries + 1] + Ahead(c) <= Nodes(0)
  BY <1>1 DEF WithinTree
<1>3. s[MaxRetries + 1] \in Nat /\ Nodes(0) \in Nat
  BY <1>2, LevelsAre, NodesAre DEF SumsOf
<1>4. ASSUME messages'[c] = messages[c], runs'[c] = runs[c], run'[c] = run[c]
      PROVE  WithinTree(c)'
  BY <1>1, <1>4 DEF WithinTree, Ahead
<1>5. CASE UNCHANGED callbackVars
  BY <1>4, <1>5 DEF callbackVars
<1>6. ASSUME NEW d \in Calls, d # c, Announce(d) \/ Take(d) \/ RunStep(d)
      PROVE  WithinTree(c)'
  <2>1. messages'[c] = messages[c] /\ runs'[c] = runs[c] /\ run'[c] = run[c]
    BY <1>6 DEF Announce, Enqueue, Take, TakeAt, RunStep, SendSucceeds, SendFails, Sleep,
       LimitInSend, LimitInSleep, SenderFails, Retry, Unanswered, CallbackTypes,
       CallbackTypeOK
  <2> QED BY <1>4, <2>1
\* The tree starts with its root.
<1>7. ASSUME Announce(c) PROVE WithinTree(c)'
  <2>1. runs'[c] = 0 /\ run'[c].doing = "nothing"
    BY <1>7, LevelsAre DEF Announce, Enqueue, Settled, CallbackTypes, CallbackTypeOK
  <2>2. Ahead(c)' = 0
    BY <2>1 DEF Ahead
  <2>3. messages[c] = [n \in Levels |-> 0]
    BY <1>1, <1>7 DEF Announce, Settled
  <2>4. PICK z : SumsOf(messages[c], z) /\ z[MaxRetries + 1] = 0
    BY <2>3, SumsOfNothing
  <2>5. messages'[c] = [messages[c] EXCEPT ![0] = messages[c][0] + 1]
    BY <1>7, <2>3, LevelsAre DEF Announce, Enqueue, CallbackTypes, CallbackTypeOK
  <2>6. PICK t : SumsOf(messages'[c], t)
               /\ t[MaxRetries + 1] = z[MaxRetries + 1] + 1 * Nodes(0)
    <3>1. 1 \in Nat
      OBVIOUS
    <3>2. PICK l \in Levels : l = 0
      BY LevelsAre
    <3>3. PICK m, m2 :
              /\ m \in [Levels -> Nat] /\ m = messages[c] /\ m2 = messages'[c]
              /\ m2 = [m EXCEPT ![l] = m[l] + 1]
      BY <1>1, <2>5, <3>2
    <3>4. SumsOf(m, z)
      BY <2>4, <3>3
    <3>5. \E t : SumsOf(m2, t) /\ t[MaxRetries + 1] = z[MaxRetries + 1] + 1 * Nodes(l)
      BY <3>1, <3>3, <3>4, SumAdds
    <3> QED BY <3>2, <3>3, <3>5
  <2>7. runs'[c] + t[MaxRetries + 1] + Ahead(c)' <= Nodes(0)
    BY <1>3, <2>1, <2>2, <2>4, <2>6
  <2> QED BY <2>6, <2>7 DEF WithinTree
\* A node is the execution and what it may send.
<1>8. ASSUME NEW n \in Levels, TakeAt(c, n) PROVE WithinTree(c)'
  <2>1. /\ run'[c] = FirstAttempt(n) /\ runs'[c] = runs[c] + 1 /\ run[c].doing = "nothing"
        /\ messages[c][n] > 0 /\ messages'[c] = [messages[c] EXCEPT ![n] = messages[c][n] - 1]
    BY <1>8 DEF TakeAt, CallbackTypes, CallbackTypeOK
  <2>2. Ahead(c) = 0 /\ Ahead(c)' = 2 * Nodes(n + 1)
    BY <2>1, NoRunIsRun DEF Ahead
  <2>3. PICK t : SumsOf(messages'[c], t) /\ s[MaxRetries + 1] = t[MaxRetries + 1] + Nodes(n)
    <3>1. messages[c] \in [Levels -> Nat]
      BY <1>1
    <3>2. SumsOf(messages[c], s)
      BY <1>2
    <3>3. messages[c][n] > 0
      BY <2>1
    <3>4. PICK m, m2 : m = messages[c] /\ m2 = messages'[c] /\ m2 = [m EXCEPT ![n] = m[n] - 1]
      BY <2>1
    <3>5. \E t : /\ SumsOf(m2, t)
                 /\ s[MaxRetries + 1] = t[MaxRetries + 1] + Nodes(n)
      BY <3>1, <3>2, <3>3, <3>4, SumTakes
    <3> QED BY <3>4, <3>5
  <2>4. Nodes(n) = 1 + 2 * Nodes(n + 1) /\ Nodes(n + 1) \in Nat /\ t[MaxRetries + 1] \in Nat
    <3>1. n + 1 \in 0 .. MaxRetries + 1 /\ MaxRetries + 1 \in 0 .. MaxRetries + 1
      BY LevelsAre
    <3> QED BY <2>3, <3>1, NodesAre DEF SumsOf
  <2>5. runs'[c] + t[MaxRetries + 1] + Ahead(c)' <= Nodes(0)
    <3>1. runs'[c] = runs[c] + 1 /\ runs[c] \in Nat
      BY <1>1, <2>1
    <3>2. runs[c] + s[MaxRetries + 1] + 0 <= Nodes(0)
      BY <1>2, <2>2
    <3> QED BY <1>3, <2>2, <2>3, <2>4, <3>1, <3>2
  <2> QED BY <2>3, <2>5 DEF WithinTree
<1>9. ASSUME SendSucceeds(c) PROVE WithinTree(c)'
  <2>1. messages' = messages /\ runs' = runs /\ Ahead(c)' = 0
    BY <1>9, NoRunIsRun DEF SendSucceeds, Ahead, CallbackTypes, CallbackTypeOK
  <2>2. runs'[c] + s[MaxRetries + 1] + Ahead(c)' <= Nodes(0)
    BY <1>1, <1>2, <1>3, <2>1, AheadIs
  <2> QED BY <1>2, <2>1, <2>2 DEF WithinTree
<1>10. ASSUME SendFails(c) \/ Sleep(c) PROVE WithinTree(c)'
  <2>1. messages' = messages /\ runs' = runs
    BY <1>10 DEF SendFails, Sleep
  <2>2. Ahead(c)' = Ahead(c)
    BY <1>10, ExecutionGoesOn DEF Ahead
  <2> QED BY <1>2, <2>1, <2>2 DEF WithinTree
<1>11. ASSUME LimitInSend(c) \/ LimitInSleep(c) \/ SenderFails(c) PROVE WithinTree(c)'
  BY <1>1, <1>11, BudgetRetry DEF LimitInSend, LimitInSleep, SenderFails
<1>12. CASE CallbackNext
  <2>1. PICK d \in Calls : Announce(d) \/ Take(d) \/ RunStep(d)
    BY <1>12 DEF CallbackNext
  <2>2. CASE d # c
    BY <1>6, <2>1, <2>2
  <2>3. CASE d = c
    <3>1. CASE Announce(c)
      BY <1>7, <3>1
    <3>2. CASE Take(c)
      BY <1>8, <3>2 DEF Take
    <3>3. CASE RunStep(c)
      BY <1>9, <1>10, <1>11, <3>3 DEF RunStep
    <3> QED BY <2>1, <2>3, <3>1, <3>2, <3>3
  <2> QED BY <2>2, <2>3
<1> QED BY <1>5, <1>12

\* Whatever the numbers of retries and attempts, the limit and the receiver: the two retries of a
\* failure do not multiply beyond the binary tree of their levels.
THEOREM RunsBoundedHolds == CallbackSpec => []RunsBounded
<1>1. CallbackTypes /\ BudgetInv /\ [CallbackNext]_callbackVars => BudgetInv'
  BY BudgetStep
<1>2. CallbackTypes /\ BudgetInv => RunsBounded
  <2> SUFFICES ASSUME CallbackTypes, BudgetInv, NEW c \in Calls
               PROVE  runs[c] < 2 ^ (MaxRetries + 1)
    BY DEF RunsBounded
  <2>1. PICK s : SumsOf(messages[c], s) /\ runs[c] + s[MaxRetries + 1] + Ahead(c) <= Nodes(0)
    BY DEF BudgetInv, WithinTree
  <2>2. s[MaxRetries + 1] \in Nat /\ Ahead(c) \in Nat /\ runs[c] \in Nat
    <3>1. MaxRetries + 1 \in 0 .. MaxRetries + 1
      BY LevelsAre
    <3>2. runs[c] \in Nat
      BY DEF CallbackTypes, CallbackTypeOK
    <3>3. Ahead(c) \in Nat
      BY AheadIs
    <3> QED BY <2>1, <3>1, <3>2, <3>3 DEF SumsOf
  <2>3. PICK k \in Nat : k = 2 ^ (MaxRetries + 1)
    BY Doubling, LevelsAre
  <2>4. MaxRetries + 1 - 0 = MaxRetries + 1
    BY LevelsAre
  <2>5. Nodes(0) = k - 1
    BY <2>3, <2>4, Zenon DEF Nodes
  <2> QED BY <2>1, <2>2, <2>3, <2>5
<1> QED BY <1>1, <1>2, CallbackTypesCorrect, BudgetStarts, PTL DEF CallbackSpec

-----------------------------------------------------------------------------
(* Every step uses up an attempt or an execution: the safety half of       *)
(* CallbackSettles.                                                        *)

\* How far an execution is.
Place(c) ==
    CASE run[c].doing = "send"   -> 2 * run[c].attempt + 1
      [] run[c].doing = "sleep"  -> 2 * run[c].attempt
      [] run[c].doing = "failed" -> 2 * Attempts
      [] OTHER                   -> 2 * Attempts + 1

\* A new execution, or a later place in this one.
Forward(c) == runs[c] < runs'[c] \/ (runs'[c] = runs[c] /\ Place(c) < Place(c)')

\* No step of the sender or of the task is repeated.
EffortIsSpent ==
    [][\A c \in Calls : \/ UNCHANGED <<messages[c], run[c], runs[c]>>
                        \/ Announce(c)
                        \/ Forward(c)]_callbackVars

LEMMA PlaceIs ==
  ASSUME CallbackTypes, NEW c \in Calls
  PROVE  /\ Place(c) \in 0 .. 2 * Attempts + 1
         /\ run[c].doing # "nothing" => Place(c) \in 0 .. 2 * Attempts
<1>1. run[c].attempt \in 0 .. Attempts /\ Attempts \in Nat
  BY CallbackConstants DEF CallbackTypes, CallbackTypeOK, Run
<1>2. run[c].doing \in {"nothing", "send", "sleep", "failed"}
  BY DEF CallbackTypes, CallbackTypeOK, Run
<1>3. run[c].doing = "send" => run[c].attempt < Attempts
  BY DEF CallbackTypes, AttemptLeft
<1> QED BY <1>1, <1>2, <1>3 DEF Place

\* The end of an execution.
LEMMA EndIsLast ==
  ASSUME CallbackTypes, NEW c \in Calls, run[c].doing # "nothing",
         run' = [run EXCEPT ![c] = NoRun], runs' = runs
  PROVE  Forward(c)
<1>1. run'[c].doing = "nothing"
  BY NoRunIsRun DEF CallbackTypes, CallbackTypeOK
<1>2. Place(c)' = 2 * Attempts + 1
  BY <1>1 DEF Place
<1>3. Place(c) \in 0 .. 2 * Attempts /\ Attempts \in Nat
  BY PlaceIs, CallbackConstants
<1> QED BY <1>2, <1>3 DEF Forward

LEMMA EffortStep ==
  ASSUME CallbackTypes, NEW c \in Calls, Take(c) \/ RunStep(c)
  PROVE  Forward(c) /\ \A d \in Calls \ {c} : UNCHANGED <<messages[d], run[d], runs[d]>>
<1>0. \A d \in Calls \ {c} : UNCHANGED <<messages[d], run[d], runs[d]>>
  BY DEF Take, TakeAt, RunStep, SendSucceeds, SendFails, Sleep, SenderFails, LimitInSend,
         LimitInSleep, Retry, CallbackTypes, CallbackTypeOK
<1>1. CASE Take(c)
  <2>1. runs'[c] = runs[c] + 1 /\ runs[c] \in Nat
    BY <1>1 DEF Take, TakeAt, CallbackTypes, CallbackTypeOK
  <2> QED BY <1>0, <2>1 DEF Forward
<1>2. CASE SendSucceeds(c) \/ SenderFails(c) \/ LimitInSend(c) \/ LimitInSleep(c)
  <2>1. /\ run[c].doing # "nothing"
        /\ run' = [run EXCEPT ![c] = NoRun] /\ runs' = runs
    BY <1>2 DEF SendSucceeds, SenderFails, LimitInSend, LimitInSleep, Retry
  <2> QED BY <1>0, <2>1, EndIsLast
<1>3. CASE SendFails(c)
  <2>1. PICK s \in SendSeconds :
          run' = [run EXCEPT ![c] =
                    [Later(c, s) EXCEPT
                       !.attempt = @ + 1,
                       !.doing = IF run[c].attempt + 1 < Attempts THEN "sleep" ELSE "failed"]]
    BY <1>3 DEF SendFails
  <2>2. Later(c, s) \in Run /\ Later(c, s).attempt = run[c].attempt
    BY <2>1, LaterIsRun, CallbackConstants DEF CallbackTypes
  <2>3. /\ run'[c].attempt = run[c].attempt + 1
        /\ run'[c].doing = IF run[c].attempt + 1 < Attempts THEN "sleep" ELSE "failed"
    BY <2>1, <2>2 DEF Run, CallbackTypes, CallbackTypeOK
  <2>4. run[c].doing = "send" /\ run[c].attempt < Attempts /\ runs' = runs
    BY <1>3 DEF SendFails, CallbackTypes, AttemptLeft
  <2>5. run[c].attempt \in Nat /\ Attempts \in Nat
    BY CallbackConstants DEF CallbackTypes, CallbackTypeOK, Run
  <2>6. Place(c) = 2 * run[c].attempt + 1
    BY <2>4 DEF Place
  <2>7. Place(c)' = 2 * run[c].attempt + 2
    BY <2>3, <2>4, <2>5 DEF Place
  <2> QED BY <1>0, <2>4, <2>5, <2>6, <2>7 DEF Forward
<1>4. CASE Sleep(c)
  <2>1. run[c].doing = "sleep" /\ run[c].attempt \in 1 .. Attempts - 1 /\ runs' = runs
    BY <1>4 DEF Sleep, CallbackTypes, AttemptLeft
  <2>2. PICK s \in Nat : run' = [run EXCEPT ![c] = [Later(c, s) EXCEPT !.doing = "send"]]
    BY <1>4, <2>1, CallbackConstants DEF Sleep
  <2>3. Later(c, s) \in Run /\ Later(c, s).attempt = run[c].attempt
    BY <2>2, LaterIsRun DEF CallbackTypes
  <2>4. run'[c].attempt = run[c].attempt /\ run'[c].doing = "send"
    BY <2>2, <2>3 DEF Run, CallbackTypes, CallbackTypeOK
  <2> QED BY <1>0, <2>1, <2>4, CallbackConstants DEF Forward, Place
<1> QED BY <1>1, <1>2, <1>3, <1>4 DEF RunStep

\* Every step of a callback after its announcement starts another of its executions, which
\* RunsBounded limits, or takes the one under way to a later of its at most 2 * Attempts + 1 places:
\* no receiver and no limit makes the callback go round in circles.
THEOREM EffortIsSpentHolds == CallbackSpec => EffortIsSpent
<1>1. CallbackTypes /\ [CallbackNext]_callbackVars
        => [\A c \in Calls : \/ UNCHANGED <<messages[c], run[c], runs[c]>>
                             \/ Announce(c)
                             \/ Forward(c)]_callbackVars
  <2> SUFFICES ASSUME CallbackTypes, NEW d \in Calls, Announce(d) \/ Take(d) \/ RunStep(d),
                      NEW c \in Calls
               PROVE  \/ UNCHANGED <<messages[c], run[c], runs[c]>>
                      \/ Announce(c)
                      \/ Forward(c)
    BY DEF CallbackNext
  <2>1. CASE Announce(d)
    BY <2>1 DEF Announce, Enqueue, CallbackTypes, CallbackTypeOK
  <2>2. CASE Take(d) \/ RunStep(d)
    BY <2>2, EffortStep
  <2> QED BY <2>1, <2>2
<1> QED BY <1>1, CallbackTypesCorrect, PTL DEF CallbackSpec, EffortIsSpent
=============================================================================
