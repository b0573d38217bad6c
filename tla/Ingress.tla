------------------------------ MODULE Ingress ------------------------------
(***************************************************************************)
(* How analyses get in and how clients see them: the GitHub webhook        *)
(* (webhook/receiver.py, webhook/handlers/github.py), POST /analyze and    *)
(* GET /tasks/{id} (api/routers/analyze.py).  Of the workers only what     *)
(* they leave in the keys of a task is kept.                               *)
(*                                                                         *)
(* The receiver answers 200 and leaves each event to a coroutine of its    *)
(* own, a handler; two handlers interleave at every access to Redis.  A    *)
(* handler draws a fresh task id, so it stands for its task, too.  A key   *)
(* is kept with the hours it has left to live; none left is no key.        *)
(***************************************************************************)
EXTENDS Naturals

CONSTANTS
    Handlers,       \* deliveries of the webhook
    Requests,       \* POST /analyze
    Commits,        \* what _idempotency_key tells apart: (repo, PR, head sha)
    NoCommit, NoTask,
    DedupTtl,       \* hours the dedup key lives: 72
    ResultTtl,      \* hours the result lives: 24
    StatusTtl,      \* hours a status lives: 1
    RedisFails,     \* a command may fail
    BrokerFails     \* apply_async may raise

ASSUME IngressConstants ==
    /\ {DedupTtl, ResultTtl, StatusTtl} \subseteq Nat \ {0}
    /\ {RedisFails, BrokerFails} \subseteq BOOLEAN
    /\ NoCommit \notin Commits
    /\ Handlers \intersect Requests = {}
    /\ NoTask \notin Handlers \union Requests

Tasks == Handlers \union Requests

VARIABLES
    at,             \* where each handler is
    commit,         \* the commit its event is about
    dedup,          \* codeguard:task:dedup:{key}: [task, left]
    work,           \* what the workers have done of each task
    status,         \* codeguard:task:{id}:status: [value, left]
    result,         \* codeguard:task:{id}:result: hours left
    asked,          \* the task a client was given no result of and asks the status of
    unread,         \* because the result could not be read, not for want of one
    answer,         \* what GET /tasks/{id} last said, this hour: [task, says]
    claim           \* history: hours since the handler wrote the dedup key, DedupTtl downwards

taskKeys == <<status, result>>
poll == <<asked, unread, answer>>
ingressVars == <<at, commit, dedup, work, taskKeys, poll, claim>>

HandlerStep == {"idle", "get", "dispatch", "dedup", "pending", "done", "cached", "dead"}
Work == {"none", "refused", "queued", "running", "published", "completed", "failed"}
StatusValue == {"none", "pending", "running", "completed"}

\* What a client may be told.  "error": the aggregated report that get_task_state returns has neither
\* the task_id nor the status TaskStatusResponse requires.
Answer == {"error", "pending", "running", "completed"}

IngressTypeOK ==
    /\ at \in [Handlers -> HandlerStep]
    /\ commit \in [Handlers -> Commits \union {NoCommit}]
    /\ dedup \in [Commits -> [task : Handlers \union {NoTask}, left : 0 .. DedupTtl]]
    /\ work \in [Tasks -> Work]
    /\ status \in [Tasks -> [value : StatusValue, left : 0 .. StatusTtl]]
    /\ result \in [Tasks -> 0 .. ResultTtl]
    /\ asked \in Tasks \union {NoTask}
    /\ unread \in BOOLEAN
    /\ answer \in [task : Tasks \union {NoTask}, says : Answer]
    /\ claim \in [Handlers -> 0 .. DedupTtl]

NoStatus == [value |-> "none", left |-> 0]

NoDedup == [task |-> NoTask, left |-> 0]

NoAnswer == [task |-> NoTask, says |-> "pending"]

IngressInit ==
    /\ at = [h \in Handlers |-> "idle"]
    /\ commit = [h \in Handlers |-> NoCommit]
    /\ dedup = [k \in Commits |-> NoDedup]
    /\ work = [t \in Tasks |-> "none"]
    /\ status = [t \in Tasks |-> NoStatus]
    /\ result = [t \in Tasks |-> 0]
    /\ asked = NoTask
    /\ unread = FALSE
    /\ answer = NoAnswer
    /\ claim = [h \in Handlers |-> 0]

Goto(h, step) == at' = [at EXCEPT ![h] = step]

\* setex of a status.
SetStatus(t, s) == status' = [status EXCEPT ![t] = [value |-> s, left |-> StatusTtl]]

\* _sync_set_status: a worker swallows the failures of Redis.
TrySetStatus(t, s) ==
    \/ SetStatus(t, s)
    \/ RedisFails /\ UNCHANGED status

-----------------------------------------------------------------------------
(* _trigger_scan.  Events it has nothing to do for (drafts, other actions, *)
(* other branches, unsafe URLs) end before the first access.               *)

Deliver(h, k) ==
    /\ at[h] = "idle"
    /\ commit' = [commit EXCEPT ![h] = k]
    /\ Goto(h, "get")
    /\ UNCHANGED <<dedup, work, taskKeys, poll, claim>>

Named(h) == dedup[commit[h]].left > 0

\* redis.get(dedup): the task it names is the answer.
FindDuplicate(h) ==
    /\ at[h] = "get"
    /\ Named(h)
    /\ Goto(h, "cached")
    /\ UNCHANGED <<commit, dedup, work, taskKeys, poll, claim>>

FindNothing(h) ==
    /\ at[h] = "get"
    /\ ~Named(h)
    /\ Goto(h, "dispatch")
    /\ UNCHANGED <<commit, dedup, work, taskKeys, poll, claim>>

\* Going on to the keys whatever came of the dispatch.
DispatchClaiming(h) ==
    /\ at[h] = "dispatch"
    /\ \/ work' = [work EXCEPT ![h] = "queued"]
       \/ BrokerFails /\ work' = [work EXCEPT ![h] = "refused"]
    /\ Goto(h, "dedup")
    /\ UNCHANGED <<commit, dedup, taskKeys, poll, claim>>

\* apply_async; the keys are written only if it did not raise.
Dispatch(h) ==
    /\ at[h] = "dispatch"
    /\ \/ work' = [work EXCEPT ![h] = "queued"] /\ Goto(h, "dedup")
       \/ BrokerFails /\ work' = [work EXCEPT ![h] = "refused"] /\ Goto(h, "done")
    /\ UNCHANGED <<commit, dedup, taskKeys, poll, claim>>

\* With the lifetime of the result.
WriteDedupShort(h) ==
    /\ at[h] = "dedup"
    /\ dedup' = [dedup EXCEPT ![commit[h]] = [task |-> h, left |-> ResultTtl]]
    /\ claim' = [claim EXCEPT ![h] = DedupTtl]
    /\ Goto(h, "pending")
    /\ UNCHANGED <<commit, work, taskKeys, poll>>

\* setex(dedup, 259200, task_id).
WriteDedup(h) ==
    /\ at[h] = "dedup"
    /\ dedup' = [dedup EXCEPT ![commit[h]] = [task |-> h, left |-> DedupTtl]]
    /\ claim' = [claim EXCEPT ![h] = DedupTtl]
    /\ Goto(h, "pending")
    /\ UNCHANGED <<commit, work, taskKeys, poll>>

\* setex(status, 3600, "pending"), whatever the worker has written by now.
WritePending(h) ==
    /\ at[h] = "pending"
    /\ SetStatus(h, "pending")
    /\ Goto(h, "done")
    /\ UNCHANGED <<commit, dedup, work, result, poll, claim>>

\* No access to Redis is in a try: the coroutine ends with the exception.
HandlerDies(h) ==
    /\ RedisFails
    /\ at[h] \in {"get", "dedup", "pending"}
    /\ Goto(h, "dead")
    /\ UNCHANGED <<commit, dedup, work, taskKeys, poll, claim>>

-----------------------------------------------------------------------------
(* POST /analyze.                                                          *)

\* A refusal for want of Celery leaves "pending" under an id nobody is told.
SubmitAnalysis(q) ==
    /\ work[q] = "none"
    /\ \/ work' = [work EXCEPT ![q] = "queued"] /\ UNCHANGED status
       \/ /\ BrokerFails
          /\ work' = [work EXCEPT ![q] = "refused"]
          /\ SetStatus(q, "pending") \/ UNCHANGED status
    /\ UNCHANGED <<at, commit, dedup, result, poll, claim>>

-----------------------------------------------------------------------------
(* tasks/analysis.py, as far as these keys go.                             *)

WorkerStarts(t) ==
    /\ work[t] = "queued"
    /\ work' = [work EXCEPT ![t] = "running"]
    /\ TrySetStatus(t, "running")
    /\ UNCHANGED <<at, commit, dedup, result, poll, claim>>

\* The stages refresh the status; their names are cut to the common prefix "running".
WorkerGoesOn(t) ==
    /\ work[t] = "running"
    /\ SetStatus(t, "running")
    /\ UNCHANGED <<at, commit, dedup, work, result, poll, claim>>

\* report_aggregation_task caches the result ...
WorkerPublishes(t) ==
    /\ work[t] = "running"
    /\ work' = [work EXCEPT ![t] = "published"]
    /\ \/ result' = [result EXCEPT ![t] = ResultTtl]
       \/ RedisFails /\ UNCHANGED result
    /\ UNCHANGED <<at, commit, dedup, status, poll, claim>>

\* ... and then says so.
WorkerCompletes(t) ==
    /\ work[t] = "published"
    /\ work' = [work EXCEPT ![t] = "completed"]
    /\ TrySetStatus(t, "completed")
    /\ UNCHANGED <<at, commit, dedup, result, poll, claim>>

\* A failure that resets the task for a retry.
WorkerFailsPending(t) ==
    /\ work[t] = "running"
    /\ work' = [work EXCEPT ![t] = "failed"]
    /\ TrySetStatus(t, "pending")
    /\ UNCHANGED <<at, commit, dedup, result, poll, claim>>

\* A stage raises or is lost: nothing is written.
WorkerFails(t) ==
    /\ work[t] = "running"
    /\ work' = [work EXCEPT ![t] = "failed"]
    /\ UNCHANGED <<at, commit, dedup, taskKeys, poll, claim>>

-----------------------------------------------------------------------------
(* GET /tasks/{id}: get_task_state reads the result, get_task the status.  *)
(* Only who submitted an analysis was told its id.                         *)

PollResult(t) ==
    /\ asked = NoTask
    /\ work[t] \notin {"none", "refused"}
    /\ unread' = FALSE
    /\ IF result[t] > 0
       THEN answer' = [task |-> t, says |-> "error"] /\ UNCHANGED asked
       ELSE asked' = t /\ UNCHANGED answer
    /\ UNCHANGED <<at, commit, dedup, work, taskKeys, claim>>

\* get_task_state makes a failing read a 404, too.
PollResultFails(t) ==
    /\ RedisFails
    /\ asked = NoTask
    /\ work[t] \notin {"none", "refused"}
    /\ asked' = t
    /\ unread' = TRUE
    /\ UNCHANGED <<at, commit, dedup, work, taskKeys, answer, claim>>

PollStatus ==
    /\ asked # NoTask
    /\ answer' = [task |-> asked, says |-> IF status[asked].left > 0
                                           THEN status[asked].value ELSE "pending"]
    /\ asked' = NoTask
    /\ UNCHANGED <<at, commit, dedup, work, taskKeys, unread, claim>>

\* get_task has no except for its own reads: 500, which says nothing of the task.
PollStatusFails ==
    /\ RedisFails
    /\ asked # NoTask
    /\ asked' = NoTask
    /\ UNCHANGED <<at, commit, dedup, work, taskKeys, unread, answer, claim>>

\* Requests and stages take seconds or minutes.
Quiet ==
    /\ asked = NoTask
    /\ \A h \in Handlers : at[h] \in {"idle", "done", "cached", "dead"}
    /\ \A t \in Tasks : work[t] \notin {"running", "published"}

\* Without its bound.
OneLessUnbounded(left) == left - 1

OneLess(left) == IF left > 0 THEN left - 1 ELSE 0

\* Redis removes what has no time left; what a client was told an hour ago is of no use to it.
Hour ==
    /\ Quiet
    /\ dedup' = [k \in Commits |-> IF dedup[k].left > 1
                                   THEN [dedup[k] EXCEPT !.left = @ - 1] ELSE NoDedup]
    /\ status' = [t \in Tasks |-> IF status[t].left > 1
                                  THEN [status[t] EXCEPT !.left = @ - 1] ELSE NoStatus]
    /\ result' = [t \in Tasks |-> OneLess(result[t])]
    /\ claim' = [h \in Handlers |-> OneLess(claim[h])]
    /\ answer' = NoAnswer
    /\ UNCHANGED <<at, commit, work, asked, unread>>

HandlerNext(h) ==
    \/ \E k \in Commits : Deliver(h, k)
    \/ FindDuplicate(h) \/ FindNothing(h)
    \/ Dispatch(h) \/ WriteDedup(h) \/ WritePending(h) \/ HandlerDies(h)

WorkerNext(t) ==
    WorkerStarts(t) \/ WorkerGoesOn(t) \/ WorkerPublishes(t) \/ WorkerCompletes(t) \/ WorkerFails(t)

IngressNext ==
    \/ \E h \in Handlers : HandlerNext(h)
    \/ \E q \in Requests : SubmitAnalysis(q) \/ PollResult(q) \/ PollResultFails(q)
    \/ \E t \in Tasks : WorkerNext(t)
    \/ PollStatus \/ PollStatusFails
    \/ Hour

IngressSpec == IngressInit /\ [][IngressNext]_ingressVars

-----------------------------------------------------------------------------
\* Idempotency as far as it goes: a handler does not get past the check within DedupTtl hours after
\* some handler of the same commit left the key (_trigger_scan, "same (repo, pr_number, head_sha)
\* won't create a new task"); only handlers that overlap, or one that died before it wrote, start two
\* analyses of one commit.
OneAnalysisPerCommit ==
    [][\A g, h \in Handlers :
        at[h] = "get" /\ at'[h] = "dispatch" /\ commit[g] = commit[h] => claim[g] = 0]_ingressVars

\* A commit whose dispatch failed can be delivered again: a dedup key always names an analysis of
\* that very commit that was dispatched ("Writing them on failure would block re-delivery").
DedupNamesDispatched ==
    \A k \in Commits : dedup[k].left > 0 =>
        /\ commit[dedup[k].task] = k
        /\ work[dedup[k].task] \notin {"none", "refused"}

Rank(says) == CASE says = "pending" -> 0 [] says = "running" -> 1 [] OTHER -> 2

\* Who polls an analysis sees it move forward: within the lifetime of its keys no answer goes back,
\* however the two reads fall between the writes of the worker and whichever writes are lost, unless
\* the result could not be read.  A task of the webhook is not like that: its handler writes
\* "pending" after the dispatch.
AnswersForward ==
    [][answer.task # NoTask /\ answer'.task = answer.task /\ ~unread'
         => Rank(answer.says) <= Rank(answer'.says)]_ingressVars
=============================================================================
