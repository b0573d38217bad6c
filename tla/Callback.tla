------------------------------ MODULE Callback ------------------------------
(***************************************************************************)
(* The outbound callback: webhook_callback_task of tasks/analysis.py and   *)
(* the sender it uses, integrations/webhook_sender.py.  The sender retries *)
(* within one execution of the task, the task retries by sending itself    *)
(* new messages, and the task's soft time limit cuts in on the sender.     *)
(* The executions of one callback share nothing but its receiver, so one   *)
(* at a time is enough.  Times are seconds, countdowns are left out.       *)
(***************************************************************************)
EXTENDS Integers, FiniteSets

CONSTANTS
    Calls,          \* tasks with a callback_url
    MaxRetries,     \* max_retries of the task: 5
    Attempts,       \* WEBHOOK_MAX_RETRIES: 5
    Backoff,        \* WEBHOOK_RETRY_BACKOFF
    SendSeconds,    \* what a POST may take, its timeout included
    SoftLimit       \* soft_time_limit: 30

ASSUME CallbackConstants ==
    /\ MaxRetries \in Nat
    /\ Attempts \in Nat \ {0}
    /\ Backoff \in [1 .. Attempts - 1 -> Nat]
    /\ SendSeconds \subseteq Nat
    /\ SoftLimit \in Nat \ {0}

VARIABLES
    messages,       \* messages in the queue, by their number of retries
    run,            \* the execution under way
    runs,           \* executions so far
    got             \* the receiver has processed a POST

callbackVars == <<messages, run, runs, got>>

Levels == 0 .. MaxRetries

\* level: self.request.retries; attempt: POSTs made; limited: the soft limit has struck, after which
\* the seconds no longer matter.
Run == [level : Levels, attempt : 0 .. Attempts, elapsed : Nat, limited : BOOLEAN,
        doing : {"nothing", "send", "sleep", "failed"}]

NoRun == [level |-> 0, attempt |-> 0, elapsed |-> 0, limited |-> FALSE, doing |-> "nothing"]

FirstAttempt(n) ==
    [level |-> n, attempt |-> 0, elapsed |-> 0, limited |-> FALSE, doing |-> "send"]

CallbackTypeOK ==
    /\ messages \in [Calls -> [Levels -> Nat]]
    /\ run \in [Calls -> Run]
    /\ runs \in [Calls -> Nat]
    /\ got \in [Calls -> BOOLEAN]

CallbackInit ==
    /\ messages = [c \in Calls |-> [n \in Levels |-> 0]]
    /\ run = [c \in Calls |-> NoRun]
    /\ runs = [c \in Calls |-> 0]
    /\ got = [c \in Calls |-> FALSE]

Settled(c) == run[c].doing = "nothing" /\ \A n \in Levels : messages[c][n] = 0

\* The chain reaches webhook_callback_task.
Enqueue(c) ==
    /\ messages' = [messages EXCEPT ![c][0] = 1]
    /\ UNCHANGED <<run, runs, got>>

TakeAt(c, n) ==
    /\ run[c].doing = "nothing"
    /\ messages[c][n] > 0
    /\ messages' = [messages EXCEPT ![c][n] = @ - 1]
    /\ run' = [run EXCEPT ![c] = FirstAttempt(n)]
    /\ runs' = [runs EXCEPT ![c] = @ + 1]
    /\ UNCHANGED got

\* Leaving the last retry in the queue.
TakeAllButLast(c) == \E n \in Levels \ {MaxRetries} : TakeAt(c, n)

\* A worker takes a message.
Take(c) == \E n \in Levels : TakeAt(c, n)

Strikes(c, s) == ~run[c].limited /\ run[c].elapsed + s >= SoftLimit

\* The execution s seconds later.
Later(c, s) ==
    [run[c] EXCEPT !.elapsed = IF run[c].limited THEN @ ELSE @ + s,
                   !.limited = @ \/ Strikes(c, s)]

\* Retrying without counting.
RetrySameLevel(c, copies) ==
    /\ run' = [run EXCEPT ![c] = NoRun]
    /\ messages' = [messages EXCEPT ![c][run[c].level] = @ + copies]
    /\ UNCHANGED runs

\* self.retry while self.request.retries < self.max_retries, else the end of the task.
Retry(c, copies) ==
    /\ run' = [run EXCEPT ![c] = NoRun]
    /\ messages' = IF run[c].level < MaxRetries
                   THEN [messages EXCEPT ![c][run[c].level + 1] = @ + copies]
                   ELSE messages
    /\ UNCHANGED runs

-----------------------------------------------------------------------------
(* _send_with_retry.                                                       *)

\* A 2xx in time ends the task.
SendSucceeds(c) ==
    /\ run[c].doing = "send"
    /\ \E s \in SendSeconds : ~Strikes(c, s)
    /\ run' = [run EXCEPT ![c] = NoRun]
    /\ got' = [got EXCEPT ![c] = TRUE]
    /\ UNCHANGED <<messages, runs>>

\* The receiver may have processed a POST that did not succeed.
Unanswered(c) == got' \in {got, [got EXCEPT ![c] = TRUE]}

\* Another answer, none in time, or the soft limit, which `except Exception' takes for a failed
\* POST if it strikes in the sender's own code.
SendFails(c) ==
    /\ run[c].doing = "send"
    /\ \E s \in SendSeconds :
        run' = [run EXCEPT ![c] =
                  [Later(c, s) EXCEPT
                     !.attempt = @ + 1,
                     !.doing = IF run[c].attempt + 1 < Attempts THEN "sleep" ELSE "failed"]]
    /\ Unanswered(c)
    /\ UNCHANGED <<messages, runs>>

\* While the event loop waits for the answer the limit goes past the sender to the task.
LimitInSend(c) ==
    /\ run[c].doing = "send"
    /\ \E s \in SendSeconds : Strikes(c, s)
    /\ Retry(c, 1)
    /\ Unanswered(c)

\* A sleep no limit cuts.
SleepUnlimited(c) ==
    /\ run[c].doing = "sleep"
    /\ run' = [run EXCEPT ![c].doing = "send"]
    /\ UNCHANGED <<messages, runs, got>>

\* time.sleep.
Sleep(c) ==
    /\ run[c].doing = "sleep"
    /\ ~Strikes(c, Backoff[run[c].attempt])
    /\ run' = [run EXCEPT ![c] = [Later(c, Backoff[run[c].attempt]) EXCEPT !.doing = "send"]]
    /\ UNCHANGED <<messages, runs, got>>

\* The soft limit in a sleep ends in the except branch of the task.
LimitInSleep(c) ==
    /\ run[c].doing = "sleep"
    /\ Strikes(c, Backoff[run[c].attempt])
    /\ Retry(c, 1)
    /\ UNCHANGED got

\* Giving up at the first failure the sender reports.
SenderFailsForGood(c) ==
    /\ run[c].doing = "failed"
    /\ run' = [run EXCEPT ![c] = NoRun]
    /\ UNCHANGED <<messages, runs, got>>

\* ok = False: self.retry raises Retry inside the try, whose `except Exception' retries again.
SenderFails(c) ==
    /\ run[c].doing = "failed"
    /\ Retry(c, 2)
    /\ UNCHANGED got

RunStep(c) ==
    \/ SendSucceeds(c) \/ SendFails(c) \/ Sleep(c) \/ SenderFails(c)
    \/ LimitInSend(c) \/ LimitInSleep(c)

\* The message of a callback that was never sent: the chain reaches the task once.
Announce(c) == runs[c] = 0 /\ Settled(c) /\ Enqueue(c)

CallbackNext == \E c \in Calls : Announce(c) \/ Take(c) \/ RunStep(c)

\* A worker that is up takes the next message and goes on with what it took.
CallbackFairness == \A c \in Calls : WF_callbackVars(Take(c) \/ RunStep(c))

CallbackSpec == CallbackInit /\ [][CallbackNext]_callbackVars /\ CallbackFairness

-----------------------------------------------------------------------------
\* The two retries of one failure do not multiply for ever: a callback is executed at most once per
\* node of a binary tree of MaxRetries + 1 levels, 63 times with the code's numbers.
RunsBounded ==
    \A c \in Calls : runs[c] < 2 ^ (MaxRetries + 1)

\* A callback is not given up early: one that settles without the receiver having processed it was
\* executed at every level of retries.
GivesUpLate ==
    \A c \in Calls : runs[c] > 0 /\ Settled(c) /\ ~got[c] => runs[c] > MaxRetries

\* The sender's last attempt comes only after the soft limit of its task was swallowed as a failed
\* POST; in every other execution the limit cuts the sleep before it ("max 5 attempts").
LastAttemptIsLate ==
    \A c \in Calls : run[c].attempt = Attempts => run[c].limited

\* Whatever the receiver does, the retries end.
CallbackSettles ==
    \A c \in Calls : messages[c][0] > 0 ~> Settled(c)
=============================================================================
