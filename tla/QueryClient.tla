---------------------------- MODULE QueryClient ----------------------------
(***************************************************************************)
(* The calls of lib/cr_client.py that submit work to the cloud and wait    *)
(* for it: query, query_saved, execute_code and execute_from_repo, and     *)
(* run_project with poll=True.  One process makes them one after another;  *)
(* the server, which is external, may limit, fail or lose any request, and *)
(* ends a task whenever it likes.                                          *)
(*                                                                         *)
(* Time is counted in poll intervals from the moment the task id arrived.  *)
(***************************************************************************)
EXTENDS Integers, Sequences, FiniteSets

CONSTANTS
    MaxCalls,       \* bound: calls of the process
    CallInputs,     \* what may be asked: [kind, timeout, request]
    RetryAfters,    \* Retry-After of a 429
    LongestWait,    \* cap of a wait between polls of a query
    LongestRunWait, \* cap of a wait after a 429 on a run
    QueryGrace, RunGrace, \* what _poll and the other polls add to the timeout
    SubmitAttempts, ServerErrors, ConnErrors, Downloads, \* limits of retries
    Caps            \* the limits of the key's tier, per knob

Kinds == {"query", "saved", "execution", "run"}
Queries == {"query", "saved"}

ASSUME ClientAssumption ==
    /\ MaxCalls \in Nat
    /\ \A c \in CallInputs : c.kind \in Kinds /\ c.timeout \in Nat
    /\ \A c \in CallInputs : \A k \in DOMAIN c.request : {c.request[k], Caps[k]} \subseteq Nat
    /\ RetryAfters \subseteq Nat \ {0}
    /\ {LongestWait, LongestRunWait, SubmitAttempts, ServerErrors, ConnErrors,
        Downloads} \subseteq Nat \ {0}
    /\ {QueryGrace, RunGrace} \subseteq Nat

VARIABLES
    calls, pc,
    call,        \* the arguments
    attempt,     \* of the loop the call is in
    limits,      \* _limits_cache: "unset", "unknown" or "known"
    resources,   \* the resources object of the request; empty if omitted
    task,        \* task_id; 0 before there is one
    tasks,       \* external: the tasks the server made for this call
    clock, deadline, backoff,
    errors,      \* consecutive_5xx, conn_errors
    outcome,     \* how the last call ended
    polled,      \* history: when the task was last asked for
    bad          \* history: how many of the latest answers were failures

vars == <<calls, pc, call, attempt, limits, resources, task, tasks, clock,
          deadline, backoff, errors, outcome, polled, bad>>
request == <<calls, call, limits, resources>>
poll == <<clock, deadline, backoff, errors, polled, bad>>

Smaller(a, b) == IF a < b THEN a ELSE b
PollInterval == 1
NoResources == [k \in {} |-> 0]
Outcomes == {"none", "result", "failed", "timeout", "gave_up", "error"}

Init ==
    /\ calls = 0 /\ pc = "idle" /\ call \in CallInputs /\ attempt = 0
    /\ limits = "unset" /\ resources = NoResources /\ task = 0 /\ tasks = <<>>
    /\ clock = 0 /\ deadline = 0 /\ backoff = PollInterval /\ errors = 0
    /\ outcome = "none" /\ polled = 0 /\ bad = 0

Begin ==
    /\ pc = "idle" /\ calls < MaxCalls
    /\ calls' = calls + 1
    /\ call' \in CallInputs
    /\ pc' = IF call'.kind = "query" THEN "limits" ELSE "submit"
    /\ attempt' = 0 /\ resources' = NoResources /\ task' = 0 /\ tasks' = <<>>
    /\ clock' = 0 /\ deadline' = 0 /\ polled' = 0 /\ bad' = 0
    /\ backoff' = PollInterval /\ errors' = 0
    /\ outcome' = "none"
    /\ UNCHANGED limits

End(how) == pc' = "idle" /\ outcome' = how

----------------------------------------------------------------------------
(* _submit *)

\* One retry after a 429 or a 5xx; what is found out, or that nothing was, is
\* kept for all later calls.  An answer with the caps of the tier "anonymous"
\* is useless, as one without caps is.
FetchLimits ==
    \E answer \in {"busy", "own", "useless"} :
        /\ pc = "limits" /\ limits = "unset"
        /\ IF answer = "busy" /\ attempt = 0
           THEN attempt' = 1 /\ UNCHANGED limits
           ELSE /\ attempt' = 0
                /\ limits' = IF answer = "own" THEN "known" ELSE "unknown"
        /\ UNCHANGED <<calls, pc, call, resources, task, tasks, poll, outcome>>

\* Mutant: what is asked for is not clamped.
Clamped_Not(k) == call.request[k]
Clamped(k) == Smaller(call.request[k], Caps[k])

PrepareBody ==
    /\ pc = "limits" /\ limits # "unset"
    /\ resources' = IF limits = "unknown" THEN NoResources
                    ELSE [k \in DOMAIN call.request |-> Clamped(k)]
    /\ pc' = "submit"
    /\ UNCHANGED <<calls, call, attempt, limits, task, tasks, poll, outcome>>

Grace == IF call.kind \in Queries THEN QueryGrace ELSE RunGrace

NewTask(told) == Append(tasks, [status |-> "running", told |-> told])

Accepted ==
    /\ pc = "submit"
    /\ tasks' = NewTask(TRUE) /\ task' = Len(tasks')
    /\ deadline' = clock + call.timeout + Grace
    /\ pc' = "poll"
    /\ UNCHANGED <<request, attempt, clock, backoff, errors, outcome, polled, bad>>

\* Only query submits again, after a 429 or a 5xx.  Mutant: every call does.
Resubmits_All(answer) == answer \in {"limited", "server_error"}
Resubmits(answer) == call.kind = "query" /\ answer \in {"limited", "server_error"}

\* A 5xx or a lost connection does not say whether the task was made.
NotAccepted ==
    \E answer \in {"limited", "server_error", "lost", "refused"}, made \in BOOLEAN :
        /\ pc = "submit"
        /\ made => answer \in {"server_error", "lost"}
        /\ tasks' = IF made THEN NewTask(FALSE) ELSE tasks
        /\ IF Resubmits(answer) /\ attempt + 1 < SubmitAttempts
           THEN attempt' = attempt + 1 /\ UNCHANGED <<pc, outcome>>
           ELSE End("error") /\ UNCHANGED attempt
        /\ UNCHANGED <<request, task, poll>>

----------------------------------------------------------------------------
(* _poll, _poll_execution, _poll_project_run *)

Poll == pc = "poll" /\ clock < deadline /\ polled' = clock
Sleep(time) == clock' = clock + time /\ UNCHANGED <<pc, attempt, outcome>>
polling == <<request, task, tasks, deadline>>
Status == tasks[task].status

\* Mutant: the counter of failures is not reset.
GoodAnswer_Keeps == errors
GoodAnswer == 0

Completed ==
    /\ Poll /\ Status = "completed"
    /\ IF call.kind \in Queries
       THEN pc' = "download" /\ attempt' = 0 /\ UNCHANGED outcome
       ELSE End("result") /\ UNCHANGED attempt
    /\ UNCHANGED <<polling, clock, backoff, errors, bad>>

TaskFailed ==
    /\ Poll /\ Status = "failed"
    /\ End("failed")
    /\ UNCHANGED <<polling, attempt, clock, backoff, errors, bad>>

StillRunning ==
    /\ Poll /\ Status = "running"
    /\ Sleep(backoff)
    /\ backoff' = IF call.kind = "run" THEN PollInterval ELSE backoff
    /\ errors' = GoodAnswer /\ bad' = 0
    /\ UNCHANGED polling

\* Mutant: the waits of a query grow without a cap.
Doubled_Uncapped == 2 * backoff
Doubled == Smaller(2 * backoff, LongestWait)
DoubledOfRun == Smaller(2 * backoff, LongestRunWait)

\* 429.  A query waits what the answer says; its counter of 5xx starts again.
PollLimited ==
    /\ Poll
    /\ \/ /\ call.kind \in Queries
          /\ \E wait \in RetryAfters : Sleep(wait)
          /\ backoff' = Doubled /\ errors' = GoodAnswer /\ bad' = 0
       \/ /\ call.kind = "run"
          /\ Sleep(DoubledOfRun)
          /\ backoff' = DoubledOfRun /\ UNCHANGED <<errors, bad>>
    /\ UNCHANGED polling

\* A query stands some 5xx in a row, a run some lost connections.
Tolerated == (call.kind \in Queries /\ errors + 1 < ServerErrors)
             \/ (call.kind = "run" /\ errors + 1 <= ConnErrors)

PollFailed ==
    /\ Poll
    /\ call.kind \in Queries \cup {"run"}
    /\ errors' = errors + 1 /\ bad' = bad + 1
    /\ IF Tolerated
       THEN Sleep(IF call.kind = "run" THEN Smaller(2 * errors', LongestWait)
                  ELSE Doubled)
       ELSE End("gave_up") /\ UNCHANGED <<attempt, clock>>
    /\ UNCHANGED <<polling, backoff>>

\* Any other failure of a poll is not retried: a lost connection of a query, a
\* 5xx of a run, every failure of an execution.
PollRaised ==
    /\ Poll
    /\ End("error")
    /\ UNCHANGED <<polling, attempt, clock, backoff, errors, bad>>

TimedOut ==
    /\ pc = "poll" /\ clock >= deadline
    /\ End("timeout")
    /\ UNCHANGED <<polling, attempt, clock, backoff, errors, bad, polled>>

----------------------------------------------------------------------------
(* _download, _fetch_with_retry *)

downloading == <<request, task, tasks, poll>>

\* A 5xx on the last attempt raises at once, a file still being prepared by
\* leaving the loop.  Mutant: waiting for the file starts the count anew.
NextDownload_Anew(answer) == IF answer = "preparing" THEN 0 ELSE attempt + 1
NextDownload(answer) == attempt + 1

DownloadLater ==
    \E answer \in {"server_error", "preparing"} :
        /\ pc = "download"
        /\ attempt' = NextDownload(answer)
        /\ IF attempt' < Downloads THEN UNCHANGED <<pc, outcome>> ELSE End("error")
        /\ UNCHANGED downloading

Downloaded ==
    /\ pc = "download"
    /\ End("result")
    /\ UNCHANGED <<downloading, attempt>>

\* No artifact, a refusal, or the presigned url does not answer.
DownloadRaised ==
    /\ pc = "download"
    /\ End("error")
    /\ UNCHANGED <<downloading, attempt>>

----------------------------------------------------------------------------
(* The server ends a task. *)

Finish ==
    \E t \in DOMAIN tasks, status \in {"completed", "failed"} :
        /\ tasks[t].status = "running"
        /\ tasks' = [tasks EXCEPT ![t].status = status]
        /\ UNCHANGED <<calls, pc, call, attempt, limits, resources, task, poll,
                       outcome>>

Client ==
    \/ FetchLimits \/ PrepareBody \/ Accepted \/ NotAccepted
    \/ Completed \/ TaskFailed \/ StillRunning \/ PollLimited \/ PollFailed
    \/ PollRaised \/ TimedOut
    \/ DownloadLater \/ Downloaded \/ DownloadRaised

Next == Begin \/ Client \/ Finish

\* The client is sequential code; nothing is assumed of the server.
Spec == Init /\ [][Next]_vars /\ WF_vars(Client)

----------------------------------------------------------------------------

\* A call answers for one task: the server told it that task's id, it made no
\* other task after that one, and those it made before are ones whose submit it
\* answered with a 5xx.  Only query may leave such tasks running beside its own.
\* What the call returns is what became of its task.
AnswersForItsTask ==
    /\ \A t \in DOMAIN tasks : tasks[t].told => t = Len(tasks) /\ t = task
    /\ call.kind # "query" => Len(tasks) <= 1
    /\ outcome = "result" => task # 0 /\ Status = "completed"
    /\ outcome = "failed" => task # 0 /\ Status = "failed"

\* A call does not sleep through its deadline: one that timed out had asked for
\* its task no longer before than one wait, whatever answers had come between.
AsksUntilTheEnd ==
    outcome = "timeout" =>
        \E wait \in RetryAfters \cup {LongestWait, LongestRunWait} :
            polled + wait >= deadline

\* "5 consecutive server errors": a poll gives up on failures in a row only,
\* whatever came before an answer that was good.
GivesUpInARow ==
    outcome = "gave_up" =>
        bad >= IF call.kind = "run" THEN ConnErrors + 1 ELSE ServerErrors

\* A query never asks for more than its tier allows, which the server would
\* refuse, nor for less than it was called with if the tier allows that.
AsksWithinItsTier ==
    \A k \in DOMAIN resources :
        resources[k] = IF call.request[k] > Caps[k] THEN Caps[k] ELSE call.request[k]

\* Whatever the server does, every call comes back.
CallsEnd == pc # "idle" ~> pc = "idle"
=============================================================================
