------------------------- MODULE QueryClient_proofs -------------------------
(***************************************************************************)
(* Proofs about QueryClient, for all limits of the retries, waits,         *)
(* deadlines and calls: a call answers for its own task, waits until its   *)
(* deadline, gives up on failures in a row only, and asks within its tier. *)
(***************************************************************************)
EXTENDS QueryClient, TLAPS

Tasks == [status : {"running", "completed", "failed"}, told : BOOLEAN]
Waits == RetryAfters \cup {LongestWait, LongestRunWait}

TypeOK ==
    /\ calls \in Nat
    /\ pc \in {"idle", "limits", "submit", "poll", "download"}
    /\ call \in CallInputs
    /\ attempt \in Nat
    /\ limits \in {"unset", "unknown", "known"}
    /\ task \in Nat
    /\ tasks \in Seq(Tasks)
    /\ clock \in Nat /\ deadline \in Nat /\ backoff \in Nat /\ errors \in Nat
    /\ outcome \in Outcomes
    /\ polled \in Nat /\ bad \in Nat

\* Until the id of a task arrives no task was told; from then on the task is
\* the last one that was made, and only query makes more than one.
OneTaskTold ==
    /\ pc \in {"limits", "submit"} => task = 0
    /\ pc \in {"poll", "download"} => task # 0
    /\ task # 0 => task = Len(tasks)
    /\ \A t \in DOMAIN tasks : tasks[t].told => t = task
    /\ pc = "limits" => tasks = <<>>
    /\ pc = "submit" /\ call.kind # "query" => tasks = <<>>
    /\ call.kind # "query" => Len(tasks) <= 1

\* A call has no outcome until it ends.  A result was downloaded from, and a
\* failure is that of, a task that had ended so.
EndedAsTold ==
    /\ pc # "idle" => outcome = "none"
    /\ pc = "download" => Status = "completed"
    /\ outcome = "result" => task # 0 /\ Status = "completed"
    /\ outcome = "failed" => task # 0 /\ Status = "failed"

\* The counter of failures is the number of failures in a row.
CountsInARow ==
    /\ errors = bad
    /\ GivesUpInARow

\* No wait between two polls is longer than the longest of them.
OneWaitAgo ==
    /\ \E w \in Waits : backoff <= w
    /\ \E w \in Waits : clock <= polled + w
    /\ AsksUntilTheEnd

IInv == TypeOK /\ OneTaskTold /\ EndedAsTold /\ CountsInARow /\ OneWaitAgo
          /\ AsksWithinItsTier

-----------------------------------------------------------------------------
(* The initial states *)

\* A client that has made no call satisfies the invariant.
LEMMA InitInductive == Init => IInv
<1> SUFFICES ASSUME Init PROVE IInv
  OBVIOUS
<1>1. TypeOK /\ OneTaskTold /\ EndedAsTold /\ CountsInARow
  BY DEF Init, TypeOK, OneTaskTold, EndedAsTold, CountsInARow, GivesUpInARow,
         Outcomes, NoResources, PollInterval
<1>2. OneWaitAgo
  <2>1. backoff <= LongestWait /\ clock <= polled + LongestWait
    BY ClientAssumption DEF Init, PollInterval
  <2> QED BY <2>1 DEF Init, OneWaitAgo, Waits, AsksUntilTheEnd
<1>3. AsksWithinItsTier
  BY DEF Init, AsksWithinItsTier, NoResources
<1> QED BY <1>1, <1>2, <1>3 DEF IInv

-----------------------------------------------------------------------------
(* The tasks of the server *)

\* A task that ends is the same task, and the others stay as they are.
LEMMA OneTaskEnds ==
    ASSUME TypeOK, NEW t \in DOMAIN tasks, NEW status \in {"completed", "failed"},
           tasks' = [tasks EXCEPT ![t].status = status]
    PROVE  /\ tasks' \in Seq(Tasks)
           /\ Len(tasks') = Len(tasks) /\ DOMAIN tasks' = DOMAIN tasks
           /\ \A u \in DOMAIN tasks : tasks'[u].told = tasks[u].told
           /\ \A u \in DOMAIN tasks \ {t} : tasks'[u] = tasks[u]
<1> DEFINE ended == [status |-> status, told |-> tasks[t].told]
<1>1. tasks \in Seq(Tasks) /\ tasks[t] \in Tasks
  <2>1. tasks \in Seq(Tasks)
    BY DEF TypeOK
  <2> QED BY <2>1
<1>2. [tasks[t] EXCEPT !.status = status] = ended /\ ended \in Tasks
  BY <1>1 DEF Tasks
<1>3. tasks' = [tasks EXCEPT ![t] = ended]
  BY <1>2
<1>4. ended.told = tasks[t].told
  OBVIOUS
<1> QED
  <2>1. DOMAIN tasks' = DOMAIN tasks /\ Len(tasks') = Len(tasks)
    BY <1>1, <1>3
  <2>2. tasks' \in Seq(Tasks)
    BY <1>1, <1>2, <1>3
  <2>3. /\ tasks'[t] = ended
        /\ \A u \in DOMAIN tasks \ {t} : tasks'[u] = tasks[u]
    BY <1>1, <1>3
  <2> QED BY <1>4, <2>1, <2>2, <2>3

\* A new task is the last one.
LEMMA NewTaskIsLast ==
    ASSUME TypeOK, NEW told \in BOOLEAN
    PROVE  /\ NewTask(told) \in Seq(Tasks)
           /\ Len(NewTask(told)) = Len(tasks) + 1
           /\ DOMAIN NewTask(told) = 1..(Len(tasks) + 1)
           /\ NewTask(told)[Len(tasks) + 1].told = told
           /\ \A u \in DOMAIN tasks : NewTask(told)[u] = tasks[u]
<1>1. tasks \in Seq(Tasks)
  BY DEF TypeOK
<1>2. [status |-> "running", told |-> told] \in Tasks
  BY DEF Tasks
<1> QED BY <1>1, <1>2 DEF NewTask

(* The waits *)

\* Smaller is the cap or less.
LEMMA SmallerIsCapped ==
    ASSUME NEW a \in Nat, NEW b \in Nat
    PROVE  Smaller(a, b) \in Nat /\ Smaller(a, b) <= b
  BY DEF Smaller

\* The wait doubles up to its cap.
LEMMA DoubledIsCapped ==
    ASSUME TypeOK
    PROVE  /\ Doubled \in Nat /\ Doubled <= LongestWait
           /\ DoubledOfRun \in Nat /\ DoubledOfRun <= LongestRunWait
<1>1. 2 * backoff \in Nat /\ LongestWait \in Nat /\ LongestRunWait \in Nat
  BY ClientAssumption DEF TypeOK
<1> QED BY <1>1, SmallerIsCapped DEF Doubled, DoubledOfRun

\* A failed poll sleeps for the doubled wait of a query, or for twice as long
\* as there were failures, up to the cap.
LEMMA FailureWaits ==
    ASSUME TypeOK, PollFailed, Tolerated
    PROVE  clock' \in Nat /\ clock' <= clock + LongestWait
<1>1. errors' \in Nat
  BY DEF TypeOK, PollFailed
<1>2. \/ clock' = clock + Smaller(2 * errors', LongestWait)
      \/ clock' = clock + Doubled
  BY DEF PollFailed, Sleep
<1>3. /\ Smaller(2 * errors', LongestWait) \in Nat
      /\ Smaller(2 * errors', LongestWait) <= LongestWait
  <2>1. LongestWait \in Nat
    BY ClientAssumption
  <2>2. \A n \in Nat : 2 * n \in Nat
    OBVIOUS
  <2>3. 2 * errors' \in Nat
    BY <1>1, <2>2
  <2> QED BY <2>1, <2>3, SmallerIsCapped
<1>4. clock \in Nat /\ LongestWait \in Nat
  BY ClientAssumption DEF TypeOK
<1> QED BY <1>2, <1>3, <1>4, DoubledIsCapped

-----------------------------------------------------------------------------
(* Every step keeps the invariant: a lemma per conjunct, a case per action *)

\* Every variable stays in its type.
LEMMA StepTypes ==
    ASSUME TypeOK, [Next]_vars
    PROVE  TypeOK'
<1> USE DEF TypeOK, Outcomes, PollInterval, Smaller
<1>1. CASE Begin
  BY <1>1 DEF Begin
<1>2. CASE FetchLimits
  BY <1>2 DEF FetchLimits, request, poll
<1>3. CASE PrepareBody
  BY <1>3 DEF PrepareBody, request, poll
<1>4. CASE Accepted
  <2>1. tasks' \in Seq(Tasks) /\ task' \in Nat
    <3> HIDE DEF TypeOK
    <3>1. tasks' \in Seq(Tasks)
      BY <1>4, NewTaskIsLast DEF Accepted
    <3>2. task' = Len(tasks')
      BY <1>4 DEF Accepted
    <3> QED BY <3>1, <3>2
  <2>2. deadline' \in Nat
    <3>1. call.timeout \in Nat /\ Grace \in Nat
      BY ClientAssumption DEF Grace
    <3> QED BY <1>4, <3>1 DEF Accepted
  <2> QED BY <1>4, <2>1, <2>2 DEF Accepted, request
<1>5. CASE NotAccepted
  <2>1. tasks' \in Seq(Tasks)
    BY <1>5, NewTaskIsLast DEF NotAccepted
  <2>2. attempt' \in Nat /\ pc' \in {"idle", "submit"}
    BY <1>5 DEF NotAccepted, End
  <2>3. outcome' \in Outcomes
    BY <1>5 DEF NotAccepted, End
  <2> QED BY <1>5, <2>1, <2>2, <2>3 DEF NotAccepted, request, poll
<1>6. CASE Completed
  BY <1>6 DEF Completed, Poll, polling, request, End
<1>7. CASE TaskFailed
  BY <1>7 DEF TaskFailed, Poll, polling, request, End
<1>8. CASE StillRunning
  BY <1>8 DEF StillRunning, Poll, Sleep, polling, request, GoodAnswer
<1>9. CASE PollLimited
  <2>1. clock' \in Nat
    <3>1. CASE \E wait \in RetryAfters : Sleep(wait)
      BY <3>1, ClientAssumption DEF Sleep
    <3>2. CASE Sleep(DoubledOfRun)
      BY <3>2, DoubledIsCapped DEF Sleep
    <3> QED BY <1>9, <3>1, <3>2 DEF PollLimited
  <2>2. backoff' \in Nat /\ errors' \in Nat /\ bad' \in Nat
    <3>1. backoff' \in {Doubled, DoubledOfRun}
      BY <1>9 DEF PollLimited
    <3>2. errors' \in {errors, GoodAnswer} /\ bad' \in {bad, 0}
      BY <1>9 DEF PollLimited
    <3> QED BY <3>1, <3>2, DoubledIsCapped DEF GoodAnswer
  <2>3. polled' \in Nat /\ UNCHANGED <<pc, attempt, outcome>>
    BY <1>9 DEF PollLimited, Poll, Sleep
  <2> QED BY <1>9, <2>1, <2>2, <2>3 DEF PollLimited, polling, request
<1>10. CASE PollFailed
  <2>1. errors' = errors + 1 /\ bad' = bad + 1 /\ polled' = clock
    BY <1>10 DEF PollFailed, Poll
  <2>2. /\ clock' \in Nat /\ attempt' \in Nat /\ outcome' \in Outcomes
        /\ pc' \in {"poll", "idle"}
    <3>1. CASE Tolerated
      BY <1>10, <3>1, FailureWaits DEF PollFailed, Poll, Sleep
    <3>2. CASE ~Tolerated
      BY <1>10, <3>2 DEF PollFailed, End
    <3> QED BY <3>1, <3>2
  <2> QED BY <1>10, <2>1, <2>2 DEF PollFailed, polling, request
<1>11. CASE PollRaised
  BY <1>11 DEF PollRaised, Poll, polling, request, End
<1>12. CASE TimedOut
  BY <1>12 DEF TimedOut, polling, request, End
<1>13. CASE DownloadLater
  BY <1>13 DEF DownloadLater, downloading, request, poll, End, NextDownload
<1>14. CASE Downloaded
  BY <1>14 DEF Downloaded, downloading, request, poll, End
<1>15. CASE DownloadRaised
  BY <1>15 DEF DownloadRaised, downloading, request, poll, End
<1>16. CASE Finish
  <2>1. PICK t \in DOMAIN tasks, status \in {"completed", "failed"} :
             tasks' = [tasks EXCEPT ![t].status = status]
    BY <1>16 DEF Finish
  <2>3. tasks' \in Seq(Tasks)
    BY <2>1, OneTaskEnds
  <2> QED BY <1>16, <2>3 DEF Finish, request, poll
<1>17. CASE UNCHANGED vars
  BY <1>17 DEF vars
<1> QED
  BY <1>1, <1>2, <1>3, <1>4, <1>5, <1>6, <1>7, <1>8, <1>9,
     <1>10, <1>11, <1>12, <1>13, <1>14, <1>15, <1>16, <1>17
  DEF Next, Client

\* A call is told of one task, the last it made.
LEMMA StepTold ==
    ASSUME TypeOK, OneTaskTold, [Next]_vars
    PROVE  OneTaskTold'
<1> USE DEF TypeOK, OneTaskTold
<1>1. CASE Begin
  BY <1>1 DEF Begin
<1>2. CASE FetchLimits
  BY <1>2 DEF FetchLimits, request, poll
<1>3. CASE PrepareBody
  BY <1>3 DEF PrepareBody, request, poll
<1>4. CASE Accepted
  <2>1. task = 0 /\ task' = Len(tasks') /\ pc' = "poll" /\ call' = call
    BY <1>4 DEF Accepted, request
  <2>2. /\ Len(tasks') = Len(tasks) + 1
        /\ \A u \in 1..Len(tasks) : tasks'[u].told => FALSE
        /\ DOMAIN tasks' = 1..(Len(tasks) + 1)
    <3>1. DOMAIN tasks = 1..Len(tasks) /\ \A u \in DOMAIN tasks : ~ tasks[u].told
      BY <2>1
    <3> HIDE DEF TypeOK
    <3>2. tasks' = NewTask(TRUE)
      BY <1>4 DEF Accepted
    <3> QED BY <3>1, <3>2, NewTaskIsLast
  <2>3. call.kind # "query" => Len(tasks) = 0
    BY <1>4 DEF Accepted
  <2>4. Len(tasks) \in Nat
    OBVIOUS
  <2> HIDE DEF TypeOK
  <2> QED BY <2>1, <2>2, <2>3, <2>4
<1>5. CASE NotAccepted
  <2>1. task = 0 /\ task' = 0 /\ \A u \in DOMAIN tasks : ~ tasks[u].told
    BY <1>5 DEF NotAccepted
  <2>2. /\ \A u \in DOMAIN tasks' : ~ tasks'[u].told
        /\ Len(tasks') <= Len(tasks) + 1
    <3>1. CASE tasks' = tasks
      BY <2>1, <3>1
    <3>2. CASE tasks' = NewTask(FALSE)
      <4> HIDE DEF TypeOK
      <4>1. DOMAIN tasks' = 1..(Len(tasks) + 1) /\ Len(tasks') = Len(tasks) + 1
        BY <3>2, NewTaskIsLast
      <4>2. DOMAIN tasks = 1..Len(tasks) /\ Len(tasks) \in Nat
        BY DEF TypeOK
      <4>3. \A u \in 1..Len(tasks) : ~ tasks'[u].told
        BY <2>1, <3>2, <4>2, NewTaskIsLast
      <4>4. ~ tasks'[Len(tasks) + 1].told
        BY <3>2, NewTaskIsLast
      <4> QED BY <4>1, <4>2, <4>3, <4>4
    <3> QED BY <1>5, <3>1, <3>2 DEF NotAccepted
  <2>3. call' = call /\ pc' \in {"idle", "submit"}
    BY <1>5 DEF NotAccepted, request, End
  <2>4. call.kind # "query" => pc' = "idle" /\ Len(tasks) = 0
    BY <1>5 DEF NotAccepted, Resubmits, End
  <2> QED BY <2>1, <2>2, <2>3, <2>4
<1>6. CASE Completed
  BY <1>6 DEF Completed, Poll, polling, request, End
<1>7. CASE TaskFailed
  BY <1>7 DEF TaskFailed, Poll, polling, request, End
<1>8. CASE StillRunning
  BY <1>8 DEF StillRunning, Poll, Sleep, polling, request
<1>9. CASE PollLimited
  BY <1>9 DEF PollLimited, Poll, Sleep, polling, request
<1>10. CASE PollFailed
  BY <1>10 DEF PollFailed, Poll, Sleep, polling, request, End
<1>11. CASE PollRaised
  BY <1>11 DEF PollRaised, Poll, polling, request, End
<1>12. CASE TimedOut
  BY <1>12 DEF TimedOut, polling, request, End
<1>13. CASE DownloadLater
  BY <1>13 DEF DownloadLater, downloading, request, poll, End
<1>14. CASE Downloaded
  BY <1>14 DEF Downloaded, downloading, request, poll, End
<1>15. CASE DownloadRaised
  BY <1>15 DEF DownloadRaised, downloading, request, poll, End
<1>16. CASE Finish
  <2>1. PICK t \in DOMAIN tasks, status \in {"completed", "failed"} :
             tasks' = [tasks EXCEPT ![t].status = status]
    BY <1>16 DEF Finish
  <2>2. /\ Len(tasks') = Len(tasks) /\ DOMAIN tasks' = DOMAIN tasks
        /\ \A u \in DOMAIN tasks : tasks'[u].told = tasks[u].told
    BY <2>1, OneTaskEnds
  <2>3. tasks # <<>>
    BY <2>1
  <2> QED BY <1>16, <2>2, <2>3 DEF Finish, request, poll
<1>17. CASE UNCHANGED vars
  BY <1>17 DEF vars
<1> QED
  BY <1>1, <1>2, <1>3, <1>4, <1>5, <1>6, <1>7, <1>8, <1>9,
     <1>10, <1>11, <1>12, <1>13, <1>14, <1>15, <1>16, <1>17
  DEF Next, Client

\* A call ends as the task it was told of.
LEMMA StepEnded ==
    ASSUME TypeOK, OneTaskTold, EndedAsTold, [Next]_vars
    PROVE  EndedAsTold'
<1> USE DEF TypeOK, OneTaskTold, EndedAsTold, Status
<1>1. CASE Begin
  BY <1>1 DEF Begin
<1>2. CASE FetchLimits
  BY <1>2 DEF FetchLimits, request, poll
<1>3. CASE PrepareBody
  BY <1>3 DEF PrepareBody, request, poll
<1>4. CASE Accepted
  BY <1>4 DEF Accepted, request, NewTask, Grace
<1>5. CASE NotAccepted
  BY <1>5 DEF NotAccepted, request, poll, End, NewTask
<1>6. CASE Completed
  BY <1>6 DEF Completed, Poll, polling, request, End
<1>7. CASE TaskFailed
  BY <1>7 DEF TaskFailed, Poll, polling, request, End
<1>8. CASE StillRunning
  BY <1>8 DEF StillRunning, Poll, Sleep, polling, request
<1>9. CASE PollLimited
  BY <1>9 DEF PollLimited, Poll, Sleep, polling, request
<1>10. CASE PollFailed
  BY <1>10 DEF PollFailed, Poll, Sleep, polling, request, End
<1>11. CASE PollRaised
  BY <1>11 DEF PollRaised, Poll, polling, request, End
<1>12. CASE TimedOut
  BY <1>12 DEF TimedOut, polling, request, End
<1>13. CASE DownloadLater
  BY <1>13 DEF DownloadLater, downloading, request, poll, End
<1>14. CASE Downloaded
  BY <1>14 DEF Downloaded, downloading, request, poll, End
<1>15. CASE DownloadRaised
  BY <1>15 DEF DownloadRaised, downloading, request, poll, End
<1>16. CASE Finish
  <2>1. PICK t \in DOMAIN tasks, status \in {"completed", "failed"} :
             /\ tasks[t].status = "running"
             /\ tasks' = [tasks EXCEPT ![t].status = status]
    BY <1>16 DEF Finish
  <2>2. ASSUME task # 0, Status # "running"
        PROVE  tasks'[task].status = Status
    <3>1. task \in DOMAIN tasks \ {t}
      <4>1. t \in 1..Len(tasks) /\ Len(tasks) \in Nat
        OBVIOUS
      <4>2. task = Len(tasks)
        BY <2>2
      <4>3. task # t
        BY <2>1, <2>2
      <4> QED BY <4>1, <4>2, <4>3
    <3>2. \A u \in DOMAIN tasks \ {t} : tasks'[u] = tasks[u]
      BY <2>1, OneTaskEnds
    <3> QED BY <3>1, <3>2
  <2> QED BY <1>16, <2>2 DEF Finish, request, poll
<1>17. CASE UNCHANGED vars
  BY <1>17 DEF vars
<1> QED
  BY <1>1, <1>2, <1>3, <1>4, <1>5, <1>6, <1>7, <1>8, <1>9,
     <1>10, <1>11, <1>12, <1>13, <1>14, <1>15, <1>16, <1>17
  DEF Next, Client

\* Failures are counted from the last good answer on.
LEMMA StepCounts ==
    ASSUME TypeOK, EndedAsTold, CountsInARow, [Next]_vars
    PROVE  CountsInARow'
<1> USE ClientAssumption DEF TypeOK, EndedAsTold, CountsInARow, GivesUpInARow
<1>1. CASE Begin
  BY <1>1 DEF Begin
<1>2. CASE FetchLimits
  BY <1>2 DEF FetchLimits, request, poll
<1>3. CASE PrepareBody
  BY <1>3 DEF PrepareBody, request, poll
<1>4. CASE Accepted
  BY <1>4 DEF Accepted, request, NewTask, Grace
<1>5. CASE NotAccepted
  BY <1>5 DEF NotAccepted, request, poll, End, NewTask
<1>6. CASE Completed
  BY <1>6 DEF Completed, Poll, polling, request, End
<1>7. CASE TaskFailed
  BY <1>7 DEF TaskFailed, Poll, polling, request, End
<1>8. CASE StillRunning
  BY <1>8 DEF StillRunning, Poll, Sleep, polling, request, GoodAnswer
<1>9. CASE PollLimited
  BY <1>9 DEF PollLimited, Poll, Sleep, polling, request, GoodAnswer
<1>10. CASE PollFailed
  BY <1>10 DEF PollFailed, Poll, Sleep, polling, request, End, Tolerated, Queries
<1>11. CASE PollRaised
  BY <1>11 DEF PollRaised, Poll, polling, request, End
<1>12. CASE TimedOut
  BY <1>12 DEF TimedOut, polling, request, End
<1>13. CASE DownloadLater
  BY <1>13 DEF DownloadLater, downloading, request, poll, End
<1>14. CASE Downloaded
  BY <1>14 DEF Downloaded, downloading, request, poll, End
<1>15. CASE DownloadRaised
  BY <1>15 DEF DownloadRaised, downloading, request, poll, End
<1>16. CASE Finish
  BY <1>16 DEF Finish, request, poll
<1>17. CASE UNCHANGED vars
  BY <1>17 DEF vars
<1> QED
  BY <1>1, <1>2, <1>3, <1>4, <1>5, <1>6, <1>7, <1>8, <1>9,
     <1>10, <1>11, <1>12, <1>13, <1>14, <1>15, <1>16, <1>17
  DEF Next, Client

\* A wait is at most the longest, and the call polls after it.
LEMMA StepWaits ==
    ASSUME TypeOK, EndedAsTold, OneWaitAgo, [Next]_vars
    PROVE  OneWaitAgo'
<1> USE ClientAssumption DEF TypeOK, EndedAsTold, OneWaitAgo, AsksUntilTheEnd, Waits, PollInterval
<1>1. CASE Begin
  BY <1>1 DEF Begin
<1>2. CASE FetchLimits
  BY <1>2 DEF FetchLimits, request, poll
<1>3. CASE PrepareBody
  BY <1>3 DEF PrepareBody, request, poll
<1>4. CASE Accepted
  BY <1>4 DEF Accepted, request, NewTask, Grace
<1>5. CASE NotAccepted
  BY <1>5 DEF NotAccepted, request, poll, End, NewTask
<1>6. CASE Completed
  BY <1>6 DEF Completed, Poll, polling, request, End
<1>7. CASE TaskFailed
  BY <1>7 DEF TaskFailed, Poll, polling, request, End
<1>8. CASE StillRunning
  BY <1>8 DEF StillRunning, Poll, Sleep, polling, request
<1>9. CASE PollLimited
  <2>1. PICK w \in Waits : clock' <= clock + w
    <3>1. CASE \E wait \in RetryAfters : Sleep(wait)
      BY <3>1 DEF Sleep
    <3>2. CASE Sleep(DoubledOfRun)
      <4>1. clock' = clock + DoubledOfRun
        BY <3>2 DEF Sleep
      <4>2. clock' <= clock + LongestRunWait
        BY <4>1, DoubledIsCapped
      <4> QED BY <4>2
    <3> QED BY <1>9, <3>1, <3>2 DEF PollLimited
  <2>2. backoff' <= LongestWait \/ backoff' <= LongestRunWait
    BY <1>9, DoubledIsCapped DEF PollLimited
  <2>3. polled' = clock /\ outcome' = "none"
    BY <1>9 DEF PollLimited, Poll, Sleep
  <2> QED BY <2>1, <2>2, <2>3
<1>10. CASE PollFailed
  <2>1. clock' = clock \/ clock' <= clock + LongestWait
    <3>1. CASE Tolerated
      BY <1>10, <3>1, FailureWaits
    <3>2. CASE ~Tolerated
      BY <1>10, <3>2 DEF PollFailed
    <3> QED BY <3>1, <3>2
  <2>2. polled' = clock /\ outcome' \in {"none", "gave_up"} /\ backoff' = backoff
    BY <1>10 DEF PollFailed, Poll, Sleep, End
  <2>3. clock' <= polled' + LongestWait
    BY <2>1, <2>2
  <2> QED BY <2>2, <2>3
<1>11. CASE PollRaised
  <2>1. clock' = clock /\ polled' = clock /\ backoff' = backoff /\ outcome' = "error"
    BY <1>11 DEF PollRaised, Poll, End
  <2>2. clock' <= polled' + LongestWait
    BY <2>1
  <2> QED BY <2>1, <2>2
<1>12. CASE TimedOut
  <2>1. PICK w \in Waits : clock <= polled + w
    OBVIOUS
  <2>2. w \in Nat /\ deadline <= clock
    BY <1>12 DEF TimedOut
  <2>3. deadline' = deadline /\ polled' = polled
    BY <1>12 DEF TimedOut, polling
  <2>4. deadline' <= polled' + w
    BY <2>1, <2>2, <2>3
  <2> QED BY <1>12, <2>1, <2>4 DEF TimedOut, polling, request
<1>13. CASE DownloadLater
  BY <1>13 DEF DownloadLater, downloading, request, poll, End
<1>14. CASE Downloaded
  BY <1>14 DEF Downloaded, downloading, request, poll, End
<1>15. CASE DownloadRaised
  BY <1>15 DEF DownloadRaised, downloading, request, poll, End
<1>16. CASE Finish
  BY <1>16 DEF Finish, request, poll
<1>17. CASE UNCHANGED vars
  BY <1>17 DEF vars
<1> QED
  BY <1>1, <1>2, <1>3, <1>4, <1>5, <1>6, <1>7, <1>8, <1>9,
     <1>10, <1>11, <1>12, <1>13, <1>14, <1>15, <1>16, <1>17
  DEF Next, Client

\* What a query asks for is clamped.
LEMMA StepTier ==
    ASSUME TypeOK, AsksWithinItsTier, [Next]_vars
    PROVE  AsksWithinItsTier'
<1> USE ClientAssumption DEF TypeOK, AsksWithinItsTier
<1>1. CASE Begin
  BY <1>1 DEF Begin, NoResources
<1>2. CASE FetchLimits
  BY <1>2 DEF FetchLimits, request, poll
<1>3. CASE PrepareBody
  BY <1>3 DEF PrepareBody, request, poll, NoResources, Clamped, Smaller
<1>4. CASE Accepted
  BY <1>4 DEF Accepted, request, NewTask, Grace
<1>5. CASE NotAccepted
  BY <1>5 DEF NotAccepted, request, poll, End, NewTask
<1>6. CASE Completed
  BY <1>6 DEF Completed, Poll, polling, request, End
<1>7. CASE TaskFailed
  BY <1>7 DEF TaskFailed, Poll, polling, request, End
<1>8. CASE StillRunning
  BY <1>8 DEF StillRunning, Poll, Sleep, polling, request
<1>9. CASE PollLimited
  BY <1>9 DEF PollLimited, Poll, Sleep, polling, request
<1>10. CASE PollFailed
  BY <1>10 DEF PollFailed, Poll, Sleep, polling, request, End
<1>11. CASE PollRaised
  BY <1>11 DEF PollRaised, Poll, polling, request, End
<1>12. CASE TimedOut
  BY <1>12 DEF TimedOut, polling, request, End
<1>13. CASE DownloadLater
  BY <1>13 DEF DownloadLater, downloading, request, poll, End
<1>14. CASE Downloaded
  BY <1>14 DEF Downloaded, downloading, request, poll, End
<1>15. CASE DownloadRaised
  BY <1>15 DEF DownloadRaised, downloading, request, poll, End
<1>16. CASE Finish
  BY <1>16 DEF Finish, request, poll
<1>17. CASE UNCHANGED vars
  BY <1>17 DEF vars
<1> QED
  BY <1>1, <1>2, <1>3, <1>4, <1>5, <1>6, <1>7, <1>8, <1>9,
     <1>10, <1>11, <1>12, <1>13, <1>14, <1>15, <1>16, <1>17
  DEF Next, Client

-----------------------------------------------------------------------------
(* The theorems *)

\* IInv is an invariant of the client, whatever the server answers.
THEOREM Invariance == Spec => []IInv
<1>1. IInv /\ [Next]_vars => IInv'
  BY StepTypes, StepTold, StepEnded, StepCounts, StepWaits, StepTier DEF IInv
<1> QED BY InitInductive, <1>1, PTL DEF Spec

\* However submits are retried, a call answers for the one task it was told of.
THEOREM AnswersItsTask == Spec => []AnswersForItsTask
<1>1. IInv => AnswersForItsTask
  BY DEF IInv, TypeOK, OneTaskTold, EndedAsTold, AnswersForItsTask
<1> QED BY Invariance, <1>1, PTL

\* Whatever waits the answers of a server ask for, a call that timed out had
\* polled until one wait before its deadline.
THEOREM AsksTillDeadline == Spec => []AsksUntilTheEnd
<1>1. IInv => AsksUntilTheEnd
  BY DEF IInv, OneWaitAgo
<1> QED BY Invariance, <1>1, PTL

\* Good answers in between never let a poll give up early.
THEOREM GivesUpOnlyInARow == Spec => []GivesUpInARow
<1>1. IInv => GivesUpInARow
  BY DEF IInv, CountsInARow
<1> QED BY Invariance, <1>1, PTL

\* A query asks for the smaller of what it was called with and the cap.
THEOREM AsksInTier == Spec => []AsksWithinItsTier
<1>1. IInv => AsksWithinItsTier
  BY DEF IInv
<1> QED BY Invariance, <1>1, PTL
=============================================================================
