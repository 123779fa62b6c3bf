----------------------------- MODULE BatchSweep -----------------------------
(***************************************************************************)
(* run_batches and submit_batch of scripts/cloud_sweep.py: one process     *)
(* keeps up to max_parallel batches of a sweep running in one cloud        *)
(* project and polls them until all are settled.  A batch is its number;   *)
(* its config and its wrapper are uploaded under names that hold the       *)
(* number.  The cloud is external: it queues a run and reads the files     *)
(* only when the run starts, it refuses or loses calls, and runs fail.     *)
(***************************************************************************)
EXTENDS Integers, Sequences, FiniteSets

CONSTANTS
    Total,        \* len(batches)
    MaxParallel   \* max_parallel

\* With --parallel 0 the loop of the code would wait forever.
ASSUME SweepAssumption == Total \in Nat /\ MaxParallel \in Nat \ {0}

VARIABLES
    pc,
    next_idx,         \* batches taken up so far
    active,           \* run id -> batch_num
    pending,          \* the ids of this pass over `active` still to be polled
    completed_count,
    failed_count,
    all_results,      \* per downloaded result: the batch it was collected for
                      \* and the batch whose config the run had read
    files,            \* external: config_<n>.yaml and _run_<n>.py; 0 if absent
    runs              \* external: by run id, its wrapper, state and config read

vars == <<pc, next_idx, active, pending, completed_count, failed_count,
          all_results, files, runs>>
counts == <<completed_count, failed_count, all_results>>

BatchNums == 1..Total
Result == [batch : BatchNums, config : 0..Total]
Run == [entry : BatchNums, state : {"queued", "started", "completed", "failed"},
        config : 0..Total]
TERMINAL_STATUSES == {"completed", "failed"}

Init ==
    /\ pc = "fill" /\ next_idx = 0
    /\ active = [r \in {} |-> 0] /\ pending = {}
    /\ completed_count = 0 /\ failed_count = 0 /\ all_results = <<>>
    /\ files = [n \in BatchNums |-> 0] /\ runs = <<>>

batch_num == next_idx + 1
\* Mutant: every batch under the names of the first.
ConfigName_Shared(n) == 1
ConfigName(n) == n

\* Mutant: a settled run stays in the dict.
WithoutRun_Kept(r) == active
WithoutRun(r) == [other \in DOMAIN active \ {r} |-> active[other]]

\* Mutant: a failed submit is tried again.
Failed_Retries == pc' = "fill" /\ UNCHANGED <<failed_count, next_idx>>
Failed ==
    /\ failed_count' = failed_count + 1
    /\ next_idx' = next_idx + 1 /\ pc' = "fill"

\* Mutant: the sweep ends with the last submit.
Unfinished_Submits == next_idx < Total
Unfinished == next_idx < Total \/ DOMAIN active # {}

----------------------------------------------------------------------------
(* The inner loop: submit while there is a slot *)

\* Mutant: one run too many.
SlotFree_OneMore == next_idx < Total /\ Cardinality(DOMAIN active) <= MaxParallel
SlotFree == next_idx < Total /\ Cardinality(DOMAIN active) < MaxParallel
Submitting == pc = "submit" \/ (pc = "fill" /\ SlotFree)

\* Both uploads of submit_batch.
Upload ==
    /\ pc = "fill" /\ SlotFree
    /\ files' = [files EXCEPT ![ConfigName(batch_num)] = batch_num]
    /\ pc' = "submit"
    /\ UNCHANGED <<next_idx, active, pending, counts, runs>>

NewRun == Append(runs, [entry |-> ConfigName(batch_num), state |-> "queued",
                        config |-> 0])

Accepted ==
    /\ pc = "submit"
    /\ runs' = NewRun
    /\ active' = [r \in DOMAIN active \cup {Len(runs) + 1} |->
                    IF r = Len(runs) + 1 THEN batch_num ELSE active[r]]
    /\ next_idx' = next_idx + 1 /\ pc' = "fill"
    /\ UNCHANGED <<pending, counts, files>>

\* The run is queued, but the answer is lost: to the sweep its submit failed.
AnswerLost ==
    /\ pc = "submit"
    /\ runs' = NewRun
    /\ Failed
    /\ UNCHANGED <<active, pending, completed_count, all_results, files>>

\* An upload or the submit raises, with a message that names no limit.
SubmitFails ==
    /\ Submitting
    /\ Failed
    /\ UNCHANGED <<active, pending, completed_count, all_results, files, runs>>

\* ... or one that says concurrent, queued or too many: the batch waits.
Refused ==
    /\ Submitting
    /\ pc' = "wait"
    /\ UNCHANGED <<next_idx, active, pending, counts, files, runs>>

FillEnds ==
    /\ pc = "fill" /\ ~SlotFree
    /\ pc' = "wait"
    /\ UNCHANGED <<next_idx, active, pending, counts, files, runs>>

Wait ==
    /\ pc = "wait"
    /\ pending' = DOMAIN active
    /\ pc' = IF DOMAIN active # {} THEN "poll"
             ELSE IF Unfinished THEN "fill" ELSE "done"
    /\ UNCHANGED <<next_idx, active, counts, files, runs>>

----------------------------------------------------------------------------
(* One pass over the active runs; the order of the dict is left open *)

\* get_run raises, or the run goes on.
NoNews(r) ==
    /\ pc = "poll" /\ r \in pending
    /\ pending' = pending \ {r}
    /\ UNCHANGED <<pc, next_idx, active, counts, files, runs>>

Settle(r, state) ==
    /\ pc = "poll" /\ r \in pending /\ runs[r].state = state
    /\ pending' = pending \ {r} /\ active' = WithoutRun(r)
    /\ UNCHANGED <<pc, next_idx, files, runs>>

Collect(r) ==
    /\ Settle(r, "completed")
    /\ all_results' = Append(all_results,
                             [batch |-> active[r], config |-> runs[r].config])
    /\ completed_count' = completed_count + 1
    /\ UNCHANGED failed_count

\* The run failed, or its results could not be downloaded.
Fail(r) ==
    /\ \E state \in TERMINAL_STATUSES : Settle(r, state)
    /\ failed_count' = failed_count + 1
    /\ UNCHANGED <<completed_count, all_results>>

EndPass ==
    /\ pc = "poll" /\ pending = {}
    /\ pc' = IF Unfinished THEN "fill" ELSE "done"
    /\ UNCHANGED <<next_idx, active, pending, counts, files, runs>>

----------------------------------------------------------------------------
(* The cloud *)

StartRun(r) ==
    /\ r \in DOMAIN runs /\ runs[r].state = "queued"
    /\ runs' = [runs EXCEPT ![r].state = "started",
                            ![r].config = files[runs[r].entry]]
    /\ UNCHANGED <<pc, next_idx, active, pending, counts, files>>

EndRun(r) ==
    /\ r \in DOMAIN runs
    /\ \/ runs[r].state = "started"
          /\ \E s \in TERMINAL_STATUSES : runs' = [runs EXCEPT ![r].state = s]
       \/ runs[r].state = "queued"
          /\ runs' = [runs EXCEPT ![r].state = "failed"]
    /\ UNCHANGED <<pc, next_idx, active, pending, counts, files>>

----------------------------------------------------------------------------

Client ==
    \/ Upload \/ Accepted \/ AnswerLost \/ SubmitFails \/ Refused \/ FillEnds
    \/ Wait \/ EndPass
    \/ \E r \in pending : NoNews(r) \/ Collect(r) \/ Fail(r)

Cloud == \E r \in DOMAIN runs : StartRun(r) \/ EndRun(r)

Next == Client \/ Cloud

\* The process runs on, runs end (every one has a timeout), and the service
\* neither refuses a batch nor hides the end of a run for ever: the code
\* itself bounds neither retry.
Fairness ==
    /\ WF_vars(Client) /\ SF_vars(Upload)
    /\ SF_vars(Accepted \/ AnswerLost \/ SubmitFails)
    /\ \A r \in BatchNums : WF_vars(EndRun(r)) /\ SF_vars(Collect(r) \/ Fail(r))

Spec == Init /\ [][Next]_vars
FairSpec == Spec /\ Fairness

----------------------------------------------------------------------------

TypeOK ==
    /\ pc \in {"fill", "submit", "wait", "poll", "done"}
    /\ next_idx \in 0..Total
    /\ runs \in Seq(Run)
    /\ DOMAIN active \subseteq DOMAIN runs
    /\ active \in [DOMAIN active -> BatchNums]
    /\ pending \subseteq DOMAIN active
    /\ completed_count \in Nat /\ failed_count \in Nat
    /\ all_results \in Seq(Result)
    /\ files \in [BatchNums -> 0..Total]
    /\ (pc = "submit" => SlotFree) /\ (pc # "poll" => pending = {})

\* Every batch taken up is counted once: as completed, as failed, or as one
\* active run (run_batches's two counters and its dict, over every exit of
\* the submit and of the poll).
CountsAddUp ==
    completed_count + failed_count + Cardinality(DOMAIN active) = next_idx

\* No batch is computed or collected twice, whatever was refused, lost or
\* failed: no two runs are of one batch, and no two results.
EachBatchOnce ==
    /\ \A r, s \in DOMAIN runs : runs[r].entry = runs[s].entry => r = s
    /\ \A i, j \in DOMAIN all_results :
            all_results[i].batch = all_results[j].batch => i = j

\* A run that starts late reads the config of its own batch although later
\* batches have been uploaded to the same project meanwhile.
ResultsAreTheirOwn ==
    \A i \in DOMAIN all_results : all_results[i].config = all_results[i].batch

\* A run that is still going is being polled, except those whose submit was
\* not answered, and each of these was counted as failed.
NoRunForgotten ==
    Cardinality({r \in DOMAIN runs : /\ runs[r].state \notin TERMINAL_STATUSES
                                     /\ r \notin DOMAIN active})
        <= failed_count

\* The sweep ends with every batch settled.
SweepEnds == <>(pc = "done" /\ completed_count + failed_count = Total)

----------------------------------------------------------------------------
(* Why they hold: what every run, file and result has to do with its batch *)

TakenUp(b) == b \in 1..next_idx

RunsFollowTheirNames ==
    /\ \A n \in BatchNums : files[n] \in {0, n}
    /\ pc = "submit" => files[batch_num] = batch_num
    /\ \A r \in DOMAIN runs :
        /\ TakenUp(runs[r].entry) /\ files[runs[r].entry] = runs[r].entry
        /\ runs[r].state \in {"started", "completed"} => runs[r].config = runs[r].entry
    /\ \A r \in DOMAIN active : active[r] = runs[r].entry

CollectedAreSettled ==
    \A i \in DOMAIN all_results :
        /\ TakenUp(all_results[i].batch)
        /\ \A r \in DOMAIN active : active[r] # all_results[i].batch

AtMostMaxParallel == Cardinality(DOMAIN active) <= MaxParallel

\* What a step of the sweep preserves: the counters, slots, runs and results
\* of run_batches agree about every batch.
Inductive ==
    /\ TypeOK /\ CountsAddUp /\ AtMostMaxParallel
    /\ RunsFollowTheirNames /\ CollectedAreSettled
    /\ EachBatchOnce /\ ResultsAreTheirOwn

----------------------------------------------------------------------------
(* The sweep keeps a BatchBoard *)

running == {active[r] : r \in DOMAIN active}
collected == {all_results[i].batch : i \in DOMAIN all_results}
dropped == (1..next_idx) \ (running \cup collected)

Board == INSTANCE BatchBoard WITH waiting <- batch_num..Total

\* Batches are taken up in order, at most max_parallel are in hand, and one
\* that was collected or dropped stays so.
KeepsBoard == Board!Spec
=============================================================================
