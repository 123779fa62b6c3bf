-------------------------- MODULE BatchSweep_proofs --------------------------
(***************************************************************************)
(* Proofs about a sweep of any number of batches, any number of them at a  *)
(* time: Inductive is an invariant, and the sweep keeps a BatchBoard.  And *)
(* about the cutting of a config into the batches: SplitInv is an          *)
(* invariant, for configs of any size.                                     *)
(***************************************************************************)
EXTENDS BatchSweep, BatchSplit, SumLemmas, FiniteSetTheorems, TLAPS

USE SweepAssumption

(* The dict of active runs *)

\* The number of active runs (len(active)) is a natural number.
LEMMA ActiveFinite ==
    ASSUME TypeOK
    PROVE  /\ IsFiniteSet(DOMAIN active)
           /\ Cardinality(DOMAIN active) \in Nat
<1>1. IsFiniteSet(DOMAIN runs)
  <2>1. DOMAIN runs = 1..Len(runs) /\ Len(runs) \in Nat
    BY DEF TypeOK
  <2> QED BY <2>1, FS_Interval
<1>2. IsFiniteSet(DOMAIN active)
  BY <1>1, FS_Subset DEF TypeOK
<1> QED BY <1>2, FS_CardinalityType

\* A run that has no id yet is not active; its id adds one to the dict.
LEMMA NewRunIsNew ==
    ASSUME TypeOK
    PROVE  /\ Len(runs) + 1 \notin DOMAIN active
           /\ Cardinality(DOMAIN active \cup {Len(runs) + 1})
                = Cardinality(DOMAIN active) + 1
<1>1. Len(runs) + 1 \notin DOMAIN runs
  BY DEF TypeOK
<1>2. Len(runs) + 1 \notin DOMAIN active
  BY <1>1 DEF TypeOK
<1> QED BY <1>2, ActiveFinite, FS_AddElement

\* active.pop(run_id) takes one from the dict.
LEMMA PopTakesOne ==
    ASSUME TypeOK, NEW r \in DOMAIN active
    PROVE  Cardinality(DOMAIN active \ {r}) = Cardinality(DOMAIN active) - 1
  BY ActiveFinite, FS_RemoveElement

\* The free slot a batch is submitted into stays free until it is taken.
LEMMA SubmittingHasSlot ==
    ASSUME TypeOK, Submitting
    PROVE  /\ next_idx < Total /\ Cardinality(DOMAIN active) < MaxParallel
           /\ batch_num \in BatchNums /\ next_idx + 1 \in 0..Total
  BY DEF TypeOK, Submitting, SlotFree, batch_num, BatchNums

----------------------------------------------------------------------------
(* Inductive is inductive: one lemma per kind of step *)

\* The sweep starts with nothing submitted and nothing counted.
LEMMA InitInductive == Init => Inductive
<1> SUFFICES ASSUME Init PROVE Inductive
  OBVIOUS
<1>1. DOMAIN active = {} /\ DOMAIN runs = {} /\ DOMAIN all_results = {}
  BY DEF Init
<1>2. Cardinality({}) = 0
  BY FS_EmptySet
<1>3. TypeOK
  BY <1>1 DEF Init, TypeOK, BatchNums, Run, Result
<1>4. CountsAddUp /\ AtMostMaxParallel
  BY <1>1, <1>2 DEF Init, CountsAddUp, AtMostMaxParallel
<1>5. RunsFollowTheirNames
  BY <1>1 DEF Init, RunsFollowTheirNames, BatchNums
<1> QED
  BY <1>1, <1>3, <1>4, <1>5
     DEF Inductive, CollectedAreSettled, EachBatchOnce, ResultsAreTheirOwn

\* Waiting, polling without news and ending a pass change no run, no count
\* and no result.
LEMMA IdleInductive ==
    ASSUME Inductive,
           UNCHANGED <<next_idx, active, counts, files, runs>>,
           pc' \in {"fill", "wait", "poll", "done"},
           pending' \subseteq DOMAIN active, pc' # "poll" => pending' = {}
    PROVE  Inductive'
<1> USE DEF counts
<1>1. TypeOK'
  BY DEF Inductive, TypeOK, Run, Result
<1>2. CountsAddUp' /\ AtMostMaxParallel'
  BY DEF Inductive, CountsAddUp, AtMostMaxParallel
<1>3. RunsFollowTheirNames' /\ CollectedAreSettled'
  BY DEF Inductive, RunsFollowTheirNames, CollectedAreSettled, TakenUp, batch_num
<1>4. EachBatchOnce' /\ ResultsAreTheirOwn'
  BY DEF Inductive, EachBatchOnce, ResultsAreTheirOwn
<1> QED BY <1>1, <1>2, <1>3, <1>4 DEF Inductive

\* An upload writes the files of a batch nobody has submitted yet.
LEMMA UploadInductive == Inductive /\ Upload => Inductive'
<1> SUFFICES ASSUME Inductive, Upload PROVE Inductive'
  OBVIOUS
<1> USE DEF counts
<1>1. batch_num \in BatchNums /\ next_idx \in Nat
  BY DEF Inductive, TypeOK, Upload, SlotFree, batch_num, BatchNums
<1>2. TypeOK'
  BY <1>1 DEF Inductive, TypeOK, Upload, SlotFree, ConfigName, BatchNums, Run, Result
<1>3. CountsAddUp' /\ AtMostMaxParallel'
  BY DEF Inductive, CountsAddUp, AtMostMaxParallel, Upload
<1>4. RunsFollowTheirNames'
  <2>1. \A n \in BatchNums : files'[n] = IF n = batch_num THEN n ELSE files[n]
    BY DEF Inductive, TypeOK, Upload, ConfigName
  <2>2. \A r \in DOMAIN runs : runs[r].entry \in BatchNums /\ runs[r].entry # batch_num
    <3>1. \A r \in DOMAIN runs : runs[r] \in Run
      BY DEF Inductive, TypeOK
    <3>2. \A r \in DOMAIN runs : runs[r].entry \in 1..next_idx
      BY DEF Inductive, RunsFollowTheirNames, TakenUp
    <3> QED BY <1>1, <3>1, <3>2 DEF Run, batch_num
  <2>3. next_idx' = next_idx /\ runs' = runs /\ active' = active
    BY DEF Upload
  <2> QED
    BY <1>1, <2>1, <2>2, <2>3
       DEF Inductive, RunsFollowTheirNames, TakenUp, batch_num
<1>5. CollectedAreSettled' /\ EachBatchOnce' /\ ResultsAreTheirOwn'
  BY DEF Inductive, CollectedAreSettled, TakenUp, EachBatchOnce,
         ResultsAreTheirOwn, Upload
<1> QED BY <1>2, <1>3, <1>4, <1>5 DEF Inductive

\* A new run is of a batch that had none, and reads the files of that batch.
LEMMA NewRunFollows ==
    ASSUME Inductive, pc = "submit", runs' = NewRun,
           next_idx' = next_idx + 1, pc' = "fill", UNCHANGED <<files, all_results>>,
           \A r \in DOMAIN active' : \/ r \in DOMAIN active /\ active'[r] = active[r]
                                     \/ r = Len(runs) + 1 /\ active'[r] = batch_num
    PROVE  /\ runs' \in Seq(Run)
           /\ RunsFollowTheirNames' /\ CollectedAreSettled'
           /\ EachBatchOnce' /\ ResultsAreTheirOwn'
<1> DEFINE new == Len(runs) + 1
<1>1. batch_num \in BatchNums /\ next_idx \in Nat /\ batch_num = next_idx + 1
  BY SubmittingHasSlot DEF Inductive, TypeOK, Submitting, batch_num
<1>2. [entry |-> ConfigName(batch_num), state |-> "queued", config |-> 0] \in Run
  BY <1>1 DEF Run, ConfigName
<1>3. /\ runs \in Seq(Run) /\ Len(runs) \in Nat /\ DOMAIN runs = 1..Len(runs)
      /\ \A r \in DOMAIN runs : runs[r] \in Run
  BY DEF Inductive, TypeOK
<1>4. /\ runs' \in Seq(Run) /\ DOMAIN runs' = 1..new
      /\ \A r \in DOMAIN runs : runs'[r] = runs[r]
      /\ runs'[new] = [entry |-> batch_num, state |-> "queued", config |-> 0]
  BY <1>2, <1>3 DEF NewRun, ConfigName
<1>5. \A b : TakenUp(b) => TakenUp(b)' /\ b # batch_num
  BY <1>1 DEF TakenUp
<1>6. batch_num \in 1..next_idx'
  BY <1>1
<1>7. \A r \in DOMAIN runs' : r \in DOMAIN runs \/ r = new
  BY <1>3, <1>4
<1>8. \A r \in DOMAIN active : r \in DOMAIN runs /\ active[r] = runs[r].entry
  BY DEF Inductive, TypeOK, RunsFollowTheirNames
<1>9. RunsFollowTheirNames'
  <2>1. \A r \in DOMAIN runs' :
            /\ runs'[r].entry \in 1..next_idx' /\ files'[runs'[r].entry] = runs'[r].entry
            /\ runs'[r].state \in {"started", "completed"}
                => runs'[r].config = runs'[r].entry
    <3>1. \A r \in DOMAIN runs : runs[r].entry \in 1..next_idx'
      BY <1>1 DEF Inductive, RunsFollowTheirNames, TakenUp
    <3>2. files[batch_num] = batch_num
      BY DEF Inductive, RunsFollowTheirNames
    <3> QED
      BY <1>4, <1>6, <1>7, <3>1, <3>2 DEF Inductive, RunsFollowTheirNames
  <2>2. \A r \in DOMAIN active' : active'[r] = runs'[r].entry
    BY <1>4, <1>8
  <2> QED
    BY <2>1, <2>2 DEF Inductive, RunsFollowTheirNames, TakenUp
<1>10. CollectedAreSettled'
  BY <1>5 DEF Inductive, CollectedAreSettled
<1>11. EachBatchOnce'
  BY <1>4, <1>5, <1>7 DEF Inductive, EachBatchOnce, RunsFollowTheirNames
<1>12. ResultsAreTheirOwn'
  BY DEF Inductive, ResultsAreTheirOwn
<1> QED BY <1>4, <1>9, <1>10, <1>11, <1>12

\* An accepted submit adds one run and one active batch.
LEMMA AcceptedInductive == Inductive /\ Accepted => Inductive'
<1> SUFFICES ASSUME Inductive, Accepted PROVE Inductive'
  OBVIOUS
<1> USE DEF counts
<1>1. Submitting /\ TypeOK
  BY DEF Inductive, Accepted, Submitting
<1>2. DOMAIN active' = DOMAIN active \cup {Len(runs) + 1}
  BY DEF Accepted
<1>3. Cardinality(DOMAIN active') = Cardinality(DOMAIN active) + 1
  BY <1>1, <1>2, NewRunIsNew
<1>4. \A r \in DOMAIN active' : \/ r \in DOMAIN active /\ active'[r] = active[r]
                                \/ r = Len(runs) + 1 /\ active'[r] = batch_num
  BY <1>1, NewRunIsNew DEF Accepted
<1>5. /\ runs' \in Seq(Run)
      /\ RunsFollowTheirNames' /\ CollectedAreSettled'
      /\ EachBatchOnce' /\ ResultsAreTheirOwn'
  BY <1>4, NewRunFollows DEF Accepted
<1>6. TypeOK'
  <2>1. DOMAIN runs' = 1..(Len(runs) + 1) /\ DOMAIN runs \subseteq DOMAIN runs'
    BY <1>1 DEF TypeOK, Accepted, NewRun
  <2>2. DOMAIN active' \subseteq DOMAIN runs'
    BY <1>1, <1>2, <2>1 DEF TypeOK
  <2>3. active' \in [DOMAIN active' -> BatchNums]
    BY <1>1, <1>2, SubmittingHasSlot DEF TypeOK, Accepted
  <2>4. next_idx' \in 0..Total
    BY <1>1, SubmittingHasSlot DEF Accepted
  <2> QED
    BY <1>1, <1>2, <1>5, <2>2, <2>3, <2>4 DEF TypeOK, Accepted
<1>7. CountsAddUp'
  BY <1>1, <1>3, ActiveFinite DEF Inductive, CountsAddUp, TypeOK, Accepted
<1>8. AtMostMaxParallel'
  BY <1>1, <1>3, ActiveFinite, SubmittingHasSlot DEF AtMostMaxParallel
<1> QED BY <1>5, <1>6, <1>7, <1>8 DEF Inductive

\* A lost answer adds a run nobody polls, and one failure.
LEMMA AnswerLostInductive == Inductive /\ AnswerLost => Inductive'
<1> SUFFICES ASSUME Inductive, AnswerLost PROVE Inductive'
  OBVIOUS
<1> USE DEF counts, Failed
<1>1. Submitting /\ TypeOK
  BY DEF Inductive, AnswerLost, Submitting
<1>2. /\ runs' \in Seq(Run)
      /\ RunsFollowTheirNames' /\ CollectedAreSettled'
      /\ EachBatchOnce' /\ ResultsAreTheirOwn'
  BY NewRunFollows DEF AnswerLost
<1>3. TypeOK'
  <2>1. DOMAIN runs \subseteq DOMAIN runs'
    BY <1>1 DEF TypeOK, AnswerLost, NewRun
  <2>2. next_idx' \in 0..Total
    BY <1>1, SubmittingHasSlot DEF AnswerLost
  <2> QED
    BY <1>1, <1>2, <2>1, <2>2 DEF TypeOK, AnswerLost
<1>4. CountsAddUp' /\ AtMostMaxParallel'
  BY <1>1, ActiveFinite
     DEF Inductive, CountsAddUp, AtMostMaxParallel, TypeOK, AnswerLost
<1> QED BY <1>2, <1>3, <1>4 DEF Inductive

\* A submit that fails is counted as failed and not tried again.
LEMMA SubmitFailsInductive == Inductive /\ SubmitFails => Inductive'
<1> SUFFICES ASSUME Inductive, SubmitFails PROVE Inductive'
  OBVIOUS
<1> USE DEF counts, Failed
<1>1. Submitting /\ TypeOK /\ pc \in {"fill", "submit"}
  BY DEF Inductive, SubmitFails, Submitting
<1>2. next_idx' \in 0..Total /\ next_idx' = next_idx + 1 /\ next_idx \in Nat
  BY <1>1, SubmittingHasSlot DEF SubmitFails, TypeOK
<1>3. TypeOK'
  BY <1>1, <1>2 DEF TypeOK, SubmitFails
<1>4. CountsAddUp' /\ AtMostMaxParallel'
  BY <1>1, ActiveFinite
     DEF Inductive, CountsAddUp, AtMostMaxParallel, TypeOK, SubmitFails
<1>5. \A b : TakenUp(b) => TakenUp(b)'
  BY <1>2 DEF TakenUp
<1>6. RunsFollowTheirNames' /\ CollectedAreSettled'
  BY <1>5 DEF Inductive, RunsFollowTheirNames, CollectedAreSettled, SubmitFails
<1>7. EachBatchOnce' /\ ResultsAreTheirOwn'
  BY DEF Inductive, EachBatchOnce, ResultsAreTheirOwn, SubmitFails
<1> QED BY <1>3, <1>4, <1>6, <1>7 DEF Inductive

\* What is left when a run is settled: its id leaves the dict, and nothing
\* else moves.
LEMMA SettleLeaves ==
    ASSUME Inductive, NEW r, NEW state, Settle(r, state)
    PROVE  /\ r \in DOMAIN active /\ r \in DOMAIN runs
           /\ active[r] = runs[r].entry /\ active[r] \in BatchNums
           /\ TakenUp(active[r])
           /\ DOMAIN active' = DOMAIN active \ {r}
           /\ \A s \in DOMAIN active' : active'[s] = active[s]
           /\ \A s \in DOMAIN active' : active[s] # active[r]
           /\ Cardinality(DOMAIN active') = Cardinality(DOMAIN active) - 1
           /\ RunsFollowTheirNames'
<1>1. r \in DOMAIN active /\ TypeOK
  BY DEF Inductive, TypeOK, Settle
<1>2. r \in DOMAIN runs /\ active[r] = runs[r].entry /\ active[r] \in BatchNums
  BY <1>1 DEF Inductive, TypeOK, RunsFollowTheirNames
<1>3. DOMAIN active' = DOMAIN active \ {r} /\ \A s \in DOMAIN active' : active'[s] = active[s]
  BY DEF Settle, WithoutRun
<1>4. Cardinality(DOMAIN active') = Cardinality(DOMAIN active) - 1
  BY <1>1, <1>3, PopTakesOne
<1>5. \A s \in DOMAIN active' : active[s] # active[r]
  <2> SUFFICES ASSUME NEW s \in DOMAIN active, s # r PROVE active[s] # active[r]
    BY <1>3
  <2>1. s \in DOMAIN runs /\ active[s] = runs[s].entry
    BY DEF Inductive, TypeOK, RunsFollowTheirNames
  <2> QED BY <1>2, <2>1 DEF Inductive, EachBatchOnce
<1>6. TakenUp(active[r])
  BY <1>2 DEF Inductive, RunsFollowTheirNames
<1>7. RunsFollowTheirNames'
  BY <1>3 DEF Inductive, RunsFollowTheirNames, TakenUp, Settle, batch_num
<1> QED BY <1>1, <1>2, <1>3, <1>4, <1>5, <1>6, <1>7

\* A collected run moves its batch from the dict to the results.
LEMMA CollectInductive ==
    ASSUME Inductive, NEW r, Collect(r)
    PROVE  Inductive'
<1> DEFINE result == [batch |-> active[r], config |-> runs[r].config]
           new == Len(all_results) + 1
<1>0. Settle(r, "completed") /\ TypeOK
  BY DEF Collect, Inductive
<1>1. /\ r \in DOMAIN active /\ r \in DOMAIN runs
      /\ active[r] = runs[r].entry /\ active[r] \in BatchNums
      /\ TakenUp(active[r])
      /\ DOMAIN active' = DOMAIN active \ {r}
      /\ \A s \in DOMAIN active' : active'[s] = active[s]
      /\ \A s \in DOMAIN active' : active[s] # active[r]
      /\ Cardinality(DOMAIN active') = Cardinality(DOMAIN active) - 1
      /\ RunsFollowTheirNames'
  BY <1>0, SettleLeaves
<1>2. runs[r] \in Run /\ runs[r].state = "completed"
  BY <1>0, <1>1 DEF TypeOK, Settle
<1>3. result \in Result /\ result.config = result.batch
  BY <1>1, <1>2 DEF Result, Run, Inductive, RunsFollowTheirNames
<1>4. /\ all_results \in Seq(Result) /\ Len(all_results) \in Nat
      /\ DOMAIN all_results = 1..Len(all_results)
  BY <1>0 DEF TypeOK
<1>5. /\ all_results' \in Seq(Result) /\ DOMAIN all_results' = 1..new
      /\ \A i \in DOMAIN all_results : all_results'[i] = all_results[i]
      /\ all_results'[new] = result
  BY <1>3, <1>4 DEF Collect
<1>6. \A i \in DOMAIN all_results' : i \in DOMAIN all_results \/ i = new
  BY <1>4, <1>5
<1>7. TypeOK'
  <2>1. active' \in [DOMAIN active' -> BatchNums]
    BY <1>0, <1>1 DEF TypeOK, Settle, WithoutRun
  <2>2. pending' \subseteq DOMAIN active'
    BY <1>0, <1>1 DEF TypeOK, Settle
  <2> QED
    BY <1>0, <1>1, <1>5, <2>1, <2>2 DEF TypeOK, Settle, Collect
<1>8. CountsAddUp' /\ AtMostMaxParallel'
  <2>1. /\ completed_count' = completed_count + 1 /\ completed_count \in Nat
        /\ failed_count' = failed_count /\ failed_count \in Nat
        /\ next_idx' = next_idx
    BY <1>0 DEF TypeOK, Settle, Collect
  <2> QED
    BY <1>0, <1>1, <2>1, ActiveFinite DEF Inductive, CountsAddUp, AtMostMaxParallel
<1>9. CollectedAreSettled'
  BY <1>0, <1>1, <1>5, <1>6 DEF Inductive, CollectedAreSettled, TakenUp, Settle
<1>10. EachBatchOnce'
  <2>1. \A i \in DOMAIN all_results : all_results[i].batch # active[r]
    BY <1>1 DEF Inductive, CollectedAreSettled
  <2> QED BY <1>0, <1>5, <1>6, <2>1 DEF Inductive, EachBatchOnce, Settle
<1>11. ResultsAreTheirOwn'
  BY <1>3, <1>5, <1>6 DEF Inductive, ResultsAreTheirOwn
<1> QED BY <1>1, <1>7, <1>8, <1>9, <1>10, <1>11 DEF Inductive

\* A failed run or download moves its batch from the dict to the failures.
LEMMA FailInductive ==
    ASSUME Inductive, NEW r, Fail(r)
    PROVE  Inductive'
<1>0. PICK state \in TERMINAL_STATUSES : Settle(r, state)
  BY DEF Fail
<1>1. /\ DOMAIN active' = DOMAIN active \ {r}
      /\ \A s \in DOMAIN active' : active'[s] = active[s]
      /\ Cardinality(DOMAIN active') = Cardinality(DOMAIN active) - 1
      /\ RunsFollowTheirNames'
  BY <1>0, SettleLeaves
<1>2. TypeOK'
  <2>1. active' \in [DOMAIN active' -> BatchNums]
    BY <1>0, <1>1 DEF Inductive, TypeOK, Settle, WithoutRun
  <2>2. pending' \subseteq DOMAIN active'
    BY <1>0, <1>1 DEF Inductive, TypeOK, Settle
  <2> QED
    BY <1>0, <1>1, <2>1, <2>2 DEF Inductive, TypeOK, Settle, Fail
<1>3. CountsAddUp' /\ AtMostMaxParallel'
  BY <1>0, <1>1, ActiveFinite
     DEF Inductive, CountsAddUp, AtMostMaxParallel, TypeOK, Settle, Fail
<1>4. CollectedAreSettled'
  BY <1>0, <1>1 DEF Inductive, CollectedAreSettled, TakenUp, Settle, Fail
<1>5. EachBatchOnce' /\ ResultsAreTheirOwn'
  BY <1>0 DEF Inductive, EachBatchOnce, ResultsAreTheirOwn, Settle, Fail
<1> QED BY <1>1, <1>2, <1>3, <1>4, <1>5 DEF Inductive

\* The cloud changes states of runs, and gives a run the config of its name.
LEMMA CloudInductive ==
    ASSUME Inductive, NEW r \in DOMAIN runs, StartRun(r) \/ EndRun(r)
    PROVE  Inductive'
<1> USE DEF counts
<1>0. runs \in Seq(Run) /\ runs[r] \in Run
  BY DEF Inductive, TypeOK
<1>1. files[runs[r].entry] = runs[r].entry /\ runs[r].entry \in BatchNums
  BY <1>0 DEF Inductive, RunsFollowTheirNames, Run
<1>2. /\ DOMAIN runs' = DOMAIN runs /\ runs'[r] \in Run
      /\ runs'[r].entry = runs[r].entry
      /\ runs'[r].state \in {"started", "completed"} => runs'[r].config = runs[r].entry
      /\ \A s \in DOMAIN runs : s # r => runs'[s] = runs[s]
  <2>1. CASE StartRun(r)
    <3>1. runs' = [runs EXCEPT ![r].state = "started",
                               ![r].config = files[runs[r].entry]]
      BY <2>1 DEF StartRun
    <3>2. runs'[r] = [entry |-> runs[r].entry, state |-> "started",
                      config |-> runs[r].entry]
      BY <1>0, <1>1, <3>1 DEF Run
    <3>3. runs'[r] \in Run
      BY <1>1, <3>2 DEF Run, BatchNums
    <3> QED BY <3>1, <3>2, <3>3
  <2>2. CASE EndRun(r)
    BY <1>0, <1>1, <2>2
       DEF EndRun, Run, TERMINAL_STATUSES, Inductive, RunsFollowTheirNames
  <2> QED BY <2>1, <2>2
<1>3. UNCHANGED <<pc, next_idx, active, pending, completed_count, failed_count,
                  all_results, files>>
  BY DEF StartRun, EndRun
<1>4. runs' \in Seq(Run)
  <2>1. \A s \in DOMAIN runs : runs'[s] \in Run
    BY <1>0, <1>2
  <2>2. runs' = [s \in DOMAIN runs |-> runs'[s]] /\ DOMAIN runs = 1..Len(runs)
    BY <1>0 DEF StartRun, EndRun
  <2> QED BY <1>0, <2>1, <2>2
<1>5. TypeOK'
  BY <1>2, <1>3, <1>4 DEF Inductive, TypeOK, SlotFree
<1>6. CountsAddUp' /\ AtMostMaxParallel'
  BY <1>3 DEF Inductive, CountsAddUp, AtMostMaxParallel
<1>7. \A s \in DOMAIN runs : runs'[s].entry = runs[s].entry
  BY <1>2
<1>8. RunsFollowTheirNames'
  <2>1. \A s \in DOMAIN runs :
            runs'[s].state \in {"started", "completed"} => runs'[s].config = runs'[s].entry
    BY <1>2 DEF Inductive, RunsFollowTheirNames
  <2>2. \A s \in DOMAIN active : s \in DOMAIN runs
    BY DEF Inductive, TypeOK
  <2> QED
    BY <1>2, <1>3, <1>7, <2>1, <2>2
       DEF Inductive, RunsFollowTheirNames, TakenUp, batch_num
<1>9. CollectedAreSettled' /\ EachBatchOnce' /\ ResultsAreTheirOwn'
  BY <1>2, <1>3, <1>7
     DEF Inductive, CollectedAreSettled, TakenUp, EachBatchOnce, ResultsAreTheirOwn
<1> QED BY <1>5, <1>6, <1>8, <1>9 DEF Inductive

\* Every step of the sweep or of the cloud preserves Inductive.
LEMMA NextInductive == Inductive /\ [Next]_vars => Inductive'
<1> SUFFICES ASSUME Inductive, [Next]_vars PROVE Inductive'
  OBVIOUS
<1> USE DEF counts
<1>1. CASE Upload
  BY <1>1, UploadInductive
<1>2. CASE Accepted
  BY <1>2, AcceptedInductive
<1>3. CASE AnswerLost
  BY <1>3, AnswerLostInductive
<1>4. CASE SubmitFails
  BY <1>4, SubmitFailsInductive
<1>5. CASE Refused \/ FillEnds \/ Wait \/ EndPass
  BY <1>5, IdleInductive
     DEF Refused, Submitting, FillEnds, Wait, EndPass, Inductive, TypeOK, Unfinished
<1>6. CASE \E r \in pending : NoNews(r)
  BY <1>6, IdleInductive DEF NoNews, Inductive, TypeOK
<1>7. CASE \E r \in pending : Collect(r) \/ Fail(r)
  BY <1>7, CollectInductive, FailInductive
<1>8. CASE Cloud
  BY <1>8, CloudInductive DEF Cloud
<1>9. CASE UNCHANGED vars
  BY <1>9
     DEF vars, Inductive, TypeOK, CountsAddUp, AtMostMaxParallel, SlotFree,
         RunsFollowTheirNames, CollectedAreSettled, TakenUp, batch_num,
         EachBatchOnce, ResultsAreTheirOwn
<1> QED
  BY <1>1, <1>2, <1>3, <1>4, <1>5, <1>6, <1>7, <1>8, <1>9 DEF Next, Client

\* The counters, slots, runs and results of run_batches agree at all times.
THEOREM SweepInvariant == Spec => []Inductive
<1>1. Init => Inductive
  BY InitInductive
<1>2. Inductive /\ [Next]_vars => Inductive'
  BY NextInductive
<1> QED BY <1>1, <1>2, PTL DEF Spec

\* completed_count, failed_count and the dict count every batch taken up once.
THEOREM CountsHold == Spec => []CountsAddUp
<1>1. Inductive => CountsAddUp
  BY DEF Inductive
<1> QED BY <1>1, SweepInvariant, PTL

\* No batch is run or collected twice, whatever was refused, lost or failed.
THEOREM BatchesRunOnce == Spec => []EachBatchOnce
<1>1. Inductive => EachBatchOnce
  BY DEF Inductive
<1> QED BY <1>1, SweepInvariant, PTL

\* A collected result comes from the config of its own batch, however late the
\* run started.
THEOREM ResultsBelong == Spec => []ResultsAreTheirOwn
<1>1. Inductive => ResultsAreTheirOwn
  BY DEF Inductive
<1> QED BY <1>1, SweepInvariant, PTL

----------------------------------------------------------------------------
(* The sweep keeps a BatchBoard *)

\* The batches in hand and the collected ones have been taken up, and none
\* is both.
LEMMA BoardOfTakenUp ==
    ASSUME Inductive
    PROVE  /\ next_idx \in 0..Total /\ Total \in Nat
           /\ running \subseteq 1..next_idx /\ collected \subseteq 1..next_idx
           /\ running \cap collected = {}
<1>1. next_idx \in 0..Total /\ Total \in Nat
  BY DEF Inductive, TypeOK
<1>2. running \subseteq 1..next_idx
  BY DEF Inductive, TypeOK, RunsFollowTheirNames, TakenUp, running
<1>3. collected \subseteq 1..next_idx /\ running \cap collected = {}
  BY DEF Inductive, CollectedAreSettled, TakenUp, running, collected
<1> QED BY <1>1, <1>2, <1>3

\* The next batch of the list is the first that waits on the board.
LEMMA NextWaits ==
    ASSUME Inductive, next_idx < Total, next_idx' = next_idx + 1
    PROVE  /\ Board!IsNext(batch_num) /\ batch_num \in 1..Total
           /\ (batch_num..Total)' = (batch_num..Total) \ {batch_num}
           /\ batch_num \notin 1..next_idx
           /\ 1..next_idx' = (1..next_idx) \cup {batch_num}
  BY BoardOfTakenUp DEF Board!IsNext, batch_num

\* The board counts its batches as the sweep does.
LEMMA BoardCardinality ==
    ASSUME NEW S
    PROVE  Board!Cardinality(S) = Cardinality(S)
  BY DEF Board!Cardinality, Cardinality, Board!IsFiniteSet, IsFiniteSet

\* An accepted submit starts the next batch.
LEMMA AcceptedStarts == Inductive /\ Accepted => Board!Next
<1> SUFFICES ASSUME Inductive, Accepted PROVE Board!Start(batch_num) /\ batch_num \in 1..Total
  BY DEF Board!Next
<1> USE DEF counts
<1>1. Submitting /\ TypeOK
  BY DEF Inductive, Accepted, Submitting
<1>2. next_idx < Total /\ Cardinality(DOMAIN active) < MaxParallel
  BY <1>1, SubmittingHasSlot
<1>3. Cardinality(running) <= Cardinality(DOMAIN active) /\ Cardinality(running) \in Nat
  <2>1. active \in Surjection(DOMAIN active, running)
    BY <1>1 DEF TypeOK, running, Surjection
  <2> QED BY <1>1, <2>1, ActiveFinite, FS_Surjection, FS_CardinalityType
<1>4. running' = running \cup {batch_num}
  BY <1>1, NewRunIsNew DEF running, Accepted
<1>5. collected' = collected
  BY DEF collected, Accepted
<1>6. dropped' = dropped
  BY <1>2, <1>4, <1>5, NextWaits, BoardOfTakenUp DEF dropped, Accepted
<1> QED
  <2>1. Cardinality(running) < MaxParallel
    BY <1>1, <1>2, <1>3, ActiveFinite
  <2>2. next_idx' = next_idx + 1
    BY DEF Accepted
  <2> QED BY <1>2, <1>4, <1>5, <1>6, <2>1, <2>2, NextWaits, BoardCardinality
     DEF Board!Start

\* A submit that failed, or whose answer is lost, drops the next batch.
LEMMA FailedSkips == Inductive /\ (AnswerLost \/ SubmitFails) => Board!Next
<1> SUFFICES ASSUME Inductive, AnswerLost \/ SubmitFails
             PROVE  Board!Skip(batch_num) /\ batch_num \in 1..Total
  BY DEF Board!Next
<1>1. Submitting /\ TypeOK /\ next_idx' = next_idx + 1
  BY DEF Inductive, AnswerLost, SubmitFails, Submitting, Failed
<1>2. next_idx < Total
  BY <1>1, SubmittingHasSlot
<1>3. running' = running /\ collected' = collected
  BY DEF running, collected, AnswerLost, SubmitFails
<1>4. dropped' = dropped \cup {batch_num}
  BY <1>1, <1>2, <1>3, NextWaits, BoardOfTakenUp DEF dropped
<1> QED BY <1>1, <1>2, <1>3, <1>4, NextWaits DEF Board!Skip

\* A settled run takes its batch, and no other, out of the hand.
LEMMA SettleFrees ==
    ASSUME Inductive, NEW r, NEW state, Settle(r, state)
    PROVE  /\ active[r] \in running /\ active[r] \in 1..Total
           /\ running' = running \ {active[r]}
           /\ (batch_num..Total)' = batch_num..Total
<1>1. /\ r \in DOMAIN active /\ active[r] \in BatchNums
      /\ DOMAIN active' = DOMAIN active \ {r}
      /\ \A s \in DOMAIN active' : active'[s] = active[s]
      /\ \A s \in DOMAIN active' : active[s] # active[r]
  BY SettleLeaves
<1> QED BY <1>1 DEF running, BatchNums, Settle, batch_num

\* A completed run whose results arrive moves its batch to the collected ones.
LEMMA CollectCollects ==
    ASSUME Inductive, NEW r, Collect(r)
    PROVE  Board!Next
<1>1. /\ active[r] \in running /\ active[r] \in 1..Total
      /\ running' = running \ {active[r]}
      /\ (batch_num..Total)' = batch_num..Total
  BY SettleFrees DEF Collect
<1>2. collected' = collected \cup {active[r]}
  <2>1. /\ all_results \in Seq(Result)
        /\ all_results' = Append(all_results, [batch |-> active[r],
                                               config |-> runs[r].config])
    BY DEF Inductive, TypeOK, Collect
  <2>2. /\ DOMAIN all_results' = DOMAIN all_results \cup {Len(all_results) + 1}
        /\ \A i \in DOMAIN all_results : all_results'[i] = all_results[i]
        /\ all_results'[Len(all_results) + 1].batch = active[r]
    BY <2>1
  <2> QED BY <2>2 DEF collected
<1>3. dropped' = dropped
  BY <1>1, <1>2 DEF dropped, Collect, Settle
<1>4. Board!Collect(active[r])
  BY <1>1, <1>2, <1>3 DEF Board!Collect
<1> QED BY <1>1, <1>4 DEF Board!Next

\* A failed run or download moves its batch to the dropped ones.
LEMMA FailDrops ==
    ASSUME Inductive, NEW r, Fail(r)
    PROVE  Board!Next
<1>0. PICK state \in TERMINAL_STATUSES : Settle(r, state)
  BY DEF Fail
<1>1. /\ active[r] \in running /\ active[r] \in 1..Total
      /\ running' = running \ {active[r]}
      /\ (batch_num..Total)' = batch_num..Total
  BY <1>0, SettleFrees
<1>2. collected' = collected
  BY DEF collected, Fail
<1>3. dropped' = dropped \cup {active[r]}
  BY <1>0, <1>1, <1>2, BoardOfTakenUp DEF dropped, Settle
<1>4. Board!Drop(active[r])
  BY <1>1, <1>2, <1>3 DEF Board!Drop
<1> QED BY <1>1, <1>4 DEF Board!Next

\* Every step of the sweep is a step of the board or leaves it alone.
LEMMA StepsKeepBoard == Inductive /\ [Next]_vars => [Board!Next]_(Board!vars)
<1> SUFFICES ASSUME Inductive, [Next]_vars PROVE [Board!Next]_(Board!vars)
  OBVIOUS
<1>1. CASE Accepted
  BY <1>1, AcceptedStarts
<1>2. CASE AnswerLost \/ SubmitFails
  BY <1>2, FailedSkips
<1>3. CASE \E r \in pending : Collect(r) \/ Fail(r)
  BY <1>3, CollectCollects, FailDrops
<1>4. CASE UNCHANGED <<next_idx, active, all_results>>
  BY <1>4 DEF Board!vars, batch_num, running, collected, dropped
<1>5. \/ Accepted \/ AnswerLost \/ SubmitFails
      \/ \E r \in pending : Collect(r) \/ Fail(r)
      \/ UNCHANGED <<next_idx, active, all_results>>
  BY DEF Next, Client, Cloud, vars, counts, Upload, Refused, FillEnds, Wait,
         EndPass, NoNews, StartRun, EndRun
<1> QED BY <1>1, <1>2, <1>3, <1>4, <1>5

\* run_batches takes batches up in order, at most max_parallel at a time, and
\* settles each one once.
THEOREM BoardKept == Spec => KeepsBoard
<1>1. Init => Board!Init
  <2> SUFFICES ASSUME Init PROVE Board!Init
    OBVIOUS
  <2>1. DOMAIN active = {} /\ DOMAIN all_results = {} /\ next_idx = 0
    BY DEF Init
  <2> QED BY <2>1 DEF Board!Init, batch_num, running, collected, dropped
<1>2. Inductive /\ [Next]_vars => [Board!Next]_(Board!vars)
  BY StepsKeepBoard
<1> QED
  BY <1>1, <1>2, SweepInvariant, PTL DEF Spec, Board!Spec, KeepsBoard
----------------------------------------------------------------------------
(* The runs nobody polls *)

\* The runs that go on and that the sweep does not know of.
Unpolled == {r \in DOMAIN runs : /\ runs[r].state \notin TERMINAL_STATUSES
                                 /\ r \notin DOMAIN active}

LEMMA UnpolledFinite ==
    ASSUME TypeOK
    PROVE  IsFiniteSet(Unpolled) /\ Cardinality(Unpolled) \in Nat
<1>1. IsFiniteSet(DOMAIN runs)
  <2>1. DOMAIN runs = 1..Len(runs) /\ Len(runs) \in Nat
    BY DEF TypeOK
  <2> QED BY <2>1, FS_Interval
<1>2. IsFiniteSet(Unpolled)
  BY <1>1, FS_Subset DEF Unpolled
<1> QED BY <1>2, FS_CardinalityType

\* As long as none joins them and none is taken from the failed count, they stay as
\* few as the failures.
LEMMA NoneJoins ==
    ASSUME TypeOK, NoRunForgotten, Unpolled' \subseteq Unpolled,
           failed_count' \in Nat, failed_count <= failed_count'
    PROVE  NoRunForgotten'
<1>1. IsFiniteSet(Unpolled) /\ Cardinality(Unpolled) \in Nat
  BY UnpolledFinite
<1>2. Cardinality(Unpolled') <= Cardinality(Unpolled) /\ Cardinality(Unpolled') \in Nat
  BY <1>1, FS_Subset, FS_CardinalityType
<1>3. Cardinality(Unpolled) <= failed_count /\ failed_count \in Nat
  BY DEF NoRunForgotten, Unpolled, TypeOK
<1>4. Cardinality(Unpolled') <= failed_count'
  BY <1>1, <1>2, <1>3
<1> QED BY <1>4 DEF NoRunForgotten, Unpolled

\* A new run, and a run that ends or is settled, leave the older ones as they were.
LEMMA AnswerLostCounted ==
    ASSUME TypeOK, NoRunForgotten, AnswerLost PROVE NoRunForgotten'
<1> DEFINE new == Len(runs) + 1
<1>1. runs' = NewRun /\ UNCHANGED active /\ failed_count' = failed_count + 1
  BY DEF AnswerLost, Failed
<1>2. /\ DOMAIN runs' = DOMAIN runs \cup {new}
      /\ \A r \in DOMAIN runs : runs'[r] = runs[r]
  BY <1>1 DEF NewRun, TypeOK
<1>3. IsFiniteSet(Unpolled) /\ Cardinality(Unpolled) \in Nat
  BY UnpolledFinite
<1>4. new \notin Unpolled /\ Unpolled' \subseteq Unpolled \cup {new}
  <2>1. new \notin DOMAIN runs
    BY DEF TypeOK
  <2> QED BY <1>1, <1>2, <2>1 DEF Unpolled
<1>5. /\ IsFiniteSet(Unpolled \cup {new})
      /\ Cardinality(Unpolled \cup {new}) = Cardinality(Unpolled) + 1
  BY <1>3, <1>4, FS_AddElement
<1>6. Cardinality(Unpolled') <= Cardinality(Unpolled) + 1 /\ Cardinality(Unpolled') \in Nat
  BY <1>4, <1>5, FS_Subset, FS_CardinalityType
<1>7. Cardinality(Unpolled) <= failed_count /\ failed_count \in Nat
  BY DEF NoRunForgotten, Unpolled, TypeOK
<1>8. Cardinality(Unpolled') <= failed_count'
  BY <1>1, <1>3, <1>6, <1>7
<1> QED BY <1>8 DEF NoRunForgotten, Unpolled

\* A step of the sweep or of the cloud makes one more run that nobody polls only with
\* the failure it counts.
LEMMA StepsForgetNone ==
    ASSUME TypeOK, NoRunForgotten, [Next]_vars PROVE NoRunForgotten'
<1> USE DEF counts
<1>1. CASE AnswerLost
  BY <1>1, AnswerLostCounted
<1>2. CASE Accepted
  <2>1. /\ DOMAIN runs' = DOMAIN runs \cup {Len(runs) + 1}
        /\ \A r \in DOMAIN runs : runs'[r] = runs[r]
        /\ DOMAIN active' = DOMAIN active \cup {Len(runs) + 1}
    BY <1>2 DEF Accepted, NewRun, TypeOK
  <2>2. Unpolled' \subseteq Unpolled /\ failed_count' = failed_count
    BY <1>2, <2>1 DEF Unpolled, Accepted
  <2> QED BY <2>2, NoneJoins DEF TypeOK
<1>3. CASE SubmitFails
  <2>1. Unpolled' = Unpolled /\ failed_count' = failed_count + 1
    BY <1>3 DEF SubmitFails, Failed, Unpolled
  <2> QED BY <2>1, NoneJoins DEF TypeOK
<1>4. CASE \E r \in pending : Collect(r) \/ Fail(r)
  <2>1. PICK r \in pending : \E state \in TERMINAL_STATUSES : Settle(r, state)
    BY <1>4 DEF Collect, Fail, TERMINAL_STATUSES
  <2>2. /\ DOMAIN active' = DOMAIN active \ {r} /\ runs' = runs
        /\ runs[r].state \in TERMINAL_STATUSES
    BY <2>1 DEF Settle, WithoutRun
  <2>3. Unpolled' \subseteq Unpolled
    BY <2>2 DEF Unpolled
  <2>4. failed_count' \in Nat /\ failed_count <= failed_count'
    BY <1>4 DEF Collect, Fail, TypeOK
  <2> QED BY <2>3, <2>4, NoneJoins
<1>5. CASE Cloud
  <2>1. PICK r \in DOMAIN runs : StartRun(r) \/ EndRun(r)
    BY <1>5 DEF Cloud
  <2>2. /\ DOMAIN runs' = DOMAIN runs /\ active' = active /\ failed_count' = failed_count
        /\ \A s \in DOMAIN runs \ {r} : runs'[s] = runs[s]
        /\ runs[r].state \notin TERMINAL_STATUSES
    BY <2>1 DEF StartRun, EndRun, TERMINAL_STATUSES
  <2>3. Unpolled' \subseteq Unpolled
    BY <2>2 DEF Unpolled
  <2> QED BY <2>2, <2>3, NoneJoins DEF TypeOK
<1>6. CASE UNCHANGED <<runs, active, failed_count>>
  BY <1>6 DEF NoRunForgotten
<1> QED BY <1>1, <1>2, <1>3, <1>4, <1>5, <1>6
  DEF Next, Client, Upload, Refused, FillEnds, Wait, EndPass, NoNews, vars

\* A run that goes on is polled, but for the runs whose submit was not answered, and
\* each of these was counted as failed: however many batches, runs and lost answers.
THEOREM RunsArePolled == Spec => []NoRunForgotten
<1>1. Init => NoRunForgotten
  <2> SUFFICES ASSUME Init PROVE NoRunForgotten
    OBVIOUS
  <2>1. Unpolled = {} /\ failed_count = 0
    BY DEF Init, Unpolled
  <2> QED BY <2>1, FS_EmptySet DEF NoRunForgotten, Unpolled
<1>2. Inductive => TypeOK
  BY DEF Inductive
<1>3. TypeOK /\ NoRunForgotten /\ [Next]_vars => NoRunForgotten'
  BY StepsForgetNone
<1> QED BY <1>1, <1>2, <1>3, SweepInvariant, PTL DEF Spec

----------------------------------------------------------------------------
(* Where the combinations of a config are: in one call or batch *)

OnlyAt(seq, combo, i) ==
    i \in DOMAIN seq /\ \A j \in DOMAIN seq : (combo \in SqlCombos(seq[j])) <=> (j = i)
Nowhere(seq, combo) == \A j \in DOMAIN seq : combo \notin SqlCombos(seq[j])
Once(here, there, combo) ==
    \/ (\E i \in DOMAIN here : OnlyAt(here, combo, i)) /\ Nowhere(there, combo)
    \/ Nowhere(here, combo) /\ \E i \in DOMAIN there : OnlyAt(there, combo, i)

LEMMA OnceCounted ==
    ASSUME NEW here, NEW there, NEW combo, Once(here, there, combo)
    PROVE  Cardinality({i \in DOMAIN here : combo \in SqlCombos(here[i])})
             + Cardinality({i \in DOMAIN there : combo \in SqlCombos(there[i])}) = 1
<1>1. ASSUME NEW seq, Nowhere(seq, combo)
      PROVE  Cardinality({i \in DOMAIN seq : combo \in SqlCombos(seq[i])}) = 0
  <2>1. {i \in DOMAIN seq : combo \in SqlCombos(seq[i])} = {}
    BY <1>1 DEF Nowhere
  <2> QED BY <2>1, FS_EmptySet
<1>2. ASSUME NEW seq, NEW i, OnlyAt(seq, combo, i)
      PROVE  Cardinality({j \in DOMAIN seq : combo \in SqlCombos(seq[j])}) = 1
  <2>1. {j \in DOMAIN seq : combo \in SqlCombos(seq[j])} = {i}
    BY <1>2 DEF OnlyAt
  <2> QED BY <2>1, FS_Singleton
<1> QED BY <1>1, <1>2 DEF Once

\* A call whose config is kept becomes a batch.
LEMMA OnceKept ==
    ASSUME NEW S, NEW here \in Seq(S), here # <<>>, NEW there \in Seq(S), NEW combo,
           Once(here, there, combo)
    PROVE  Once(Tail(here), Append(there, Head(here)), combo)
<1> DEFINE rest == Tail(here)
           more == Append(there, Head(here))
<1> SUFFICES Once(rest, more, combo)
  OBVIOUS
<1>1. PICK N \in Nat, M \in Nat : /\ DOMAIN here = 1..(N + 1) /\ DOMAIN rest = 1..N
                                  /\ DOMAIN there = 1..M /\ DOMAIN more = 1..(M + 1)
  <2>1. Len(here) \in Nat /\ Len(here) # 0 /\ Len(there) \in Nat
    OBVIOUS
  <2>2. PICK N \in Nat : N = Len(here) - 1
    BY <2>1
  <2>3. DOMAIN here = 1..(N + 1) /\ DOMAIN rest = 1..N
    BY <2>1, <2>2
  <2> QED BY <2>1, <2>3
<1>2. /\ \A j \in 1..N : rest[j] = here[j + 1] /\ j + 1 \in 1..(N + 1)
      /\ \A j \in 1..M : more[j] = there[j] /\ j \in 1..(M + 1)
      /\ more[M + 1] = here[1] /\ 1 \in 1..(N + 1) /\ M + 1 \in 1..(M + 1)
  <2>1. Len(there) = M
    BY <1>1
  <2> QED BY <1>1, <2>1
<1>3. /\ \A j \in 1..(M + 1) : j = M + 1 \/ j \in 1..M
      /\ \A j \in 1..(N + 1) : j = 1 \/ (j - 1 \in 1..N /\ (j - 1) + 1 = j)
      /\ \A j, i \in 1..N : j + 1 = i + 1 <=> j = i
      /\ \A j \in 1..N : j + 1 # 1
      /\ \A j \in 1..M : j # M + 1
  OBVIOUS
<1> HIDE DEF rest, more
<1>4. CASE Nowhere(here, combo) /\ \E i \in DOMAIN there : OnlyAt(there, combo, i)
  <2>1. Nowhere(rest, combo)
    BY <1>1, <1>2, <1>4 DEF Nowhere
  <2>0. PICK i \in DOMAIN there : OnlyAt(there, combo, i)
    BY <1>4
  <2>2. i \in 1..M /\ \A j \in 1..M : (combo \in SqlCombos(there[j])) <=> (j = i)
    BY <1>1, <2>0 DEF OnlyAt
  <2>3. combo \notin SqlCombos(more[M + 1])
    BY <1>1, <1>2, <1>4 DEF Nowhere
  <2>4. OnlyAt(more, combo, i)
    BY <1>1, <1>2, <1>3, <2>2, <2>3 DEF OnlyAt
  <2> QED BY <2>1, <2>4 DEF Once, OnlyAt
<1>5. CASE (\E i \in DOMAIN here : OnlyAt(here, combo, i)) /\ Nowhere(there, combo)
  <2>0. PICK i \in DOMAIN here : OnlyAt(here, combo, i)
    BY <1>5
  <2>1. i \in 1..(N + 1) /\ \A j \in 1..(N + 1) : (combo \in SqlCombos(here[j])) <=> (j = i)
    BY <1>1, <2>0 DEF OnlyAt
  <2>2. \A j \in 1..M : combo \notin SqlCombos(more[j])
    BY <1>1, <1>2, <1>5 DEF Nowhere
  <2>3. CASE i = 1
    <3>1. Nowhere(rest, combo)
      BY <1>1, <1>2, <1>3, <2>1, <2>3 DEF Nowhere
    <3>2. OnlyAt(more, combo, M + 1)
      BY <1>1, <1>2, <1>3, <2>1, <2>2, <2>3 DEF OnlyAt
    <3> QED BY <3>1, <3>2 DEF Once, OnlyAt
  <2>4. CASE i # 1
    <3>1. PICK h \in 1..N : i = h + 1
      <4>1. i - 1 \in 1..N /\ (i - 1) + 1 = i
        BY <1>3, <2>1, <2>4
      <4> QED BY <4>1
    <3>2. OnlyAt(rest, combo, h)
      BY <1>1, <1>2, <1>3, <2>1, <3>1 DEF OnlyAt
    <3>3. Nowhere(more, combo)
      BY <1>1, <1>2, <1>3, <2>1, <2>2, <2>4 DEF Nowhere
    <3> QED BY <3>2, <3>3 DEF Once, OnlyAt
  <2> QED BY <2>3, <2>4
<1> QED BY <1>4, <1>5 DEF Once

\* A call is replaced by calls for pieces of its config.
LEMMA OnceSplit ==
    ASSUME NEW S, NEW here \in Seq(S), here # <<>>, NEW there \in Seq(S), NEW combo,
           NEW pieces \in Seq(S), Once(here, there, combo),
           combo \notin SqlCombos(Head(here)) => Nowhere(pieces, combo),
           combo \in SqlCombos(Head(here)) => \E n \in DOMAIN pieces : OnlyAt(pieces, combo, n)
    PROVE  Once(pieces \o Tail(here), there, combo)
<1> DEFINE rest == Tail(here)
           more == pieces \o rest
<1> SUFFICES Once(more, there, combo)
  OBVIOUS
<1>1. PICK N \in Nat, P \in Nat : /\ DOMAIN here = 1..(N + 1) /\ DOMAIN rest = 1..N
                                  /\ DOMAIN pieces = 1..P /\ DOMAIN more = 1..(P + N)
  <2>1. Len(here) \in Nat /\ Len(here) # 0 /\ Len(pieces) \in Nat
    OBVIOUS
  <2>2. PICK N \in Nat : N = Len(here) - 1
    BY <2>1
  <2>3. DOMAIN here = 1..(N + 1) /\ DOMAIN rest = 1..N /\ Len(rest) = N /\ rest \in Seq(S)
    BY <2>1, <2>2
  <2>4. DOMAIN more = 1..(Len(pieces) + N)
    BY <2>1, <2>3
  <2> QED BY <2>1, <2>3, <2>4
<1>2. /\ \A j \in 1..N : rest[j] = here[j + 1] /\ j + 1 \in 1..(N + 1)
      /\ here[1] = Head(here) /\ 1 \in 1..(N + 1)
  BY <1>1
<1>3. /\ \A j \in 1..P : more[j] = pieces[j] /\ j \in 1..(P + N)
      /\ \A j \in 1..N : more[P + j] = rest[j] /\ P + j \in 1..(P + N)
  <2>1. Len(pieces) = P /\ rest \in Seq(S) /\ Len(rest) = N
    BY <1>1
  <2> HIDE DEF rest
  <2>2. \A j \in 1..P : j \in 1..(P + N)
    OBVIOUS
  <2>3. \A j \in 1..N : P + j \in 1..(P + N) /\ ~(P + j <= P) /\ (P + j) - P = j
    OBVIOUS
  <2> QED BY <2>1, <2>2, <2>3
<1>4. /\ \A j \in 1..(P + N) : j \in 1..P \/ \E h \in 1..N : j = P + h
      /\ \A j \in 1..(N + 1) : j = 1 \/ \E h \in 1..N : j = h + 1
      /\ \A j, i \in 1..N : (j + 1 = i + 1 <=> j = i) /\ (P + j = P + i <=> j = i)
      /\ \A j \in 1..N : j + 1 # 1 /\ P + j \notin 1..P
  <2>1. \A j \in 1..(P + N) : j \in 1..P \/ (j - P \in 1..N /\ j = P + (j - P))
    OBVIOUS
  <2>2. \A j \in 1..(N + 1) : j = 1 \/ (j - 1 \in 1..N /\ j = (j - 1) + 1)
    OBVIOUS
  <2>3. \A j, i \in 1..N : (j + 1 = i + 1 <=> j = i) /\ (P + j = P + i <=> j = i)
    OBVIOUS
  <2>4. \A j \in 1..N : j + 1 # 1 /\ P + j \notin 1..P
    OBVIOUS
  <2> QED BY <2>1, <2>2, <2>3, <2>4
<1> HIDE DEF rest, more
<1>5. CASE Nowhere(here, combo) /\ \E i \in DOMAIN there : OnlyAt(there, combo, i)
  <2>1. Nowhere(pieces, combo)
    BY <1>1, <1>2, <1>5 DEF Nowhere
  <2>2. \A j \in 1..N : combo \notin SqlCombos(rest[j])
    BY <1>1, <1>2, <1>5 DEF Nowhere
  <2>3. Nowhere(more, combo)
    <3> SUFFICES ASSUME NEW j \in 1..(P + N) PROVE combo \notin SqlCombos(more[j])
      BY <1>1 DEF Nowhere
    <3>1. CASE j \in 1..P
      BY <1>1, <1>3, <2>1, <3>1 DEF Nowhere
    <3>2. CASE j \notin 1..P
      <4>1. PICK h \in 1..N : j = P + h
        BY <1>4, <3>2
      <4> QED BY <1>3, <2>2, <4>1
    <3> QED BY <3>1, <3>2
  <2> QED BY <1>5, <2>3 DEF Once
<1>6. CASE (\E i \in DOMAIN here : OnlyAt(here, combo, i)) /\ Nowhere(there, combo)
  <2>0. PICK i \in DOMAIN here : OnlyAt(here, combo, i)
    BY <1>6
  <2>1. i \in 1..(N + 1) /\ \A j \in 1..(N + 1) : (combo \in SqlCombos(here[j])) <=> (j = i)
    BY <1>1, <2>0 DEF OnlyAt
  <2>2. CASE i = 1
    <3>0. PICK n \in DOMAIN pieces : OnlyAt(pieces, combo, n)
      BY <1>2, <2>1, <2>2
    <3>1. n \in 1..P /\ \A j \in 1..P : (combo \in SqlCombos(pieces[j])) <=> (j = n)
      BY <1>1, <3>0 DEF OnlyAt
    <3>2. \A j \in 1..N : combo \notin SqlCombos(rest[j])
      BY <1>2, <1>4, <2>1, <2>2
    <3>3. OnlyAt(more, combo, n)
      <4> SUFFICES ASSUME NEW j \in 1..(P + N) PROVE (combo \in SqlCombos(more[j])) <=> (j = n)
        BY <1>1, <1>3, <3>1 DEF OnlyAt
      <4>1. CASE j \in 1..P
        BY <1>3, <3>1, <4>1
      <4>2. CASE j \notin 1..P
        <5>1. PICK h \in 1..N : j = P + h
          BY <1>4, <4>2
        <5> QED BY <1>3, <3>1, <3>2, <4>2, <5>1
      <4> QED BY <4>1, <4>2
    <3> QED BY <1>6, <3>3 DEF Once, OnlyAt
  <2>3. CASE i # 1
    <3>1. PICK h \in 1..N : i = h + 1
      BY <1>4, <2>1, <2>3
    <3>2. \A j \in 1..P : combo \notin SqlCombos(pieces[j])
      BY <1>1, <1>2, <2>1, <2>3 DEF Nowhere
    <3>3. \A j \in 1..N : combo \in SqlCombos(rest[j]) <=> j = h
      BY <1>2, <1>4, <2>1, <3>1
    <3>4. OnlyAt(more, combo, P + h)
      <4>0. P + h \in 1..(P + N) /\ P + h \notin 1..P
        BY <1>3, <1>4
      <4> SUFFICES ASSUME NEW j \in 1..(P + N) PROVE (combo \in SqlCombos(more[j])) <=> (j = P + h)
        BY <1>1, <4>0 DEF OnlyAt
      <4>1. CASE j \in 1..P
        BY <1>3, <3>2, <4>0, <4>1
      <4>2. CASE j \notin 1..P
        <5>1. PICK m \in 1..N : j = P + m
          BY <1>4, <4>2
        <5>2. more[j] = rest[m]
          BY <1>3, <5>1
        <5>3. P + m = P + h <=> m = h
          BY <1>4
        <5> QED BY <3>3, <5>1, <5>2, <5>3
      <4> QED BY <4>1, <4>2
    <3> QED BY <1>6, <3>4 DEF Once, OnlyAt
  <2> QED BY <2>2, <2>3
<1> QED BY <1>5, <1>6 DEF Once

----------------------------------------------------------------------------
(* The pieces of a config *)

\* A combination has a value of every SQL parameter.
LEMMA CombosAre ==
    ASSUME NEW config, Named(config), NEW combo
    PROVE  combo \in SqlCombos(config) <=>
              /\ combo = [key \in SqlKeysOf(config) |-> combo[key]]
              /\ \A i \in DOMAIN config : config[i].key \in SqlKeys
                    => combo[config[i].key] \in ToSet(config[i].vals)
<1> DEFINE keys == SqlKeysOf(config)
           all == UNION {ToSet(config[i].vals) : i \in DOMAIN config}
<1>1. ASSUME NEW i \in DOMAIN config PROVE Values(config, config[i].key) = config[i].vals
  <2> DEFINE T == {j \in DOMAIN config : config[j].key = config[i].key}
  <2>1. T = {i}
    BY DEF Named
  <2>2. i \in Nat
    BY DEF Named
  <2>3. Max({i}) = i
    <3>1. {i} \in SUBSET (0..i) /\ {i} # {}
      BY <2>2
    <3> QED BY <2>2, <3>1, MaxIs
  <2> QED BY <2>1, <2>3 DEF Values
<1>2. \A key \in keys : \E i \in DOMAIN config : config[i].key = key /\ key \in SqlKeys
  BY DEF SqlKeysOf
<1>3. \A i \in DOMAIN config : config[i].key \in SqlKeys => config[i].key \in keys
  BY DEF SqlKeysOf
<1>4. \A i \in DOMAIN config : \A v \in ToSet(config[i].vals) : v \in all
  OBVIOUS
<1>5. combo \in SqlCombos(config) <=>
        combo \in [keys -> all] /\ \A key \in keys : combo[key] \in ToSet(Values(config, key))
  BY DEF SqlCombos
<1> HIDE DEF keys, all
<1>6. ASSUME combo \in [keys -> all], \A key \in keys : combo[key] \in ToSet(Values(config, key))
      PROVE  /\ combo = [key \in keys |-> combo[key]]
             /\ \A i \in DOMAIN config : config[i].key \in SqlKeys
                    => combo[config[i].key] \in ToSet(config[i].vals)
  BY <1>1, <1>3, <1>6
<1>7. ASSUME combo = [key \in keys |-> combo[key]],
             \A i \in DOMAIN config : config[i].key \in SqlKeys
                    => combo[config[i].key] \in ToSet(config[i].vals)
      PROVE  combo \in [keys -> all] /\ \A key \in keys : combo[key] \in ToSet(Values(config, key))
  <2>1. ASSUME NEW key \in keys PROVE combo[key] \in all /\ combo[key] \in ToSet(Values(config, key))
    <3>1. PICK i \in DOMAIN config : config[i].key = key /\ key \in SqlKeys
      BY <1>2
    <3>2. combo[key] \in ToSet(config[i].vals)
      BY <1>7, <3>1
    <3> QED BY <1>1, <1>4, <3>1, <3>2
  <2> QED BY <1>7, <2>1
<1> QED BY <1>5, <1>6, <1>7 DEF keys

\* The longest list of the parameters that can be split, or the first of these.
LEMMA WidestIs ==
    ASSUME NEW config, Named(config), Splittable(config) # {}
    PROVE  Widest(config) \in Splittable(config)
<1> DEFINE S == Splittable(config)
           L(i) == Len(config[i].vals)
           Best(k, m) == m \in S \cap (1..k) /\ \A j \in S \cap (1..k) : L(j) <= L(m)
<1>1. PICK N \in Nat : DOMAIN config = 1..N
  BY DEF Named
<1>2. S \subseteq 1..N /\ \A i \in S : L(i) \in Nat
  BY <1>1 DEF Splittable, Named
<1> HIDE DEF S, L
<1> DEFINE Good == {k \in 0..N : S \cap (1..k) = {} \/ \E m : Best(k, m)}
<1>3. 0 \in Good
  OBVIOUS
<1>4. ASSUME NEW k \in 1..N, k - 1 \in Good PROVE k \in Good
  <2>1. \A j : j \in 1..k <=> j \in 1..(k - 1) \/ j = k
    OBVIOUS
  <2>2. CASE k \notin S
    <3>1. S \cap (1..k) = S \cap (1..(k - 1))
      BY <2>1, <2>2
    <3> QED BY <1>4, <3>1
  <2>3. CASE k \in S /\ S \cap (1..(k - 1)) = {}
    <3>1. S \cap (1..k) = {k}
      BY <2>1, <2>3
    <3>2. L(k) <= L(k)
      BY <1>2, <2>3
    <3>3. Best(k, k)
      BY <3>1, <3>2
    <3> QED BY <3>3
  <2>4. CASE k \in S /\ \E m : Best(k - 1, m)
    <3>1. PICK m : Best(k - 1, m)
      BY <2>4
    <3>2. m \in S \cap (1..k) /\ k \in S \cap (1..k)
      BY <2>1, <2>4, <3>1
    <3>3. L(m) <= L(k) \/ L(k) <= L(m)
      BY <1>2, <3>2
    <3>4. CASE L(k) <= L(m)
      <4>1. Best(k, m)
        BY <2>1, <3>1, <3>2, <3>4
      <4> QED BY <4>1
    <3>5. CASE L(m) <= L(k)
      <4>1. ASSUME NEW j \in S \cap (1..k) PROVE L(j) <= L(k)
        <5>1. j = k \/ L(j) <= L(m)
          BY <2>1, <3>1
        <5>2. PICK a \in Nat, b \in Nat, c \in Nat : a = L(j) /\ b = L(m) /\ c = L(k)
          BY <1>2, <3>2
        <5>3. a = c \/ (a <= b /\ b <= c)
          BY <3>5, <5>1, <5>2
        <5>4. a <= c
          BY <5>3
        <5> QED BY <5>2, <5>4
      <4>2. Best(k, k)
        BY <3>2, <4>1
      <4> QED BY <4>2
    <3> QED BY <3>3, <3>4, <3>5
  <2> QED BY <1>4, <2>2, <2>3, <2>4
<1>5. N \in Good
  <2>1. N \in 0..N
    OBVIOUS
  <2> HIDE DEF Good
  <2> QED BY <1>3, <1>4, <2>1, FoundAll
<1>6. PICK m \in S : \A j \in S : L(j) <= L(m)
  <2>1. S \cap (1..N) = S
    BY <1>2
  <2>2. S # {}
    BY DEF S
  <2> QED BY <1>5, <2>1, <2>2
<1> DEFINE T == {i \in S : \A j \in S : L(j) <= L(i)}
<1>7. T \in SUBSET Nat /\ m \in T
  <2>1. 1..N \subseteq Nat
    OBVIOUS
  <2>2. T \subseteq S
    OBVIOUS
  <2>3. m \in T
    BY <1>6
  <2> HIDE DEF T
  <2> QED BY <1>2, <2>1, <2>2, <2>3
<1>8. Widest(config) = Min(T)
  BY DEF Widest, S, L
<1> HIDE DEF T
<1>9. Min(T) \in T
  BY <1>7, MinIs
<1> QED BY <1>8, <1>9 DEF T, S

\* A piece has one value of the parameter that is split, and the others as they are.
PieceOf(config, i, n) == [config EXCEPT ![i].vals = Only(config[i].vals[n])]

LEMMA PieceIs ==
    ASSUME NEW config, Named(config), NEW i \in DOMAIN config, config[i].key \in SqlKeys,
           NEW n \in DOMAIN config[i].vals, NEW piece, piece = PieceOf(config, i, n)
    PROVE  /\ Named(piece)
           /\ \A combo : combo \in SqlCombos(piece) <=>
                combo \in SqlCombos(config) /\ combo[config[i].key] = config[i].vals[n]
<1> DEFINE v == config[i].vals[n]
<1>1. PICK N \in Nat : DOMAIN config = 1..N
  BY DEF Named
<1>2. DOMAIN piece = 1..N
  BY <1>1 DEF PieceOf
<1>3. \A j \in 1..N : j # i => piece[j] = config[j]
  BY <1>1 DEF PieceOf
<1>4. piece[i] = [config[i] EXCEPT !.vals = <<v>>]
  BY <1>1 DEF Only, PieceOf
<1>5. DOMAIN config[i] = {"section", "key", "vals"}
  BY DEF Named
<1>6. DOMAIN piece[i] = {"section", "key", "vals"} /\ piece[i].key = config[i].key
      /\ piece[i].vals = <<v>>
  BY <1>4, <1>5
<1>7. ToSet(<<v>>) = {v} /\ <<v>> \in Seq({v}) /\ IsInjective(<<v>>)
  BY DEF ToSet, IsInjective
<1> HIDE DEF v
<1>8. \A j \in 1..N : piece[j].key = config[j].key
  BY <1>3, <1>6
<1>9. Named(piece)
  <2>1. ASSUME NEW j \in 1..N
        PROVE  /\ DOMAIN piece[j] = {"section", "key", "vals"}
               /\ piece[j].vals \in Seq(ToSet(piece[j].vals)) /\ IsInjective(piece[j].vals)
    <3>1. CASE j = i
      BY <1>6, <1>7, <3>1
    <3>2. CASE j # i
      BY <1>1, <1>3, <3>2 DEF Named
    <3> QED BY <3>1, <3>2
  <2>2. \A j, k \in 1..N : piece[j].key = piece[k].key => j = k
    BY <1>1, <1>8 DEF Named
  <2>3. piece \in Seq(ToSet(piece))
    <3>1. \A j \in 1..N : piece[j] \in ToSet(piece)
      BY <1>2 DEF ToSet
    <3>2. piece = [j \in 1..N |-> piece[j]]
      BY <1>1 DEF PieceOf
    <3>3. \A Q : (\A j \in 1..N : piece[j] \in Q) => [j \in 1..N |-> piece[j]] \in Seq(Q)
      OBVIOUS
    <3>4. [j \in 1..N |-> piece[j]] \in Seq(ToSet(piece))
      <4> DEFINE Q == ToSet(piece)
      <4>1. \A j \in 1..N : piece[j] \in Q
        BY <3>1
      <4> HIDE DEF Q
      <4>2. [j \in 1..N |-> piece[j]] \in Seq(Q)
        BY <3>3, <4>1
      <4> QED BY <4>2 DEF Q
    <3> QED BY <3>2, <3>4
  <2> QED BY <1>2, <2>1, <2>2, <2>3 DEF Named
<1>10. SqlKeysOf(piece) = SqlKeysOf(config)
  BY <1>1, <1>2, <1>8 DEF SqlKeysOf
<1>11. ASSUME NEW combo
       PROVE  combo \in SqlCombos(piece) <=>
                combo \in SqlCombos(config) /\ combo[config[i].key] = v
  <2>1. v \in ToSet(config[i].vals)
    BY DEF ToSet, v
  <2>2. combo[config[i].key] \in ToSet(piece[i].vals) <=> combo[config[i].key] = v
    BY <1>6, <1>7
  <2>3. ASSUME NEW j \in 1..N, j # i PROVE piece[j].vals = config[j].vals
    BY <1>3, <2>3
  <2>4. i \in 1..N
    BY <1>1
  <2>5. (\A j \in 1..N : piece[j].key \in SqlKeys => combo[piece[j].key] \in ToSet(piece[j].vals))
          <=> /\ \A j \in 1..N : config[j].key \in SqlKeys
                        => combo[config[j].key] \in ToSet(config[j].vals)
              /\ combo[config[i].key] = v
    BY <1>8, <2>1, <2>2, <2>3, <2>4
  <2>6. combo \in SqlCombos(piece) <=>
            /\ combo = [key \in SqlKeysOf(config) |-> combo[key]]
            /\ \A j \in 1..N : piece[j].key \in SqlKeys => combo[piece[j].key] \in ToSet(piece[j].vals)
    <3>1. combo \in SqlCombos(piece) <=>
            /\ combo = [key \in SqlKeysOf(piece) |-> combo[key]]
            /\ \A j \in DOMAIN piece : piece[j].key \in SqlKeys
                    => combo[piece[j].key] \in ToSet(piece[j].vals)
      BY ONLY <1>9, CombosAre
    <3> QED BY ONLY <1>2, <1>10, <3>1
  <2>7. combo \in SqlCombos(config) <=>
            /\ combo = [key \in SqlKeysOf(config) |-> combo[key]]
            /\ \A j \in 1..N : config[j].key \in SqlKeys
                        => combo[config[j].key] \in ToSet(config[j].vals)
    BY <1>1, CombosAre
  <2> QED BY <2>5, <2>6, <2>7
<1> QED BY <1>9, <1>11 DEF v

\* The pieces divide the combinations of their config.
LEMMA PiecesSplit ==
    ASSUME NEW config, Named(config), Splittable(config) # {}
    PROVE  /\ Pieces(config) \in Seq(ToSet(Pieces(config)))
           /\ \A n \in DOMAIN Pieces(config) : Named(Pieces(config)[n])
           /\ \A combo :
                /\ combo \notin SqlCombos(config) => Nowhere(Pieces(config), combo)
                /\ combo \in SqlCombos(config)
                      => \E n \in DOMAIN Pieces(config) : OnlyAt(Pieces(config), combo, n)
<1> DEFINE i == Widest(config)
           vals == config[i].vals
           piece(n) == PieceOf(config, i, n)
<1>1. i \in DOMAIN config /\ config[i].key \in SqlKeys
  BY WidestIs DEF Splittable
<1>2. vals \in Seq(ToSet(vals)) /\ IsInjective(vals)
  BY <1>1 DEF Named
<1>3. PICK N \in Nat : DOMAIN vals = 1..N
  BY <1>2
<1>4. Pieces(config) = [n \in 1..N |-> piece(n)]
  BY <1>3 DEF Pieces, PieceOf
<1>5. ASSUME NEW n \in 1..N
      PROVE  /\ Named(piece(n))
             /\ \A combo : combo \in SqlCombos(piece(n)) <=>
                   combo \in SqlCombos(config) /\ combo[config[i].key] = vals[n]
  <2>1. n \in DOMAIN config[i].vals
    BY <1>3
  <2> QED BY <1>1, <2>1, PieceIs
<1>6. ASSUME NEW combo \in SqlCombos(config)
      PROVE  \E n \in 1..N : combo[config[i].key] = vals[n]
  <2>1. combo[config[i].key] \in ToSet(vals)
    BY <1>1, CombosAre
  <2> QED BY <1>3, <2>1 DEF ToSet
<1>7. \A n, m \in 1..N : vals[n] = vals[m] => n = m
  BY <1>2, <1>3 DEF IsInjective
<1> HIDE DEF i, vals, piece
<1> DEFINE pieces == Pieces(config)
<1>8. DOMAIN pieces = 1..N /\ \A n \in 1..N : pieces[n] = piece(n)
  BY <1>4
<1>9. pieces \in Seq(ToSet(pieces))
  <2>1. \A n \in 1..N : piece(n) \in ToSet(pieces)
    BY <1>8 DEF ToSet
  <2> DEFINE Q == ToSet(pieces)
  <2>2. \A n \in 1..N : piece(n) \in Q
    BY <2>1
  <2> HIDE DEF Q
  <2>3. [n \in 1..N |-> piece(n)] \in Seq(Q)
    BY <2>2
  <2> QED BY <1>4, <2>3 DEF Q
<1>10. \A n \in DOMAIN pieces : Named(pieces[n])
  BY <1>5, <1>8
<1> HIDE DEF pieces
<1>11. ASSUME NEW combo, combo \notin SqlCombos(config) PROVE Nowhere(pieces, combo)
  BY <1>5, <1>8, <1>11 DEF Nowhere
<1>12. ASSUME NEW combo, combo \in SqlCombos(config)
       PROVE  \E n \in DOMAIN pieces : OnlyAt(pieces, combo, n)
  <2>1. PICK n \in 1..N : combo[config[i].key] = vals[n]
    BY <1>6, <1>12 DEF i, vals
  <2>2. \A m \in 1..N : combo \in SqlCombos(pieces[m]) <=> vals[m] = vals[n]
    BY <1>5, <1>8, <1>12, <2>1
  <2>3. OnlyAt(pieces, combo, n)
    BY <1>7, <1>8, <2>2 DEF OnlyAt
  <2> QED BY <1>8, <2>3
<1> QED BY <1>9, <1>10, <1>11, <1>12 DEF pieces

----------------------------------------------------------------------------
(* The calls and batches of a run *)

SplitInv ==
    /\ calls \in Seq(ToSet(calls)) /\ batches \in Seq(ToSet(batches))
    /\ \A j \in DOMAIN calls : Named(calls[j])
    /\ \A combo \in SqlCombos(raw_config) : Once(calls, batches, combo)

LEMMA SeqIn ==
    ASSUME NEW S, NEW seq \in Seq(S)
    PROVE  seq \in Seq(ToSet(seq)) /\ ToSet(seq) \subseteq S
<1>1. PICK N \in Nat : seq = [j \in 1..N |-> seq[j]] /\ DOMAIN seq = 1..N
  OBVIOUS
<1> DEFINE Q == ToSet(seq)
<1>2. \A j \in 1..N : seq[j] \in Q
  BY <1>1 DEF ToSet
<1>3. Q \subseteq S
  BY DEF ToSet
<1> HIDE DEF Q
<1>4. [j \in 1..N |-> seq[j]] \in Seq(Q)
  BY <1>2
<1> QED BY <1>1, <1>3, <1>4 DEF Q

LEMMA SplitStarts == SplitInit => SplitInv
<1> SUFFICES ASSUME SplitInit PROVE SplitInv
  OBVIOUS
<1>1. Named(raw_config)
  BY SplitAssumption DEF SplitInit
<1>2. calls \in Seq({raw_config}) /\ DOMAIN calls = {1} /\ calls[1] = raw_config
  BY DEF SplitInit
<1>3. batches \in Seq({}) /\ DOMAIN batches = {}
  BY DEF SplitInit
<1>4. ASSUME NEW combo \in SqlCombos(raw_config) PROVE Once(calls, batches, combo)
  <2>1. OnlyAt(calls, combo, 1)
    BY <1>2 DEF OnlyAt
  <2>2. Nowhere(batches, combo)
    BY <1>3 DEF Nowhere
  <2> QED BY <1>2, <2>1, <2>2 DEF Once
<1> QED BY <1>1, <1>2, <1>3, <1>4, SeqIn DEF SplitInv

LEMMA SplitGoesOn == SplitInv /\ [SplitNext]_split_vars => SplitInv'
<1> SUFFICES ASSUME SplitInv, [SplitNext]_split_vars PROVE SplitInv'
  OBVIOUS
<1> DEFINE S == ToSet(calls) \cup ToSet(batches)
<1>1. calls \in Seq(S) /\ batches \in Seq(S)
  <2> DEFINE C == ToSet(calls)
             B == ToSet(batches)
  <2>1. calls \in Seq(C) /\ batches \in Seq(B)
    BY DEF SplitInv
  <2> HIDE DEF C, B
  <2>2. \A A, D : Seq(A) \subseteq Seq(A \cup D) /\ Seq(D) \subseteq Seq(A \cup D)
    OBVIOUS
  <2>3. calls \in Seq(C \cup B) /\ batches \in Seq(C \cup B)
    BY <2>1, <2>2
  <2> QED BY <2>3 DEF C, B
<1>2. \A j \in DOMAIN calls : Named(calls[j])
  BY DEF SplitInv
<1>3. \A combo \in SqlCombos(raw_config) : Once(calls, batches, combo)
  BY DEF SplitInv
<1> HIDE DEF S
<1>4. ASSUME calls # <<>>
      PROVE  /\ Named(Head(calls)) /\ Head(calls) \in S /\ Tail(calls) \in Seq(S)
             /\ \A j \in DOMAIN Tail(calls) : Named(Tail(calls)[j])
  <2>1. 1 \in DOMAIN calls /\ Head(calls) = calls[1] /\ Tail(calls) \in Seq(S)
    BY <1>1, <1>4
  <2>2. \A j \in DOMAIN Tail(calls) : j + 1 \in DOMAIN calls /\ Tail(calls)[j] = calls[j + 1]
    BY <1>1, <1>4
  <2>3. Head(calls) \in S
    BY <1>1, <2>1
  <2> QED BY <1>2, <2>1, <2>2, <2>3
<1>5. CASE Keep
  <2>1. calls # <<>> /\ batches' = Append(batches, Head(calls)) /\ calls' = Tail(calls)
        /\ raw_config' = raw_config
    BY <1>5 DEF Keep
  <2>2. calls' \in Seq(S) /\ batches' \in Seq(S)
    BY <1>1, <1>4, <2>1
  <2>3. \A j \in DOMAIN calls' : Named(calls'[j])
    BY <1>4, <2>1
  <2>4. ASSUME NEW combo \in SqlCombos(raw_config) PROVE Once(calls', batches', combo)
    BY <1>1, <1>3, <2>1, OnceKept
  <2>5. \A combo \in SqlCombos(raw_config') : Once(calls', batches', combo)
    BY <2>1, <2>4
  <2>6. calls' \in Seq(ToSet(calls')) /\ batches' \in Seq(ToSet(batches'))
    BY <2>2, SeqIn
  <2> QED BY <2>3, <2>5, <2>6 DEF SplitInv
<1>6. CASE Split
  <2> DEFINE pieces == Pieces(Head(calls))
             T == S \cup ToSet(pieces)
  <2>1. calls # <<>> /\ Splittable(Head(calls)) # {} /\ calls' = pieces \o Tail(calls)
        /\ raw_config' = raw_config /\ batches' = batches
    BY <1>6 DEF Split
  <2>2. pieces \in Seq(ToSet(pieces)) /\ \A n \in DOMAIN pieces : Named(pieces[n])
    BY <1>4, <2>1, PiecesSplit
  <2>3. ASSUME NEW combo
        PROVE  /\ combo \notin SqlCombos(Head(calls)) => Nowhere(pieces, combo)
               /\ combo \in SqlCombos(Head(calls))
                     => \E n \in DOMAIN pieces : OnlyAt(pieces, combo, n)
    BY <1>4, <2>1, PiecesSplit
  <2> HIDE DEF pieces
  <2>4. calls \in Seq(T) /\ batches \in Seq(T) /\ pieces \in Seq(T) /\ Tail(calls) \in Seq(T)
    <3> DEFINE Q == ToSet(pieces)
    <3>1. pieces \in Seq(Q)
      BY <2>2
    <3> HIDE DEF Q
    <3>2. \A A, D : Seq(A) \subseteq Seq(A \cup D) /\ Seq(D) \subseteq Seq(A \cup D)
      OBVIOUS
    <3>3. /\ calls \in Seq(S \cup Q) /\ batches \in Seq(S \cup Q)
          /\ pieces \in Seq(S \cup Q) /\ Tail(calls) \in Seq(S \cup Q)
      BY <1>1, <1>4, <2>1, <3>1, <3>2
    <3> QED BY <3>3 DEF Q
  <2> HIDE DEF T
  <2>5. calls' \in Seq(T) /\ batches' \in Seq(T)
    BY <2>1, <2>4
  <2>6. ASSUME NEW j \in DOMAIN calls' PROVE Named(calls'[j])
    <3> DEFINE rest == Tail(calls)
    <3>1. rest \in Seq(T) /\ \A n \in DOMAIN rest : Named(rest[n])
      BY <1>4, <2>1, <2>4
    <3> HIDE DEF rest
    <3>2. calls' = pieces \o rest
      BY <2>1 DEF rest
    <3>3. \/ calls'[j] = pieces[j] /\ j \in DOMAIN pieces
          \/ calls'[j] = rest[j - Len(pieces)] /\ j - Len(pieces) \in DOMAIN rest
      BY <2>4, <3>1, <3>2
    <3> QED BY <2>2, <3>1, <3>3
  <2>7. ASSUME NEW combo \in SqlCombos(raw_config) PROVE Once(calls', batches', combo)
    <3>1. Once(calls, batches, combo)
      BY <1>3
    <3>2. Once(pieces \o Tail(calls), batches, combo)
      BY <2>1, <2>3, <2>4, <3>1, OnceSplit
    <3> QED BY <2>1, <3>2
  <2>8. \A combo \in SqlCombos(raw_config') : Once(calls', batches', combo)
    BY <2>1, <2>7
  <2>9. calls' \in Seq(ToSet(calls')) /\ batches' \in Seq(ToSet(batches'))
    BY <2>5, SeqIn
  <2> QED BY <2>6, <2>8, <2>9 DEF SplitInv
<1>7. CASE UNCHANGED split_vars
  <2>1. calls' = calls /\ batches' = batches /\ raw_config' = raw_config
    BY <1>7 DEF split_vars
  <2>2. \A combo \in SqlCombos(raw_config') : Once(calls', batches', combo)
    BY <1>3, <2>1
  <2> QED BY <1>2, <2>1, <2>2 DEF SplitInv
<1> QED BY <1>5, <1>6, <1>7 DEF SplitNext

\* EveryComboOnce: split_config_into_batches puts every SQL combination of the
\* sweep in one batch and in no two, for any configs and batch sizes.
THEOREM CombosInOneBatch == SplitSpec => []EveryComboOnce
<1>1. SplitInv => EveryComboOnce
  BY OnceCounted DEF SplitInv, EveryComboOnce
<1> QED BY <1>1, SplitStarts, SplitGoesOn, PTL DEF SplitSpec
=============================================================================
