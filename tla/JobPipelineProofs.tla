------------------------- MODULE JobPipelineProofs -------------------------
(***************************************************************************)
(* Proofs about JobPipeline, for any number of jobs, hook calls, worker    *)
(* slots, DELETE requests and sweep ticks, and any fault bounds.           *)
(*                                                                         *)
(* The route: the record updates keep their types (RowOps .. ToldTyped),   *)
(* so TypeOK is inductive; a step changes only what Frame says, so a row   *)
(* changes only as RowChange says; from that, one lemma per conjunct of    *)
(* PipelineInv; the properties are its consequences.  Two more invariants  *)
(* follow one job through its runs: OutputInv (its output) and CountInv    *)
(* (what each attempt and each stall has cost).  The last section proves   *)
(* the same kind of facts of compress(), which the pipeline takes for one  *)
(* step: CompressionEngine, whose names are its own.                       *)
(***************************************************************************)
EXTENDS JobPipeline, CompressionEngine, TLAPS

-----------------------------------------------------------------------------
(* The record updates of the actions stay within their types.              *)

\* An update of a row's columns is a row.
LEMMA RowOps ==
    ASSUME NEW r \in Row
    PROVE  /\ RejectedRow(r) \in Row
           /\ AcceptedRow(r) \in Row
           /\ EndedRow(r) \in Row
           /\ SucceededRow(r) \in Row
BY DEF Row, Clock, Keys, RejectedRow, AcceptedRow, EndedRow, SucceededRow

\* What a copy's steps make of an upload is where an upload may be; one that
\* has left tusd does not go back there.
LEMMA SourceOps ==
    ASSUME NEW f \in Source
    PROVE  /\ {Truncated(f), Filled(f), Left(f), Spoiled(f)} \subseteq Source
           /\ f \in {"final", "torn", "gone"} =>
                 {Truncated(f), Filled(f), Spoiled(f)} \subseteq {"final", "torn", "gone"}
           /\ "gone" \in {Filled(f), Spoiled(f)} => f = "gone"
           /\ Truncated(f) # "gone"
           /\ Left(f) \in {"final", "torn"}
BY DEF Source, Truncated, Filled, Left, Spoiled

\* So is a row whose deadlines are set or have passed.
LEMMA RowClocks ==
    ASSUME NEW r \in Row
    PROVE  /\ [r EXCEPT !.upload = "ahead"] \in Row
           /\ [r EXCEPT !.upload = "past"] \in Row
           /\ [r EXCEPT !.result = "past"] \in Row
BY DEF Row, Clock

\* What BullMQ makes of an entry is an entry.
LEMMA EntryOps ==
    ASSUME NEW e \in Entry
    PROVE  /\ Added(e) \in Entry
           /\ Completed(e) \in Entry
           /\ Failed(e) \in Entry
           /\ \A w \in Slots : Held(e, w) \in Entry
           /\ \A w, o : Settled(e, w, o) \in Entry
           /\ e.stalls < MaxStalled => Stalled(e) \in Entry
<1>1. Added(e) \in Entry  BY DEF Entry, Added
<1>2. Completed(e) \in Entry  BY DEF Entry, Completed
<1>3. Failed(e) \in Entry  BY DEF Entry, Failed
<1>4. \A w \in Slots : Held(e, w) \in Entry  BY DEF Entry, Held
<1>5. Retried(e) \in Entry
  <2>1. e.attempts + 1 \in Nat  BY DEF Entry
  <2> QED  BY <2>1 DEF Entry, Retried
<1>6. \A w, o : Settled(e, w, o) \in Entry  BY <1>2, <1>5 DEF Settled
<1>7. ASSUME e.stalls < MaxStalled PROVE Stalled(e) \in Entry
  <2>1. e.stalls + 1 \in 0 .. MaxStalled  BY <1>7, PipelineAssumption DEF Entry
  <2> QED  BY <2>1 DEF Entry, Stalled
<1> QED  BY <1>1, <1>2, <1>3, <1>4, <1>6, <1>7

\* A run of processJob stays well formed; one that writes or publishes has
\* an outcome, also after a call in the try or catch block has thrown.
LEMMA SlotOps ==
    /\ IdleSlot \in Slot
    /\ \A j \in Jobs : Started(j) \in Slot
    /\ \A r \in Slot :
        /\ r.pc \in {"write", "publish"} => r.outcome \in Outcome
        /\ At(r, "announce") \in Slot
        /\ At(r, "compress") \in Slot
        /\ At(r, "settle") \in Slot
        /\ r.outcome \in Outcome => At(r, "publish") \in Slot
        /\ Aborted(r) \in Slot
        /\ AfterThrow(r) \in Slot
        /\ \A o \in Outcome : Ended(r, o) \in Slot
<1>1. IdleSlot \in Slot  BY DEF Slot, Run, IdleSlot
<1>2. \A j \in Jobs : Started(j) \in Slot  BY DEF Slot, Run, Started
<1>3. ASSUME NEW r \in Slot
      PROVE  /\ At(r, "announce") \in Slot
             /\ At(r, "compress") \in Slot
             /\ At(r, "settle") \in Slot
             /\ r.outcome \in Outcome => At(r, "publish") \in Slot
             /\ r.pc \in {"write", "publish"} => r.outcome \in Outcome
  BY DEF Slot, Run, At
<1>4. ASSUME NEW r \in Slot, NEW o \in Outcome PROVE Ended(r, o) \in Slot
  BY DEF Slot, Run, Ended
<1>5. ASSUME NEW r \in Slot PROVE Aborted(r) \in Slot  BY DEF Slot, Run, Aborted
<1>6. ASSUME NEW r \in Slot PROVE AfterThrow(r) \in Slot
  <2>1. "failed" \in Outcome  BY DEF Outcome
  <2>2. [r EXCEPT !.pc = "settle", !.outcome = "failed"] \in Slot  BY <2>1 DEF Slot, Run
  <2> QED  BY <2>1, <2>2, <1>4 DEF AfterThrow
<1> QED  BY <1>1, <1>2, <1>3, <1>4, <1>5, <1>6

\* The results a worker may write are statuses of the Job table.
LEMMA OutcomesAreStatuses ==
    Outcome \subseteq Status /\ {"succeeded", "failed", "canceled"} \subseteq Outcome
BY DEF Outcome, Status, Lifecycle!Status

\* The steps of a sweep tick keep it well formed.
LEMMA SweepOps ==
    /\ IdleSweep \in Sweep
    /\ \A r \in Sweep : [r EXCEPT !.pc = "mark"] \in Sweep /\ [r EXCEPT !.pc = "unlink"] \in Sweep
BY DEF Sweep, IdleSweep

\* Counting a message keeps the counts between 0 and 2.
LEMMA ToldTyped ==
    ASSUME NEW f \in [Outcome -> 0 .. 2], NEW o
    PROVE  Told(f, o) \in [Outcome -> 0 .. 2]
<1>1. CASE o \in Outcome
  <2>1. (IF f[o] = 0 THEN 1 ELSE 2) \in 0 .. 2  OBVIOUS
  <2>2. Told(f, o) = [x \in Outcome |-> IF x = o THEN (IF f[o] = 0 THEN 1 ELSE 2) ELSE f[x]]
    BY <1>1 DEF Told
  <2> QED  BY <2>1, <2>2
<1>2. CASE o \notin Outcome
  BY <1>2 DEF Told
<1> QED  BY <1>1, <1>2

-----------------------------------------------------------------------------

\* Type correctness of the pipeline, for any number of jobs and actors.
THEOREM PipelineTyped == Spec => []TypeOK
<1>1. Init => TypeOK
  BY PipelineAssumption DEF Init, TypeOK, Status, Lifecycle!Status, Row, Clock, Keys, Entry, Outcome,
     Source, Call, Slot, Run, Delete, Sweep, IdleCall, IdleSlot, IdleDelete, IdleSweep
<1>2. TypeOK /\ [Next]_vars => TypeOK'
  <2> SUFFICES ASSUME TypeOK, [Next]_vars PROVE TypeOK'
    OBVIOUS
  <2>a. /\ status \in [Jobs -> Status]
        /\ sweep \in [Sweepers -> Sweep]
        /\ row \in [Jobs -> Row]
        /\ entry \in [Jobs -> Entry]
        /\ slot \in [Slots -> Slot]
        /\ outcomes \in [Jobs -> [Outcome -> 0 .. 2]]
    BY DEF TypeOK
  <2>b. {"uploading", "queued", "processing", "failed", "canceled", "expired"} \subseteq Status
    BY DEF Status, Lifecycle!Status
  <2>1. ASSUME NEW j \in Jobs, Reserve(j) PROVE TypeOK'
    <3>1. status' \in [Jobs -> Status]
      BY <2>1, <2>a, <2>b DEF Reserve
    <3>2. row' \in [Jobs -> Row]
      BY <2>1, <2>a, RowClocks DEF Reserve
    <3> QED  BY <2>1, <3>1, <3>2 DEF Reserve, TypeOK
  <2>2. ASSUME NEW j \in Jobs, UploadDone(j) PROVE TypeOK'
    <3>1. source' \in [Jobs -> Source]
      BY <2>2 DEF UploadDone, TypeOK, Source
    <3> QED  BY <2>2, <3>1 DEF UploadDone, TypeOK
  <2>3. ASSUME NEW j \in Jobs, UploadDeadlinePasses(j) PROVE TypeOK'
    <3>1. row' \in [Jobs -> Row]
      BY <2>3, <2>a, RowClocks DEF UploadDeadlinePasses
    <3> QED  BY <2>3, <3>1 DEF UploadDeadlinePasses, TypeOK
  <2>4. ASSUME NEW j \in Jobs, ResultDeadlinePasses(j) PROVE TypeOK'
    <3>1. row' \in [Jobs -> Row]
      BY <2>4, <2>a, RowClocks DEF ResultDeadlinePasses
    <3> QED  BY <2>4, <3>1 DEF ResultDeadlinePasses, TypeOK
  <2>5. ASSUME NEW j \in Jobs, Reclaim(j) PROVE TypeOK'
    <3>1. status' \in [Jobs -> Status]
      BY <2>5, <2>a, <2>b DEF Reclaim
    <3>2. row' \in [Jobs -> Row]
      BY <2>5, <2>a, RowOps DEF Reclaim
    <3> QED  BY <2>5, <3>1, <3>2 DEF Reclaim, TypeOK
  <2>6. ASSUME NEW j \in Jobs, CancelFlagExpires(j) PROVE TypeOK'
    <3>1. cancelFlag' \in [Jobs -> BOOLEAN]
      BY <2>6 DEF CancelFlagExpires, TypeOK
    <3> QED  BY <2>6, <3>1 DEF CancelFlagExpires, TypeOK
  <2>7. ASSUME NEW j \in Jobs, Stall(j) PROVE TypeOK'
    <3>1. entry' \in [Jobs -> Entry]
      BY <2>7, <2>a, EntryOps DEF Stall
    <3> QED  BY <2>7, <3>1 DEF Stall, TypeOK
  <2>8. ASSUME NEW c \in Calls, NEW j \in Jobs, HookReceive(c, j) PROVE TypeOK'
    <3>1. call' \in [Calls -> Call]
      BY <2>8 DEF HookReceive, TypeOK, Call, AfterCheck
    <3> QED  BY <2>8, <3>1 DEF HookReceive, TypeOK
  <2>9. ASSUME NEW c \in Calls, HookMove(c) PROVE TypeOK'
    <3>1. call' \in [Calls -> Call]
      <4>1. \/ call' = [call EXCEPT ![c].pc = "detect"]
            \/ call' = [call EXCEPT ![c].pc = "copy"]
            \/ call' = [call EXCEPT ![c] = IdleCall]
        BY <2>9 DEF HookMove
      <4>2. call \in [Calls -> Call] /\ IdleCall \in Call
        BY DEF TypeOK, Call, IdleCall
      <4>3. \A p \in {"detect", "copy"} : [call[c] EXCEPT !.pc = p] \in Call
        BY <4>2 DEF Call
      <4> QED  BY <4>1, <4>2, <4>3
    <3>2. source' \in [Jobs -> Source]
      BY <2>9 DEF HookMove, TypeOK, Source
    <3> QED  BY <2>9, <3>1, <3>2 DEF HookMove, TypeOK
  <2>39. ASSUME NEW c \in Calls, HookTruncate(c) PROVE TypeOK'
    <3>1. call' \in [Calls -> Call]
      BY <2>39 DEF HookTruncate, TypeOK, Call
    <3>2. source' \in [Jobs -> Source]
      BY <2>39, SourceOps DEF HookTruncate, TypeOK
    <3> QED  BY <2>39, <3>1, <3>2 DEF HookTruncate, TypeOK
  <2>40. ASSUME NEW c \in Calls, HookFill(c) PROVE TypeOK'
    <3>1. call' \in [Calls -> Call]
      BY <2>40 DEF HookFill, TypeOK, Call
    <3>2. source' \in [Jobs -> Source]
      BY <2>40, SourceOps DEF HookFill, TypeOK
    <3> QED  BY <2>40, <3>1, <3>2 DEF HookFill, TypeOK
  <2>41. ASSUME NEW c \in Calls, HookUnlink(c) PROVE TypeOK'
    <3>1. call' \in [Calls -> Call]
      BY <2>41 DEF HookUnlink, TypeOK, Call, IdleCall
    <3>2. source' \in [Jobs -> Source]
      BY <2>41, SourceOps DEF HookUnlink, TypeOK
    <3> QED  BY <2>41, <3>1, <3>2 DEF HookUnlink, TypeOK
  <2>10. ASSUME NEW c \in Calls, HookDetect(c) PROVE TypeOK'
    <3>1. call' \in [Calls -> Call]
      BY <2>10 DEF HookDetect, AfterDetect, TypeOK, Call
    <3> QED  BY <2>10, <3>1 DEF HookDetect, TypeOK
  <2>11. ASSUME NEW c \in Calls, HookReject(c) PROVE TypeOK'
    <3>1. status' \in [Jobs -> Status]
      BY <2>11, <2>a, <2>b DEF HookReject
    <3>2. row' \in [Jobs -> Row]
      BY <2>11, <2>a, RowOps DEF HookReject
    <3>3. call' \in [Calls -> Call]
      BY <2>11 DEF HookReject, TypeOK, Call, IdleCall
    <3> QED  BY <2>11, <3>1, <3>2, <3>3 DEF HookReject, TypeOK
  <2>12. ASSUME NEW c \in Calls, HookAccept(c) PROVE TypeOK'
    <3>1. status' \in [Jobs -> Status]
      BY <2>12, <2>a, <2>b DEF HookAccept
    <3>2. row' \in [Jobs -> Row]
      BY <2>12, <2>a, RowOps DEF HookAccept
    <3>3. call' \in [Calls -> Call]
      BY <2>12 DEF HookAccept, TypeOK, Call, AfterAccept, IdleCall
    <3> QED  BY <2>12, <3>1, <3>2, <3>3 DEF HookAccept, TypeOK
  <2>13. ASSUME NEW c \in Calls, HookEnqueue(c) PROVE TypeOK'
    <3>1. entry' \in [Jobs -> Entry]
      BY <2>13, <2>a, EntryOps DEF HookEnqueue
    <3>2. call' \in [Calls -> Call]
      BY <2>13 DEF HookEnqueue, TypeOK, Call, IdleCall
    <3> QED  BY <2>13, <3>1, <3>2 DEF HookEnqueue, TypeOK
  <2>14. ASSUME NEW c \in Calls, HookDies(c) PROVE TypeOK'
    <3>1. call' \in [Calls -> Call]
      BY <2>14 DEF HookDies, TypeOK, Call, IdleCall
    <3>2. faults' \in [api : 0 .. ApiFaults, worker : 0 .. WorkerFaults]
      BY PipelineAssumption, <2>14 DEF HookDies, TypeOK
    <3>3. source' \in [Jobs -> Source]
      <4>1. \A j \in Jobs : Spoiled(source[j]) \in Source
        BY SourceOps DEF TypeOK
      <4> QED  BY <2>14, <4>1 DEF HookDies, TypeOK
    <3> QED  BY <2>14, <3>1, <3>2, <3>3 DEF HookDies, TypeOK
  <2>15. ASSUME NEW d \in Deletes, NEW j \in Jobs, DeleteRead(d, j) PROVE TypeOK'
    <3>1. delete' \in [Deletes -> Delete]
      BY <2>15 DEF DeleteRead, TypeOK, Delete
    <3> QED  BY <2>15, <3>1 DEF DeleteRead, TypeOK
  <2>16. ASSUME NEW d \in Deletes, DeleteFlag(d) PROVE TypeOK'
    <3>1. cancelFlag' \in [Jobs -> BOOLEAN]
      BY <2>16 DEF DeleteFlag, TypeOK
    <3>2. delete' \in [Deletes -> Delete]
      BY <2>16 DEF DeleteFlag, TypeOK, Delete
    <3> QED  BY <2>16, <3>1, <3>2 DEF DeleteFlag, TypeOK
  <2>17. ASSUME NEW d \in Deletes, DeleteUpdate(d) PROVE TypeOK'
    <3>1. status' \in [Jobs -> Status]
      BY <2>17, <2>a, <2>b DEF DeleteUpdate
    <3>2. row' \in [Jobs -> Row]
      BY <2>17, <2>a, RowOps DEF DeleteUpdate
    <3>3. delete' \in [Deletes -> Delete]
      BY <2>17 DEF DeleteUpdate, TypeOK, Delete
    <3> QED  BY <2>17, <3>1, <3>2, <3>3 DEF DeleteUpdate, TypeOK
  <2>18. ASSUME NEW d \in Deletes, DeletePublish(d) PROVE TypeOK'
    <3>1. outcomes' \in [Jobs -> [Outcome -> 0 .. 2]]
      BY <2>18, <2>a, ToldTyped DEF DeletePublish, Publish
    <3>2. delete' \in [Deletes -> Delete]
      BY <2>18 DEF DeletePublish, TypeOK, Delete, IdleDelete
    <3> QED  BY <2>18, <3>1, <3>2 DEF DeletePublish, TypeOK
  <2>19. ASSUME NEW d \in Deletes, DeleteDies(d) PROVE TypeOK'
    <3>1. delete' \in [Deletes -> Delete]
      BY <2>19 DEF DeleteDies, TypeOK, Delete, IdleDelete
    <3>2. faults' \in [api : 0 .. ApiFaults, worker : 0 .. WorkerFaults]
      BY PipelineAssumption, <2>19 DEF DeleteDies, TypeOK
    <3> QED  BY <2>19, <3>1, <3>2 DEF DeleteDies, TypeOK
  <2>20. ASSUME NEW w \in Slots, NEW j \in Jobs, Fetch(w, j) PROVE TypeOK'
    <3>1. entry' \in [Jobs -> Entry]
      BY <2>20, <2>a, EntryOps DEF Fetch
    <3>2. slot' \in [Slots -> Slot]
      BY <2>20, <2>a, SlotOps DEF Fetch
    <3> QED  BY <2>20, <3>1, <3>2 DEF Fetch, TypeOK
  <2>21. ASSUME NEW w \in Slots, Begin(w) PROVE TypeOK'
    <3>1. status' \in [Jobs -> Status]
      BY <2>21, <2>a, <2>b DEF Begin
    <3>2. slot' \in [Slots -> Slot]
      BY <2>21, <2>a, SlotOps DEF Begin
    <3> QED  BY <2>21, <3>1, <3>2 DEF Begin, TypeOK
  <2>22. ASSUME NEW w \in Slots, Poll(w) PROVE TypeOK'
    <3>1. slot' \in [Slots -> Slot]
      BY <2>22, <2>a, SlotOps DEF Poll
    <3> QED  BY <2>22, <3>1 DEF Poll, TypeOK
  <2>23. ASSUME NEW w \in Slots, OpenOutput(w) PROVE TypeOK'
    <3>1. output' \in [Jobs -> {"none", "partial", "whole"}]
      BY <2>23 DEF OpenOutput, TypeOK
    <3> QED  BY <2>23, <3>1 DEF OpenOutput, TypeOK
  <2>24. ASSUME NEW w \in Slots, CompressReturns(w) PROVE TypeOK'
    <3>1. output' \in [Jobs -> {"none", "partial", "whole"}]
      BY <2>24 DEF CompressReturns, TypeOK
    <3>2. slot' \in [Slots -> Slot]
      BY <2>24, <2>a, SlotOps, OutcomesAreStatuses DEF CompressReturns
    <3> QED  BY <2>24, <3>1, <3>2 DEF CompressReturns, TypeOK
  <2>25. ASSUME NEW w \in Slots, CompressThrows(w) PROVE TypeOK'
    <3>1. output' \in [Jobs -> {"none", "partial", "whole"}]
      BY <2>25 DEF CompressThrows, TypeOK
    <3>2. slot' \in [Slots -> Slot]
      BY <2>25, <2>a, SlotOps, OutcomesAreStatuses DEF CompressThrows
    <3> QED  BY <2>25, <3>1, <3>2 DEF CompressThrows, TypeOK
  <2>26. ASSUME NEW w \in Slots, CompressAborts(w) PROVE TypeOK'
    <3>1. output' \in [Jobs -> {"none", "partial", "whole"}]
      BY <2>26 DEF CompressAborts, TypeOK
    <3>2. slot' \in [Slots -> Slot]
      BY <2>26, <2>a, SlotOps, OutcomesAreStatuses DEF CompressAborts
    <3> QED  BY <2>26, <3>1, <3>2 DEF CompressAborts, TypeOK
  <2>27. ASSUME NEW w \in Slots, WriteOutcome(w) PROVE TypeOK'
    <3>1. status' \in [Jobs -> Status]
      BY <2>27, SlotOps, OutcomesAreStatuses, <2>a, <2>b DEF WriteOutcome
    <3>2. row' \in [Jobs -> Row]
      BY <2>27, <2>a, RowOps DEF WriteOutcome
    <3>3. slot' \in [Slots -> Slot]
      BY <2>27, <2>a, SlotOps DEF WriteOutcome, AfterWrite
    <3> QED  BY <2>27, <3>1, <3>2, <3>3 DEF WriteOutcome, TypeOK
  <2>28. ASSUME NEW w \in Slots, PublishOutcome(w) PROVE TypeOK'
    <3>1. outcomes' \in [Jobs -> [Outcome -> 0 .. 2]]
      BY <2>28, <2>a, ToldTyped DEF PublishOutcome, Publish
    <3>2. slot' \in [Slots -> Slot]
      BY <2>28, <2>a, SlotOps DEF PublishOutcome
    <3> QED  BY <2>28, <3>1, <3>2 DEF PublishOutcome, TypeOK
  <2>29. ASSUME NEW w \in Slots, Settle(w) PROVE TypeOK'
    <3>1. entry' \in [Jobs -> Entry]
      BY <2>29, <2>a, EntryOps DEF Settle
    <3>2. slot' \in [Slots -> Slot]
      BY <2>29, <2>a, SlotOps DEF Settle
    <3> QED  BY <2>29, <3>1, <3>2 DEF Settle, TypeOK
  <2>30. ASSUME NEW w \in Slots, SlotDies(w) PROVE TypeOK'
    <3>1. slot' \in [Slots -> Slot]
      BY <2>30, <2>a, SlotOps DEF SlotDies
    <3>2. faults' \in [api : 0 .. ApiFaults, worker : 0 .. WorkerFaults]
      BY PipelineAssumption, <2>30 DEF SlotDies, TypeOK
    <3> QED  BY <2>30, <3>1, <3>2 DEF SlotDies, TypeOK
  <2>31. ASSUME NEW w \in Slots, StoreThrows(w) PROVE TypeOK'
    <3>1. slot' \in [Slots -> Slot]
      BY <2>31, <2>a, SlotOps DEF StoreThrows
    <3>2. faults' \in [api : 0 .. ApiFaults, worker : 0 .. WorkerFaults]
      BY PipelineAssumption, <2>31 DEF StoreThrows, TypeOK
    <3> QED  BY <2>31, <3>1, <3>2 DEF StoreThrows, TypeOK
  <2>32. ASSUME NEW s \in Sweepers, NEW j \in Jobs, SweepRead(s, j) PROVE TypeOK'
    <3>1. sweep' \in [Sweepers -> Sweep]
      BY <2>32 DEF SweepRead, TypeOK, Sweep, Row
    <3> QED  BY <2>32, <3>1 DEF SweepRead, TypeOK
  <2>33. ASSUME NEW s \in Sweepers, SweepLock(s) PROVE TypeOK'
    <3>1. CASE sweep' = [sweep EXCEPT ![s].pc = "mark"]
      <4>1. sweep' \in [Sweepers -> Sweep]
        BY <3>1, <2>a, SweepOps
      <4> QED  BY <2>33, <4>1 DEF SweepLock, TypeOK
    <3>2. CASE sweep' = [sweep EXCEPT ![s] = IdleSweep]
      <4>1. sweep' \in [Sweepers -> Sweep]
        BY <3>2, <2>a, SweepOps
      <4> QED  BY <2>33, <4>1 DEF SweepLock, TypeOK
    <3> QED  BY <2>33, <3>1, <3>2 DEF SweepLock, AfterLock
  <2>34. ASSUME NEW s \in Sweepers, SweepMark(s) PROVE TypeOK'
    <3>1. status' \in [Jobs -> Status]
      BY <2>34, <2>a, <2>b DEF SweepMark
    <3>2. sweep' \in [Sweepers -> Sweep]
      BY <2>34, <2>a, SweepOps DEF SweepMark
    <3> QED  BY <2>34, <3>1, <3>2 DEF SweepMark, TypeOK
  <2>35. ASSUME NEW s \in Sweepers, SweepUnlink(s) PROVE TypeOK'
    <3>1. source' \in [Jobs -> Source]
      BY <2>35 DEF SweepUnlink, TypeOK, Source
    <3>2. output' \in [Jobs -> {"none", "partial", "whole"}]
      BY <2>35 DEF SweepUnlink, TypeOK
    <3>3. sweep' \in [Sweepers -> Sweep]
      BY <2>35, <2>a, SweepOps DEF SweepUnlink
    <3> QED  BY <2>35, <3>1, <3>2, <3>3 DEF SweepUnlink, TypeOK
  <2>36. ASSUME NEW s \in Sweepers, SweepDies(s) PROVE TypeOK'
    <3>1. sweep' \in [Sweepers -> Sweep]
      BY <2>36 DEF SweepDies, TypeOK, Sweep, IdleSweep
    <3>2. faults' \in [api : 0 .. ApiFaults, worker : 0 .. WorkerFaults]
      BY PipelineAssumption, <2>36 DEF SweepDies, TypeOK
    <3> QED  BY <2>36, <3>1, <3>2 DEF SweepDies, TypeOK
  <2>37. ASSUME NEW w \in Slots, Announce(w) PROVE TypeOK'
    <3>1. slot' \in [Slots -> Slot]
      BY <2>37, <2>a, SlotOps DEF Announce
    <3> QED  BY <2>37, <3>1 DEF Announce, TypeOK
  <2>38. CASE UNCHANGED vars
    BY <2>38 DEF vars, TypeOK
  <2> QED
    BY <2>1, <2>2, <2>3, <2>4, <2>5, <2>6, <2>7, <2>8, <2>9, <2>10, <2>11, <2>12, <2>13, <2>14,
       <2>15, <2>16, <2>17, <2>18, <2>19, <2>20, <2>21, <2>22, <2>23, <2>24, <2>25, <2>26,
       <2>27, <2>28, <2>29, <2>30, <2>31, <2>32, <2>33, <2>34, <2>35, <2>36, <2>37, <2>38,
       <2>39, <2>40, <2>41
       DEF Next, JobStep, CallStep, DeleteStep, SlotStep, SweepStep
<1> QED
  BY <1>1, <1>2, PTL DEF Spec

-----------------------------------------------------------------------------
(* Which actions write which variables.                                    *)

\* The actions that write a row, a queue entry, the file of an upload or a
\* result message.
RowStep ==
    \/ \E j \in Jobs : Reserve(j) \/ UploadDeadlinePasses(j) \/ ResultDeadlinePasses(j) \/ Reclaim(j)
    \/ \E c \in Calls : HookReject(c) \/ HookAccept(c)
    \/ \E d \in Deletes : DeleteUpdate(d)
    \/ \E w \in Slots : Begin(w) \/ WriteOutcome(w)
    \/ \E s \in Sweepers : SweepMark(s)

EntryStep ==
    \/ \E j \in Jobs : Stall(j)
    \/ \E c \in Calls : HookEnqueue(c)
    \/ \E w \in Slots : Settle(w) \/ \E j \in Jobs : Fetch(w, j)

SourceStep ==
    \/ \E j \in Jobs : UploadDone(j)
    \/ \E c \in Calls : HookMove(c) \/ HookTruncate(c) \/ HookFill(c) \/ HookUnlink(c) \/ HookDies(c)
    \/ \E s \in Sweepers : SweepUnlink(s)

OutcomeStep ==
    \/ \E d \in Deletes : DeletePublish(d)
    \/ \E w \in Slots : PublishOutcome(w)

\* Who may change what, in one step of the pipeline.
Frame ==
    /\ RowStep \/ UNCHANGED <<status, row>>
    /\ EntryStep \/ UNCHANGED entry
    /\ SourceStep \/ UNCHANGED source
    /\ OutcomeStep \/ UNCHANGED outcomes
    /\ (\E c \in Calls : CallStep(c)) \/ UNCHANGED call
    /\ (\E d \in Deletes : DeleteStep(d)) \/ UNCHANGED delete
    /\ (\E w \in Slots : SlotStep(w)) \/ UNCHANGED slot
    /\ (\E s \in Sweepers : SweepStep(s)) \/ UNCHANGED sweep

\* Every step of the pipeline respects the frame.
LEMMA StepsFrame == [Next]_vars => Frame
<1> USE DEF Frame, RowStep, EntryStep, SourceStep, OutcomeStep
<1>1. ASSUME NEW j \in Jobs, JobStep(j) PROVE Frame
  BY <1>1 DEF JobStep, Reserve, UploadDone, UploadDeadlinePasses, ResultDeadlinePasses, Reclaim,
              CancelFlagExpires, Stall
<1>2. ASSUME NEW c \in Calls, CallStep(c) PROVE Frame
  BY <1>2 DEF CallStep, HookReceive, HookMove, HookTruncate, HookFill, HookUnlink, HookDetect,
              HookReject, HookAccept, HookEnqueue, HookDies
<1>3. ASSUME NEW d \in Deletes, DeleteStep(d) PROVE Frame
  BY <1>3 DEF DeleteStep, DeleteRead, DeleteFlag, DeleteUpdate, DeletePublish, DeleteDies
<1>4. ASSUME NEW w \in Slots, SlotStep(w) PROVE Frame
  BY <1>4 DEF SlotStep, Fetch, Begin, Announce, Poll, OpenOutput, CompressReturns, CompressThrows, CompressAborts,
              WriteOutcome, PublishOutcome, Settle, SlotDies, StoreThrows
<1>5. ASSUME NEW s \in Sweepers, SweepStep(s) PROVE Frame
  BY <1>5 DEF SweepStep, SweepRead, SweepLock, SweepMark, SweepUnlink, SweepDies
<1>6. ASSUME UNCHANGED vars PROVE Frame
  BY <1>6 DEF vars
<1> QED  BY <1>1, <1>2, <1>3, <1>4, <1>5, <1>6 DEF Next

-----------------------------------------------------------------------------
(* How a row changes in one step.                                          *)

\* What one step may do to the row of job j.
RowChange(j) ==
    \/ status'[j] = status[j] /\ row'[j].keys = row[j].keys
    \/ status[j] = "absent" /\ status'[j] = "uploading" /\ row'[j].keys = row[j].keys
    \/ status[j] = "uploading" /\ status'[j] = "queued" /\ row'[j].keys = {"input"}
    \/ status[j] = "uploading" /\ status'[j] = "failed" /\ row'[j].keys = row[j].keys
    \/ status[j] = "queued" /\ status'[j] = "processing" /\ row'[j].keys = row[j].keys
    \/ status[j] \in {"queued", "processing"} /\ status'[j] = "canceled" /\ row'[j].keys = row[j].keys
    \/ status[j] = "processing" /\ status'[j] = "failed" /\ row'[j].keys = row[j].keys
    \/ status[j] = "processing" /\ status'[j] = "succeeded" /\ row'[j].keys = row[j].keys \cup {"output"}
    \/ status[j] # "absent" /\ status'[j] = "expired" /\ row'[j].keys = row[j].keys

\* The columns that an update keeps.
LEMMA RowKeys ==
    ASSUME NEW r \in Row
    PROVE  /\ RejectedRow(r).keys = r.keys
           /\ EndedRow(r).keys = r.keys
           /\ AcceptedRow(r).keys = {"input"}
           /\ SucceededRow(r).keys = r.keys \cup {"output"}
BY DEF Row, RejectedRow, EndedRow, AcceptedRow, SucceededRow

\* Every step of the pipeline is a RowChange of every row.
LEMMA RowChanges ==
    ASSUME TypeOK, PipelineInv, [Next]_vars, NEW j \in Jobs
    PROVE  RowChange(j)
<1>0. status \in [Jobs -> Status] /\ row \in [Jobs -> Row] /\ slot \in [Slots -> Slot]
  BY DEF TypeOK
<1>a. CASE UNCHANGED <<status, row>>
  BY <1>a DEF RowChange
<1>1. ASSUME NEW k \in Jobs, Reserve(k) PROVE RowChange(j)
  BY <1>1, <1>0 DEF Reserve, RowChange, Row
<1>2. ASSUME NEW k \in Jobs, UploadDeadlinePasses(k) \/ ResultDeadlinePasses(k) PROVE RowChange(j)
  BY <1>2, <1>0 DEF UploadDeadlinePasses, ResultDeadlinePasses, RowChange, Row
<1>3. ASSUME NEW k \in Jobs, Reclaim(k) PROVE RowChange(j)
  BY <1>3, <1>0, RowKeys DEF Reclaim, UploadingGuard, RowChange
<1>4. ASSUME NEW c \in Calls, HookReject(c) PROVE RowChange(j)
  BY <1>4, <1>0, RowKeys DEF HookReject, UploadingGuard, RowChange
<1>5. ASSUME NEW c \in Calls, HookAccept(c) PROVE RowChange(j)
  BY <1>5, <1>0, RowKeys DEF HookAccept, UploadingGuard, RowChange
<1>6. ASSUME NEW d \in Deletes, DeleteUpdate(d) PROVE RowChange(j)
  <2>1. status[delete[d].job] \notin {"absent", "uploading"}
    BY <1>6 DEF DeleteUpdate, PipelineInv, DeleteKnows, Accepted
  <2>2. DeleteGuard(delete[d].job) /\ delete[d].job \in Jobs => status[delete[d].job] \in {"queued", "processing"}
    BY <2>1, <1>0 DEF DeleteGuard, Terminal, Lifecycle!Terminal, Status, Lifecycle!Status
  <2> QED  BY <1>6, <2>2, <1>0, RowKeys DEF DeleteUpdate, RowChange
<1>7. ASSUME NEW w \in Slots, Begin(w) PROVE RowChange(j)
  <2>1. slot[w].job \in Jobs /\ status[slot[w].job] \notin {"absent", "uploading"}
    BY <1>7 DEF Begin, PipelineInv, SlotKnows, Accepted
  <2>2. WorkerGuard(slot[w].job) => status[slot[w].job] \in {"queued", "processing"}
    BY <2>1, <1>0 DEF WorkerGuard, Terminal, Lifecycle!Terminal, Status, Lifecycle!Status
  <2> QED  BY <1>7, <2>2, <1>0 DEF Begin, RowChange
<1>8. ASSUME NEW w \in Slots, WriteOutcome(w) PROVE RowChange(j)
  <2>1. status[slot[w].job] \in {"processing"} \cup Terminal
    BY <1>8 DEF WriteOutcome, PipelineInv, SlotKnows
  <2>2. WorkerGuard(slot[w].job) => status[slot[w].job] = "processing"
    BY <2>1 DEF WorkerGuard
  <2>3. slot[w].outcome \in {"succeeded", "failed", "canceled"}
    BY <1>8, <1>0, SlotOps DEF WriteOutcome, Outcome
  <2> QED  BY <1>8, <2>2, <2>3, <1>0, RowKeys DEF WriteOutcome, RowChange
<1>9. ASSUME NEW s \in Sweepers, SweepMark(s) PROVE RowChange(j)
  <2>1. status[sweep[s].job] # "absent"
    BY <1>9 DEF SweepMark, PipelineInv, SweepKnows
  <2> QED  BY <1>9, <2>1, <1>0 DEF SweepMark, RowChange
<1> QED
  BY StepsFrame, <1>a, <1>1, <1>2, <1>3, <1>4, <1>5, <1>6, <1>7, <1>8, <1>9 DEF Frame, RowStep

\* What follows for anybody who has read the row: a job never becomes absent
\* again, an ended row only expires, an accepted job stays accepted.
LEMMA RowMoves ==
    ASSUME TypeOK, PipelineInv, [Next]_vars, NEW j \in Jobs
    PROVE  /\ status[j] # "absent" => status'[j] # "absent"
           /\ status[j] \in Terminal => status'[j] \in {status[j], "expired"}
           /\ status[j] \in {"processing"} \cup Terminal => status'[j] \in {"processing"} \cup Terminal
           /\ status[j] \in Terminal => status'[j] \in Terminal
           /\ status'[j] \in {"queued", "processing"} => status[j] \in {"uploading", "queued", "processing"}
           /\ status'[j] \in {"absent", "uploading"} => row'[j].keys = {}
           /\ Accepted(j) => Accepted(j)'
           /\ status'[j] \in {"queued", "processing", "succeeded"} => Accepted(j)'
<1>1. RowChange(j)
  BY RowChanges
<1>2. /\ status[j] \in {"queued", "processing", "succeeded"} => Accepted(j)
      /\ status[j] \in {"absent", "uploading"} => row[j].keys = {}
  BY DEF PipelineInv, OnlyAcceptedInFlight, UnacceptedHasNoKeys
<1> QED
  BY <1>1, <1>2 DEF RowChange, Accepted, Terminal, Lifecycle!Terminal

-----------------------------------------------------------------------------
(* The conjuncts of PipelineInv, one lemma each.                           *)

\* Uploaded bytes that have left tusd do not return, they leave source.bin
\* only under a row that has ended, and a rename moves them whole.
LEMMA SourceMoves ==
    ASSUME TypeOK, PipelineInv, [Next]_vars, NEW j \in Jobs
    PROVE  /\ source[j] \in {"final", "torn", "gone"} => source'[j] \in {"final", "torn", "gone"}
           /\ source'[j] = "gone" => source[j] = "gone" \/ status[j] \in Terminal
           /\ OneMount => source'[j] \notin {"copying", "copied", "torn"}
<1>0. /\ source \in [Jobs -> Source]
      /\ OneMount => source[j] \notin {"copying", "copied", "torn"}
  BY DEF TypeOK, PipelineInv, RenamesAreWhole
<1> DEFINE Goal == /\ source[j] \in {"final", "torn", "gone"} => source'[j] \in {"final", "torn", "gone"}
                   /\ source'[j] = "gone" => source[j] = "gone" \/ status[j] \in Terminal
                   /\ OneMount => source'[j] \notin {"copying", "copied", "torn"}
<1>1. ASSUME NEW k \in Jobs, UploadDone(k) PROVE Goal
  BY <1>1, <1>0 DEF UploadDone, Source
<1>2. ASSUME NEW c \in Calls, HookMove(c) PROVE Goal
  BY <1>2, <1>0 DEF HookMove, WithTusd
<1>3. ASSUME NEW s \in Sweepers, SweepUnlink(s) PROVE Goal
  <2>1. sweep[s].keys # {} => status[sweep[s].job] \in Terminal
    BY DEF PipelineInv, SweepKnows
  <2> QED  BY <1>3, <1>0, <2>1 DEF SweepUnlink
<1>4. CASE UNCHANGED source
  BY <1>4, <1>0
<1>5. ASSUME NEW c \in Calls, HookTruncate(c) \/ HookFill(c) \/ HookUnlink(c) \/ HookDies(c) PROVE Goal
  <2>1. call[c].pc \in {"copy", "fill", "patch", "unlink"} => ~OneMount
    BY DEF PipelineInv, CallKnows
  <2>2. CASE HookTruncate(c)
    BY <2>1, <2>2, <1>0, SourceOps DEF HookTruncate
  <2>3. CASE HookFill(c)
    BY <2>1, <2>3, <1>0, SourceOps DEF HookFill
  <2>4. CASE HookUnlink(c)
    BY <2>1, <2>4, <1>0, SourceOps DEF HookUnlink
  <2>5. CASE HookDies(c)
    BY <2>1, <2>5, <1>0, SourceOps DEF HookDies
  <2> QED  BY <1>5, <2>2, <2>3, <2>4, <2>5
<1> QED
  BY StepsFrame, <1>1, <1>2, <1>3, <1>4, <1>5 DEF Frame, SourceStep

\* No key is set, and no entry made, for a row that was not accepted.
LEMMA OnlyAcceptedStep ==
    ASSUME TypeOK, PipelineInv, [Next]_vars
    PROVE  UnacceptedHasNoKeys' /\ OnlyAcceptedInFlight'
<1>0. entry \in [Jobs -> Entry]
  BY DEF TypeOK
<1>1. UnacceptedHasNoKeys'
  BY RowMoves DEF UnacceptedHasNoKeys
<1>2. \A j \in Jobs : status'[j] \in {"queued", "processing", "succeeded"} => Accepted(j)'
  BY RowMoves
<1>3. \A j \in Jobs : entry'[j].state # "none" => Accepted(j)'
  <2> SUFFICES ASSUME NEW j \in Jobs, entry'[j].state # "none" PROVE Accepted(j)
    BY RowMoves
  <2>0. entry[j].state # "none" => Accepted(j)
    BY DEF PipelineInv, OnlyAcceptedInFlight
  <2>1. ASSUME NEW k \in Jobs, Stall(k) PROVE Accepted(j)
    BY <2>1, <2>0, <1>0 DEF Stall
  <2>2. ASSUME NEW c \in Calls, HookEnqueue(c) PROVE Accepted(j)
    <3>1. Accepted(call[c].job)
      BY <2>2 DEF HookEnqueue, PipelineInv, CallKnows
    <3> QED  BY <2>2, <2>0, <3>1, <1>0 DEF HookEnqueue
  <2>3. ASSUME NEW w \in Slots, Settle(w) PROVE Accepted(j)
    <3>1. Accepted(slot[w].job)
      BY <2>3 DEF Settle, PipelineInv, SlotKnows
    <3> QED  BY <2>3, <2>0, <3>1, <1>0 DEF Settle
  <2>4. ASSUME NEW w \in Slots, NEW k \in Jobs, Fetch(w, k) PROVE Accepted(j)
    BY <2>4, <2>0, <1>0 DEF Fetch
  <2>5. CASE UNCHANGED entry
    BY <2>5, <2>0
  <2> QED  BY StepsFrame, <2>1, <2>2, <2>3, <2>4, <2>5 DEF Frame, EntryStep
<1> QED  BY <1>1, <1>2, <1>3 DEF OnlyAcceptedInFlight

\* The input of a job in flight stays where the hook has put it.
LEMMA InputStep ==
    ASSUME TypeOK, PipelineInv, [Next]_vars
    PROVE  SourceGoesLast' /\ RenamesAreWhole' /\ InputInPlace'
<1>0. /\ source \in [Jobs -> Source]
      /\ status \in [Jobs -> Status]
      /\ slot \in [Slots -> Slot]
  BY DEF TypeOK
<1>1. SourceGoesLast'
  BY SourceMoves, RowMoves DEF SourceGoesLast, PipelineInv
<1>3. RenamesAreWhole'
  BY SourceMoves DEF RenamesAreWhole
<1>2. ASSUME NEW j \in Jobs, status'[j] \in {"queued", "processing"} PROVE source'[j] \in {"final", "torn"}
  <2>1. status[j] \in {"uploading", "queued", "processing"} /\ status[j] \notin Terminal
    BY <1>2, RowMoves DEF Terminal, Lifecycle!Terminal
  <2>2. source[j] # "gone"
    BY <2>1 DEF PipelineInv, SourceGoesLast
  <2>3. source[j] \in {"final", "torn", "gone"} => source'[j] \in {"final", "torn"}
    BY <2>1, <2>2, SourceMoves
  <2>4. CASE status[j] \in {"queued", "processing"}
    BY <2>3, <2>4 DEF PipelineInv, InputInPlace
  <2>5. CASE status[j] = "uploading"
    <3>1. PICK c \in Calls : HookAccept(c) /\ call[c].job = j
      <4>1. status'[j] # status[j]
        BY <1>2, <2>5
      <4>2. RowStep
        BY <4>1, StepsFrame DEF Frame
      <4>3. ASSUME NEW w \in Slots, Begin(w) \/ WriteOutcome(w) PROVE FALSE
        <5>1. slot[w].job \in Jobs /\ Accepted(slot[w].job)
          BY <4>3 DEF Begin, WriteOutcome, PipelineInv, SlotKnows
        <5>2. slot[w].job # j
          BY <5>1, <2>5 DEF Accepted
        <5> QED  BY <4>1, <4>3, <5>1, <5>2, <1>0 DEF Begin, WriteOutcome
      <4> QED
        BY <4>1, <4>2, <4>3, <1>0, <1>2, <2>5
           DEF RowStep, Reserve, UploadDeadlinePasses, ResultDeadlinePasses, Reclaim, HookReject,
               HookAccept, DeleteUpdate, SweepMark
    <3>2. source[j] \in {"final", "torn", "gone"}
      BY <3>1 DEF HookAccept, PipelineInv, CallKnows
    <3> QED  BY <2>2, <2>3, <3>2
  <2> QED  BY <2>1, <2>4, <2>5
<1> QED  BY <1>1, <1>2, <1>3 DEF InputInPlace, RenamesAreWhole

\* Counting one message leaves the others alone.
LEMMA ToldOthers ==
    ASSUME NEW f \in [Outcome -> 0 .. 2], NEW o \in Outcome
    PROVE  /\ \A p \in Outcome : p # o => Told(f, o)[p] = f[p]
           /\ f[o] = 0 => Told(f, o)[o] = 1
BY DEF Told

\* No result is announced twice, and none that the row does not hold.
LEMMA ResultStep ==
    ASSUME TypeOK, PipelineInv, [Next]_vars
    PROVE  ResultAnnouncedOnce'
<1>0. /\ outcomes \in [Jobs -> [Outcome -> 0 .. 2]]
      /\ slot \in [Slots -> Slot]
      /\ {"succeeded", "failed", "canceled"} \subseteq Outcome
      /\ {"succeeded", "failed", "canceled"} \subseteq Terminal
  BY OutcomesAreStatuses DEF TypeOK, Terminal, Lifecycle!Terminal
<1> SUFFICES ASSUME NEW j \in Jobs
             PROVE  /\ outcomes'[j]["succeeded"] + outcomes'[j]["failed"] <= 1
                    /\ \A o \in {"succeeded", "failed"} :
                          outcomes'[j][o] > 0 => status'[j] \in {o, "expired"}
  BY DEF ResultAnnouncedOnce
<1>1. /\ outcomes[j]["succeeded"] + outcomes[j]["failed"] <= 1
      /\ \A o \in {"succeeded", "failed"} :
            outcomes[j][o] > 0 => status[j] \in {o, "expired"} /\ status'[j] \in {o, "expired"}
  BY <1>0, RowMoves DEF PipelineInv, ResultAnnouncedOnce, Terminal, Lifecycle!Terminal
<1>2. CASE outcomes'[j]["succeeded"] = outcomes[j]["succeeded"] /\ outcomes'[j]["failed"] = outcomes[j]["failed"]
  BY <1>1, <1>2
<1>3. ASSUME NEW d \in Deletes, DeletePublish(d)
      PROVE  outcomes'[j]["succeeded"] = outcomes[j]["succeeded"] /\ outcomes'[j]["failed"] = outcomes[j]["failed"]
  BY <1>3, <1>0, ToldOthers DEF DeletePublish, Publish
<1>4. ASSUME NEW w \in Slots, PublishOutcome(w), slot[w].job = j
      PROVE  /\ outcomes'[j]["succeeded"] + outcomes'[j]["failed"] <= 1
             /\ \A o \in {"succeeded", "failed"} :
                   outcomes'[j][o] > 0 => status'[j] \in {o, "expired"}
  <2>1. /\ status[j] \in {slot[w].outcome, "expired"}
        /\ outcomes[j]["succeeded"] = 0 /\ outcomes[j]["failed"] = 0
    BY <1>4 DEF PublishOutcome, PipelineInv, SlotKnows
  <2>2. slot[w].outcome \in Outcome /\ outcomes[j] \in [Outcome -> 0 .. 2]
    BY <1>4, <1>0, SlotOps DEF PublishOutcome
  <2>3. outcomes'[j] = Told(outcomes[j], slot[w].outcome)
    BY <1>4, <1>0 DEF PublishOutcome, Publish
  <2>4. status'[j] = status[j]
    BY <1>4 DEF PublishOutcome
  <2>5. \A o \in {"succeeded", "failed"} :
           \/ o = slot[w].outcome /\ outcomes'[j][o] = 1
           \/ o # slot[w].outcome /\ outcomes'[j][o] = 0
    BY <2>1, <2>2, <2>3, <1>0, ToldOthers
  <2> QED  BY <2>1, <2>4, <2>5
<1>5. ASSUME NEW w \in Slots, PublishOutcome(w), slot[w].job # j
      PROVE  outcomes'[j] = outcomes[j]
  BY <1>5, <1>0 DEF PublishOutcome, Publish
<1>6. CASE UNCHANGED outcomes
  BY <1>6, <1>1
<1> QED  BY StepsFrame, <1>2, <1>3, <1>4, <1>5, <1>6 DEF Frame, OutcomeStep

\* What a hook call knows of its job stays true while it waits.
LEMMA CallsStep ==
    ASSUME TypeOK, PipelineInv, [Next]_vars, NEW c \in Calls
    PROVE  CallKnows(c)'
<1>0. /\ call \in [Calls -> Call]
      /\ source \in [Jobs -> Source]
  BY DEF TypeOK
<1>1. CallKnows(c)
  BY DEF PipelineInv
<1>2. ASSUME call'[c] = call[c] PROVE CallKnows(c)'
  BY <1>1, <1>2, RowMoves, SourceMoves DEF CallKnows
<1>3. ASSUME call'[c].pc = "idle" PROVE CallKnows(c)'
  BY <1>3 DEF CallKnows
<1>6. ASSUME call[c].pc = "fill", call'[c].pc = "patch", call'[c].job = call[c].job PROVE CallKnows(c)'
  BY <1>1, <1>6, RowMoves DEF CallKnows
<1>4. ASSUME NEW k \in Calls, CallStep(k), k # c
      PROVE  \/ call'[c] = call[c]
             \/ call[c].pc = "fill" /\ call'[c].pc = "patch" /\ call'[c].job = call[c].job
  BY <1>4, <1>0 DEF CallStep, HookReceive, HookMove, HookTruncate, HookFill, HookUnlink, HookDetect,
              HookReject, HookAccept, HookEnqueue, HookDies
<1>5. CASE CallStep(c)
  <2>1. ASSUME NEW j \in Jobs, HookReceive(c, j) PROVE CallKnows(c)'
    BY <2>1, <1>0 DEF HookReceive, CallKnows, AfterCheck
  <2>2. CASE HookMove(c)
    <3>1. CASE WithTusd(call[c].job)
      <4>1. call[c].job \in Jobs /\ status[call[c].job] # "absent"
        BY <2>2, <1>1 DEF HookMove, CallKnows
      <4>2. /\ call'[c].pc = (IF OneMount THEN "detect" ELSE "copy") /\ call'[c].job = call[c].job
            /\ OneMount => source'[call[c].job] = "final"
            /\ status'[call[c].job] = status[call[c].job]
        BY <2>2, <3>1, <4>1, <1>0 DEF HookMove, Call
      <4> QED  BY <4>1, <4>2 DEF CallKnows
    <3>2. CASE ~WithTusd(call[c].job)
      BY <2>2, <3>2, <1>0, <1>3 DEF HookMove, IdleCall
    <3> QED  BY <3>1, <3>2
  <2>6. CASE HookTruncate(c) \/ HookFill(c)
    BY <2>6, <1>0, <1>1 DEF HookTruncate, HookFill, CallKnows, Call
  <2>7. CASE HookUnlink(c)
    <3>1. CASE WithTusd(call[c].job)
      <4>1. call[c].job \in Jobs /\ status[call[c].job] # "absent"
        BY <2>7, <1>1 DEF HookUnlink, CallKnows
      <4>2. /\ call'[c].pc = "detect" /\ call'[c].job = call[c].job
            /\ source'[call[c].job] \in {"final", "torn"}
            /\ status'[call[c].job] = status[call[c].job]
        BY <2>7, <3>1, <4>1, <1>0, SourceOps DEF HookUnlink, Call
      <4> QED  BY <4>1, <4>2 DEF CallKnows
    <3>2. CASE ~WithTusd(call[c].job)
      BY <2>7, <3>2, <1>0, <1>3 DEF HookUnlink, IdleCall
    <3> QED  BY <3>1, <3>2
  <2>3. CASE HookDetect(c)
    BY <2>3, <1>0, <1>1 DEF HookDetect, AfterDetect, CallKnows
  <2>4. CASE HookReject(c) \/ HookEnqueue(c) \/ HookDies(c)
    BY <2>4, <1>0, <1>3 DEF HookReject, HookEnqueue, HookDies, IdleCall
  <2>5. CASE HookAccept(c)
    <3>1. CASE ~UploadingGuard(call[c].job)
      BY <2>5, <3>1, <1>0, <1>3 DEF HookAccept, IdleCall, AfterAccept
    <3>2. CASE UploadingGuard(call[c].job)
      <4> DEFINE j == call[c].job
      <4>1. j \in Jobs /\ status[j] = "uploading"
        BY <2>5, <3>2, <1>1 DEF HookAccept, CallKnows, UploadingGuard
      <4>2. status'[j] = "queued" /\ call'[c] = [pc |-> "enqueue", job |-> j]
        BY <2>5, <3>2, <4>1, <1>0 DEF HookAccept, AfterAccept, TypeOK
      <4>3. "input" \in row'[j].keys
        <5> HIDE DEF j
        <5> QED  BY <4>1, <4>2, RowMoves DEF Accepted
      <4> QED  BY <4>1, <4>2, <4>3 DEF CallKnows, Accepted
    <3> QED  BY <3>1, <3>2
  <2> QED  BY <1>5, <2>1, <2>2, <2>3, <2>4, <2>5, <2>6, <2>7 DEF CallStep
<1> QED  BY StepsFrame, <1>2, <1>4, <1>5, <1>6 DEF Frame

\* A DELETE that runs works on an accepted job.
LEMMA DeletesStep ==
    ASSUME TypeOK, PipelineInv, [Next]_vars, NEW d \in Deletes
    PROVE  DeleteKnows(d)'
<1>0. delete \in [Deletes -> Delete]
  BY DEF TypeOK
<1>1. DeleteKnows(d)
  BY DEF PipelineInv
<1>2. ASSUME delete'[d].job = delete[d].job, delete[d].pc # "idle" PROVE DeleteKnows(d)'
  BY <1>1, <1>2, RowMoves DEF DeleteKnows, Accepted
<1>3. ASSUME delete'[d].pc = "idle" PROVE DeleteKnows(d)'
  BY <1>3 DEF DeleteKnows
<1>4. ASSUME NEW k \in Deletes, DeleteStep(k), k # d PROVE delete'[d] = delete[d]
  BY <1>4, <1>0 DEF DeleteStep, DeleteRead, DeleteFlag, DeleteUpdate, DeletePublish, DeleteDies
<1>5. CASE DeleteStep(d)
  <2>1. ASSUME NEW j \in Jobs, DeleteRead(d, j) PROVE DeleteKnows(d)'
    <3>1. Accepted(j)
      BY <2>1 DEF DeleteRead, PipelineInv, OnlyAcceptedInFlight
    <3>2. delete'[d].job = j
      BY <2>1, <1>0 DEF DeleteRead
    <3> QED  BY <3>1, <3>2, RowMoves DEF DeleteKnows, Accepted
  <2>2. CASE DeleteFlag(d) \/ DeleteUpdate(d)
    <3>1. delete'[d].job = delete[d].job /\ delete[d].pc # "idle"
      BY <2>2, <1>0 DEF DeleteFlag, DeleteUpdate, Delete
    <3> QED  BY <3>1, <1>2
  <2>3. CASE DeletePublish(d) \/ DeleteDies(d)
    BY <2>3, <1>0, <1>3 DEF DeletePublish, DeleteDies, IdleDelete
  <2> QED  BY <1>5, <2>1, <2>2, <2>3 DEF DeleteStep
<1> QED  BY StepsFrame, <1>2, <1>3, <1>4, <1>5 DEF Frame

\* The keys a sweep tick remembers are those of a row that had ended.
LEMMA SweepsStep ==
    ASSUME TypeOK, PipelineInv, [Next]_vars, NEW s \in Sweepers
    PROVE  SweepKnows(s)'
<1>0. sweep \in [Sweepers -> Sweep] /\ row \in [Jobs -> Row]
  BY DEF TypeOK
<1>1. SweepKnows(s)
  BY DEF PipelineInv
<1>2. ASSUME sweep'[s].job = sweep[s].job, sweep'[s].keys = sweep[s].keys, 
             sweep[s].pc # "idle", sweep'[s].pc # "idle"
      PROVE  SweepKnows(s)'
  BY <1>1, <1>2, RowMoves DEF SweepKnows
<1>3. ASSUME sweep'[s] = IdleSweep PROVE SweepKnows(s)'
  BY <1>3 DEF SweepKnows, IdleSweep
<1>6. ASSUME sweep'[s] = sweep[s] PROVE SweepKnows(s)'
  BY <1>1, <1>6, RowMoves DEF SweepKnows
<1>4. ASSUME NEW k \in Sweepers, SweepStep(k), k # s PROVE sweep'[s] = sweep[s]
  BY <1>4, <1>0 DEF SweepStep, SweepRead, SweepLock, SweepMark, SweepUnlink, SweepDies
<1>5. CASE SweepStep(s)
  <2>1. ASSUME NEW j \in Jobs, SweepRead(s, j) PROVE SweepKnows(s)'
    <3>1. row[j].keys # {} => status[j] \in Terminal
      BY <2>1 DEF SweepRead, Sweepable, PipelineInv, UnacceptedHasNoKeys, Outcome, Terminal, Lifecycle!Terminal
    <3> QED  BY <2>1, <3>1, <1>0 DEF SweepRead, SweepKnows, Sweepable, Outcome
  <2>2. CASE SweepLock(s)
    <3>1. CASE sweep' = [sweep EXCEPT ![s].pc = AfterLock]
      BY <2>2, <3>1, <1>0, <1>2 DEF SweepLock, AfterLock
    <3>2. CASE sweep' = [sweep EXCEPT ![s] = IdleSweep]
      BY <3>2, <1>0, <1>3
    <3> QED  BY <2>2, <3>1, <3>2 DEF SweepLock
  <2>4. CASE SweepMark(s)
    BY <2>4, <1>0, <1>2 DEF SweepMark
  <2>3. CASE SweepUnlink(s) \/ SweepDies(s)
    BY <2>3, <1>0, <1>3 DEF SweepUnlink, SweepDies
  <2> QED  BY <1>5, <2>1, <2>2, <2>3, <2>4 DEF SweepStep
<1> QED  BY StepsFrame, <1>4, <1>5, <1>6 DEF Frame

\* What the updates of a run do to the fields the invariant speaks of.
LEMMA SlotFields ==
    ASSUME NEW r \in Slot
    PROVE  /\ \A pc : At(r, pc).pc = pc /\ At(r, pc).job = r.job /\ At(r, pc).outcome = r.outcome
           /\ Aborted(r).pc = r.pc /\ Aborted(r).job = r.job /\ Aborted(r).outcome = r.outcome
           /\ \A o : Ended(r, o).pc = "write" /\ Ended(r, o).job = r.job
           /\ AfterThrow(r).job = r.job
           /\ \/ AfterThrow(r).pc = "settle"
              \/ AfterThrow(r).pc = "write" /\ r.pc \in {"write", "publish"}
<1>1. /\ \A pc : At(r, pc).pc = pc /\ At(r, pc).job = r.job /\ At(r, pc).outcome = r.outcome
      /\ Aborted(r).pc = r.pc /\ Aborted(r).job = r.job /\ Aborted(r).outcome = r.outcome
  BY DEF Slot, Run, At, Aborted
<1>2. \A o : Ended(r, o).pc = "write" /\ Ended(r, o).job = r.job
  BY DEF Slot, Run, Ended
<1>3. [r EXCEPT !.pc = "settle", !.outcome = "failed"].job = r.job
  BY DEF Slot, Run
<1>4. [r EXCEPT !.pc = "settle", !.outcome = "failed"].pc = "settle"
  BY DEF Slot, Run
<1> QED  BY <1>1, <1>2, <1>3, <1>4 DEF AfterThrow

\* While a run is about to publish, nobody else publishes a result of its job.
LEMMA PublisherAlone ==
    ASSUME TypeOK, PipelineInv, [Next]_vars,
           NEW w \in Slots, slot[w].pc = "publish", slot'[w].pc = "publish"
    PROVE  \A o \in {"succeeded", "failed"} : outcomes'[slot[w].job][o] = outcomes[slot[w].job][o]
<1>0. /\ outcomes \in [Jobs -> [Outcome -> 0 .. 2]]
      /\ slot \in [Slots -> Slot]
      /\ {"succeeded", "failed", "canceled"} \subseteq Outcome
      /\ slot[w].job \in Jobs
  BY OutcomesAreStatuses DEF TypeOK, PipelineInv, SlotKnows
<1> DEFINE j == slot[w].job
<1> SUFFICES ASSUME NEW o \in {"succeeded", "failed"} PROVE outcomes'[slot[w].job][o] = outcomes[slot[w].job][o]
  OBVIOUS
<1>1. ASSUME NEW d \in Deletes, DeletePublish(d) PROVE outcomes'[slot[w].job][o] = outcomes[slot[w].job][o]
  <2>1. outcomes[slot[w].job] \in [Outcome -> 0 .. 2]
    BY <1>0
  <2>2. "canceled" \in Outcome /\ o \in Outcome /\ o # "canceled"
    BY <1>0
  <2>3. Told(outcomes[slot[w].job], "canceled")[o] = outcomes[slot[w].job][o]
    BY <2>1, <2>2, ToldOthers
  <2> QED  BY <1>1, <1>0, <2>3 DEF DeletePublish, Publish
<1>2. ASSUME NEW v \in Slots, PublishOutcome(v) PROVE outcomes'[slot[w].job][o] = outcomes[slot[w].job][o]
  <2>1. v # w
    <3>1. slot'[v].pc = "settle"
      BY <1>2, <1>0, SlotFields DEF PublishOutcome
    <3> QED  BY <3>1
  <2>2. slot[v].job # slot[w].job
    BY <2>1, <1>2 DEF PublishOutcome, PipelineInv, OnePublisher
  <2> QED  BY <1>2, <1>0, <2>2 DEF PublishOutcome, Publish
<1>3. CASE UNCHANGED outcomes
  BY <1>3
<1> QED  BY StepsFrame, <1>1, <1>2, <1>3 DEF Frame, OutcomeStep

\* What a run of processJob knows of its job stays true between its steps.
LEMMA SlotsStep ==
    ASSUME TypeOK, PipelineInv, [Next]_vars, NEW w \in Slots
    PROVE  SlotKnows(w)'
<1>0. /\ slot \in [Slots -> Slot] /\ slot[w] \in Slot
      /\ status \in [Jobs -> Status]
      /\ entry \in [Jobs -> Entry]
      /\ outcomes \in [Jobs -> [Outcome -> 0 .. 2]]
      /\ {"succeeded", "failed", "canceled"} \subseteq Outcome
      /\ Outcome \subseteq Terminal
  BY OutcomesAreStatuses DEF TypeOK, Outcome, Terminal, Lifecycle!Terminal
<1> DEFINE j == slot[w].job
<1>1. SlotKnows(w)
  BY DEF PipelineInv
<1>2. ASSUME slot'[w] = slot[w] PROVE SlotKnows(w)'
  <2>1. slot[w].pc # "idle" => j \in Jobs /\ Accepted(j) /\ Accepted(j)'
    BY <1>1, <1>2, RowMoves DEF SlotKnows, Accepted
  <2>2. slot[w].pc \in {"announce", "compress", "write"} => status'[j] \in {"processing"} \cup Terminal
    BY <1>1, <2>1, RowMoves DEF SlotKnows
  <2>3. slot[w].pc = "publish" => status'[j] \in {slot[w].outcome, "expired"}
    <3> SUFFICES ASSUME slot[w].pc = "publish" PROVE status'[j] \in {slot[w].outcome, "expired"}
      OBVIOUS
    <3>1. slot[w].outcome \in Terminal
      BY <1>0, SlotOps
    <3>2. status[j] \in {slot[w].outcome, "expired"} /\ j \in Jobs
      BY <1>1 DEF SlotKnows
    <3>3. status[j] \in Terminal
      BY <3>1, <3>2 DEF Terminal, Lifecycle!Terminal
    <3>4. status'[j] \in {status[j], "expired"}
      <4> HIDE DEF j
      <4> QED  BY <3>2, <3>3, RowMoves
    <3> QED  BY <3>2, <3>4
  <2>4. slot[w].pc = "publish" => outcomes'[j]["succeeded"] = 0 /\ outcomes'[j]["failed"] = 0
    BY <1>1, <1>2, PublisherAlone DEF SlotKnows
  <2> QED  BY <1>2, <2>1, <2>2, <2>3, <2>4 DEF SlotKnows
<1>3. ASSUME slot'[w].pc = "idle" PROVE SlotKnows(w)'
  BY <1>3 DEF SlotKnows
<1>4. ASSUME slot'[w].job = j, slot[w].pc # "idle", slot'[w].pc \in {"begin", "settle"} PROVE SlotKnows(w)'
  <2>1. j \in Jobs /\ Accepted(j)'
    BY <1>1, <1>4, RowMoves DEF SlotKnows, Accepted
  <2> QED  BY <1>4, <2>1 DEF SlotKnows, Accepted
<1>5. ASSUME slot'[w].job = j, slot[w].pc # "idle", slot'[w].pc \in {"announce", "compress", "write"},
             status'[j] \in {"processing"} \cup Terminal
      PROVE  SlotKnows(w)'
  <2>1. j \in Jobs /\ Accepted(j)'
    BY <1>1, <1>5, RowMoves DEF SlotKnows, Accepted
  <2> QED  BY <1>5, <2>1 DEF SlotKnows, Accepted
<1>6. ASSUME NEW v \in Slots, SlotStep(v), v # w PROVE slot'[w] = slot[w]
  BY <1>6, <1>0 DEF SlotStep, Fetch, Begin, Announce, Poll, OpenOutput, CompressReturns, CompressThrows, CompressAborts,
                    WriteOutcome, PublishOutcome, Settle, SlotDies, StoreThrows
<1>7. CASE SlotStep(w)
  <2>1. ASSUME NEW k \in Jobs, Fetch(w, k) PROVE SlotKnows(w)'
    <3>1. Accepted(k)
      BY <2>1 DEF Fetch, PipelineInv, OnlyAcceptedInFlight
    <3>2. slot'[w].job = k /\ slot'[w].pc = "begin"
      BY <2>1, <1>0 DEF Fetch, Started
    <3> QED  BY <3>1, <3>2, RowMoves DEF SlotKnows, Accepted
  <2>2. CASE Begin(w)
    <3>1. status'[j] \in {"processing"} \cup Terminal
      BY <2>2, <1>0, <1>1 DEF Begin, SlotKnows, WorkerGuard
    <3>2. slot'[w].job = j /\ slot'[w].pc = "announce" /\ slot[w].pc # "idle"
      BY <2>2, <1>0, SlotFields DEF Begin
    <3> QED  BY <3>1, <3>2, <1>5
  <2>3. CASE Announce(w) \/ Poll(w)
    <3>1. /\ slot'[w].job = j /\ slot'[w].pc = "compress"
          /\ slot[w].pc \in {"announce", "compress"} /\ status' = status
      BY <2>3, <1>0, SlotFields DEF Announce, Poll
    <3> QED  BY <3>1, <1>1, <1>5 DEF SlotKnows
  <2>4. CASE OpenOutput(w)
    BY <2>4, <1>2 DEF OpenOutput
  <2>5. CASE CompressReturns(w) \/ CompressThrows(w) \/ CompressAborts(w)
    <3>1. slot'[w].job = j /\ slot'[w].pc = "write" /\ slot[w].pc = "compress" /\ status' = status
      BY <2>5, <1>0, SlotFields DEF CompressReturns, CompressThrows, CompressAborts
    <3> QED  BY <3>1, <1>1, <1>5 DEF SlotKnows
  <2>6. CASE WriteOutcome(w)
    <3>1. j \in Jobs /\ status[j] \in {"processing"} \cup Terminal /\ slot[w].pc = "write"
      BY <2>6, <1>1 DEF WriteOutcome, SlotKnows
    <3>2. CASE ~WorkerGuard(j)
      BY <2>6, <3>2, <1>0, <1>4, SlotFields DEF WriteOutcome, AfterWrite
    <3>3. CASE WorkerGuard(j)
      <4>1. slot'[w] = At(slot[w], "publish")
        BY <2>6, <3>3, <1>0 DEF WriteOutcome, AfterWrite
      <4>2. slot'[w].pc = "publish" /\ slot'[w].job = j /\ slot'[w].outcome = slot[w].outcome
        BY <4>1, <1>0, SlotFields
      <4>3. status[j] = "processing" /\ status'[j] = slot[w].outcome /\ outcomes' = outcomes
        BY <2>6, <3>1, <3>3, <1>0 DEF WriteOutcome, WorkerGuard
      <4>4. outcomes[j]["succeeded"] = 0 /\ outcomes[j]["failed"] = 0
        <5>1. outcomes[j]["succeeded"] \in 0 .. 2 /\ outcomes[j]["failed"] \in 0 .. 2
          BY <3>1, <1>0
        <5>2. ~(outcomes[j]["succeeded"] > 0) /\ ~(outcomes[j]["failed"] > 0)
          BY <3>1, <4>3 DEF PipelineInv, ResultAnnouncedOnce
        <5> QED  BY <5>1, <5>2
      <4>5. "input" \in row'[j].keys
        <5>1. Accepted(j) /\ status'[j] \notin {"absent", "uploading"}
          BY <2>6, <1>1, <4>3, <1>0, SlotOps DEF WriteOutcome, SlotKnows, Outcome
        <5> HIDE DEF j
        <5> QED  BY <3>1, <5>1, RowMoves DEF Accepted
      <4>6. status'[j] \notin {"absent", "uploading"}
        BY <4>3, <2>6, <1>0, SlotOps DEF WriteOutcome, Outcome
      <4> QED  BY <3>1, <4>2, <4>3, <4>4, <4>5, <4>6 DEF SlotKnows, Accepted
    <3> QED  BY <3>2, <3>3
  <2>7. CASE PublishOutcome(w)
    BY <2>7, <1>0, <1>4, SlotFields DEF PublishOutcome
  <2>8. CASE Settle(w) \/ SlotDies(w)
    BY <2>8, <1>0, <1>3 DEF Settle, SlotDies, IdleSlot
  <2>9. CASE StoreThrows(w)
    <3>1. slot'[w] = AfterThrow(slot[w]) /\ slot[w].pc # "idle" /\ status' = status
      BY <2>9, <1>0 DEF StoreThrows
    <3>2. CASE slot'[w].pc = "settle"
      BY <3>1, <3>2, <1>0, <1>4, SlotFields
    <3>3. CASE slot'[w].pc = "write" /\ slot[w].pc \in {"write", "publish"}
      <4>1. status[j] \in {"processing"} \cup Terminal
        BY <3>3, <1>0, <1>1, SlotOps DEF SlotKnows, Terminal, Lifecycle!Terminal
      <4> QED  BY <3>1, <3>3, <4>1, <1>0, <1>5, SlotFields
    <3> QED  BY <3>1, <3>2, <3>3, <1>0, SlotFields
  <2> QED  BY <1>7, <2>1, <2>2, <2>3, <2>4, <2>5, <2>6, <2>7, <2>8, <2>9 DEF SlotStep
<1> QED  BY StepsFrame, <1>2, <1>6, <1>7 DEF Frame

\* At most one run of a job ever gets as far as publishing its result.
LEMMA OnePublisherStep ==
    ASSUME TypeOK, PipelineInv, [Next]_vars
    PROVE  OnePublisher'
<1>0. slot \in [Slots -> Slot]
  BY DEF TypeOK
<1>1. ASSUME NEW v \in Slots, NEW w \in Slots, slot'[v].pc = "publish", slot'[w].pc = "publish",
             slot'[v].job = slot'[w].job, v # w
      PROVE  FALSE
  <2>1. \A u \in Slots : slot'[u].pc = "publish" /\ slot'[u] # slot[u] =>
            /\ WriteOutcome(u) /\ WorkerGuard(slot[u].job) /\ slot'[u].job = slot[u].job
            /\ \A x \in Slots : x # u => slot'[x] = slot[x]
    <3> SUFFICES ASSUME NEW u \in Slots, slot'[u].pc = "publish", slot'[u] # slot[u]
                 PROVE  /\ WriteOutcome(u) /\ WorkerGuard(slot[u].job) /\ slot'[u].job = slot[u].job
                        /\ \A x \in Slots : x # u => slot'[x] = slot[x]
      OBVIOUS
    <3>1. PICK y \in Slots : SlotStep(y)
      BY StepsFrame DEF Frame
    <3>2. \A x \in Slots : x # y => slot'[x] = slot[x]
      BY <3>1, <1>0 DEF SlotStep, Fetch, Begin, Announce, Poll, OpenOutput, CompressReturns, CompressThrows, CompressAborts,
                    WriteOutcome, PublishOutcome, Settle, SlotDies, StoreThrows
    <3>3. y = u
      BY <3>2
    <3>4. slot[u] \in Slot
      BY <1>0
    <3>5. WriteOutcome(u)
      BY <3>1, <3>3, <3>4, <1>0, SlotFields
         DEF SlotStep, Fetch, Begin, Announce, Poll, OpenOutput, CompressReturns, CompressThrows, CompressAborts,
             PublishOutcome, Settle, SlotDies, StoreThrows, Started, IdleSlot
    <3>6. slot'[u] = At(slot[u], AfterWrite(WorkerGuard(slot[u].job)))
      BY <3>5, <1>0 DEF WriteOutcome
    <3>7. WorkerGuard(slot[u].job) /\ slot'[u].job = slot[u].job
      BY <3>4, <3>6, SlotFields DEF AfterWrite
    <3> QED  BY <3>2, <3>3, <3>5, <3>7
  <2>2. ASSUME NEW u \in Slots, NEW x \in Slots, x # u, WriteOutcome(u), WorkerGuard(slot[u].job),
               slot[x].pc = "publish", slot[x].job = slot[u].job
        PROVE  FALSE
    <3>1. slot[x] \in Slot /\ slot[x].outcome \in Outcome
      BY <2>2, <1>0, SlotOps
    <3>2. status[slot[x].job] \in {slot[x].outcome, "expired"}
      BY <2>2 DEF PipelineInv, SlotKnows
    <3> QED  BY <2>2, <3>1, <3>2 DEF WorkerGuard, Terminal, Lifecycle!Terminal, Outcome
  <2>3. CASE slot'[v] = slot[v] /\ slot'[w] = slot[w]
    BY <1>1, <2>3 DEF PipelineInv, OnePublisher
  <2>4. CASE slot'[v] # slot[v]
    BY <1>1, <2>1, <2>2, <2>4
  <2>5. CASE slot'[w] # slot[w]
    BY <1>1, <2>1, <2>2, <2>5
  <2> QED  BY <2>3, <2>4, <2>5
<1> QED  BY <1>1 DEF OnePublisher

-----------------------------------------------------------------------------
(* The theorems.                                                           *)

\* The inductive invariant holds in every reachable state: what each hook,
\* run, DELETE and sweep tick relies on between two of its steps is true.
THEOREM PipelineSafe == Spec => []PipelineInv
<1>1. Init => PipelineInv
  <2> SUFFICES ASSUME Init PROVE PipelineInv
    OBVIOUS
  <2>1. UnacceptedHasNoKeys /\ OnlyAcceptedInFlight /\ SourceGoesLast /\ RenamesAreWhole /\ InputInPlace
    BY DEF Init, UnacceptedHasNoKeys, OnlyAcceptedInFlight, SourceGoesLast, RenamesAreWhole, InputInPlace
  <2>2. /\ \A c \in Calls : CallKnows(c)
        /\ \A d \in Deletes : DeleteKnows(d)
        /\ \A w \in Slots : SlotKnows(w)
        /\ \A s \in Sweepers : SweepKnows(s)
        /\ OnePublisher
    BY DEF Init, CallKnows, DeleteKnows, SlotKnows, SweepKnows, OnePublisher, IdleCall, IdleDelete, IdleSlot, IdleSweep
  <2>3. ResultAnnouncedOnce
    BY OutcomesAreStatuses DEF Init, ResultAnnouncedOnce
  <2> QED  BY <2>1, <2>2, <2>3 DEF PipelineInv
<1>2. TypeOK /\ PipelineInv /\ [Next]_vars => PipelineInv'
  BY OnlyAcceptedStep, CallsStep, DeletesStep, SlotsStep, OnePublisherStep, SweepsStep, InputStep, ResultStep
     DEF PipelineInv
<1> QED
  BY <1>1, <1>2, PipelineTyped, PTL DEF Spec

\* No job reaches BullMQ unless the hook has accepted its upload.
THEOREM EntriesAreAccepted == Spec => []EntryOnlyIfAccepted
<1>1. PipelineInv => EntryOnlyIfAccepted
  BY DEF PipelineInv, OnlyAcceptedInFlight, Accepted, EntryOnlyIfAccepted
<1> QED  BY <1>1, PipelineSafe, PTL

\* The input of a queued or processing job is where the payload says.
THEOREM InputsStay == Spec => []InputInPlace
<1>1. PipelineInv => InputInPlace
  BY DEF PipelineInv
<1> QED  BY <1>1, PipelineSafe, PTL

\* A job's result is announced at most once, and it is the row's.
THEOREM ResultsAnnouncedOnce == Spec => []ResultAnnouncedOnce
<1>1. PipelineInv => ResultAnnouncedOnce
  BY DEF PipelineInv
<1> QED  BY <1>1, PipelineSafe, PTL

\* One step of a row is a step of JobLifecycle or a stutter.
LEMMA StepsRefine ==
    ASSUME TypeOK, PipelineInv, [Next]_vars
    PROVE  [Lifecycle!Next]_status
<1>0. status \in [Jobs -> Status] /\ slot \in [Slots -> Slot]
  BY DEF TypeOK
<1> USE DEF Lifecycle!Next, Lifecycle!Become
<1>1. ASSUME NEW j \in Jobs, Reserve(j) PROVE Lifecycle!Next
  BY <1>1 DEF Reserve, Lifecycle!Reserve
<1>2. ASSUME NEW j \in Jobs, Reclaim(j) PROVE Lifecycle!Next
  BY <1>2 DEF Reclaim, UploadingGuard, Lifecycle!Expire, Lifecycle!Status
<1>3. ASSUME NEW c \in Calls, HookReject(c) PROVE [Lifecycle!Next]_status
  <2>1. call[c].job \in Jobs
    BY <1>3 DEF HookReject, PipelineInv, CallKnows
  <2> QED  BY <1>3, <2>1 DEF HookReject, UploadingGuard, Lifecycle!Reject
<1>4. ASSUME NEW c \in Calls, HookAccept(c) PROVE [Lifecycle!Next]_status
  <2>1. call[c].job \in Jobs
    BY <1>4 DEF HookAccept, PipelineInv, CallKnows
  <2> QED  BY <1>4, <2>1 DEF HookAccept, UploadingGuard, Lifecycle!Accept
<1>5. ASSUME NEW d \in Deletes, DeleteUpdate(d) PROVE [Lifecycle!Next]_status
  <2>1. delete[d].job \in Jobs /\ status[delete[d].job] \notin {"absent", "uploading"}
    BY <1>5 DEF DeleteUpdate, PipelineInv, DeleteKnows, Accepted
  <2>2. DeleteGuard(delete[d].job) => status[delete[d].job] \in {"queued", "processing"}
    BY <2>1, <1>0 DEF DeleteGuard, Terminal, Lifecycle!Terminal, Status, Lifecycle!Status
  <2> QED  BY <1>5, <2>1, <2>2 DEF DeleteUpdate, Lifecycle!Cancel
<1>6. ASSUME NEW w \in Slots, Begin(w) PROVE [Lifecycle!Next]_status
  <2>1. slot[w].job \in Jobs /\ status[slot[w].job] \notin {"absent", "uploading"}
    BY <1>6 DEF Begin, PipelineInv, SlotKnows, Accepted
  <2>2. WorkerGuard(slot[w].job) => status[slot[w].job] \in {"queued", "processing"}
    BY <2>1, <1>0 DEF WorkerGuard, Terminal, Lifecycle!Terminal, Status, Lifecycle!Status
  <2> QED  BY <1>6, <2>1, <2>2, <1>0 DEF Begin, Lifecycle!Start
<1>7. ASSUME NEW w \in Slots, WriteOutcome(w) PROVE [Lifecycle!Next]_status
  <2>1. slot[w].job \in Jobs /\ status[slot[w].job] \in {"processing"} \cup Terminal
    BY <1>7 DEF WriteOutcome, PipelineInv, SlotKnows
  <2>2. slot[w].outcome \in {"succeeded", "failed", "canceled"}
    BY <1>7, <1>0, SlotOps DEF WriteOutcome, Outcome
  <2> QED
    BY <1>7, <2>1, <2>2 DEF WriteOutcome, WorkerGuard, Lifecycle!Succeed, Lifecycle!Fail, Lifecycle!Cancel
<1>8. ASSUME NEW s \in Sweepers, SweepMark(s) PROVE [Lifecycle!Next]_status
  <2>1. sweep[s].job \in Jobs /\ status[sweep[s].job] # "absent"
    BY <1>8 DEF SweepMark, PipelineInv, SweepKnows
  <2>2. CASE status[sweep[s].job] = "expired"
    BY <1>8, <2>1, <2>2, <1>0 DEF SweepMark
  <2>3. CASE status[sweep[s].job] # "expired"
    BY <1>8, <2>1, <2>3, <1>0 DEF SweepMark, Lifecycle!Expire, Status
  <2> QED  BY <2>2, <2>3
<1>9. ASSUME NEW j \in Jobs, UploadDeadlinePasses(j) \/ ResultDeadlinePasses(j) PROVE UNCHANGED status
  BY <1>9 DEF UploadDeadlinePasses, ResultDeadlinePasses
<1> QED
  BY StepsFrame, <1>1, <1>2, <1>3, <1>4, <1>5, <1>6, <1>7, <1>8, <1>9 DEF Frame, RowStep

\* The pipeline implements JobLifecycle: initial states are initial states,
\* and every step is a lifecycle step of one row or leaves all rows alone.
THEOREM PipelineImplementsLifecycle == Spec => ImplementsLifecycle
<1>1. Init => Lifecycle!Init
  BY DEF Init, Lifecycle!Init
<1>2. TypeOK /\ PipelineInv /\ [Next]_vars => [Lifecycle!Next]_status
  BY StepsRefine
<1> QED
  BY <1>1, <1>2, PipelineTyped, PipelineSafe, PTL DEF Spec, ImplementsLifecycle, Lifecycle!Spec

-----------------------------------------------------------------------------
(* Runs of one job, one after the other.                                   *)

\* A run of processJob is at work on job j.
Runs(w, j) == slot[w].pc # "idle" /\ slot[w].job = j

\* The steps of a run on its job.
RunStep(w) ==
    \/ Begin(w) \/ Announce(w) \/ Poll(w) \/ OpenOutput(w)
    \/ CompressReturns(w) \/ CompressThrows(w) \/ CompressAborts(w)
    \/ WriteOutcome(w) \/ PublishOutcome(w) \/ Settle(w) \/ SlotDies(w) \/ StoreThrows(w)

LEMMA WorkerFaultsGrow ==
    ASSUME TypeOK, [Next]_vars
    PROVE  /\ faults.worker \in 0 .. WorkerFaults /\ faults'.worker \in Nat
           /\ faults'.worker >= faults.worker
<1>0. /\ faults \in [api : 0 .. ApiFaults, worker : 0 .. WorkerFaults]
      /\ faults.worker \in 0 .. WorkerFaults /\ faults.worker \in Nat
  BY PipelineAssumption DEF TypeOK
<1>1. \/ UNCHANGED faults
      \/ faults' = [faults EXCEPT !.api = @ + 1]
      \/ faults' = [faults EXCEPT !.worker = @ + 1]
  <2>1. ASSUME NEW j \in Jobs, JobStep(j) PROVE UNCHANGED faults
    BY <2>1 DEF JobStep, Reserve, UploadDone, UploadDeadlinePasses, ResultDeadlinePasses, Reclaim,
                CancelFlagExpires, Stall
  <2>2. ASSUME NEW c \in Calls, CallStep(c)
        PROVE  UNCHANGED faults \/ faults' = [faults EXCEPT !.api = @ + 1]
    BY <2>2 DEF CallStep, HookReceive, HookMove, HookTruncate, HookFill, HookUnlink, HookDetect,
              HookReject, HookAccept, HookEnqueue, HookDies
  <2>3. ASSUME NEW d \in Deletes, DeleteStep(d)
        PROVE  UNCHANGED faults \/ faults' = [faults EXCEPT !.api = @ + 1]
    BY <2>3 DEF DeleteStep, DeleteRead, DeleteFlag, DeleteUpdate, DeletePublish, DeleteDies
  <2>4. ASSUME NEW w \in Slots, SlotStep(w)
        PROVE  UNCHANGED faults \/ faults' = [faults EXCEPT !.worker = @ + 1]
    BY <2>4 DEF SlotStep, Fetch, Begin, Announce, Poll, OpenOutput, CompressReturns, CompressThrows,
                CompressAborts, WriteOutcome, PublishOutcome, Settle, SlotDies, StoreThrows
  <2>5. ASSUME NEW s \in Sweepers, SweepStep(s)
        PROVE  UNCHANGED faults \/ faults' = [faults EXCEPT !.worker = @ + 1]
    BY <2>5 DEF SweepStep, SweepRead, SweepLock, SweepMark, SweepUnlink, SweepDies
  <2>6. ASSUME UNCHANGED vars PROVE UNCHANGED faults
    BY <2>6 DEF vars
  <2> QED  BY <2>1, <2>2, <2>3, <2>4, <2>5, <2>6 DEF Next
<1> QED  BY <1>0, <1>1

\* A run's step leaves the other slots alone, and its own job is the same as
\* before as long as it runs.
LEMMA OneRun ==
    ASSUME TypeOK, NEW w \in Slots, RunStep(w)
    PROVE  /\ slot[w].pc # "idle"
           /\ \A v \in Slots \ {w} : slot'[v] = slot[v]
           /\ slot'[w].pc # "idle" => slot'[w].job = slot[w].job
<1>0. slot \in [Slots -> Slot] /\ slot[w] \in Slot
  BY DEF TypeOK
<1>1. slot[w].pc # "idle"
  BY DEF RunStep, Begin, Announce, Poll, OpenOutput, CompressReturns, CompressThrows,
         CompressAborts, WriteOutcome, PublishOutcome, Settle, SlotDies, StoreThrows
<1>2. \/ UNCHANGED slot
      \/ \E pc : slot' = [slot EXCEPT ![w] = At(slot[w], pc)]
      \/ slot' = [slot EXCEPT ![w] = Aborted(slot[w])]
      \/ \E o : slot' = [slot EXCEPT ![w] = Ended(slot[w], o)]
      \/ slot' = [slot EXCEPT ![w] = IdleSlot]
      \/ slot' = [slot EXCEPT ![w] = AfterThrow(slot[w])]
  BY DEF RunStep, Begin, Announce, Poll, OpenOutput, CompressReturns, CompressThrows,
         CompressAborts, WriteOutcome, PublishOutcome, Settle, SlotDies, StoreThrows
<1>3. \A v \in Slots \ {w} : slot'[v] = slot[v]
  BY <1>0, <1>2
<1>4. \/ slot'[w] = slot[w] \/ slot'[w] = IdleSlot
      \/ \E pc : slot'[w] = At(slot[w], pc)
      \/ slot'[w] = Aborted(slot[w])
      \/ \E o : slot'[w] = Ended(slot[w], o)
      \/ slot'[w] = AfterThrow(slot[w])
  BY <1>0, <1>2
<1>5. slot'[w].pc # "idle" => slot'[w].job = slot[w].job
  BY <1>0, <1>4, SlotFields DEF IdleSlot
<1> QED  BY <1>1, <1>3, <1>5

\* What a run does, it does to its own job.
LEMMA OtherJobs ==
    ASSUME TypeOK, NEW w \in Slots, RunStep(w), NEW j \in Jobs, slot[w].job # j
    PROVE  status'[j] = status[j] /\ entry'[j] = entry[j] /\ output'[j] = output[j]
<1>0. status \in [Jobs -> Status] /\ entry \in [Jobs -> Entry] /\ output \in [Jobs -> {"none", "partial", "whole"}]
  BY DEF TypeOK
<1>1. status'[j] = status[j]
  BY <1>0 DEF RunStep, Begin, Announce, Poll, OpenOutput, CompressReturns, CompressThrows,
         CompressAborts, WriteOutcome, PublishOutcome, Settle, SlotDies, StoreThrows
<1>2. entry'[j] = entry[j]
  BY <1>0 DEF RunStep, Begin, Announce, Poll, OpenOutput, CompressReturns, CompressThrows,
         CompressAborts, WriteOutcome, PublishOutcome, Settle, SlotDies, StoreThrows
<1>3. output'[j] = output[j]
  BY <1>0 DEF RunStep, Begin, Announce, Poll, OpenOutput, CompressReturns, CompressThrows,
         CompressAborts, WriteOutcome, PublishOutcome, Settle, SlotDies, StoreThrows
<1> QED  BY <1>1, <1>2, <1>3

\* Who runs j after a run's step ran it before.
LEMMA SameRuns ==
    ASSUME TypeOK, NEW w \in Slots, RunStep(w), NEW j \in Jobs, NEW v \in Slots
    PROVE  /\ Runs(v, j)' => Runs(v, j)
           /\ v # w => (Runs(v, j)' <=> Runs(v, j))
           /\ slot[w].job # j => (Runs(v, j)' <=> Runs(v, j)) /\ (Runs(v, j) => slot'[v] = slot[v])
BY OneRun DEF Runs

\* A slot that takes a job was idle, and is the only one to change.
LEMMA FetchedRuns ==
    ASSUME TypeOK, NEW w \in Slots, NEW k \in Jobs, Fetch(w, k), NEW j \in Jobs
    PROVE  /\ entry[k].state = "waiting" /\ entry'[k] = Held(entry[k], w)
           /\ slot'[w] = Started(k) /\ slot'[w].pc = "begin" /\ slot'[w].job = k /\ slot[w].pc = "idle"
           /\ \A v \in Slots \ {w} : slot'[v] = slot[v]
           /\ UNCHANGED <<status, output, faults>>
           /\ j # k => entry'[j] = entry[j]
           /\ j # k => \A v \in Slots :
                 (Runs(v, j)' <=> Runs(v, j)) /\ (Runs(v, j) => slot'[v] = slot[v])
<1>0. slot \in [Slots -> Slot] /\ entry \in [Jobs -> Entry]
  BY DEF TypeOK
<1>1. /\ slot[w].pc = "idle" /\ entry[k].state = "waiting"
      /\ slot'[w] = Started(k) /\ \A v \in Slots \ {w} : slot'[v] = slot[v]
      /\ entry'[k] = Held(entry[k], w) /\ (j # k => entry'[j] = entry[j])
      /\ UNCHANGED <<status, output, faults>>
  BY <1>0 DEF Fetch
<1>2. Started(k).pc = "begin" /\ Started(k).job = k
  BY DEF Started
<1>3. ASSUME j # k, NEW v \in Slots
      PROVE  (Runs(v, j)' <=> Runs(v, j)) /\ (Runs(v, j) => slot'[v] = slot[v])
  BY <1>1, <1>2, <1>3 DEF Runs
<1> QED  BY <1>1, <1>2, <1>3

\* The fields of an entry that are counted.
LEMMA EntryFields ==
    ASSUME NEW e \in Entry
    PROVE  /\ e.stalls \in Nat /\ e.attempts \in Nat
           /\ Added(e).stalls = e.stalls /\ Added(e).attempts = e.attempts
           /\ Added(e).holder = e.holder
           /\ Added(e).state = IF e.state = "none" THEN "waiting" ELSE e.state
           /\ Completed(e).state = "completed" /\ Completed(e).stalls = e.stalls
           /\ Failed(e).state = "failed" /\ Failed(e).stalls = e.stalls
           /\ Retried(e).state = IF e.attempts + 1 < MaxAttempts THEN "waiting" ELSE "failed"
           /\ Retried(e).stalls = e.stalls /\ Retried(e).attempts = e.attempts + 1
           /\ Stalled(e).state = "waiting" /\ Stalled(e).stalls = e.stalls + 1
           /\ Stalled(e).attempts = e.attempts
           /\ \A w : /\ Held(e, w).state = "active" /\ Held(e, w).holder = w
                     /\ Held(e, w).stalls = e.stalls /\ Held(e, w).attempts = e.attempts
<1>1. e.stalls \in Nat /\ e.attempts \in Nat
  BY PipelineAssumption DEF Entry
<1>2. /\ Added(e).stalls = e.stalls /\ Added(e).attempts = e.attempts
      /\ Added(e).holder = e.holder
      /\ Added(e).state = IF e.state = "none" THEN "waiting" ELSE e.state
  BY DEF Entry, Added
<1>3. /\ Completed(e).state = "completed" /\ Completed(e).stalls = e.stalls
      /\ Failed(e).state = "failed" /\ Failed(e).stalls = e.stalls
  BY DEF Entry, Completed, Failed
<1>4. /\ Retried(e).state = IF e.attempts + 1 < MaxAttempts THEN "waiting" ELSE "failed"
      /\ Retried(e).stalls = e.stalls /\ Retried(e).attempts = e.attempts + 1
  BY DEF Entry, Retried
<1>5. /\ Stalled(e).state = "waiting" /\ Stalled(e).stalls = e.stalls + 1
      /\ Stalled(e).attempts = e.attempts
  BY DEF Entry, Stalled
<1>6. \A w : /\ Held(e, w).state = "active" /\ Held(e, w).holder = w
             /\ Held(e, w).stalls = e.stalls /\ Held(e, w).attempts = e.attempts
  BY DEF Entry, Held
<1> QED  BY <1>1, <1>2, <1>3, <1>4, <1>5, <1>6

\* What a step without a run does to a job's entry: the hook adds it, BullMQ
\* takes it for stalled.
LEMMA EntryWithoutRun ==
    ASSUME TypeOK, [Next]_vars, UNCHANGED slot, NEW j \in Jobs
    PROVE  \/ entry'[j] = entry[j]
           \/ entry'[j] = Added(entry[j])
           \/ /\ Stall(j)
              /\ \/ entry[j].stalls < MaxStalled /\ entry'[j] = Stalled(entry[j])
                 \/ entry[j].stalls = MaxStalled /\ entry'[j] = Failed(entry[j])
<1>0. entry \in [Jobs -> Entry] /\ slot \in [Slots -> Slot]
  BY DEF TypeOK
<1>1. ASSUME NEW k \in Jobs, Stall(k)
      PROVE  \/ entry'[j] = entry[j]
             \/ /\ Stall(j)
                /\ \/ entry[j].stalls < MaxStalled /\ entry'[j] = Stalled(entry[j])
                   \/ entry[j].stalls = MaxStalled /\ entry'[j] = Failed(entry[j])
  <2>1. CASE k = j
    BY <1>0, <1>1, <2>1 DEF Stall
  <2>2. CASE k # j
    BY <1>0, <1>1, <2>2 DEF Stall
  <2> QED  BY <2>1, <2>2
<1>2. ASSUME NEW c \in Calls, HookEnqueue(c)
      PROVE  entry'[j] = entry[j] \/ entry'[j] = Added(entry[j])
  BY <1>0, <1>2 DEF HookEnqueue
<1>3. ASSUME NEW w \in Slots, Settle(w)
      PROVE  FALSE
  <2>1. slot'[w].pc = "idle" /\ slot[w].pc = "settle"
    BY <1>0, <1>3 DEF Settle, IdleSlot
  <2> QED  BY <2>1
<1>4. ASSUME NEW w \in Slots, NEW k \in Jobs, Fetch(w, k)
      PROVE  FALSE
  BY <1>4, FetchedRuns
<1> QED  BY StepsFrame, <1>1, <1>2, <1>3, <1>4 DEF Frame, EntryStep

\* A step that leaves the runs alone: of the hook, DELETE, BullMQ, the sweep,
\* or of time.
OffRun ==
    \/ \E j \in Jobs : JobStep(j)
    \/ \E c \in Calls : CallStep(c)
    \/ \E d \in Deletes : DeleteStep(d)
    \/ \E s \in Sweepers : SweepStep(s)
    \/ UNCHANGED vars

LEMMA OffRunSteps ==
    ASSUME [Next]_vars
    PROVE  \/ \E w \in Slots : RunStep(w)
           \/ \E w \in Slots, k \in Jobs : Fetch(w, k)
           \/ OffRun
BY DEF Next, SlotStep, RunStep, OffRun

LEMMA OffRunWrites ==
    ASSUME TypeOK, OffRun, NEW j \in Jobs
    PROVE  /\ UNCHANGED slot
           /\ status'[j] = "succeeded" => status[j] = "succeeded"
           /\ \/ output'[j] = output[j]
              \/ \E s \in Sweepers : SweepUnlink(s) /\ sweep[s].job = j
<1>0. status \in [Jobs -> Status] /\ output \in [Jobs -> {"none", "partial", "whole"}]
  BY DEF TypeOK
<1> DEFINE Goal == /\ UNCHANGED slot
                   /\ status'[j] = "succeeded" => status[j] = "succeeded"
                   /\ \/ output'[j] = output[j]
                      \/ \E s \in Sweepers : SweepUnlink(s) /\ sweep[s].job = j
<1>1. ASSUME NEW k \in Jobs, JobStep(k) PROVE Goal
  BY <1>1, <1>0 DEF JobStep, Reserve, UploadDone, UploadDeadlinePasses, ResultDeadlinePasses, Reclaim,
              CancelFlagExpires, Stall
<1>2. ASSUME NEW c \in Calls, CallStep(c) PROVE Goal
  BY <1>2, <1>0 DEF CallStep, HookReceive, HookMove, HookTruncate, HookFill, HookUnlink, HookDetect,
              HookReject, HookAccept, HookEnqueue, HookDies
<1>3. ASSUME NEW d \in Deletes, DeleteStep(d) PROVE Goal
  BY <1>3, <1>0 DEF DeleteStep, DeleteRead, DeleteFlag, DeleteUpdate, DeletePublish, DeleteDies
<1>5. ASSUME NEW s \in Sweepers, SweepStep(s) PROVE Goal
  <2>1. CASE SweepUnlink(s)
    BY <2>1, <1>0 DEF SweepUnlink
  <2>2. CASE SweepMark(s)
    BY <2>2, <1>0 DEF SweepMark
  <2> QED  BY <1>5, <2>1, <2>2 DEF SweepStep, SweepRead, SweepLock, SweepDies
<1>6. ASSUME UNCHANGED vars PROVE Goal
  BY <1>6 DEF vars
<1> QED  BY <1>1, <1>2, <1>3, <1>5, <1>6 DEF OffRun

-----------------------------------------------------------------------------
(* A succeeded job has its output.                                         *)

\* No worker has failed, and no run of the job was taken for stalled.
Smooth(j) == entry[j].stalls = 0 /\ faults.worker = 0

\* One run at a time, and none while the entry waits.
RunsAlone(j) ==
    /\ \A v, w \in Slots : Runs(v, j) /\ Runs(w, j) => v = w
    /\ entry[j].state \in {"none", "waiting"} => \A w \in Slots : ~Runs(w, j)

\* A run that is about to write "succeeded" has left its output whole.
OutputReady(j) ==
    \A w \in Slots :
        Runs(w, j) /\ slot[w].pc = "write" /\ slot[w].outcome = "succeeded" /\ status[j] \notin Terminal
        => output[j] = "whole"

\* After a success no run opens the output again: none is left but the one
\* that succeeded, and the entry is not handed out any more.
SuccessIsLast(j) ==
    status[j] = "succeeded" =>
        /\ output[j] = "whole"
        /\ entry[j].state \notin {"none", "waiting"}
        /\ \A w \in Slots :
              Runs(w, j) => slot[w].pc \in {"publish", "settle"} /\ slot[w].outcome = "succeeded"

\* A sweep unlinks only what it has marked.
UnlinkAfterMark ==
    \A s \in Sweepers : sweep[s].pc = "unlink" => status[sweep[s].job] = "expired"

OutputOf(j) == RunsAlone(j) /\ OutputReady(j) /\ SuccessIsLast(j)

OutputInv ==
    /\ \A j \in Jobs : Smooth(j) => OutputOf(j)
    /\ UnlinkAfterMark

\* What a run's step makes of its job's entry.
LEMMA EntryOfRun ==
    ASSUME TypeOK, PipelineInv, NEW w \in Slots, RunStep(w)
    PROVE  LET j == slot[w].job IN
           /\ j \in Jobs
           /\ \/ entry'[j] = entry[j]
              \/ Settle(w) /\ entry'[j] = Settled(entry[j], w, slot[w].outcome)
<1>0. entry \in [Jobs -> Entry]
  BY DEF TypeOK
<1>1. slot[w].job \in Jobs
  BY OneRun DEF PipelineInv, SlotKnows
<1>2. UNCHANGED entry \/ Settle(w)
  BY DEF RunStep, Begin, Announce, Poll, OpenOutput, CompressReturns, CompressThrows,
         CompressAborts, WriteOutcome, PublishOutcome, Settle, SlotDies, StoreThrows
<1>3. ASSUME Settle(w) PROVE entry'[slot[w].job] = Settled(entry[slot[w].job], w, slot[w].outcome)
  BY <1>3, <1>0, <1>1 DEF Settle
<1> QED  BY <1>1, <1>2, <1>3

\* Once a job's entry has stalled, or a worker has failed, it stays so.
LEMMA SmoothBefore ==
    ASSUME TypeOK, PipelineInv, [Next]_vars, NEW j \in Jobs, Smooth(j)'
    PROVE  Smooth(j)
<1>0. entry \in [Jobs -> Entry] /\ entry[j] \in Entry /\ faults'.worker = 0 /\ entry'[j].stalls = 0
  BY DEF TypeOK, Smooth
<1>1. faults.worker = 0
  BY <1>0, WorkerFaultsGrow
<1>2. CASE UNCHANGED slot
  <2>1. entry[j].stalls \in Nat /\ Stalled(entry[j]).stalls = entry[j].stalls + 1
        /\ Added(entry[j]).stalls = entry[j].stalls /\ Failed(entry[j]).stalls = entry[j].stalls
    BY <1>0, EntryFields
  <2>2. entry[j].stalls = 0
    BY <1>0, <1>2, <2>1, EntryWithoutRun
  <2> QED  BY <1>1, <2>2 DEF Smooth
<1>3. ASSUME NEW w \in Slots, NEW k \in Jobs, Fetch(w, k) PROVE Smooth(j)
  <2>1. Held(entry[k], w).stalls = entry[k].stalls
    BY <1>0, EntryFields
  <2>2. entry'[j] = entry[j] \/ entry'[j] = Held(entry[j], w)
    BY <1>3, FetchedRuns
  <2>3. Held(entry[j], w).stalls = entry[j].stalls
    BY <1>0, EntryFields
  <2> QED  BY <1>0, <1>1, <2>2, <2>3 DEF Smooth
<1>4. ASSUME NEW w \in Slots, RunStep(w) PROVE Smooth(j)
  <2>1. CASE slot[w].job # j
    BY <1>0, <1>1, <1>4, <2>1, OtherJobs DEF Smooth
  <2>2. CASE slot[w].job = j
    <3>1. entry'[j] = entry[j] \/ entry'[j] = Settled(entry[j], w, slot[w].outcome)
      BY <1>4, <2>2, EntryOfRun
    <3>2. Settled(entry[j], w, slot[w].outcome).stalls = entry[j].stalls
      BY <1>0, EntryFields DEF Settled
    <3> QED  BY <1>0, <1>1, <3>1, <3>2 DEF Smooth
  <2> QED  BY <2>1, <2>2
<1> QED  BY <1>2, <1>3, <1>4, OffRunSteps, OffRunWrites

\* A step that leaves the runs of j alone takes nothing from its output.
LEMMA ElsewhereKept ==
    ASSUME NEW j \in Jobs, OutputOf(j),
           \A v \in Slots : (Runs(v, j)' <=> Runs(v, j)) /\ (Runs(v, j) => slot'[v] = slot[v]),
           status'[j] = "succeeded" => status[j] = "succeeded",
           status'[j] \notin Terminal => status[j] \notin Terminal,
           output'[j] = output[j] \/ status'[j] = "expired",
           entry'[j].state \in {"none", "waiting"} => entry[j].state \in {"none", "waiting"}
    PROVE  OutputOf(j)'
<1>1. RunsAlone(j)'
  BY DEF OutputOf, RunsAlone
<1>2. OutputReady(j)'
  BY DEF OutputOf, OutputReady, Terminal, Lifecycle!Terminal
<1>3. SuccessIsLast(j)'
  BY DEF OutputOf, SuccessIsLast
<1> QED  BY <1>1, <1>2, <1>3 DEF OutputOf

\* Steps outside the runs.
LEMMA OutputElsewhere ==
    ASSUME TypeOK, PipelineInv, OutputInv, [Next]_vars, OffRun, NEW j \in Jobs, OutputOf(j),
           Smooth(j)'
    PROVE  OutputOf(j)'
<1>0. entry[j] \in Entry
  BY DEF TypeOK
<1>1. \A v \in Slots : (Runs(v, j)' <=> Runs(v, j)) /\ (Runs(v, j) => slot'[v] = slot[v])
  BY OffRunWrites DEF Runs
<1>2. status'[j] \notin Terminal => status[j] \notin Terminal
  BY RowMoves
<1>3. status'[j] = "succeeded" => status[j] = "succeeded"
  BY OffRunWrites
<1>4. output'[j] = output[j] \/ status'[j] = "expired"
  <2>1. ASSUME NEW s \in Sweepers, SweepUnlink(s), sweep[s].job = j PROVE status'[j] = "expired"
    BY <2>1 DEF SweepUnlink, OutputInv, UnlinkAfterMark
  <2> QED  BY <2>1, OffRunWrites
<1>5. CASE entry'[j].state \in {"none", "waiting"} => entry[j].state \in {"none", "waiting"}
  BY <1>1, <1>2, <1>3, <1>4, <1>5, ElsewhereKept
<1>6. UNCHANGED slot
  BY OffRunWrites
<1>7. entry'[j].state \in {"none", "waiting"} => entry[j].state \in {"none", "waiting"}
  <2>1. /\ Added(entry[j]).state = IF entry[j].state = "none" THEN "waiting" ELSE entry[j].state
        /\ Failed(entry[j]).state = "failed"
        /\ Stalled(entry[j]).stalls = entry[j].stalls + 1 /\ entry[j].stalls \in Nat
    BY <1>0, EntryFields
  <2>2. entry'[j].stalls = 0
    BY DEF Smooth
  <2>3. entry'[j] # Stalled(entry[j])
    BY <2>1, <2>2
  <2> QED  BY <1>6, <2>1, <2>3, EntryWithoutRun
<1> QED  BY <1>5, <1>7

\* A job is handed to a slot.
LEMMA OutputFetched ==
    ASSUME TypeOK, PipelineInv, [Next]_vars, NEW w \in Slots, NEW k \in Jobs, Fetch(w, k),
           NEW j \in Jobs, OutputOf(j)
    PROVE  OutputOf(j)'
<1>0. /\ entry[k].state = "waiting" /\ entry'[k] = Held(entry[k], w) /\ entry[k] \in Entry
      /\ slot'[w].pc = "begin" /\ slot'[w].job = k /\ slot[w].pc = "idle"
      /\ \A v \in Slots \ {w} : slot'[v] = slot[v]
      /\ UNCHANGED <<status, output, faults>>
  BY FetchedRuns DEF TypeOK
<1>1. CASE j = k
  <2>1. \A v \in Slots : ~Runs(v, j)
    BY <1>0, <1>1 DEF OutputOf, RunsAlone
  <2>2. \A v \in Slots : Runs(v, j)' => v = w
    BY <1>0, <2>1 DEF Runs
  <2>3. entry'[j].state = "active"
    BY <1>0, <1>1, EntryFields
  <2>4. status[j] # "succeeded"
    BY <1>0, <1>1 DEF OutputOf, SuccessIsLast
  <2>5. RunsAlone(j)'
    BY <2>2, <2>3 DEF RunsAlone
  <2>6. OutputReady(j)'
    BY <2>2, <1>0 DEF OutputReady
  <2>7. SuccessIsLast(j)'
    BY <2>4, <1>0 DEF SuccessIsLast
  <2> QED  BY <2>5, <2>6, <2>7 DEF OutputOf
<1>2. CASE j # k
  <2>1. entry'[j] = entry[j]
        /\ \A v \in Slots : (Runs(v, j)' <=> Runs(v, j)) /\ (Runs(v, j) => slot'[v] = slot[v])
    BY <1>2, FetchedRuns
  <2> QED  BY <1>0, <2>1, ElsewhereKept
<1> QED  BY <1>1, <1>2

\* A run works on its job: it is the only one, and it writes "succeeded" only
\* after compress() has left the output whole.
LEMMA OutputRun ==
    ASSUME TypeOK, PipelineInv, [Next]_vars, NEW w \in Slots, RunStep(w),
           NEW j \in Jobs, OutputOf(j), Smooth(j)'
    PROVE  OutputOf(j)'
<1>0. /\ slot \in [Slots -> Slot] /\ slot[w] \in Slot /\ status \in [Jobs -> Status]
      /\ output \in [Jobs -> {"none", "partial", "whole"}]
      /\ entry \in [Jobs -> Entry] /\ entry[j] \in Entry
      /\ faults \in [api : 0 .. ApiFaults, worker : 0 .. WorkerFaults] /\ faults.worker \in Nat
  BY WorkerFaultsGrow, PipelineAssumption DEF TypeOK
<1>1. CASE slot[w].job # j
  <2>1. status'[j] = status[j] /\ entry'[j] = entry[j] /\ output'[j] = output[j]
    BY <1>1, OtherJobs
  <2>2. \A v \in Slots : (Runs(v, j)' <=> Runs(v, j)) /\ (Runs(v, j) => slot'[v] = slot[v])
    BY <1>1, SameRuns
  <2> QED  BY <2>1, <2>2, ElsewhereKept
<1>2. CASE slot[w].job = j
  <2>0. Runs(w, j) /\ \A v \in Slots : Runs(v, j)' => v = w
    <3>1. Runs(w, j)
      BY <1>2, OneRun DEF Runs
    <3> QED  BY <3>1, SameRuns DEF OutputOf, RunsAlone
  <2>1. entry[j].state \notin {"none", "waiting"}
    BY <2>0 DEF OutputOf, RunsAlone
  <2>2. \A v \in Slots : Runs(v, j)' => slot'[v].pc # "idle" /\ v = w
    BY <2>0 DEF Runs
  \* It is enough to look at this run.
  <2>3. ASSUME Runs(w, j)' => entry'[j].state \notin {"none", "waiting"},
               slot'[w].pc = "write" /\ slot'[w].outcome = "succeeded" => output'[j] = "whole" \/ status'[j] \in Terminal,
               status'[j] = "succeeded" =>
                   /\ output'[j] = "whole"
                   /\ entry'[j].state \notin {"none", "waiting"}
                   /\ slot'[w].pc # "idle" =>
                         slot'[w].pc \in {"publish", "settle"} /\ slot'[w].outcome = "succeeded"
        PROVE  OutputOf(j)'
    <3>1. RunsAlone(j)'
      BY <2>2, <2>3 DEF RunsAlone
    <3>2. OutputReady(j)'
      BY <2>2, <2>3 DEF OutputReady
    <3>3. SuccessIsLast(j)'
      BY <2>2, <2>3 DEF SuccessIsLast
    <3> QED  BY <3>1, <3>2, <3>3 DEF OutputOf
  <2>4. status[j] = "succeeded" =>
          /\ output[j] = "whole" /\ slot[w].pc \in {"publish", "settle"} /\ slot[w].outcome = "succeeded"
    BY <2>0 DEF OutputOf, SuccessIsLast
  <2>5. slot[w].pc = "write" /\ slot[w].outcome = "succeeded" => output[j] = "whole" \/ status[j] \in Terminal
    BY <2>0 DEF OutputOf, OutputReady
  <2>6. CASE Begin(w)
    <3>1. slot'[w].pc = "announce" /\ slot[w].pc = "begin" /\ entry' = entry /\ status'[j] # "succeeded"
      BY <1>0, <1>2, <2>4, <2>6, SlotFields DEF Begin
    <3> QED  BY <2>1, <2>3, <3>1
  <2>7. CASE Announce(w) \/ Poll(w) \/ OpenOutput(w)
    <3>1. slot'[w].pc = "compress" /\ slot[w].pc \in {"announce", "compress"} /\ UNCHANGED <<entry, status>>
      BY <1>0, <2>7, SlotFields DEF Announce, Poll, OpenOutput
    <3> QED  BY <2>1, <2>3, <2>4, <3>1
  <2>8. CASE CompressReturns(w) \/ CompressThrows(w) \/ CompressAborts(w)
    <3>1. /\ slot'[w].pc = "write" /\ slot[w].pc = "compress" /\ UNCHANGED <<entry, status>>
      BY <1>0, <2>8, SlotFields DEF CompressReturns, CompressThrows, CompressAborts
    <3>2. CASE CompressReturns(w)
      <4>1. output'[j] = "whole"
        BY <1>0, <1>2, <3>2 DEF CompressReturns
      <4> QED  BY <2>1, <2>3, <2>4, <3>1, <4>1
    <3>3. CASE CompressThrows(w) \/ CompressAborts(w)
      <4>1. slot'[w] = Ended(slot[w], "failed") \/ slot'[w] = Ended(slot[w], "canceled")
        BY <1>0, <3>3 DEF CompressThrows, CompressAborts
      <4>2. slot'[w].outcome # "succeeded"
        BY <1>0, <4>1 DEF Ended, Slot, Run
      <4> QED  BY <2>1, <2>3, <2>4, <3>1, <4>2
    <3> QED  BY <2>8, <3>2, <3>3
  <2>9. CASE WriteOutcome(w)
    <3>1. /\ slot[w].pc = "write" /\ entry' = entry /\ output' = output
          /\ slot'[w].pc \in {"publish", "settle"} /\ slot'[w].outcome = slot[w].outcome
      BY <1>0, <2>9, SlotFields DEF WriteOutcome, AfterWrite
    <3>2. status'[j] = "succeeded" => slot[w].outcome = "succeeded" /\ status[j] \notin Terminal
      BY <1>0, <1>2, <2>4, <2>9, <3>1 DEF WriteOutcome, WorkerGuard
    <3> QED  BY <2>1, <2>3, <2>5, <3>1, <3>2
  <2>10. CASE PublishOutcome(w)
    <3>1. /\ entry' = entry /\ output' = output /\ status' = status
          /\ slot'[w].pc = "settle" /\ slot'[w].outcome = slot[w].outcome
      BY <1>0, <2>10, SlotFields DEF PublishOutcome
    <3> QED  BY <2>1, <2>3, <2>4, <3>1
  <2>11. CASE Settle(w)
    <3>1. /\ slot'[w].pc = "idle" /\ output' = output /\ status' = status
          /\ entry'[j] = Settled(entry[j], w, slot[w].outcome)
      BY <1>0, <1>2, <2>11 DEF Settle, IdleSlot
    <3>2. slot[w].outcome = "succeeded" => entry'[j].state \notin {"none", "waiting"}
      BY <1>0, <2>1, <3>1, EntryFields DEF Settled
    <3>3. ~Runs(w, j)'
      BY <3>1 DEF Runs
    <3>4. Runs(w, j)' => entry'[j].state \notin {"none", "waiting"}
      BY <3>3
    <3>5. slot'[w].pc # "write"
      BY <3>1
    <3>6. status'[j] = "succeeded" => output'[j] = "whole" /\ entry'[j].state \notin {"none", "waiting"}
      BY <2>4, <3>1, <3>2
    <3>7. /\ slot'[w].pc = "write" /\ slot'[w].outcome = "succeeded" =>
                output'[j] = "whole" \/ status'[j] \in Terminal
          /\ slot'[w].pc # "idle" =>
                slot'[w].pc \in {"publish", "settle"} /\ slot'[w].outcome = "succeeded"
      BY <3>1, <3>5
    <3> QED  BY <2>3, <3>4, <3>6, <3>7
  <2>12. CASE SlotDies(w) \/ StoreThrows(w)
    <3>1. faults'.worker = faults.worker + 1
      BY <1>0, <2>12 DEF SlotDies, StoreThrows
    <3> QED  BY <1>0, <3>1 DEF Smooth
  <2> QED  BY <2>6, <2>7, <2>8, <2>9, <2>10, <2>11, <2>12 DEF RunStep
<1> QED  BY <1>1, <1>2

\* A marked row stays expired.
LEMMA UnlinksStep ==
    ASSUME TypeOK, PipelineInv, UnlinkAfterMark, [Next]_vars
    PROVE  UnlinkAfterMark'
<1> SUFFICES ASSUME NEW s \in Sweepers, sweep'[s].pc = "unlink" PROVE status'[sweep'[s].job] = "expired"
  BY DEF UnlinkAfterMark
<1>0. sweep \in [Sweepers -> Sweep] /\ sweep[s] \in Sweep /\ status \in [Jobs -> Status]
  BY DEF TypeOK
<1>1. sweep[s].pc # "idle" => sweep[s].job \in Jobs
  BY DEF PipelineInv, SweepKnows
<1>2. CASE sweep'[s] = sweep[s]
  <2>1. sweep[s].job \in Jobs /\ status[sweep[s].job] = "expired"
    BY <1>1, <1>2 DEF UnlinkAfterMark
  <2>2. status'[sweep[s].job] = "expired"
    BY <2>1, RowMoves DEF Terminal, Lifecycle!Terminal
  <2> QED  BY <1>2, <2>2
<1>3. ASSUME NEW k \in Sweepers, SweepStep(k), k # s PROVE sweep'[s] = sweep[s]
  BY <1>0, <1>3 DEF SweepStep, SweepRead, SweepLock, SweepMark, SweepUnlink, SweepDies
<1>4. CASE SweepStep(s)
  <2>1. SweepMark(s)
    <3>1. ASSUME SweepLock(s) PROVE FALSE
      BY <1>0, <3>1 DEF SweepLock, AfterLock, Sweep, IdleSweep
    <3>2. ASSUME SweepUnlink(s) \/ SweepDies(s) PROVE FALSE
      BY <1>0, <3>2 DEF SweepUnlink, SweepDies, IdleSweep
    <3>3. ASSUME NEW j \in Jobs, SweepRead(s, j) PROVE FALSE
      BY <1>0, <3>3 DEF SweepRead
    <3> QED  BY <1>4, <3>1, <3>2, <3>3 DEF SweepStep
  <2>2. sweep[s].job \in Jobs /\ sweep'[s].job = sweep[s].job
    BY <1>0, <1>1, <2>1 DEF SweepMark, Sweep
  <2> QED  BY <1>0, <2>1, <2>2 DEF SweepMark
<1> QED  BY StepsFrame, <1>2, <1>3, <1>4 DEF Frame

\* A job whose worker never failed and whose entry never stalled has a
\* complete output file as long as its row says succeeded.
THEOREM SucceededJobsHaveOutput == Spec => []SucceededHasOutput
<1>1. Init => OutputInv
  <2> SUFFICES ASSUME Init PROVE OutputInv
    OBVIOUS
  <2>1. \A w \in Slots, j \in Jobs : ~Runs(w, j)
    BY DEF Init, Runs, IdleSlot
  <2>2. \A j \in Jobs : OutputOf(j)
    BY <2>1 DEF Init, OutputOf, RunsAlone, OutputReady, SuccessIsLast
  <2>3. UnlinkAfterMark
    BY DEF Init, UnlinkAfterMark, IdleSweep
  <2> QED  BY <2>2, <2>3 DEF OutputInv
<1>2. TypeOK /\ PipelineInv /\ OutputInv /\ [Next]_vars => OutputInv'
  <2> SUFFICES ASSUME TypeOK, PipelineInv, OutputInv, [Next]_vars PROVE OutputInv'
    OBVIOUS
  <2>1. UnlinkAfterMark'
    BY UnlinksStep DEF OutputInv
  <2>2. ASSUME NEW j \in Jobs, Smooth(j)' PROVE OutputOf(j)'
    <3>1. OutputOf(j)
      BY <2>2, SmoothBefore DEF OutputInv
    <3> QED  BY <2>2, <3>1, OffRunSteps, OutputElsewhere, OutputFetched, OutputRun
  <2> QED  BY <2>1, <2>2 DEF OutputInv
<1>3. OutputInv => SucceededHasOutput
  BY DEF OutputInv, OutputOf, SuccessIsLast, Smooth, SucceededHasOutput
<1> QED  BY <1>1, <1>2, <1>3, PipelineTyped, PipelineSafe, PTL DEF Spec

-----------------------------------------------------------------------------
(* The queue is done with a job only when its row is.                      *)

\* A run that lives keeps its lock, and a job survives every fault of the
\* worker: MaxStalled crashes and MaxAttempts - 1 thrown calls.
EnoughAttempts == LockMayLapse = FALSE /\ WorkerFaults <= MaxStalled /\ WorkerFaults < MaxAttempts

\* Who runs holds the entry.
LockHeld ==
    \A w \in Slots : slot[w].pc # "idle" =>
        entry[slot[w].job].state = "active" /\ entry[slot[w].job].holder = w

\* A run that is through without an error has an ended row.
SettledWell ==
    \A w \in Slots : slot[w].pc = "settle" /\ slot[w].outcome = "succeeded" =>
        status[slot[w].job] \in Terminal

\* The entry is about to lose an attempt, or to be counted as stalled.
Pending(j) ==
    entry[j].state = "active" /\ (~HolderLives(j) \/ \E w \in Slots : Runs(w, j) /\ slot[w].pc = "settle")

\* As long as the row has not ended, each attempt and each stall has cost a
\* fault.
Counted(j) ==
    status[j] \notin Terminal =>
        entry[j].attempts + entry[j].stalls + (IF Pending(j) THEN 1 ELSE 0) <= faults.worker

CountInv ==
    /\ LockHeld
    /\ SettledWell
    /\ \A j \in Jobs : Counted(j)
    /\ QueueDoneMeansRowDone

\* What a step of the run w makes of its own job's entry and of the count.
LEMMA RunOfHolder ==
    ASSUME TypeOK, PipelineInv, LockHeld, NEW w \in Slots, RunStep(w), NEW j \in Jobs, slot[w].job = j
    PROVE  /\ entry[j].state = "active" /\ entry[j].holder = w
           /\ \A v \in Slots : Runs(v, j) <=> v = w
           /\ \A v \in Slots : Runs(v, j)' => v = w
           /\ Pending(j) <=> slot[w].pc = "settle"
<1>1. entry[j].state = "active" /\ entry[j].holder = w /\ Runs(w, j)
  BY OneRun DEF LockHeld, Runs
<1>2. \A v \in Slots : Runs(v, j) <=> v = w
  BY <1>1 DEF LockHeld, Runs
<1>3. \A v \in Slots : Runs(v, j)' => v = w
  BY <1>2, SameRuns
<1>4. HolderLives(j)
  BY <1>1 DEF HolderLives, Runs
<1>5. Pending(j) <=> slot[w].pc = "settle"
  BY <1>1, <1>2, <1>4 DEF Pending
<1> QED  BY <1>1, <1>2, <1>3, <1>5

\* Who runs holds the entry: only Settle and a stall take it away, and a run
\* that lives is not taken for stalled.
LEMMA LockStep ==
    ASSUME EnoughAttempts, TypeOK, PipelineInv, LockHeld, [Next]_vars
    PROVE  LockHeld'
<1> SUFFICES ASSUME NEW w \in Slots, NEW j \in Jobs, Runs(w, j)'
             PROVE  entry'[j].state = "active" /\ entry'[j].holder = w
  <2>1. ASSUME NEW w \in Slots, slot'[w].pc # "idle" PROVE slot'[w].job \in Jobs
    BY <2>1, SlotsStep DEF SlotKnows
  <2> QED  BY <2>1 DEF LockHeld, Runs
<1>0. entry \in [Jobs -> Entry] /\ entry[j] \in Entry
  BY DEF TypeOK
<1>1. CASE Runs(w, j) /\ entry'[j] = entry[j]
  BY <1>1 DEF LockHeld, Runs
<1>2. CASE OffRun
  <2>1. Runs(w, j) /\ UNCHANGED slot
    BY <1>2, OffRunWrites DEF Runs
  <2>2. entry[j].state = "active" /\ entry[j].holder = w
    BY <2>1 DEF LockHeld, Runs
  <2>3. ~Stall(j)
    BY <2>1, <2>2 DEF Stall, EnoughAttempts, HolderLives, Runs
  <2>4. Added(entry[j]).state = "active" /\ Added(entry[j]).holder = w
    BY <1>0, <2>2, EntryFields
  <2> QED  BY <2>1, <2>2, <2>3, <2>4, EntryWithoutRun
<1>3. ASSUME NEW v \in Slots, NEW k \in Jobs, Fetch(v, k)
      PROVE  entry'[j].state = "active" /\ entry'[j].holder = w
  <2>0. /\ entry[k].state = "waiting" /\ entry'[k] = Held(entry[k], v) /\ entry[k] \in Entry
        /\ \A u \in Slots \ {v} : slot'[u] = slot[u]
    BY <1>3, FetchedRuns DEF TypeOK
  <2>1. CASE j = k
    <3>1. w = v
      <4>1. ~Runs(w, j)
        BY <2>0, <2>1 DEF LockHeld, Runs
      <4> QED  BY <2>0, <4>1 DEF Runs
    <3> QED  BY <2>0, <2>1, <3>1, EntryFields
  <2>2. CASE j # k
    <3>1. Runs(w, j) /\ entry'[j] = entry[j]
      BY <1>3, <2>2, FetchedRuns
    <3> QED  BY <3>1, <1>1
  <2> QED  BY <2>1, <2>2
<1>4. ASSUME NEW v \in Slots, RunStep(v)
      PROVE  entry'[j].state = "active" /\ entry'[j].holder = w
  <2>1. CASE slot[v].job # j
    <3>1. Runs(w, j) /\ entry'[j] = entry[j]
      BY <1>4, <2>1, SameRuns, OtherJobs
    <3> QED  BY <3>1, <1>1
  <2>2. CASE slot[v].job = j
    <3>1. v = w /\ Runs(w, j)
      BY <1>4, <2>2, RunOfHolder, SameRuns
    <3>2. ~Settle(v)
      <4>1. slot'[v].pc # "idle"
        BY <3>1 DEF Runs
      <4> QED  BY <4>1 DEF Settle, IdleSlot, TypeOK
    <3>3. entry'[j] = entry[j]
      BY <1>4, <2>2, <3>2, EntryOfRun
    <3> QED  BY <3>1, <3>3, <1>1
  <2> QED  BY <2>1, <2>2
<1> QED  BY <1>2, <1>3, <1>4, OffRunSteps

\* A run ends without an error only under an ended row.
LEMMA SettledStep ==
    ASSUME TypeOK, PipelineInv, SettledWell, [Next]_vars
    PROVE  SettledWell'
<1> SUFFICES ASSUME NEW w \in Slots, slot'[w].pc = "settle", slot'[w].outcome = "succeeded"
             PROVE  status'[slot'[w].job] \in Terminal
  BY DEF SettledWell
<1>0. slot \in [Slots -> Slot] /\ slot[w] \in Slot
  BY DEF TypeOK
<1>1. SlotKnows(w)
  BY DEF PipelineInv
<1>2. CASE slot'[w] = slot[w]
  <2>1. status[slot[w].job] \in Terminal /\ slot[w].job \in Jobs
    BY <1>1, <1>2 DEF SettledWell, SlotKnows
  <2> QED  BY <1>2, <2>1, RowMoves
<1>3. ASSUME NEW v \in Slots, v # w, SlotStep(v) PROVE slot'[w] = slot[w]
  <2>1. ASSUME NEW k \in Jobs, Fetch(v, k) PROVE slot'[w] = slot[w]
    BY <1>3, <2>1, FetchedRuns
  <2>2. ASSUME RunStep(v) PROVE slot'[w] = slot[w]
    BY <1>3, <2>2, OneRun
  <2> QED  BY <1>3, <2>1, <2>2 DEF SlotStep, RunStep
<1>4. CASE SlotStep(w) /\ slot'[w] # slot[w]
  <2>1. ASSUME NEW k \in Jobs, Fetch(w, k) PROVE FALSE
    BY <2>1, FetchedRuns
  <2>2. CASE Begin(w) \/ Announce(w) \/ CompressReturns(w) \/ CompressThrows(w) \/ CompressAborts(w)
    <3>1. slot'[w].pc \in {"announce", "compress", "write"}
      BY <1>0, <2>2, SlotFields DEF Begin, Announce, CompressReturns, CompressThrows, CompressAborts
    <3> QED  BY <3>1
  <2>3. CASE Poll(w) \/ OpenOutput(w)
    <3>1. slot'[w].pc = "compress"
      BY <1>0, <2>3, SlotFields DEF Poll, OpenOutput
    <3> QED  BY <3>1
  <2>4. CASE WriteOutcome(w)
    <3>1. /\ slot'[w].job = slot[w].job /\ slot[w].job \in Jobs
          /\ slot'[w].pc = AfterWrite(WorkerGuard(slot[w].job))
      BY <1>0, <1>1, <2>4, SlotFields DEF WriteOutcome, SlotKnows
    <3>2. status[slot[w].job] \in Terminal
      BY <3>1 DEF AfterWrite, WorkerGuard
    <3> QED  BY <3>1, <3>2, RowMoves
  <2>5. CASE PublishOutcome(w)
    <3>1. slot'[w].job = slot[w].job /\ slot[w].pc = "publish"
      BY <1>0, <2>5, SlotFields DEF PublishOutcome
    <3>2. slot[w].job \in Jobs /\ status[slot[w].job] \in {slot[w].outcome, "expired"}
      BY <1>1, <3>1 DEF SlotKnows
    <3>3. slot[w].outcome \in Outcome
      BY <1>0, <3>1, SlotOps
    <3>4. status[slot[w].job] \in Terminal
      BY <3>2, <3>3 DEF Outcome, Terminal, Lifecycle!Terminal
    <3> QED  BY <3>1, <3>2, <3>4, RowMoves
  <2>6. CASE Settle(w) \/ SlotDies(w)
    BY <1>0, <2>6 DEF Settle, SlotDies, IdleSlot
  <2>7. CASE StoreThrows(w)
    <3>1. slot'[w] = AfterThrow(slot[w])
      BY <1>0, <2>7 DEF StoreThrows
    <3>2. AfterThrow(slot[w]).outcome = "failed"
      BY <1>0 DEF AfterThrow, Ended, Slot, Run
    <3> QED  BY <3>1, <3>2
  <2> QED  BY <1>4, <2>1, <2>2, <2>3, <2>4, <2>5, <2>6, <2>7 DEF SlotStep
<1> QED  BY StepsFrame, <1>2, <1>3, <1>4 DEF Frame

\* The count, without its case distinction.
LEMMA CountedMeans ==
    ASSUME NEW j \in Jobs, NEW a \in Nat, NEW s \in Nat, NEW f \in Nat,
           a = entry[j].attempts, s = entry[j].stalls, f = faults.worker
    PROVE  Counted(j) <=> (status[j] \notin Terminal =>
               a + s <= f /\ (Pending(j) => a + s + 1 <= f))
<1>1. CASE Pending(j)
  BY <1>1 DEF Counted
<1>2. CASE ~Pending(j)
  BY <1>2 DEF Counted
<1> QED  BY <1>1, <1>2

LEMMA CountedMeansNext ==
    ASSUME NEW j \in Jobs, NEW a \in Nat, NEW s \in Nat, NEW f \in Nat,
           a = entry'[j].attempts, s = entry'[j].stalls, f = faults'.worker
    PROVE  Counted(j)' <=> (status'[j] \notin Terminal =>
               a + s <= f /\ (Pending(j)' => a + s + 1 <= f))
<1>1. CASE Pending(j)'
  BY <1>1 DEF Counted
<1>2. CASE ~Pending(j)'
  BY <1>2 DEF Counted
<1> QED  BY <1>1, <1>2

\* Where neither the entry nor its runs change, the count stays.
LEMMA CountKept ==
    ASSUME TypeOK, PipelineInv, [Next]_vars, NEW j \in Jobs, Counted(j),
           \A v \in Slots : (Runs(v, j)' <=> Runs(v, j)) /\ (Runs(v, j) => slot'[v] = slot[v]),
           entry'[j].state = "active" => entry[j].state = "active" /\ entry'[j].holder = entry[j].holder,
           entry'[j].attempts = entry[j].attempts, entry'[j].stalls = entry[j].stalls
    PROVE  Counted(j)'
<1>0. /\ entry[j].attempts \in Nat /\ entry[j].stalls \in Nat /\ faults.worker \in Nat
      /\ faults'.worker \in Nat /\ faults'.worker >= faults.worker
  BY EntryFields, WorkerFaultsGrow, PipelineAssumption DEF TypeOK
<1>1. Pending(j)' => Pending(j)
  <2>1. ASSUME entry[j].state = "active", entry'[j].holder = entry[j].holder, HolderLives(j) PROVE HolderLives(j)'
    BY <2>1 DEF HolderLives, Runs
  <2> QED  BY <2>1 DEF Pending
<1>2. status'[j] \notin Terminal => status[j] \notin Terminal
  BY RowMoves
<1>3. status[j] \notin Terminal =>
        /\ entry[j].attempts + entry[j].stalls <= faults.worker
        /\ Pending(j) => entry[j].attempts + entry[j].stalls + 1 <= faults.worker
  BY <1>0, CountedMeans
<1>4. status'[j] \notin Terminal =>
        /\ entry'[j].attempts + entry'[j].stalls <= faults'.worker
        /\ Pending(j)' => entry'[j].attempts + entry'[j].stalls + 1 <= faults'.worker
  BY <1>0, <1>1, <1>2, <1>3
<1> QED  BY <1>0, <1>4, CountedMeansNext

\* Every attempt and every stall is paid for by a fault of the worker, and
\* the queue gives no entry up while its row is open.
LEMMA CountStep ==
    ASSUME EnoughAttempts, TypeOK, PipelineInv, CountInv, [Next]_vars, NEW j \in Jobs
    PROVE  /\ Counted(j)'
           /\ entry'[j].state \in {"completed", "failed"} => status'[j] \in Terminal
<1> DEFINE Goal == /\ Counted(j)'
                   /\ entry'[j].state \in {"completed", "failed"} => status'[j] \in Terminal
<1>0. /\ entry[j] \in Entry /\ entry[j].attempts \in Nat /\ entry[j].stalls \in Nat
      /\ faults.worker \in Nat /\ faults.worker <= WorkerFaults
      /\ faults'.worker \in Nat /\ faults'.worker >= faults.worker
      /\ WorkerFaults \in Nat /\ MaxStalled \in Nat /\ MaxAttempts \in Nat
      /\ WorkerFaults <= MaxStalled /\ WorkerFaults < MaxAttempts
  BY EntryFields, WorkerFaultsGrow, PipelineAssumption DEF TypeOK, EnoughAttempts
<1>1. /\ LockHeld /\ SettledWell /\ Counted(j)
      /\ entry[j].state \in {"completed", "failed"} => status[j] \in Terminal
  BY DEF CountInv, QueueDoneMeansRowDone
<1>2. /\ status'[j] \notin Terminal => status[j] \notin Terminal
  BY RowMoves
<1>3. status[j] \notin Terminal =>
        /\ entry[j].attempts + entry[j].stalls <= faults.worker
        /\ Pending(j) => entry[j].attempts + entry[j].stalls + 1 <= faults.worker
  BY <1>0, <1>1, CountedMeans
<1>4. CASE OffRun
  <2>0. UNCHANGED slot
    BY <1>4, OffRunWrites
  <2>1. \A v \in Slots : (Runs(v, j)' <=> Runs(v, j)) /\ (Runs(v, j) => slot'[v] = slot[v])
    BY <2>0 DEF Runs
  <2>2. CASE entry'[j] = entry[j] \/ entry'[j] = Added(entry[j])
    <3>1. /\ entry'[j].attempts = entry[j].attempts /\ entry'[j].stalls = entry[j].stalls
          /\ entry'[j].state = "active" => entry[j].state = "active" /\ entry'[j].holder = entry[j].holder
          /\ entry'[j].state \in {"completed", "failed"} => entry[j].state = entry'[j].state
      BY <1>0, <2>2, EntryFields
    <3> QED  BY <1>1, <1>2, <2>1, <3>1, CountKept
  <2>3. CASE Stall(j)
    <3>1. Pending(j)
      BY <2>3 DEF Stall, EnoughAttempts, Pending
    <3>2. CASE entry'[j] = Stalled(entry[j])
      <4>1. /\ entry'[j].attempts = entry[j].attempts /\ entry'[j].stalls = entry[j].stalls + 1
            /\ entry'[j].state = "waiting"
        BY <1>0, <3>2, EntryFields
      <4>2. ~Pending(j)'
        BY <4>1 DEF Pending
      <4>3. status'[j] \notin Terminal => entry'[j].attempts + entry'[j].stalls <= faults'.worker
        BY <1>0, <1>2, <1>3, <3>1, <4>1
      <4>4. entry'[j].attempts \in Nat /\ entry'[j].stalls \in Nat
        BY <1>0, <4>1
      <4>5. Counted(j)'
        BY <1>0, <4>2, <4>3, <4>4, CountedMeansNext
      <4> QED  BY <4>1, <4>5
    <3>3. CASE entry[j].stalls = MaxStalled
      <4>1. status[j] \in Terminal
        BY <1>0, <1>3, <3>1, <3>3
      <4>2. status'[j] \in Terminal
        BY <1>2, <4>1
      <4> QED  BY <4>2 DEF Counted
    <3>4. entry'[j] = Stalled(entry[j]) \/ entry[j].stalls = MaxStalled
      BY <2>3 DEF Stall, TypeOK
    <3> QED  BY <3>2, <3>3, <3>4
  <2> QED  BY <2>0, <2>2, <2>3, EntryWithoutRun
<1>5. ASSUME NEW w \in Slots, NEW k \in Jobs, Fetch(w, k) PROVE Goal
  <2>0. /\ entry[k].state = "waiting" /\ entry'[k] = Held(entry[k], w)
        /\ slot'[w].pc = "begin" /\ slot'[w].job = k
        /\ \A v \in Slots \ {w} : slot'[v] = slot[v]
    BY <1>5, FetchedRuns
  <2>1. CASE j = k
    <3>1. /\ entry'[j].attempts = entry[j].attempts /\ entry'[j].stalls = entry[j].stalls
          /\ entry'[j].state = "active" /\ entry'[j].holder = w
      BY <1>0, <2>0, <2>1, EntryFields
    <3>2. \A v \in Slots : ~Runs(v, j)
      BY <2>0, <2>1, <1>1 DEF LockHeld, Runs
    <3>3. \A v \in Slots : Runs(v, j)' => v = w
      BY <2>0, <3>2 DEF Runs
    <3>4. HolderLives(j)'
      BY <2>0, <2>1, <3>1 DEF HolderLives
    <3>5. ~Pending(j)'
      BY <2>0, <3>3, <3>4 DEF Pending
    <3>6. status'[j] \notin Terminal => entry'[j].attempts + entry'[j].stalls <= faults'.worker
      BY <1>0, <1>2, <1>3, <3>1
    <3>7. Counted(j)'
      BY <1>0, <3>1, <3>5, <3>6, CountedMeansNext
    <3> QED  BY <3>1, <3>7
  <2>2. CASE j # k
    <3>1. entry'[j] = entry[j]
          /\ \A v \in Slots : (Runs(v, j)' <=> Runs(v, j)) /\ (Runs(v, j) => slot'[v] = slot[v])
      BY <1>5, <2>2, FetchedRuns
    <3> QED  BY <1>1, <1>2, <3>1, CountKept
  <2> QED  BY <2>1, <2>2
<1>6. ASSUME NEW w \in Slots, RunStep(w) PROVE Goal
  <2>1. CASE slot[w].job # j
    <3>1. entry'[j] = entry[j]
      BY <1>6, <2>1, OtherJobs
    <3>2. \A v \in Slots : (Runs(v, j)' <=> Runs(v, j)) /\ (Runs(v, j) => slot'[v] = slot[v])
      BY <1>6, <2>1, SameRuns
    <3> QED  BY <1>1, <1>2, <3>1, <3>2, CountKept
  <2>2. CASE slot[w].job = j
    <3>0. /\ slot \in [Slots -> Slot] /\ slot[w] \in Slot
          /\ faults \in [api : 0 .. ApiFaults, worker : 0 .. WorkerFaults]
      BY DEF TypeOK
    <3>1. /\ entry[j].state = "active" /\ entry[j].holder = w
          /\ \A v \in Slots : Runs(v, j)' => v = w
          /\ Pending(j) <=> slot[w].pc = "settle"
      BY <1>1, <1>6, <2>2, RunOfHolder
    <3>2. CASE Settle(w)
      <4>1. entry'[j] = IF slot[w].outcome = "succeeded" THEN Completed(entry[j]) ELSE Retried(entry[j])
        <5>1. slot'[w].pc = "idle"
          BY <3>0, <3>2 DEF Settle, IdleSlot
        <5>2. entry'[j] = Settled(entry[j], w, slot[w].outcome)
          BY <2>2, <3>2 DEF Settle, TypeOK
        <5> QED  BY <3>1, <5>2 DEF Settled
      <4>2. slot[w].pc = "settle"
        BY <3>2 DEF Settle
      <4>3. CASE slot[w].outcome = "succeeded"
        <5>1. status[j] \in Terminal
          BY <1>1, <2>2, <4>2, <4>3 DEF SettledWell
        <5> QED  BY <1>2, <5>1 DEF Counted
      <4>4. CASE slot[w].outcome # "succeeded"
        <5>1. /\ entry'[j].attempts = entry[j].attempts + 1 /\ entry'[j].stalls = entry[j].stalls
              /\ entry'[j].state = IF entry[j].attempts + 1 < MaxAttempts THEN "waiting" ELSE "failed"
          BY <1>0, <4>1, <4>4, EntryFields
        <5>2. ~Pending(j)'
          BY <5>1 DEF Pending
        <5>3. status'[j] \notin Terminal =>
                entry'[j].attempts + entry'[j].stalls <= faults'.worker /\ entry'[j].state = "waiting"
          BY <1>0, <1>2, <1>3, <3>1, <4>2, <5>1
        <5>4. entry'[j].attempts \in Nat /\ entry'[j].stalls \in Nat
          BY <1>0, <5>1
        <5>5. Counted(j)'
          BY <1>0, <5>2, <5>3, <5>4, CountedMeansNext
        <5> QED  BY <5>3, <5>5
      <4> QED  BY <4>3, <4>4
    <3>3. CASE SlotDies(w) \/ StoreThrows(w)
      <4>1. faults'.worker = faults.worker + 1
        BY <1>0, <3>0, <3>3 DEF SlotDies, StoreThrows
      <4>2. entry'[j] = entry[j]
        BY <3>3 DEF SlotDies, StoreThrows
      <4>3. status'[j] \notin Terminal => entry'[j].attempts + entry'[j].stalls + 1 <= faults'.worker
        BY <1>0, <1>2, <1>3, <4>1, <4>2
      <4>4. status'[j] \notin Terminal => entry'[j].attempts + entry'[j].stalls <= faults'.worker
        BY <1>0, <4>2, <4>3
      <4>5. Counted(j)'
        BY <1>0, <4>2, <4>3, <4>4, CountedMeansNext
      <4> QED  BY <1>1, <1>2, <4>2, <4>5
    <3>4. CASE WriteOutcome(w)
      <4>1. status'[j] \in Terminal
        <5>1. j \in Jobs /\ slot[w].outcome \in Outcome /\ status \in [Jobs -> Status]
          BY <3>0, <3>4, SlotOps DEF WriteOutcome, TypeOK
        <5>2. WorkerGuard(j) => status'[j] = slot[w].outcome
          BY <2>2, <3>4, <5>1 DEF WriteOutcome
        <5> QED  BY <1>2, <5>1, <5>2 DEF WorkerGuard, Outcome, Terminal, Lifecycle!Terminal
      <4> QED  BY <4>1 DEF Counted
    <3>5. CASE PublishOutcome(w)
      <4>1. status[j] \in Terminal
        <5>1. slot[w].pc = "publish"
          BY <3>5 DEF PublishOutcome
        <5>2. status[j] \in {slot[w].outcome, "expired"} /\ slot[w].outcome \in Outcome
          BY <2>2, <3>0, <5>1, SlotOps DEF PipelineInv, SlotKnows
        <5> QED  BY <5>2 DEF Outcome, Terminal, Lifecycle!Terminal
      <4>2. status'[j] \in Terminal
        BY <1>2, <4>1
      <4> QED  BY <4>2 DEF Counted
    <3>6. CASE \/ Begin(w) \/ Announce(w) \/ Poll(w) \/ OpenOutput(w)
               \/ CompressReturns(w) \/ CompressThrows(w) \/ CompressAborts(w)
      <4>1. entry' = entry /\ slot'[w].pc \in {"announce", "compress", "write"} /\ slot'[w].job = j
        <5>1. CASE Begin(w) \/ Announce(w) \/ Poll(w) \/ OpenOutput(w)
          BY <2>2, <3>0, <5>1, SlotFields DEF Begin, Announce, Poll, OpenOutput
        <5>2. CASE CompressReturns(w) \/ CompressThrows(w) \/ CompressAborts(w)
          BY <2>2, <3>0, <5>2, SlotFields DEF CompressReturns, CompressThrows, CompressAborts
        <5> QED  BY <3>6, <5>1, <5>2
      <4>2. HolderLives(j)'
        BY <3>1, <4>1 DEF HolderLives
      <4>3. ~Pending(j)'
        BY <3>1, <4>1, <4>2 DEF Pending
      <4>4. status'[j] \notin Terminal => entry'[j].attempts + entry'[j].stalls <= faults'.worker
        BY <1>0, <1>2, <1>3, <4>1
      <4>5. Counted(j)'
        BY <1>0, <4>1, <4>3, <4>4, CountedMeansNext
      <4> QED  BY <1>1, <1>2, <4>1, <4>5
    <3> QED  BY <1>6, <3>2, <3>3, <3>4, <3>5, <3>6 DEF RunStep
  <2> QED  BY <2>1, <2>2
<1> QED  BY <1>4, <1>5, <1>6, OffRunSteps

\* If the attempts outlast the worker's faults and no live run loses its
\* lock, BullMQ is done with a job only when the row has ended.
THEOREM QueueNeverGivesUpFirst ==
    ASSUME EnoughAttempts
    PROVE  Spec => []QueueDoneMeansRowDone
<1>1. Init => CountInv
  <2> SUFFICES ASSUME Init PROVE CountInv
    OBVIOUS
  <2>1. LockHeld /\ SettledWell /\ QueueDoneMeansRowDone
    BY DEF Init, LockHeld, SettledWell, QueueDoneMeansRowDone, IdleSlot
  <2>2. ASSUME NEW j \in Jobs PROVE Counted(j)
    <3>1. entry[j].attempts = 0 /\ entry[j].stalls = 0 /\ faults.worker = 0 /\ entry[j].state = "none"
      BY DEF Init
    <3>2. ~Pending(j)
      BY <3>1 DEF Pending
    <3> QED  BY <3>1, <3>2, CountedMeans
  <2> QED  BY <2>1, <2>2 DEF CountInv
<1>2. TypeOK /\ PipelineInv /\ CountInv /\ [Next]_vars => CountInv'
  <2> SUFFICES ASSUME TypeOK, PipelineInv, CountInv, [Next]_vars PROVE CountInv'
    OBVIOUS
  <2>1. LockHeld' /\ SettledWell'
    BY LockStep, SettledStep DEF CountInv
  <2>2. (\A j \in Jobs : Counted(j))' /\ QueueDoneMeansRowDone'
    BY CountStep DEF QueueDoneMeansRowDone
  <2> QED  BY <2>1, <2>2 DEF CountInv
<1>3. CountInv => QueueDoneMeansRowDone
  BY DEF CountInv
<1> QED  BY <1>1, <1>2, <1>3, PipelineTyped, PipelineSafe, PTL DEF Spec

-----------------------------------------------------------------------------
(* compress() itself: what the pipeline takes for the one step             *)
(* CompressReturns, CompressThrows or CompressAborts is a call of          *)
(* CompressionEngine.                                                      *)

\* The steps after ffmpeg's close event.
AfterRun == {"remove", "measure", "removeCut", "statOutput"}

\* Which path the call is on, and how far its child has come.
PathKnown ==
    /\ compression.pc = "sharp" => req.mime = "image"
    /\ compression.pc \in {"sniff", "stat", "probe", "sharp"} => ffmpeg.state = "none"
    /\ compression.pc = "run" => ffmpeg.state \in {"running", "unspawned", "exited"}
    /\ compression.pc \in AfterRun => ffmpeg.state = "exited"
    /\ compression.pc = "remove" => compression.reason # "done"
    /\ compression.pc = "over" => ffmpeg.state \in {"none", "errored", "exited"}
    /\ ffmpeg.state # "exited" => ffmpeg.code = "none"
    /\ ffmpeg.state = "errored" => compression.answer = "system"

\* Nothing is left to read of a child that never ran or whose close has come.
AllHeard ==
    ffmpeg.state \in {"none", "unspawned", "errored"} \/ compression.pc \in AfterRun \cup {"over"}
    => ffmpeg.text = "none"

\* Only a running ffmpeg is killed, and the close handler looks at that first.
KillsKnown ==
    ffmpeg.killed =>
        /\ signal.aborted
        /\ ffmpeg.state \in {"running", "exited"}
        /\ compression.pc \in {"run", "remove", "over"}
        /\ compression.pc = "remove" => compression.reason = "CANCELED"
        /\ compression.pc = "over" => compression.answer = "CANCELED"

\* The three ways of a file that an answer "done" may stand beside.
Gone == outputFile = "none" /\ "gone" \in failures.of
CutKept == outputFile = "cut" /\ failures.of \cap {"rm", "stat"} # {}
Delivered == outputFile \in {"whole", "short"} \/ Gone \/ CutKept

\* What the file is at every step after the encoder, whatever has failed.
FileKnown ==
    /\ compression.pc = "measure" \/ (compression.pc = "run" /\ ffmpeg.code = "zero")
          => outputFile \in {"whole", "cut", "short"} \/ Gone
    /\ compression.pc = "removeCut" => outputFile = "cut" \/ Gone
    /\ compression.pc = "statOutput" => Delivered
    /\ compression.pc = "over" /\ compression.answer = "done" => Delivered
    /\ compression.pc = "over" /\ compression.answer # "done" /\ ffmpeg.state = "exited" /\ worker = "up"
          => outputFile = "none" \/ (compression.answer = "system" /\ "stat" \in failures.of)

EngineKnows == EngineTypeOK /\ PathKnown /\ AllHeard /\ KillsKnown /\ FileKnown

-----------------------------------------------------------------------------

EngineCall == [pc : Steps, reason : Answers, answer : Answers]
Signal == [aborted : BOOLEAN, listening : BOOLEAN]
Child == [state : {"none", "running", "unspawned", "errored", "exited"},
          killed : BOOLEAN, code : {"none", "zero", "bad"},
          tail : {"corrupt", "other"}, text : {"none", "half", "end"}]
Failures == [any : 0 .. Faults, of : SUBSET Kinds]

\* Counting failures.
LEMMA FailuresCounted ==
    ASSUME failures \in Failures, NEW k \in Kinds, Fault(k)
    PROVE  failures' \in Failures /\ failures'.of = failures.of \union {k}
<1>1. Faults \in Nat
  BY FaultsAreCounted
<1>2. failures'.any \in 0 .. Faults /\ failures' = [any |-> failures.any + 1, of |-> failures.of \union {k}]
  BY <1>1 DEF Fault, Failures
<1>3. failures.of \union {k} \in SUBSET Kinds
  BY DEF Failures
<1> QED  BY <1>2, <1>3 DEF Failures

\* The moves of a call.
LEMMA CallMoves ==
    ASSUME compression \in EngineCall
    PROVE  /\ \A s \in Steps : Go(s) =>
                 /\ compression' \in EngineCall /\ compression'.pc = s
                 /\ compression'.reason = compression.reason
           /\ \A a \in Answers : SettleCall(a) =>
                 compression' \in EngineCall /\ compression'.pc = "over" /\ compression'.answer = a
           /\ \A s \in Steps, a \in Answers : RejectAfter(s, a) =>
                 compression' \in EngineCall /\ compression'.pc = s /\ compression'.reason = a
<1>1. \A s \in Steps : Go(s) =>
         /\ compression' \in EngineCall /\ compression'.pc = s
         /\ compression'.reason = compression.reason
  BY DEF EngineCall, Go
<1>2. \A a \in Answers : SettleCall(a) =>
         compression' \in EngineCall /\ compression'.pc = "over" /\ compression'.answer = a
  BY DEF EngineCall, SettleCall, Steps
<1>3. \A s \in Steps, a \in Answers : RejectAfter(s, a) =>
         compression' \in EngineCall /\ compression'.pc = s /\ compression'.reason = a
  BY DEF EngineCall, RejectAfter
<1> QED  BY <1>1, <1>2, <1>3

\* A step keeps EngineKnows if the conditions below hold of what it changes.
LEMMA EngineStep ==
    ASSUME EngineKnows, [EngineNext]_engineVars
    PROVE  EngineKnows' /\ (CallOver => UNCHANGED <<compression, told>> /\ outputFile' \in {outputFile, "none"})
<1> DEFINE Final == CallOver => UNCHANGED <<compression, told>> /\ outputFile' \in {outputFile, "none"}
<1>0. /\ req \in Requests /\ compression \in EngineCall /\ signal \in Signal
      /\ ffmpeg \in Child /\ outputFile \in Files /\ told \in {0, 50, 100}
      /\ worker \in {"up", "dead"} /\ failures \in Failures
      /\ PathKnown /\ AllHeard /\ KillsKnown /\ FileKnown
  BY DEF EngineKnows, EngineTypeOK, EngineCall, Signal, Child, Failures
<1>a. ASSUME req' \in Requests /\ compression' \in EngineCall /\ signal' \in Signal,
             ffmpeg' \in Child /\ outputFile' \in Files /\ told' \in {0, 50, 100},
             worker' \in {"up", "dead"} /\ failures' \in Failures
      PROVE  EngineTypeOK'
  BY <1>a DEF EngineTypeOK, EngineCall, Signal, Child, Failures
<1>b. /\ {"sniff", "stat", "probe", "sharp", "run", "remove", "measure", "removeCut", "statOutput", "over"} = Steps
      /\ {"done", "CANCELED", "ENGINE_INPUT_CORRUPT", "ENGINE_INTERNAL", "UNSUPPORTED",
          "VALIDATION_FAILED", "system"} \subseteq Answers
      /\ {"none", "part", "whole", "cut", "short"} \subseteq Files
      /\ {"rm", "stat", "gone", "other"} = Kinds
  BY DEF Steps, Answers, Files, Kinds
\* What has failed is never forgotten.
<1>c. failures' \in Failures /\ failures.of \subseteq failures'.of
  <2>1. CASE UNCHANGED failures
    BY <1>0, <2>1
  <2>2. CASE \E k \in Kinds : Fault(k)
    BY <1>0, <2>2, FailuresCounted
  <2>3. UNCHANGED failures \/ \E k \in {"rm", "stat", "gone", "other"} : Fault(k)
    BY DEF EngineNext, EventLoop, Sniff, StatImage, StatVideo, OnData, OnError,
           OnCloseAfterError, OnClose, Remove, Measure, RemoveCut, StatOutput, Abort, Vanish,
           SharpWrites, SharpEnds, ProbeEnds, FfmpegWrites, FfmpegTells, FfmpegEnds, engineVars
  <2> QED  BY <1>b, <2>1, <2>2, <2>3
\* Steps of the call that leave the child alone.
<1>1. ASSUME Sniff \/ StatImage \/ StatVideo \/ SharpEnds \/ SharpWrites
      PROVE  EngineKnows' /\ Final
  <2>1. /\ compression.pc \in {"sniff", "stat", "sharp"} /\ ffmpeg.state = "none"
        /\ UNCHANGED <<req, signal, ffmpeg, told, worker>>
    BY <1>0, <1>1 DEF Sniff, StatImage, StatVideo, SharpEnds, SharpWrites,
                      AtStep, PathKnown
  <2>2. compression' \in EngineCall /\ outputFile' \in Files
    BY <1>0, <1>1, <1>b, CallMoves DEF Sniff, StatImage, StatVideo, SharpEnds,
                      SharpWrites
  <2>3. /\ compression'.pc \in {"stat", "sharp", "probe", "over"}
        /\ compression'.pc = "sharp" => req.mime = "image"
        /\ compression'.pc = "over" => compression'.answer # "done" \/ outputFile' = "whole"
    BY <1>0, <1>1, <1>b, CallMoves DEF Sniff, StatImage, StatVideo, SharpEnds,
                      SharpWrites, AtStep, PathKnown
  <2>4. EngineTypeOK'
    BY <1>0, <1>a, <1>c, <2>1, <2>2
  <2>5. PathKnown'
    BY <1>0, <2>1, <2>3 DEF PathKnown, AfterRun
  <2>6. AllHeard'
    BY <1>0, <2>1 DEF AllHeard
  <2>7. KillsKnown'
    BY <1>0, <2>1 DEF KillsKnown
  <2>8. FileKnown'
    BY <2>1, <2>3 DEF FileKnown, Delivered
  <2> QED  BY <2>1, <2>4, <2>5, <2>6, <2>7, <2>8 DEF EngineKnows, CallOver
\* ffprobe ends, and ffmpeg is started.
<1>2. ASSUME ProbeEnds PROVE EngineKnows' /\ Final
  <2>1. /\ compression.pc = "probe" /\ ffmpeg.state = "none" /\ ffmpeg.text = "none"
        /\ ~ffmpeg.killed /\ ffmpeg.code = "none"
        /\ UNCHANGED <<req, outputFile, told, worker>>
    BY <1>0, <1>2 DEF ProbeEnds, AtStep, PathKnown, AllHeard, KillsKnown, Child
  <2>2. CASE /\ SettleCall("ENGINE_INPUT_CORRUPT") /\ UNCHANGED <<signal, ffmpeg>>
    <3>1. compression' \in EngineCall /\ compression'.pc = "over" /\ compression'.answer = "ENGINE_INPUT_CORRUPT"
      BY <1>0, <1>b, <2>2, CallMoves
    <3>2. EngineTypeOK'
      BY <1>0, <1>a, <1>c, <2>1, <2>2, <3>1
    <3>3. PathKnown' /\ AllHeard' /\ KillsKnown' /\ FileKnown'
      BY <2>1, <2>2, <3>1 DEF PathKnown, AfterRun, AllHeard, KillsKnown, FileKnown
    <3> QED  BY <2>1, <3>2, <3>3 DEF EngineKnows, CallOver
  <2>3. CASE /\ Go("run") /\ signal' = [signal EXCEPT !.listening = TRUE]
             /\ \/ ffmpeg' = [ffmpeg EXCEPT !.state = "running"] /\ UNCHANGED failures
                \/ ffmpeg' = [ffmpeg EXCEPT !.state = "unspawned"] /\ Fault("other")
    <3>1. compression' \in EngineCall /\ compression'.pc = "run" /\ signal' \in Signal
      BY <1>0, <1>b, <2>3, CallMoves DEF Signal
    <3>2. /\ ffmpeg' \in Child /\ ffmpeg'.text = "none" /\ ~ffmpeg'.killed /\ ffmpeg'.code = "none"
          /\ ffmpeg'.state \in {"running", "unspawned"}
      BY <1>0, <2>1, <2>3 DEF Child
    <3>3. EngineTypeOK'
      BY <1>0, <1>a, <1>c, <2>1, <3>1, <3>2
    <3>4. PathKnown' /\ AllHeard' /\ KillsKnown' /\ FileKnown'
      BY <2>1, <3>1, <3>2 DEF PathKnown, AfterRun, AllHeard, KillsKnown, FileKnown
    <3> QED  BY <2>1, <3>3, <3>4 DEF EngineKnows, CallOver
  <2> QED  BY <1>2, <2>2, <2>3 DEF ProbeEnds
\* The child runs.
<1>3. ASSUME FfmpegWrites \/ FfmpegTells \/ FfmpegEnds PROVE EngineKnows' /\ Final
  <2>0. ffmpeg.state = "running"
    BY <1>3 DEF FfmpegWrites, FfmpegTells, FfmpegEnds
  <2>1. /\ compression.pc = "run" /\ ffmpeg.code = "none"
        /\ ffmpeg.killed => signal.aborted
        /\ UNCHANGED <<req, compression, signal, told, worker>>
    BY <1>0, <1>3, <2>0 DEF FfmpegWrites, FfmpegTells, FfmpegEnds, PathKnown, AfterRun,
                     KillsKnown, EngineCall, Steps
  <2>2. /\ ffmpeg' \in Child /\ ffmpeg'.killed = ffmpeg.killed
        /\ ffmpeg'.state \in {"running", "exited"}
        /\ ffmpeg'.state = "running" => ffmpeg'.code = "none"
    BY <1>0, <1>3, <2>0, <2>1 DEF FfmpegWrites, FfmpegTells, FfmpegEnds, Child
  <2>3. /\ outputFile' \in Files
        /\ ffmpeg'.code = "zero" => outputFile' \in {"whole", "cut", "short"}
    <3>1. CASE FfmpegWrites \/ FfmpegTells
      BY <1>0, <1>b, <2>1, <3>1 DEF FfmpegWrites, FfmpegTells, Child
    <3>2. CASE FfmpegEnds
      <4>1. outputFile' \in {"whole", "cut", "short"} \/ (outputFile' = outputFile /\ ffmpeg'.code = "bad")
        BY <1>0, <3>2 DEF FfmpegEnds, Args, Child
      <4> QED  BY <1>0, <1>b, <4>1
    <3> QED  BY <1>3, <3>1, <3>2
  <2>4. EngineTypeOK'
    BY <1>0, <1>a, <1>c, <2>1, <2>2, <2>3
  <2>5. PathKnown' /\ AllHeard' /\ KillsKnown' /\ FileKnown'
    BY <2>1, <2>2, <2>3 DEF PathKnown, AfterRun, AllHeard, KillsKnown, FileKnown
  <2> QED  BY <2>1, <2>4, <2>5 DEF EngineKnows, CallOver
\* What it wrote to stderr is read.
<1>4. ASSUME OnData PROVE EngineKnows' /\ Final
  <2>1. /\ ffmpeg.text # "none" /\ compression.pc \notin AfterRun \cup {"over"}
        /\ UNCHANGED <<req, compression, signal, outputFile, worker, failures>>
    BY <1>0, <1>4 DEF OnData, AllHeard
  <2>2. /\ ffmpeg' \in Child /\ ffmpeg'.text = "none" /\ ffmpeg'.killed = ffmpeg.killed
        /\ ffmpeg'.state = ffmpeg.state /\ ffmpeg'.code = ffmpeg.code
    BY <1>0, <1>4 DEF OnData, Child
  <2>3. told' \in {0, 50, 100}
    BY <1>0, <1>4 DEF OnData, Percent
  <2>4. EngineTypeOK'
    BY <1>0, <1>a, <2>1, <2>2, <2>3
  <2>5. PathKnown' /\ AllHeard' /\ KillsKnown' /\ FileKnown'
    BY <1>0, <2>1, <2>2 DEF PathKnown, AllHeard, KillsKnown, FileKnown, Delivered, Gone, CutKept
  <2> QED  BY <2>1, <2>4, <2>5 DEF EngineKnows, CallOver
\* A cancel.
<1>5. ASSUME Abort PROVE EngineKnows' /\ Final
  <2>1. /\ compression.pc # "over"
        /\ UNCHANGED <<req, compression, outputFile, told, worker, failures>>
    BY <1>5 DEF Abort
  <2>2. /\ ffmpeg' \in Child /\ ffmpeg'.text = ffmpeg.text
        /\ ffmpeg'.state = ffmpeg.state /\ ffmpeg'.code = ffmpeg.code
        /\ ffmpeg'.killed => ffmpeg.killed \/ ffmpeg.state = "running"
    BY <1>0, <1>5 DEF Abort, Child
  <2>3. signal' \in Signal /\ signal'.aborted
    BY <1>0, <1>5 DEF Abort, Signal
  <2>4. ffmpeg.state = "running" => compression.pc = "run"
    BY <1>0 DEF PathKnown, AfterRun, EngineCall, Steps
  <2>5. EngineTypeOK'
    BY <1>0, <1>a, <2>1, <2>2, <2>3
  <2>6. PathKnown' /\ AllHeard'
    BY <1>0, <2>1, <2>2 DEF PathKnown, AllHeard
  <2>7. KillsKnown' /\ FileKnown'
    BY <1>0, <2>1, <2>2, <2>3, <2>4 DEF KillsKnown, FileKnown, Delivered, Gone, CutKept
  <2> QED  BY <2>1, <2>5, <2>6, <2>7 DEF EngineKnows, CallOver
\* A child that could not be started: its error, then its close.
<1>6. ASSUME OnError PROVE EngineKnows' /\ Final
  <2>1. /\ compression.pc = "run" /\ ffmpeg.state = "unspawned"
        /\ ~ffmpeg.killed /\ ffmpeg.text = "none" /\ ffmpeg.code = "none"
        /\ UNCHANGED <<req, outputFile, told, worker, failures>>
    BY <1>0, <1>6 DEF OnError, AtStep, KillsKnown, AllHeard, PathKnown, Child
  <2>2. /\ compression' \in EngineCall /\ compression'.pc = "over" /\ compression'.answer = "system"
    BY <1>0, <1>6, <1>b, CallMoves DEF OnError
  <2>3. /\ ffmpeg' \in Child /\ ffmpeg'.state = "errored" /\ ~ffmpeg'.killed
        /\ ffmpeg'.text = "none" /\ ffmpeg'.code = "none" /\ signal' \in Signal
    BY <1>0, <1>6, <2>1 DEF OnError, Child, Signal
  <2>4. EngineTypeOK'
    BY <1>0, <1>a, <2>1, <2>2, <2>3
  <2>5. PathKnown' /\ AllHeard' /\ KillsKnown' /\ FileKnown'
    BY <1>0, <2>1, <2>2, <2>3 DEF PathKnown, AfterRun, AllHeard, KillsKnown, FileKnown
  <2> QED  BY <2>1, <2>4, <2>5 DEF EngineKnows, CallOver
<1>7. ASSUME OnCloseAfterError PROVE EngineKnows' /\ Final
  <2>1. /\ compression.pc = "over" /\ ffmpeg.state = "errored" /\ compression.answer = "system"
        /\ ~ffmpeg.killed /\ ffmpeg.text = "none" /\ ffmpeg.code = "none"
        /\ UNCHANGED <<req, compression, signal, told>>
    BY <1>0, <1>7 DEF OnCloseAfterError, KillsKnown, AllHeard, PathKnown, AfterRun, Child,
                      EngineCall, Steps
  <2>2. /\ ffmpeg' \in Child /\ ffmpeg'.state = "exited" /\ ~ffmpeg'.killed /\ ffmpeg'.text = "none"
    BY <1>0, <1>7, <2>1 DEF OnCloseAfterError, Child
  <2>3. /\ outputFile' \in {outputFile, "none"} /\ worker' \in {"up", "dead"}
        /\ outputFile' = "none" \/ worker' = "dead"
    BY <1>0, <1>7 DEF OnCloseAfterError
  <2>4. EngineTypeOK'
    BY <1>0, <1>a, <1>b, <1>c, <2>1, <2>2, <2>3
  <2>5. PathKnown' /\ AllHeard' /\ KillsKnown' /\ FileKnown'
    BY <1>0, <2>1, <2>2, <2>3 DEF PathKnown, AfterRun, AllHeard, KillsKnown, FileKnown
  <2> QED  BY <2>1, <2>3, <2>4, <2>5 DEF EngineKnows
\* ffmpeg's close event: the abort first, then the exit code.
<1>8. ASSUME OnClose PROVE EngineKnows' /\ Final
  <2>1. /\ compression.pc = "run" /\ ffmpeg.state = "exited" /\ ffmpeg.text = "none"
        /\ UNCHANGED <<req, ffmpeg, outputFile, told, worker, failures>>
    BY <1>8 DEF OnClose, AtStep, AllRead
  <2>2. signal' \in Signal /\ signal'.aborted = signal.aborted
    BY <1>0, <1>8 DEF OnClose, Signal
  <2>3. /\ compression' \in EngineCall
        /\ \/ compression'.pc = "remove" /\ compression'.reason = "CANCELED"
           \/ /\ compression'.pc = "remove" /\ ~signal.aborted
              /\ compression'.reason \in {"ENGINE_INPUT_CORRUPT", "ENGINE_INTERNAL"}
           \/ compression'.pc = "measure" /\ ~signal.aborted /\ ffmpeg.code = "zero"
    <3>1. FailReason \in {"ENGINE_INPUT_CORRUPT", "ENGINE_INTERNAL"}
      BY DEF FailReason
    <3>2. FailReason \in Answers /\ "CANCELED" \in Answers
      BY <1>b, <3>1
    <3>3. CASE signal.aborted /\ RejectAfter("remove", "CANCELED")
      BY <1>0, <1>b, <3>2, <3>3, CallMoves
    <3>4. CASE ~signal.aborted /\ RejectAfter("remove", FailReason)
      BY <1>0, <1>b, <3>1, <3>2, <3>4, CallMoves
    <3>5. CASE ~signal.aborted /\ ffmpeg.code = "zero" /\ Go("measure")
      BY <1>0, <1>b, <3>5, CallMoves
    <3> QED  BY <1>8, <3>3, <3>4, <3>5 DEF OnClose, AfterClose
  <2>4. EngineTypeOK'
    BY <1>0, <1>a, <2>1, <2>2, <2>3
  <2>5. PathKnown' /\ AllHeard'
    BY <1>0, <2>1, <2>3 DEF PathKnown, AfterRun, AllHeard
  <2>6. KillsKnown' /\ FileKnown'
    BY <1>0, <2>1, <2>2, <2>3 DEF KillsKnown, FileKnown, Delivered, Gone, CutKept
  <2> QED  BY <2>1, <2>4, <2>5, <2>6 DEF EngineKnows, CallOver
\* What follows the close.
<1>9. ASSUME Remove \/ Measure \/ RemoveCut \/ StatOutput PROVE EngineKnows' /\ Final
  <2>1. /\ compression.pc \in AfterRun /\ ffmpeg.state = "exited" /\ ffmpeg.text = "none"
        /\ UNCHANGED <<req, signal, ffmpeg, told>>
    BY <1>0, <1>9 DEF Remove, Measure, RemoveCut, StatOutput, AtStep,
                      AfterRun, PathKnown, AllHeard
  <2>2. outputFile' \in {outputFile, "none"} /\ worker' \in {"up", "dead"}
    BY <1>0, <1>9 DEF Remove, Measure, RemoveCut, StatOutput
  <2>3. compression.reason \in Answers /\ compression.pc \in Steps
    BY <1>0 DEF EngineCall
  <2>4. CASE Remove
    <3>1. compression.pc = "remove" /\ compression.reason # "done"
      BY <1>0, <2>4 DEF Remove, AtStep, PathKnown
    <3>2. CASE outputFile' = "none" /\ SettleCall(compression.reason) /\ UNCHANGED <<worker, failures>>
      <4>1. compression' \in EngineCall /\ compression'.pc = "over" /\ compression'.answer = compression.reason
        BY <1>0, <2>3, <3>2, CallMoves
      <4>2. EngineTypeOK'
        BY <1>0, <1>a, <1>b, <1>c, <2>1, <3>2, <4>1
      <4>3. PathKnown' /\ AllHeard'
        BY <1>0, <2>1, <4>1 DEF PathKnown, AfterRun, AllHeard
      <4>4. KillsKnown' /\ FileKnown'
        BY <1>0, <2>1, <3>1, <3>2, <4>1 DEF KillsKnown, FileKnown
      <4> QED  BY <3>1, <4>2, <4>3, <4>4 DEF EngineKnows, CallOver
    <3>3. CASE Fault("rm") /\ UNCHANGED <<outputFile, compression>>
      <4>1. EngineTypeOK'
        BY <1>0, <1>a, <1>c, <2>1, <2>2, <3>3
      <4>2. PathKnown' /\ AllHeard' /\ KillsKnown' /\ FileKnown'
        BY <1>0, <2>1, <3>1, <3>3 DEF PathKnown, AfterRun, AllHeard, KillsKnown, FileKnown
      <4> QED  BY <3>1, <4>1, <4>2 DEF EngineKnows, CallOver
    <3> QED  BY <2>4, <3>2, <3>3 DEF Remove
  <2>5. CASE Measure \/ RemoveCut \/ StatOutput
    <3>1. /\ compression.pc \in {"measure", "removeCut", "statOutput"} /\ ~ffmpeg.killed
          /\ UNCHANGED worker
      BY <1>0, <2>5 DEF Measure, RemoveCut, StatOutput, AtStep, KillsKnown, Child
    <3>2. /\ compression' \in EngineCall
          /\ compression'.pc \in {"removeCut", "statOutput", "over"}
          /\ compression'.pc # "over" => compression'.reason = compression.reason
      BY <1>0, <1>b, <2>5, CallMoves DEF Measure, RemoveCut, StatOutput
    <3>3. FileKnown'
      <4>1. CASE Measure
        <5>1. /\ outputFile \in {"whole", "cut", "short"} \/ Gone
              /\ outputFile' = outputFile
          BY <1>0, <4>1 DEF Measure, AtStep, FileKnown
        <5>2. \/ compression'.pc = "removeCut" /\ outputFile = "cut"
              \/ compression'.pc = "statOutput" /\ outputFile # "cut"
              \/ compression'.pc = "statOutput" /\ "stat" \in failures'.of
          BY <1>0, <1>b, <4>1, CallMoves, FailuresCounted DEF Measure, ReachesCap
        <5> QED  BY <1>c, <5>1, <5>2 DEF FileKnown, Delivered, Gone, CutKept
      <4>2. CASE RemoveCut
        <5>1. outputFile = "cut" \/ Gone
          BY <1>0, <4>2 DEF RemoveCut, AtStep, FileKnown
        <5>2. CASE outputFile' = "none" /\ SettleCall("ENGINE_INPUT_CORRUPT")
          <6>1. compression'.pc = "over" /\ compression'.answer = "ENGINE_INPUT_CORRUPT"
            BY <1>0, <1>b, <5>2, CallMoves
          <6> QED  BY <5>2, <6>1 DEF FileKnown
        <5>3. CASE Fault("rm") /\ Go("statOutput") /\ UNCHANGED outputFile
          <6>1. compression'.pc = "statOutput" /\ "rm" \in failures'.of
            BY <1>0, <1>b, <5>3, CallMoves, FailuresCounted
          <6> QED  BY <1>c, <5>1, <5>3, <6>1 DEF FileKnown, Delivered, Gone, CutKept
        <5> QED  BY <4>2, <5>2, <5>3 DEF RemoveCut
      <4>3. CASE StatOutput
        <5>1. Delivered /\ outputFile' = outputFile
          BY <1>0, <4>3 DEF StatOutput, AtStep, FileKnown
        <5>2. /\ compression'.pc = "over"
              /\ \/ compression'.answer = "done"
                 \/ compression'.answer = "system" /\ outputFile = "none"
                 \/ compression'.answer = "system" /\ "stat" \in failures'.of
          BY <1>0, <1>b, <4>3, CallMoves, FailuresCounted DEF StatOutput
        <5> QED  BY <1>c, <5>1, <5>2 DEF FileKnown, Delivered, Gone, CutKept
      <4> QED  BY <2>5, <4>1, <4>2, <4>3
    <3>4. EngineTypeOK'
      BY <1>0, <1>a, <1>b, <1>c, <2>1, <2>2, <3>2
    <3>5. PathKnown' /\ AllHeard' /\ KillsKnown'
      BY <1>0, <2>1, <3>1, <3>2 DEF PathKnown, AfterRun, AllHeard, KillsKnown
    <3> QED  BY <3>1, <3>3, <3>4, <3>5 DEF EngineKnows, CallOver
  <2> QED  BY <1>9, <2>4, <2>5
\* Somebody else removes the file.
<1>10. ASSUME Vanish PROVE EngineKnows' /\ Final
  <2>1. /\ UNCHANGED <<req, compression, signal, ffmpeg, told, worker>>
        /\ outputFile' = "none" /\ "gone" \in failures'.of
    BY <1>0, <1>b, <1>10, FailuresCounted DEF Vanish
  <2>2. EngineTypeOK'
    BY <1>0, <1>a, <1>b, <1>c, <2>1
  <2>3. PathKnown' /\ AllHeard' /\ KillsKnown' /\ FileKnown'
    BY <1>0, <2>1 DEF PathKnown, AllHeard, KillsKnown, FileKnown, Delivered, Gone
  <2> QED  BY <2>1, <2>2, <2>3 DEF EngineKnows
<1>11. ASSUME UNCHANGED engineVars PROVE EngineKnows' /\ Final
  <2>1. UNCHANGED <<req, compression, signal, ffmpeg, outputFile, told, worker, failures>>
    BY <1>11 DEF engineVars
  <2>2. EngineTypeOK'
    BY <1>0, <1>a, <2>1
  <2>3. PathKnown' /\ AllHeard' /\ KillsKnown' /\ FileKnown'
    BY <1>0, <2>1 DEF PathKnown, AllHeard, KillsKnown, FileKnown, Delivered, Gone, CutKept
  <2> QED  BY <2>1, <2>2, <2>3 DEF EngineKnows
<1> QED
  BY <1>1, <1>2, <1>3, <1>4, <1>5, <1>6, <1>7, <1>8, <1>9, <1>10, <1>11 DEF EngineNext, EventLoop

LEMMA EngineStarts == EngineInit => EngineKnows
<1> SUFFICES ASSUME EngineInit PROVE EngineKnows
  OBVIOUS
<1>1. Faults \in Nat
  BY FaultsAreCounted
<1>2. EngineTypeOK
  BY <1>1 DEF EngineInit, EngineTypeOK, Steps, Answers, Files, Kinds, NoProcess
<1>3. PathKnown /\ AllHeard /\ KillsKnown /\ FileKnown
  BY DEF EngineInit, NoProcess, PathKnown, AfterRun, AllHeard, KillsKnown, FileKnown
<1> QED  BY <1>2, <1>3 DEF EngineKnows

\* A settled call of compress() has no child left, and an ffmpeg killed for a
\* cancel is reported as a cancel and nothing else.
THEOREM EngineSafe == EngineSpec => []EngineInv
<1>1. EngineKnows => EngineInv
  <2>1. EngineKnows => NoProcessOutlivesCall
    BY DEF EngineKnows, PathKnown, NoProcessOutlivesCall, CallOver
  <2>2. EngineKnows => KillMeansCanceled
    BY DEF EngineKnows, KillsKnown, KillMeansCanceled, CallOver, Verdict
  <2> QED  BY <2>1, <2>2 DEF EngineKnows, EngineInv
<1>2. EngineKnows /\ [EngineNext]_engineVars => EngineKnows'
  BY EngineStep
<1> QED  BY <1>1, <1>2, EngineStarts, PTL DEF EngineSpec

\* The answer of compress() fits the file at outputPath.  Done: the file is
\* there and was not cut off by -fs, unless somebody else removed it, or it
\* is a cut one and the rm or a stat of the output has failed.  Rejected,
\* ffmpeg has run and closed and the worker lives: there is no file, unless
\* the answer is that of a failed stat.  Nothing is said of the file beside
\* a rejection that came before ffmpeg was started, or beside sharp's.
THEOREM OutputsFitAnswers == EngineSpec => []OutputFitsAnswer
<1>1. EngineKnows => OutputFitsAnswer
  BY DEF EngineKnows, FileKnown, Delivered, Gone, CutKept, OutputFitsAnswer, CallOver
<1>2. EngineKnows /\ [EngineNext]_engineVars => EngineKnows'
  BY EngineStep
<1> QED  BY <1>1, <1>2, EngineStarts, PTL DEF EngineSpec

\* Once compress() has settled it reports no progress and writes nothing.
THEOREM SettledStaysSettled == EngineSpec => SettledIsFinal
<1>1. EngineKnows /\ [EngineNext]_engineVars =>
        EngineKnows' /\ [CallOver => UNCHANGED <<compression, told>> /\ outputFile' \in {outputFile, "none"}]_engineVars
  BY EngineStep
<1> QED  BY <1>1, EngineStarts, PTL DEF EngineSpec, SettledIsFinal

=============================================================================
