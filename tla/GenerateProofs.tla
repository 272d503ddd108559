--------------------------- MODULE GenerateProofs ---------------------------
(***************************************************************************)
(* The invariant of the runtime's calls, for every array length, reserve   *)
(* and number of tokens.  The queue is the one of module Executor with     *)
(* activations that do not nest, so the lemmas of ExecutorProofs say what  *)
(* each of its calls does; here they are put together with the stages of a *)
(* request.  The argument: a call submits one job and runs it before it    *)
(* submits the next, so between jobs all jobs are terminal, a reclaim      *)
(* empties the array, and what a request still submits fits from there on. *)
(***************************************************************************)
EXTENDS Generate, TLAPS

Queue == INSTANCE ExecutorProofs WITH MaxDepth <- 1

\* The identifiers of the jobs that wait and of those in their callback.
Waiting == Exec!IdsIn(jobs, Exec!Pending)
Active  == Exec!IdsIn(jobs, Exec!Running)

-----------------------------------------------------------------------------
(* The instance of Executor in Generate and the one its lemmas speak of    *)
(* have the same definitions.                                              *)

LEMMA QueueAssumption == Queue!ExecutorAssumption
BY GenerateAssumption DEF Queue!ExecutorAssumption

LEMMA SameTypes == Exec!Job = Queue!Job /\ Exec!Frame = Queue!Frame
BY DEF Exec!Job, Queue!Job, Exec!Frame, Queue!Frame, Exec!Status, Queue!Status,
       Exec!Pending, Queue!Pending, Exec!Running, Queue!Running,
       Exec!Completed, Queue!Completed, Exec!Failed, Queue!Failed

LEMMA SameInvariant == (Exec!IInv <=> Queue!IInv) /\ (Exec!IInv' <=> Queue!IInv')
BY SameTypes
   DEF Exec!IInv, Queue!IInv, Exec!TypeOK, Queue!TypeOK, Exec!SlotsInOrder, Queue!SlotsInOrder,
       Exec!IdsGivenOut, Queue!IdsGivenOut, Exec!BegunGivenOut, Queue!BegunGivenOut,
       Exec!PendingNotBegun, Queue!PendingNotBegun, Exec!AtMostOnce, Queue!AtMostOnce,
       Exec!RunningIffActive, Queue!RunningIffActive, Exec!StackDistinct, Queue!StackDistinct,
       Exec!IdsIn, Queue!IdsIn, Exec!IdsOn, Queue!IdsOn,
       Exec!Pending, Queue!Pending, Exec!Running, Queue!Running

LEMMA SameSets ==
  /\ Waiting = Queue!IdsIn(jobs, Queue!Pending) /\ Waiting' = Queue!IdsIn(jobs', Queue!Pending)
  /\ Active = Queue!IdsIn(jobs, Queue!Running) /\ Active' = Queue!IdsIn(jobs', Queue!Running)
  /\ EveryJobCalls <=> Queue!AllRunnable
  /\ EveryJobCalls' <=> Queue!AllRunnable'
BY DEF Waiting, Active, EveryJobCalls, Queue!AllRunnable, Exec!IdsIn, Queue!IdsIn,
       Exec!Pending, Queue!Pending, Exec!Running, Queue!Running

LEMMA SameSubmit == Exec!SubmitRunnable(TRUE) => Queue!SubmitRunnable(TRUE)
BY DEF Exec!SubmitRunnable, Queue!SubmitRunnable, Exec!Called, Queue!Called,
       Exec!Pending, Queue!Pending

LEMMA SameRunNext == Exec!RunNext => Queue!RunNext
BY DEF Exec!RunNext, Queue!RunNext, Exec!StartJob, Queue!StartJob, Exec!IsFirst, Queue!IsFirst,
       Exec!PendingSlots, Queue!PendingSlots, Exec!EnterCallback, Queue!EnterCallback,
       Exec!CompleteAtOnce, Queue!CompleteAtOnce, Exec!Mark, Queue!Mark,
       Exec!SlotsOf, Queue!SlotsOf, Exec!Called, Queue!Called, Exec!Pending, Queue!Pending,
       Exec!Running, Queue!Running, Exec!Completed, Queue!Completed

LEMMA SameReturn ==
  ASSUME NEW ok \in BOOLEAN, Exec!CallbackReturns(ok)
  PROVE  Queue!CallbackReturns(ok)
BY DEF Exec!CallbackReturns, Queue!CallbackReturns, Exec!IsFirst, Queue!IsFirst,
       Exec!Pop, Queue!Pop, Exec!Mark, Queue!Mark, Exec!SlotsOf, Queue!SlotsOf,
       Exec!Called, Queue!Called, Exec!Completed, Queue!Completed, Exec!Failed, Queue!Failed

LEMMA SameDrop == Exec!DropTerminal => Queue!DropTerminal
BY DEF Exec!DropTerminal, Queue!DropTerminal, Exec!KeptSlots, Queue!KeptSlots,
       Exec!KeepsInOrder, Queue!KeepsInOrder, Exec!Live, Queue!Live, Exec!Called, Queue!Called,
       Exec!Pending, Queue!Pending, Exec!Running, Queue!Running

-----------------------------------------------------------------------------
(* What each call of the queue does when one job is under way at most.     *)

LEMMA SubmitStep ==
  ASSUME Exec!IInv, EveryJobCalls, Waiting = {}, Active = {}, Exec!SubmitRunnable(TRUE)
  PROVE  /\ Exec!IInv' /\ EveryJobCalls'
         /\ Waiting' = {next_job_id'} /\ Active' = {}
         /\ Len(jobs') = Len(jobs) + 1
<1>1. Queue!IInv /\ Queue!AllRunnable /\ Queue!SubmitRunnable(TRUE)
  BY SameInvariant, SameSets, SameSubmit
<1>2. Queue!IInv'
  BY <1>1, QueueAssumption, Queue!SubmitKeepsIInv
<1>3. /\ Queue!IdsIn(jobs', Queue!Pending)
           = Queue!IdsIn(jobs, Queue!Pending) \union {next_job_id'}
      /\ Queue!IdsIn(jobs', Queue!Running) = Queue!IdsIn(jobs, Queue!Running)
      /\ Len(jobs') = Len(jobs) + 1
      /\ Queue!AllRunnable'
  BY <1>1, QueueAssumption, Queue!SubmitEffect
<1>4. QED
  BY <1>2, <1>3, SameInvariant, SameSets

LEMMA EnterStep ==
  ASSUME Exec!IInv, EveryJobCalls, Waiting = {next_job_id}, Active = {}, Exec!RunNext
  PROVE  /\ Exec!IInv' /\ EveryJobCalls'
         /\ Waiting' = {} /\ Active' = {next_job_id'}
         /\ Len(jobs') = Len(jobs)
<1>1. Queue!IInv /\ Queue!AllRunnable /\ Queue!RunNext
  BY SameInvariant, SameSets, SameRunNext
<1>2. PICK i \in 1 .. Len(jobs) : Queue!StartJob("run_next", i, FALSE)
  BY <1>1 DEF Queue!RunNext
<1>3. Queue!IInv'
  BY <1>1, <1>2, QueueAssumption, Queue!StartKeepsIInv
<1>4. /\ \E id \in Queue!IdsIn(jobs, Queue!Pending) :
           /\ Queue!IdsIn(jobs', Queue!Pending) = Queue!IdsIn(jobs, Queue!Pending) \ {id}
           /\ Queue!IdsIn(jobs', Queue!Running) = Queue!IdsIn(jobs, Queue!Running) \union {id}
      /\ Len(jobs') = Len(jobs) /\ next_job_id' = next_job_id
      /\ Queue!AllRunnable'
  BY <1>1, QueueAssumption, Queue!EnterEffect
<1>5. QED
  BY <1>3, <1>4, SameInvariant, SameSets

LEMMA ReturnStep ==
  ASSUME Exec!IInv, EveryJobCalls, Waiting = {}, Active = {next_job_id},
         NEW ok \in BOOLEAN, Exec!CallbackReturns(ok)
  PROVE  /\ Exec!IInv' /\ EveryJobCalls'
         /\ Waiting' = {} /\ Active' = {}
         /\ Len(jobs') = Len(jobs)
<1>1. Queue!IInv /\ Queue!AllRunnable /\ Queue!CallbackReturns(ok)
  BY SameInvariant, SameSets, SameReturn
<1>2. Queue!IInv'
  BY <1>1, QueueAssumption, Queue!ReturnKeepsIInv
<1>3. /\ \E id \in Queue!IdsIn(jobs, Queue!Running) :
           Queue!IdsIn(jobs', Queue!Running) = Queue!IdsIn(jobs, Queue!Running) \ {id}
      /\ Queue!IdsIn(jobs', Queue!Pending) = Queue!IdsIn(jobs, Queue!Pending)
      /\ Len(jobs') = Len(jobs) /\ next_job_id' = next_job_id
      /\ Queue!AllRunnable'
  BY <1>1, QueueAssumption, Queue!ReturnEffect
<1>4. QED
  BY <1>2, <1>3, SameInvariant, SameSets

LEMMA QueueUnchanged ==
  ASSUME UNCHANGED <<jobs, next_job_id, stack, begun>>
  PROVE  /\ Exec!IInv => Exec!IInv'
         /\ EveryJobCalls => EveryJobCalls'
         /\ Waiting' = Waiting /\ Active' = Active
BY DEF Exec!IInv, Exec!TypeOK, Exec!SlotsInOrder, Exec!IdsGivenOut, Exec!BegunGivenOut,
       Exec!PendingNotBegun, Exec!AtMostOnce, Exec!RunningIffActive, Exec!StackDistinct,
       EveryJobCalls, Waiting, Active

\* A reclaim between two jobs leaves room for what was asked.
LEMMA ReclaimStep ==
  ASSUME Exec!IInv, EveryJobCalls, Waiting = {}, Active = {},
         NEW n \in Nat, n <= MaxJobs, ReclaimBelow(n)
  PROVE  /\ Exec!IInv' /\ EveryJobCalls'
         /\ Waiting' = {} /\ Active' = {}
         /\ Len(jobs') + n <= MaxJobs
<1>1. jobs \in Seq(Exec!Job) /\ Len(jobs) <= MaxJobs /\ MaxJobs \in Nat
  BY GenerateAssumption DEF Exec!IInv, Exec!TypeOK
<1>2. CASE Exec!RemainingCapacity < n
  <2>1. Queue!IInv /\ Queue!DropTerminal
    BY <1>2, SameInvariant, SameDrop DEF ReclaimBelow
  <2>2. Queue!IInv'
    BY <2>1, QueueAssumption, Queue!DropKeepsIInv
  <2>3. Queue!IdsIn(jobs, Queue!Pending) = {} /\ Queue!IdsIn(jobs, Queue!Running) = {}
    BY SameSets
  <2>4. jobs' = <<>>
    BY <2>1, <2>3, QueueAssumption, Queue!DropEffect
  <2>5. EveryJobCalls' /\ Waiting' = {} /\ Active' = {} /\ Len(jobs') = 0
    BY <2>4 DEF EveryJobCalls, Waiting, Active, Exec!IdsIn
  <2>6. QED
    BY <2>2, <2>5, SameInvariant
<1>3. CASE ~(Exec!RemainingCapacity < n)
  <2>1. UNCHANGED exec
    BY <1>3 DEF ReclaimBelow
  <2>2. Exec!IInv' /\ EveryJobCalls' /\ Waiting' = {} /\ Active' = {}
    BY <2>1, QueueUnchanged DEF exec
  <2>3. Len(jobs') + n <= MaxJobs
    BY <1>1, <1>3, <2>1 DEF Exec!RemainingCapacity, exec
  <2>4. QED
    BY <2>2, <2>3
<1>4. QED
  BY <1>2, <1>3

-----------------------------------------------------------------------------
(* The stages of a call.                                                   *)

\* The queue's half of the invariant and the rest of it.
QueuePart == Exec!IInv /\ EveryJobCalls /\ OwnJobRuns

StagePart ==
  /\ loaded \in BOOLEAN /\ session \in BOOLEAN /\ ready \in BOOLEAN
  /\ pc \in Stages \union {"idle", "next_token", "replay"}
  /\ phase \in {"submit", "queued", "running"}
  /\ request \in [path : {AutoPath, NativePath, LlamaPath}, max_new : Nat \ {0}]
  /\ produced \in Nat /\ words \in Nat /\ recorded \in Nat /\ visible \in Nat
  /\ stopped \in BOOLEAN /\ piece \in BOOLEAN
  /\ emitted \in Seq(Nat)
  /\ InCall /\ OwnStages /\ WithinBounds
  /\ ReadyHasModel /\ LoopHasSession
  /\ CapacityReserved /\ NativeNeverRefused
  /\ TokensSoFar /\ ReasonTruthful
  /\ WordsSoFar /\ ReplayComplete /\ SentBelow

LEMMA TwoParts == (IInv <=> QueuePart /\ StagePart) /\ (IInv' <=> QueuePart' /\ StagePart')
BY DEF IInv, TypeOK, QueuePart, StagePart, Exec!IInv

\* The parts of the invariant that only speak of a stage or of a session.
LEMMA StageFacts ==
  ASSUME IInv
  PROVE  /\ Exec!IInv /\ EveryJobCalls
         /\ phase = "submit" => Waiting = {} /\ Active = {}
         /\ phase = "queued" => Waiting = {next_job_id} /\ Active = {}
         /\ phase = "running" => Waiting = {} /\ Active = {next_job_id}
BY DEF IInv, OwnJobRuns, Waiting, Active

\* How many jobs a stage has behind it.
LEMMA JobsAfterValues ==
  /\ DOMAIN JobsAfter = {"prepare_prompt", "tokenize", "prefetch_weights", "prefill",
                         "decode_text", "decode_step", "stream_token", "empty_token",
                         "update_kv_cache", "collect_telemetry"}
  /\ \A stage \in DOMAIN JobsAfter : JobsAfter[stage] \in Nat
  /\ JobsAfter["prepare_prompt"] = 4 /\ JobsAfter["tokenize"] = 3
  /\ JobsAfter["prefetch_weights"] = 2 /\ JobsAfter["prefill"] = 1
  /\ JobsAfter["decode_text"] = 0 /\ JobsAfter["decode_step"] = 3
  /\ JobsAfter["stream_token"] = 2 /\ JobsAfter["empty_token"] = 2
  /\ JobsAfter["update_kv_cache"] = 1 /\ JobsAfter["collect_telemetry"] = 0
BY DEF JobsAfter

\* Off the llama path the array has room for the jobs to come.
LEMMA RoomAt ==
  ASSUME IInv, request.path # LlamaPath
  PROVE  /\ Len(jobs) \in Nat /\ MaxJobs \in Nat /\ Len(jobs) <= MaxJobs
         /\ pc \in DOMAIN JobsAfter =>
              /\ Len(jobs) + JobsAfter[pc] <= MaxJobs
              /\ phase = "submit" => Len(jobs) + JobsAfter[pc] + 1 <= MaxJobs
         /\ pc = "next_token" /\ (stopped \/ produced >= request.max_new) =>
              Len(jobs) + (IF produced = 0 THEN 3 ELSE 2) <= MaxJobs
<1>1. Len(jobs) \in Nat /\ MaxJobs \in Nat /\ Len(jobs) <= MaxJobs
  BY GenerateAssumption DEF IInv, Exec!IInv, Exec!TypeOK
<1>2. pc \in DOMAIN JobsAfter => JobsAfter[pc] \in Nat /\ pc # "next_token"
  BY JobsAfterValues
<1>3. CASE pc \in DOMAIN JobsAfter
  BY <1>1, <1>2, <1>3 DEF IInv, CapacityReserved, JobsToCome
<1>4. CASE pc = "next_token"
  <2>1. produced \in Nat /\ request.max_new \in Nat /\ pc \notin DOMAIN JobsAfter
    BY <1>2, <1>4 DEF IInv, TypeOK
  <2>2. Len(jobs) + JobsToCome <= MaxJobs
    BY <1>4 DEF IInv, CapacityReserved
  <2>3. QED
    BY <1>1, <1>4, <2>1, <2>2 DEF JobsToCome
<1>5. QED
  BY <1>1, <1>3, <1>4

\* The tokens of a replay, one more at a time.
LEMMA UptoSteps ==
  /\ Upto(0) = <<>>
  /\ \A n \in Nat : Upto(n) \in Seq(Nat) /\ Append(Upto(n), n) = Upto(n + 1)
BY DEF Upto

LEMMA UptoNext ==
  ASSUME NEW n \in Nat
  PROVE  Append(Upto(n), n) = Upto(n + 1) /\ n + 1 \in Nat
<1>1. Append(Upto(n), n) = Upto(n + 1)
  BY UptoSteps, Zenon
<1>2. QED
  BY <1>1

LEMMA SubmitKeeps ==
  ASSUME IInv, Submit
  PROVE  IInv'
<1>1. /\ Exec!IInv' /\ EveryJobCalls' /\ Waiting' = {next_job_id'} /\ Active' = {}
      /\ Len(jobs') = Len(jobs) + 1
  BY StageFacts, SubmitStep DEF Submit
<1>2. QueuePart'
  BY <1>1 DEF QueuePart, OwnJobRuns, Waiting, Active, Submit
<1>3. StagePart'
  <2>1. /\ Len(jobs) \in Nat /\ MaxJobs \in Nat
    BY GenerateAssumption DEF IInv, Exec!IInv, Exec!TypeOK
  <2>2. CapacityReserved'
    BY <1>1, <2>1 DEF Submit, IInv, CapacityReserved, JobsToCome, JobsAfter, context, Stages, LoopStages, FrontStages
  <2>3. QED
    BY <2>2, TwoParts DEF Submit, StagePart, context, InCall, OwnStages, WithinBounds, ReadyHasModel,
       LoopHasSession, NativeNeverRefused, TokensSoFar, ReasonTruthful, WordsSoFar, ReplayComplete, SentBelow
<1>4. QED
  BY <1>2, <1>3, TwoParts

LEMMA SubmitFailsKeeps ==
  ASSUME IInv, SubmitFails
  PROVE  IInv'
<1>1. UNCHANGED <<jobs, next_job_id, stack, begun>> /\ Len(jobs) >= MaxJobs
  BY DEF SubmitFails, Exec!SubmitRefused
<1>2. QueuePart'
  BY <1>1, StageFacts, QueueUnchanged
     DEF SubmitFails, Return, QueuePart, OwnJobRuns, Waiting, Active
<1>3. pc # "load_model" => request.path = LlamaPath
  <2>1. Len(jobs) \in Nat /\ MaxJobs \in Nat
    BY GenerateAssumption DEF IInv, Exec!IInv, Exec!TypeOK
  <2>2. SUFFICES ASSUME pc # "load_model", request.path # LlamaPath PROVE FALSE
    OBVIOUS
  <2>3. pc \in DOMAIN JobsAfter
    BY <2>2, JobsAfterValues DEF SubmitFails, IInv, OwnStages, Stages, FrontStages, LoopStages
  <2>4. Len(jobs) + JobsAfter[pc] + 1 <= MaxJobs
    BY <2>2, <2>3, RoomAt DEF SubmitFails
  <2>5. QED
    BY <1>1, <2>1, <2>3, <2>4, JobsAfterValues
<1>4. NativeNeverRefused'
  BY <1>3 DEF SubmitFails, Return, NativeNeverRefused, context
<1>5. StagePart'
  BY <1>4, TwoParts
     DEF SubmitFails, Return, StagePart, context, Stages, FrontStages, LoopStages, InCall,
         OwnStages, WithinBounds, ReadyHasModel, LoopHasSession, CapacityReserved, JobsAfter,
         TokensSoFar, ReasonTruthful, WordsSoFar, ReplayComplete, SentBelow
<1>6. QED
  BY <1>2, <1>5, TwoParts

LEMMA EnterKeeps ==
  ASSUME IInv, Enter
  PROVE  IInv'
<1>1. /\ Exec!IInv' /\ EveryJobCalls' /\ Waiting' = {} /\ Active' = {next_job_id'}
      /\ Len(jobs') = Len(jobs)
  BY StageFacts, EnterStep DEF Enter
<1>2. QueuePart'
  BY <1>1 DEF QueuePart, OwnJobRuns, Waiting, Active, Enter
<1>3. CapacityReserved'
  BY <1>1 DEF Enter, IInv, InCall, CapacityReserved, JobsToCome, JobsAfter, context,
              Stages, FrontStages, LoopStages
<1>4. StagePart'
  BY <1>3, TwoParts
     DEF Enter, StagePart, context, InCall, OwnStages, WithinBounds, ReadyHasModel,
         LoopHasSession, NativeNeverRefused, TokensSoFar, ReasonTruthful, WordsSoFar,
         ReplayComplete, SentBelow
<1>5. QED
  BY <1>2, <1>4, TwoParts

\* A callback that returns leaves no job under way, whatever it reports.
LEMMA AfterReturn ==
  ASSUME IInv, phase = "running", NEW ok \in BOOLEAN, Exec!CallbackReturns(ok),
         phase' = "submit"
  PROVE  QueuePart' /\ Len(jobs') = Len(jobs)
<1>1. /\ Exec!IInv' /\ EveryJobCalls' /\ Waiting' = {} /\ Active' = {}
      /\ Len(jobs') = Len(jobs)
  BY StageFacts, ReturnStep
<1>2. QED
  BY <1>1 DEF QueuePart, OwnJobRuns, Waiting, Active

\* A call that ends in an error leaves what the next one starts from.
LEMMA ErrorKeeps ==
  ASSUME IInv, QueuePart', NEW ret \in {"job_failed", "not_ready", "manifest_rejected",
                                        "template_too_long", "not_loaded"},
         Return(ret, ""), UNCHANGED <<loaded, context>>,
         session' \in BOOLEAN, ready' \in BOOLEAN, ready' => session'
  PROVE  IInv'
<1>1. StagePart'
  BY TwoParts
     DEF Return, StagePart, context, Stages, FrontStages, LoopStages, InCall,
         OwnStages, WithinBounds, ReadyHasModel, LoopHasSession, CapacityReserved, JobsAfter,
         NativeNeverRefused, TokensSoFar, ReasonTruthful, WordsSoFar, ReplayComplete, SentBelow
<1>2. QED
  BY <1>1, TwoParts

\* What a callback leaves of the session.
LEMMA SessionStep ==
  ASSUME IInv, CallbackFails \/ LoadDone \/ PrefillDone
  PROVE  session' \in BOOLEAN /\ ready' \in BOOLEAN /\ (ready' => session')
<1>1. session \in BOOLEAN /\ ready \in BOOLEAN /\ (ready => session)
  BY DEF IInv, TypeOK, ReadyHasModel
<1>2. CASE CallbackFails
  BY <1>1, <1>2 DEF CallbackFails, SessionAfter, Session!Load, Session!Prefill
<1>3. CASE LoadDone
  BY <1>3 DEF LoadDone, SessionAfter, Session!Load
<1>4. CASE PrefillDone
  BY <1>1, <1>4 DEF PrefillDone, SessionAfter, Session!Prefill
<1>5. QED
  BY <1>2, <1>3, <1>4

LEMMA CallbackFailsKeeps ==
  ASSUME IInv, CallbackFails \/ LoadOtherFormat \/ DecodeUnready
  PROVE  IInv'
<1>1. phase = "running" /\ Exec!CallbackReturns(FALSE) /\ Return("job_failed", "")
      /\ UNCHANGED <<loaded, context>>
  BY DEF CallbackFails, LoadOtherFormat, DecodeUnready
<1>2. QueuePart'
  BY <1>1, AfterReturn DEF Return
<1>3. session' \in BOOLEAN /\ ready' \in BOOLEAN /\ (ready' => session')
  <2>1. CASE CallbackFails
    BY <2>1, SessionStep
  <2>2. CASE UNCHANGED <<session, ready>>
    BY <2>2 DEF IInv, TypeOK, ReadyHasModel
  <2>3. QED
    BY <2>1, <2>2 DEF LoadOtherFormat, DecodeUnready
<1>4. QED
  BY <1>1, <1>2, <1>3, ErrorKeeps

LEMMA StageDoneKeeps ==
  ASSUME IInv, StageDone
  PROVE  IInv'
<1>1. QueuePart' /\ Len(jobs') = Len(jobs)
  BY AfterReturn DEF StageDone, Goto
<1>2. CapacityReserved'
  BY <1>1 DEF StageDone, Goto, FixedNext, IInv, CapacityReserved, JobsToCome, JobsAfter, context
<1>3. StagePart'
  BY <1>2, TwoParts
     DEF StageDone, Goto, FixedNext, StagePart, context, Stages, FrontStages, LoopStages, InCall,
         OwnStages, WithinBounds, ReadyHasModel, LoopHasSession,
         NativeNeverRefused, TokensSoFar, ReasonTruthful, WordsSoFar, ReplayComplete, SentBelow
<1>4. QED
  BY <1>1, <1>3, TwoParts

LEMMA LoadDoneKeeps ==
  ASSUME IInv, LoadDone
  PROVE  IInv'
<1>1. QueuePart'
  BY AfterReturn DEF LoadDone, Return
<1>2. session' \in BOOLEAN /\ ready' \in BOOLEAN /\ (ready' => session')
  BY SessionStep
<1>3. StagePart'
  BY <1>2, TwoParts
     DEF LoadDone, Return, StagePart, context, Stages, FrontStages, LoopStages, InCall,
         OwnStages, WithinBounds, ReadyHasModel, LoopHasSession, CapacityReserved, JobsAfter,
         NativeNeverRefused, TokensSoFar, ReasonTruthful, WordsSoFar, ReplayComplete, SentBelow
<1>4. QED
  BY <1>1, <1>3, TwoParts

\* The native loop is entered with a session and a hidden state.
LEMMA PrefillDoneKeeps ==
  ASSUME IInv, PrefillDone
  PROVE  IInv'
<1>1. QueuePart' /\ Len(jobs') = Len(jobs)
  BY AfterReturn DEF PrefillDone, Goto, Return
<1>2. session' \in BOOLEAN /\ ready' \in BOOLEAN /\ (ready' => session')
  BY SessionStep
<1>3. CASE request.path = NativePath /\ ~ready'
  BY <1>1, <1>2, <1>3, ErrorKeeps DEF PrefillDone
<1>4. CASE ~(request.path = NativePath /\ ~ready')
  <2>1. Goto(IF request.path # LlamaPath /\ ready' THEN "next_token" ELSE "decode_text")
    BY <1>4 DEF PrefillDone
  <2>2. /\ pc = "prefill" /\ pc' \in {"next_token", "decode_text"} /\ phase' = "submit"
        /\ pc' = "next_token" => request.path # LlamaPath /\ ready'
        /\ UNCHANGED <<loaded, context, outcome>>
    BY <2>1 DEF PrefillDone, Goto
  <2>3. request.path # LlamaPath => produced = 0 /\ ~stopped
    BY <2>2 DEF IInv, TokensSoFar, FrontStages
  <2>4. request.max_new \in Nat \ {0} /\ produced \in Nat /\ stopped \in BOOLEAN
    BY DEF IInv, TypeOK
  <2>5. CapacityReserved'
    <3>1. SUFFICES ASSUME request.path # LlamaPath PROVE Len(jobs') + JobsToCome' <= MaxJobs
      BY <2>2 DEF CapacityReserved, context
    <3>2. JobsToCome' \in {0, 1}
      BY <2>2, <2>3, <2>4, <3>1, JobsAfterValues DEF JobsToCome, context
    <3>3. Len(jobs) \in Nat /\ MaxJobs \in Nat /\ Len(jobs) + 1 <= MaxJobs
      BY <2>2, <3>1, RoomAt, JobsAfterValues
    <3>4. QED
      BY <1>1, <3>2, <3>3
  <2>6. TokensSoFar' /\ WordsSoFar'
    BY <2>2, <2>3, <2>4
       DEF IInv, TypeOK, WordsSoFar, TokensSoFar, context, FrontStages
  <2>7. StagePart'
    BY <1>2, <2>2, <2>5, <2>6, TwoParts
       DEF StagePart, context, Stages, FrontStages, LoopStages, InCall,
           OwnStages, WithinBounds, ReadyHasModel, LoopHasSession,
           NativeNeverRefused, ReasonTruthful, ReplayComplete, SentBelow
  <2>8. QED
    BY <1>1, <2>7, TwoParts
<1>5. QED
  BY <1>3, <1>4

\* Each iteration starts with room for a step and for the end of the request.
LEMMA NextTokenKeeps ==
  ASSUME IInv, NextToken
  PROVE  IInv'
<1>1. phase = "submit"
  BY DEF NextToken, IInv, InCall, Stages, FrontStages, LoopStages, TypeOK
<1>2. /\ Exec!IInv' /\ EveryJobCalls' /\ Waiting' = {} /\ Active' = {}
      /\ Len(jobs') + StepReserve <= MaxJobs
  BY <1>1, StageFacts, ReclaimStep, GenerateAssumption DEF NextToken
<1>3. QueuePart'
  BY <1>2 DEF NextToken, Goto, QueuePart, OwnJobRuns, Waiting, Active
<1>4. CapacityReserved'
  <2>1. Len(jobs') \in Nat
    BY <1>2 DEF Exec!IInv, Exec!TypeOK
  <2>2. QED
    BY <1>2, <2>1, GenerateAssumption
       DEF NextToken, Goto, CapacityReserved, JobsToCome, JobsAfter
<1>5. StagePart'
  BY <1>4, TwoParts
     DEF NextToken, Goto, StagePart, context, Stages, FrontStages, LoopStages, InCall,
         OwnStages, WithinBounds, ReadyHasModel, LoopHasSession,
         NativeNeverRefused, TokensSoFar, ReasonTruthful, WordsSoFar, ReplayComplete, SentBelow
<1>6. QED
  BY <1>3, <1>5, TwoParts

LEMMA LoopEndsKeeps ==
  ASSUME IInv, LoopEnds
  PROVE  IInv'
<1>1. UNCHANGED <<jobs, next_job_id, stack, begun>> /\ phase = "submit"
  BY DEF LoopEnds, exec, IInv, InCall, Stages, FrontStages, LoopStages, TypeOK
<1>2. QueuePart'
  BY <1>1, StageFacts, QueueUnchanged
     DEF LoopEnds, Goto, QueuePart, OwnJobRuns, Waiting, Active
<1>3. CapacityReserved'
  BY <1>1 DEF LoopEnds, Goto, IInv, CapacityReserved, JobsToCome, JobsAfter, context,
              TypeOK, TokensSoFar
<1>4. StagePart'
  BY <1>3, TwoParts
     DEF LoopEnds, Goto, StagePart, context, Stages, FrontStages, LoopStages, InCall,
         OwnStages, WithinBounds, ReadyHasModel, LoopHasSession,
         NativeNeverRefused, TokensSoFar, ReasonTruthful, WordsSoFar, ReplayComplete, SentBelow
<1>5. QED
  BY <1>2, <1>4, TwoParts

\* A decoded token, or the end-of-sequence token, is one step of the loop.
LEMMA DecodeStepKeeps ==
  ASSUME IInv, DecodeStops \/ (\E text \in BOOLEAN : DecodeToken(text))
  PROVE  IInv'
<1>1. /\ phase = "running" /\ pc = "decode_step" /\ phase' = "submit"
      /\ Exec!CallbackReturns(TRUE)
      /\ UNCHANGED <<loaded, session, ready, outcome, request, produced, words,
                     recorded, visible, emitted>>
      /\ piece' \in BOOLEAN
      /\ \/ pc' = "next_token" /\ stopped'
         \/ pc' = "stream_token" /\ stopped' = stopped
      /\ stopped' \in BOOLEAN
  BY DEF DecodeStops, DecodeToken, Goto, IInv, TypeOK
<1>2. QueuePart' /\ Len(jobs') = Len(jobs)
  BY <1>1, AfterReturn
<1>3. /\ request.path # LlamaPath
      /\ produced \in Nat /\ request.max_new \in Nat \ {0}
      /\ produced < request.max_new /\ ~stopped
  BY <1>1 DEF IInv, TypeOK, OwnStages, LoopStages, TokensSoFar
<1>4. CapacityReserved'
  <2>1. JobsToCome' \in {2, 3}
    BY <1>1, <1>3, JobsAfterValues DEF JobsToCome
  <2>2. Len(jobs) \in Nat /\ MaxJobs \in Nat /\ Len(jobs) + 3 <= MaxJobs
    BY <1>1, <1>3, RoomAt, JobsAfterValues
  <2>3. Len(jobs') + JobsToCome' <= MaxJobs
    BY <1>2, <2>1, <2>2
  <2>4. QED
    BY <2>3 DEF CapacityReserved
<1>5. TokensSoFar'
  BY <1>1, <1>3 DEF TokensSoFar, FrontStages
<1>6. StagePart'
  <2>1. InCall' /\ OwnStages' /\ LoopHasSession'
    BY <1>1, <1>3 DEF IInv, InCall, OwnStages, LoopHasSession, Stages, FrontStages, LoopStages
  <2>2. NativeNeverRefused' /\ ReasonTruthful' /\ WordsSoFar' /\ ReplayComplete'
    <3>1. outcome' = NoOutcome /\ request' = request
      BY <1>1 DEF IInv, InCall
    <3>2. NativeNeverRefused' /\ ReasonTruthful'
      BY <3>1 DEF NoOutcome, NativeNeverRefused, ReasonTruthful
    <3>3. QED
      BY <1>3, <3>1, <3>2 DEF WordsSoFar, ReplayComplete
  <2>3. WithinBounds' /\ ReadyHasModel' /\ SentBelow'
    BY <1>1 DEF IInv, WithinBounds, ReadyHasModel, SentBelow
  <2>4. QED
    BY <1>1, <1>4, <1>5, <2>1, <2>2, <2>3
       DEF StagePart, IInv, TypeOK, Stages, LoopStages
<1>7. QED
  BY <1>2, <1>6, TwoParts

\* A streamed token is counted whether on_token was called for it or not.
LEMMA TokenStreamedKeeps ==
  ASSUME IInv, TokenStreamed
  PROVE  IInv'
<1>1. /\ phase = "running" /\ pc = "stream_token"
      /\ pc' = "next_token" /\ phase' = "submit"
      /\ Exec!CallbackReturns(TRUE)
      /\ UNCHANGED <<loaded, session, ready, outcome, request, stopped, piece, words,
                     recorded, visible>>
      /\ produced' = produced + 1
      /\ emitted' = IF piece THEN Append(emitted, produced) ELSE emitted
  BY DEF TokenStreamed, Goto
<1>2. QueuePart' /\ Len(jobs') = Len(jobs)
  BY <1>1, AfterReturn
<1>3. /\ request.path # LlamaPath
      /\ produced \in Nat /\ request.max_new \in Nat \ {0} /\ stopped \in BOOLEAN
      /\ produced < request.max_new /\ ~stopped
      /\ emitted \in Seq(Nat)
  BY <1>1 DEF IInv, TypeOK, OwnStages, LoopStages, TokensSoFar
<1>4. CapacityReserved'
  <2>1. JobsToCome' \in {0, 2}
    BY <1>1, <1>3 DEF JobsToCome
  <2>2. Len(jobs) \in Nat /\ MaxJobs \in Nat /\ Len(jobs) + 2 <= MaxJobs
    BY <1>1, <1>3, RoomAt, JobsAfterValues
  <2>3. Len(jobs') + JobsToCome' <= MaxJobs
    BY <1>2, <2>1, <2>2
  <2>4. QED
    BY <2>3 DEF CapacityReserved
<1>5. TokensSoFar'
  BY <1>1, <1>3 DEF TokensSoFar, FrontStages
<1>6. emitted' \in Seq(Nat) /\ SentBelow'
  BY <1>1, <1>3 DEF SentBelow, IInv
<1>7. StagePart'
  <2>1. InCall' /\ OwnStages' /\ LoopHasSession'
    BY <1>1, <1>3 DEF IInv, InCall, OwnStages, LoopHasSession, Stages, FrontStages, LoopStages
  <2>2. NativeNeverRefused' /\ ReasonTruthful' /\ WordsSoFar' /\ ReplayComplete'
    <3>1. outcome' = NoOutcome /\ request' = request
      BY <1>1 DEF IInv, InCall
    <3>2. NativeNeverRefused' /\ ReasonTruthful'
      BY <3>1 DEF NoOutcome, NativeNeverRefused, ReasonTruthful
    <3>3. QED
      BY <1>3, <3>1, <3>2 DEF WordsSoFar, ReplayComplete
  <2>3. WithinBounds' /\ ReadyHasModel'
    BY <1>1 DEF IInv, WithinBounds, ReadyHasModel
  <2>4. QED
    BY <1>1, <1>4, <1>5, <1>6, <2>1, <2>2, <2>3
       DEF StagePart, IInv, TypeOK, Stages, LoopStages
<1>8. QED
  BY <1>2, <1>7, TwoParts

LEMMA EmptyTokenStreamedKeeps ==
  ASSUME IInv, EmptyTokenStreamed
  PROVE  IInv'
<1>1. /\ phase = "running" /\ pc = "empty_token"
      /\ pc' = "update_kv_cache" /\ phase' = "submit"
      /\ UNCHANGED <<loaded, session, ready, outcome, context>>
  BY DEF EmptyTokenStreamed, Goto
<1>2. QueuePart' /\ Len(jobs') = Len(jobs)
  BY <1>1, AfterReturn DEF EmptyTokenStreamed
<1>3. /\ request.path # LlamaPath
      /\ produced = 0 /\ stopped /\ request.max_new \in Nat \ {0}
  BY <1>1 DEF IInv, TypeOK, OwnStages, LoopStages, TokensSoFar
<1>4. CapacityReserved'
  <2>1. JobsToCome' = 2
    BY <1>1, JobsAfterValues DEF JobsToCome
  <2>2. Len(jobs) \in Nat /\ MaxJobs \in Nat /\ Len(jobs) + 2 <= MaxJobs
    BY <1>1, <1>3, RoomAt, JobsAfterValues
  <2>3. QED
    BY <1>2, <2>1, <2>2 DEF CapacityReserved
<1>5. TokensSoFar'
  BY <1>1, <1>3 DEF TokensSoFar, FrontStages, context
<1>6. StagePart'
  BY <1>1, <1>3, <1>4, <1>5, TwoParts
     DEF StagePart, context, Stages, FrontStages, LoopStages, InCall,
         OwnStages, WithinBounds, ReadyHasModel, LoopHasSession,
         NativeNeverRefused, ReasonTruthful, WordsSoFar, ReplayComplete, SentBelow
<1>7. QED
  BY <1>2, <1>6, TwoParts

LEMMA DecodeTextKeeps ==
  ASSUME IInv, NEW n \in 0 .. MaxReplay, DecodeText(n)
  PROVE  IInv'
<1>1. /\ phase = "running" /\ pc = "decode_text" /\ request.path = LlamaPath
      /\ pc' = "replay" /\ phase' = "submit" /\ words' = n
      /\ UNCHANGED <<loaded, session, ready, outcome, request, produced, stopped, piece,
                     recorded, visible, emitted>>
      /\ n \in Nat /\ n <= MaxReplay
  BY GenerateAssumption DEF DecodeText, Goto
<1>2. QueuePart'
  BY <1>1, AfterReturn DEF DecodeText
<1>3. StagePart'
  BY <1>1, TwoParts
     DEF StagePart, Stages, FrontStages, LoopStages, InCall, NoOutcome, OwnStages, WithinBounds,
         ReadyHasModel, LoopHasSession, CapacityReserved, NativeNeverRefused, TokensSoFar,
         ReasonTruthful, WordsSoFar, ReplayComplete, SentBelow
<1>4. QED
  BY <1>2, <1>3, TwoParts

LEMMA StartReplayKeeps ==
  ASSUME IInv, StartReplay
  PROVE  IInv'
<1>1. /\ pc = "replay" /\ phase = "submit" /\ request.path = LlamaPath
      /\ UNCHANGED exec /\ phase' = "submit"
      /\ UNCHANGED <<loaded, session, ready, request, produced, stopped, piece, words,
                     recorded, emitted>>
      /\ \/ Return("queue_full", "") /\ UNCHANGED visible
         \/ Goto("replay_token")
  BY DEF StartReplay, Goto, Return, IInv, TypeOK, InCall, OwnStages, Stages, FrontStages, LoopStages
<1>2. QueuePart'
  BY <1>1, StageFacts, QueueUnchanged DEF exec, QueuePart, OwnJobRuns, Waiting, Active
<1>3. visible' \in Nat
  <2>1. Len(jobs) \in Nat /\ MaxJobs \in Nat /\ words \in Nat /\ visible \in Nat
    BY GenerateAssumption DEF IInv, TypeOK, Exec!TypeOK
  <2>2. Exec!RemainingCapacity \in Nat
    BY <2>1 DEF Exec!RemainingCapacity
  <2>3. CASE Exec!RemainingCapacity <= 1
    BY <2>1, <2>3 DEF StartReplay
  <2>4. CASE ~(Exec!RemainingCapacity <= 1)
    <3>1. visible' \in {words, Exec!RemainingCapacity - 1}
      BY <2>4 DEF StartReplay
    <3>2. QED
      BY <2>1, <2>2, <2>4, <3>1
  <2>5. QED
    BY <2>3, <2>4
<1>4. produced = 0 /\ emitted = <<>> /\ words \in Nat
  BY <1>1 DEF IInv, TypeOK, WordsSoFar
<1>5. WordsSoFar'
  <2>1. pc' \in {"idle", "replay_token"}
    BY <1>1 DEF Return, Goto
  <2>2. produced' = 0 /\ emitted' = Upto(0) /\ words' \in Nat
    BY <1>1, <1>4, UptoSteps
  <2>3. QED
    BY <2>1, <2>2 DEF WordsSoFar, FrontStages
<1>6. StagePart'
  BY <1>1, <1>3, <1>5, TwoParts
     DEF Return, Goto, StagePart, Stages, FrontStages, LoopStages, InCall, NoOutcome, OwnStages,
         WithinBounds, ReadyHasModel, LoopHasSession, CapacityReserved, JobsAfter,
         NativeNeverRefused, TokensSoFar, ReasonTruthful, ReplayComplete, SentBelow
<1>7. QED
  BY <1>2, <1>6, TwoParts

\* A word handed out without a job, and a word with one, are the next of the text.
LEMMA BatchKeeps ==
  ASSUME IInv, Batch
  PROVE  IInv'
<1>1. /\ pc = "replay_token" /\ phase = "submit" /\ produced + 1 < words
      /\ UNCHANGED <<exec, loaded, session, ready, pc, phase, outcome, request, stopped, piece,
                     words, recorded, visible>>
      /\ produced' = produced + 1 /\ emitted' = Append(emitted, produced)
  BY DEF Batch, BatchPending
<1>2. QueuePart'
  BY <1>1, StageFacts, QueueUnchanged DEF exec, QueuePart, OwnJobRuns, Waiting, Active
<1>3. /\ request.path = LlamaPath /\ produced \in Nat /\ words \in Nat
      /\ emitted = Upto(produced) /\ emitted \in Seq(Nat)
  BY <1>1 DEF IInv, TypeOK, OwnStages, WordsSoFar
<1>4. produced' \in Nat /\ emitted' = Upto(produced') /\ emitted' \in Seq(Nat)
  <2>1. Append(Upto(produced), produced) = Upto(produced + 1) /\ produced + 1 \in Nat
    BY <1>3, UptoNext
  <2>2. Upto(produced + 1) \in Seq(Nat)
    BY <2>1, UptoSteps
  <2>3. QED
    BY <1>1, <1>3, <2>1, <2>2
<1>5. WordsSoFar' /\ SentBelow'
  BY <1>1, <1>3, <1>4 DEF WordsSoFar, SentBelow, Upto, FrontStages
<1>6. StagePart'
  BY <1>1, <1>3, <1>4, <1>5
     DEF IInv, TypeOK, StagePart, InCall, OwnStages, WithinBounds, ReadyHasModel, LoopHasSession,
         LoopStages, CapacityReserved, NativeNeverRefused, TokensSoFar, ReasonTruthful, ReplayComplete
<1>7. QED
  BY <1>2, <1>6, TwoParts

LEMMA WordStreamedKeeps ==
  ASSUME IInv, WordStreamed
  PROVE  IInv'
<1>1. /\ pc = "replay_token" /\ phase = "running" /\ phase' = "submit"
      /\ pc' = IF produced + 1 < words THEN "replay_token" ELSE "update_kv_cache"
      /\ Exec!CallbackReturns(TRUE)
      /\ UNCHANGED <<loaded, session, ready, outcome, request, stopped, piece, words, visible>>
      /\ produced' = produced + 1 /\ recorded' = recorded + 1
      /\ emitted' = IF words > 0 THEN Append(emitted, produced) ELSE emitted
  BY DEF WordStreamed, Goto
<1>2. QueuePart'
  BY <1>1, AfterReturn
<1>3. /\ request.path = LlamaPath /\ produced \in Nat /\ words \in Nat /\ recorded \in Nat
      /\ emitted = Upto(produced) /\ emitted \in Seq(Nat)
      /\ IF words = 0 THEN produced = 0 ELSE produced < words
  BY <1>1 DEF IInv, TypeOK, OwnStages, WordsSoFar
<1>4. /\ words > 0 => emitted' = Upto(produced')
      /\ words = 0 => emitted' = Upto(0)
      /\ emitted' \in Seq(Nat) /\ produced' \in Nat
  <2>1. Append(Upto(produced), produced) = Upto(produced + 1) /\ produced + 1 \in Nat
    BY <1>3, UptoNext
  <2>2. Upto(produced + 1) \in Seq(Nat)
    BY <2>1, UptoSteps
  <2>3. CASE words = 0
    BY <1>1, <1>3, <2>1, <2>3
  <2>4. CASE words > 0
    BY <1>1, <1>3, <2>1, <2>2, <2>4
  <2>5. QED
    BY <1>3, <2>3, <2>4
<1>5. WordsSoFar' /\ ReplayComplete' /\ SentBelow'
  <2>1. CASE produced + 1 < words
    BY <1>1, <1>3, <1>4, <2>1 DEF WordsSoFar, ReplayComplete, SentBelow, Upto, FrontStages
  <2>2. CASE ~(produced + 1 < words)
    <3>1. emitted' = Upto(words') /\ words' <= produced' /\ words' \in Nat
      <4>1. CASE words = 0
        BY <1>1, <1>3, <1>4, <4>1
      <4>2. CASE words > 0
        <5>1. words = produced + 1
          BY <1>3, <2>2, <4>2
        <5>2. QED
          BY <1>1, <1>3, <1>4, <4>2, <5>1
      <4>3. QED
        BY <1>3, <4>1, <4>2
    <3>2. pc' = "update_kv_cache"
      BY <1>1, <2>2
    <3>3. QED
      BY <1>3, <1>4, <3>1, <3>2 DEF WordsSoFar, ReplayComplete, SentBelow, Upto, FrontStages
  <2>3. QED
    BY <2>1, <2>2
<1>6. StagePart'
  <2>1. InCall' /\ OwnStages' /\ LoopHasSession'
    BY <1>1, <1>3 DEF IInv, InCall, OwnStages, LoopHasSession, Stages, FrontStages, LoopStages
  <2>2. outcome' = NoOutcome
    BY <1>1 DEF IInv, InCall
  <2>3. NativeNeverRefused' /\ ReasonTruthful'
    BY <2>2 DEF NoOutcome, NativeNeverRefused, ReasonTruthful
  <2>4. WithinBounds' /\ ReadyHasModel' /\ CapacityReserved' /\ TokensSoFar'
    BY <1>1, <1>3 DEF IInv, WithinBounds, ReadyHasModel, CapacityReserved, TokensSoFar
  <2>5. QED
    BY <1>1, <1>3, <1>4, <1>5, <2>1, <2>3, <2>4
       DEF StagePart, IInv, TypeOK, Stages, LoopStages
<1>7. QED
  BY <1>2, <1>6, TwoParts

\* finish_reason: where the loop was left is what it reports.
LEMMA RequestDoneKeeps ==
  ASSUME IInv, RequestDone
  PROVE  IInv'
<1>1. /\ pc = "collect_telemetry" /\ phase = "running" /\ phase' = "submit" /\ pc' = "idle"
      /\ outcome' = [ret |-> "ok", reason |-> FinishReason, at |-> "collect_telemetry"]
      /\ UNCHANGED <<loaded, session, ready, context>>
  BY DEF RequestDone, Return
<1>2. QueuePart'
  BY <1>1, AfterReturn DEF RequestDone
<1>3. request.path # LlamaPath =>
        IF stopped THEN produced < request.max_new ELSE produced = request.max_new
  BY <1>1 DEF IInv, TokensSoFar
<1>4. produced \in Nat /\ request.max_new \in Nat /\ stopped \in BOOLEAN
  BY DEF IInv, TypeOK
<1>5. ReasonTruthful'
  <2>1. SUFFICES ASSUME request.path # LlamaPath
        PROVE  /\ FinishReason = "length" <=> produced = request.max_new
               /\ FinishReason = "stop" <=> stopped
    BY <1>1 DEF ReasonTruthful, context
  <2>2. CASE stopped
    BY <1>3, <1>4, <2>1, <2>2 DEF FinishReason
  <2>3. CASE ~stopped
    BY <1>3, <1>4, <2>1, <2>3 DEF FinishReason
  <2>4. QED
    BY <2>2, <2>3
<1>6. StagePart'
  BY <1>1, <1>5, TwoParts
     DEF StagePart, context, Stages, FrontStages, LoopStages, InCall, OwnStages, WithinBounds,
         ReadyHasModel, LoopHasSession, CapacityReserved, JobsAfter, NativeNeverRefused,
         TokensSoFar, WordsSoFar, ReplayComplete, SentBelow
<1>7. QED
  BY <1>2, <1>6, TwoParts

-----------------------------------------------------------------------------
(* The start of a call.                                                    *)

LEMMA LoadModelKeeps ==
  ASSUME IInv, LoadModel
  PROVE  IInv'
<1>1. /\ pc = "idle" /\ phase = "submit" /\ pc' = "load_model" /\ outcome' = NoOutcome
      /\ UNCHANGED <<exec, loaded, session, ready, phase, context>>
  BY DEF LoadModel, IInv, TypeOK, InCall, Stages, FrontStages, LoopStages
<1>2. QueuePart'
  BY <1>1, StageFacts, QueueUnchanged DEF exec, QueuePart, OwnJobRuns, Waiting, Active
<1>3. StagePart'
  BY <1>1, TwoParts
     DEF StagePart, context, NoOutcome, Stages, FrontStages, LoopStages, InCall, OwnStages,
         WithinBounds, ReadyHasModel, LoopHasSession, CapacityReserved, JobsAfter,
         NativeNeverRefused, TokensSoFar, ReasonTruthful, WordsSoFar, ReplayComplete, SentBelow
<1>4. QED
  BY <1>2, <1>3, TwoParts

\* A call that is refused before its first job.
LEMMA RefusedKeeps ==
  ASSUME IInv, LoadRejected \/ GenerateTooLong \/ GenerateUnloaded
  PROVE  IInv'
<1>1. /\ phase = "submit" /\ UNCHANGED <<loaded, session, ready, context>>
  BY DEF LoadRejected, GenerateTooLong, GenerateUnloaded, IInv, TypeOK, InCall, Stages,
         FrontStages, LoopStages
<1>2. UNCHANGED exec \/ ReclaimBelow(Reserve)
  BY DEF LoadRejected, GenerateTooLong, GenerateUnloaded
<1>3. QueuePart'
  <2>1. phase' = "submit"
    BY DEF LoadRejected, GenerateTooLong, GenerateUnloaded, Return
  <2>2. Exec!IInv' /\ EveryJobCalls' /\ Waiting' = {} /\ Active' = {}
    <3>1. CASE UNCHANGED exec
      BY <1>1, <3>1, StageFacts, QueueUnchanged DEF exec
    <3>2. CASE ReclaimBelow(Reserve)
      BY <1>1, <3>2, StageFacts, ReclaimStep, GenerateAssumption
    <3>3. QED
      BY <1>2, <3>1, <3>2
  <2>3. QED
    BY <2>1, <2>2 DEF QueuePart, OwnJobRuns, Waiting, Active
<1>4. session' \in BOOLEAN /\ ready' \in BOOLEAN /\ (ready' => session')
  BY <1>1 DEF IInv, TypeOK, ReadyHasModel
<1>5. \E ret \in {"manifest_rejected", "template_too_long", "not_loaded"} : Return(ret, "")
  BY DEF LoadRejected, GenerateTooLong, GenerateUnloaded
<1>6. QED
  BY <1>1, <1>3, <1>4, <1>5, ErrorKeeps

\* A request starts with room for the jobs it cannot do without.
LEMMA GenerateKeeps ==
  ASSUME IInv, NEW path \in Paths, NEW max_new \in 1 .. MaxNew, Generate(path, max_new)
  PROVE  IInv'
<1>1. /\ pc = "idle" /\ phase = "submit" /\ pc' = "prepare_prompt" /\ phase' = "submit"
      /\ ReclaimBelow(Reserve)
      /\ UNCHANGED <<loaded, session, ready>> /\ outcome' = NoOutcome
      /\ request' = [path |-> path, max_new |-> max_new]
      /\ produced' = 0 /\ stopped' = FALSE /\ piece' = FALSE
      /\ words' = 0 /\ recorded' = 0 /\ visible' = 0 /\ emitted' = <<>>
  BY DEF Generate, IInv, TypeOK, InCall, Stages, FrontStages, LoopStages
<1>2. /\ Exec!IInv' /\ EveryJobCalls' /\ Waiting' = {} /\ Active' = {}
      /\ Len(jobs') + Reserve <= MaxJobs
  BY <1>1, StageFacts, ReclaimStep, GenerateAssumption
<1>3. QueuePart'
  BY <1>1, <1>2 DEF QueuePart, OwnJobRuns, Waiting, Active
<1>4. CapacityReserved'
  <2>1. Len(jobs') \in Nat
    BY <1>2 DEF Exec!IInv, Exec!TypeOK
  <2>2. JobsToCome' = 5
    BY <1>1, JobsAfterValues DEF JobsToCome
  <2>3. QED
    BY <1>2, <2>1, <2>2, GenerateAssumption DEF CapacityReserved
<1>5. /\ max_new \in Nat \ {0} /\ max_new <= MaxNew /\ 0 <= MaxReplay
      /\ path \in {AutoPath, NativePath, LlamaPath}
  BY GenerateAssumption
<1>6. StagePart'
  <2>1. InCall' /\ OwnStages' /\ WithinBounds' /\ LoopHasSession' /\ NativeNeverRefused'
    BY <1>1, <1>5
       DEF NoOutcome, Stages, FrontStages, LoopStages, InCall, OwnStages, WithinBounds,
           LoopHasSession, NativeNeverRefused
  <2>2. TokensSoFar' /\ ReasonTruthful'
    BY <1>1 DEF NoOutcome, FrontStages, TokensSoFar, ReasonTruthful
  <2>3. WordsSoFar' /\ ReplayComplete' /\ SentBelow'
    BY <1>1 DEF FrontStages, WordsSoFar, ReplayComplete, SentBelow
  <2>4. request' \in [path : {AutoPath, NativePath, LlamaPath}, max_new : Nat \ {0}]
    BY <1>1, <1>5
  <2>5. ReadyHasModel' /\ loaded' \in BOOLEAN /\ session' \in BOOLEAN /\ ready' \in BOOLEAN
    BY <1>1 DEF IInv, TypeOK, ReadyHasModel
  <2>6. QED
    <3>1. emitted' \in Seq(Nat)
      BY <1>1
    <3>2. /\ pc' \in Stages /\ phase' = "submit" /\ produced' \in Nat /\ words' \in Nat
          /\ recorded' \in Nat /\ visible' \in Nat /\ stopped' \in BOOLEAN /\ piece' \in BOOLEAN
      BY <1>1 DEF Stages, FrontStages
    <3>3. QED
      BY <1>4, <2>1, <2>2, <2>3, <2>4, <2>5, <3>1, <3>2 DEF StagePart
<1>7. QED
  BY <1>3, <1>6, TwoParts

-----------------------------------------------------------------------------
LEMMA InitEstablishesIInv == Init => IInv
<1>1. SUFFICES ASSUME Init PROVE IInv
  OBVIOUS
<1>2. jobs = <<>> /\ next_job_id = 0 /\ stack = <<>> /\ begun = <<>> /\ phase = "submit"
  BY <1>1 DEF Init, Exec!Init
<1>3. QueuePart
  BY <1>2, GenerateAssumption
     DEF QueuePart, OwnJobRuns, EveryJobCalls, Exec!IInv, Exec!TypeOK, Exec!SlotsInOrder,
         Exec!IdsGivenOut, Exec!BegunGivenOut, Exec!PendingNotBegun, Exec!AtMostOnce,
         Exec!RunningIffActive, Exec!StackDistinct, Exec!IdsIn, Exec!IdsOn
<1>4. StagePart
  <2>1. /\ pc = "idle" /\ phase = "submit" /\ outcome = NoOutcome /\ request = NoRequest
        /\ loaded = FALSE /\ session = FALSE /\ ready = FALSE
        /\ produced = 0 /\ stopped = FALSE /\ piece = FALSE
        /\ words = 0 /\ recorded = 0 /\ visible = 0 /\ emitted = <<>>
    BY <1>1 DEF Init
  <2>2. MaxNew \in Nat \ {0} /\ MaxReplay \in Nat
    BY GenerateAssumption
  <2>3. InCall /\ OwnStages /\ LoopHasSession /\ TokensSoFar /\ WordsSoFar /\ ReplayComplete
    BY <2>1
       DEF FrontStages, LoopStages, InCall, OwnStages, LoopHasSession, TokensSoFar, WordsSoFar,
           ReplayComplete
  <2>4. outcome.ret = "none"
    BY <2>1 DEF NoOutcome
  <2>5. NativeNeverRefused /\ ReasonTruthful
    BY <2>4 DEF NativeNeverRefused, ReasonTruthful
  <2>6. WithinBounds /\ SentBelow
    BY <2>1, <2>2 DEF NoRequest, WithinBounds, SentBelow
  <2>7. CapacityReserved /\ ReadyHasModel
    BY <2>1 DEF CapacityReserved, JobsAfter, ReadyHasModel
  <2>8. request \in [path : {AutoPath, NativePath, LlamaPath}, max_new : Nat \ {0}]
    BY <2>1 DEF NoRequest
  <2>9. emitted \in Seq(Nat)
    BY <2>1
  <2>10. QED
    BY <2>1, <2>3, <2>5, <2>6, <2>7, <2>8, <2>9 DEF StagePart
<1>5. QED
  BY <1>3, <1>4, TwoParts

LEMMA StutterKeepsIInv ==
  ASSUME IInv, UNCHANGED vars
  PROVE  IInv'
<1>1. UNCHANGED <<exec, loaded, session, ready, pc, phase, context, outcome>>
  BY DEF vars
<1>2. QueuePart'
  BY <1>1, QueueUnchanged, TwoParts DEF exec, QueuePart, OwnJobRuns, Waiting, Active
<1>3. StagePart'
  BY <1>1, TwoParts
     DEF StagePart, context, exec, InCall, OwnStages, WithinBounds, ReadyHasModel, LoopHasSession,
         CapacityReserved, JobsToCome, NativeNeverRefused, TokensSoFar, ReasonTruthful, WordsSoFar,
         ReplayComplete, SentBelow
<1>4. QED
  BY <1>2, <1>3, TwoParts

LEMMA StepKeepsIInv ==
  ASSUME IInv, Step
  PROVE  IInv'
BY SubmitKeeps, SubmitFailsKeeps, EnterKeeps, CallbackFailsKeeps, StageDoneKeeps, LoadDoneKeeps,
   PrefillDoneKeeps, NextTokenKeeps, LoopEndsKeeps, DecodeStepKeeps, TokenStreamedKeeps,
   EmptyTokenStreamedKeeps, DecodeTextKeeps, StartReplayKeeps, BatchKeeps, WordStreamedKeeps,
   RequestDoneKeeps
   DEF Step

LEMMA NextKeepsIInv ==
  ASSUME IInv, [Next]_vars
  PROVE  IInv'
BY LoadModelKeeps, RefusedKeeps, GenerateKeeps, StepKeepsIInv, StutterKeepsIInv DEF Next

\* The inductive invariant holds in every state of every behaviour.
LEMMA GenerateInvariant == Spec => []IInv
BY InitEstablishesIInv, NextKeepsIInv, PTL DEF Spec

\* The one live job is the one the current call has just submitted: a job's
\* user_data never outlives the frame it points into.
THEOREM GenerateOwnJobRuns == Spec => []OwnJobRuns
<1>1. IInv => OwnJobRuns
  BY DEF IInv
<1>2. QED
  BY GenerateInvariant, <1>1, PTL

\* The two reclaims leave a slot for every job a native request still submits.
THEOREM GenerateCapacityReserved == Spec => []CapacityReserved
<1>1. IInv => CapacityReserved
  BY DEF IInv
<1>2. QED
  BY GenerateInvariant, <1>1, PTL

\* A native request is never refused half way for lack of a slot.
THEOREM GenerateNativeNeverRefused == Spec => []NativeNeverRefused
<1>1. IInv => NativeNeverRefused
  BY DEF IInv
<1>2. QED
  BY GenerateInvariant, <1>1, PTL

\* The native loop runs on the hidden state of the model that is loaded.
THEOREM GenerateLoopHasSession == Spec => []LoopHasSession
<1>1. IInv => LoopHasSession
  BY DEF IInv
<1>2. QED
  BY GenerateInvariant, <1>1, PTL

\* The llama path hands every word of the text to on_token, once and in order.
THEOREM GenerateReplayComplete == Spec => []ReplayComplete
<1>1. IInv => ReplayComplete
  BY DEF IInv
<1>2. QED
  BY GenerateInvariant, <1>1, PTL

\* A native finish_reason says how the loop was left.
THEOREM GenerateReasonTruthful == Spec => []ReasonTruthful
<1>1. IInv => ReasonTruthful
  BY DEF IInv
<1>2. QED
  BY GenerateInvariant, <1>1, PTL

-----------------------------------------------------------------------------
(* The runtime's calls refine what they are built from: seen by the queue, *)
(* a step is a call of the executor or none; seen by the session, a load,  *)
(* a prefill or nothing.  So what is proved of module Executor holds of    *)
(* the queue the runtime drives.                                           *)

\* Every step of a call is at most one call of the executor.
THEOREM GenerateDrivesExecutor == Spec => Exec!Spec
<1>1. Init => Exec!Init
  BY DEF Init
<1>2. ASSUME [Next]_vars PROVE [Exec!Next]_exec
  <2>1. CASE UNCHANGED vars
    BY <2>1 DEF vars
  <2>2. CASE Submit \/ SubmitFails \/ Enter
    BY <2>2 DEF Submit, SubmitFails, Enter, Exec!Next
  <2>3. CASE \/ CallbackFails \/ LoadOtherFormat \/ DecodeUnready
             \/ StageDone \/ LoadDone \/ PrefillDone
             \/ DecodeStops \/ (\E text \in BOOLEAN : DecodeToken(text))
             \/ TokenStreamed \/ EmptyTokenStreamed
             \/ (\E n \in 0 .. MaxReplay : DecodeText(n)) \/ WordStreamed \/ RequestDone
    <3>1. Exec!CallbackReturns(TRUE) \/ Exec!CallbackReturns(FALSE)
      BY <2>3 DEF CallbackFails, LoadOtherFormat, DecodeUnready, StageDone, LoadDone, PrefillDone,
                  DecodeStops, DecodeToken, TokenStreamed, EmptyTokenStreamed, DecodeText,
                  WordStreamed, RequestDone
    <3>2. QED
      BY <3>1 DEF Exec!Next
  <2>4. CASE NextToken \/ GenerateTooLong
             \/ \E path \in Paths, max_new \in 1 .. MaxNew : Generate(path, max_new)
    <3>1. UNCHANGED exec \/ Exec!DropTerminal
      BY <2>4 DEF NextToken, GenerateTooLong, Generate, ReclaimBelow
    <3>2. QED
      BY <3>1 DEF Exec!Next
  <2>5. CASE LoopEnds \/ StartReplay \/ Batch \/ LoadModel \/ LoadRejected \/ GenerateUnloaded
    BY <2>5 DEF LoopEnds, StartReplay, Batch, LoadModel, LoadRejected, GenerateUnloaded
  <2>6. QED
    BY <1>2, <2>1, <2>2, <2>3, <2>4, <2>5 DEF Next, Step
<1>3. QED
  BY <1>1, <1>2, PTL DEF Spec, Exec!Spec, exec, Exec!vars

\* The flags of the session move as module DecodeSession allows.
THEOREM GenerateKeepsSession == Spec => Session!Spec
<1>1. Init => Session!Init
  BY DEF Init, Session!Init
<1>2. ASSUME [Next]_vars PROVE [Session!Next]_<<session, ready>>
  <2>1. CASE CallbackFails
    BY <2>1 DEF CallbackFails, SessionAfter, Session!Next
  <2>2. CASE LoadDone
    BY <2>2 DEF LoadDone, SessionAfter, Session!Next
  <2>3. CASE PrefillDone
    BY <2>3 DEF PrefillDone, SessionAfter, Session!Next
  <2>4. CASE ~(CallbackFails \/ LoadDone \/ PrefillDone)
    BY <1>2, <2>4
       DEF Next, Step, vars, LoadModel, LoadRejected, Generate, GenerateTooLong, GenerateUnloaded,
           Submit, SubmitFails, Enter, LoadOtherFormat, DecodeUnready, StageDone, NextToken,
           LoopEnds, DecodeStops, DecodeToken, TokenStreamed, EmptyTokenStreamed, DecodeText,
           StartReplay, Batch, WordStreamed, RequestDone
  <2>5. QED
    BY <2>1, <2>2, <2>3, <2>4
<1>3. QED
  BY <1>1, <1>2, PTL DEF Spec, Session!Spec

-----------------------------------------------------------------------------
(* What a client sees.                                                     *)

InRequest == pc \notin {"idle", "load_model"}

\* A token is handed out with an index above those before it, while it is open.
LEMMA TokenSent ==
  ASSUME IInv, TokenStreamed \/ Batch \/ WordStreamed
  PROVE  UNCHANGED emitted \/ Client!Send
<1>1. /\ emitted' = emitted \/ emitted' = Append(emitted, produced)
      /\ InRequest /\ InRequest' /\ UNCHANGED outcome
  BY DEF TokenStreamed, Batch, BatchPending, WordStreamed, Goto, InRequest
<1>2. produced \in 0 .. MaxNew + MaxReplay
  <2>1. /\ produced \in Nat /\ words \in Nat /\ request.max_new \in Nat
        /\ request.max_new <= MaxNew /\ words <= MaxReplay
        /\ MaxNew \in Nat /\ MaxReplay \in Nat
    BY GenerateAssumption DEF IInv, TypeOK, WithinBounds
  <2>2. CASE TokenStreamed
    <3>1. produced < request.max_new
      BY <2>2 DEF TokenStreamed, IInv, OwnStages, LoopStages, TokensSoFar
    <3>2. QED
      BY <2>1, <3>1
  <2>3. CASE Batch \/ WordStreamed
    <3>1. pc = "replay_token" /\ request.path = LlamaPath
      BY <2>3 DEF Batch, BatchPending, WordStreamed, IInv, OwnStages
    <3>2. IF words = 0 THEN produced = 0 ELSE produced < words
      BY <3>1 DEF IInv, WordsSoFar
    <3>3. produced <= words
      BY <2>1, <3>2
    <3>4. QED
      BY <2>1, <3>3
  <2>4. QED
    BY <2>2, <2>3
<1>3. \A i \in 1 .. Len(emitted) : emitted[i] < produced
  BY DEF IInv, SentBelow
<1>4. CASE emitted' = Append(emitted, produced)
  BY <1>1, <1>2, <1>3, <1>4 DEF Client!Send, InRequest
<1>5. QED
  BY <1>1, <1>4

\* A call that returns closes its request, or reports on a load.
LEMMA ReturnEnds ==
  ASSUME NEW ret, NEW reason, ret # "none", Return(ret, reason), UNCHANGED emitted
  PROVE  Client!Close \/ Client!Report
BY DEF Return, Client!Close, Client!Report

LEMMA StepImplementsClient ==
  ASSUME IInv, [Next]_vars
  PROVE  [Client!Next]_<<InRequest, emitted, outcome.ret>>
<1>1. CASE UNCHANGED vars
  BY <1>1 DEF vars, context, InRequest
<1>2. CASE \/ Submit \/ Enter \/ StageDone \/ NextToken \/ LoopEnds
           \/ DecodeStops \/ (\E text \in BOOLEAN : DecodeToken(text)) \/ EmptyTokenStreamed
           \/ (\E n \in 0 .. MaxReplay : DecodeText(n))
  <2>1. UNCHANGED <<outcome, emitted>>
    BY <1>2 DEF Submit, Enter, StageDone, NextToken, LoopEnds, DecodeStops, DecodeToken,
                EmptyTokenStreamed, DecodeText, Goto, context
  <2>2. UNCHANGED pc \/ (InRequest /\ InRequest')
    <3>1. CASE Submit \/ Enter
      BY <3>1 DEF Submit, Enter
    <3>2. CASE StageDone
      BY <3>2 DEF StageDone, FixedNext, Goto, InRequest
    <3>3. CASE ~(Submit \/ Enter \/ StageDone)
      BY <1>2, <3>3 DEF NextToken, LoopEnds, DecodeStops, DecodeToken, EmptyTokenStreamed,
                        DecodeText, Goto, InRequest
    <3>4. QED
      BY <3>1, <3>2, <3>3
  <2>3. QED
    BY <2>1, <2>2 DEF InRequest
<1>3. CASE TokenStreamed \/ Batch \/ WordStreamed
  <2>1. InRequest /\ InRequest' /\ UNCHANGED outcome
    BY <1>3 DEF TokenStreamed, Batch, BatchPending, WordStreamed, Goto, InRequest
  <2>2. QED
    BY <1>3, <2>1, TokenSent DEF Client!Next
<1>4. CASE \E path \in Paths, max_new \in 1 .. MaxNew : Generate(path, max_new)
  <2>1. pc = "idle" /\ pc' = "prepare_prompt" /\ emitted' = <<>> /\ outcome' = NoOutcome
    BY <1>4 DEF Generate
  <2>2. outcome'.ret = "none" /\ ~InRequest /\ InRequest'
    BY <2>1 DEF NoOutcome, InRequest
  <2>3. Client!Open
    BY <2>1, <2>2 DEF Client!Open, InRequest
  <2>4. QED
    BY <2>3 DEF Client!Next
<1>5. CASE LoadModel
  BY <1>5 DEF LoadModel, context, Client!Next, Client!Report
<1>6. CASE \/ SubmitFails \/ CallbackFails \/ LoadOtherFormat \/ DecodeUnready \/ LoadDone
           \/ RequestDone \/ LoadRejected \/ GenerateTooLong \/ GenerateUnloaded
  <2>1. \E ret \in {"queue_full", "job_failed", "ok", "manifest_rejected", "template_too_long",
                    "not_loaded"}, reason \in {"", FinishReason} : Return(ret, reason)
    BY <1>6 DEF SubmitFails, CallbackFails, LoadOtherFormat, DecodeUnready, LoadDone, RequestDone,
                LoadRejected, GenerateTooLong, GenerateUnloaded
  <2>2. UNCHANGED emitted
    BY <1>6 DEF SubmitFails, CallbackFails, LoadOtherFormat, DecodeUnready, LoadDone, RequestDone,
                LoadRejected, GenerateTooLong, GenerateUnloaded, context
  <2>3. QED
    BY <2>1, <2>2, ReturnEnds DEF Client!Next
<1>7. CASE PrefillDone
  <2>1. UNCHANGED emitted
    BY <1>7 DEF PrefillDone, context
  <2>2. CASE Return("not_ready", "")
    BY <2>1, <2>2, ReturnEnds DEF Client!Next
  <2>3. CASE ~Return("not_ready", "")
    BY <1>7, <2>1, <2>3 DEF PrefillDone, Goto, InRequest
  <2>4. QED
    BY <2>2, <2>3
<1>8. CASE StartReplay
  <2>1. UNCHANGED emitted
    BY <1>8 DEF StartReplay
  <2>2. CASE Return("queue_full", "")
    BY <2>1, <2>2, ReturnEnds DEF Client!Next
  <2>3. CASE ~Return("queue_full", "")
    BY <1>8, <2>1, <2>3 DEF StartReplay, Goto, InRequest
  <2>4. QED
    BY <2>2, <2>3
<1>9. QED
  BY <1>1, <1>2, <1>3, <1>4, <1>5, <1>6, <1>7, <1>8 DEF Next, Step

\* A client sees one request at a time: tokens with growing indices while it is
\* open, one verdict, nothing after it.
THEOREM GenerateImplementsCompletion == Spec => ImplementsCompletion
<1>1. Init => Client!Init
  <2>1. Init => pc = "idle" /\ emitted = <<>> /\ outcome.ret = "none"
    <3>1. Init => pc = "idle" /\ emitted = <<>> /\ outcome = NoOutcome
      BY DEF Init
    <3>2. NoOutcome.ret = "none"
      BY DEF NoOutcome
    <3>3. QED
      BY <3>1, <3>2
  <2>2. QED
    BY <2>1 DEF Client!Init
<1>2. IInv /\ [Next]_vars => [Client!Next]_<<pc \notin {"idle", "load_model"}, emitted, outcome.ret>>
  BY StepImplementsClient DEF InRequest
<1>3. QED
  BY <1>1, <1>2, GenerateInvariant, PTL DEF Spec, ImplementsCompletion, Client!Spec
=============================================================================
