------------------------------ MODULE Executor ------------------------------
(***************************************************************************)
(* The job queue of edgexpu (executor.c): a fixed array of jobs driven by  *)
(* one thread.  A job is submitted PENDING, run_next or run_job marks it   *)
(* RUNNING and enters its callback, and when the callback returns the job  *)
(* is looked up again by identifier and marked COMPLETED or FAILED.  A     *)
(* terminal job keeps its slot until drop_terminal compacts the array.     *)
(*                                                                         *)
(* The callback runs between the two halves of run_job and may call the    *)
(* executor itself: stack holds the run_job activations that have not      *)
(* returned, innermost last.  MaxDepth = 1 is what the runtime does today. *)
(* The texts and times a job carries are left out.                         *)
(***************************************************************************)
EXTENDS Integers, Sequences

CONSTANTS
  MaxJobs,     \* EDGEXPU_EXECUTOR_MAX_JOBS, the length of the array
  MaxDepth,    \* bound: nested run_job activations
  MaxSubmits   \* bound: jobs submitted in a behaviour

ASSUME ExecutorAssumption ==
  /\ MaxJobs \in Nat \ {0}
  /\ MaxDepth \in Nat
  /\ MaxSubmits \in Nat

VARIABLES
  jobs,          \* jobs[0 .. job_count - 1], as a sequence
  next_job_id,   \* the last identifier given out
  stack,         \* activations of run_job whose callback has not returned
  begun,         \* history: the jobs in the order run_job began them
  call           \* history: the last call, its job and its return code

vars == <<jobs, next_job_id, stack, begun, call>>

Pending   == "pending"
Running   == "running"
Completed == "completed"
Failed    == "failed"
Status    == {Pending, Running, Completed, Failed}
Live      == {Pending, Running}

Job   == [id : Nat \ {0}, status : Status, callback : BOOLEAN]
Frame == [id : Nat \ {0}, slot : 1 .. MaxJobs]

\* The job slots that hold the given identifier; the code takes the first.
SlotsOf(q, id) == {i \in 1 .. Len(q) : q[i].id = id}
IsFirst(i, S)  == i \in S /\ \A j \in S : i <= j

Called(op, id, ret) == call' = [op |-> op, id |-> id, ret |-> ret]

Init ==
  /\ jobs = <<>>
  /\ next_job_id = 0
  /\ stack = <<>>
  /\ begun = <<>>
  /\ call = [op |-> "init", id |-> 0, ret |-> "ok"]

\* The call stack without its innermost activation.
Pop(frames) == [k \in 1 .. Len(frames) - 1 |-> frames[k]]

\* mark_running, mark_completed, mark_failed: the first slot with that
\* identifier takes the status; nothing changes when there is none.
Mark(q, id, status) ==
  [i \in 1 .. Len(q) |->
     IF IsFirst(i, SlotsOf(q, id)) THEN [q[i] EXCEPT !.status = status] ELSE q[i]]

\* The identifiers of the jobs with a given status, and of the jobs on a stack.
IdsIn(q, status) == {q[i].id : i \in {j \in 1 .. Len(q) : q[j].status = status}}
IdsOn(frames)    == {frames[k].id : k \in 1 .. Len(frames)}

RemainingCapacity == IF Len(jobs) >= MaxJobs THEN 0 ELSE MaxJobs - Len(jobs)

PendingSlots == {i \in 1 .. Len(jobs) : jobs[i].status = Pending}

HasPending == PendingSlots # {}

-----------------------------------------------------------------------------
\* submit_runnable, and submit / submit_with_reason for a job without callback.
SubmitRunnable(callback) ==
  /\ next_job_id < MaxSubmits
  /\ Len(jobs) < MaxJobs
  /\ next_job_id' = next_job_id + 1
  /\ jobs' = Append(jobs, [id |-> next_job_id', status |-> Pending, callback |-> callback])
  /\ Called("submit", next_job_id', "ok")
  /\ UNCHANGED <<stack, begun>>

SubmitRefused ==
  /\ Len(jobs) >= MaxJobs
  /\ Called("submit", 0, "full")
  /\ UNCHANGED <<jobs, next_job_id, stack, begun>>

\* The first half of run_job: PENDING becomes RUNNING and the callback is
\* entered with a pointer to the slot.
EnterCallback(op, i) ==
  /\ Len(stack) < MaxDepth
  /\ jobs' = Mark(jobs, jobs[i].id, Running)
  /\ stack' = Append(stack, [id |-> jobs[i].id, slot |-> i])
  /\ Called(op, jobs[i].id, "entered")

\* A job without callback is marked RUNNING and COMPLETED at once.
CompleteAtOnce(op, i) ==
  /\ jobs' = Mark(Mark(jobs, jobs[i].id, Running), jobs[i].id, Completed)
  /\ Called(op, jobs[i].id, "ok")
  /\ UNCHANGED stack

\* Mutant of StartJob: run_job does not look at the status.
StartAnyStatus(op, i, override) ==
  /\ begun' = Append(begun, jobs[i].id)
  /\ IF override \/ jobs[i].callback THEN EnterCallback(op, i) ELSE CompleteAtOnce(op, i)
  /\ UNCHANGED next_job_id

StartJob(op, i, override) ==
  /\ jobs[i].status = Pending
  /\ begun' = Append(begun, jobs[i].id)
  /\ IF override \/ jobs[i].callback THEN EnterCallback(op, i) ELSE CompleteAtOnce(op, i)
  /\ UNCHANGED next_job_id

\* run_job on a named job; override: the caller passes a callback of its own.
RunJob(id, override) ==
  \E i \in 1 .. Len(jobs) :
    IsFirst(i, SlotsOf(jobs, id)) /\ StartJob("run_job", i, override)

RunJobRefused(id) ==
  /\ \A i \in SlotsOf(jobs, id) : IsFirst(i, SlotsOf(jobs, id)) => jobs[i].status # Pending
  /\ Called("run_job", id, IF SlotsOf(jobs, id) = {} THEN "missing" ELSE "not_pending")
  /\ UNCHANGED <<jobs, next_job_id, stack, begun>>

\* Mutant of RunNext: the scan goes on after the first pending slot.
RunLast ==
  \E i \in PendingSlots :
    (\A j \in PendingSlots : j <= i) /\ StartJob("run_next", i, FALSE)

\* run_next: the first pending slot in index order.
RunNext ==
  \E i \in 1 .. Len(jobs) : IsFirst(i, PendingSlots) /\ StartJob("run_next", i, FALSE)

RunNextRefused ==
  /\ ~HasPending
  /\ Called("run_next", 0, "no_pending")
  /\ UNCHANGED <<jobs, next_job_id, stack, begun>>

\* Mutants of CallbackReturns: the job is marked through the pointer taken
\* before the callback; a failed job is not marked.
MarkSlot(q, i, status) ==
  [j \in 1 .. Len(q) |-> IF j = i THEN [q[j] EXCEPT !.status = status] ELSE q[j]]

CallbackReturnsToSlot(ok) ==
  /\ stack # <<>>
  /\ jobs' = MarkSlot(jobs, stack[Len(stack)].slot, IF ok THEN Completed ELSE Failed)
  /\ Called("return", stack[Len(stack)].id, IF ok THEN "ok" ELSE "failed")
  /\ stack' = Pop(stack)
  /\ UNCHANGED <<next_job_id, begun>>

CallbackReturnsUnmarked(ok) ==
  /\ stack # <<>>
  /\ LET id == stack[Len(stack)].id
     IN  /\ jobs' = IF ok THEN Mark(jobs, id, Completed) ELSE jobs
         /\ Called("return", id, IF ok THEN "ok" ELSE "failed")
  /\ stack' = Pop(stack)
  /\ UNCHANGED <<next_job_id, begun>>

\* The second half of run_job: the innermost callback returns and the job is
\* looked up again by identifier, not by the slot it was entered with.
CallbackReturns(ok) ==
  /\ stack # <<>>
  /\ LET id == stack[Len(stack)].id
     IN  /\ jobs' = Mark(jobs, id, IF ok THEN Completed ELSE Failed)
         /\ Called("return", id, IF ~ok THEN "failed"
                                 ELSE IF SlotsOf(jobs, id) = {} THEN "missing" ELSE "ok")
  /\ stack' = Pop(stack)
  /\ UNCHANGED <<next_job_id, begun>>

\* Mutant of KeptSlots: a running job is dropped.
KeptIfPending == {i \in 1 .. Len(jobs) : jobs[i].status = Pending}

\* The slots drop_terminal keeps.
KeptSlots == {i \in 1 .. Len(jobs) : jobs[i].status \in Live}

\* Mutant of KeepsInOrder: freed slots are refilled in any order.
KeepsInAnyOrder(from) ==
  /\ \A i, j \in DOMAIN from : i # j => from[i] # from[j]
  /\ {from[i] : i \in DOMAIN from} = KeptSlots

\* from lists the kept slots in the order they are moved down.
KeepsInOrder(from) ==
  /\ \A i, j \in DOMAIN from : i < j => from[i] < from[j]
  /\ {from[i] : i \in DOMAIN from} = KeptSlots

\* drop_terminal: compaction in place, the freed tail zeroed.
DropTerminal ==
  /\ \E n \in 0 .. Len(jobs) : \E from \in [1 .. n -> KeptSlots] :
       /\ KeepsInOrder(from)
       /\ jobs' = [i \in 1 .. n |-> jobs[from[i]]]
  /\ Called("drop_terminal", 0, "ok")
  /\ UNCHANGED <<next_job_id, stack, begun>>

-----------------------------------------------------------------------------
Next ==
  \/ \E callback \in BOOLEAN : SubmitRunnable(callback)
  \/ SubmitRefused
  \/ \E id \in 0 .. next_job_id, override \in BOOLEAN : RunJob(id, override)
  \/ \E id \in 0 .. next_job_id : RunJobRefused(id)
  \/ RunNext
  \/ RunNextRefused
  \/ \E ok \in BOOLEAN : CallbackReturns(ok)
  \/ DropTerminal

Spec == Init /\ [][Next]_vars

\* Callbacks return, and whoever drives the queue keeps calling run_next, as
\* run_scheduled_job_ex does after every submit.
Fairness ==
  /\ WF_vars(RunNext)
  /\ WF_vars(\E ok \in BOOLEAN : CallbackReturns(ok))

FairSpec == Spec /\ Fairness

-----------------------------------------------------------------------------
TypeOK ==
  /\ jobs \in Seq(Job)
  /\ Len(jobs) <= MaxJobs
  /\ next_job_id \in Nat
  /\ stack \in Seq(Frame)
  /\ begun \in Seq(Nat \ {0})

\* No job is begun twice, whatever calls a callback makes, whatever slots a
\* compaction moves and however often run_job names the job again.
AtMostOnce == \A i, j \in 1 .. Len(begun) : begun[i] = begun[j] => i = j

\* A job is marked RUNNING exactly while an activation of run_job waits for
\* its callback: the two sides are the array and the call stack.
RunningIffActive == IdsIn(jobs, Running) = IdsOn(stack)

\* The identifiers in the array grow with the slot, so the first pending slot
\* is the oldest pending job, also after compactions.
SlotsInOrder == \A i, j \in 1 .. Len(jobs) : i < j => jobs[i].id < jobs[j].id

\* The inductive invariant: identifiers are handed out once, every begun job has
\* one, a pending job was not begun, and no job is on the stack twice.
IdsGivenOut     == \A i \in 1 .. Len(jobs) : jobs[i].id <= next_job_id
BegunGivenOut   == \A k \in 1 .. Len(begun) : begun[k] <= next_job_id
PendingNotBegun == \A k \in 1 .. Len(begun) : begun[k] \notin IdsIn(jobs, Pending)
StackDistinct   == \A k, l \in 1 .. Len(stack) : stack[k].id = stack[l].id => k = l

IInv ==
  /\ TypeOK
  /\ SlotsInOrder
  /\ IdsGivenOut
  /\ BegunGivenOut
  /\ PendingNotBegun
  /\ AtMostOnce
  /\ RunningIffActive
  /\ StackDistinct

\* A step keeps every live job, and a status only moves forward: PENDING,
\* then RUNNING, then one terminal status that no later call rewrites.
Follows(old, new) ==
  \/ new = old
  \/ old = Pending /\ new \in {Running, Completed}
  \/ old = Running /\ new \in {Completed, Failed}

LiveJobsKept ==
  \A i \in 1 .. Len(jobs) :
    LET heirs == {j \in 1 .. Len(jobs') : jobs'[j].id = jobs[i].id}
    IN  /\ jobs[i].status \in Live => heirs # {}
        /\ \A j \in heirs : Follows(jobs[i].status, jobs'[j].status)

JobsMoveForward == [][LiveJobsKept]_vars

\* The array with its statuses implements the abstract queue: run_next takes
\* the oldest waiting job and refuses only an empty queue, run_job refuses
\* only jobs that are not waiting, compaction is invisible.
Queue == INSTANCE JobQueue WITH
  waiting <- IdsIn(jobs, Pending), active <- IdsIn(jobs, Running), last_id <- next_job_id

ImplementsJobQueue == Queue!Spec

\* Every submitted job is begun and finishes, provided callbacks return and
\* run_next keeps being called.
EveryJobFinishes ==
  \A id \in 1 .. MaxSubmits :
    (id \in IdsIn(jobs, Pending) \union IdsIn(jobs, Running))
      ~> (id \notin IdsIn(jobs, Pending) \union IdsIn(jobs, Running))
=============================================================================
