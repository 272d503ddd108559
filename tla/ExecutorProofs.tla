--------------------------- MODULE ExecutorProofs ---------------------------
(***************************************************************************)
(* The executor's invariant, for every array length, every nesting of      *)
(* callbacks and every number of jobs.  The argument: identifiers grow     *)
(* with the slot, so an identifier names at most one slot and marking by   *)
(* identifier is an update of that slot; every action then changes one     *)
(* slot, appends one with a fresh identifier, or selects slots in order.   *)
(***************************************************************************)
EXTENDS Executor, TLAPS

\* The array with the status of one slot replaced.
WithStatus(q, i, status) == [q EXCEPT ![i].status = status]

\* The identifiers of an array grow with the slot.
Ascending(q) == \A i, j \in 1 .. Len(q) : i < j => q[i].id < q[j].id

\* With growing identifiers a slot is the only one that holds its identifier.
LEMMA SlotUnique ==
  ASSUME NEW q \in Seq(Job), Ascending(q),
         NEW i \in 1 .. Len(q)
  PROVE  SlotsOf(q, q[i].id) = {i}
<1>1. \A j \in 1 .. Len(q) : q[j] \in Job
  OBVIOUS
<1>2. \A j \in 1 .. Len(q) : q[j].id = q[i].id => j = i
  BY <1>1 DEF Job, Ascending
<1>3. QED
  BY <1>2 DEF SlotsOf

\* Marking an identifier updates exactly the slot that holds it.
LEMMA MarkUpdatesSlot ==
  ASSUME NEW q \in Seq(Job), Ascending(q),
         NEW i \in 1 .. Len(q), NEW status \in Status
  PROVE  /\ Mark(q, q[i].id, status) = WithStatus(q, i, status)
         /\ Mark(q, q[i].id, status) \in Seq(Job)
         /\ Len(Mark(q, q[i].id, status)) = Len(q)
<1> DEFINE m == Mark(q, q[i].id, status)
<1>1. \A j \in 1 .. Len(q) : q[j] \in Job
  OBVIOUS
<1>2. SlotsOf(q, q[i].id) = {i}
  BY SlotUnique
<1>3. \A j \in 1 .. Len(q) : IsFirst(j, SlotsOf(q, q[i].id)) <=> j = i
  BY <1>2 DEF IsFirst
<1>4. m = [j \in 1 .. Len(q) |-> IF j = i THEN [q[j] EXCEPT !.status = status] ELSE q[j]]
  BY <1>3 DEF Mark
<1>5. \A j \in 1 .. Len(q) : [q[j] EXCEPT !.status = status] \in Job
  <2>1. \A job \in Job : [job EXCEPT !.status = status] \in Job
    BY DEF Job
  <2>2. QED
    BY <1>1, <2>1
<1>6. m \in [1 .. Len(q) -> Job]
  BY <1>1, <1>4, <1>5
<1>7. m \in Seq(Job) /\ Len(m) = Len(q)
  BY <1>6
<1>8. m = [q EXCEPT ![i].status = status]
  BY <1>4
<1>9. QED
  BY <1>7, <1>8 DEF WithStatus

\* What an update of one status keeps, slot by slot.
LEMMA StatusUpdate ==
  ASSUME NEW q \in Seq(Job), NEW i \in 1 .. Len(q), NEW status \in Status
  PROVE  LET r == WithStatus(q, i, status) IN
         /\ r \in Seq(Job) /\ Len(r) = Len(q)
         /\ \A j \in 1 .. Len(q) : r[j].id = q[j].id
         /\ r[i].status = status
         /\ \A j \in 1 .. Len(q) : j # i => r[j] = q[j]
<1> DEFINE r == WithStatus(q, i, status)
<1>1. \A j \in 1 .. Len(q) : q[j] \in Job
  OBVIOUS
<1>2. [q[i] EXCEPT !.status = status] \in Job
  BY <1>1 DEF Job
<1>3. /\ [q[i] EXCEPT !.status = status].id = q[i].id
      /\ [q[i] EXCEPT !.status = status].status = status
  BY <1>1 DEF Job
<1>4. /\ r[i] = [q[i] EXCEPT !.status = status]
      /\ \A j \in 1 .. Len(q) : j # i => r[j] = q[j]
  BY DEF WithStatus
<1>5. r \in Seq(Job) /\ Len(r) = Len(q)
  BY <1>2 DEF WithStatus
<1>6. QED
  BY <1>3, <1>4, <1>5

\* Which identifiers have a status after an update of one status.
LEMMA StatusUpdateIds ==
  ASSUME NEW q \in Seq(Job), Ascending(q),
         NEW i \in 1 .. Len(q), NEW status \in Status, q[i].status # status
  PROVE  LET r == WithStatus(q, i, status) IN
         /\ IdsIn(r, status) = IdsIn(q, status) \union {q[i].id}
         /\ IdsIn(r, q[i].status) = IdsIn(q, q[i].status) \ {q[i].id}
         /\ \A other \in Status \ {status, q[i].status} : IdsIn(r, other) = IdsIn(q, other)
<1> DEFINE r == WithStatus(q, i, status)
<1>1. /\ Len(r) = Len(q)
      /\ \A j \in 1 .. Len(q) : r[j].id = q[j].id
      /\ r[i].status = status
      /\ \A j \in 1 .. Len(q) : j # i => r[j] = q[j]
  BY StatusUpdate
<1>2. \A j \in 1 .. Len(q) : q[j] \in Job
  OBVIOUS
<1>3. \A j \in 1 .. Len(q) : q[j].id = q[i].id => j = i
  BY <1>2 DEF Job, Ascending
<1> HIDE DEF r
<1>4. IdsIn(r, status) = IdsIn(q, status) \union {q[i].id}
  BY <1>1, <1>3 DEF IdsIn
<1>5. IdsIn(r, q[i].status) = IdsIn(q, q[i].status) \ {q[i].id}
  BY <1>1, <1>3 DEF IdsIn
<1>6. \A other \in Status \ {status, q[i].status} : IdsIn(r, other) = IdsIn(q, other)
  BY <1>1, <1>3 DEF IdsIn
<1>7. QED
  BY <1>4, <1>5, <1>6 DEF r

LEMMA StatusKeepsCallbacks ==
  ASSUME NEW q \in Seq(Job), NEW i \in 1 .. Len(q), NEW status \in Status
  PROVE  LET r == WithStatus(q, i, status) IN
         Len(r) = Len(q) /\ \A j \in 1 .. Len(q) : r[j].callback = q[j].callback
<1> DEFINE r == WithStatus(q, i, status)
<1>1. /\ Len(r) = Len(q)
      /\ \A j \in 1 .. Len(q) : j # i => r[j] = q[j]
  BY StatusUpdate
<1>2. q[i] \in Job
  OBVIOUS
<1>3. r[i] = [q[i] EXCEPT !.status = status]
  BY DEF WithStatus
<1>4. r[i].callback = q[i].callback
  BY <1>2, <1>3 DEF Job
<1>5. QED
  BY <1>1, <1>4

\* The identifiers on the stack after a push and after a pop.
LEMMA PushIds ==
  ASSUME NEW S, NEW frames \in Seq(S), NEW frame \in S
  PROVE  IdsOn(Append(frames, frame)) = IdsOn(frames) \union {frame.id}
BY DEF IdsOn

LEMMA PopIds ==
  ASSUME NEW S, NEW frames \in Seq(S), frames # <<>>,
         \A k, l \in 1 .. Len(frames) : frames[k].id = frames[l].id => k = l
  PROVE  LET rest == Pop(frames)
         IN  /\ rest \in Seq(S) /\ Len(rest) = Len(frames) - 1
             /\ \A k \in 1 .. Len(rest) : rest[k] = frames[k]
             /\ IdsOn(rest) = IdsOn(frames) \ {frames[Len(frames)].id}
<1> DEFINE rest == Pop(frames)
<1>1. /\ rest \in Seq(S) /\ Len(rest) = Len(frames) - 1
      /\ \A k \in 1 .. Len(rest) : rest[k] = frames[k]
  <2>1. Len(frames) \in Nat \ {0} /\ \A k \in 1 .. Len(frames) - 1 : frames[k] \in S
    OBVIOUS
  <2>2. QED
    BY <2>1 DEF Pop
<1>2. Len(frames) \in 1 .. Len(frames)
  OBVIOUS
<1> HIDE DEF rest
<1>3. IdsOn(rest) = IdsOn(frames) \ {frames[Len(frames)].id}
  BY <1>1, <1>2 DEF IdsOn
<1>4. QED
  BY <1>1, <1>3 DEF rest

LEMMA InitEstablishesIInv == Init => IInv
<1> SUFFICES ASSUME Init PROVE IInv
  OBVIOUS
<1>1. jobs = <<>> /\ stack = <<>> /\ begun = <<>> /\ next_job_id = 0
  BY DEF Init
<1>2. Len(jobs) = 0 /\ Len(stack) = 0 /\ Len(begun) = 0
  BY <1>1
<1>3. TypeOK
  BY <1>1, ExecutorAssumption DEF TypeOK
<1>4. RunningIffActive
  BY <1>2 DEF RunningIffActive, IdsIn, IdsOn
<1>5. SlotsInOrder /\ IdsGivenOut /\ BegunGivenOut /\ PendingNotBegun /\ AtMostOnce /\ StackDistinct
  BY <1>2 DEF SlotsInOrder, IdsGivenOut, BegunGivenOut, PendingNotBegun, AtMostOnce, StackDistinct
<1>6. QED
  BY <1>3, <1>4, <1>5 DEF IInv

\* Submitting appends a pending job whose identifier nothing has seen.
LEMMA SubmitKeepsIInv ==
  ASSUME IInv, NEW callback \in BOOLEAN, SubmitRunnable(callback)
  PROVE  IInv'
<1> USE ExecutorAssumption DEF IInv, SubmitRunnable
<1> DEFINE new == [id |-> next_job_id + 1, status |-> Pending, callback |-> callback]
<1>1. new \in Job
  BY DEF TypeOK, Job, Status
<1>2. /\ jobs' = Append(jobs, new) /\ Len(jobs') = Len(jobs) + 1
      /\ jobs' \in Seq(Job)
      /\ \A i \in 1 .. Len(jobs) : jobs'[i] = jobs[i]
      /\ jobs'[Len(jobs) + 1] = new
      /\ new.id = next_job_id + 1 /\ new.status = Pending
  BY <1>1 DEF TypeOK
<1>3. \A i \in 1 .. Len(jobs) : jobs[i].id \in Nat /\ jobs[i].id <= next_job_id
  <2>1. \A i \in 1 .. Len(jobs) : jobs[i] \in Job
    BY DEF TypeOK
  <2>2. QED
    BY <2>1 DEF Job, IdsGivenOut
<1>4. TypeOK'
  BY <1>2 DEF TypeOK
<1>5. SlotsInOrder' /\ IdsGivenOut'
  <2>1. \A i \in 1 .. Len(jobs') : i \in 1 .. Len(jobs) \/ i = Len(jobs) + 1
    BY <1>2 DEF TypeOK
  <2>2. \A i \in 1 .. Len(jobs) : jobs'[i].id = jobs[i].id /\ jobs[i].id < next_job_id + 1
    BY <1>2, <1>3 DEF TypeOK
  <2>3. ASSUME NEW i \in 1 .. Len(jobs'), NEW j \in 1 .. Len(jobs'), i < j
        PROVE  jobs'[i].id < jobs'[j].id
    <3>1. i \in 1 .. Len(jobs)
      BY <1>2, <2>3, <2>1 DEF TypeOK
    <3>2. CASE j \in 1 .. Len(jobs)
      BY <2>2, <2>3, <3>1, <3>2 DEF SlotsInOrder
    <3>3. CASE j = Len(jobs) + 1
      BY <1>2, <2>2, <3>1, <3>3
    <3>4. QED
      BY <2>1, <3>2, <3>3
  <2>4. IdsGivenOut'
    BY <1>2, <1>3, <2>1, <2>2 DEF TypeOK, IdsGivenOut
  <2>5. QED
    BY <2>3, <2>4 DEF SlotsInOrder
<1>6. BegunGivenOut' /\ AtMostOnce' /\ StackDistinct'
  BY DEF TypeOK, BegunGivenOut, AtMostOnce, StackDistinct
<1>7. IdsIn(jobs', Pending) = IdsIn(jobs, Pending) \union {next_job_id + 1}
  BY <1>2 DEF TypeOK, IdsIn
<1>8. IdsIn(jobs', Running) = IdsIn(jobs, Running)
  BY <1>2 DEF TypeOK, IdsIn, Pending, Running
<1>9. PendingNotBegun' /\ RunningIffActive'
  BY <1>7, <1>8 DEF TypeOK, PendingNotBegun, BegunGivenOut, RunningIffActive
<1>10. QED
  BY <1>4, <1>5, <1>6, <1>9

\* Entering a job or completing it at once moves one slot out of PENDING.
LEMMA StartMovesSlot ==
  ASSUME IInv, NEW op, NEW i \in 1 .. Len(jobs), NEW override, StartJob(op, i, override)
  PROVE  \/ /\ jobs' = WithStatus(jobs, i, Running)
            /\ stack' = Append(stack, [id |-> jobs[i].id, slot |-> i])
            /\ Called(op, jobs[i].id, "entered")
         \/ /\ jobs' = WithStatus(jobs, i, Completed)
            /\ stack' = stack
            /\ Called(op, jobs[i].id, "ok")
<1> DEFINE once == Mark(jobs, jobs[i].id, Running)
<1>1. jobs \in Seq(Job) /\ Ascending(jobs)
  BY DEF IInv, TypeOK, SlotsInOrder, Ascending
<1>2. Running \in Status /\ Completed \in Status
  BY DEF Status
<1>3. /\ once = WithStatus(jobs, i, Running)
      /\ once \in Seq(Job) /\ Len(once) = Len(jobs)
  BY <1>1, <1>2, MarkUpdatesSlot
<1>4. CASE EnterCallback(op, i)
  BY <1>3, <1>4 DEF EnterCallback
<1>5. CASE CompleteAtOnce(op, i)
  <2>1. \A j \in 1 .. Len(jobs) : once[j].id = jobs[j].id
    <3>1. \A j \in 1 .. Len(jobs) : WithStatus(jobs, i, Running)[j].id = jobs[j].id
      BY <1>1, <1>2, StatusUpdate
    <3>2. QED
      BY <1>3, <3>1
  <2>2. Ascending(once)
    BY <1>1, <1>3, <2>1 DEF Ascending
  <2>3. Mark(once, once[i].id, Completed) = WithStatus(once, i, Completed)
    <3>1. i \in 1 .. Len(once) /\ once \in Seq(Job)
      BY <1>3
    <3> HIDE DEF once
    <3>2. QED
      BY <1>2, <3>1, <2>2, MarkUpdatesSlot
  <2>4. WithStatus(once, i, Completed) = WithStatus(jobs, i, Completed)
    BY <1>1, <1>3 DEF WithStatus
  <2>5. QED
    BY <1>5, <2>1, <2>3, <2>4 DEF CompleteAtOnce
<1>6. QED
  BY <1>4, <1>5 DEF StartJob

\* Either way the job is begun now and, being pending before, never earlier.
LEMMA StartKeepsIInv ==
  ASSUME IInv, NEW op, NEW i \in 1 .. Len(jobs), NEW override, StartJob(op, i, override)
  PROVE  IInv'
<1> DEFINE id == jobs[i].id
           frame == [id |-> jobs[i].id, slot |-> i]
<1>1. /\ jobs \in Seq(Job) /\ Len(jobs) <= MaxJobs /\ stack \in Seq(Frame)
      /\ begun \in Seq(Nat \ {0}) /\ next_job_id \in Nat /\ jobs[i].status = Pending
      /\ next_job_id' = next_job_id /\ begun' = Append(begun, id)
      /\ Ascending(jobs)
  BY DEF IInv, TypeOK, SlotsInOrder, Ascending, StartJob
<1>2. \A j \in 1 .. Len(jobs) : jobs[j] \in Job
  BY <1>1
<1>3. id \in Nat \ {0} /\ i \in 1 .. MaxJobs /\ id \in IdsIn(jobs, Pending) /\ id <= next_job_id
  <2>1. id \in Nat \ {0}
    BY <1>2 DEF Job
  <2>2. i \in 1 .. MaxJobs
    BY <1>1, ExecutorAssumption
  <2>3. id \in IdsIn(jobs, Pending)
    BY <1>1 DEF IdsIn
  <2>4. id <= next_job_id
    BY DEF IInv, IdsGivenOut
  <2>5. QED
    BY <2>1, <2>2, <2>3, <2>4
<1>4. Running \in Status /\ Completed \in Status /\ Pending # Running /\ Pending # Completed
      /\ Running # Completed
  BY DEF Status, Pending, Running, Completed
<1>5. /\ begun' \in Seq(Nat \ {0}) /\ Len(begun') = Len(begun) + 1
      /\ \A k \in 1 .. Len(begun) : begun'[k] = begun[k] /\ begun[k] # id
      /\ begun'[Len(begun) + 1] = id
      /\ \A k \in 1 .. Len(begun') : k \in 1 .. Len(begun) \/ k = Len(begun) + 1
  BY <1>1, <1>3 DEF IInv, PendingNotBegun
<1>6. AtMostOnce' /\ BegunGivenOut'
  <2>1. AtMostOnce'
    BY <1>5 DEF IInv, AtMostOnce
  <2>2. BegunGivenOut'
    BY <1>1, <1>3, <1>5 DEF IInv, BegunGivenOut
  <2>3. QED
    BY <2>1, <2>2
<1>7. ASSUME NEW status \in Status, status # Pending,
             jobs' = WithStatus(jobs, i, status)
      PROVE  /\ jobs' \in Seq(Job) /\ Len(jobs') = Len(jobs)
             /\ SlotsInOrder' /\ IdsGivenOut' /\ PendingNotBegun'
             /\ IdsIn(jobs', status) = IdsIn(jobs, status) \union {id}
             /\ \A other \in Status \ {status, Pending} : IdsIn(jobs', other) = IdsIn(jobs, other)
  <2>1. /\ jobs' \in Seq(Job) /\ Len(jobs') = Len(jobs)
        /\ \A j \in 1 .. Len(jobs) : jobs'[j].id = jobs[j].id
    BY <1>1, <1>7, StatusUpdate
  <2>2. /\ IdsIn(jobs', status) = IdsIn(jobs, status) \union {id}
        /\ IdsIn(jobs', Pending) = IdsIn(jobs, Pending) \ {id}
        /\ \A other \in Status \ {status, Pending} : IdsIn(jobs', other) = IdsIn(jobs, other)
    <3> DEFINE r == WithStatus(jobs, i, status)
    <3>1. jobs[i].status # status
      BY <1>1, <1>7
    <3>2. /\ IdsIn(r, status) = IdsIn(jobs, status) \union {jobs[i].id}
          /\ IdsIn(r, jobs[i].status) = IdsIn(jobs, jobs[i].status) \ {jobs[i].id}
          /\ \A other \in Status \ {status, jobs[i].status} : IdsIn(r, other) = IdsIn(jobs, other)
      BY <1>1, <3>1, StatusUpdateIds
    <3>3. QED
      BY <1>1, <1>7, <3>2
  <2>3. SlotsInOrder'
    BY <1>1, <2>1 DEF SlotsInOrder, Ascending
  <2>4. IdsGivenOut'
    BY <1>1, <2>1 DEF IInv, IdsGivenOut
  <2>5. PendingNotBegun'
    BY <1>5, <2>2 DEF IInv, PendingNotBegun
  <2>6. QED
    BY <2>1, <2>2, <2>3, <2>4, <2>5
<1>8. CASE jobs' = WithStatus(jobs, i, Running) /\ stack' = Append(stack, frame)
  <2>1. frame \in Frame /\ frame.id = id
    BY <1>3 DEF Frame
  <2>2. /\ stack' \in Seq(Frame) /\ Len(stack') = Len(stack) + 1
        /\ \A k \in 1 .. Len(stack) : stack'[k] = stack[k]
        /\ stack'[Len(stack) + 1] = frame
        /\ \A k \in 1 .. Len(stack') : k \in 1 .. Len(stack) \/ k = Len(stack) + 1
    BY <1>1, <1>8, <2>1
  <2>3. IdsOn(stack') = IdsOn(stack) \union {id}
    BY <1>1, <1>8, <2>1, PushIds
  <2>4. IdsIn(jobs', Running) = IdsIn(jobs, Running) \union {id}
    BY <1>4, <1>7, <1>8
  <2>5. RunningIffActive'
    BY <2>3, <2>4 DEF IInv, RunningIffActive
  <2>6. id \notin IdsIn(jobs, Running)
    <3>1. \A j \in 1 .. Len(jobs) : jobs[j].id = id => j = i
      BY <1>1, SlotUnique DEF SlotsOf
    <3>2. QED
      BY <1>1, <1>4, <3>1 DEF IdsIn
  <2>7. \A k \in 1 .. Len(stack) : stack[k].id # id
    BY <2>6 DEF IInv, RunningIffActive, IdsOn
  <2>8. StackDistinct'
    BY <2>1, <2>2, <2>7 DEF IInv, StackDistinct
  <2>9. QED
    BY <1>1, <1>4, <1>5, <1>6, <1>7, <1>8, <2>2, <2>5, <2>8 DEF IInv, TypeOK
<1>9. CASE jobs' = WithStatus(jobs, i, Completed) /\ stack' = stack
  <2>1. IdsIn(jobs', Running) = IdsIn(jobs, Running)
    BY <1>4, <1>7, <1>9
  <2>2. RunningIffActive' /\ StackDistinct'
    BY <1>9, <2>1 DEF IInv, RunningIffActive, StackDistinct
  <2>3. QED
    BY <1>1, <1>4, <1>5, <1>6, <1>7, <1>9, <2>2 DEF IInv, TypeOK
<1>10. QED
  BY <1>8, <1>9, StartMovesSlot

\* The callback of the innermost activation returns: its job, the only RUNNING
\* one with that identifier, becomes terminal and leaves the stack.
LEMMA ReturnMovesSlot ==
  ASSUME IInv, NEW ok \in BOOLEAN, CallbackReturns(ok)
  PROVE  \E i \in 1 .. Len(jobs), status \in {Completed, Failed} :
           /\ jobs[i].id = stack[Len(stack)].id /\ jobs[i].status = Running
           /\ jobs' = WithStatus(jobs, i, status)
<1> DEFINE top == stack[Len(stack)]
           status == IF ok THEN Completed ELSE Failed
<1>1. stack \in Seq(Frame) /\ stack # <<>> /\ jobs \in Seq(Job)
  BY DEF IInv, TypeOK, CallbackReturns
<1>2. Len(stack) \in 1 .. Len(stack)
  BY <1>1
<1>3. top.id \in IdsIn(jobs, Running)
  BY <1>2 DEF IInv, RunningIffActive, IdsOn
<1>4. PICK i \in 1 .. Len(jobs) : jobs[i].id = top.id /\ jobs[i].status = Running
  BY <1>3 DEF IdsIn
<1>5. Ascending(jobs)
  BY DEF IInv, SlotsInOrder, Ascending
<1>6. status \in Status /\ status \in {Completed, Failed}
  BY DEF Status
<1>7. Mark(jobs, jobs[i].id, status) = WithStatus(jobs, i, status)
  BY <1>1, <1>5, <1>6, MarkUpdatesSlot
<1>8. jobs' = Mark(jobs, top.id, status)
  BY DEF CallbackReturns
<1>9. QED
  BY <1>4, <1>6, <1>7, <1>8

LEMMA ReturnKeepsIInv ==
  ASSUME IInv, NEW ok \in BOOLEAN, CallbackReturns(ok)
  PROVE  IInv'
<1>1. PICK i \in 1 .. Len(jobs), status \in {Completed, Failed} :
        /\ jobs[i].id = stack[Len(stack)].id /\ jobs[i].status = Running
        /\ jobs' = WithStatus(jobs, i, status)
  BY ReturnMovesSlot
<1> DEFINE id == jobs[i].id
           r == WithStatus(jobs, i, status)
<1>2. /\ jobs \in Seq(Job) /\ Len(jobs) <= MaxJobs /\ stack \in Seq(Frame) /\ stack # <<>>
      /\ begun \in Seq(Nat \ {0}) /\ next_job_id \in Nat /\ stack' = Pop(stack)
      /\ next_job_id' = next_job_id /\ begun' = begun
      /\ Ascending(jobs)
      /\ \A k, l \in 1 .. Len(stack) : stack[k].id = stack[l].id => k = l
  BY DEF IInv, TypeOK, SlotsInOrder, Ascending, StackDistinct, CallbackReturns
<1>3. /\ status \in Status /\ Pending \in Status /\ Running \in Status
      /\ status # Running /\ status # Pending /\ Pending # Running /\ jobs[i].status # status
  BY <1>1 DEF Status, Pending, Running, Completed, Failed
<1>4. /\ r \in Seq(Job) /\ Len(r) = Len(jobs)
      /\ \A j \in 1 .. Len(jobs) : r[j].id = jobs[j].id
  BY <1>2, <1>3, StatusUpdate
<1>5. /\ IdsIn(r, jobs[i].status) = IdsIn(jobs, jobs[i].status) \ {jobs[i].id}
      /\ \A other \in Status \ {status, jobs[i].status} : IdsIn(r, other) = IdsIn(jobs, other)
  <2>1. /\ jobs \in Seq(Job) /\ status \in Status /\ jobs[i].status # status
        /\ Ascending(jobs)
    BY <1>2, <1>3
  <2>2. QED
    BY <2>1, StatusUpdateIds
<1>6. IdsIn(jobs', Running) = IdsIn(jobs, Running) \ {id} /\ IdsIn(jobs', Pending) = IdsIn(jobs, Pending)
  BY <1>1, <1>3, <1>5
<1>7. /\ stack' \in Seq(Frame) /\ Len(stack') = Len(stack) - 1
      /\ \A k \in 1 .. Len(stack') : stack'[k] = stack[k]
      /\ IdsOn(stack') = IdsOn(stack) \ {stack[Len(stack)].id}
  BY <1>2, PopIds
<1>8. RunningIffActive'
  BY <1>1, <1>6, <1>7 DEF IInv, RunningIffActive
<1>9. StackDistinct'
  <2>1. \A k \in 1 .. Len(stack') : k \in 1 .. Len(stack) /\ stack'[k] = stack[k]
    BY <1>2, <1>7
  <2>2. QED
    BY <1>2, <2>1 DEF StackDistinct
<1>10. SlotsInOrder' /\ IdsGivenOut'
  <2>1. SlotsInOrder'
    BY <1>1, <1>2, <1>4 DEF SlotsInOrder, Ascending
  <2>2. IdsGivenOut'
    BY <1>1, <1>2, <1>4 DEF IInv, IdsGivenOut
  <2>3. QED
    BY <2>1, <2>2
<1>11. PendingNotBegun' /\ BegunGivenOut' /\ AtMostOnce'
  BY <1>2, <1>6 DEF IInv, PendingNotBegun, BegunGivenOut, AtMostOnce
<1>12. TypeOK'
  BY <1>1, <1>2, <1>4, <1>7 DEF TypeOK
<1>13. QED
  BY <1>8, <1>9, <1>10, <1>11, <1>12 DEF IInv

\* Compaction selects the live slots in order, so no live job is lost and the
\* two sets of live identifiers stay as they are.
LEMMA DropKeepsIInv ==
  ASSUME IInv, DropTerminal
  PROVE  IInv' /\ \A status \in Live : IdsIn(jobs', status) = IdsIn(jobs, status)
<1>1. PICK n \in 0 .. Len(jobs) : \E from \in [1 .. n -> KeptSlots] :
        KeepsInOrder(from) /\ jobs' = [i \in 1 .. n |-> jobs[from[i]]]
  BY DEF DropTerminal
<1>2. PICK from \in [1 .. n -> KeptSlots] :
        KeepsInOrder(from) /\ jobs' = [i \in 1 .. n |-> jobs[from[i]]]
  BY <1>1
<1>3. /\ jobs \in Seq(Job) /\ Len(jobs) <= MaxJobs /\ next_job_id' = next_job_id
      /\ stack' = stack /\ begun' = begun
  BY DEF IInv, TypeOK, DropTerminal
<1>4. \A i \in 1 .. Len(jobs) : jobs[i] \in Job
  BY <1>3
<1>5. jobs' \in Seq(Job) /\ Len(jobs') = n /\ \A i \in 1 .. n : jobs'[i] = jobs[from[i]]
  BY <1>1, <1>2, <1>3, <1>4 DEF KeptSlots
<1>6. /\ \A i, j \in 1 .. n : i < j => from[i] < from[j]
      /\ \A i \in 1 .. n : from[i] \in 1 .. Len(jobs)
      /\ {from[i] : i \in 1 .. n} = {i \in 1 .. Len(jobs) : jobs[i].status \in Live}
  BY <1>2 DEF KeepsInOrder, KeptSlots
<1>7. \A i \in 1 .. Len(jobs) : jobs[i].status \in Live => \E k \in 1 .. n : from[k] = i
  BY <1>6
<1>8. \A status \in Live : IdsIn(jobs', status) = IdsIn(jobs, status)
  <2> TAKE status \in Live
  <2>1. ASSUME NEW k \in 1 .. n, jobs'[k].status = status
        PROVE  jobs'[k].id \in IdsIn(jobs, status)
    BY <1>5, <1>6, <2>1 DEF IdsIn
  <2>2. ASSUME NEW i \in 1 .. Len(jobs), jobs[i].status = status
        PROVE  jobs[i].id \in IdsIn(jobs', status)
    <3>1. PICK k \in 1 .. n : from[k] = i
      BY <1>7, <2>2
    <3>2. k \in 1 .. Len(jobs') /\ jobs'[k] = jobs[i]
      BY <1>5, <3>1
    <3>3. QED
      BY <2>2, <3>2 DEF IdsIn
  <2>3. IdsIn(jobs', status) \subseteq IdsIn(jobs, status)
    BY <1>5, <2>1 DEF IdsIn
  <2>4. IdsIn(jobs, status) \subseteq IdsIn(jobs', status)
    BY <2>2 DEF IdsIn
  <2>5. QED
    BY <2>3, <2>4
<1>9. SlotsInOrder' /\ IdsGivenOut'
  <2>1. SlotsInOrder'
    BY <1>5, <1>6 DEF IInv, SlotsInOrder
  <2>2. IdsGivenOut'
    BY <1>3, <1>5, <1>6 DEF IInv, IdsGivenOut
  <2>3. QED
    BY <2>1, <2>2
<1>10. Pending \in Live /\ Running \in Live
  BY DEF Live
<1>11. PendingNotBegun' /\ RunningIffActive'
  BY <1>3, <1>8, <1>10 DEF IInv, PendingNotBegun, RunningIffActive
<1>12. TypeOK' /\ BegunGivenOut' /\ AtMostOnce' /\ StackDistinct'
  <2>1. Len(jobs') <= MaxJobs
    BY <1>1, <1>3, <1>5, ExecutorAssumption
  <2>2. TypeOK'
    BY <1>3, <1>5, <2>1 DEF IInv, TypeOK
  <2>3. BegunGivenOut' /\ AtMostOnce' /\ StackDistinct'
    BY <1>3 DEF IInv, BegunGivenOut, AtMostOnce, StackDistinct
  <2>4. QED
    BY <2>2, <2>3
<1>13. QED
  BY <1>8, <1>9, <1>11, <1>12 DEF IInv
-----------------------------------------------------------------------------
LEMMA NextKeepsIInv == IInv /\ [Next]_vars => IInv'
<1> SUFFICES ASSUME IInv, [Next]_vars PROVE IInv'
  OBVIOUS
<1>1. ASSUME NEW callback \in BOOLEAN, SubmitRunnable(callback) PROVE IInv'
  BY <1>1, SubmitKeepsIInv
<1>2. ASSUME NEW id \in 0 .. next_job_id, NEW override \in BOOLEAN, RunJob(id, override) PROVE IInv'
  BY <1>2, StartKeepsIInv DEF RunJob
<1>3. ASSUME RunNext PROVE IInv'
  BY <1>3, StartKeepsIInv DEF RunNext
<1>4. ASSUME NEW ok \in BOOLEAN, CallbackReturns(ok) PROVE IInv'
  BY <1>4, ReturnKeepsIInv
<1>5. ASSUME DropTerminal PROVE IInv'
  BY <1>5, DropKeepsIInv
<1>6. ASSUME UNCHANGED <<jobs, next_job_id, stack, begun>> PROVE IInv'
  BY <1>6 DEF IInv, TypeOK, SlotsInOrder, IdsGivenOut, BegunGivenOut, PendingNotBegun,
              AtMostOnce, RunningIffActive, StackDistinct
<1>7. CASE SubmitRefused
  BY <1>6, <1>7 DEF SubmitRefused
<1>8. ASSUME NEW id \in 0 .. next_job_id, RunJobRefused(id) PROVE IInv'
  BY <1>6, <1>8 DEF RunJobRefused
<1>9. CASE RunNextRefused
  BY <1>6, <1>9 DEF RunNextRefused
<1>10. CASE UNCHANGED vars
  BY <1>6, <1>10 DEF vars
<1>11. QED
  BY <1>1, <1>2, <1>3, <1>4, <1>5, <1>7, <1>8, <1>9, <1>10 DEF Next

\* The inductive invariant holds in every state of the executor.
THEOREM ExecutorInvariant == Spec => []IInv
<1>1. IInv /\ [Next]_vars => IInv'
  BY NextKeepsIInv
<1>2. QED
  BY InitEstablishesIInv, <1>1, PTL DEF Spec

\* The array never outgrows EDGEXPU_EXECUTOR_MAX_JOBS and holds well-formed jobs.
THEOREM ExecutorTypeOK == Spec => []TypeOK
BY ExecutorInvariant, PTL DEF IInv

\* No job is begun twice.
THEOREM JobsBegunAtMostOnce == Spec => []AtMostOnce
<1>1. IInv => AtMostOnce
  BY DEF IInv
<1>2. QED
  BY ExecutorInvariant, <1>1, PTL

\* The RUNNING jobs are the jobs on the call stack.
THEOREM RunningJobsAreActive == Spec => []RunningIffActive
<1>1. IInv => RunningIffActive
  BY DEF IInv
<1>2. QED
  BY ExecutorInvariant, <1>1, PTL
-----------------------------------------------------------------------------
(***************************************************************************)
(* What a caller that runs one job at a time relies on: how each call      *)
(* changes the sets of live identifiers and the number of slots in use.    *)
(***************************************************************************)
AllRunnable == \A i \in 1 .. Len(jobs) : jobs[i].callback = TRUE

LEMMA SubmitEffect ==
  ASSUME IInv, AllRunnable, SubmitRunnable(TRUE)
  PROVE  /\ IdsIn(jobs', Pending) = IdsIn(jobs, Pending) \union {next_job_id'}
         /\ IdsIn(jobs', Running) = IdsIn(jobs, Running)
         /\ Len(jobs') = Len(jobs) + 1
         /\ AllRunnable'
<1> DEFINE new == [id |-> next_job_id + 1, status |-> Pending, callback |-> TRUE]
<1>1. jobs \in Seq(Job) /\ next_job_id \in Nat /\ next_job_id' = next_job_id + 1
  BY DEF IInv, TypeOK, SubmitRunnable
<1>2. new \in Job
  BY <1>1 DEF Job, Status
<1>3. /\ Len(jobs') = Len(jobs) + 1
      /\ \A i \in 1 .. Len(jobs) : jobs'[i] = jobs[i]
      /\ jobs'[Len(jobs) + 1] = new
      /\ new.id = next_job_id + 1 /\ new.status = Pending /\ new.callback = TRUE
  BY <1>1, <1>2 DEF SubmitRunnable
<1>4. IdsIn(jobs', Pending) = IdsIn(jobs, Pending) \union {next_job_id + 1}
  BY <1>1, <1>3 DEF IdsIn
<1>5. IdsIn(jobs', Running) = IdsIn(jobs, Running)
  BY <1>1, <1>3 DEF IdsIn, Pending, Running
<1>6. \A i \in 1 .. Len(jobs') : i \in 1 .. Len(jobs) \/ i = Len(jobs) + 1
  BY <1>1, <1>3
<1>7. AllRunnable'
  BY <1>3, <1>6 DEF AllRunnable
<1>8. QED
  BY <1>1, <1>3, <1>4, <1>5, <1>7

\* A job with a callback is running after run_next, and it was waiting before.
LEMMA EnterEffect ==
  ASSUME IInv, AllRunnable, RunNext
  PROVE  /\ \E id \in IdsIn(jobs, Pending) :
              /\ IdsIn(jobs', Pending) = IdsIn(jobs, Pending) \ {id}
              /\ IdsIn(jobs', Running) = IdsIn(jobs, Running) \union {id}
         /\ Len(jobs') = Len(jobs) /\ next_job_id' = next_job_id
         /\ AllRunnable'
<1>1. PICK i \in 1 .. Len(jobs) : StartJob("run_next", i, FALSE)
  BY DEF RunNext
<1>2. jobs \in Seq(Job) /\ jobs[i].status = Pending /\ jobs[i].callback = TRUE
      /\ Ascending(jobs) /\ next_job_id' = next_job_id
  BY <1>1 DEF IInv, TypeOK, SlotsInOrder, Ascending, StartJob, AllRunnable
<1>3. jobs' = WithStatus(jobs, i, Running)
  <2>1. Running \in Status
    BY DEF Status
  <2>2. jobs' = Mark(jobs, jobs[i].id, Running)
    BY <1>1, <1>2 DEF StartJob, EnterCallback
  <2>3. QED
    BY <1>2, <2>1, <2>2, MarkUpdatesSlot
<1>4. Running \in Status /\ Pending \in Status /\ Running # Pending
  BY DEF Status, Running, Pending
<1>5. /\ IdsIn(jobs', Running) = IdsIn(jobs, Running) \union {jobs[i].id}
      /\ IdsIn(jobs', Pending) = IdsIn(jobs, Pending) \ {jobs[i].id}
  BY <1>2, <1>3, <1>4, StatusUpdateIds
<1>6. jobs[i].id \in IdsIn(jobs, Pending)
  BY <1>2 DEF IdsIn
<1>7. Len(jobs') = Len(jobs) /\ AllRunnable'
  BY <1>2, <1>3, <1>4, StatusKeepsCallbacks DEF AllRunnable
<1>8. QED
  BY <1>2, <1>5, <1>6, <1>7

\* When no callback was running around it, none is running after a return.
LEMMA ReturnEffect ==
  ASSUME IInv, AllRunnable, NEW ok \in BOOLEAN, CallbackReturns(ok)
  PROVE  /\ \E id \in IdsIn(jobs, Running) :
              IdsIn(jobs', Running) = IdsIn(jobs, Running) \ {id}
         /\ IdsIn(jobs', Pending) = IdsIn(jobs, Pending)
         /\ Len(jobs') = Len(jobs) /\ next_job_id' = next_job_id
         /\ AllRunnable'
<1>1. PICK i \in 1 .. Len(jobs), status \in {Completed, Failed} :
        jobs[i].status = Running /\ jobs' = WithStatus(jobs, i, status)
  BY ReturnMovesSlot
<1>2. /\ jobs \in Seq(Job) /\ status \in Status /\ jobs[i].status # status
      /\ Ascending(jobs)
  BY <1>1 DEF IInv, TypeOK, SlotsInOrder, Ascending, Status, Running, Completed, Failed
<1>3. Pending \in Status /\ Pending # Running /\ Pending # status
  BY DEF Status, Pending, Running, Completed, Failed
<1>4. /\ IdsIn(jobs', Running) = IdsIn(jobs, Running) \ {jobs[i].id}
      /\ IdsIn(jobs', Pending) = IdsIn(jobs, Pending)
  <2> DEFINE r == WithStatus(jobs, i, status)
  <2>1. /\ IdsIn(r, jobs[i].status) = IdsIn(jobs, jobs[i].status) \ {jobs[i].id}
        /\ \A other \in Status \ {status, jobs[i].status} : IdsIn(r, other) = IdsIn(jobs, other)
    BY <1>2, StatusUpdateIds
  <2>2. QED
    BY <1>1, <1>3, <2>1
<1>5. jobs[i].id \in IdsIn(jobs, Running)
  BY <1>1 DEF IdsIn
<1>6. Len(jobs') = Len(jobs) /\ AllRunnable'
  BY <1>1, <1>2, StatusKeepsCallbacks DEF AllRunnable
<1>7. QED
  BY <1>4, <1>5, <1>6 DEF CallbackReturns

\* With no live job left, drop_terminal empties the array.
LEMMA DropEffect ==
  ASSUME IInv, DropTerminal, IdsIn(jobs, Pending) = {}, IdsIn(jobs, Running) = {}
  PROVE  jobs' = <<>> /\ next_job_id' = next_job_id
<1>1. KeptSlots = {}
  BY DEF KeptSlots, IdsIn, Live
<1>2. PICK n \in 0 .. Len(jobs) : \E from \in [1 .. n -> KeptSlots] :
        jobs' = [i \in 1 .. n |-> jobs[from[i]]]
  BY DEF DropTerminal
<1>3. PICK from \in [1 .. n -> KeptSlots] : jobs' = [i \in 1 .. n |-> jobs[from[i]]]
  BY <1>2
<1>4. n = 0
  <2>1. jobs \in Seq(Job)
    BY DEF IInv, TypeOK
  <2>2. n \in Nat /\ (n # 0 => 1 \in 1 .. n)
    BY <2>1
  <2>3. QED
    BY <1>1, <1>3, <2>2
<1>5. QED
  BY <1>3, <1>4 DEF DropTerminal
-----------------------------------------------------------------------------
(***************************************************************************)
(* Refinement.  Each action changes the two sets of live identifiers the   *)
(* way the abstract queue does.                                            *)
(***************************************************************************)
LEMMA SubmitImplements ==
  ASSUME IInv, NEW callback \in BOOLEAN, SubmitRunnable(callback)
  PROVE  Queue!Submit
<1> DEFINE new == [id |-> next_job_id + 1, status |-> Pending, callback |-> callback]
<1>1. jobs \in Seq(Job) /\ next_job_id \in Nat /\ next_job_id' = next_job_id + 1
  BY DEF IInv, TypeOK, SubmitRunnable
<1>2. new \in Job
  BY <1>1 DEF Job, Status
<1>3. /\ Len(jobs') = Len(jobs) + 1
      /\ \A i \in 1 .. Len(jobs) : jobs'[i] = jobs[i]
      /\ jobs'[Len(jobs) + 1] = new /\ new.id = next_job_id + 1 /\ new.status = Pending
  BY <1>1, <1>2 DEF SubmitRunnable
<1>4. IdsIn(jobs', Pending) = IdsIn(jobs, Pending) \union {next_job_id + 1}
  BY <1>1, <1>3 DEF IdsIn
<1>5. IdsIn(jobs', Running) = IdsIn(jobs, Running)
  BY <1>1, <1>3 DEF IdsIn, Pending, Running
<1>6. QED
  BY <1>1, <1>4, <1>5 DEF SubmitRunnable, Called, Queue!Submit, Queue!Called

LEMMA StartImplements ==
  ASSUME IInv, NEW op, NEW i \in 1 .. Len(jobs), NEW override, StartJob(op, i, override),
         op = "run_next" => IsFirst(i, PendingSlots)
  PROVE  jobs[i].id \in IdsIn(jobs, Pending) /\ Queue!Start(op, jobs[i].id)
<1> DEFINE id == jobs[i].id
<1>1. /\ jobs \in Seq(Job) /\ jobs[i].status = Pending /\ next_job_id' = next_job_id
      /\ Ascending(jobs)
  BY DEF IInv, TypeOK, SlotsInOrder, Ascending, StartJob
<1>2. id \in IdsIn(jobs, Pending)
  BY <1>1 DEF IdsIn
<1>3. ASSUME op = "run_next" PROVE Queue!IsOldest(id)
  <2>1. \A j \in 1 .. Len(jobs) : jobs[j].status = Pending => i <= j
    BY <1>3 DEF IsFirst, PendingSlots
  <2>2. \A j \in 1 .. Len(jobs) : jobs[j] \in Job
    BY <1>1
  <2>3. \A j \in 1 .. Len(jobs) : jobs[j].status = Pending => id <= jobs[j].id
    BY <1>1, <2>1, <2>2 DEF Job, Ascending
  <2>4. QED
    BY <2>3 DEF IdsIn, Queue!IsOldest
<1>4. ASSUME NEW status \in {Running, Completed}, jobs' = WithStatus(jobs, i, status)
      PROVE  /\ IdsIn(jobs', Pending) = IdsIn(jobs, Pending) \ {id}
             /\ status = Running => IdsIn(jobs', Running) = IdsIn(jobs, Running) \union {id}
             /\ status = Completed => IdsIn(jobs', Running) = IdsIn(jobs, Running)
  <2> DEFINE r == WithStatus(jobs, i, status)
  <2>1. status \in Status /\ jobs[i].status # status
    BY <1>1 DEF Status, Pending, Running, Completed
  <2>2. /\ IdsIn(r, status) = IdsIn(jobs, status) \union {jobs[i].id}
        /\ IdsIn(r, jobs[i].status) = IdsIn(jobs, jobs[i].status) \ {jobs[i].id}
        /\ \A other \in Status \ {status, jobs[i].status} : IdsIn(r, other) = IdsIn(jobs, other)
    BY <1>1, <2>1, StatusUpdateIds
  <2>3. Running \in Status /\ Running # Pending /\ Running # Completed
    BY DEF Status, Pending, Running, Completed
  <2>4. QED
    BY <1>1, <1>4, <2>2, <2>3
<1>5. CASE jobs' = WithStatus(jobs, i, Running) /\ Called(op, id, "entered")
  BY <1>1, <1>2, <1>3, <1>4, <1>5 DEF Called, Queue!Start, Queue!Called
<1>6. CASE jobs' = WithStatus(jobs, i, Completed) /\ Called(op, id, "ok")
  BY <1>1, <1>2, <1>3, <1>4, <1>6 DEF Called, Queue!Start, Queue!Called
<1>7. QED
  BY <1>2, <1>5, <1>6, StartMovesSlot

LEMMA ReturnImplements ==
  ASSUME IInv, NEW ok \in BOOLEAN, CallbackReturns(ok)
  PROVE  \E id \in IdsIn(jobs, Running) : Queue!Finish(id)
<1>1. PICK i \in 1 .. Len(jobs), status \in {Completed, Failed} :
        /\ jobs[i].id = stack[Len(stack)].id /\ jobs[i].status = Running
        /\ jobs' = WithStatus(jobs, i, status)
  BY ReturnMovesSlot
<1> DEFINE id == jobs[i].id
           r == WithStatus(jobs, i, status)
<1>2. /\ jobs \in Seq(Job) /\ status \in Status /\ jobs[i].status # status
      /\ Ascending(jobs)
  BY <1>1 DEF IInv, TypeOK, SlotsInOrder, Ascending, Status, Running, Completed, Failed
<1>3. /\ IdsIn(r, jobs[i].status) = IdsIn(jobs, jobs[i].status) \ {jobs[i].id}
      /\ \A other \in Status \ {status, jobs[i].status} : IdsIn(r, other) = IdsIn(jobs, other)
  BY <1>2, StatusUpdateIds
<1>4. Pending \in Status /\ Pending # Running /\ Pending # status
  BY DEF Status, Pending, Running, Completed, Failed
<1>5. IdsIn(jobs', Running) = IdsIn(jobs, Running) \ {id} /\ IdsIn(jobs', Pending) = IdsIn(jobs, Pending)
  BY <1>1, <1>3, <1>4
<1>6. id \in IdsIn(jobs, Running) /\ i \in SlotsOf(jobs, id)
  BY <1>1 DEF IdsIn, SlotsOf
<1>7. next_job_id' = next_job_id /\ (Called("return", id, "ok") \/ Called("return", id, "failed"))
  BY <1>1, <1>6 DEF CallbackReturns
<1>8. QED
  BY <1>5, <1>6, <1>7 DEF Called, Queue!Finish, Queue!Called

LEMMA RefusalsImplement ==
  ASSUME IInv
  PROVE  /\ SubmitRefused => Queue!NoWork("submit", 0, "full")
         /\ RunNextRefused => Queue!NoWork("run_next", 0, "no_pending")
         /\ \A id \in 0 .. next_job_id : RunJobRefused(id) =>
              \E ret \in {"missing", "not_pending"} : Queue!NoWork("run_job", id, ret)
         /\ DropTerminal => Queue!NoWork("drop_terminal", 0, "ok")
<1>1. SubmitRefused => Queue!NoWork("submit", 0, "full")
  BY DEF SubmitRefused, Called, Queue!NoWork, Queue!Called
<1>2. RunNextRefused => Queue!NoWork("run_next", 0, "no_pending")
  BY DEF RunNextRefused, HasPending, PendingSlots, IdsIn, Called, Queue!NoWork, Queue!Called
<1>3. ASSUME NEW id \in 0 .. next_job_id, RunJobRefused(id)
      PROVE  \E ret \in {"missing", "not_pending"} : Queue!NoWork("run_job", id, ret)
  <2>1. ASSUME NEW i \in 1 .. Len(jobs), jobs[i].id = id PROVE jobs[i].status # Pending
    <3>1. SlotsOf(jobs, jobs[i].id) = {i}
      BY SlotUnique DEF IInv, TypeOK, SlotsInOrder, Ascending
    <3>2. IsFirst(i, SlotsOf(jobs, id))
      BY <2>1, <3>1 DEF IsFirst
    <3>3. QED
      BY <1>3, <2>1, <3>1, <3>2 DEF RunJobRefused
  <2>2. id \notin IdsIn(jobs, Pending)
    BY <2>1 DEF IdsIn
  <2>3. QED
    BY <1>3, <2>2 DEF RunJobRefused, Called, Queue!NoWork, Queue!Called
<1>4. DropTerminal => Queue!NoWork("drop_terminal", 0, "ok")
  <2>1. DropTerminal => /\ IdsIn(jobs', Pending) = IdsIn(jobs, Pending)
                        /\ IdsIn(jobs', Running) = IdsIn(jobs, Running)
    BY DropKeepsIInv DEF Live
  <2>2. QED
    BY <2>1 DEF DropTerminal, Called, Queue!NoWork, Queue!Called
<1>5. QED
  BY <1>1, <1>2, <1>3, <1>4

LEMMA NextImplements == IInv /\ [Next]_vars => [Queue!Next]_(Queue!qvars)
<1> SUFFICES ASSUME IInv, [Next]_vars PROVE [Queue!Next]_(Queue!qvars)
  OBVIOUS
<1> DEFINE refused(op, id, ret) ==
      /\ op \in {"submit", "run_next", "run_job", "drop_terminal"}
      /\ id \in 0 .. next_job_id + 1
      /\ ret \in {"ok", "full", "missing", "no_pending", "not_pending"}
      /\ Queue!NoWork(op, id, ret)
<1>0. next_job_id \in Nat
  BY DEF IInv, TypeOK
<1>1. \A op, id, ret : refused(op, id, ret) => Queue!Next
  BY DEF Queue!Next
<1>2. ASSUME NEW callback \in BOOLEAN, SubmitRunnable(callback) PROVE Queue!Next
  BY <1>2, SubmitImplements DEF Queue!Next
<1>3. ASSUME NEW id \in 0 .. next_job_id, NEW override \in BOOLEAN, RunJob(id, override)
      PROVE  Queue!Next
  <2>1. PICK i \in 1 .. Len(jobs) : StartJob("run_job", i, override)
    BY <1>3 DEF RunJob
  <2>2. jobs[i].id \in IdsIn(jobs, Pending) /\ Queue!Start("run_job", jobs[i].id)
    BY <2>1, StartImplements
  <2>3. QED
    BY <2>2 DEF Queue!Next
<1>4. ASSUME RunNext PROVE Queue!Next
  <2>1. PICK i \in 1 .. Len(jobs) : IsFirst(i, PendingSlots) /\ StartJob("run_next", i, FALSE)
    BY <1>4 DEF RunNext
  <2>2. jobs[i].id \in IdsIn(jobs, Pending) /\ Queue!Start("run_next", jobs[i].id)
    BY <2>1, StartImplements
  <2>3. QED
    BY <2>2 DEF Queue!Next
<1>5. ASSUME NEW ok \in BOOLEAN, CallbackReturns(ok) PROVE Queue!Next
  BY <1>5, ReturnImplements DEF Queue!Next
<1>6. CASE DropTerminal
  <2>1. refused("drop_terminal", 0, "ok")
    BY <1>0, <1>6, RefusalsImplement
  <2>2. QED
    BY <1>1, <2>1
<1>7. CASE SubmitRefused
  <2>1. refused("submit", 0, "full")
    BY <1>0, <1>7, RefusalsImplement
  <2>2. QED
    BY <1>1, <2>1
<1>8. ASSUME NEW id \in 0 .. next_job_id, RunJobRefused(id) PROVE Queue!Next
  <2>1. PICK ret \in {"missing", "not_pending"} : Queue!NoWork("run_job", id, ret)
    BY <1>8, RefusalsImplement
  <2>2. refused("run_job", id, ret)
    BY <1>0, <2>1
  <2>3. QED
    BY <1>1, <2>2
<1>9. CASE RunNextRefused
  <2>1. refused("run_next", 0, "no_pending")
    BY <1>0, <1>9, RefusalsImplement
  <2>2. QED
    BY <1>1, <2>1
<1>10. CASE UNCHANGED vars
  BY <1>10 DEF vars, Queue!qvars, IdsIn
<1>11. QED
  BY <1>2, <1>3, <1>4, <1>5, <1>6, <1>7, <1>8, <1>9, <1>10 DEF Next

\* The executor implements the abstract queue.
THEOREM ExecutorImplementsJobQueue == Spec => ImplementsJobQueue
<1>1. Init => Queue!Init
  BY DEF Init, Queue!Init, IdsIn
<1>2. QED
  BY <1>1, NextImplements, ExecutorInvariant, PTL DEF Spec, ImplementsJobQueue, Queue!Spec
-----------------------------------------------------------------------------
(***************************************************************************)
(* Statuses move forward.  Identifiers grow with the slot before and after *)
(* a step, so a job has one heir at most, and the step decides its status. *)
(***************************************************************************)

\* A step that keeps every slot, and moves statuses forward where it changes
\* one, keeps every job.
LEMMA SlotwiseForward ==
  ASSUME IInv,
         Len(jobs') >= Len(jobs),
         \A i \in 1 .. Len(jobs) : jobs'[i].id = jobs[i].id
                                   /\ Follows(jobs[i].status, jobs'[i].status),
         \A i, j \in 1 .. Len(jobs') : i < j => jobs'[i].id < jobs'[j].id,
         jobs' \in Seq(Job)
  PROVE  LiveJobsKept
<1> SUFFICES ASSUME NEW i \in 1 .. Len(jobs)
             PROVE  /\ \E j \in 1 .. Len(jobs') : jobs'[j].id = jobs[i].id
                    /\ \A j \in 1 .. Len(jobs') : jobs'[j].id = jobs[i].id =>
                         Follows(jobs[i].status, jobs'[j].status)
  BY DEF LiveJobsKept
<1>1. i \in 1 .. Len(jobs') /\ jobs'[i].id = jobs[i].id
  BY DEF IInv, TypeOK
<1>2. \A j \in 1 .. Len(jobs') : jobs'[j] \in Job
  OBVIOUS
<1>3. \A j \in 1 .. Len(jobs') : jobs'[j].id = jobs[i].id => j = i
  BY <1>1, <1>2 DEF Job
<1>4. QED
  BY <1>1, <1>3

\* The same for the update of one status.
LEMMA StatusForward ==
  ASSUME IInv, NEW i \in 1 .. Len(jobs), NEW status \in Status,
         jobs' = WithStatus(jobs, i, status), Follows(jobs[i].status, status)
  PROVE  LiveJobsKept
<1>1. jobs \in Seq(Job) /\ \A k, l \in 1 .. Len(jobs) : k < l => jobs[k].id < jobs[l].id
  BY DEF IInv, TypeOK, SlotsInOrder
<1>2. /\ jobs' \in Seq(Job) /\ Len(jobs') = Len(jobs)
      /\ \A j \in 1 .. Len(jobs) : jobs'[j].id = jobs[j].id
      /\ jobs'[i].status = status
      /\ \A j \in 1 .. Len(jobs) : j # i => jobs'[j] = jobs[j]
  BY <1>1, StatusUpdate
<1>3. \A j \in 1 .. Len(jobs) : Follows(jobs[j].status, jobs'[j].status)
  BY <1>2 DEF Follows
<1>4. QED
  BY <1>1, <1>2, <1>3, SlotwiseForward

LEMMA SubmitForward ==
  ASSUME IInv, IInv', NEW callback \in BOOLEAN, SubmitRunnable(callback)
  PROVE  LiveJobsKept
<1>1. jobs \in Seq(Job) /\ jobs' \in Seq(Job)
  BY DEF IInv, TypeOK
<1>2. Len(jobs') = Len(jobs) + 1 /\ \A i \in 1 .. Len(jobs) : jobs'[i] = jobs[i]
  BY <1>1 DEF SubmitRunnable
<1>3. \A i, j \in 1 .. Len(jobs') : i < j => jobs'[i].id < jobs'[j].id
  BY DEF IInv, SlotsInOrder
<1>4. QED
  BY <1>1, <1>2, <1>3, SlotwiseForward DEF Follows

LEMMA DropForward ==
  ASSUME IInv, DropTerminal
  PROVE  LiveJobsKept
<1>1. \A status \in Live : IdsIn(jobs', status) = IdsIn(jobs, status)
  BY DropKeepsIInv
<1>2. PICK n \in 0 .. Len(jobs) : \E from \in [1 .. n -> KeptSlots] :
        KeepsInOrder(from) /\ jobs' = [i \in 1 .. n |-> jobs[from[i]]]
  BY DEF DropTerminal
<1>3. PICK from \in [1 .. n -> KeptSlots] : jobs' = [i \in 1 .. n |-> jobs[from[i]]]
  BY <1>2
<1>4. Len(jobs') = n /\ \A j \in 1 .. n : jobs'[j] = jobs[from[j]] /\ from[j] \in 1 .. Len(jobs)
  BY <1>3 DEF KeptSlots
<1>5. ASSUME NEW i \in 1 .. Len(jobs), jobs[i].status \in Live
      PROVE  \E j \in 1 .. Len(jobs') : jobs'[j].id = jobs[i].id
  <2>1. jobs[i].id \in IdsIn(jobs', jobs[i].status)
    BY <1>1, <1>5 DEF IdsIn
  <2>2. QED
    BY <2>1 DEF IdsIn
<1>6. ASSUME NEW i \in 1 .. Len(jobs), NEW j \in 1 .. Len(jobs'), jobs'[j].id = jobs[i].id
      PROVE  Follows(jobs[i].status, jobs'[j].status)
  <2>1. SlotsOf(jobs, jobs[i].id) = {i}
    BY SlotUnique DEF IInv, TypeOK, SlotsInOrder, Ascending
  <2>2. from[j] = i
    BY <1>4, <1>6, <2>1 DEF SlotsOf
  <2>3. QED
    BY <1>4, <2>2 DEF Follows
<1>7. QED
  BY <1>5, <1>6 DEF LiveJobsKept

LEMMA StartForward ==
  ASSUME IInv, NEW op, NEW i \in 1 .. Len(jobs), NEW override, StartJob(op, i, override)
  PROVE  LiveJobsKept
<1>1. jobs[i].status = Pending
  BY DEF StartJob
<1>2. /\ Running \in Status /\ Completed \in Status
      /\ Follows(jobs[i].status, Running) /\ Follows(jobs[i].status, Completed)
  BY <1>1 DEF Status, Follows
<1>3. QED
  BY <1>2, StartMovesSlot, StatusForward

LEMMA ReturnForward ==
  ASSUME IInv, NEW ok \in BOOLEAN, CallbackReturns(ok)
  PROVE  LiveJobsKept
<1>1. PICK i \in 1 .. Len(jobs), status \in {Completed, Failed} :
        jobs[i].status = Running /\ jobs' = WithStatus(jobs, i, status)
  BY ReturnMovesSlot
<1>2. status \in Status /\ Follows(jobs[i].status, status)
  BY <1>1 DEF Status, Follows
<1>3. QED
  BY <1>1, <1>2, StatusForward

LEMMA NextForward == IInv /\ IInv' /\ [Next]_vars => [LiveJobsKept]_vars
<1> SUFFICES ASSUME IInv, IInv', Next PROVE LiveJobsKept
  OBVIOUS
<1>1. ASSUME NEW callback \in BOOLEAN, SubmitRunnable(callback) PROVE LiveJobsKept
  BY <1>1, SubmitForward
<1>2. ASSUME NEW id \in 0 .. next_job_id, NEW override \in BOOLEAN, RunJob(id, override)
      PROVE  LiveJobsKept
  BY <1>2, StartForward DEF RunJob
<1>3. ASSUME RunNext PROVE LiveJobsKept
  BY <1>3, StartForward DEF RunNext
<1>4. ASSUME NEW ok \in BOOLEAN, CallbackReturns(ok) PROVE LiveJobsKept
  BY <1>4, ReturnForward
<1>5. ASSUME DropTerminal PROVE LiveJobsKept
  BY <1>5, DropForward
<1>6. ASSUME jobs' = jobs PROVE LiveJobsKept
  <2>1. /\ jobs \in Seq(Job) /\ Len(jobs') >= Len(jobs)
        /\ \A i, j \in 1 .. Len(jobs') : i < j => jobs'[i].id < jobs'[j].id
    BY <1>6 DEF IInv, TypeOK, SlotsInOrder
  <2>2. QED
    BY <1>6, <2>1, SlotwiseForward DEF Follows
<1>7. QED
  BY <1>1, <1>2, <1>3, <1>4, <1>5, <1>6 DEF Next, SubmitRefused, RunJobRefused, RunNextRefused

\* No live job is lost, and no later call rewrites the status of a job that ended.
THEOREM ExecutorJobsMoveForward == Spec => JobsMoveForward
BY NextForward, ExecutorInvariant, PTL DEF Spec, JobsMoveForward
=============================================================================
