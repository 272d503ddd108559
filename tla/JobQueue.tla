------------------------------ MODULE JobQueue ------------------------------
(***************************************************************************)
(* What the executor of edgexpu promises its callers, without slots,       *)
(* statuses or compaction: a numbered stream of jobs of which each one is  *)
(* started at most once, the oldest first unless the caller names a job,   *)
(* and finishes only after it was started.  module Executor implements it. *)
(***************************************************************************)
EXTENDS Integers

VARIABLES
  waiting,   \* identifiers of the jobs submitted and not started
  active,    \* identifiers of the jobs whose callback is running
  last_id,   \* the identifier given to the last submitted job
  call       \* the last call made to the queue: operation, job, return code

qvars == <<waiting, active, last_id, call>>

Called(op, id, ret) == call' = [op |-> op, id |-> id, ret |-> ret]

Init ==
  /\ waiting = {}
  /\ active = {}
  /\ last_id = 0
  /\ call = [op |-> "init", id |-> 0, ret |-> "ok"]

\* A submitted job gets the next identifier and waits.
Submit ==
  /\ last_id' = last_id + 1
  /\ waiting' = waiting \union {last_id'}
  /\ Called("submit", last_id', "ok")
  /\ UNCHANGED active

\* Oldest first: run_next may only take the smallest waiting identifier.
IsOldest(id) == \A other \in waiting : id <= other

\* A job leaves waiting for good: it becomes active, or (no callback) is done.
Start(op, id) ==
  /\ id \in waiting
  /\ op = "run_next" => IsOldest(id)
  /\ waiting' = waiting \ {id}
  /\ UNCHANGED last_id
  /\ \/ active' = active \union {id} /\ Called(op, id, "entered")
     \/ active' = active /\ Called(op, id, "ok")

\* An active job finishes, well or badly.
Finish(id) ==
  /\ id \in active
  /\ active' = active \ {id}
  /\ \E ret \in {"ok", "failed"} : Called("return", id, ret)
  /\ UNCHANGED <<waiting, last_id>>

\* A call that does no work: a refused one, or the reclaiming of done jobs.
\* run_next may say that nothing is pending only when nothing is waiting, and
\* run_job may refuse a job only when it is not waiting.
NoWork(op, id, ret) ==
  /\ op = "run_next" => waiting = {}
  /\ op = "run_job" => id \notin waiting
  /\ op = "submit" => ret # "ok"
  /\ op # "return"
  /\ Called(op, id, ret)
  /\ UNCHANGED <<waiting, active, last_id>>

Next ==
  \/ Submit
  \/ \E op \in {"run_next", "run_job"}, id \in waiting : Start(op, id)
  \/ \E id \in active : Finish(id)
  \/ \E op \in {"submit", "run_next", "run_job", "drop_terminal"},
        id \in 0 .. last_id + 1,
        ret \in {"ok", "full", "missing", "no_pending", "not_pending"} :
       NoWork(op, id, ret)

Spec == Init /\ [][Next]_qvars
=============================================================================
