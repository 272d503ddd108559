------------------------------ MODULE Generate ------------------------------
(***************************************************************************)
(* edgexpu_runtime_load_model and edgexpu_runtime_generate_stream          *)
(* (runtime.c): one request is a chain of executor jobs, each submitted,   *)
(* run and checked before the next.  The native path decodes one token per *)
(* DECODE_STEP job and streams it with a STREAM_TOKEN job; the llama path  *)
(* decodes once and replays the text word by word.  The fixed job array is *)
(* reclaimed at two places only, so the number of jobs a request may still *)
(* submit is what decides whether it ends or is refused half way.          *)
(*                                                                         *)
(* The queue is the one of module Executor.  The native session is seen    *)
(* through the two flags of DecodeSession; module NativeSession implements *)
(* them.  Texts, timings and the scheduler's choice of names are left out. *)
(***************************************************************************)
EXTENDS Integers, Sequences

CONSTANTS
  MaxJobs,       \* EDGEXPU_EXECUTOR_MAX_JOBS (256)
  Reserve,       \* EDGEXPU_GENERATE_JOB_RESERVE (64)
  StepReserve,   \* slots a decode iteration asks for (4)
  Paths,         \* request.cpu_path values that requests use
  MaxNew,        \* bound: request.max_tokens
  MaxReplay,     \* bound: words in the text a llama generation returns
  MaxLoads,      \* bound: calls of load_model
  MaxRequests,   \* bound: calls of generate_stream
  MaxSubmits     \* bound of Executor, above what those calls can submit

AutoPath   == "auto"
NativePath == "native"
LlamaPath  == "llama"

ASSUME GenerateAssumption ==
  /\ MaxJobs \in Nat /\ Reserve \in Nat /\ StepReserve \in Nat
  /\ 4 <= StepReserve /\ 5 <= Reserve
  /\ StepReserve <= MaxJobs /\ Reserve <= MaxJobs
  /\ Paths \subseteq {AutoPath, NativePath, LlamaPath}
  /\ MaxNew \in Nat \ {0} /\ MaxReplay \in Nat
  /\ MaxLoads \in Nat /\ MaxRequests \in Nat /\ MaxSubmits \in Nat

VARIABLES
  jobs, next_job_id, stack, begun, call,   \* the executor's
  loaded,     \* runtime.loaded
  session,    \* native.loaded
  ready,      \* native_decode_ready(native)
  pc,         \* the job type the call is at, or where it is between two jobs
  phase,      \* run_scheduled_job_ex: about to submit, submitted, in the callback
  request,    \* [path, max_new] of the request being served
  produced,   \* produced, and i: tokens decoded and streamed
  stopped,    \* generation_context.decode_stopped
  piece,      \* whether last_piece has text
  words,      \* token_count: words of the text to replay
  recorded,   \* recorded_jobs
  visible,    \* max_visible_jobs
  emitted,    \* history: the token_index of each call of on_token
  outcome,    \* what the last call returned, its finish_reason, the job it ended at
  loads, requests   \* bounds: calls so far

exec    == <<jobs, next_job_id, stack, begun, call>>
context == <<request, produced, stopped, piece, words, recorded, visible, emitted>>
counts  == <<loads, requests>>
vars    == <<exec, loaded, session, ready, pc, phase, context, outcome, counts>>

Exec    == INSTANCE Executor WITH MaxDepth <- 1
Session == INSTANCE DecodeSession

FrontStages == {"prepare_prompt", "tokenize", "prefetch_weights", "prefill"}
LoopStages  == {"next_token", "decode_step", "stream_token", "empty_token"}
Stages == FrontStages \union (LoopStages \ {"next_token"}) \union
          {"load_model", "decode_text", "replay_token", "update_kv_cache", "collect_telemetry"}
Waits  == {"next_token", "replay"}   \* code between two jobs

\* Which callbacks can report an error.  update_kv_cache checks the window the
\* native path never leaves, and reserves room for the text on the llama path.
MayFail == {"load_model", "tokenize", "prefill", "decode_step", "decode_text"}
           \union (IF request.path = LlamaPath THEN {"update_kv_cache"} ELSE {})

\* Callbacks that do nothing when no native session is loaded.
NeedSession == {"tokenize", "prefill", "decode_step", "update_kv_cache"}

NoRequest == [path |-> AutoPath, max_new |-> 1]
NoOutcome == [ret |-> "none", reason |-> "", at |-> "idle"]

Init ==
  /\ Exec!Init
  /\ loaded = FALSE /\ session = FALSE /\ ready = FALSE
  /\ pc = "idle" /\ phase = "submit"
  /\ request = NoRequest
  /\ produced = 0 /\ stopped = FALSE /\ piece = FALSE
  /\ words = 0 /\ recorded = 0 /\ visible = 0
  /\ emitted = <<>>
  /\ outcome = NoOutcome
  /\ loads = 0 /\ requests = 0

Return(ret, reason) ==
  /\ pc' = "idle"
  /\ phase' = "submit"
  /\ outcome' = [ret |-> ret, reason |-> reason, at |-> pc]

Goto(stage) == pc' = stage /\ phase' = "submit" /\ UNCHANGED outcome

\* "if (remaining < n) drop_terminal"
ReclaimBelow(n) ==
  IF Exec!RemainingCapacity < n THEN Exec!DropTerminal ELSE UNCHANGED exec

-----------------------------------------------------------------------------
\* edgexpu_runtime_load_model, up to its job.
LoadModel ==
  /\ pc = "idle" /\ loads < MaxLoads
  /\ loads' = loads + 1
  /\ pc' = "load_model"
  /\ outcome' = NoOutcome
  /\ UNCHANGED <<exec, loaded, session, ready, phase, context, requests>>

\* The manifest cannot be read, or names no backend.
LoadRejected ==
  /\ pc = "idle" /\ loads < MaxLoads
  /\ loads' = loads + 1
  /\ Return("manifest_rejected", "")
  /\ UNCHANGED <<exec, loaded, session, ready, context, requests>>

\* edgexpu_runtime_generate_stream, up to its first job.
Generate(path, max_new) ==
  /\ pc = "idle" /\ loaded /\ requests < MaxRequests
  /\ requests' = requests + 1
  /\ ReclaimBelow(Reserve)
  /\ request' = [path |-> path, max_new |-> max_new]
  /\ produced' = 0 /\ stopped' = FALSE /\ piece' = FALSE
  /\ words' = 0 /\ recorded' = 0 /\ visible' = 0
  /\ emitted' = <<>>
  /\ pc' = "prepare_prompt"
  /\ outcome' = NoOutcome
  /\ UNCHANGED <<loaded, session, ready, phase, loads>>

\* The chat template does not fit: the call fails after reclaiming.
GenerateTooLong ==
  /\ pc = "idle" /\ loaded /\ requests < MaxRequests
  /\ requests' = requests + 1
  /\ ReclaimBelow(Reserve)
  /\ Return("template_too_long", "")
  /\ UNCHANGED <<loaded, session, ready, context, loads>>

GenerateUnloaded ==
  /\ pc = "idle" /\ ~loaded /\ requests < MaxRequests
  /\ requests' = requests + 1
  /\ Return("not_loaded", "")
  /\ UNCHANGED <<exec, loaded, session, ready, context, loads>>

-----------------------------------------------------------------------------
\* emit_stream_token_jobs has reached its last visible job with more words left:
\* it hands them to on_token before it submits.
BatchPending ==
  pc = "replay_token" /\ recorded + 1 >= visible /\ produced + 1 < words

\* run_scheduled_job_ex: submit, then run_next, then the callback's result.
Submit ==
  /\ pc \in Stages /\ phase = "submit" /\ ~BatchPending
  /\ Exec!SubmitRunnable(TRUE)
  /\ phase' = "queued"
  /\ UNCHANGED <<loaded, session, ready, pc, context, outcome, counts>>

SubmitFails ==
  /\ pc \in Stages /\ phase = "submit" /\ ~BatchPending
  /\ Exec!SubmitRefused
  /\ Return("queue_full", "")
  /\ UNCHANGED <<loaded, session, ready, context, counts>>

Enter ==
  /\ phase = "queued"
  /\ Exec!RunNext
  /\ phase' = "running"
  /\ UNCHANGED <<loaded, session, ready, pc, context, outcome, counts>>

\* Mutant of SessionAfter: a load that fails keeps last_hidden.
SessionKeepsHidden(ok) ==
  CASE pc = "load_model" -> session' = ok /\ UNCHANGED ready
    [] pc = "prefill"    -> Session!Prefill
    [] OTHER             -> UNCHANGED <<session, ready>>

\* The session after a callback.
SessionAfter(ok) ==
  CASE pc = "load_model" -> Session!Load(ok)
    [] pc = "prefill"    -> Session!Prefill
    [] OTHER             -> UNCHANGED <<session, ready>>

CallbackFails ==
  /\ phase = "running" /\ pc \in MayFail
  /\ pc \in NeedSession => session
  /\ Exec!CallbackReturns(FALSE)
  /\ SessionAfter(FALSE)
  /\ Return("job_failed", "")
  /\ UNCHANGED <<loaded, context, counts>>

\* An artifact that is not GGUF: the load job fails with the old session in place.
LoadOtherFormat ==
  /\ phase = "running" /\ pc = "load_model"
  /\ Exec!CallbackReturns(FALSE)
  /\ Return("job_failed", "")
  /\ UNCHANGED <<loaded, session, ready, context, counts>>

\* A decode job without a native session and off the llama path reports an error.
DecodeUnready ==
  /\ phase = "running" /\ pc = "decode_text" /\ request.path # LlamaPath
  /\ Exec!CallbackReturns(FALSE)
  /\ Return("job_failed", "")
  /\ UNCHANGED <<loaded, session, ready, context, counts>>

FixedNext ==
  [prepare_prompt |-> "tokenize", tokenize |-> "prefetch_weights",
   prefetch_weights |-> "prefill", update_kv_cache |-> "collect_telemetry"]

\* Jobs whose success only moves the request on.
StageDone ==
  /\ phase = "running" /\ pc \in DOMAIN FixedNext
  /\ Exec!CallbackReturns(TRUE)
  /\ Goto(FixedNext[pc])
  /\ UNCHANGED <<loaded, session, ready, context, counts>>

LoadDone ==
  /\ phase = "running" /\ pc = "load_model"
  /\ Exec!CallbackReturns(TRUE)
  /\ SessionAfter(TRUE)
  /\ loaded' = TRUE
  /\ Return("ok", "")
  /\ UNCHANGED <<context, counts>>

\* After the prefill the request takes the native loop, the one-job decode, or,
\* when the native path was asked for and is not ready, ends.
PrefillDone ==
  /\ phase = "running" /\ pc = "prefill"
  /\ Exec!CallbackReturns(TRUE)
  /\ SessionAfter(TRUE)
  /\ IF request.path = NativePath /\ ~ready' THEN Return("not_ready", "")
     ELSE Goto(IF request.path # LlamaPath /\ ready' THEN "next_token" ELSE "decode_text")
  /\ UNCHANGED <<loaded, context, counts>>

-----------------------------------------------------------------------------
\* Mutant of NextToken: room for the two jobs of the iteration only.
NextTokenReclaimsLate ==
  /\ pc = "next_token" /\ ~stopped /\ produced < request.max_new
  /\ ReclaimBelow(2)
  /\ Goto("decode_step")
  /\ UNCHANGED <<loaded, session, ready, context, counts>>

\* The native loop: the head of "for (i = 0; i < max_new; i++)".
NextToken ==
  /\ pc = "next_token" /\ ~stopped /\ produced < request.max_new
  /\ ReclaimBelow(StepReserve)
  /\ Goto("decode_step")
  /\ UNCHANGED <<loaded, session, ready, context, counts>>

\* Past the loop: a request that produced nothing streams an empty token.
LoopEnds ==
  /\ pc = "next_token" /\ (stopped \/ produced >= request.max_new)
  /\ Goto(IF produced = 0 THEN "empty_token" ELSE "update_kv_cache")
  /\ UNCHANGED <<exec, loaded, session, ready, context, counts>>

\* Mutant of DecodeStops: the end-of-sequence token is counted.
DecodeStopsCounted ==
  /\ phase = "running" /\ pc = "decode_step"
  /\ Exec!CallbackReturns(TRUE)
  /\ stopped' = TRUE /\ piece' = FALSE
  /\ produced' = produced + 1
  /\ Goto("next_token")
  /\ UNCHANGED <<loaded, session, ready, counts, request, words, recorded, visible, emitted>>

\* The end-of-sequence token stops the loop without a stream job.
DecodeStops ==
  /\ phase = "running" /\ pc = "decode_step"
  /\ Exec!CallbackReturns(TRUE)
  /\ stopped' = TRUE /\ piece' = FALSE
  /\ Goto("next_token")
  /\ UNCHANGED <<loaded, session, ready, counts,
                 request, produced, words, recorded, visible, emitted>>

\* A token whose piece may be empty (the first bytes of a character).
DecodeToken(text) ==
  /\ phase = "running" /\ pc = "decode_step"
  /\ Exec!CallbackReturns(TRUE)
  /\ piece' = text
  /\ Goto("stream_token")
  /\ UNCHANGED <<loaded, session, ready, counts,
                 request, produced, stopped, words, recorded, visible, emitted>>

\* Mutant of TokenStreamed: a token without text is not counted.
TokenStreamedIfText ==
  /\ phase = "running" /\ pc = "stream_token"
  /\ Exec!CallbackReturns(TRUE)
  /\ emitted' = IF piece THEN Append(emitted, produced) ELSE emitted
  /\ produced' = IF piece THEN produced + 1 ELSE produced
  /\ Goto("next_token")
  /\ UNCHANGED <<loaded, session, ready, counts,
                 request, stopped, piece, words, recorded, visible>>

\* on_token is not called for an empty piece.
TokenStreamed ==
  /\ phase = "running" /\ pc = "stream_token"
  /\ Exec!CallbackReturns(TRUE)
  /\ emitted' = IF piece THEN Append(emitted, produced) ELSE emitted
  /\ produced' = produced + 1
  /\ Goto("next_token")
  /\ UNCHANGED <<loaded, session, ready, counts,
                 request, stopped, piece, words, recorded, visible>>

EmptyTokenStreamed ==
  /\ phase = "running" /\ pc = "empty_token"
  /\ Exec!CallbackReturns(TRUE)
  /\ Goto("update_kv_cache")
  /\ UNCHANGED <<loaded, session, ready, context, counts>>

-----------------------------------------------------------------------------
\* The llama path: one DECODE_STEP job returns the whole text.
DecodeText(n) ==
  /\ phase = "running" /\ pc = "decode_text" /\ request.path = LlamaPath
  /\ Exec!CallbackReturns(TRUE)
  /\ words' = n
  /\ Goto("replay")
  /\ UNCHANGED <<loaded, session, ready, counts,
                 request, produced, stopped, piece, recorded, visible, emitted>>

\* emit_stream_token_jobs: how many words get a job of their own.
StartReplay ==
  /\ pc = "replay"
  /\ LET room == Exec!RemainingCapacity
     IN  IF room <= 1 THEN Return("queue_full", "") /\ UNCHANGED visible
         ELSE /\ visible' = IF words > 0 /\ room - 1 > words THEN words ELSE room - 1
              /\ Goto("replay_token")
  /\ UNCHANGED <<exec, loaded, session, ready, counts,
                 request, produced, stopped, piece, words, recorded, emitted>>

\* Mutants of Batch: a word is dropped; the index does not move with the words.
BatchDrops ==
  /\ phase = "submit" /\ BatchPending
  /\ emitted' = IF produced + 2 = words THEN emitted ELSE Append(emitted, produced)
  /\ produced' = produced + 1
  /\ UNCHANGED <<exec, loaded, session, ready, pc, phase, outcome, counts,
                 request, stopped, piece, words, recorded, visible>>

BatchKeepsIndex ==
  /\ phase = "submit" /\ BatchPending
  /\ emitted' = Append(emitted, recorded)
  /\ produced' = produced + 1
  /\ UNCHANGED <<exec, loaded, session, ready, pc, phase, outcome, counts,
                 request, stopped, piece, words, recorded, visible>>

\* The last visible job stands for the rest: the words before the last one are
\* handed to on_token one by one, without a job.
Batch ==
  /\ phase = "submit" /\ BatchPending
  /\ emitted' = Append(emitted, produced)
  /\ produced' = produced + 1
  /\ UNCHANGED <<exec, loaded, session, ready, pc, phase, outcome, counts,
                 request, stopped, piece, words, recorded, visible>>

WordStreamed ==
  /\ phase = "running" /\ pc = "replay_token"
  /\ Exec!CallbackReturns(TRUE)
  /\ emitted' = IF words > 0 THEN Append(emitted, produced) ELSE emitted
  /\ produced' = produced + 1
  /\ recorded' = recorded + 1
  /\ Goto(IF produced + 1 < words THEN "replay_token" ELSE "update_kv_cache")
  /\ UNCHANGED <<loaded, session, ready, counts,
                 request, stopped, piece, words, visible>>

\* Which finish_reason a request that completes reports.  Off the native loop
\* it comes from completion_tokens_approx, the number of words.
FinishReason ==
  IF request.path # LlamaPath /\ stopped THEN "stop"
  ELSE IF (IF request.path = LlamaPath THEN words ELSE produced) >= request.max_new
       THEN "length" ELSE "stop"

RequestDone ==
  /\ phase = "running" /\ pc = "collect_telemetry"
  /\ Exec!CallbackReturns(TRUE)
  /\ Return("ok", FinishReason)
  /\ UNCHANGED <<loaded, session, ready, context, counts>>

-----------------------------------------------------------------------------
Step ==
  \/ Submit \/ SubmitFails \/ Enter
  \/ CallbackFails \/ LoadOtherFormat \/ DecodeUnready \/ StageDone \/ LoadDone \/ PrefillDone
  \/ NextToken \/ LoopEnds \/ DecodeStops \/ (\E text \in BOOLEAN : DecodeToken(text))
  \/ TokenStreamed \/ EmptyTokenStreamed
  \/ (\E n \in 0 .. MaxReplay : DecodeText(n)) \/ StartReplay \/ Batch \/ WordStreamed
  \/ RequestDone

Next ==
  \/ LoadModel \/ LoadRejected
  \/ \E path \in Paths, max_new \in 1 .. MaxNew : Generate(path, max_new)
  \/ GenerateTooLong \/ GenerateUnloaded
  \/ Step

Spec == Init /\ [][Next]_vars

\* A call runs on the caller's thread until it returns.
FairSpec == Spec /\ WF_vars(Step)

-----------------------------------------------------------------------------
TypeOK ==
  /\ Exec!TypeOK
  /\ loaded \in BOOLEAN /\ session \in BOOLEAN /\ ready \in BOOLEAN
  /\ pc \in Stages \union {"idle", "next_token", "replay"}
  /\ phase \in {"submit", "queued", "running"}
  /\ request \in [path : {AutoPath, NativePath, LlamaPath}, max_new : Nat \ {0}]
  /\ produced \in Nat /\ words \in Nat /\ recorded \in Nat /\ visible \in Nat
  /\ stopped \in BOOLEAN /\ piece \in BOOLEAN
  /\ emitted \in Seq(Nat)

\* run_next takes the first pending job, whichever it is, and a job's user_data
\* points into the frame of the call that submitted it.  So the one live job is
\* the one the current call has just submitted, and none outlives its call.
OwnJobRuns ==
  /\ Exec!IdsIn(jobs, Exec!Pending) = (IF phase = "queued" THEN {next_job_id} ELSE {})
  /\ Exec!IdsIn(jobs, Exec!Running) = (IF phase = "running" THEN {next_job_id} ELSE {})

\* Off the llama path a request is never refused half way for lack of a slot:
\* the two reclaims, at its start and in each iteration, leave enough room.
NativeNeverRefused ==
  outcome.ret = "queue_full" => outcome.at = "load_model" \/ request.path = LlamaPath

\* The native loop runs on the hidden state of the model that is loaded: not
\* after a reload that failed, though runtime.loaded stays 1.
LoopHasSession == pc \in LoopStages => session /\ ready

\* When the llama path is through with its replay it has handed every word of
\* the text to on_token, once and in order, whatever part of it was batched.
ReplayComplete ==
  request.path = LlamaPath /\ pc \in {"update_kv_cache", "collect_telemetry"}
    => emitted = [k \in 1 .. words |-> k - 1]

\* finish_reason: a native request ends with "length" exactly when it decoded
\* max_tokens tokens, and it may not end short of them without an end token.
ReasonTruthful ==
  outcome.ret = "ok" /\ outcome.at # "load_model" /\ request.path # LlamaPath
    => /\ outcome.reason = "length" <=> produced = request.max_new
       /\ outcome.reason = "stop" <=> stopped

\* How the two reclaims work out: the jobs a request off the llama path may
\* still submit before it reclaims or returns have a slot each.
JobsAfter ==
  [prepare_prompt |-> 4, tokenize |-> 3, prefetch_weights |-> 2, prefill |-> 1,
   decode_text |-> 0, decode_step |-> 3, stream_token |-> 2, empty_token |-> 2,
   update_kv_cache |-> 1, collect_telemetry |-> 0]

JobsToCome ==
  IF pc = "next_token"
  THEN IF ~stopped /\ produced < request.max_new THEN 0 ELSE IF produced = 0 THEN 3 ELSE 2
  ELSE JobsAfter[pc] + (IF phase = "submit" THEN 1 ELSE 0)

CapacityReserved ==
  request.path # LlamaPath /\ pc \in DOMAIN JobsAfter \union {"next_token"}
    => Len(jobs) + JobsToCome <= MaxJobs

-----------------------------------------------------------------------------
(* The inductive invariant: the parts of the properties that hold between  *)
(* the states they speak of.                                               *)

\* Every job has a callback, so the one that is begun is RUNNING until it returns.
EveryJobCalls == \A i \in 1 .. Len(jobs) : jobs[i].callback = TRUE

\* Outside a call no job is under way, and within one nothing is reported.
InCall ==
  /\ phase # "submit" => pc \in Stages
  /\ pc # "idle" => outcome = NoOutcome

\* Which stages belong to which path.
OwnStages ==
  /\ pc \in LoopStages => request.path # LlamaPath
  /\ pc \in {"replay", "replay_token"} => request.path = LlamaPath

WithinBounds == request.max_new <= MaxNew /\ words <= MaxReplay

ReadyHasModel == ready => session

\* Off the llama path: how many tokens there are, and whether the end token came.
TokensSoFar ==
  request.path # LlamaPath =>
    /\ pc \in FrontStages \union {"decode_text"} => produced = 0 /\ ~stopped
    /\ pc \in {"decode_step", "stream_token"} => produced < request.max_new /\ ~stopped
    /\ pc = "next_token" =>
         IF stopped THEN produced < request.max_new ELSE produced <= request.max_new
    /\ pc = "empty_token" => produced = 0 /\ stopped
    /\ pc \in {"update_kv_cache", "collect_telemetry"} =>
         IF stopped THEN produced < request.max_new ELSE produced = request.max_new

Upto(n) == [k \in 1 .. n |-> k - 1]

\* On the llama path: the words handed out are the first of the text.
WordsSoFar ==
  request.path = LlamaPath =>
    /\ pc \in FrontStages \union {"decode_text", "replay"} => produced = 0 /\ emitted = <<>>
    /\ pc = "replay_token" =>
         /\ emitted = Upto(produced)
         /\ IF words = 0 THEN produced = 0 ELSE produced < words

SentBelow == \A i \in 1 .. Len(emitted) : emitted[i] < produced

IInv ==
  /\ TypeOK /\ Exec!IInv /\ EveryJobCalls /\ OwnJobRuns
  /\ InCall /\ OwnStages /\ WithinBounds
  /\ ReadyHasModel /\ LoopHasSession
  /\ CapacityReserved /\ NativeNeverRefused
  /\ TokensSoFar /\ ReasonTruthful
  /\ WordsSoFar /\ ReplayComplete /\ SentBelow

-----------------------------------------------------------------------------
\* A client sees one request at a time: tokens with growing indices while it is
\* open, one verdict, nothing after it.
Client == INSTANCE Completion WITH
  Index <- 0 .. MaxNew + MaxReplay,
  open <- pc \notin {"idle", "load_model"}, sent <- emitted, verdict <- outcome.ret

ImplementsCompletion == Client!Spec

\* Every call returns.
CallReturns == pc # "idle" ~> pc = "idle"

\* What the README.plan and executor.h say of drop_terminal: completed jobs do
\* not fill the queue.  A submit is refused only when live jobs hold a slot.
TerminalJobsMakeRoom ==
  outcome.ret = "queue_full" => \E i \in 1 .. Len(jobs) : jobs[i].status \in Exec!Live
=============================================================================
