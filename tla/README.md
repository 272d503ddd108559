# Formal models of edgexpu-llm

edgexpu is a C program that serves a language model on the CPU of a small
device: it loads a GGUF file, turns every request into a chain of jobs on a
fixed-size queue, decodes tokens with a native transformer session and streams
them, from the command line or over a minimal HTTP server.  This directory
holds TLA+ modules for the parts of it that keep state from one call to the
next and for the algorithms that read its inputs, the TLC runs that check them,
and TLAPS proofs for every value of the constants.

## 1. The system

| component | state it keeps | operations | interacts through |
|---|---|---|---|
| executor (`src/executor.c`) | `jobs[256]`, `job_count`, `next_job_id` | submit, run_job, run_next, drop_terminal, queries | callbacks with a pointer to the slot |
| runtime (`src/runtime.c`) | manifest, session, executor, `loaded`, last telemetry | load_model, generate, generate_stream, shutdown | one executor job per stage, `on_token` of the caller |
| native session (`src/native.c`) | KV cache, `last_hidden`, `token_ids`, cached layers, weight staging buffer, decode workspace | load, free, tokenize, ensure_window, reserve_kv, prefill, generate_next | called from job callbacks through `src/backend_native.c` |
| KV cache (`src/kv_cache.c`) | `k`, `v`, `max_seq`, `seq_len` | allocate, reset, extend, free | called by the session and by `update_kv_job_callback` |
| llama baseline (`src/backend.c`) | globals `g_loaded`, `g_loaded_manifest` | bind, load, generate (a child process) | called by the decode job on the llama path |
| scheduler (`src/scheduler.c`) | none | select backend, plan a job, memory budget, admit a window | called before every job and by ensure_window |
| server (`src/server.c`) | one runtime, one client at a time | accept, receive, parse, chat completion, event stream | `generate_stream`, `sse_on_token` |
| GGUF loader (`src/gguf.c`), manifest (`src/manifest.c`) | the fields and tables a load leaves behind | load | called by native load and load_model |
| tokenizer (`src/tokenizer.c`) | pieces, merge lines, two hash tables | append, build index, encode, decode | filled by the GGUF loader, called by tokenize and decode |
| chat (`src/chat.c`) | none | apply a template to a conversation | called by the server, generate_stream and compare |
| architecture tables, CPU kernels, quantised blocks | none (and one sampler seed) | name tables, vector arithmetic, sampling | called by the session |
| profiler, command line | none | print | drive one runtime |

What is hard here:

- **Re-entry.** A job callback gets a pointer into the job array and may call the
  executor again: submit, run, compact.  What is read before the callback and used
  after it must survive that.
- **Bounded queue.** 256 slots, reclaimed at two points only.  Whether a request
  ends or is refused half way depends on how many jobs it can still submit.
- **State that outlives a request.** The KV window, the occupied length,
  `last_hidden`, `token_count` and the decode workspace stay as the last request
  left them, also when it failed in the middle, and the next one starts there.
- **Partial failure.** Every allocation, layer load, window admission and job may
  fail; the callers return at once and leave the state as it is.  A reload that
  fails frees the session while `runtime.loaded` stays 1.
- **Boundaries.** The last slot of the window, the last visible job of a replay,
  the end token as the last allowed token, `prompt + max_tokens` in `int`.

- **The network.** One connection at a time, a `recv` without a timeout, requests
  in pieces of any size, clients that stop or leave at any byte, an answer that has
  begun and can no longer become an error.
- **Shared memory.** All layers are staged in one buffer and keep pointers into it;
  the llama backend keeps its manifest in globals that all runtimes share.
- **Hand-written parsers.** The manifest and the GGUF keys are found by text search,
  the regular expressions of the vocabularies by a scanner, special tokens by angle
  brackets, template marks by their braces.  Each is right for the inputs it was
  tried on; the models ask for which inputs it agrees with what it stands for.

There is one thread per process.  The only place where threads meet in a result is
the greedy choice of a token, which OpenMP shares out (module `GreedyArgmax`);
other kernels write disjoint rows.  Nothing is persisted, so there are no crash
hazards.  `PROJECT.json` lists the hazards, each at its line.

What makes each component correct:

- executor: a job is begun at most once; RUNNING jobs are the ones whose callback
  has not returned; oldest first; compaction loses no live job; every job finishes.
- runtime: the job that runs is the one just submitted; room for every job of a
  request is reserved before it starts; what a client sees is a sequence of
  requests, each with growing indices and one verdict; `finish_reason` is true;
  every call returns.
- native session: a token is sampled from the hidden state its own request
  computed over the positions in the cache; attention reads slots of its own
  request only; an admitted window lasts for `max_tokens` tokens.
- weight staging: a layer is computed with its own weights; recurrent state and KV
  cache have taken in the same positions between tokens.
- scheduler: what is admitted fits in exact integers; the trace of a job names who
  ran it; an answer comes from the model that was accepted last.
- server: a stream that has begun ends in `[DONE]`, exactly one finish chunk when
  and only when the generation succeeded; an oversized request is refused whole; a
  request is answered the same however the network cuts it.
- tokenizer: words are cut where the regular expression cuts them, merged as the
  training defined it, and decode to the text; lookups agree with the tables.
- sampling: the threaded greedy choice is the sequential one; top_p keeps a smallest
  set, and draws follow the weights.
- chat, manifest, GGUF: what comes out is what the template, the JSON object or the
  file says, whatever the order of its parts, or the input is refused for a reason.

## 2. Modules

| module | what it is |
|---|---|
| `JobQueue` | abstract: numbered jobs, waiting, active, done |
| `Executor` | `executor.c`; implements `JobQueue` |
| `ExecutorProofs` | proofs about `Executor` |
| `DecodeSession` | abstract: the two flags of a session that the runtime tests |
| `NativeSession` | session, KV cache and the callbacks that drive them; implements `DecodeSession` |
| `NativeSessionProofs` | proofs about `NativeSession` |
| `Completion` | abstract: what a caller of generate_stream sees |
| `Generate` | `load_model` and `generate_stream`: composes `Executor` and `DecodeSession`, implements `Completion` |
| `GenerateProofs` | proofs about `Generate`, on top of `ExecutorProofs` |
| `Scheduler` | `scheduler.c`: the decision for each job, as operators |
| `Runtime` | `runtime.c`, `manifest.c`, globals of `backend.c`, `compare`: what stays between calls; uses `Scheduler` |
| `RuntimeProofs` | proofs about `Runtime`, `Scheduler`, `Budget` and `ChatTemplate` |
| `Budget` | the resource plan of `scheduler.c` and the session that asks for it |
| `WeightStage` | the layer loop of `native.c` over the staging buffer |
| `WeightStageProofs` | proofs about `WeightStage` and `GgufLoad` |
| `EventStream` | abstract: what one connection delivers |
| `Server` | `server.c`; composes `Completion`, implements `EventStream` |
| `ServerProofs` | proofs about `Server` |
| `GgufLoad` | `edgexpu_gguf_load` |
| `Manifest` | `edgexpu_manifest_load` |
| `ChatTemplate` | `chat.c` |
| `PieceIndex` | the arrays and hash tables of `tokenizer.c` |
| `Pretokenizer` | `pretok_split` of `tokenizer.c` |
| `Tokenizer` | `edgexpu_tokenizer_encode` and `_decode`; uses `Pretokenizer` |
| `GreedyArgmax` | the greedy branch of `sample_next_token` with its threads |
| `TokenProofs` | proofs about `GreedyArgmax`, `PieceIndex` and `Sampler` |
| `Sums` | running sums, of the sizes of tensors, the lengths of reads and the weights of tokens |
| `BoundedRecursion` | lemmas: induction and recursion over the positions 0 .. n, and `Sums` |
| `Sampler` | `edgexpu_cpu_sample_softmax` |
| `MCTokens` | `Tokenizer`, `Pretokenizer`, `PieceIndex`, `GreedyArgmax` and `Sampler` on small instances |
| `MCModelFiles` | `Manifest`, `GgufLoad`, `Budget` and `ChatTemplate` on small instances |
| other `MC...` | one instance for TLC each |

The modules that `MCTokens` and `MCModelFiles` put together share no variable, and no
call of one comes between two steps of another.  A behaviour therefore carries out
one task (`task`), with the variables of the others at rest.  The modules with theorems
(`PieceIndex`, `GreedyArgmax`, `Sampler`, `GgufLoad`, `Budget`, `ChatTemplate`) are extended,
and their properties hold at rest too; a property of an instantiated module is
`task = "..." => ...`.

### Executor

`jobs`, `next_job_id` are the fields of `edgexpu_executor`.  `run_job` is two
steps, because its callback is code of the caller and may call the executor:
`StartJob` marks the job RUNNING and pushes an activation on `stack`,
`CallbackReturns` pops it and marks the job again by identifier.  `stack` is thus
the C stack; `begun` and `call` are history.  `MaxDepth` bounds the nesting; the
runtime of today uses 1, the executor's contract (a queue whose callbacks submit)
allows more.  `DropTerminal` is the compaction loop, as the one order-preserving
selection of the live slots.  A job with no callback and `run_job` with a callback
of its caller (`override`) are included.  Texts and times of jobs are left out.

### Generate

`pc` is the job the current call is at, `phase` where `run_scheduled_job_ex` is
with it: about to submit, submitted, in the callback.  `Submit`, `Enter` and the
callback actions are steps of `Executor` (with depth 1), so the job array is
the real one, with the terminal jobs that pile up.  The stages of
`generate_stream` follow the source in order; the native loop, the one-job decode
and the replay are separate actions, the two reclaims (`ReclaimBelow`) are where
the code has them.  Every callback that can report an error may do so
(`CallbackFails`).  Callbacks change the session by the actions of
`DecodeSession`.  `emitted` records the calls of `on_token`, `outcome` the result
of the last call and the stage it ended at.
`ReplayComplete` is stated where the replay ends and not on the requests that
return 1: a text long enough to be batched fills the array and its request is
refused afterwards (finding 1), so a property of successful requests would never
look at a batch.

### NativeSession

One action per way out of each callback.  Vectors are replaced by their origin:
`slots[p]` is the request that wrote position p of the cache (0 for none or for a
pass that stopped between two layers) and `hidden` the request and position
`last_hidden` was computed from.  `AsInt` is the `int` sum of `ensure_window`.
`WindowReady`, `Window` and `WindowSlots` are what ensure_window leaves when it
succeeds; the actions that follow it inside the same callback use them.  The
prompt length is any number from 0 to one past the context.  A load may succeed
with or without attention layers, fail and free everything, or be refused before
it reaches the session.

### Runtime, Scheduler and Budget

`Runtime` keeps what one call leaves to the next: the manifest of each runtime, the
model of its native session, `loaded`, the last telemetry, and the globals of the
llama backend that all runtimes share.  `load_model` is one action per way out, each
with what it has overwritten by then (a full executor may refuse the load's job once
there have been others); a request is one step (its steps are in
`Generate`) that records which model ran, with which template, and the trace of its
jobs by `Scheduler!PlanJob`.  The compare command is a fixed sequence of such
calls.  `Budget` computes the plan as the code does, saturating where the code
saturates and wrapping where it does not, next to the memory really in use in exact
integers.  Purely recurrent models (no cache) and the extra workspace of recurrent
layers are left out of it.

### WeightStage

A byte of the staging buffer is the tensor it was copied from, a recurrent state the
number of positions it has taken in.  `LoadLayer` copies the tensors of a layer to
aligned offsets from the start of the buffer (`Copied`, `Offset`), `ApplyLayer` runs
it over the fresh positions.  A load may fail after any number of tensors and a layer
in its workspace or later, in prefill, in decode, and in a reload.

### Server

The buffer is filled by `recv` calls of any size; `AfterRecv` and `AfterEof` are the
framing by Content-Length, `Route` the dispatch, `ChatCompletion` the parse of the
messages and the four refusals.  The generation under a stream is `Completion`, so
what `Generate` implements is what the server relies on.  `sse_on_token` sends a chunk
in three calls that nothing comes between; they are one step.  A send succeeds at
once or is lost: back-pressure of a client that does not read is not modelled.  With
`SigPipe` a send to a reset connection may end the process, as on POSIX.

### Reading the model: GgufLoad, Manifest, PieceIndex

`GgufLoad` keeps the position in the file and turns each entry into the reads and
skips the code makes; a read past the end fails and a skip does not.  `Occurs` says
which field names occur in a key.  `Manifest` searches a sequence of tokens, from
its beginning, for each field in turn.  `PieceIndex` has the two open-addressed
tables under every assignment of hash values, with arrays that grow by doubling.

### From text to tokens and back: ChatTemplate, Pretokenizer, Tokenizer, sampling

`ChatTemplate` moves a cursor over a template of marks and other symbols and writes
into a bounded output.  `Pretokenizer` has one operator per branch of the scanner; a
character is a representative of its Unicode class.  `Tokenizer` takes special tokens
out, cuts the rest by `Pretokenizer` and merges one pair per step; a token is its
piece, because `PieceIndex` shows the lookups exact.  `GreedyArgmax` has a program
counter per thread and every order of merging; scores are ranks with NaN and
-INFINITY.  `Sampler` uses whole weights and exact fractions where the code rounds in
double; NaN is left out.

## 3. Runs

| run | bounds | states | what it shows |
|---|---|---|---|
| executor | 3 slots, nesting 2, 4 submits | 138 000 | invariants, refinement of `JobQueue`, every job finishes |
| generate | 8 slots, reserve 6, 4 per step, 3 tokens, 3 words, 2 loads, 2 requests | 51 000 | capacity, replay, reasons, client view, every call returns |
| native_session | context 4, default window 2, INT_MAX 5, 2 tokens, 2 loads, 4 requests | 690 000 | invariants, refinement of `DecodeSession` |
| server | buffer 10, 2 clients, 2 messages, 16 requests, SIGPIPE | 40 000 | framing independent of the network, refusals, event stream, a queued client is accepted |
| weight_stage | 3 layers (2 recurrent), window 3, 2 loads, 3 requests | 10 000 | own weights, recurrent state in step |
| runtime | 2 runtimes, 5 packs, 4 kinds of device, 4 calls | 83 000 | native answers come from the accepted model and are traced so |
| tokens | one of six tasks, below | 1 430 000 | each computation against its definition |
| model_files | one of four tasks, below | 3 730 000 | what is read is what was written; what is admitted fits |
| generate_replay | 12 slots, reserve 8, llama path, 6 words | violation | finding 1 |
| native_window | 3 tokens, 2 requests | violation | finding 2 |
| tokens_long | 4 pieces for a word of 16 bytes | violation | finding 3 |
| files_scaled | two keys with context_length | violation | finding 4 |

| task | bounds | states | what is compared |
|---|---|---|---|
| encode | texts of 5 from 6 characters, 4 tokens | 79 000 | round trip, special tokens whole |
| merge | words of 6 from 2 letters, all lists of 3 merges | 417 000 | the merge of GPT-2 |
| cut | texts of 4 from 11 characters, 3 dialects | 176 000 | cuts of the regular expression, an end |
| index | 3 pieces, 2 merge lines, all hash values | 694 000 | lookups exact, tables never full |
| argmax | 5 rows, 2 chunks, up to 3 threads, 4 scores | 52 000 | the choice is the sequential one |
| sample | 4 tokens, weights up to 3, 6 values of top_p, 7 draws | 15 000 | smallest set, fair draws |
| manifest | 5 000 documents | 71 000 | order of members does not matter |
| gguf | 3 of 17 entries, 4 tensor tables, every cut | 2 900 000 | truncation noticed, fields from their keys |
| budget | 3 files, 4 memory sizes, 6 calls, 12-bit sizes, MB = 64 | 10 000 | what is admitted and what is held fit |
| chat | templates of 4 from 9 symbols and 4 longer, 8 conversations, 3 sizes | 737 000 | written whole or refused for cause |

Why the bounds are enough.  The executor's interesting cases need a live job
behind a terminal one and a compaction while a callback runs, that is three slots,
two activations and one more submit than slots.  In `Generate` the real numbers
(256 slots, reserve 64, 4 per step) are scaled to 8, 6 and 4: what counts is that
a request needs 4 front jobs, 2 per token and 2 at the end, that the reserve
covers the front and that a step's reserve covers a step and the end; the
array then fills and is reclaimed in the middle of a request, at its start,
and never, all of which the run reaches.  `GenerateAssumption` states what the
constants must satisfy (5 <= Reserve, 4 <= StepReserve).  In `NativeSession` a
context of 4 with a default window of 2 gives windows that hold, that grow and
that cannot grow; four requests are what it takes to lose the cache under a hidden
state: one that decodes, one whose prefill stops between two layers, one whose
larger window cannot be allocated, and the one that then finds the prefill skipped.
With an INT_MAX of 5 the sum of prompt and `max_tokens` wraps around for the longest of
the requests and is exact for all others.

The buffer of `Server` holds the largest request that fits and misses the next by
one byte; two clients make one wait while the other is served.  In `Budget` sizes have 12 bits, so that one of the files overflows them, and
the memory sizes admit all, some or no windows.  Five rows in chunks of three give
`GreedyArgmax` one chunk that is shared by threads and one that is not.  The hash
values of `PieceIndex` are every function to the last slot and the first, which makes
walks that collide and wrap around.  `Tokenizer` has a vocabulary with a piece for
every byte; in the run `tokens` every word fits in the array of pieces, and
`tokens_long` has the ratio of the code's two buffers.  `MergesLikeGpt2` is checked
for merge lists in which no piece is made in two ways: where two are, joining one pair
at a time is a choice of its own.  The templates of `ChatTemplate` contain every
wrong nesting of four marks; the longer ones are the shapes model packs use.  In
`GgufLoad` and `Manifest` three entries (or five members) in every order are enough
to have every pair of keys both ways round.

`CHECK_DEADLOCK FALSE` appears where the system may stop: the number of calls or
clients is bounded and an idle runtime that nobody calls stops, and a parser or a
sampler has an end.

Fairness.  `Executor!FairSpec` assumes that `run_next` keeps being called while
something is pending and that callbacks return: `run_scheduled_job_ex` calls
run_next after every submit, on the same thread.  `Generate!FairSpec` assumes
weak fairness of the steps inside a call and nothing of the calls: a call runs on
the caller's thread until it returns.  No fairness is assumed of success.
`Server!FairSpec` assumes weak fairness of the server's own steps (its loop never
waits but for a client), of `recv` returning bytes that have arrived, and that a
client that was accepted sends its request or stops: `recv` has no timeout, and a
client that does neither keeps the server for ever.  `WaitingIsServed` leaves one way
out besides, the end of the process by SIGPIPE.  The other runs state no fairness;
that the scanner of the tokenizer ends is the invariant `SplitsEverything` (before the
end of a text some branch applies, and each branch moves on).

### Findings

Each has a run that expects a violation; PROJECT.json quotes the line the code
disagrees with.

1. *Replay* (`generate_replay`).  `emit_stream_token_jobs` (runtime.c:665) leaves
   one free slot, two jobs follow and none of them reclaims.  On the llama path a
   long text can therefore be streamed completely and the call still return 0,
   because `collect_telemetry` meets a full queue of completed jobs.  Only API
   users can ask for that path; no command passes it to the runtime.  `load_model`
   (runtime.c:790) submits without that reclaim too, so a reload after enough requests
   is refused by completed jobs: `TerminalJobsMakeRoom` is violated with `LlamaOnly`
   replaced by `NativeOnly`, 9 slots, 2 loads and 3 requests as well.
2. *Window* (`native_window`).  `ensure_window` (native.c:1477) does not replace a
   cache whose `seq_len` is above 0, and nothing resets it after a request.  A
   request beyond the current window fails until the model is loaded again,
   though it fits the context; `kv_cache.h:11` promises the growth.
3. *Long word* (`tokens_long`).  A word of more than 256 mapped characters loses
   its end without an error (tokenizer.c:559).
4. *Scaled context* (`files_scaled`).  `rope.scaling.original_context_length`
   overwrites `context_length` when it comes later in the file (gguf.c:94).

### Other limits met while modelling

These are expectations a reader may have and the code does not meet.  Each is stated
as a definition of its module and is in no run; added to the run named here (for
`MCModelFiles` as a definition `task = "..." => ...`, and `StaysResident` as a
PROPERTY), TLC finds the behaviour.

| expectation | run | what the code does |
|---|---|---|
| `NativeSession!AdmittedFitsContext` | native_session | `needed = n_prompt + n_new` (native.c:1444) wraps for a `max_tokens` near INT_MAX (server.c:493 passes it on unclamped), and the request is admitted with the smallest window |
| `Server!WholeConversation` | server | `parse_chat_messages` (server.c:397) counts braces inside texts too, and a message with an unmatched one reduces the conversation to its first content; messages beyond the 48th are dropped |
| `Server!StaysResident` | server | on POSIX the second send to a client that has left (server.c:191) ends the process |
| `WeightStage!LayersStayBound` | weight_stage | after a prefill the pointers of all layers but the last point at other layers' bytes (native.c:909); only `dump_logits` reads them then, everything else loads a layer before using it |
| `Runtime!DeviceOfBackend` | runtime | the native override of a decision leaves the NPU as the device in the trace (scheduler.c:612) |
| `Runtime!TemplateOfModel` | runtime | a refused load leaves its template to the model before it (runtime.c:778) |
| `Runtime!BootstrapRunsManifest` | runtime | the llama path runs the artifact bound last in the process (backend.c:387) |
| `Runtime!CompareRunsNamedModel` | runtime | compare goes on with what is left of a refused manifest (main.c:418) |
| `Budget!WithinLimit` | model_files, task budget | the plan counts 64 positions of scratch, a prefill allocates for its whole prompt (native.c:2119) |
| `Budget!ReportsScratch` | model_files, task budget | `edgexpu_native_memory_bytes` leaves the decode workspace out (native.c:1241) |
| `Manifest!NullIsNone` | model_files, `Documents <- NullCommand` | a `command` that is null, which the schema allows, is read as the name of the next member (manifest.c:84) |
| `Manifest!OnlyThePrimary` | model_files, `Documents <- TwoArtifacts` | optional fields that the first artifact leaves out are taken from a later one (manifest.c:74) |
| `ChatTemplate!CopiedWithoutPlace` | model_files, task chat | a template with `{{system}}` alone is used although the header says the user's text is copied then (chat.c:171) |

## 4. Proofs

All theorems hold for every value of the constants that satisfies the named
assumption of the module.

**Executor** (`ExecutorAssumption`: lengths are natural numbers, the array is not
empty).  `AtMostOnce` and `RunningIffActive` are not inductive: a second begin is
excluded because a pending job is not in `begun`, and that a marking by
identifier hits the right slot because identifiers grow with the slot.  `IInv`
adds exactly these: `SlotsInOrder`, `IdsGivenOut`, `BegunGivenOut`,
`PendingNotBegun`, `StackDistinct`.  `SlotUnique` and `MarkUpdatesSlot` turn
marking by identifier into the update of one slot; `StartMovesSlot` and
`ReturnMovesSlot` say what the two halves of `run_job` do to it; then one lemma
per action.  From `IInv`: `ExecutorTypeOK`, `JobsBegunAtMostOnce`,
`RunningJobsAreActive`, `ExecutorImplementsJobQueue`, where each action is
mapped to an action of `JobQueue`, and `ExecutorJobsMoveForward`: of two consecutive
arrays, a live job of the first is in the second, and a job that had ended keeps its
status, because identifiers determine slots before and after the step.

**NativeSession** (`SessionAssumption`: a context and a default window of at least 1).
`IInv` has two parts.  `OriginInv` says where the contents come from: in the decode
loop the cache and `token_ids` are equally long (`CacheHoldsIds`), `last_hidden` is the
one of the last occupied position (`HiddenIsLast`), and the properties of the run.
It holds for whatever window was admitted, because prefill and decode test the window
they find (native.c:2120 and 2626), so none of these theorems needs
`prompt + max_tokens` to stay below INT_MAX.  `RoomLeft` (what was admitted minus what was
decoded still fits) and `AdmittedRunsToEnd` do depend on that sum and hold except where it
wraps (`Overflows`), which is `AdmittedFitsContext` seen from the other side.
`WindowIsAdmitted` is the heart of this part: what ensure_window leaves has room for
prompt + max_tokens.  Each invariant of the run is a theorem of its own.

**Generate** (`GenerateAssumption`: the reserve of a request covers the jobs before
its loop, that of a step a step and the end, and both fit in the queue; the real 64
and 4 of 256 do).  The queue of `Generate` is an instance of `Executor`, so its part of `IInv` is
`Exec!IInv` and is kept by citing the step lemmas of `ExecutorProofs`, instantiated
with depth 1; `SubmitStep`, `EnterStep`, `ReturnStep` and `ReclaimStep` say what those
steps do to the number of jobs.  The properties of the run hold at the states they
name only, so `IInv` says what connects these states: `OwnStages` (which stage
belongs to which path), `TokensSoFar` and `WordsSoFar` (how far the loop or the
replay is), `InCall`, `EveryJobCalls`, `SentBelow`.  Six theorems state its
conjuncts; then `GenerateDrivesExecutor` and `GenerateKeepsSession` show that a
request is a behaviour of the executor and of `DecodeSession`, so what is proved of
these holds underneath, and `GenerateImplementsCompletion` the client's view.

**GreedyArgmax** (`ArgmaxAssumption`: a chunk is not empty and a team has a thread).
`BestOf(rows, row, s)` is the meaning of a partial result: the lowest row with the
greatest score, or row 0 when every score is -INFINITY or worse.  `ArgmaxInv` says
it of each thread over the part of its share it has scanned and of the shared result over all
shares merged (`MergedShares`).  `Shares` and `SharesCover` show that the static schedule
cuts a chunk into disjoint shares that cover it, `BestWithRow` and `BestWithShare` how a
row or a share changes the result.  `PlainScan`, the build without threads, is
recursive; `PlainScanBest` gives it the same meaning, and `BestUnique` makes the two
equal: `ArgmaxSameAsPlainBuild`, and `ArgmaxGreedyExact`, the same as the run states it.

**PieceIndex** (`IndexAssumption`: the two initial capacities are not 0, a merge line
is two pieces or malformed).  Nothing is assumed of the hash functions.  `Probed` is what linear
probing leaves: an entry is in reach of its home slot (no slot on the way is empty), of two
entries with one home the earlier is nearer, and numbers differ.  `PiecesEntered` and
`PairsEntered` say that the slots hold exactly the entries so far, `Probed`.
`WalkIsReach` gives the meaning of a walk, `ProbedWithEntry` says that an entry put into the first
empty slot keeps `Probed`, and `SlotIsLeft` (by counting: a table larger than the number of its
entries) that there is one.  Then `LookupIsFirstId` and `PairIsFirstLine` turn the walks
of the lookups into the reference definitions, which search the arrays: the first
identifier of a piece that occurs twice, the rank of the first line of a pair.
`PowerReaches` is about the loop that doubles the size, which ends for every size.

**Sampler** (`SamplerAssumption`: there is a token, and a random number and top_p have parts).
`SampleInv` says that the walk meets every token once (`Arranged`) and where it may end
(`Cutting`): behind the first token with which the sum reaches top_p, or behind the last one.
The sum after i steps is the mass of the tokens walked (`WalkedMass`).  `HeaviestSet` is
the heart of the first part: the first k tokens of the sorted order are a heaviest set of k,
because what another set has in exchange for a token of theirs weighs no more than the last of them
(`MassAtMost`, `MassAtLeast`).  For the second part `PickedBy` gives each token the random
numbers between two neighbouring sums, and `CountShare` counts them.  The third rests on
`KeptMass`, that what is kept never weighs 0.  The numbers are exact, as in the module: nothing
is proved about rounding.

**Runtime** (`RuntimeAssumption`).  `RunsAcceptedModel` is inductive with the part
of `TypeOK` that relates the flags: a session is only of a loaded runtime, a
cache only of a session.  `TraceNamesExecutor` rests on `PlanNamesNative`, a
lemma about `Scheduler`: the override of `plan_job` names cpu.native for every
manifest, device and telemetry a native request can meet.

**Budget** (`BudgetAssumption`: sizes are natural numbers and the two products with
the megabytes of the device do not wrap; `RowsFit`: two sums that are not saturated, scheduler.c:231
and 364, do not wrap either, which numbers of 32 bits in a file give on a machine with a `size_t`
of 64).  `TotalCapped` is the heart: whatever saturates on the way, the total of a plan is the exact
sum or SIZE_MAX, so that what is below the limit is exact.  `CappedProduct` and
`CappedSum` say it of one operation, `WeightsCapped`, `KvCapped` and
`ScratchCapped` of the parts.  `BudgetInv` adds `PlanOfModel` (the plan held is the one of the
loaded file, for the window that was asked for last) to `HeldWindowFits`.  `MCModelFiles` assumes
both of its files.

**ChatTemplate** (`ChatAssumption`: templates and texts are sequences over one alphabet, and
both buffers have room for a terminator).  `PromptWhole` compares the output of the cursor,
which looks ahead for the end of a section, with `Parts`, what each symbol of the
template stands for when it is read from left to right with no look ahead (`Mode`).
`ChatInv` says that the template is outside of its sections in front of the cursor and that
the output is the parts up to there, joined.  `Appended` is the meaning of all the
writing: the output is extended by a text whole, or what it would have become does not
fit; `TextAppended` and `BothAppended` give it to one text and to two in a row,
`AllAppended`, `SectionAppended` and `TurnsAppended` to the loops.  `ClosedSection` makes the
look ahead and the modes agree on where a section ends, and `WriteKeeps` does what all the
actions share: a refusal is for want of room because joins only grow (`JoinsGrow`).
That the user's text arrives is about the parts alone: `InsideTurns` finds the section a
mark stands in, and `JoinsHold` that each part is in the whole.

**Server** (`ServerAssumption`).  `ChunkingIrrelevant` needs that no more bytes are
received than the client has sent (`BytesOfRequest`).  `StreamTellsGeneration` and the
refinement of `EventStream` need that nothing is sent before the decision and that
what a client that stayed was sent is well-formed and as far as the stage says
(`AnswerInProgress`): at the end of the generation it is the opening and one chunk per
token, so the ending completes it.  `StepImplementsStream` takes the actions one by one:
a send is a chunk of the stream that may follow or is lost after the client has
left, `Close` ends a complete answer, the rest stutters.  `ServerAsksLeadingMessages` has the
hypothesis `FlatMessages` (messages are objects without objects in them, with one
content each), without which it is false: an unmatched brace in a text, or two
contents in an object, change what the scan takes for a message.  `MCServer` assumes it of
its requests.  Its proof is about the scan itself: `ScanStep`, position by position, says that what
the scan has collected and what is left in its buffer are the texts so far or their
first `MaxMessages`; then `TextsPrefix` says that the texts of a body that was cut
off are the first texts of the whole body.

**WeightStage** (`WeightStageAssumption`: a staged tensor has a byte, a layer a
tensor).  `AlignedBounds`, `OffsetsInOrder` and `RegionsDisjoint` are the layout: regions of one
layer never overlap.  `StageBytesBound` gives the buffer its size and with it
`CopiedIsOwn`, the content after a load.  `IInv` adds to the properties what a pass
relies on: prefill has begun the cache and the states anew, and the layers
behind it have taken in the prompt (`PrefillAnew`); decoding serves a request with
room in the window (`DecodeServes`); the buffer is the one that was allocated
(`StageAllocated`).  `FailurePreserves` covers every failure at once: nothing is
served after it.  `WeightStageSuffices` has the hypothesis `PaddingFits`, a fact about
the model file and not about the code: the size adds up unaligned tensors, and only the norms, which
are not staged, leave room for the alignment.  `PaddingFitsByNorms` shows that Align
- 1 unstaged bytes per staged tensor are enough; `MCWeightStage` assumes
`PaddingFits` of its layers, one of which it fits exactly.

**GgufLoad** (`GgufAssumption`: a value is of its entry's type and a key occurs in itself).
`RunOfCalls` is the meaning of a list of reads and skips: all of it has been passed, or it
contains what the loader does not support, or the file is too short for it.  `GgufInv` says
where the stream stands (`StreamInStep`): where the parts read so far end.  A skip may
leave it outside of the file, but a tensor's last call is a read (`CallsOfTensor`), so that after
the last tensor it is inside, which is why a file without tensors is left out of the
property.  The second half, that each field comes from the entry of its name, has the
hypothesis `KeysApart`, without which it is false (`ContextIsTheModels`); for the pair of names it
allows to nest, the order in which apply_gguf_u32_key asks decides (`FieldOfKey`).
`MCModelFiles` assumes `KeysApart` of its usual files; the ones of `files_scaled` violate it.

**Recursion.**  The provers cannot apply an induction rule to a formula.
`BoundedRecursion` states induction for membership in a set, proved by a least
counterexample, and recursion for a step function, so that `PlainScan`, the scan of
a body, the sums of sizes, lengths and weights, the doubling of a table's size and the loops over a template
and its messages can be unrolled and reasoned about.

Each of these invariants was model-checked on the instance of its module's run before it was
proved (of `GreedyArgmax`, `PieceIndex`, `Sampler`, `GgufLoad`, `Budget` and `ChatTemplate` in the
tasks argmax, index, sample, gguf, budget and chat).  In `Executor` and `NativeSession` it
is an invariant of the run; elsewhere the run states the conjuncts that are
properties, and the invariant can be added to the `INVARIANTS` of its cfg.
The SMT encoding of the prover takes `Len(f) = n` to mean `DOMAIN f = 1 .. n` for every
function f.  Functions on 0 .. n are therefore kept out of steps that speak of
lengths, and the SMT steps of all the modules above were checked again with that axiom restricted
to sequences.

Only model-checked:

- liveness (`EveryJobFinishes`, `CallReturns`, `WaitingIsServed`), which is out of the
  prover's reach;
- what `Tokenizer` and `Pretokenizer` compute (`MCTokens`) and what `Manifest` reads
  (`MCModelFiles`): recursion over data, compared with reference definitions that
  recurse differently, which takes an induction of its own for each pair;
  `SplitsEverything`, that no text leaves the scanner stuck, is also about ENABLED.

## 5. Not modelled, and the plan

Not modelled, and why:

- the arithmetic of the kernels, the quantised blocks and the layers: no state, and
  floating point is out of TLC's reach;
- the profiler and the commands other than compare: input and output around the
  calls that are modelled;
- the architecture tables: constants, and a registry that is filled once;
- the self test, inspect and dump commands of `native.c`;
- failing allocations in the tokenizer and in the GGUF loader: they end the load, but
  for those of the tables of the piece index other than `vocab_hash` and
  `pair_hash_used` (tokenizer.c:470), which the code does not look at;
- the roles of a conversation on its way through the server, and the length at which
  the server cuts a content off (server.c:413); what `chat.c` makes of roles and
  lengths is in `ChatTemplate`;
- the 32-bit product of the feed-forward width a file does not name (scheduler.c:348):
  it wraps from an embedding of 2^30 on;
- the command line and the text that comes back from a llama child process;
- numbers of a request other than `max_tokens`, the wording of answers and logs.

Left to do, most important first:

1. `NativeSession` under `Generate`: the composition of the two refinements as one
   theorem.
