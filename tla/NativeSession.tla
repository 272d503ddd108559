---------------------------- MODULE NativeSession ----------------------------
(***************************************************************************)
(* The native decode session (native.c), its KV cache (kv_cache.c) and the *)
(* callbacks of runtime.c that drive them: tokenize, prefill, decode and   *)
(* update_kv of one request after the other on one session.                *)
(*                                                                         *)
(* The session outlives its requests: KV slots, last_hidden, token_count,  *)
(* the window and the decode workspace stay as the last request left them, *)
(* also when it failed half way.  Numbers of vectors are replaced by where *)
(* they come from: a slot and last_hidden name the request that wrote them.*)
(* The job queue around the callbacks is module Generate.                  *)
(***************************************************************************)
EXTENDS Integers

CONSTANTS
  Context,        \* gguf.context_length
  DefaultWindow,  \* EDGEXPU_KV_DEFAULT_MAX_SEQ (256)
  IntMax,         \* INT_MAX
  Paths,          \* request.cpu_path values that requests use
  MaxNew,         \* bound: request.max_tokens
  MaxLoads,       \* bound: calls of load_model
  MaxRequests     \* bound: requests

AutoPath   == "auto"
NativePath == "native"
LlamaPath  == "llama"

ASSUME SessionAssumption ==
  /\ Context \in Nat \ {0} /\ DefaultWindow \in Nat \ {0}
  /\ MaxNew \in Nat \ {0} /\ IntMax \in Nat
  /\ Context <= IntMax /\ MaxNew <= IntMax
  /\ Paths \subseteq {AutoPath, NativePath, LlamaPath}
  /\ MaxLoads \in Nat /\ MaxRequests \in Nat

VARIABLES
  runtime_loaded,   \* runtime->loaded: a load has succeeded once
  loaded,       \* session->loaded
  kv,           \* session->kv: k is allocated, max_seq, seq_len
  slots,        \* for each position, the request that wrote its K and V, 0 none
  hidden,       \* last_hidden: the request and the positions it was computed from
  token_count,  \* session->token_count
  generated,    \* session->generated_tokens
  scratch,      \* cap_seq of the decode workspace, 0 before it is allocated
  pc,           \* the callback the current request is at
  request,      \* the current request: its number, path, max_tokens
  produced,     \* tokens the request has decoded
  sample,       \* history: what the last sampled token was computed from
  outcome,      \* how the last call ended
  loads         \* bound: load_model calls so far

held    == <<runtime_loaded, loaded, kv, slots, hidden, token_count, generated, scratch>>
serving == <<request, produced, sample, loads>>
vars    == <<held, serving, pc, outcome>>

Least(a, b) == IF a <= b THEN a ELSE b

\* int arithmetic, as the usual build wraps it.
AsInt(n) == IF n > IntMax THEN n - 2 * (IntMax + 1) ELSE n

Positions == 1 .. Context
NoCache   == [k |-> FALSE, max_seq |-> 0, seq_len |-> 0]
Cache(n)  == [k |-> TRUE, max_seq |-> n, seq_len |-> 0]
NoHidden  == [by |-> 0, at |-> 0]
Unwritten == [p \in Positions |-> 0]

\* native_decode_ready: a hidden state comes with its layers.
Ready == hidden # NoHidden

Init ==
  /\ runtime_loaded = FALSE /\ loaded = FALSE
  /\ kv = NoCache /\ slots = Unwritten /\ hidden = NoHidden
  /\ token_count = 0 /\ generated = 0 /\ scratch = 0
  /\ pc = "idle"
  /\ request = [id |-> 0, path |-> AutoPath, max_new |-> 1]
  /\ produced = 0
  /\ sample = [by |-> 0, from |-> NoHidden, len |-> 0]
  /\ outcome = "none"
  /\ loads = 0

Return(what) == pc' = "idle" /\ outcome' = what
Goto(where)  == pc' = where /\ UNCHANGED outcome

-----------------------------------------------------------------------------
\* edgexpu_native_load: everything of the old session is freed first.
\* A model without attention layers gets no cache.
LoadModel(attention) ==
  /\ pc = "idle" /\ loads < MaxLoads
  /\ loads' = loads + 1
  /\ runtime_loaded' = TRUE /\ loaded' = TRUE
  /\ kv' = IF attention THEN Cache(Least(DefaultWindow, Context)) ELSE NoCache
  /\ slots' = Unwritten /\ hidden' = NoHidden
  /\ token_count' = 0 /\ generated' = 0 /\ scratch' = 0
  /\ Return("loaded")
  /\ UNCHANGED <<request, produced, sample>>

\* Mutant of LoadFails: last_hidden is not freed with the rest.
LoadFailsKeepsHidden ==
  /\ pc = "idle" /\ loads < MaxLoads
  /\ loads' = loads + 1
  /\ loaded' = FALSE /\ kv' = NoCache /\ slots' = Unwritten
  /\ token_count' = 0 /\ generated' = 0 /\ scratch' = 0
  /\ Return("load_failed")
  /\ UNCHANGED <<runtime_loaded, hidden, request, produced, sample>>

\* Any step of the load fails: the partly built session is freed as well.
LoadFails ==
  /\ pc = "idle" /\ loads < MaxLoads
  /\ loads' = loads + 1
  /\ loaded' = FALSE /\ kv' = NoCache /\ slots' = Unwritten /\ hidden' = NoHidden
  /\ token_count' = 0 /\ generated' = 0 /\ scratch' = 0
  /\ Return("load_failed")
  /\ UNCHANGED <<runtime_loaded, request, produced, sample>>

\* A load that does not reach edgexpu_native_load: the old session stays.
LoadRefused ==
  /\ pc = "idle" /\ loads < MaxLoads
  /\ loads' = loads + 1
  /\ Return("load_failed")
  /\ UNCHANGED <<held, request, produced, sample>>

\* generate_stream: runtime.loaded stays 1 after a reload that failed.
Generate(path, max_new) ==
  /\ pc = "idle" /\ runtime_loaded /\ request.id < MaxRequests
  /\ request' = [id |-> request.id + 1, path |-> path, max_new |-> max_new]
  /\ produced' = 0
  /\ pc' = "tokenize" /\ outcome' = "none"
  /\ UNCHANGED <<held, sample, loads>>

-----------------------------------------------------------------------------
\* tokenize_job_callback: id_count is written only when the ids fit.
Tokenize(n) ==
  /\ pc = "tokenize" /\ loaded
  /\ IF n <= Context THEN token_count' = n /\ Goto("prefill")
                     ELSE Return("prompt_too_long") /\ UNCHANGED token_count
  /\ UNCHANGED <<runtime_loaded, loaded, kv, slots, hidden, generated, scratch, serving>>

TokenizeSkipped ==
  /\ pc = "tokenize" /\ ~loaded
  /\ Goto("prefill")
  /\ UNCHANGED <<held, serving>>

-----------------------------------------------------------------------------
\* edgexpu_native_ensure_window computes prompt + max_tokens in int.
Sum == AsInt(token_count + request.max_new)

\* Mutant of Needed: the window is admitted for the prompt only.
NeededForPrompt == IF token_count < 1 THEN 1 ELSE token_count

Needed == IF Sum < 1 THEN 1 ELSE Sum

InContext  == Sum <= Context
WindowHeld == kv.max_seq >= Needed
Occupied   == kv.seq_len > 0

AtPrefill == pc = "prefill" /\ loaded /\ kv.k

WindowTooLong ==
  /\ AtPrefill /\ ~InContext
  /\ Return("over_context")
  /\ UNCHANGED <<held, serving>>

\* The scheduler does not admit the memory the window takes.
WindowNotAdmitted ==
  /\ AtPrefill /\ InContext
  /\ Return("not_admitted")
  /\ UNCHANGED <<held, serving>>

WindowCannotGrow ==
  /\ AtPrefill /\ InContext /\ ~WindowHeld /\ Occupied
  /\ Return("cannot_grow")
  /\ UNCHANGED <<held, serving>>

\* kv_cache_allocate frees the old buffers before it asks for the new ones.
WindowAllocationFails ==
  /\ AtPrefill /\ InContext /\ ~WindowHeld /\ ~Occupied
  /\ kv' = NoCache /\ slots' = Unwritten
  /\ Return("no_memory")
  /\ UNCHANGED <<runtime_loaded, loaded, hidden, token_count, generated, scratch, serving>>

\* The window the prefill then runs in, and what its slots hold.
WindowReady == AtPrefill /\ InContext /\ (WindowHeld \/ ~Occupied)
Window      == IF WindowHeld THEN kv ELSE Cache(Needed)
WindowSlots == IF WindowHeld THEN slots ELSE Unwritten

\* The slots of positions 1 .. n of the window written by a request; by = 0 when
\* the pass stopped between two layers.
Filled(n, by) == [p \in Positions |-> IF p <= n THEN by ELSE WindowSlots[p]]

AtForward == WindowReady /\ request.path # LlamaPath
SeqFits   == token_count > 0 /\ token_count <= Window.max_seq

\* No token, no room, or no memory for the work buffers: nothing is written.
PrefillRefused ==
  /\ AtForward
  /\ kv' = Window /\ slots' = WindowSlots
  /\ Return("prefill_failed")
  /\ UNCHANGED <<runtime_loaded, loaded, hidden, token_count, generated, scratch, serving>>

\* A layer cannot be loaded: the cache is already reset, last_hidden is the old one.
PrefillFailsInLayers ==
  /\ AtForward /\ SeqFits
  /\ kv' = [Window EXCEPT !.seq_len = 0] /\ slots' = Filled(token_count, 0)
  /\ Return("prefill_failed")
  /\ UNCHANGED <<runtime_loaded, loaded, hidden, token_count, generated, scratch, serving>>

OwnHidden(at) == [by |-> request.id, at |-> at]

\* All layers are through, and last_hidden cannot be allocated or is not finite.
PrefillFailsAtEnd ==
  /\ AtForward /\ SeqFits
  /\ kv' = [Window EXCEPT !.seq_len = token_count]
  /\ slots' = Filled(token_count, request.id)
  /\ generated' = 0
  /\ hidden' \in {NoHidden, OwnHidden(token_count)}
  /\ Return("prefill_failed")
  /\ UNCHANGED <<runtime_loaded, loaded, token_count, scratch, serving>>

\* Mutant of PrefillDone: the cache is not reset.
PrefillWithoutReset ==
  /\ AtForward /\ SeqFits /\ Window.seq_len + token_count <= Window.max_seq
  /\ kv' = [Window EXCEPT !.seq_len = @ + token_count]
  /\ slots' = Filled(token_count, request.id)
  /\ generated' = 0
  /\ hidden' = OwnHidden(token_count)
  /\ Goto("decode")
  /\ UNCHANGED <<runtime_loaded, loaded, token_count, scratch, serving>>

PrefillDone ==
  /\ AtForward /\ SeqFits
  /\ kv' = [Window EXCEPT !.seq_len = token_count]
  /\ slots' = Filled(token_count, request.id)
  /\ generated' = 0
  /\ hidden' = OwnHidden(token_count)
  /\ Goto("decode")
  /\ UNCHANGED <<runtime_loaded, loaded, token_count, scratch, serving>>

\* The llama path only takes the positions: edgexpu_native_reserve_kv.
ReserveKv ==
  /\ WindowReady /\ request.path = LlamaPath
  /\ slots' = WindowSlots
  /\ IF token_count <= Window.max_seq
     THEN kv' = [Window EXCEPT !.seq_len = token_count] /\ Goto("llama")
     ELSE kv' = [Window EXCEPT !.seq_len = 0] /\ Return("prefill_failed")
  /\ UNCHANGED <<runtime_loaded, loaded, hidden, token_count, generated, scratch, serving>>

\* Without a model or a cache the prefill job succeeds and does nothing; the
\* native loop is entered when an old hidden state is still there.
PrefillSkipped ==
  /\ pc = "prefill" /\ ~(loaded /\ kv.k)
  /\ IF request.path = LlamaPath THEN Goto("llama")
     ELSE IF Ready THEN Goto("decode") ELSE Return("not_ready")
  /\ UNCHANGED <<held, serving>>

-----------------------------------------------------------------------------
\* Mutant of WindowSpent: the window is not looked at, only token_ids.
IdsSpent == token_count >= Context

\* The test generate_next makes before it samples; token_ids has Context entries.
WindowSpent == kv.seq_len >= kv.max_seq \/ token_count >= Context

AtDecode == pc = "decode" /\ produced < request.max_new

OutOfWindow ==
  /\ AtDecode /\ WindowSpent
  /\ Return("out_of_window")
  /\ UNCHANGED <<held, serving>>

Sample == sample' = [by |-> request.id, from |-> hidden, len |-> kv.seq_len]

\* The logits buffer cannot be allocated.
SampleFails ==
  /\ AtDecode /\ ~WindowSpent
  /\ Return("decode_failed")
  /\ UNCHANGED <<held, serving>>

EndOfSequence ==
  /\ AtDecode /\ ~WindowSpent
  /\ Sample
  /\ Goto("update_kv")
  /\ UNCHANGED <<held, request, produced, loads>>

\* Mutant of EnsureScratch: the workspace is kept whatever its cap_seq.
KeepScratch == IF scratch > 0 THEN scratch ELSE kv.max_seq

\* ensure_decode_scratch: cap_seq after it succeeds.
EnsureScratch == IF scratch >= kv.max_seq /\ scratch > 0 THEN scratch
                 ELSE IF kv.max_seq > 0 THEN kv.max_seq ELSE 1

\* forward_decode_token: K and V go to the slot past seq_len, then last_hidden,
\* seq_len, token_ids.
DecodeToken ==
  /\ AtDecode /\ ~WindowSpent
  /\ Sample
  /\ scratch' = EnsureScratch
  /\ slots' = [slots EXCEPT ![kv.seq_len + 1] = request.id]
  /\ hidden' = OwnHidden(kv.seq_len + 1)
  /\ kv' = IF kv.k THEN [kv EXCEPT !.seq_len = @ + 1] ELSE kv
  /\ token_count' = token_count + 1
  /\ generated' = generated + 1
  /\ produced' = produced + 1
  /\ UNCHANGED <<runtime_loaded, loaded, pc, request, outcome, loads>>

\* The workspace cannot be allocated, or a layer cannot be loaded on the way.
DecodeFails ==
  /\ AtDecode /\ ~WindowSpent
  /\ Sample
  /\ scratch' \in {0, EnsureScratch}
  /\ slots' = [slots EXCEPT ![kv.seq_len + 1] = 0]
  /\ Return("decode_failed")
  /\ UNCHANGED <<runtime_loaded, loaded, kv, hidden, token_count, generated, request, produced, loads>>

LoopEnds ==
  /\ pc = "decode" /\ produced >= request.max_new
  /\ Goto("update_kv")
  /\ UNCHANGED <<held, serving>>

\* llama->generate does not touch the session.
LlamaGenerate(ok) ==
  /\ pc = "llama"
  /\ IF ok THEN Goto("update_kv") ELSE Return("llama_failed")
  /\ UNCHANGED <<held, serving>>

\* update_kv_job_callback; extra is completion_tokens_approx, at least 1.  After
\* a native request, or when one left its hidden state, it only looks.
UpdateLooks == generated > 0 \/ Ready

UpdateChecks ==
  /\ pc = "update_kv" /\ (loaded /\ kv.k => UpdateLooks)
  /\ Return(IF kv.seq_len > kv.max_seq THEN "over_window" ELSE "ok")
  /\ UNCHANGED <<held, serving>>

UpdateExtends(extra) ==
  /\ pc = "update_kv" /\ loaded /\ kv.k /\ ~UpdateLooks
  /\ IF extra <= kv.max_seq - kv.seq_len
     THEN kv' = [kv EXCEPT !.seq_len = @ + extra] /\ Return("ok")
     ELSE UNCHANGED kv /\ Return("over_window")
  /\ UNCHANGED <<runtime_loaded, loaded, slots, hidden, token_count, generated, scratch, serving>>

-----------------------------------------------------------------------------
Prefill ==
  \/ WindowTooLong \/ WindowNotAdmitted \/ WindowCannotGrow \/ WindowAllocationFails
  \/ PrefillRefused \/ PrefillFailsInLayers \/ PrefillFailsAtEnd \/ PrefillDone
  \/ ReserveKv \/ PrefillSkipped

Decode ==
  OutOfWindow \/ SampleFails \/ EndOfSequence \/ DecodeToken \/ DecodeFails \/ LoopEnds

Next ==
  \/ \E attention \in BOOLEAN : LoadModel(attention)
  \/ LoadFails \/ LoadRefused
  \/ \E path \in Paths, max_new \in 1 .. MaxNew : Generate(path, max_new)
  \/ \E n \in 0 .. Context + 1 : Tokenize(n)
  \/ TokenizeSkipped
  \/ Prefill
  \/ Decode
  \/ \E ok \in BOOLEAN : LlamaGenerate(ok)
  \/ UpdateChecks
  \/ \E extra \in 1 .. MaxNew : UpdateExtends(extra)

Spec == Init /\ [][Next]_vars

-----------------------------------------------------------------------------
TypeOK ==
  /\ runtime_loaded \in BOOLEAN /\ loaded \in BOOLEAN
  /\ kv \in [k : BOOLEAN, max_seq : 0 .. Context, seq_len : 0 .. Context]
  /\ kv.seq_len <= kv.max_seq
  /\ ~kv.k => kv = NoCache
  /\ kv.k => loaded
  /\ slots \in [Positions -> 0 .. MaxRequests]
  /\ hidden \in [by : 0 .. MaxRequests, at : 0 .. Context]
  /\ token_count \in 0 .. Context
  /\ generated \in Nat
  /\ scratch \in 0 .. Context
  /\ pc \in {"idle", "tokenize", "prefill", "decode", "llama", "update_kv"}
  /\ request \in [id : 0 .. MaxRequests, path : {AutoPath, NativePath, LlamaPath}, max_new : 1 .. MaxNew]
  /\ produced \in 0 .. MaxNew
  /\ sample \in [by : 0 .. MaxRequests, from : [by : 0 .. MaxRequests, at : 0 .. Context],
                 len : 0 .. Context]

\* Every token is sampled from a hidden state that the request it is for has
\* computed, over exactly the positions in the cache: never from what an earlier
\* request left behind when the prefill was skipped or failed half way.
TokensFromOwnPrompt ==
  sample.by # 0 => sample.from = [by |-> sample.by, at |-> sample.len]

\* In the decode loop all occupied slots were written by the current request.
AttentionOwnSlots ==
  pc = "decode" /\ kv.k => \A p \in 1 .. kv.seq_len : slots[p] = request.id

\* prompt + max_tokens of the current request is beyond INT_MAX; token_count grows
\* with the tokens produced.
Overflows == token_count - produced + request.max_new > IntMax

\* A request whose window was admitted decodes max_tokens tokens: it meets the
\* end of the window only when the cache was lost before, or the sum the window
\* was admitted by has wrapped.
AdmittedRunsToEnd == outcome = "out_of_window" => ~kv.k \/ Overflows

\* The workspace the scores of a decode step go to is as long as the sequence,
\* also when the window grew after the workspace was allocated.
ScoresFit == pc = "decode" /\ produced > 0 => kv.seq_len <= scratch

\* In the decode loop the cache and token_ids are equally long.
CacheHoldsIds == pc = "decode" /\ kv.k => kv.seq_len = token_count

\* The hidden state in the decode loop is the one of the last occupied position.
HiddenIsLast == pc = "decode" /\ kv.k => hidden = OwnHidden(kv.seq_len)

\* Where the contents come from, whatever window was admitted.
OriginInv ==
  /\ TypeOK
  /\ pc = "decode" => Ready
  /\ pc \in {"tokenize", "prefill"} => produced = 0
  /\ CacheHoldsIds
  /\ HiddenIsLast
  /\ AttentionOwnSlots
  /\ TokensFromOwnPrompt
  /\ ScoresFit

\* What the window was admitted for.
RoomLeft ==
  pc = "decode" /\ kv.k =>
    Overflows \/ token_count + (request.max_new - produced) <= kv.max_seq

\* The inductive invariant.
IInv ==
  /\ OriginInv
  /\ pc # "idle" => outcome = "none"
  /\ RoomLeft
  /\ AdmittedRunsToEnd

\* The runtime sees this session through two flags.
Flags == INSTANCE DecodeSession WITH session <- loaded, ready <- Ready

ImplementsDecodeSession == Flags!Spec

\* kv_cache.h: before inference the window is grown to prompt + max_tokens, up
\* to the context length.  A request within the context is not turned away
\* because an earlier one used a smaller window.
WindowGrows == outcome # "cannot_grow"

\* native.h: prompt + max_tokens beyond the context length is an error.
AdmittedFitsContext ==
  pc = "decode" /\ kv.k /\ produced = 0 => token_count + request.max_new <= Context
=============================================================================
