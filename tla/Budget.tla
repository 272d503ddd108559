------------------------------- MODULE Budget -------------------------------
(***************************************************************************)
(* The memory budget of the native path: the resource plan of scheduler.c  *)
(* and the session of native.c that asks for it before a load and before   *)
(* its KV cache grows.  Sizes are size_t: sums and products saturate where *)
(* the code saturates them and wrap where it does not.  Memory in use is   *)
(* followed next to the plan, in exact integers.                           *)
(***************************************************************************)
EXTENDS Integers

CONSTANTS
  SizeMax,      \* SIZE_MAX
  Float,        \* sizeof(float)
  MB,           \* bytes of a megabyte
  Chunk,        \* EDGEXPU_BUDGET_OUTPUT_CHUNK_BYTES
  ScratchSeq,   \* EDGEXPU_BUDGET_SCRATCH_SEQ (64)
  DefaultWindow,\* EDGEXPU_KV_DEFAULT_MAX_SEQ (256)
  Models,       \* GGUF files, as the sizes the plan is made from
  Memories,     \* profile.memory_total_mb of the devices, 0 unknown
  MaxSteps      \* bound: calls on the session

\* The fields of a file; `context` is native_context_length, which is never 0.
Files ==
  [file : 0 .. SizeMax, blocks : Nat, kv_layers : Nat, kv_heads : Nat, heads : Nat,
   head_dim : Nat, embd : Nat, ff : Nat, max_block : Nat, output : Nat, row : Nat,
   context : Nat \ {0}]

\* Assumed of the constants by the modules that extend this one.
BudgetAssumption ==
  /\ SizeMax \in Nat /\ Float \in Nat \ {0} /\ MB \in Nat \ {0} /\ Chunk \in Nat
  /\ ScratchSeq \in Nat \ {0} /\ DefaultWindow \in Nat \ {0} /\ MaxSteps \in Nat
  /\ Models \subseteq Files
  /\ Memories \subseteq Nat
  /\ \A mb \in Memories : mb * 85 <= SizeMax /\ mb * MB <= SizeMax

VARIABLES
  model,     \* the file of the session
  memory,    \* memory_total_mb
  disabled,  \* EDGEXPU_BUDGET_DISABLE is set
  session_loaded, \* session->loaded
  plan,      \* history: the last plan that was admitted
  window,    \* kv.max_seq, 0 without a cache
  seq_len,   \* kv.seq_len
  scratch,   \* cap_seq of the decode workspace, 0 before it is allocated
  prefill,   \* positions of the prefill that is running, 0 if none is
  steps      \* bound

budget_vars ==
  <<model, memory, disabled, session_loaded, plan, window, seq_len, scratch, prefill, steps>>

Least(a, b) == IF a <= b THEN a ELSE b
Greatest(a, b) == IF a >= b THEN a ELSE b

-----------------------------------------------------------------------------
Wrap(n) == n % (SizeMax + 1)

MulSize(a, b) == Least(a * b, SizeMax)
AddSize(a, b) == Least(a + b, SizeMax)

\* weight_working_heuristic: two average layers and a chunk, when no tensor of
\* the file names a block.
Heuristic(m) ==
  LET layers == IF m.blocks > 0 THEN Least(MulSize(m.file \div m.blocks, 2), m.file) ELSE m.file
      row == Wrap(m.embd * 16 + 256)
  IN IF m.file = 0 THEN AddSize(Chunk, row)
     ELSE AddSize(AddSize(layers, Least(Chunk, m.file)), row)

\* gguf_weight_working_set: the largest layer, a chunk of the output weights
\* and the longest row of the two tables.
WeightWorkingSet(m) ==
  LET chunk == IF m.output = 0 THEN Least(Chunk, m.file) ELSE Least(m.output, Chunk)
  IN IF m.max_block = 0 THEN Heuristic(m)
     ELSE AddSize(AddSize(m.max_block, chunk), m.row)

HeadDim(m) == IF m.head_dim > 0 THEN m.head_dim
              ELSE IF m.heads > 0 THEN m.embd \div m.heads ELSE 0
\* fill_native_plan multiplies in 32 bits; files stay far below embeddings of 2^30.
Ff(m) == IF m.ff > 0 THEN m.ff ELSE 4 * m.embd

KvBytes(m, w) ==
  MulSize(2, MulSize(m.kv_layers, MulSize(m.kv_heads, MulSize(HeadDim(m), MulSize(w, Float)))))

\* The floats one position needs, summed without saturation.
PerPosition(m) ==
  Wrap(Wrap(m.embd * 6) + Wrap(Ff(m) * 2) + Wrap(m.heads * HeadDim(m))
       + Wrap(2 * m.kv_heads * HeadDim(m)))

ScratchBytes(m, positions) == MulSize(positions, MulSize(PerPosition(m), Float))

\* fill_native_plan: 85% of the memory, without a limit when it is unknown.
Plan(m, w) ==
  LET weights == WeightWorkingSet(m)
      kv      == KvBytes(m, w)
      work    == ScratchBytes(m, Least(w, ScratchSeq))
      total   == IF SizeMax \in {weights, kv, work} THEN SizeMax
                 ELSE AddSize(AddSize(weights, kv), work)
      limit   == ((memory * 85) \div 100) * MB
  IN [window |-> w, total |-> total, limit |-> limit,
      bounded |-> limit > 0 /\ ~disabled,
      admitted |-> disabled \/ limit = 0 \/ total <= limit]

NoPlan == [window |-> 0, total |-> 0, limit |-> 0, bounded |-> FALSE, admitted |-> FALSE]

-----------------------------------------------------------------------------
\* The bytes the session holds, in exact integers.
KvHeld(w)     == 2 * model.kv_layers * w * model.kv_heads * HeadDim(model) * Float
Stage         == IF session_loaded THEN model.max_block ELSE 0
Workspace(n)  ==
  Float * n * (4 * model.embd + Greatest(model.embd, model.heads * HeadDim(model))
               + model.heads * HeadDim(model) + 2 * model.kv_heads * HeadDim(model)
               + 2 * Ff(model) + 1)
DecodeWorkspace(cap) == IF cap = 0 THEN 0 ELSE Workspace(1) + Float * (cap - 1)

InUse == Stage + KvHeld(window) + DecodeWorkspace(scratch) + Workspace(prefill)

\* edgexpu_native_memory_bytes, last_hidden apart: reported as memory_used_mb.
Reported == Stage + KvHeld(window)

-----------------------------------------------------------------------------
BudgetInit ==
  /\ model \in Models /\ memory \in Memories /\ disabled \in BOOLEAN
  /\ session_loaded = FALSE /\ plan = NoPlan
  /\ window = 0 /\ seq_len = 0 /\ scratch = 0 /\ prefill = 0
  /\ steps = 0

Step == steps < MaxSteps /\ steps' = steps + 1 /\ UNCHANGED <<memory, disabled>>
Free == window' = 0 /\ seq_len' = 0 /\ scratch' = 0 /\ prefill' = 0

\* admit_session_window
Admit(m, w) == Plan(m, w).admitted /\ plan' = Plan(m, w)

FirstWindow(m) == Least(DefaultWindow, m.context)

\* edgexpu_native_load: the plan of the placeholder window is asked for first.
NativeLoad(m) ==
  /\ prefill = 0 /\ Step
  /\ model' = m /\ session_loaded' = TRUE
  /\ Admit(m, FirstWindow(m))
  /\ window' = IF m.kv_layers > 0 THEN FirstWindow(m) ELSE 0
  /\ seq_len' = 0 /\ scratch' = 0 /\ prefill' = 0

\* Not admitted, or a later step of the load fails.
NativeLoadFails(m) ==
  /\ prefill = 0 /\ Step
  /\ model' = m /\ session_loaded' = FALSE /\ plan' = NoPlan /\ Free

\* Mutant of EnsureWindow: a window is admitted once, at the load.
EnsureWindowUnasked(needed) ==
  /\ session_loaded /\ window > 0 /\ prefill = 0 /\ needed <= model.context /\ Step
  /\ Plan(model, needed).total < SizeMax
  /\ \/ window >= needed /\ UNCHANGED <<window, seq_len>>
     \/ window < needed /\ seq_len = 0 /\ window' = needed /\ seq_len' = 0
  /\ UNCHANGED <<model, session_loaded, plan, scratch, prefill>>

\* edgexpu_native_ensure_window: asked again for every request, then the cache
\* is kept if it is large enough and replaced if nothing is in it.
EnsureWindow(needed) ==
  /\ session_loaded /\ window > 0 /\ prefill = 0 /\ needed <= model.context /\ Step
  /\ Admit(model, needed)
  /\ \/ window >= needed /\ UNCHANGED <<window, seq_len>>
     \/ window < needed /\ seq_len = 0 /\ window' = needed /\ seq_len' = 0
  /\ UNCHANGED <<model, session_loaded, scratch, prefill>>

\* The old cache is freed before the new one is allocated, and that fails.
GrowFails(needed) ==
  /\ session_loaded /\ window > 0 /\ prefill = 0 /\ window < needed /\ needed <= model.context
  /\ seq_len = 0 /\ Step
  /\ Admit(model, needed)
  /\ window' = 0 /\ UNCHANGED <<seq_len, model, session_loaded, scratch, prefill>>

\* edgexpu_native_forward_prefill: one workspace for the whole prompt.
BeginPrefill(n) ==
  /\ session_loaded /\ window > 0 /\ prefill = 0 /\ n \in 1 .. window /\ Step
  /\ prefill' = n /\ seq_len' = 0
  /\ UNCHANGED <<model, session_loaded, plan, window, scratch>>

EndPrefill ==
  /\ prefill > 0 /\ Step
  /\ prefill' = 0 /\ seq_len' \in {0, prefill}
  /\ UNCHANGED <<model, session_loaded, plan, window, scratch>>

\* ensure_decode_scratch for the whole window, then one more position.
Decode ==
  /\ session_loaded /\ prefill = 0 /\ 0 < seq_len /\ seq_len < window /\ Step
  /\ scratch' = Greatest(scratch, window)
  /\ seq_len' = seq_len + 1
  /\ UNCHANGED <<model, session_loaded, plan, window, prefill>>

BudgetNext ==
  \/ \E m \in Models : NativeLoad(m) \/ NativeLoadFails(m)
  \/ \E n \in 1 .. model.context : EnsureWindow(n) \/ GrowFails(n) \/ BeginPrefill(n)
  \/ EndPrefill \/ Decode

BudgetSpec == BudgetInit /\ [][BudgetNext]_budget_vars

-----------------------------------------------------------------------------
\* The same plan in exact integers.
ExactWeights(m) ==
  IF m.max_block = 0
  THEN (IF m.file = 0 THEN Chunk
        ELSE Least(Chunk, m.file) +
             (IF m.blocks > 0 THEN Least(2 * (m.file \div m.blocks), m.file) ELSE m.file))
       + m.embd * 16 + 256
  ELSE m.max_block + m.row +
       (IF m.output = 0 THEN Least(Chunk, m.file) ELSE Least(m.output, Chunk))

ExactKv(m, w) == 2 * m.kv_layers * m.kv_heads * HeadDim(m) * w * Float

ExactPosition(m) == 6 * m.embd + 2 * Ff(m) + (m.heads + 2 * m.kv_heads) * HeadDim(m)

ExactTotal(m, w) ==
  ExactWeights(m) + ExactKv(m, w) + Least(w, ScratchSeq) * Float * ExactPosition(m)

\* A plan admitted under a limit fits it in exact integers as well: no product
\* or sum on the way (scheduler.c:353-370) comes out smaller than it is.
AdmittedFits == plan.admitted /\ plan.bounded => ExactTotal(model, plan.window) <= plan.limit

\* The cache that is held always fits next to the weights of the file: growing
\* one asks again, with the window of the request (native.c:1459).
HeldWindowFits ==
  session_loaded /\ ~disabled /\ memory > 0 /\ plan.bounded
    => Stage + KvHeld(window) <= plan.limit

\* What is admitted fits the limit in exact integers, and so does the window that
\* is held.
WindowFits == AdmittedFits /\ HeldWindowFits

\* The two sums that are not saturated (scheduler.c:231 and 364) do not wrap.  The
\* numbers in a file have 32 bits: with a size_t of 64 bits only the products with
\* the head dimension could reach SIZE_MAX, and of a file whose tensors fit in
\* memory they do not.
RowsFit ==
  \A m \in Models :
    m.embd * 16 + 256 <= SizeMax /\ ExactPosition(m) <= SizeMax

\* The inductive invariant: a session that is loaded has the plan of its own file
\* that was admitted last.
BudgetTypeOK ==
  /\ model \in Models /\ memory \in Memories /\ disabled \in BOOLEAN
  /\ session_loaded \in BOOLEAN /\ window \in Nat

PlanOfModel ==
  IF session_loaded THEN plan.window \in Nat /\ plan = Plan(model, plan.window) /\ plan.admitted
  ELSE plan = NoPlan

BudgetInv == BudgetTypeOK /\ PlanOfModel /\ HeldWindowFits

\* README.plan.zh.md:35: more than 85% of RAM, prefill scratch counted, is
\* refused.  Violated: the plan counts ScratchSeq positions at most, prefill
\* allocates one workspace for all of them.
WithinLimit == session_loaded /\ plan.bounded => InUse <= plan.limit

\* native.h:110: the working set is staging, KV and scratch.  Violated after
\* the first decoded token: memory_bytes leaves the decode workspace out.
ReportsScratch == session_loaded /\ prefill = 0 => Reported = InUse

=============================================================================
