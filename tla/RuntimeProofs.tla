---------------------------- MODULE RuntimeProofs ----------------------------
(***************************************************************************)
(* What the facade guarantees for every number of runtimes, every set of   *)
(* packs and every sequence of calls: a native answer comes from the model *)
(* accepted last, and the trace names cpu.native where it did the work.    *)
(* And what the scheduler's budget guarantees for every file and device:   *)
(* the session holds no window that does not fit.                          *)
(* And what chat.c makes of every template and conversation: the whole of  *)
(* it, or a refusal for a reason.                                          *)
(***************************************************************************)
EXTENDS Runtime, Budget, ChatTemplate, SequenceTheorems, BoundedRecursion, TLAPS

-----------------------------------------------------------------------------
(* The scheduler's decisions.                                              *)

\* A decision taken from the job type and the manifest is a decision.
LEMMA ByTypeIsDecision ==
  ASSUME NEW m, NEW devices, NEW job \in {"tokenize", "prefill", "decode_step"}
  PROVE  \E B, D, P : Sched!ByType(m, devices, job)
                      \in [backend : B, device : D, policy : P, fallback : BOOLEAN]
<1> DEFINE B == {m.backend, "cpu.runtime", "cpu.baseline", "cpu.native", "dnpu"}
           D == {"cpu", "npu.rockchip", "npu.qualcomm", "dnpu"}
           P == {"host_cpu", "stage_execution"}
           Decisions == [backend : B, device : D, policy : P, fallback : BOOLEAN]
<1>1. \A b \in B, d \in D, p \in P : Sched!Decision(b, d, p) \in Decisions
  BY DEF Sched!Decision
<1>2. [Sched!Decision("cpu.baseline", "cpu", "stage_execution") EXCEPT !.fallback = TRUE]
        \in Decisions
  BY DEF Sched!Decision
<1>3. Sched!SelectExecution(m, devices) \in Decisions
  <2>1. CASE m.backend = "rockchip.rkllm"
    BY <1>1, <1>2, <2>1 DEF Sched!SelectExecution
  <2>2. CASE m.backend = "qualcomm.qnn"
    BY <1>1, <1>2, <2>2 DEF Sched!SelectExecution
  <2>3. CASE m.backend = "dnpu"
    BY <1>1, <2>3 DEF Sched!SelectExecution
  <2>4. CASE m.backend = "cpu.native"
    BY <1>1, <2>4 DEF Sched!SelectExecution
  <2>5. CASE m.backend \notin {"rockchip.rkllm", "qualcomm.qnn", "dnpu", "cpu.native"}
    BY <1>1, <2>5 DEF Sched!SelectExecution
  <2>6. QED
    BY <2>1, <2>2, <2>3, <2>4, <2>5
<1>4. Sched!ByType(m, devices, job) \in Decisions
  <2>1. CASE job = "tokenize"
    BY <1>1, <2>1 DEF Sched!ByType, Sched!HostJobs, Sched!StageJobs
  <2>2. CASE job \in {"prefill", "decode_step"}
    BY <1>3, <2>2 DEF Sched!ByType, Sched!HostJobs, Sched!StageJobs
  <2>3. QED
    BY <2>1, <2>2
<1>5. QED
  BY <1>4

\* A job that a ready session takes over is planned as cpu.native, and the
\* last telemetry does not take it away.
LEMMA PlanNamesNative ==
  ASSUME NEW m, NEW devices, NEW hint, NEW ready,
         NEW job \in {"tokenize", "prefill", "decode_step"},
         job = "tokenize" => ready.tokenizer,
         job = "prefill" => ready.kv /\ ready.kernel,
         job = "decode_step" => ready.kernel
  PROVE  Sched!PlanJob(m, devices, hint, ready, job).backend = "cpu.native"
<1> DEFINE decision == Sched!ByType(m, devices, job)
           overridden == Sched!Override(decision, ready, job)
<1>1. PICK B, D, P : decision \in [backend : B, device : D, policy : P, fallback : BOOLEAN]
  BY ByTypeIsDecision
<1>2. \E Q : overridden \in [backend : {"cpu.native"}, device : D, policy : Q, fallback : BOOLEAN]
  <2> HIDE DEF decision
  <2>1. CASE job = "tokenize"
    BY <1>1, <2>1 DEF Sched!Override
  <2>2. CASE job = "prefill"
    BY <1>1, <2>2 DEF Sched!Override
  <2>3. CASE job = "decode_step"
    BY <1>1, <2>3 DEF Sched!Override
  <2>4. QED
    BY <2>1, <2>2, <2>3
<1> HIDE DEF overridden
<1>3. Sched!Hint(overridden, hint).backend = "cpu.native"
  BY <1>2 DEF Sched!Hint
<1>4. overridden.backend = "cpu.native"
  BY <1>2
<1>5. QED
  BY <1>3, <1>4 DEF Sched!PlanJob, overridden

\* The trace of any prefix of a request names cpu.native where it did the work.
LEMMA TraceTruthful ==
  ASSUME NEW r \in Runtimes, NEW path, NEW n
  PROVE  \A e \in Trace(r, path, n) : e.by = "cpu.native" => e.plan.backend = e.by
<1>1. TAKE e \in Trace(r, path, n)
<1>2. PICK j : e = [job |-> j, by |-> Executes(r, path, j),
                    plan |-> Sched!PlanJob(manifest[r], npus, telemetry[r], Ready(r), j)]
  BY DEF Trace
<1>3. HAVE e.by = "cpu.native"
<1>4. /\ j \in {"tokenize", "prefill", "decode_step"}
      /\ native[r] # None /\ (j = "prefill" => kv[r])
  BY <1>2, <1>3 DEF Executes, None
<1>5. Sched!PlanJob(manifest[r], npus, telemetry[r], Ready(r), j).backend = "cpu.native"
  <2>1. /\ Ready(r).tokenizer /\ Ready(r).kernel /\ (j = "prefill" => Ready(r).kv)
    BY <1>4 DEF Ready
  <2>2. QED
    BY <1>4, <2>1, PlanNamesNative
<1>6. QED
  BY <1>2, <1>3, <1>5

-----------------------------------------------------------------------------
(* Types.                                                                  *)

LEMMA ZeroedType == Zeroed \in Manifests
BY DEF Zeroed, Manifests, Ids

LEMMA ManifestType ==
  ASSUME NEW p \in Packs
  PROVE  /\ ManifestOf(p) \in Manifests
         /\ [ManifestOf(p) EXCEPT !.resolved = FALSE] \in Manifests
<1> DEFINE Carries(n, value) == IF p.fields >= n THEN value ELSE None
<1>1. /\ Carries(1, p.id) \in Ids /\ Carries(7, p.id) \in Ids
      /\ Carries(5, p.fallback) \in {None} \union {q.fallback : q \in Packs}
      /\ Carries(6, p.backend) \in {None} \union {q.backend : q \in Packs}
      /\ (IF p.fields = Required /\ p.template THEN p.id ELSE None) \in Ids
  BY DEF Ids
<1>2. ManifestOf(p) \in Manifests
  BY <1>1 DEF ManifestOf, Manifests
<1>3. QED
  BY <1>2 DEF Manifests

\* A whole manifest names an artifact.
LEMMA WholeHasPath ==
  ASSUME RuntimeAssumption, NEW p \in Packs, Whole(p)
  PROVE  ManifestOf(p).path = p.id /\ p.id # None /\ p.id \in Ids
BY RuntimeAssumption DEF Whole, ManifestOf, Required, Ids

-----------------------------------------------------------------------------
(* What the actions do to the parts of the state the invariant relates.    *)

\* The parts a step leaves consistent: the sessions and what is accepted.
Sessions ==
  /\ manifest \in [Runtimes -> Manifests] /\ g_manifest \in Manifests
  /\ backend \in [Runtimes -> BOOLEAN] /\ loaded \in [Runtimes -> BOOLEAN]
  /\ native \in [Runtimes -> Ids] /\ kv \in [Runtimes -> BOOLEAN]
  /\ accepted \in [Runtimes -> Ids]
  /\ telemetry \in [Runtimes -> {None, "cpu.native", "cpu.baseline"}]
  /\ \A r \in Runtimes :
       /\ loaded[r] => backend[r]
       /\ kv[r] => native[r] # None
       /\ native[r] # None => loaded[r]
       /\ native[r] # None => native[r] = accepted[r]
  /\ g_loaded \in BOOLEAN /\ (g_loaded => g_manifest.path # None)

LEMMA IInvParts ==
  IInv <=> /\ Sessions /\ TraceNamesExecutor
           /\ command \in [at : {"api", "compare_load", "compare_native", "compare_llama", "done"},
                           pack : Ids, on : Runtimes \union {None}]
           /\ \A r \in Runtimes :
                (last.by = r /\ last.path = "native") => last.weights = accepted[r]
BY DEF IInv, Sessions, TypeOK, RunsAcceptedModel

LEMMA ManifestRefusedKeeps ==
  ASSUME Sessions, NEW r \in Runtimes, NEW p \in Packs, ManifestRefused(r, p)
  PROVE  Sessions'
<1>1. PICK m \in Manifests : manifest' = [manifest EXCEPT ![r] = m]
  BY ZeroedType, ManifestType DEF ManifestRefused
<1>2. QED
  BY <1>1 DEF ManifestRefused, Sessions, globals

LEMMA BackendRefusedKeeps ==
  ASSUME Sessions, NEW r \in Runtimes, NEW p \in Packs, BackendRefused(r, p)
  PROVE  Sessions'
BY ManifestType DEF BackendRefused, Sessions, globals

LEMMA JobRefusedKeeps ==
  ASSUME Sessions, NEW r \in Runtimes, NEW p \in Packs, JobRefused(r, p)
  PROVE  Sessions'
BY ManifestType DEF JobRefused, Sessions, globals

LEMMA NativeRefusedKeepsSessions ==
  ASSUME Sessions, NEW r \in Runtimes, NEW p \in Packs, NativeRefused(r, p)
  PROVE  Sessions'
<1>1. None \in Ids
  BY DEF Ids
<1>2. QED
  BY <1>1, ManifestType DEF NativeRefused, Sessions, globals

LEMMA LoadRefusedKeeps ==
  ASSUME Sessions, NEW r \in Runtimes, NEW p \in Packs, LoadRefused(r, p)
  PROVE  Sessions'
BY ManifestRefusedKeeps, BackendRefusedKeeps, JobRefusedKeeps, NativeRefusedKeepsSessions
   DEF LoadRefused

LEMMA LoadsKeeps ==
  ASSUME RuntimeAssumption, Sessions, NEW r \in Runtimes, NEW p \in Packs, Loads(r, p)
  PROVE  Sessions'
<1>1. ManifestOf(p) \in Manifests /\ p.id \in Ids /\ p.id # None
  BY ManifestType, WholeHasPath DEF Loads, Loadable
<1>2. QED
  BY <1>1 DEF Loads, Sessions

LEMMA GenerateNativeKeeps ==
  ASSUME Sessions, NEW r \in Runtimes, GenerateNative(r), UNCHANGED accepted
  PROVE  Sessions' /\ last'.by = r /\ last'.weights = accepted[r]
<1>1. telemetry' \in [Runtimes -> {None, "cpu.native", "cpu.baseline"}]
  BY DEF GenerateNative, Telemetry, Sessions
<1>2. UNCHANGED <<manifest, backend, loaded, native, kv, accepted, g_loaded, g_manifest>>
  BY DEF GenerateNative, globals
<1>3. Sessions'
  BY <1>1, <1>2 DEF Sessions
<1>4. native[r] = accepted[r]
  BY DEF GenerateNative, Sessions
<1>5. QED
  BY <1>3, <1>4 DEF GenerateNative, Ran

LEMMA GenerateLlamaKeeps ==
  ASSUME Sessions, NEW r \in Runtimes, GenerateLlama(r), UNCHANGED accepted
  PROVE  Sessions' /\ last'.path = "llama"
<1>1. telemetry' \in [Runtimes -> {None, "cpu.native", "cpu.baseline"}]
  BY DEF GenerateLlama, Telemetry, Sessions
<1>2. /\ UNCHANGED <<manifest, backend, loaded, native, kv, accepted, g_manifest>>
      /\ g_loaded' = TRUE /\ g_manifest.path # None
  BY DEF GenerateLlama, Sessions
<1>3. Sessions'
  BY <1>1, <1>2 DEF Sessions
<1>4. QED
  BY <1>3 DEF GenerateLlama, Ran

LEMMA GenerateFailsKeeps ==
  ASSUME Sessions, NEW r \in Runtimes, NEW path, GenerateFails(r, path), UNCHANGED accepted
  PROVE  Sessions' /\ last' = NoRun
<1>1. PICK lost \in BOOLEAN, bound \in BOOLEAN :
        /\ bound => g_manifest.path # None
        /\ kv' = [kv EXCEPT ![r] = kv[r] /\ ~lost]
        /\ g_loaded' = (g_loaded \/ bound)
  BY DEF GenerateFails
<1>2. UNCHANGED <<manifest, backend, loaded, native, telemetry, accepted, g_manifest>>
  BY DEF GenerateFails
<1>3. /\ kv' \in [Runtimes -> BOOLEAN] /\ \A x \in Runtimes : kv'[x] => kv[x]
  BY <1>1 DEF Sessions
<1>4. g_loaded' \in BOOLEAN /\ (g_loaded' => g_manifest.path # None)
  BY <1>1 DEF Sessions
<1>5. Sessions'
  BY <1>2, <1>3, <1>4 DEF Sessions
<1>6. QED
  BY <1>5 DEF GenerateFails

LEMMA CompareLlamaKeeps ==
  ASSUME Sessions, NEW r \in Runtimes, CompareLlama(r)
  PROVE  Sessions' /\ last'.path # "native"
<1>1. PICK m \in ComparedManifest(r) :
        /\ manifest' = [manifest EXCEPT ![r] = m]
        /\ \/ /\ m.path # None
              /\ g_manifest' = m /\ g_loaded' = TRUE
              /\ last' = Ran(r, "compare", FileAt(m), m.template)
           \/ UNCHANGED globals /\ last' = NoRun
  BY DEF CompareLlama
<1>2. m \in Manifests
  BY <1>1, ZeroedType, ManifestType DEF ComparedManifest, Sessions
<1>3. manifest' \in [Runtimes -> Manifests]
  BY <1>1, <1>2 DEF Sessions
<1>4. UNCHANGED <<backend, loaded, native, kv, telemetry, accepted>>
  BY DEF CompareLlama
<1>5. g_manifest' \in Manifests /\ g_loaded' \in BOOLEAN /\ (g_loaded' => g_manifest'.path # None)
  <2>1. CASE m.path # None /\ g_manifest' = m /\ g_loaded' = TRUE
    BY <1>2, <2>1
  <2>2. CASE UNCHANGED <<g_loaded, g_manifest>>
    BY <2>2 DEF Sessions
  <2>3. QED
    BY <1>1, <2>1, <2>2 DEF globals
<1>6. Sessions'
  BY <1>3, <1>4, <1>5 DEF Sessions
<1>7. last'.path # "native"
  BY <1>1 DEF Ran, NoRun, None
<1>8. QED
  BY <1>6, <1>7

-----------------------------------------------------------------------------
(* The invariant.                                                          *)

Stages == {"api", "compare_load", "compare_native", "compare_llama", "done"}

Commands == [at : Stages, pack : Ids, on : Runtimes \union {None}]

\* A step that leaves the sessions consistent, whose answer is of the accepted
\* model when it is native, and whose trace is one of a request or empty.
LEMMA StepKeeps ==
  ASSUME Sessions', command' \in Commands,
         last'.path = "native" => /\ last'.by \in Runtimes
                                  /\ last'.weights = accepted'[last'.by],
         TraceNamesExecutor'
  PROVE  IInv'
BY DEF IInv, Sessions, TypeOK, RunsAcceptedModel, Commands, Stages

LEMMA RequestTrace ==
  ASSUME NEW r \in Runtimes, NEW path,
         GenerateNative(r) \/ GenerateLlama(r) \/ GenerateFails(r, path)
  PROVE  TraceNamesExecutor'
<1>1. PICK p, n : trace' = Trace(r, p, n)
  BY DEF GenerateNative, GenerateLlama, GenerateFails
<1>2. QED
  BY <1>1, TraceTruthful DEF TraceNamesExecutor

LEMMA InitIInv ==
  ASSUME RuntimeAssumption, Init
  PROVE  IInv
<1>1. None \in Ids /\ \A p \in Packs : p.id \in Ids
  BY DEF Ids
<1>2. command \in Commands
  BY <1>1 DEF Init, Commands, Stages
<1>3. Sessions
  BY <1>1, ZeroedType DEF Init, Sessions
<1>4. TraceNamesExecutor /\ last.path # "native"
  BY DEF Init, TraceNamesExecutor, NoRun, Ran, None
<1>5. QED
  BY <1>2, <1>3, <1>4, IInvParts DEF Commands, Stages

LEMMA QuietKeeps ==
  ASSUME Quiet
  PROVE  TraceNamesExecutor' /\ last'.path # "native"
BY DEF Quiet, TraceNamesExecutor, NoRun, Ran, None

LEMMA GotoKeeps ==
  ASSUME command \in Commands, NEW at \in Stages, Goto(at)
  PROVE  command' \in Commands
BY DEF Goto, Commands

LEMMA NextKeeps ==
  ASSUME RuntimeAssumption, IInv, [Next]_vars
  PROVE  IInv'
<1>1. Sessions /\ TraceNamesExecutor /\ command \in Commands
      /\ \A r \in Runtimes : (last.by = r /\ last.path = "native") => last.weights = accepted[r]
  BY IInvParts DEF Commands, Stages
<1>2. ASSUME NEW r \in Runtimes, LoadModel(r) PROVE IInv'
  <2>1. Sessions'
    BY <1>1, <1>2, LoadsKeeps, LoadRefusedKeeps DEF LoadModel
  <2>2. command' \in Commands /\ Quiet
    BY <1>1, <1>2 DEF LoadModel
  <2>3. QED
    BY <2>1, <2>2, QuietKeeps, StepKeeps
<1>3. ASSUME NEW r \in Runtimes, Generate(r) PROVE IInv'
  <2>1. UNCHANGED <<accepted, command>> /\ TraceNamesExecutor'
    BY <1>3, RequestTrace DEF Generate
  <2>2. CASE GenerateNative(r)
    BY <1>1, <2>1, <2>2, GenerateNativeKeeps, StepKeeps
  <2>3. CASE GenerateLlama(r)
    BY <1>1, <2>1, <2>3, GenerateLlamaKeeps, StepKeeps
  <2>4. ASSUME NEW path \in {"native", "llama"}, GenerateFails(r, path) PROVE IInv'
    <3>1. Sessions' /\ last'.path # "native"
      BY <1>1, <2>1, <2>4, GenerateFailsKeeps DEF NoRun, Ran, None
    <3>2. QED
      BY <1>1, <2>1, <3>1, StepKeeps
  <2>5. QED
    BY <1>3, <2>2, <2>3, <2>4 DEF Generate
<1>4. ASSUME NEW r \in Runtimes, CompareLoad(r) PROVE IInv'
  <2>1. Sessions'
    BY <1>1, <1>4, LoadsKeeps, LoadRefusedKeeps DEF CompareLoad
  <2>2. command' \in Commands /\ Quiet
    BY <1>1, <1>4, GotoKeeps DEF CompareLoad, Stages
  <2>3. QED
    BY <2>1, <2>2, QuietKeeps, StepKeeps
<1>5. ASSUME NEW r \in Runtimes, CompareNative(r) PROVE IInv'
  <2>1. UNCHANGED accepted /\ TraceNamesExecutor'
    BY <1>5, RequestTrace DEF CompareNative
  <2>2. command' \in Commands
    BY <1>1, <1>5, GotoKeeps DEF CompareNative, Stages
  <2>3. CASE GenerateNative(r)
    BY <1>1, <2>1, <2>2, <2>3, GenerateNativeKeeps, StepKeeps
  <2>4. CASE GenerateFails(r, "native")
    <3>1. Sessions' /\ last'.path # "native"
      BY <1>1, <2>1, <2>4, GenerateFailsKeeps DEF NoRun, Ran, None
    <3>2. QED
      BY <2>1, <2>2, <3>1, StepKeeps
  <2>5. QED
    BY <1>5, <2>3, <2>4 DEF CompareNative
<1>6. ASSUME NEW r \in Runtimes, CompareLlama(r) PROVE IInv'
  <2>1. Sessions' /\ last'.path # "native"
    BY <1>1, <1>6, CompareLlamaKeeps
  <2>2. command' \in Commands /\ trace' = {}
    BY <1>1, <1>6, GotoKeeps DEF CompareLlama, Stages
  <2>3. TraceNamesExecutor'
    BY <2>2 DEF TraceNamesExecutor
  <2>4. QED
    BY <2>1, <2>2, <2>3, StepKeeps
<1>7. CASE UNCHANGED vars
  <2>1. /\ UNCHANGED <<manifest, backend, loaded, native, kv, telemetry>>
        /\ UNCHANGED <<g_loaded, g_manifest, accepted, command, last, trace>>
    BY <1>7 DEF vars, state, globals
  <2>2. Sessions' /\ TraceNamesExecutor' /\ command' \in Commands
    BY <1>1, <2>1 DEF Sessions, TraceNamesExecutor
  <2>3. QED
    BY <1>1, <2>1, <2>2 DEF IInv, Sessions, TypeOK, RunsAcceptedModel, Commands, Stages
<1>8. QED
  BY <1>2, <1>3, <1>4, <1>5, <1>6, <1>7 DEF Next

\* Types, the accepted model in every session, and a truthful trace.
LEMMA RuntimeInvariant == Spec => []IInv
<1>1. Init => IInv
  BY InitIInv, RuntimeAssumption
<1>2. IInv /\ [Next]_vars => IInv'
  BY NextKeeps, RuntimeAssumption
<1>3. QED
  BY <1>1, <1>2, PTL DEF Spec

-----------------------------------------------------------------------------
(* The results.                                                            *)

\* A native answer comes from the model of the last load that returned 1, and
\* none comes after a load that failed in cpu.native.
THEOREM RuntimeRunsAcceptedModel == Spec => []RunsAcceptedModel
<1>1. IInv => RunsAcceptedModel
  BY DEF IInv
<1>2. QED
  BY <1>1, RuntimeInvariant, PTL

\* Work that cpu.native does is planned as cpu.native, whatever the manifest,
\* the device and the last telemetry say.
THEOREM RuntimeTraceNamesExecutor == Spec => []TraceNamesExecutor
<1>1. IInv => TraceNamesExecutor
  BY DEF IInv
<1>2. QED
  BY <1>1, RuntimeInvariant, PTL

-----------------------------------------------------------------------------
(* The memory budget: the resource plan of the scheduler and the native    *)
(* session that asks for it (module Budget).  Whatever the sizes in a      *)
(* file, a plan comes out exact or is refused (TotalCapped), and what is   *)
(* held fits under the limit of the device.                                *)

\* A size is kept exactly up to SIZE_MAX.
Capped(n) == Least(n, SizeMax)

\* The saturating product and sum of capped sizes are the exact ones, capped.
LEMMA CappedProduct ==
  ASSUME SizeMax \in Nat, NEW a \in Nat, NEW n \in Nat
  PROVE  a * n \in Nat /\ MulSize(a, Capped(n)) = Capped(a * n)
<1>1. a * n \in Nat
  OBVIOUS
<1>2. CASE n <= SizeMax
  BY <1>2 DEF Capped, MulSize, Least
<1>3. CASE ~(n <= SizeMax)
  <2>1. CASE a = 0
    <3>1. a * n = 0 /\ a * SizeMax = 0
      BY <2>1
    <3>2. QED
      BY <1>3, <3>1 DEF Capped, MulSize, Least
  <2>2. CASE a # 0
    <3>1. SizeMax <= a * SizeMax /\ n <= a * n /\ a * SizeMax \in Nat
      BY <2>2
    <3> DEFINE p == a * n
               q == a * SizeMax
    <3>2. p \in Nat /\ q \in Nat /\ SizeMax <= q /\ ~(p <= SizeMax)
      BY <1>1, <1>3, <3>1
    <3>3. MulSize(a, Capped(n)) = Least(q, SizeMax) /\ Capped(a * n) = Least(p, SizeMax)
      BY <1>3 DEF Capped, MulSize, Least
    <3> HIDE DEF p, q
    <3>4. QED
      BY <3>2, <3>3 DEF Least
  <2>3. QED
    BY <2>1, <2>2
<1>4. QED
  BY <1>1, <1>2, <1>3

LEMMA CappedSum ==
  ASSUME SizeMax \in Nat, NEW n \in Nat, NEW k \in Nat
  PROVE  /\ AddSize(Capped(n), Capped(k)) = Capped(n + k)
         /\ AddSize(Capped(n), k) = Capped(n + k)
         /\ AddSize(n, k) = Capped(n + k)
BY DEF Capped, AddSize, Least

LEMMA WrapFits ==
  ASSUME SizeMax \in Nat, NEW n \in Nat, n <= SizeMax
  PROVE  Wrap(n) = n
BY DEF Wrap

\* The sizes in a file are natural numbers.
LEMMA FileTypes ==
  ASSUME BudgetAssumption, NEW m \in Models
  PROVE  /\ SizeMax \in Nat /\ Float \in Nat /\ Chunk \in Nat /\ ScratchSeq \in Nat
         /\ m.file \in Nat /\ m.file <= SizeMax /\ m.blocks \in Nat
         /\ m.kv_layers \in Nat /\ m.kv_heads \in Nat /\ m.heads \in Nat
         /\ m.embd \in Nat /\ m.max_block \in Nat /\ m.output \in Nat /\ m.row \in Nat
         /\ m.context \in Nat \ {0}
         /\ HeadDim(m) \in Nat /\ Ff(m) \in Nat
<1>1. m \in Files
  BY DEF BudgetAssumption
<1>2. /\ m.file \in Nat /\ m.file <= SizeMax /\ m.blocks \in Nat
      /\ m.kv_layers \in Nat /\ m.kv_heads \in Nat /\ m.heads \in Nat
      /\ m.embd \in Nat /\ m.max_block \in Nat /\ m.output \in Nat /\ m.row \in Nat
      /\ m.head_dim \in Nat /\ m.ff \in Nat /\ m.context \in Nat \ {0}
  BY <1>1 DEF Files, BudgetAssumption
<1>3. HeadDim(m) \in Nat /\ Ff(m) \in Nat
  BY <1>2 DEF HeadDim, Ff
<1>4. QED
  BY <1>2, <1>3 DEF BudgetAssumption

\* Each part of a plan is the exact one, capped: weights, cache and workspace.
LEMMA WeightsCapped ==
  ASSUME BudgetAssumption, RowsFit, NEW m \in Models
  PROVE  /\ ExactWeights(m) \in Nat /\ m.max_block <= ExactWeights(m)
         /\ WeightWorkingSet(m) = Capped(ExactWeights(m))
<1> DEFINE row == m.embd * 16 + 256
           shared == Least(Chunk, m.file)
<1>1. /\ row \in Nat /\ row <= SizeMax /\ Wrap(row) = row
  BY FileTypes, WrapFits DEF RowsFit
<1>2. shared \in Nat
  BY FileTypes DEF Least
<1> HIDE DEF row, shared
<1>3. CASE m.max_block # 0
  <2> DEFINE chunk == IF m.output = 0 THEN shared ELSE Least(m.output, Chunk)
  <2>1. chunk \in Nat
    BY FileTypes, <1>2 DEF Least
  <2>2. /\ WeightWorkingSet(m) = AddSize(AddSize(m.max_block, chunk), m.row)
        /\ ExactWeights(m) = m.max_block + m.row + chunk
    BY <1>3 DEF WeightWorkingSet, ExactWeights, shared
  <2> HIDE DEF chunk
  <2>3. AddSize(AddSize(m.max_block, chunk), m.row)
          = Capped(m.max_block + chunk + m.row)
    <3>1. m.max_block + chunk \in Nat /\ m.max_block \in Nat /\ m.row \in Nat /\ SizeMax \in Nat
      BY FileTypes, <2>1
    <3>2. AddSize(m.max_block, chunk) = Capped(m.max_block + chunk)
      BY <2>1, <3>1, CappedSum
    <3>3. QED
      BY <3>1, <3>2, CappedSum
  <2>4. m.max_block + chunk + m.row = m.max_block + m.row + chunk
    BY FileTypes, <2>1
  <2>5. QED
    BY FileTypes, <2>1, <2>2, <2>3, <2>4
<1>4. CASE m.max_block = 0 /\ m.file = 0
  <2>1. /\ WeightWorkingSet(m) = AddSize(Chunk, row)
        /\ ExactWeights(m) = Chunk + m.embd * 16 + 256
    BY <1>1, <1>4 DEF WeightWorkingSet, Heuristic, ExactWeights, row
  <2>2. ExactWeights(m) = Chunk + row
    BY <2>1, FileTypes DEF row
  <2>3. Chunk \in Nat /\ SizeMax \in Nat
    BY FileTypes
  <2>4. AddSize(Chunk, row) = Capped(Chunk + row) /\ Chunk + row \in Nat
    BY <1>1, <2>3, CappedSum
  <2>5. QED
    BY <1>4, <2>1, <2>2, <2>4, <2>3
<1>5. CASE m.max_block = 0 /\ m.file # 0
  <2> DEFINE half == m.file \div m.blocks
             exact == IF m.blocks > 0 THEN Least(2 * half, m.file) ELSE m.file
             layers == IF m.blocks > 0 THEN Least(MulSize(half, 2), m.file)
                       ELSE m.file
  <2>1. exact \in Nat /\ layers = exact
    <3>1. CASE m.blocks > 0
      <4>1. half \in Nat
        BY <3>1, FileTypes
      <4> HIDE DEF half
      <4>2. QED
        BY <3>1, <4>1, FileTypes DEF Least, MulSize
    <3>2. CASE ~(m.blocks > 0)
      BY <3>2, FileTypes
    <3>3. QED
      BY <3>1, <3>2
  <2>2. WeightWorkingSet(m) = AddSize(AddSize(layers, shared), row)
    BY <1>1, <1>5 DEF WeightWorkingSet, Heuristic, row, shared
  <2>3. ExactWeights(m) = (shared + exact) + m.embd * 16 + 256
    BY <1>5 DEF ExactWeights, shared
  <2> HIDE DEF exact, layers, half
  <2>4. ExactWeights(m) = exact + shared + row
    BY <1>2, <2>1, <2>3, FileTypes DEF row
  <2>5. exact + shared \in Nat
    BY <1>2, <2>1
  <2>6. AddSize(AddSize(exact, shared), row) = Capped(exact + shared + row)
    BY <1>1, <1>2, <2>1, <2>5, FileTypes, CappedSum
  <2>7. QED
    BY <1>1, <1>5, <2>1, <2>2, <2>4, <2>5, <2>6
<1>6. QED
  BY <1>3, <1>4, <1>5

LEMMA KvCapped ==
  ASSUME BudgetAssumption, NEW m \in Models, NEW w \in Nat
  PROVE  /\ ExactKv(m, w) \in Nat
         /\ KvBytes(m, w) = Capped(ExactKv(m, w))
<1> DEFINE d == HeadDim(m)
           bytes == w * Float
           row == d * bytes
           layer == m.kv_heads * row
           all == m.kv_layers * layer
<1>1. /\ d \in Nat /\ m.kv_heads \in Nat /\ m.kv_layers \in Nat
      /\ w \in Nat /\ Float \in Nat /\ SizeMax \in Nat
  BY FileTypes
<1> HIDE DEF d
<1>2. bytes \in Nat /\ MulSize(w, Float) = Capped(bytes)
  BY <1>1 DEF MulSize, Capped, Least
<1> HIDE DEF bytes
<1>3. row \in Nat /\ MulSize(d, Capped(bytes)) = Capped(row)
  BY <1>1, <1>2, CappedProduct
<1> HIDE DEF row
<1>4. layer \in Nat /\ MulSize(m.kv_heads, Capped(row)) = Capped(layer)
  BY <1>1, <1>3, CappedProduct
<1> HIDE DEF layer
<1>5. all \in Nat /\ MulSize(m.kv_layers, Capped(layer)) = Capped(all)
  BY <1>1, <1>4, CappedProduct
<1> HIDE DEF all
<1>6. 2 * all \in Nat /\ MulSize(2, Capped(all)) = Capped(2 * all)
  BY <1>1, <1>5, CappedProduct
<1>7. ExactKv(m, w) = 2 * all
  BY <1>1 DEF ExactKv, all, layer, row, bytes, d
<1>8. QED
  BY <1>2, <1>3, <1>4, <1>5, <1>6, <1>7 DEF KvBytes, d

LEMMA ScratchCapped ==
  ASSUME BudgetAssumption, RowsFit, NEW m \in Models, NEW n \in Nat
  PROVE  /\ n * Float * ExactPosition(m) \in Nat
         /\ ScratchBytes(m, n) = Capped(n * Float * ExactPosition(m))
<1> DEFINE d == HeadDim(m)
           ff == Ff(m)
           e == m.embd * 6
           f == ff * 2
           h == m.heads * d
           k == 2 * m.kv_heads * d
           p == ExactPosition(m)
           bytes == p * Float
<1>1. /\ d \in Nat /\ ff \in Nat /\ m.kv_heads \in Nat /\ m.heads \in Nat /\ m.embd \in Nat
      /\ n \in Nat /\ Float \in Nat /\ SizeMax \in Nat
  BY FileTypes
<1>2. p <= SizeMax
  BY DEF RowsFit
<1>3. e \in Nat /\ f \in Nat /\ h \in Nat /\ k \in Nat /\ p = e + f + h + k
  <2> HIDE DEF d, ff
  <2>1. QED
    BY <1>1 DEF ExactPosition, d, ff
<1>4. PerPosition(m) = Wrap(Wrap(e) + Wrap(f) + Wrap(h) + Wrap(k))
  BY DEF PerPosition
<1> HIDE DEF e, f, h, k, p
<1>5. PerPosition(m) = p
  <2>1. Wrap(e) = e /\ Wrap(f) = f /\ Wrap(h) = h /\ Wrap(k) = k
    BY <1>1, <1>2, <1>3, WrapFits
  <2>2. p \in Nat /\ Wrap(p) = p
    BY <1>1, <1>2, <1>3, WrapFits
  <2>3. QED
    BY <1>3, <1>4, <2>1, <2>2
<1>6. bytes \in Nat /\ MulSize(p, Float) = Capped(bytes)
  BY <1>1, <1>3 DEF MulSize, Capped, Least
<1>7. n * bytes = n * Float * p
  BY <1>1, <1>3
<1> HIDE DEF bytes
<1>8. n * bytes \in Nat /\ MulSize(n, Capped(bytes)) = Capped(n * bytes)
  BY <1>1, <1>6, CappedProduct
<1>9. QED
  BY <1>5, <1>6, <1>7, <1>8 DEF ScratchBytes, p

\* The total of a plan is the exact one, or SIZE_MAX where that does not fit.
LEMMA TotalCapped ==
  ASSUME BudgetAssumption, RowsFit, NEW m \in Models, NEW w \in Nat
  PROVE  /\ ExactTotal(m, w) \in Nat
         /\ m.max_block + ExactKv(m, w) <= ExactTotal(m, w)
         /\ Plan(m, w).total = Capped(ExactTotal(m, w))
<1> DEFINE n == Least(w, ScratchSeq)
           W == ExactWeights(m)
           K == ExactKv(m, w)
           S == n * Float * ExactPosition(m)
<1>1. n \in Nat /\ SizeMax \in Nat /\ m.max_block \in Nat
  BY FileTypes DEF Least
<1> HIDE DEF n
<1>2. W \in Nat /\ m.max_block <= W /\ WeightWorkingSet(m) = Capped(W)
  BY WeightsCapped
<1>3. K \in Nat /\ KvBytes(m, w) = Capped(K)
  BY KvCapped
<1>4. S \in Nat /\ ScratchBytes(m, n) = Capped(S)
  BY <1>1, ScratchCapped
<1>5. ExactTotal(m, w) = W + K + S
  BY DEF ExactTotal, n
<1>6. Plan(m, w).total =
        IF SizeMax \in {Capped(W), Capped(K), Capped(S)} THEN SizeMax
        ELSE AddSize(AddSize(Capped(W), Capped(K)), Capped(S))
  BY <1>2, <1>3, <1>4 DEF Plan, n
<1> HIDE DEF W, K, S
<1>7. AddSize(AddSize(Capped(W), Capped(K)), Capped(S)) = Capped(W + K + S)
  <2>1. W + K \in Nat
    BY <1>2, <1>3
  <2>2. QED
    BY <1>1, <1>2, <1>3, <1>4, <2>1, CappedSum
<1>8. SizeMax \in {Capped(W), Capped(K), Capped(S)} => Capped(W + K + S) = SizeMax
  BY <1>1, <1>2, <1>3, <1>4 DEF Capped, Least
<1>9. m.max_block + K <= W + K + S
  BY <1>1, <1>2, <1>3, <1>4
<1>10. QED
  BY <1>2, <1>3, <1>4, <1>5, <1>6, <1>7, <1>8, <1>9 DEF K


\* A limit is below SIZE_MAX, so that a total within it was not capped.
LEMMA AdmittedExact ==
  ASSUME BudgetAssumption, RowsFit, memory \in Memories,
         NEW m \in Models, NEW w \in Nat, Plan(m, w).admitted, Plan(m, w).bounded
  PROVE  ExactTotal(m, w) <= Plan(m, w).limit
<1> DEFINE usable == (memory * 85) \div 100
           limit == usable * MB
           exact == ExactTotal(m, w)
<1>1. /\ memory \in Nat /\ MB \in Nat \ {0} /\ SizeMax \in Nat /\ memory * MB <= SizeMax
  BY DEF BudgetAssumption
<1>2. /\ Plan(m, w).limit = limit /\ limit > 0
      /\ Plan(m, w).total <= limit
  <2>1. limit > 0 /\ ~disabled
    BY DEF Plan
  <2>2. limit \in Int
    BY <1>1
  <2>3. Plan(m, w).limit = limit
    BY DEF Plan
  <2>4. disabled \/ limit = 0 \/ Plan(m, w).total <= limit
    BY DEF Plan
  <2> HIDE DEF limit
  <2>5. QED
    BY <2>1, <2>2, <2>3, <2>4
<1>3. limit < SizeMax
  <2>1. usable \in Nat /\ usable <= memory /\ (memory > 0 => usable < memory)
    BY <1>1
  <2>2. memory > 0
    <3>1. memory = 0 => usable = 0
      BY <1>1
    <3>2. usable = 0 => limit = 0
      BY <1>1
    <3> HIDE DEF usable, limit
    <3>3. QED
      BY <1>1, <1>2, <3>1, <3>2
  <2>3. PICK left \in Nat : memory = usable + 1 + left
    <3>1. memory - usable - 1 \in Nat
      BY <1>1, <2>1, <2>2
    <3>2. memory = usable + 1 + (memory - usable - 1)
      BY <1>1, <2>1
    <3>3. QED
      BY <3>1, <3>2
  <2> HIDE DEF usable
  <2>4. memory * MB = usable * MB + MB + left * MB /\ left * MB \in Nat /\ usable * MB \in Nat
    BY <1>1, <2>1, <2>3
  <2> DEFINE a == memory * MB
             b == left * MB
  <2>5. a = limit + MB + b /\ b \in Nat /\ limit \in Nat /\ a <= SizeMax
    BY <1>1, <2>4
  <2> HIDE DEF a, b, limit
  <2>6. QED
    BY <1>1, <2>5
<1>4. exact \in Nat /\ Plan(m, w).total = Capped(exact)
  BY TotalCapped
<1>5. limit \in Int
  BY <1>1
<1> HIDE DEF limit, exact
<1>6. QED
  BY <1>1, <1>2, <1>3, <1>4, <1>5 DEF Capped, Least, exact


\* A session whose plan of a window was admitted has room for the file's stage and
\* for a cache of that window, and so for none.
LEMMA CacheOfPlanFits ==
  ASSUME BudgetAssumption, RowsFit, memory \in Memories,
         NEW m \in Models, NEW w \in Nat, Plan(m, w).admitted, Plan(m, w).bounded
  PROVE  /\ m.max_block + ExactKv(m, w) <= Plan(m, w).limit
         /\ m.max_block + ExactKv(m, 0) <= Plan(m, w).limit
<1> DEFINE limit == Plan(m, w).limit
           exact == ExactTotal(m, w)
           K == ExactKv(m, w)
<1>1. exact <= limit
  BY AdmittedExact
<1>2. exact \in Nat /\ m.max_block + K <= exact
  BY TotalCapped
<1>3. K \in Nat /\ m.max_block \in Nat
  BY KvCapped, FileTypes
<1>4. ExactKv(m, 0) = 0
  BY FileTypes DEF ExactKv
<1>5. limit \in Int
  BY DEF Plan, BudgetAssumption
<1> HIDE DEF limit, exact, K
<1>6. m.max_block + K <= limit /\ m.max_block + 0 <= limit
  BY <1>1, <1>2, <1>3, <1>5
<1>7. QED
  BY <1>4, <1>6 DEF limit, K

\* The cache is counted in another order than it is planned in.
LEMMA KvHeldExact ==
  ASSUME BudgetAssumption, NEW m \in Models, NEW w \in Nat
  PROVE  2 * m.kv_layers * w * m.kv_heads * HeadDim(m) * Float = ExactKv(m, w)
<1>1. /\ m.kv_layers \in Nat /\ m.kv_heads \in Nat /\ Float \in Nat
      /\ HeadDim(m) \in Nat
  BY FileTypes
<1> DEFINE d == HeadDim(m)
<1>2. ExactKv(m, w) = 2 * m.kv_layers * m.kv_heads * d * w * Float
  BY DEF ExactKv
<1> HIDE DEF d
<1>3. QED
  BY <1>1, <1>2 DEF d

\* The cache of a window next to the stage of a file, within a limit.
Held(m, w, limit) == m.max_block + ExactKv(m, w) <= limit

Bounded == ~disabled /\ memory > 0 /\ plan.bounded

\* HeldWindowFits with the sizes of the file, before and after a step.
LEMMA HeldByFile ==
  ASSUME BudgetAssumption, model \in Models, window \in Nat
  PROVE  HeldWindowFits <=> (session_loaded /\ Bounded => Held(model, window, plan.limit))
BY KvHeldExact DEF HeldWindowFits, Stage, KvHeld, Held, Bounded

LEMMA HeldByFileAfter ==
  ASSUME BudgetAssumption, model' \in Models, window' \in Nat
  PROVE  HeldWindowFits'
           <=> (session_loaded' /\ Bounded' => Held(model', window', plan'.limit))
BY KvHeldExact DEF HeldWindowFits, Stage, KvHeld, Held, Bounded

\* A plan depends on the device and on no other part of the state.
LEMMA PlanOfModelAfter ==
  ASSUME UNCHANGED <<memory, disabled>>,
         session_loaded' => /\ plan'.window \in Nat /\ plan'.admitted
                      /\ plan' = Plan(model', plan'.window),
         ~session_loaded' => plan' = NoPlan
  PROVE  PlanOfModel'
BY DEF PlanOfModel, Plan, NoPlan

LEMMA PlanAsked ==
  ASSUME NEW m, NEW w
  PROVE  /\ Plan(m, w).window = w
         /\ Plan(m, w).limit = ((memory * 85) \div 100) * MB
         /\ Plan(m, w).bounded = (((memory * 85) \div 100) * MB > 0 /\ ~disabled)
BY DEF Plan

LEMMA BudgetInitHolds ==
  ASSUME BudgetAssumption, BudgetInit
  PROVE  BudgetInv
BY DEF BudgetInit, BudgetInv, BudgetTypeOK, PlanOfModel, HeldWindowFits

LEMMA NativeLoadKeeps ==
  ASSUME BudgetAssumption, RowsFit, BudgetInv,
         NEW m \in Models, NativeLoad(m)
  PROVE  BudgetInv'
<1> DEFINE w == FirstWindow(m)
<1>1. w \in Nat
  BY FileTypes DEF FirstWindow, Least, BudgetAssumption
<1>2. /\ UNCHANGED <<memory, disabled>> /\ model' = m /\ session_loaded' = TRUE
      /\ plan' = Plan(m, w) /\ Plan(m, w).admitted
      /\ window' \in {w, 0}
  BY DEF NativeLoad, Step, Admit
<1>3. memory \in Memories /\ disabled \in BOOLEAN
  BY DEF BudgetInv, BudgetTypeOK
<1> HIDE DEF w
<1>4. BudgetTypeOK'
  BY <1>1, <1>2, <1>3 DEF BudgetTypeOK
<1>5. PlanOfModel'
  BY <1>1, <1>2, PlanAsked, PlanOfModelAfter
<1>6. HeldWindowFits'
  <2>1. Bounded' => Held(m, w, plan'.limit) /\ Held(m, 0, plan'.limit)
    BY <1>1, <1>2, <1>3, CacheOfPlanFits DEF Bounded, Held
  <2>2. model' \in Models /\ window' \in Nat
    BY <1>1, <1>2
  <2>3. QED
    BY <1>2, <2>1, <2>2, HeldByFileAfter
<1>7. QED
  BY <1>4, <1>5, <1>6 DEF BudgetInv

LEMMA NativeLoadFailsKeeps ==
  ASSUME BudgetAssumption, BudgetInv, NEW m \in Models, NativeLoadFails(m)
  PROVE  BudgetInv'
<1>1. /\ UNCHANGED <<memory, disabled>> /\ model' = m /\ session_loaded' = FALSE
      /\ plan' = NoPlan /\ window' = 0
  BY DEF NativeLoadFails, Step, Free
<1>2. BudgetTypeOK'
  BY <1>1 DEF BudgetInv, BudgetTypeOK
<1>3. PlanOfModel' /\ HeldWindowFits'
  BY <1>1, PlanOfModelAfter DEF HeldWindowFits
<1>4. QED
  BY <1>2, <1>3 DEF BudgetInv

\* The window of a request is asked for, and then the cache is the one before, one
\* of the window asked for, or none.
LEMMA WindowAskedKeeps ==
  ASSUME BudgetAssumption, RowsFit, BudgetInv, session_loaded,
         NEW needed \in Nat, Admit(model, needed), window' \in {window, needed, 0},
         UNCHANGED <<memory, disabled, model, session_loaded>>
  PROVE  BudgetInv'
<1>1. /\ model \in Models /\ memory \in Memories /\ disabled \in BOOLEAN /\ window \in Nat
      /\ session_loaded \in BOOLEAN
  BY DEF BudgetInv, BudgetTypeOK
<1>2. plan' = Plan(model, needed) /\ Plan(model, needed).admitted
  BY DEF Admit
<1>3. BudgetTypeOK'
  BY <1>1 DEF BudgetTypeOK
<1>4. PlanOfModel'
  BY <1>2, PlanAsked, PlanOfModelAfter
<1>5. plan'.limit = plan.limit /\ plan'.bounded = plan.bounded
  <2>1. plan = Plan(model, plan.window)
    BY DEF BudgetInv, PlanOfModel
  <2>2. QED
    BY <1>2, <2>1, PlanAsked
<1>6. Bounded' => Held(model, window, plan'.limit) /\ Held(model, needed, plan'.limit)
                  /\ Held(model, 0, plan'.limit)
  <2>1. Bounded' => Bounded
    BY <1>5 DEF Bounded
  <2>2. Bounded => Held(model, window, plan.limit)
    BY <1>1, HeldByFile DEF BudgetInv
  <2>3. Bounded' => Held(model, needed, plan'.limit) /\ Held(model, 0, plan'.limit)
    BY <1>1, <1>2, CacheOfPlanFits DEF Bounded, Held
  <2>4. QED
    BY <1>5, <2>1, <2>2, <2>3
<1>7. HeldWindowFits'
  <2>1. model' \in Models /\ window' \in Nat /\ model' = model
    BY <1>1
  <2>2. QED
    BY <1>6, <2>1, HeldByFileAfter
<1>8. QED
  BY <1>3, <1>4, <1>7 DEF BudgetInv

\* A step that leaves the session's file, plan and window alone.
LEMMA UnaskedKeeps ==
  ASSUME BudgetInv, UNCHANGED <<memory, disabled, model, session_loaded, plan, window>>
  PROVE  BudgetInv'
<1>1. BudgetTypeOK' /\ HeldWindowFits'
  BY DEF BudgetInv, BudgetTypeOK, HeldWindowFits, Stage, KvHeld
<1>2. PlanOfModel'
  <2>1. session_loaded \in BOOLEAN /\ PlanOfModel
    BY DEF BudgetInv, BudgetTypeOK
  <2>2. QED
    BY <2>1, PlanOfModelAfter DEF PlanOfModel
<1>3. QED
  BY <1>1, <1>2 DEF BudgetInv

\* The inductive invariant.
THEOREM BudgetInvariant ==
  ASSUME BudgetAssumption, RowsFit
  PROVE  BudgetSpec => []BudgetInv
<1>1. BudgetInit => BudgetInv
  BY BudgetInitHolds
<1>2. BudgetInv /\ [BudgetNext]_(budget_vars) => BudgetInv'
  <2>1. SUFFICES ASSUME BudgetInv, [BudgetNext]_(budget_vars) PROVE BudgetInv'
    OBVIOUS
  <2>2. CASE \E m \in Models : NativeLoad(m)
    BY <2>1, <2>2, NativeLoadKeeps
  <2>3. CASE \E m \in Models : NativeLoadFails(m)
    BY <2>1, <2>3, NativeLoadFailsKeeps
  <2>4. ASSUME NEW n \in 1 .. model.context,
               EnsureWindow(n) \/ GrowFails(n)
        PROVE  BudgetInv'
    <3>1. n \in Nat
      BY <2>1, FileTypes DEF BudgetInv, BudgetTypeOK
    <3>2. /\ session_loaded /\ Admit(model, n) /\ window' \in {window, n, 0}
          /\ UNCHANGED <<memory, disabled, model, session_loaded>>
      BY <2>4 DEF EnsureWindow, GrowFails, Step
    <3>3. QED
      BY <2>1, <3>1, <3>2, WindowAskedKeeps
  <2>5. CASE \/ \E n \in 1 .. model.context : BeginPrefill(n)
             \/ EndPrefill \/ Decode \/ UNCHANGED budget_vars
    <3>1. UNCHANGED <<memory, disabled, model, session_loaded, plan, window>>
      BY <2>5 DEF BeginPrefill, EndPrefill, Decode, Step, budget_vars
    <3>2. QED
      BY <2>1, <3>1, UnaskedKeeps
  <2>6. QED
    BY <2>1, <2>2, <2>3, <2>4, <2>5 DEF BudgetNext
<1>3. QED
  BY <1>1, <1>2, PTL DEF BudgetSpec

\* What is admitted fits the limit in exact integers, and so does the window that
\* is held, for every file, device and sequence of loads and requests.
THEOREM BudgetWindowFits ==
  ASSUME BudgetAssumption, RowsFit
  PROVE  BudgetSpec => []WindowFits
<1>1. BudgetInv => WindowFits
  <2>1. SUFFICES ASSUME BudgetInv PROVE AdmittedFits
    BY DEF BudgetInv, WindowFits
  <2>2. SUFFICES ASSUME plan.admitted, plan.bounded
                 PROVE  ExactTotal(model, plan.window) <= plan.limit
    BY DEF AdmittedFits
  <2>3. session_loaded
    BY <2>1, <2>2 DEF BudgetInv, PlanOfModel, NoPlan
  <2>4. /\ plan.window \in Nat /\ plan = Plan(model, plan.window)
        /\ model \in Models /\ memory \in Memories
    BY <2>1, <2>3 DEF BudgetInv, PlanOfModel, BudgetTypeOK
  <2>5. QED
    BY <2>2, <2>4, AdmittedExact
<1>2. QED
  BY <1>1, BudgetInvariant, PTL

-----------------------------------------------------------------------------
(* The prompt: a conversation written out by a template (ChatTemplate).    *)

Bytes == Seq(Alphabet)
Accs  == [text : Bytes, fits : BOOLEAN]

\* The joined texts satisfy the equations of their recursive definition.
LEMMA JoinsRule ==
  ASSUME NEW texts \in Seq(Bytes)
  PROVE  /\ Joins(texts)[0] = <<>>
         /\ \A k \in 1 .. Len(texts) : Joins(texts)[k] = Joins(texts)[k - 1] \o texts[k]
<1> DEFINE n == Len(texts)
           step == [x \in Bytes \X (1 .. n) |-> x[1] \o texts[x[2]]]
           Rule(f) == [k \in 0 .. n |-> IF k = 0 THEN <<>> ELSE f[k - 1] \o texts[k]]
           F == CHOOSE f : f = Rule(f)
<1>1. n \in Nat /\ <<>> \in Bytes /\ \A k \in 1 .. n : texts[k] \in Bytes
  BY DEF Bytes
<1>2. \A s, t \in Bytes : s \o t \in Bytes
  BY DEF Bytes
<1>3. Joins(texts) = F
  BY Zenon DEF Joins
<1> HIDE DEF n, F
<1>4. step \in StepFunctions(Bytes, n)
  BY <1>1, <1>2 DEF StepFunctions
<1>5. PICK f : Unrolls(f, Bytes, <<>>, n, step)
  <2> HIDE DEF step
  <2>1. QED
    BY <1>1, <1>4, Recursion
<1>6. \A k \in 1 .. n : f[k] = f[k - 1] \o texts[k]
  <2>1. TAKE k \in 1 .. n
  <2>2. f[k - 1] \in Bytes
    BY <1>1, <1>5 DEF Unrolls
  <2>3. step[<<f[k - 1], k>>] = f[k - 1] \o texts[k]
    BY <2>2
  <2> HIDE DEF step
  <2>4. QED
    BY <1>5, <2>3 DEF Unrolls
<1>7. f = Rule(f)
  <2> HIDE DEF step
  <2>1. f = [k \in 0 .. n |-> f[k]] /\ f[0] = <<>>
    BY <1>5 DEF Unrolls
  <2>2. \A k \in 0 .. n : f[k] = IF k = 0 THEN <<>> ELSE f[k - 1] \o texts[k]
    <3>1. \A k \in 0 .. n : k = 0 \/ k \in 1 .. n
      BY <1>1
    <3>2. QED
      BY <1>6, <2>1, <3>1, Zenon
  <2>3. QED
    BY <2>1, <2>2, Zenon
<1>8. F = Rule(F)
  <2> HIDE DEF Rule
  <2>1. QED
    BY <1>7, Zenon DEF F
<1>9. F[0] = <<>> /\ \A k \in 1 .. n : F[k] = F[k - 1] \o texts[k]
  <2>1. \A k \in 0 .. n : F[k] = IF k = 0 THEN <<>> ELSE F[k - 1] \o texts[k]
    <3>1. TAKE k \in 0 .. n
    <3>2. Rule(F)[k] = IF k = 0 THEN <<>> ELSE F[k - 1] \o texts[k]
      OBVIOUS
    <3> HIDE DEF Rule
    <3>3. QED
      BY <1>8, <3>2
  <2>2. 0 \in 0 .. n /\ \A k \in 1 .. n : k \in 0 .. n /\ k # 0
    BY <1>1
  <2> HIDE DEF Rule
  <2>3. QED
    BY <2>1, <2>2
<1>10. QED
  BY <1>3, <1>9 DEF n

\* Concatenation of texts.
LEMMA Associative == \A x, y, z \in Bytes : (x \o y) \o z = x \o (y \o z)
<1>1. TAKE x \in Bytes, y \in Bytes, z \in Bytes
<1>2. x \in Seq(Alphabet) /\ y \in Seq(Alphabet) /\ z \in Seq(Alphabet)
  BY DEF Bytes
<1>3. QED
  BY <1>2, ConcatAssociative, SMTT(60)

\* Joined texts are texts, and grow with their number.
LEMMA JoinsType ==
  ASSUME NEW texts \in Seq(Bytes)
  PROVE  \A k \in 0 .. Len(texts) : Joins(texts)[k] \in Bytes
<1> DEFINE n == Len(texts)
           S == {k \in 0 .. n : Joins(texts)[k] \in Bytes}
<1>1. n \in Nat /\ <<>> \in Bytes /\ \A k \in 1 .. n : texts[k] \in Bytes
  BY DEF Bytes
<1>2. \A s, t \in Bytes : s \o t \in Bytes
  BY DEF Bytes
<1>3. /\ Joins(texts)[0] = <<>>
      /\ \A k \in 1 .. n : Joins(texts)[k] = Joins(texts)[k - 1] \o texts[k]
  BY JoinsRule
<1> HIDE DEF n
<1>4. 0 \in S
  BY <1>1, <1>3
<1>5. ASSUME NEW k \in 1 .. n, k - 1 \in S PROVE k \in S
  <2>1. Joins(texts)[k] = Joins(texts)[k - 1] \o texts[k]
    BY <1>3, Zenon
  <2>2. k \in 0 .. n
    BY <1>1
  <2>3. QED
    BY <1>1, <1>2, <1>5, <2>1, <2>2
<1>6. \A k \in 0 .. n : k \in S
  <2> HIDE DEF S
  <2>1. QED
    BY <1>1, <1>4, <1>5, UpTo
<1>7. QED
  BY <1>6 DEF n

\* Joined texts are a text.
LEMMA ConcatTyped ==
  ASSUME NEW texts \in Seq(Bytes)
  PROVE  Concat(texts) \in Bytes
<1>1. Len(texts) \in 0 .. Len(texts)
  OBVIOUS
<1>2. QED
  BY <1>1, JoinsType DEF Concat

\* The join of the first texts, as one step.
LEMMA JoinStep ==
  ASSUME NEW texts \in Seq(Bytes), NEW k \in 1 .. Len(texts)
  PROVE  /\ Joins(texts)[k] = Joins(texts)[k - 1] \o texts[k]
         /\ texts[k] \in Bytes /\ Joins(texts)[k - 1] \in Bytes /\ Joins(texts)[k] \in Bytes
         /\ Len(Joins(texts)[k]) = Len(Joins(texts)[k - 1]) + Len(texts[k])
<1>1. Len(texts) \in Nat /\ texts[k] \in Bytes
  BY DEF Bytes
<1>2. k - 1 \in 0 .. Len(texts) /\ k \in 0 .. Len(texts)
  BY <1>1
<1>3. Joins(texts)[k - 1] \in Bytes /\ Joins(texts)[k] \in Bytes
  BY <1>2, JoinsType
<1>4. Joins(texts)[k] = Joins(texts)[k - 1] \o texts[k]
  BY JoinsRule
<1>5. \A s, t \in Bytes : Len(s \o t) = Len(s) + Len(t)
  BY DEF Bytes
<1>6. QED
  BY <1>1, <1>3, <1>4, <1>5

\* More texts are not shorter.
LEMMA JoinsGrow ==
  ASSUME NEW texts \in Seq(Bytes), NEW j \in 0 .. Len(texts)
  PROVE  Len(Joins(texts)[j]) <= Len(Concat(texts))
<1> DEFINE n == Len(texts)
           Size(k) == Len(Joins(texts)[k])
           S == {k \in 0 .. n : k >= j => Size(j) <= Size(k)}
<1>1. n \in Nat /\ j \in 0 .. n
  OBVIOUS
<1>2. \A k \in 0 .. n : Size(k) \in Nat
  <2>1. TAKE k \in 0 .. n
  <2>2. Joins(texts)[k] \in Seq(Alphabet)
    BY JoinsType DEF Bytes
  <2>3. QED
    BY <2>2
<1>3. \A k \in 1 .. n : Size(k) >= Size(k - 1)
  <2>1. TAKE k \in 1 .. n
  <2>2. Size(k) = Size(k - 1) + Len(texts[k]) /\ texts[k] \in Seq(Alphabet)
    BY JoinStep DEF Bytes
  <2>3. Len(texts[k]) \in Nat
    BY <2>2
  <2>4. k - 1 \in 0 .. n
    BY <1>1
  <2>5. Size(k - 1) \in Nat
    BY <1>2, <2>4
  <2> HIDE DEF Size, n
  <2>6. QED
    BY <2>2, <2>3, <2>5
<1> HIDE DEF n, Size
<1>4. 0 \in S
  <2>1. 0 >= j => j = 0
    BY <1>1
  <2>2. Size(0) \in Nat
    BY <1>1, <1>2
  <2>3. QED
    BY <1>1, <2>1, <2>2
<1>5. ASSUME NEW k \in 1 .. n, k - 1 \in S PROVE k \in S
  <2>1. k \in 0 .. n /\ k - 1 \in 0 .. n /\ (k >= j => k = j \/ k - 1 >= j)
    BY <1>1
  <2>2. Size(k) \in Nat /\ Size(k - 1) \in Nat /\ Size(j) \in Nat /\ Size(k) >= Size(k - 1)
    BY <1>1, <1>2, <1>3, <2>1
  <2>3. QED
    BY <1>5, <2>1, <2>2
<1>6. \A k \in 0 .. n : k \in S
  <2> HIDE DEF S
  <2>1. QED
    BY <1>1, <1>4, <1>5, UpTo
<1>7. n \in S
  BY <1>1, <1>6
<1>8. QED
  BY <1>1, <1>7 DEF Concat, Size, n

\* Texts that are empty add nothing.
LEMMA JoinsOfEmpty ==
  ASSUME NEW texts \in Seq(Bytes), NEW j \in 0 .. Len(texts), NEW m \in j .. Len(texts),
         \A i \in j + 1 .. m : texts[i] = <<>>
  PROVE  Joins(texts)[m] = Joins(texts)[j]
<1> DEFINE n == Len(texts)
           S == {k \in 0 .. m : k >= j => Joins(texts)[k] = Joins(texts)[j]}
<1>1. n \in Nat /\ j \in 0 .. n /\ m \in 0 .. n /\ j <= m
  OBVIOUS
<1>2. \A k \in 0 .. n : Joins(texts)[k] \in Bytes
  BY JoinsType
<1>3. \A k \in 1 .. n : Joins(texts)[k] = Joins(texts)[k - 1] \o texts[k]
  BY JoinsRule
<1>4. \A s \in Bytes : s \o <<>> = s
  BY ConcatEmptySeq DEF Bytes
<1> HIDE DEF n
<1>5. 0 \in S
  BY <1>1
<1>6. ASSUME NEW k \in 1 .. m, k - 1 \in S PROVE k \in S
  <2>1. k \in 0 .. m /\ k \in 1 .. n /\ k - 1 \in 0 .. n
    BY <1>1
  <2>2. CASE k <= j
    <3>1. k >= j => k = j
      BY <1>1, <2>2
    <3>2. QED
      BY <2>1, <3>1
  <2>3. CASE k > j
    <3>1. k \in j + 1 .. m /\ k - 1 >= j
      BY <1>1, <2>3
    <3>2. Joins(texts)[k - 1] = Joins(texts)[j]
      BY <1>6, <3>1
    <3>3. Joins(texts)[k] = Joins(texts)[k - 1] \o <<>>
      BY <1>3, <2>1, <3>1
    <3>4. Joins(texts)[k] = Joins(texts)[k - 1]
      BY <1>2, <1>4, <2>1, <3>3
    <3>5. QED
      BY <2>1, <3>2, <3>4
  <2>4. QED
    BY <1>1, <2>2, <2>3
<1>7. \A k \in 0 .. m : k \in S
  <2>1. m \in Nat
    BY <1>1
  <2> HIDE DEF S
  <2>2. QED
    BY <1>5, <1>6, <2>1, UpTo
<1>8. m \in S
  BY <1>1, <1>7
<1>9. QED
  BY <1>1, <1>8

\* Each text is in the join, with the texts before it and those behind it.
LEMMA JoinsHold ==
  ASSUME NEW texts \in Seq(Bytes), NEW j \in 1 .. Len(texts)
  PROVE  \E a, b \in Bytes : Concat(texts) = (a \o texts[j]) \o b
<1> DEFINE n == Len(texts)
           Around(k) == \E a, b \in Bytes : Joins(texts)[k] = (a \o texts[j]) \o b
           S == {k \in 0 .. n : k >= j => Around(k)}
<1>1. n \in Nat /\ j \in 1 .. n /\ <<>> \in Bytes /\ texts[j] \in Bytes
  BY DEF Bytes
<1>2. \A s, t \in Bytes : s \o t \in Bytes
  BY DEF Bytes
<1>3. 0 \in S
  BY <1>1
<1>4. ASSUME NEW k \in 1 .. n, k - 1 \in S PROVE k \in S
  <2>1. /\ Joins(texts)[k] = Joins(texts)[k - 1] \o texts[k]
        /\ texts[k] \in Bytes /\ Joins(texts)[k - 1] \in Bytes
    BY JoinStep
  <2>2. k \in 0 .. n
    BY <1>1
  <2>3. CASE k < j
    BY <2>2, <2>3
  <2>4. CASE k = j
    <3>1. (Joins(texts)[k - 1] \o texts[j]) \o <<>> = Joins(texts)[k]
      <4>1. Joins(texts)[k - 1] \o texts[j] \in Seq(Alphabet)
        BY <1>1, <1>2, <2>1 DEF Bytes
      <4>2. QED
        BY <2>1, <2>4, <4>1, ConcatEmptySeq
    <3>2. Around(k)
      BY <1>1, <2>1, <3>1
    <3>3. QED
      BY <2>2, <3>2
  <2>5. CASE k > j
    <3>1. Around(k - 1)
      <4>1. k - 1 >= j
        BY <1>1, <2>5
      <4> HIDE DEF Around
      <4>2. QED
        BY <1>4, <4>1
    <3>2. PICK a \in Bytes, b \in Bytes : Joins(texts)[k - 1] = (a \o texts[j]) \o b
      BY <3>1
    <3>3. Joins(texts)[k] = (a \o texts[j]) \o (b \o texts[k])
      <4>1. a \o texts[j] \in Bytes /\ texts[k] \in Bytes
        BY <1>1, <1>2, <2>1 DEF Bytes
      <4>2. ((a \o texts[j]) \o b) \o texts[k] = (a \o texts[j]) \o (b \o texts[k])
        BY <4>1, Associative, Zenon
      <4>3. QED
        BY <2>1, <3>2, <4>2, Zenon
    <3>4. b \o texts[k] \in Bytes
      BY <1>2, <2>1
    <3>5. Around(k)
      BY <3>3, <3>4
    <3>6. QED
      BY <2>2, <3>5
  <2>6. k < j \/ k = j \/ k > j
    BY <1>1
  <2>7. QED
    BY <2>3, <2>4, <2>5, <2>6, Zenon
<1>5. \A k \in 0 .. n : k \in S
  <2> HIDE DEF S, n
  <2>1. QED
    BY <1>1, <1>3, <1>4, UpTo
<1>6. Around(n)
  <2>1. n \in 0 .. n
    BY <1>1
  <2>2. n \in S
    BY <1>5, <2>1, Zenon
  <2> HIDE DEF Around, n
  <2>3. QED
    BY <1>1, <2>2
<1>7. QED
  BY <1>6 DEF Concat

-----------------------------------------------------------------------------
(* Appending to an output with room.                                       *)

\* `after` is `before` with `text` appended, or the refusal to do so.
Appended(before, text, room, after) ==
  /\ after \in Accs /\ Len(after.text) < room
  /\ after.fits => before.fits /\ after.text = before.text \o text
  /\ ~after.fits => ~before.fits \/ Len(before.text) + Len(text) >= room

\* append_text leaves an output.
LEMMA AppendTextType ==
  ASSUME NEW acc \in Accs, NEW text \in Bytes, NEW room
  PROVE  AppendText(acc, text, room) \in Accs
<1>1. acc.text \in Bytes /\ acc.text \o text \in Bytes
  BY DEF Accs, Bytes
<1>2. \A t \in Bytes : [acc EXCEPT !.text = t] \in Accs
  BY DEF Accs
<1>3. [acc EXCEPT !.fits = FALSE] \in Accs
  BY DEF Accs
<1>4. QED
  BY <1>1, <1>2, <1>3 DEF AppendText

\* One text.
LEMMA TextAppended ==
  ASSUME NEW acc \in Accs, NEW text \in Bytes, NEW room \in Nat, Len(acc.text) < room
  PROVE  Appended(acc, text, room, AppendText(acc, text, room))
<1>1. acc.text \in Seq(Alphabet) /\ text \in Seq(Alphabet) /\ acc.fits \in BOOLEAN
  BY DEF Accs, Bytes
<1>2. AppendText(acc, text, room) \in Accs
  BY AppendTextType
<1>3. CASE ~acc.fits
  <2>1. AppendText(acc, text, room) = acc
    BY <1>3 DEF AppendText
  <2>2. QED
    BY <1>3, <2>1 DEF Appended
<1>4. CASE acc.fits /\ text = <<>>
  <2>1. AppendText(acc, text, room) = acc
    BY <1>4 DEF AppendText
  <2>2. acc.text \o text = acc.text
    BY <1>1, <1>4, ConcatEmptySeq
  <2>3. QED
    BY <1>4, <2>1, <2>2 DEF Appended
<1>5. CASE acc.fits /\ text # <<>> /\ Len(acc.text) + Len(text) >= room
  <2>1. AppendText(acc, text, room) = [acc EXCEPT !.fits = FALSE]
    BY <1>5 DEF AppendText
  <2>2. [acc EXCEPT !.fits = FALSE].text = acc.text /\ ~[acc EXCEPT !.fits = FALSE].fits
    BY DEF Accs
  <2>3. QED
    BY <1>2, <1>5, <2>1, <2>2 DEF Appended
<1>6. CASE acc.fits /\ text # <<>> /\ ~(Len(acc.text) + Len(text) >= room)
  <2>1. AppendText(acc, text, room) = [acc EXCEPT !.text = acc.text \o text]
    BY <1>6 DEF AppendText
  <2>2. /\ [acc EXCEPT !.text = acc.text \o text].text = acc.text \o text
        /\ [acc EXCEPT !.text = acc.text \o text].fits = acc.fits
    BY DEF Accs
  <2>3. Len(acc.text \o text) < room
    BY <1>1, <1>6
  <2>4. QED
    BY <1>2, <1>6, <2>1, <2>2, <2>3 DEF Appended
<1>7. QED
  BY <1>1, <1>3, <1>4, <1>5, <1>6, Zenon

\* Nothing.
LEMMA NothingAppended ==
  ASSUME NEW acc \in Accs, NEW room \in Nat, Len(acc.text) < room
  PROVE  Appended(acc, <<>>, room, acc)
<1>1. acc.text \in Seq(Alphabet)
  BY DEF Accs, Bytes
<1>2. acc.text \o <<>> = acc.text
  BY <1>1, ConcatEmptySeq
<1>3. QED
  BY <1>2 DEF Appended

\* One text and then another.
LEMMA BothAppended ==
  ASSUME NEW acc \in Accs, NEW room \in Nat, NEW s \in Bytes, NEW t \in Bytes, NEW mid, NEW after,
         Appended(acc, s, room, mid), Appended(mid, t, room, after)
  PROVE  Appended(acc, s \o t, room, after)
<1>1. /\ acc.text \in Seq(Alphabet) /\ s \in Seq(Alphabet) /\ t \in Seq(Alphabet)
      /\ mid.text \in Seq(Alphabet) /\ mid.fits \in BOOLEAN /\ after.fits \in BOOLEAN
  BY DEF Accs, Bytes, Appended
<1>2. (acc.text \o s) \o t = acc.text \o (s \o t)
  <2>1. acc.text \in Bytes
    BY <1>1 DEF Bytes
  <2>2. QED
    BY <2>1, Associative, Zenon
<1>3. Len(s \o t) = Len(s) + Len(t) /\ Len(acc.text \o s) = Len(acc.text) + Len(s)
  BY <1>1
<1>4. Len(s) \in Nat /\ Len(t) \in Nat /\ Len(acc.text) \in Nat
  BY <1>1
<1>5. CASE after.fits
  <2>1. mid.fits /\ after.text = mid.text \o t
    BY <1>5 DEF Appended
  <2>2. acc.fits /\ mid.text = acc.text \o s
    BY <2>1 DEF Appended
  <2>3. after.text = acc.text \o (s \o t)
    BY <1>2, <2>1, <2>2
  <2>4. QED
    BY <1>5, <2>2, <2>3 DEF Appended
<1>6. CASE ~after.fits
  <2>1. ~mid.fits \/ Len(mid.text) + Len(t) >= room
    BY <1>6 DEF Appended
  <2>2. ~mid.fits => ~acc.fits \/ Len(acc.text) + Len(s) >= room
    BY DEF Appended
  <2>3. mid.fits => Len(mid.text) = Len(acc.text) + Len(s)
    BY <1>3 DEF Appended
  <2>4. ~acc.fits \/ Len(acc.text) + Len(s \o t) >= room
    <3> DEFINE a == Len(acc.text)
               b == Len(s)
               c == Len(t)
               m == Len(mid.text)
               w == Len(s \o t)
    <3>1. a \in Nat /\ b \in Nat /\ c \in Nat /\ w = b + c
      BY <1>3, <1>4
    <3>2. ~mid.fits \/ m + c >= room
      BY <2>1
    <3>3. ~mid.fits => ~acc.fits \/ a + b >= room
      BY <2>2
    <3>4. mid.fits => m = a + b
      BY <2>3
    <3> HIDE DEF a, b, c, m, w
    <3>5. ~acc.fits \/ a + w >= room
      <4>1. CASE mid.fits
        BY <3>1, <3>2, <3>4, <4>1
      <4>2. CASE ~mid.fits
        <5>1. a + b >= room => a + w >= room
          BY <3>1
        <5>2. QED
          BY <3>3, <4>2, <5>1
      <4>3. QED
        BY <1>1, <4>1, <4>2
    <3>6. QED
      BY <3>5 DEF a, w
  <2>5. QED
    BY <1>6, <2>4 DEF Appended
<1>7. QED
  BY <1>5, <1>6, Zenon

\* The texts of a sequence, one after the other: their join.
LEMMA AllAppended ==
  ASSUME NEW acc \in Accs, NEW texts \in Seq(Bytes), NEW room \in Nat, Len(acc.text) < room
  PROVE  Appended(acc, Concat(texts), room, AppendAll(acc, texts, room))
<1> DEFINE n == Len(texts)
           step == [x \in Accs \X (1 .. n) |-> AppendText(x[1], texts[x[2]], room)]
           Rule(f) == [k \in 0 .. n |->
                         IF k = 0 THEN acc ELSE AppendText(f[k - 1], texts[k], room)]
           F == CHOOSE f : f = Rule(f)
<1>1. n \in Nat /\ \A k \in 1 .. n : texts[k] \in Bytes
  BY DEF Bytes
<1>2. AppendAll(acc, texts, room) = F[n]
  BY Zenon DEF AppendAll
<1>3. Joins(texts)[0] = <<>>
  BY JoinsRule
<1>4. \A k \in 1 .. n : /\ Joins(texts)[k] = Joins(texts)[k - 1] \o texts[k]
                        /\ Joins(texts)[k - 1] \in Bytes
  BY JoinStep
<1>5. Concat(texts) = Joins(texts)[n]
  BY DEF Concat
<1> HIDE DEF n, F
<1>6. step \in StepFunctions(Accs, n)
  BY <1>1, AppendTextType DEF StepFunctions
<1>7. PICK f : Unrolls(f, Accs, acc, n, step)
  <2> HIDE DEF step
  <2>1. QED
    BY <1>1, <1>6, Recursion
<1>8. f = Rule(f)
  <2>1. f = [k \in 0 .. n |-> f[k]] /\ f[0] = acc
    BY <1>7 DEF Unrolls
  <2>2. ASSUME NEW k \in 1 .. n PROVE f[k] = AppendText(f[k - 1], texts[k], room)
    <3>1. f[k - 1] \in Accs
      BY <1>1, <1>7 DEF Unrolls
    <3>2. step[<<f[k - 1], k>>] = AppendText(f[k - 1], texts[k], room)
      BY <3>1
    <3> HIDE DEF step
    <3>3. QED
      BY <1>7, <3>2 DEF Unrolls
  <2>3. \A k \in 0 .. n : k = 0 \/ k \in 1 .. n
    BY <1>1
  <2>4. \A k \in 0 .. n : f[k] = IF k = 0 THEN acc ELSE AppendText(f[k - 1], texts[k], room)
    BY <2>1, <2>2, <2>3, Zenon
  <2>5. QED
    BY <2>1, <2>4, Zenon
<1>9. F = Rule(F)
  <2> HIDE DEF Rule
  <2>1. QED
    BY <1>8, Zenon DEF F
<1>10. F[0] = acc /\ \A k \in 1 .. n : F[k] = AppendText(F[k - 1], texts[k], room)
  <2>1. ASSUME NEW k \in 0 .. n
        PROVE  F[k] = IF k = 0 THEN acc ELSE AppendText(F[k - 1], texts[k], room)
    <3>1. Rule(F)[k] = IF k = 0 THEN acc ELSE AppendText(F[k - 1], texts[k], room)
      OBVIOUS
    <3> HIDE DEF Rule
    <3>2. QED
      BY <1>9, <3>1
  <2>2. 0 \in 0 .. n /\ \A k \in 1 .. n : k \in 0 .. n /\ k # 0
    BY <1>1
  <2> HIDE DEF Rule
  <2>3. QED
    BY <2>1, <2>2
<1> HIDE DEF step, Rule
<1> DEFINE S == {k \in 0 .. n : Appended(acc, Joins(texts)[k], room, F[k])}
<1>11. 0 \in S
  BY <1>1, <1>3, <1>10, NothingAppended
<1>12. ASSUME NEW k \in 1 .. n, k - 1 \in S PROVE k \in S
  <2>1. Appended(acc, Joins(texts)[k - 1], room, F[k - 1])
    BY <1>12
  <2>2. F[k - 1] \in Accs /\ Len(F[k - 1].text) < room
    BY <2>1 DEF Appended
  <2>3. Appended(F[k - 1], texts[k], room, F[k])
    BY <1>1, <1>10, <2>2, TextAppended
  <2>4. Appended(acc, Joins(texts)[k - 1] \o texts[k], room, F[k])
    BY <1>1, <1>4, <2>1, <2>3, BothAppended
  <2>5. k \in 0 .. n
    BY <1>1
  <2>6. QED
    BY <1>4, <2>4, <2>5
<1>13. \A k \in 0 .. n : k \in S
  <2> HIDE DEF S
  <2>1. QED
    BY <1>1, <1>11, <1>12, UpTo
<1>14. n \in S
  BY <1>1, <1>13
<1>15. QED
  BY <1>2, <1>5, <1>14

-----------------------------------------------------------------------------
(* The texts of a conversation.                                            *)

\* The template, the messages and the two rooms.
ChatInputs ==
  /\ {"newline", "system"} \subseteq Alphabet
  /\ template \in Seq(Alphabet)
  /\ messages \in Seq([role : Alphabet, content : Bytes])
  /\ output_size \in Nat \ {0} /\ SystemSize \in Nat \ {0}

\* The assumption and the type invariant give them.
LEMMA InputsTyped ==
  ASSUME ChatAssumption, ChatTypeOK
  PROVE  ChatInputs
<1>1. /\ {"newline", "system"} \subseteq Alphabet /\ template \in Seq(Alphabet)
      /\ messages \in Seq([role : Alphabet, content : Seq(Alphabet)])
  BY Zenon DEF ChatAssumption, ChatTypeOK
<1>2. output_size \in Nat \ {0} /\ SystemSize \in Nat \ {0}
  BY Zenon DEF ChatAssumption, ChatTypeOK
<1>3. QED
  BY <1>1, <1>2, Zenon DEF ChatInputs, Bytes

\* The elements of a sequence.
LEMMA Elements ==
  ASSUME NEW R, NEW s \in Seq(R)
  PROVE  Len(s) \in Nat /\ DOMAIN s = 1 .. Len(s) /\ \A k \in 1 .. Len(s) : s[k] \in R
OBVIOUS

\* A sequence of one element.
LEMMA OneElement ==
  ASSUME NEW R, NEW x \in R
  PROVE  <<x>> \in Seq(R)
OBVIOUS

\* A message has a role and a content.
LEMMA MessageTyped ==
  ASSUME ChatInputs
  PROVE  /\ Len(messages) \in Nat /\ DOMAIN messages = 1 .. Len(messages)
         /\ \A k \in 1 .. Len(messages) :
              messages[k].role \in Alphabet /\ messages[k].content \in Bytes
<1> DEFINE R == [role : Alphabet, content : Bytes]
<1>1. \A m \in R : m.role \in Alphabet /\ m.content \in Bytes
  OBVIOUS
<1>2. messages \in Seq(R)
  BY Zenon DEF ChatInputs
<1> HIDE DEF R
<1>3. /\ Len(messages) \in Nat /\ DOMAIN messages = 1 .. Len(messages)
      /\ \A k \in 1 .. Len(messages) : messages[k] \in R
  BY <1>2, Elements
<1>4. QED
  BY <1>1, <1>3, Zenon

\* Max of a set of positions is its greatest element.
LEMMA MaxIsGreatest ==
  ASSUME NEW n \in Nat, NEW S \in SUBSET (1 .. n), S # {}
  PROVE  Max(S) \in S /\ \A x \in S : x <= Max(S)
<1> DEFINE T == {n - x : x \in S}
<1>1. T \in SUBSET Nat /\ T # {}
  <2>1. \A x \in S : x \in 1 .. n
    OBVIOUS
  <2>2. \A x \in S : n - x \in Nat
    BY <2>1
  <2>3. QED
    BY <2>2
<1>2. PICK d \in T : \A y \in T : d <= y
  <2> HIDE DEF T
  <2>1. QED
    BY <1>1, LeastNatural
<1>3. PICK x \in S : d = n - x
  OBVIOUS
<1>4. \A y \in S : x >= y
  <2>1. TAKE y \in S
  <2>2. n - x <= n - y
    BY <1>2, <1>3
  <2>3. QED
    BY <2>2
<1>5. Max(S) \in S /\ \A y \in S : Max(S) >= y
  BY <1>4, Zenon DEF Max
<1>6. \A y \in S : y \in Int
  <2>1. \A y \in S : y \in 1 .. n
    OBVIOUS
  <2>2. QED
    BY <2>1
<1>7. QED
  BY <1>5, <1>6

\* Min of a set of positions is its least element.
LEMMA MinIsLeast ==
  ASSUME NEW S \in SUBSET Nat, S # {}
  PROVE  Min(S) \in S /\ \A x \in S : Min(S) <= x
<1>1. \E x \in S : \A y \in S : x <= y
  BY LeastNatural
<1>2. Min(S) \in S /\ \A y \in S : Min(S) =< y
  BY <1>1, Zenon DEF Min
<1>3. QED
  BY <1>2

\* The last text of the user is a text.
LEMMA LastUserTyped ==
  ASSUME ChatInputs
  PROVE  LastUser \in Bytes
<1> DEFINE users == {i \in DOMAIN messages : messages[i].role = "user"}
<1>1. users \in SUBSET (1 .. Len(messages)) /\ Len(messages) \in Nat
  BY MessageTyped
<1>2. CASE users = {}
  BY <1>2 DEF LastUser, Bytes
<1>3. CASE users # {}
  <2>1. LastUser = messages[Max(users)].content
    BY <1>3, Zenon DEF LastUser
  <2> HIDE DEF users
  <2>2. Max(users) \in 1 .. Len(messages)
    BY <1>1, <1>3, MaxIsGreatest
  <2>3. QED
    BY <2>1, <2>2, MessageTyped
<1>4. QED
  BY <1>2, <1>3, Zenon

\* The joined system messages are a text.
LEMMA JoinSystemTyped ==
  ASSUME ChatInputs
  PROVE  JoinSystem \in Accs /\ System \in Bytes
<1> DEFINE n == Len(messages)
           step == [x \in Accs \X (1 .. n) |-> AddSystem(x[1], messages[x[2]])]
           Rule(f) == [k \in 0 .. n |-> IF k = 0 THEN Empty ELSE AddSystem(f[k - 1], messages[k])]
           F == CHOOSE f : f = Rule(f)
<1>1. /\ n \in Nat
      /\ \A k \in 1 .. n : messages[k].role \in Alphabet /\ messages[k].content \in Bytes
  BY MessageTyped
<1>2. Empty \in Accs /\ <<Newline>> \in Bytes
  <2>0. <<>> \in Seq(Alphabet)
    OBVIOUS
  <2>1. Newline \in Alphabet
    BY DEF Newline, ChatInputs
  <2>2. <<Newline>> \in Seq(Alphabet)
    BY <2>1, OneElement
  <2>3. QED
    BY <2>0, <2>2 DEF Empty, Accs, Bytes
<1>3. \A acc \in Accs, k \in 1 .. n : AddSystem(acc, messages[k]) \in Accs
  BY <1>1, <1>2, AppendTextType DEF AddSystem
<1>4. JoinSystem = F[n]
  BY Zenon DEF JoinSystem
<1> HIDE DEF n, F
<1>5. step \in StepFunctions(Accs, n)
  BY <1>3 DEF StepFunctions
<1>6. PICK f : Unrolls(f, Accs, Empty, n, step)
  <2> HIDE DEF step
  <2>1. QED
    BY <1>1, <1>2, <1>5, Recursion
<1>7. f = Rule(f)
  <2>1. f = [k \in 0 .. n |-> f[k]] /\ f[0] = Empty
    BY <1>6 DEF Unrolls
  <2>2. ASSUME NEW k \in 1 .. n PROVE f[k] = AddSystem(f[k - 1], messages[k])
    <3>1. f[k - 1] \in Accs
      BY <1>1, <1>6 DEF Unrolls
    <3>2. step[<<f[k - 1], k>>] = AddSystem(f[k - 1], messages[k])
      BY <3>1
    <3> HIDE DEF step
    <3>3. QED
      BY <1>6, <3>2 DEF Unrolls
  <2>3. \A k \in 0 .. n : k = 0 \/ k \in 1 .. n
    BY <1>1
  <2>4. \A k \in 0 .. n : f[k] = IF k = 0 THEN Empty ELSE AddSystem(f[k - 1], messages[k])
    BY <2>1, <2>2, <2>3, Zenon
  <2>5. QED
    BY <2>1, <2>4, Zenon
<1>8. F = Rule(F)
  <2> HIDE DEF Rule
  <2>1. QED
    BY <1>7, Zenon DEF F
<1>9. F[0] = Empty /\ \A k \in 1 .. n : F[k] = AddSystem(F[k - 1], messages[k])
  <2>1. ASSUME NEW k \in 0 .. n
        PROVE  F[k] = IF k = 0 THEN Empty ELSE AddSystem(F[k - 1], messages[k])
    <3>1. Rule(F)[k] = IF k = 0 THEN Empty ELSE AddSystem(F[k - 1], messages[k])
      OBVIOUS
    <3> HIDE DEF Rule
    <3>2. QED
      BY <1>8, <3>1
  <2>2. 0 \in 0 .. n /\ \A k \in 1 .. n : k \in 0 .. n /\ k # 0
    BY <1>1
  <2> HIDE DEF Rule
  <2>3. QED
    BY <2>1, <2>2
<1> HIDE DEF step, Rule
<1> DEFINE S == {k \in 0 .. n : F[k] \in Accs}
<1>10. 0 \in S
  BY <1>1, <1>2, <1>9
<1>11. ASSUME NEW k \in 1 .. n, k - 1 \in S PROVE k \in S
  <2>1. k \in 0 .. n
    BY <1>1
  <2>2. QED
    BY <1>3, <1>9, <1>11, <2>1
<1>12. \A k \in 0 .. n : k \in S
  <2> HIDE DEF S
  <2>1. QED
    BY <1>1, <1>10, <1>11, UpTo
<1>13. n \in S
  BY <1>1, <1>12
<1>14. JoinSystem \in Accs
  BY <1>4, <1>13
<1>15. QED
  BY <1>14 DEF System, Accs

\* A symbol is replaced by a text.
LEMMA ReplacementTyped ==
  ASSUME ChatInputs, NEW symbol \in Alphabet, NEW role \in Alphabet, NEW content \in Bytes
  PROVE  Replacement(symbol, role, content) \in Bytes
<1>1. LastUser \in Bytes /\ System \in Bytes
  BY LastUserTyped, JoinSystemTyped
<1>2. <<role>> \in Bytes /\ <<symbol>> \in Bytes
  BY OneElement DEF Bytes
<1>3. QED
  BY <1>1, <1>2, Zenon DEF Replacement

\* The texts a section is replaced by, symbol by symbol.
Filling(inner, role, content) == [k \in DOMAIN inner |-> Replacement(inner[k], role, content)]

\* A function on the positions 1 .. n is a sequence.
LEMMA ListTyped ==
  ASSUME NEW R, NEW n \in Nat, NEW f, f = [k \in 1 .. n |-> f[k]], \A k \in 1 .. n : f[k] \in R
  PROVE  f \in Seq(R) /\ Len(f) = n /\ DOMAIN f = 1 .. n
OBVIOUS

\* They are texts, one for each symbol.
LEMMA FillingTyped ==
  ASSUME ChatInputs, NEW inner \in Seq(Alphabet), NEW role \in Alphabet, NEW content \in Bytes
  PROVE  /\ Filling(inner, role, content) \in Seq(Bytes)
         /\ Len(Filling(inner, role, content)) = Len(inner)
         /\ \A k \in 1 .. Len(inner) :
              Filling(inner, role, content)[k] = Replacement(inner[k], role, content)
<1>1. /\ Len(inner) \in Nat /\ DOMAIN inner = 1 .. Len(inner)
      /\ \A k \in 1 .. Len(inner) : inner[k] \in Alphabet
  BY Elements
<1>2. \A k \in 1 .. Len(inner) : Replacement(inner[k], role, content) \in Bytes
  BY <1>1, ReplacementTyped
<1>3. Filling(inner, role, content)
        = [k \in 1 .. Len(inner) |-> Replacement(inner[k], role, content)]
  BY <1>1, Zenon DEF Filling
<1> DEFINE f == Filling(inner, role, content)
<1>4. f = [k \in 1 .. Len(inner) |-> f[k]] /\ \A k \in 1 .. Len(inner) : f[k] \in Bytes
  BY <1>2, <1>3
<1> HIDE DEF f
<1>5. f \in Seq(Bytes) /\ Len(f) = Len(inner)
  BY <1>1, <1>4, ListTyped
<1>6. QED
  BY <1>3, <1>5 DEF f

\* A section for one message is a text.
LEMMA FilledTyped ==
  ASSUME ChatInputs, NEW inner \in Seq(Alphabet), NEW role \in Alphabet, NEW content \in Bytes
  PROVE  Filled(inner, role, content) \in Bytes
<1>1. Filling(inner, role, content) \in Seq(Bytes)
  BY FillingTyped
<1>2. Filled(inner, role, content) = Concat(Filling(inner, role, content))
  BY Zenon DEF Filled, Filling
<1>3. QED
  BY <1>1, <1>2, ConcatTyped

\* What the code writes for one section and one message.
LEMMA SectionAppended ==
  ASSUME ChatInputs, NEW acc \in Accs, Len(acc.text) < output_size,
         NEW inner \in Seq(Alphabet), NEW role \in Alphabet, NEW content \in Bytes
  PROVE  Appended(acc, Filled(inner, role, content), output_size,
                  Expand(acc, inner, role, content))
<1>1. Filling(inner, role, content) \in Seq(Bytes)
  BY FillingTyped
<1>2. Filled(inner, role, content) = Concat(Filling(inner, role, content))
  BY Zenon DEF Filled, Filling
<1>3. Expand(acc, inner, role, content)
        = AppendAll(acc, Filling(inner, role, content), output_size)
  BY Zenon DEF Expand, Filling
<1>4. output_size \in Nat
  BY DEF ChatInputs
<1>5. Appended(acc, Concat(Filling(inner, role, content)), output_size,
               AppendAll(acc, Filling(inner, role, content), output_size))
  BY <1>1, <1>4, AllAppended
<1>6. QED
  BY <1>2, <1>3, <1>5, Zenon

\* The texts of the turns.
LEMMA TurnsTyped ==
  ASSUME ChatInputs, NEW inner \in Seq(Alphabet)
  PROVE  /\ FilledTurns(inner) \in Seq(Bytes)
         /\ Len(FilledTurns(inner)) = Len(messages)
         /\ DOMAIN FilledTurns(inner) = 1 .. Len(messages)
<1> DEFINE n == Len(messages)
           f == FilledTurns(inner)
           Text(k) == IF messages[k].role = "system" THEN <<>>
                      ELSE Filled(inner, messages[k].role, messages[k].content)
<1>1. /\ n \in Nat /\ DOMAIN messages = 1 .. n
      /\ \A k \in 1 .. n : messages[k].role \in Alphabet /\ messages[k].content \in Bytes
  BY MessageTyped
<1>2. f = [k \in 1 .. n |-> Text(k)]
  BY <1>1, Zenon DEF FilledTurns
<1>3. \A k \in 1 .. n : Text(k) \in Bytes
  <2>1. TAKE k \in 1 .. n
  <2>2. Filled(inner, messages[k].role, messages[k].content) \in Bytes
    BY <1>1, FilledTyped
  <2>3. <<>> \in Bytes
    BY DEF Bytes
  <2>4. QED
    BY <2>2, <2>3, Zenon
<1> HIDE DEF f, n, Text
<1>4. f = [k \in 1 .. n |-> f[k]] /\ \A k \in 1 .. n : f[k] \in Bytes
  BY <1>2, <1>3
<1>5. f \in Seq(Bytes) /\ Len(f) = n /\ DOMAIN f = 1 .. n
  BY <1>1, <1>4, ListTyped
<1>6. QED
  BY <1>5 DEF f, n

\* What the loop of the section of turns does with one message.
LEMMA TurnAppended ==
  ASSUME ChatInputs, NEW acc \in Accs, Len(acc.text) < output_size,
         NEW inner \in Seq(Alphabet), NEW k \in 1 .. Len(messages)
  PROVE  Appended(acc, FilledTurns(inner)[k], output_size, AddTurn(acc, inner, messages[k]))
<1>1. /\ DOMAIN messages = 1 .. Len(messages)
      /\ messages[k].role \in Alphabet /\ messages[k].content \in Bytes
  BY MessageTyped
<1>2. FilledTurns(inner)[k] = IF messages[k].role = "system" THEN <<>>
                              ELSE Filled(inner, messages[k].role, messages[k].content)
  BY <1>1 DEF FilledTurns
<1>3. output_size \in Nat
  BY DEF ChatInputs
<1>4. CASE messages[k].role = "system"
  <2>1. Appended(acc, <<>>, output_size, acc)
    BY <1>3, NothingAppended
  <2>2. AddTurn(acc, inner, messages[k]) = acc
    BY <1>4, Zenon DEF AddTurn
  <2>3. FilledTurns(inner)[k] = <<>>
    BY <1>2, <1>4, Zenon
  <2>4. QED
    BY <2>1, <2>2, <2>3, Zenon
<1>5. CASE messages[k].role # "system"
  <2>1. Appended(acc, Filled(inner, messages[k].role, messages[k].content), output_size,
                 Expand(acc, inner, messages[k].role, messages[k].content))
    BY <1>1, SectionAppended
  <2>2. AddTurn(acc, inner, messages[k])
          = Expand(acc, inner, messages[k].role, messages[k].content)
    BY <1>5, Zenon DEF AddTurn
  <2>3. FilledTurns(inner)[k] = Filled(inner, messages[k].role, messages[k].content)
    BY <1>2, <1>5, Zenon
  <2>4. QED
    BY <2>1, <2>2, <2>3, Zenon
<1>6. QED
  BY <1>4, <1>5, Zenon

\* What the code writes for the section of turns.
LEMMA TurnsAppended ==
  ASSUME ChatInputs, NEW acc \in Accs, Len(acc.text) < output_size, NEW inner \in Seq(Alphabet)
  PROVE  Appended(acc, Concat(FilledTurns(inner)), output_size, Turns(acc, inner))
<1> DEFINE n == Len(messages)
           Short == {a \in Accs : Len(a.text) < output_size}
           texts == FilledTurns(inner)
           step == [x \in Short \X (1 .. n) |-> AddTurn(x[1], inner, messages[x[2]])]
           Rule(f) == [k \in 0 .. n |->
                         IF k = 0 THEN acc ELSE AddTurn(f[k - 1], inner, messages[k])]
           F == CHOOSE f : f = Rule(f)
<1>1. n \in Nat /\ output_size \in Nat /\ acc \in Short
  BY MessageTyped DEF ChatInputs
<1>2. texts \in Seq(Bytes) /\ Len(texts) = n
  BY TurnsTyped
<1>3. \A a \in Short, k \in 1 .. n :
        Appended(a, texts[k], output_size, AddTurn(a, inner, messages[k]))
  BY TurnAppended
<1>4. \A a \in Short, k \in 1 .. n : AddTurn(a, inner, messages[k]) \in Short
  BY <1>3 DEF Appended
<1>5. Turns(acc, inner) = F[n]
  BY Zenon DEF Turns
<1>6. Joins(texts)[0] = <<>>
  BY <1>2, JoinsRule
<1>7. \A k \in 1 .. n : /\ Joins(texts)[k] = Joins(texts)[k - 1] \o texts[k]
                        /\ Joins(texts)[k - 1] \in Bytes /\ texts[k] \in Bytes
  <2> HIDE DEF texts
  <2>1. QED
    BY <1>2, JoinStep
<1>8. Concat(texts) = Joins(texts)[n]
  BY <1>2, Zenon DEF Concat
<1> HIDE DEF n, F, texts
<1>9. step \in StepFunctions(Short, n)
  <2> HIDE DEF Short
  <2>1. QED
    BY <1>4 DEF StepFunctions
<1>10. PICK f : Unrolls(f, Short, acc, n, step)
  <2> HIDE DEF step, Short
  <2>1. QED
    BY <1>1, <1>9, Recursion
<1>11. f = Rule(f)
  <2> HIDE DEF Short
  <2>1. f = [k \in 0 .. n |-> f[k]] /\ f[0] = acc
    BY <1>10 DEF Unrolls
  <2>2. ASSUME NEW k \in 1 .. n PROVE f[k] = AddTurn(f[k - 1], inner, messages[k])
    <3>1. f[k - 1] \in Short
      BY <1>1, <1>10 DEF Unrolls
    <3>2. step[<<f[k - 1], k>>] = AddTurn(f[k - 1], inner, messages[k])
      BY <3>1
    <3> HIDE DEF step
    <3>3. QED
      BY <1>10, <3>2 DEF Unrolls
  <2>3. \A k \in 0 .. n : k = 0 \/ k \in 1 .. n
    BY <1>1
  <2>4. \A k \in 0 .. n : f[k] = IF k = 0 THEN acc ELSE AddTurn(f[k - 1], inner, messages[k])
    BY <2>1, <2>2, <2>3, Zenon
  <2>5. QED
    BY <2>1, <2>4, Zenon
<1>12. F = Rule(F)
  <2> HIDE DEF Rule
  <2>1. QED
    BY <1>11, Zenon DEF F
<1>13. F[0] = acc /\ \A k \in 1 .. n : F[k] = AddTurn(F[k - 1], inner, messages[k])
  <2>1. ASSUME NEW k \in 0 .. n
        PROVE  F[k] = IF k = 0 THEN acc ELSE AddTurn(F[k - 1], inner, messages[k])
    <3>1. Rule(F)[k] = IF k = 0 THEN acc ELSE AddTurn(F[k - 1], inner, messages[k])
      OBVIOUS
    <3> HIDE DEF Rule
    <3>2. QED
      BY <1>12, <3>1
  <2>2. 0 \in 0 .. n /\ \A k \in 1 .. n : k \in 0 .. n /\ k # 0
    BY <1>1
  <2> HIDE DEF Rule
  <2>3. QED
    BY <2>1, <2>2
<1> HIDE DEF step, Rule
<1> DEFINE S == {k \in 0 .. n : Appended(acc, Joins(texts)[k], output_size, F[k])}
<1>14. 0 \in S
  BY <1>1, <1>6, <1>13, NothingAppended
<1>15. ASSUME NEW k \in 1 .. n, k - 1 \in S PROVE k \in S
  <2>1. Appended(acc, Joins(texts)[k - 1], output_size, F[k - 1])
    BY <1>15
  <2>2. F[k - 1] \in Short
    BY <2>1 DEF Appended
  <2> HIDE DEF Short
  <2>3. Appended(F[k - 1], texts[k], output_size, F[k])
    BY <1>3, <1>13, <2>2
  <2>4. Appended(acc, Joins(texts)[k - 1] \o texts[k], output_size, F[k])
    BY <1>1, <1>7, <2>1, <2>3, BothAppended
  <2>5. k \in 0 .. n
    BY <1>1
  <2>6. QED
    BY <1>7, <2>4, <2>5
<1>16. \A k \in 0 .. n : k \in S
  <2> HIDE DEF S
  <2>1. QED
    BY <1>1, <1>14, <1>15, UpTo
<1>17. n \in S
  BY <1>1, <1>16
<1>18. QED
  BY <1>5, <1>8, <1>17 DEF texts

-----------------------------------------------------------------------------
(* The sections of a template.                                             *)

\* The mode at each position, by that at the position before it.
LEMMA ModeRule ==
  ASSUME ChatInputs
  PROVE  /\ Mode[0] = "top"
         /\ \A i \in 1 .. Len(template) : Mode[i] = NextMode(Mode[i - 1], template[i])
         /\ \A i \in 0 .. Len(template) : Mode[i] \in {"top", "system", "message"}
<1> DEFINE n == Len(template)
           Modes == {"top", "system", "message"}
           step == [x \in Modes \X (1 .. n) |-> NextMode(x[1], template[x[2]])]
           Rule(f) == [i \in 0 .. n |-> IF i = 0 THEN "top" ELSE NextMode(f[i - 1], template[i])]
           F == CHOOSE f : f = Rule(f)
<1>1. n \in Nat
  BY Elements DEF ChatInputs
<1>2. \A m \in Modes : \A symbol : NextMode(m, symbol) \in Modes
  BY DEF NextMode
<1>3. "top" \in Modes
  OBVIOUS
<1>4. Mode = F
  BY Zenon DEF Mode
<1> HIDE DEF n, F, Modes
<1>5. step \in StepFunctions(Modes, n)
  BY <1>2 DEF StepFunctions
<1>6. PICK f : Unrolls(f, Modes, "top", n, step)
  <2> HIDE DEF step
  <2>1. QED
    BY <1>1, <1>3, <1>5, Recursion
<1>7. f = Rule(f)
  <2>1. f = [i \in 0 .. n |-> f[i]] /\ f[0] = "top"
    BY <1>6 DEF Unrolls
  <2>2. ASSUME NEW i \in 1 .. n PROVE f[i] = NextMode(f[i - 1], template[i])
    <3>1. f[i - 1] \in Modes
      BY <1>1, <1>6 DEF Unrolls
    <3>2. step[<<f[i - 1], i>>] = NextMode(f[i - 1], template[i])
      BY <3>1
    <3> HIDE DEF step
    <3>3. QED
      BY <1>6, <3>2 DEF Unrolls
  <2>3. \A i \in 0 .. n : i = 0 \/ i \in 1 .. n
    BY <1>1
  <2>4. \A i \in 0 .. n : f[i] = IF i = 0 THEN "top" ELSE NextMode(f[i - 1], template[i])
    BY <2>1, <2>2, <2>3, Zenon
  <2>5. QED
    BY <2>1, <2>4, Zenon
<1>8. F = Rule(F)
  <2> HIDE DEF Rule
  <2>1. QED
    BY <1>7, Zenon DEF F
<1>9. F[0] = "top" /\ \A i \in 1 .. n : F[i] = NextMode(F[i - 1], template[i])
  <2>1. ASSUME NEW i \in 0 .. n
        PROVE  F[i] = IF i = 0 THEN "top" ELSE NextMode(F[i - 1], template[i])
    <3>1. Rule(F)[i] = IF i = 0 THEN "top" ELSE NextMode(F[i - 1], template[i])
      OBVIOUS
    <3> HIDE DEF Rule
    <3>2. QED
      BY <1>8, <3>1
  <2>2. 0 \in 0 .. n /\ \A i \in 1 .. n : i \in 0 .. n /\ i # 0
    BY <1>1
  <2> HIDE DEF Rule
  <2>3. QED
    BY <2>1, <2>2
<1> HIDE DEF step, Rule
<1> DEFINE S == {i \in 0 .. n : F[i] \in Modes}
<1>10. 0 \in S
  BY <1>1, <1>3, <1>9
<1>11. ASSUME NEW i \in 1 .. n, i - 1 \in S PROVE i \in S
  <2>1. i \in 0 .. n
    BY <1>1
  <2>2. QED
    BY <1>2, <1>9, <1>11, <2>1
<1>12. \A i \in 0 .. n : i \in S
  <2> HIDE DEF S
  <2>1. QED
    BY <1>1, <1>10, <1>11, UpTo
<1>13. QED
  BY <1>4, <1>9, <1>12 DEF n, Modes

\* The marks of the two sections: opening, the mode inside, closing.
Section(opening, section, closing) ==
  \/ opening = "#system" /\ section = "system" /\ closing = "/system"
  \/ opening = "#message" /\ section = "message" /\ closing = "/message"

\* A section lasts until its closing mark.
LEMMA SectionLasts ==
  ASSUME ChatInputs, NEW c \in 1 .. Len(template), Mode[c - 1] = "top",
         NEW section, NEW closing, Section(template[c], section, closing),
         NEW e \in c + 1 .. Len(template) + 1, \A j \in c + 1 .. e - 1 : template[j] # closing
  PROVE  \A j \in c .. e - 1 : Mode[j] = section
<1> DEFINE n == Len(template)
           S == {j \in 0 .. e - 1 : j >= c => Mode[j] = section}
<1>1. n \in Nat /\ c \in 1 .. n /\ e \in c + 1 .. n + 1
  BY Elements DEF ChatInputs
<1>2. \A j \in 1 .. n : Mode[j] = NextMode(Mode[j - 1], template[j])
  BY ModeRule
<1> HIDE DEF n
<1>3. Mode[c] = section
  BY <1>1, <1>2 DEF Section, NextMode
<1>4. 0 \in S
  BY <1>1
<1>5. ASSUME NEW j \in 1 .. e - 1, j - 1 \in S PROVE j \in S
  <2>1. j \in 0 .. e - 1 /\ j \in 1 .. n /\ (j < c \/ j = c \/ j \in c + 1 .. e - 1)
    BY <1>1
  <2>2. CASE j < c
    <3>1. ~(j >= c)
      BY <1>1, <2>2
    <3>2. QED
      BY <2>1, <3>1
  <2>3. CASE j = c
    BY <1>3, <2>1, <2>3
  <2>4. CASE j \in c + 1 .. e - 1
    <3>1. j - 1 >= c
      BY <1>1, <2>4
    <3>2. Mode[j - 1] = section
      BY <1>5, <3>1
    <3>3. template[j] # closing
      BY <2>4
    <3>4. Mode[j] = NextMode(section, template[j])
      BY <1>2, <2>1, <3>2
    <3>5. Mode[j] = section
      BY <3>3, <3>4 DEF Section, NextMode
    <3>6. QED
      BY <2>1, <3>5
  <2>5. QED
    BY <2>1, <2>2, <2>3, <2>4, Zenon
<1>6. e - 1 \in Nat
  BY <1>1
<1>7. \A j \in 0 .. e - 1 : j \in S
  <2> HIDE DEF S
  <2>1. QED
    BY <1>4, <1>5, <1>6, UpTo
<1>8. \A j \in c .. e - 1 : j \in 0 .. e - 1 /\ j >= c
  BY <1>1
<1>9. QED
  BY <1>7, <1>8

\* Symbols inside a section and its closing mark add nothing of their own.
LEMMA InsideAddsNothing ==
  ASSUME NEW i \in DOMAIN template, Mode[i - 1] # "top"
  PROVE  Parts[i] = <<>>
<1>1. Part(i) = <<>>
  BY DEF Part
<1>2. QED
  BY <1>1, Zenon DEF Parts

\* The part of a template between two positions.
LEMMA BetweenTyped ==
  ASSUME ChatInputs, NEW a \in Nat \ {0}, NEW b \in Nat, b <= Len(template)
  PROVE  SubSeq(template, a, b) \in Seq(Alphabet)
<1>1. template \in Seq(Alphabet)
  BY DEF ChatInputs
<1>2. QED
  BY <1>1

\* The end of a section is the first position behind it outside of sections.
LEMMA SectionEndIs ==
  ASSUME ChatInputs, NEW c \in 1 .. Len(template)
  PROVE  /\ SectionEnd(c) \in c + 1 .. Len(template) + 1
         /\ SectionEnd(c) <= Len(template) => Mode[SectionEnd(c)] = "top"
         /\ \A j \in c + 1 .. SectionEnd(c) - 1 : Mode[j] # "top"
<1> DEFINE n == Len(template)
           T == {j \in c + 1 .. n : Mode[j] = "top"} \union {n + 1}
<1>1. n \in Nat /\ c \in 1 .. n
  BY Elements DEF ChatInputs
<1>2. SectionEnd(c) = Min(T)
  BY Zenon DEF SectionEnd
<1> HIDE DEF n
<1>3. T \in SUBSET Nat /\ T # {}
  BY <1>1
<1>4. SectionEnd(c) \in T /\ \A j \in T : SectionEnd(c) <= j
  <2> HIDE DEF T
  <2>1. QED
    BY <1>2, <1>3, MinIsLeast
<1>5. SectionEnd(c) \in c + 1 .. n + 1 /\ (SectionEnd(c) <= n => Mode[SectionEnd(c)] = "top")
  BY <1>1, <1>4
<1>6. ASSUME NEW j \in c + 1 .. SectionEnd(c) - 1 PROVE Mode[j] # "top"
  <2>1. j \in c + 1 .. n /\ ~(SectionEnd(c) <= j)
    BY <1>1, <1>5
  <2>2. QED
    BY <1>4, <2>1
<1>7. QED
  BY <1>5, <1>6 DEF n

\* The body of a section is a part of the template.
LEMMA BodyTyped ==
  ASSUME ChatInputs, NEW c \in 1 .. Len(template)
  PROVE  Body(c) \in Seq(Alphabet)
<1>1. SectionEnd(c) \in c + 1 .. Len(template) + 1 /\ Len(template) \in Nat
  BY SectionEndIs, Elements DEF ChatInputs
<1>2. c + 1 \in Nat \ {0} /\ SectionEnd(c) - 1 \in Nat /\ SectionEnd(c) - 1 <= Len(template)
  BY <1>1
<1>3. QED
  BY <1>2, BetweenTyped DEF Body

\* A section that is closed: its body is what the code takes for it, the template
\* is outside of sections behind it, and nothing of it but the section itself is
\* written.
LEMMA ClosedSection ==
  ASSUME ChatInputs, cursor \in 1 .. Len(template), Mode[cursor - 1] = "top",
         NEW section, NEW closing, Section(template[cursor], section, closing),
         Closes(closing) # {}
  PROVE  /\ Min(Closes(closing)) \in cursor + 1 .. Len(template)
         /\ Mode[Min(Closes(closing))] = "top"
         /\ Mode[cursor] = section
         /\ Body(cursor) = Inner(closing)
         /\ \A j \in cursor + 1 .. Min(Closes(closing)) : Parts[j] = <<>>
<1> DEFINE n == Len(template)
           c == cursor
           e == Min(Closes(closing))
<1>1. n \in Nat /\ c \in 1 .. n /\ DOMAIN template = 1 .. n
  BY Elements DEF ChatInputs
<1>2. Closes(closing) \in SUBSET Nat
  BY <1>1 DEF Closes
<1>3. e \in Closes(closing) /\ \A j \in Closes(closing) : e <= j
  <2>1. QED
    BY <1>2, MinIsLeast
<1>4. e \in c + 1 .. n /\ template[e] = closing
  BY <1>3 DEF Closes
<1>5. ASSUME NEW j \in c + 1 .. e - 1 PROVE template[j] # closing
  <2>1. j \in c + 1 .. n /\ ~(e <= j)
    BY <1>1, <1>4
  <2>2. j \notin Closes(closing)
    BY <1>3, <2>1
  <2>3. QED
    BY <2>1, <2>2 DEF Closes
<1> HIDE DEF n, c, e
<1>6. \A j \in c .. e - 1 : Mode[j] = section
  <2>1. e \in c + 1 .. n + 1
    BY <1>1, <1>4
  <2>2. QED
    BY <1>1, <1>5, <2>1, SectionLasts DEF n, c
<1>7. Mode[c] = section /\ Mode[e - 1] = section
  <2>1. c \in c .. e - 1 /\ e - 1 \in c .. e - 1
    BY <1>1, <1>4
  <2>2. QED
    BY <1>6, <2>1
<1>8. Mode[e] = "top"
  <2>1. e \in 1 .. n
    BY <1>1, <1>4
  <2>2. Mode[e] = NextMode(Mode[e - 1], template[e])
    BY <2>1, ModeRule DEF n
  <2>3. Mode[e] = NextMode(section, closing)
    BY <1>4, <1>7, <2>2
  <2>4. QED
    BY <2>3 DEF Section, NextMode
<1>9. section # "top"
  BY DEF Section
<1>10. SectionEnd(c) = e
  <2>1. /\ SectionEnd(c) \in c + 1 .. n + 1
        /\ SectionEnd(c) <= n => Mode[SectionEnd(c)] = "top"
        /\ \A j \in c + 1 .. SectionEnd(c) - 1 : Mode[j] # "top"
    BY <1>1, SectionEndIs DEF n
  <2>2. ~(e < SectionEnd(c))
    <3>1. SUFFICES ASSUME e < SectionEnd(c) PROVE FALSE
      OBVIOUS
    <3>2. e \in c + 1 .. SectionEnd(c) - 1
      BY <1>1, <1>4, <2>1, <3>1
    <3>3. QED
      BY <1>8, <2>1, <3>2
  <2>3. ~(SectionEnd(c) < e)
    <3>1. SUFFICES ASSUME SectionEnd(c) < e PROVE FALSE
      OBVIOUS
    <3>2. SectionEnd(c) \in c .. e - 1 /\ SectionEnd(c) <= n
      BY <1>1, <1>4, <2>1, <3>1
    <3>3. QED
      BY <1>6, <1>9, <2>1, <3>2
  <2>4. QED
    BY <1>1, <1>4, <2>1, <2>2, <2>3
<1>11. Body(c) = Inner(closing)
  BY <1>10 DEF Body, Inner, c, e
<1>12. ASSUME NEW j \in c + 1 .. e PROVE Parts[j] = <<>>
  <2>1. j \in 1 .. n /\ j - 1 \in c .. e - 1
    BY <1>1, <1>4
  <2>2. Mode[j - 1] # "top"
    BY <1>6, <1>9, <2>1
  <2>3. j \in DOMAIN template
    BY <1>1, <2>1
  <2>4. QED
    BY <2>2, <2>3, InsideAddsNothing
<1>13. QED
  BY <1>4, <1>7, <1>8, <1>11, <1>12 DEF n, c, e

\* A section that is not closed leaves the template inside of it.
LEMMA UnclosedSection ==
  ASSUME ChatInputs, cursor \in 1 .. Len(template), Mode[cursor - 1] = "top",
         NEW section, NEW closing, Section(template[cursor], section, closing),
         Closes(closing) = {}
  PROVE  ~WellFormed
<1> DEFINE n == Len(template)
<1>1. n \in Nat /\ cursor \in 1 .. n
  BY Elements DEF ChatInputs
<1>2. n + 1 \in cursor + 1 .. n + 1 /\ n \in cursor .. (n + 1) - 1
  BY <1>1
<1>3. \A j \in cursor + 1 .. n : template[j] # closing
  BY DEF Closes
<1>4. \A j \in cursor + 1 .. (n + 1) - 1 : template[j] # closing
  BY <1>1, <1>3
<1>5. \A j \in cursor .. (n + 1) - 1 : Mode[j] = section
  <2> HIDE DEF n
  <2>1. QED
    BY <1>1, <1>2, <1>4, SectionLasts DEF n
<1>6. Mode[n] = section
  BY <1>2, <1>5
<1>7. QED
  BY <1>6 DEF WellFormed, Section

\* What a symbol outside of sections adds.
LEMMA TopPart ==
  ASSUME ChatInputs, NEW i \in 1 .. Len(template), Mode[i - 1] = "top", Mode[i] = "top"
  PROVE  Part(i) = IF template[i] = "prompt"
                   THEN IF Has("#message") THEN <<>> ELSE LastUser
                   ELSE IF template[i] = "system" THEN System ELSE <<template[i]>>
BY DEF Part, Replacement

\* What a symbol adds is a text.
LEMMA PartTyped ==
  ASSUME ChatInputs, NEW i \in 1 .. Len(template)
  PROVE  Part(i) \in Bytes
<1>1. Len(template) \in Nat /\ template[i] \in Alphabet
  BY Elements DEF ChatInputs
<1>2. i - 1 \in 0 .. Len(template) /\ i \in 0 .. Len(template)
  BY <1>1
<1>3. Mode[i - 1] \in {"top", "system", "message"} /\ Mode[i] \in {"top", "system", "message"}
  BY <1>2, ModeRule
<1>4. Body(i) \in Seq(Alphabet)
  BY BodyTyped
<1>5. <<>> \in Bytes /\ <<template[i]>> \in Bytes
  BY <1>1, OneElement DEF Bytes
<1>6. LastUser \in Bytes /\ System \in Bytes
  BY LastUserTyped, JoinSystemTyped
<1>7. Filled(Body(i), "system", System) \in Bytes
  <2>1. "system" \in Alphabet
    BY DEF ChatInputs
  <2>2. QED
    BY <1>4, <1>6, <2>1, FilledTyped
<1>8. Concat(FilledTurns(Body(i))) \in Bytes
  BY <1>4, TurnsTyped, ConcatTyped
<1>9. CASE Mode[i - 1] # "top"
  <2>1. Part(i) = <<>>
    BY <1>9 DEF Part
  <2>2. QED
    BY <1>5, <2>1
<1>10. CASE Mode[i - 1] = "top" /\ Mode[i] = "system"
  <2>1. Part(i) = IF System = <<>> THEN <<>> ELSE Filled(Body(i), "system", System)
    BY <1>10 DEF Part
  <2>2. QED
    BY <1>5, <1>7, <2>1, Zenon
<1>11. CASE Mode[i - 1] = "top" /\ Mode[i] = "message"
  <2>1. Part(i) = Concat(FilledTurns(Body(i)))
    BY <1>11 DEF Part
  <2>2. QED
    BY <1>8, <2>1
<1>12. CASE Mode[i - 1] = "top" /\ Mode[i] = "top"
  BY <1>5, <1>6, <1>12, TopPart, Zenon
<1>13. QED
  BY <1>3, <1>9, <1>10, <1>11, <1>12, Zenon

\* There is one for each symbol of the template.
LEMMA PartsTyped ==
  ASSUME ChatInputs
  PROVE  /\ Parts \in Seq(Bytes) /\ Len(Parts) = Len(template) /\ DOMAIN Parts = 1 .. Len(template)
         /\ \A i \in 1 .. Len(template) : Parts[i] = Part(i)
<1> DEFINE n == Len(template)
<1>1. n \in Nat /\ DOMAIN template = 1 .. n
  BY Elements DEF ChatInputs
<1>2. Parts = [i \in 1 .. n |-> Part(i)]
  BY <1>1, Zenon DEF Parts
<1>3. \A i \in 1 .. n : Part(i) \in Bytes
  BY PartTyped
<1> HIDE DEF n
<1>4. \A i \in 1 .. n : Parts[i] = Part(i)
  BY <1>2
<1>5. Parts = [i \in 1 .. n |-> Parts[i]] /\ \A i \in 1 .. n : Parts[i] \in Bytes
  BY <1>2, <1>3, <1>4
<1>6. Parts \in Seq(Bytes) /\ Len(Parts) = n /\ DOMAIN Parts = 1 .. n
  BY <1>1, <1>5, ListTyped
<1>7. QED
  BY <1>4, <1>6 DEF n

-----------------------------------------------------------------------------
(* One step.                                                               *)

\* What a step leaves alone is what the prompt is made of.
LEMMA SameInputs ==
  ASSUME Keep
  PROVE  /\ LastUser' = LastUser /\ JoinSystem' = JoinSystem
         /\ Mode' = Mode /\ Parts' = Parts /\ Verbatim' = Verbatim
         /\ WellFormed' = WellFormed /\ WholePrompt' = WholePrompt
         /\ template' = template /\ messages' = messages /\ output_size' = output_size
<1>1. template' = template /\ messages' = messages /\ output_size' = output_size
  BY DEF Keep
<1>2. LastUser' = LastUser /\ JoinSystem' = JoinSystem
  BY <1>1 DEF LastUser, JoinSystem, AddSystem, AppendText, Empty, Newline
<1>3. System' = System
  BY <1>2 DEF System
<1>4. Mode' = Mode
  BY <1>1 DEF Mode, NextMode
<1>5. Verbatim' = Verbatim /\ WellFormed' = WellFormed
  BY <1>1, <1>4 DEF Verbatim, WellFormed, Has
<1>6. Parts' = Parts
  BY <1>1, <1>2, <1>3, <1>4
     DEF Parts, Part, Body, SectionEnd, Filled, FilledTurns, Replacement, Concat, Joins, Has
<1>7. WholePrompt' = WholePrompt
  BY <1>2, <1>5, <1>6 DEF WholePrompt, Concat, Joins
<1>8. QED
  BY <1>1, <1>2, <1>4, <1>5, <1>6, <1>7

\* A step that writes the text of the template up to the next position, or is
\* refused because that has no room.
LEMMA WriteKeeps ==
  ASSUME ChatAssumption, ChatInv, chat_pc = "scan",
         NEW acc, NEW text \in Bytes, Appended(SoFar, text, output_size, acc),
         NEW next \in cursor + 1 .. Len(template) + 1, Mode[next - 1] = "top",
         Joins(Parts)[next - 1] = output \o text, Write(acc, next)
  PROVE  ChatInv'
<1>1. ChatInputs
  BY InputsTyped DEF ChatInv
<1>2. /\ ChatTypeOK /\ Scanned /\ output = Joins(Parts)[cursor - 1]
  BY DEF ChatInv, Scanned
<1>3. Keep /\ output' = acc.text
  BY Zenon DEF Write
<1>4. /\ JoinSystem' = JoinSystem /\ Mode' = Mode /\ Parts' = Parts /\ Verbatim' = Verbatim
      /\ WellFormed' = WellFormed /\ WholePrompt' = WholePrompt
      /\ template' = template /\ messages' = messages /\ output_size' = output_size
  BY <1>3, SameInputs
<1>5. acc.text \in Seq(Alphabet) /\ Len(acc.text) < output_size /\ acc.fits \in BOOLEAN
  BY DEF Appended, Accs, Bytes
<1>6. OutputFits'
  BY <1>3, <1>4, <1>5 DEF OutputFits
<1>7. SoFar.text = output /\ SoFar.fits
  BY DEF SoFar
<1>8. Len(template) \in Nat /\ cursor \in Nat \ {0} /\ next \in Nat /\ output_size \in Nat
  BY <1>1, <1>2, Elements DEF ChatInputs, ChatTypeOK
<1>9. CASE acc.fits
  <2>1. cursor' = next /\ chat_pc' = "scan"
    BY <1>9, Zenon DEF Write
  <2>2. output' = Joins(Parts)[next - 1]
    BY <1>3, <1>7, <1>9 DEF Appended
  <2>3. Scanned'
    <3>1. Joins(Parts)' = Joins(Parts)
      BY <1>4 DEF Joins
    <3>2. ~Verbatim' /\ JoinSystem'.fits
      BY <1>2, <1>4 DEF Scanned
    <3>3. cursor' <= Len(template') + 1 /\ Mode'[cursor' - 1] = "top"
      BY <1>4, <1>8, <2>1
    <3>4. output' = (Joins(Parts)')[cursor' - 1]
      BY <2>1, <2>2, <3>1
    <3>5. QED
      BY <3>2, <3>3, <3>4 DEF Scanned
  <2>4. ChatTypeOK'
    BY <1>2, <1>3, <1>4, <1>5, <1>8, <2>1 DEF ChatTypeOK
  <2>5. QED
    BY <1>6, <2>1, <2>3, <2>4 DEF ChatInv, WrittenWhole, RefusedOnlyForCause
<1>10. CASE ~acc.fits
  <2>1. chat_pc' = "refused" /\ cursor' = cursor
    BY <1>10, Zenon DEF Write
  <2>2. ChatTypeOK'
    BY <1>2, <1>3, <1>4, <1>5, <2>1 DEF ChatTypeOK
  <2>3. Len(output) + Len(text) >= output_size
    BY <1>7, <1>10 DEF Appended
  <2>4. Len(Joins(Parts)[next - 1]) = Len(output) + Len(text)
    BY <1>2 DEF ChatTypeOK, Bytes
  <2>5. Len(Joins(Parts)[next - 1]) <= Len(Concat(Parts))
    <3>1. Parts \in Seq(Bytes) /\ Len(Parts) = Len(template)
      BY <1>1, PartsTyped
    <3>2. next - 1 \in 0 .. Len(template)
      BY <1>8
    <3>3. next - 1 \in 0 .. Len(Parts)
      BY <3>1, <3>2
    <3>4. QED
      BY <3>1, <3>3, JoinsGrow
  <2>6. WholePrompt = Concat(Parts) /\ WholePrompt \in Bytes
    <3>1. Parts \in Seq(Bytes)
      BY <1>1, PartsTyped
    <3>2. Concat(Parts) \in Bytes
      BY <3>1, ConcatTyped
    <3>3. ~Verbatim
      BY <1>2 DEF Scanned
    <3>4. QED
      BY <3>2, <3>3, Zenon DEF WholePrompt
  <2>7. Len(WholePrompt) >= output_size
    <3> DEFINE a == Len(Joins(Parts)[next - 1])
               b == Len(Concat(Parts))
    <3>1. a >= output_size /\ a <= b
      BY <2>3, <2>4, <2>5
    <3>2. b \in Nat /\ b = Len(WholePrompt)
      BY <2>6 DEF Bytes
    <3>3. a \in Nat
      <4>1. Len(output) \in Nat /\ Len(text) \in Nat
        BY <1>2 DEF ChatTypeOK, Bytes
      <4>2. QED
        BY <2>4, <4>1
    <3> HIDE DEF a, b
    <3>4. b >= output_size
      BY <1>8, <3>1, <3>2, <3>3
    <3>5. QED
      BY <3>2, <3>4
  <2>8. RefusedOnlyForCause'
    BY <1>4, <2>7 DEF RefusedOnlyForCause
  <2>9. QED
    BY <1>6, <2>1, <2>2, <2>8 DEF ChatInv, WrittenWhole
<1>11. QED
  BY <1>5, <1>9, <1>10, Zenon

\* Where the cursor is while it scans, and what it has written.
LEMMA ScanState ==
  ASSUME ChatAssumption, ChatInv, chat_pc = "scan"
  PROVE  /\ ChatInputs /\ SoFar \in Accs /\ SoFar.text = output /\ SoFar.fits
         /\ Len(SoFar.text) < output_size
         /\ cursor \in 1 .. Len(template) + 1 /\ Mode[cursor - 1] = "top"
         /\ output = Joins(Parts)[cursor - 1] /\ output \in Bytes
         /\ ~Verbatim /\ JoinSystem.fits
<1>1. ChatInputs
  BY InputsTyped DEF ChatInv
<1>2. Len(template) \in Nat
  BY <1>1, Elements DEF ChatInputs
<1>3. ChatTypeOK /\ OutputFits /\ Scanned
  BY DEF ChatInv
<1>4. output \in Bytes
  BY <1>3 DEF ChatTypeOK, Bytes
<1>5. SoFar \in Accs /\ SoFar.text = output /\ SoFar.fits
  BY <1>4 DEF SoFar, Accs
<1>6. cursor \in 1 .. Len(template) + 1
  BY <1>2, <1>3 DEF ChatTypeOK, Scanned
<1>7. QED
  BY <1>1, <1>3, <1>4, <1>5, <1>6 DEF Scanned, OutputFits

\* One symbol outside of sections is written or left out.
LEMMA SymbolKeeps ==
  ASSUME ChatAssumption, ChatInv, chat_pc = "scan", cursor <= Len(template),
         template[cursor] \notin {"#system", "#message"},
         NEW acc, Appended(SoFar, Part(cursor), output_size, acc), Write(acc, cursor + 1)
  PROVE  ChatInv'
<1>1. /\ ChatInputs /\ cursor \in 1 .. Len(template) + 1 /\ Mode[cursor - 1] = "top"
      /\ output = Joins(Parts)[cursor - 1] /\ Len(template) \in Nat
  BY ScanState, Elements DEF ChatInputs
<1>2. cursor \in 1 .. Len(template) /\ (cursor + 1) - 1 = cursor
  BY <1>1
<1>3. Mode[cursor] = "top"
  <2>1. Mode[cursor] = NextMode(Mode[cursor - 1], template[cursor])
    BY <1>1, <1>2, ModeRule
  <2>2. QED
    BY <1>1, <2>1 DEF NextMode
<1>4. Parts \in Seq(Bytes) /\ Len(Parts) = Len(template) /\ Parts[cursor] = Part(cursor)
  BY <1>1, <1>2, PartsTyped
<1>5. /\ Joins(Parts)[cursor] = Joins(Parts)[cursor - 1] \o Parts[cursor]
      /\ Parts[cursor] \in Bytes
  BY <1>2, <1>4, JoinStep
<1>6. Joins(Parts)[cursor] = output \o Part(cursor) /\ Part(cursor) \in Bytes
  BY <1>1, <1>4, <1>5
<1>7. cursor + 1 \in cursor + 1 .. Len(template) + 1
  BY <1>1, <1>2
<1>8. QED
  BY <1>2, <1>3, <1>6, <1>7, WriteKeeps

\* {{prompt}} outside of sections.
LEMMA PromptMarkKeeps ==
  ASSUME ChatAssumption, ChatInv, PromptMark
  PROVE  ChatInv'
<1>1. /\ chat_pc = "scan" /\ cursor <= Len(template) /\ template[cursor] = "prompt"
      /\ Write(IF Has("#message") THEN SoFar ELSE AppendText(SoFar, LastUser, output_size),
               cursor + 1)
  BY Zenon DEF PromptMark, At
<1>2. /\ ChatInputs /\ SoFar \in Accs /\ Len(SoFar.text) < output_size /\ output_size \in Nat
      /\ cursor \in 1 .. Len(template) + 1 /\ Mode[cursor - 1] = "top"
  BY <1>1, ScanState DEF ChatInputs
<1>3. cursor \in 1 .. Len(template)
  BY <1>1, <1>2, Elements DEF ChatInputs
<1>4. Mode[cursor] = "top"
  <2>1. Mode[cursor] = NextMode("top", "prompt")
    BY <1>1, <1>2, <1>3, ModeRule
  <2>2. QED
    BY <2>1 DEF NextMode
<1>5. Part(cursor) = IF Has("#message") THEN <<>> ELSE LastUser
  BY <1>1, <1>2, <1>3, <1>4, TopPart
<1>6. /\ Appended(SoFar, <<>>, output_size, SoFar)
      /\ Appended(SoFar, LastUser, output_size, AppendText(SoFar, LastUser, output_size))
  BY <1>2, NothingAppended, TextAppended, LastUserTyped
<1>7. Appended(SoFar, Part(cursor), output_size,
               IF Has("#message") THEN SoFar ELSE AppendText(SoFar, LastUser, output_size))
  BY <1>5, <1>6, Zenon
<1>8. template[cursor] \notin {"#system", "#message"}
  BY <1>1
<1>9. QED
  BY <1>1, <1>7, <1>8, SymbolKeeps

\* {{system}} outside of sections.
LEMMA SystemMarkKeeps ==
  ASSUME ChatAssumption, ChatInv, SystemMark
  PROVE  ChatInv'
<1>1. /\ chat_pc = "scan" /\ cursor <= Len(template) /\ template[cursor] = "system"
      /\ Write(AppendText(SoFar, System, output_size), cursor + 1)
  BY Zenon DEF SystemMark, At
<1>2. /\ ChatInputs /\ SoFar \in Accs /\ Len(SoFar.text) < output_size /\ output_size \in Nat
      /\ cursor \in 1 .. Len(template) + 1 /\ Mode[cursor - 1] = "top"
  BY <1>1, ScanState DEF ChatInputs
<1>3. cursor \in 1 .. Len(template)
  BY <1>1, <1>2, Elements DEF ChatInputs
<1>4. Mode[cursor] = "top"
  <2>1. Mode[cursor] = NextMode("top", "system")
    BY <1>1, <1>2, <1>3, ModeRule
  <2>2. QED
    BY <2>1 DEF NextMode
<1>5. Part(cursor) = System
  BY <1>1, <1>2, <1>3, <1>4, TopPart
<1>6. Appended(SoFar, System, output_size, AppendText(SoFar, System, output_size))
  BY <1>2, TextAppended, JoinSystemTyped
<1>7. template[cursor] \notin {"#system", "#message"}
  BY <1>1
<1>8. QED
  BY <1>1, <1>5, <1>6, <1>7, SymbolKeeps

\* Any other symbol outside of sections.
LEMMA LiteralKeeps ==
  ASSUME ChatAssumption, ChatInv, Literal
  PROVE  ChatInv'
<1>1. /\ chat_pc = "scan" /\ cursor <= Len(template) /\ template[cursor] \notin Marks
      /\ Write(AppendText(SoFar, <<template[cursor]>>, output_size), cursor + 1)
  BY Zenon DEF Literal
<1>2. /\ ChatInputs /\ SoFar \in Accs /\ Len(SoFar.text) < output_size /\ output_size \in Nat
      /\ cursor \in 1 .. Len(template) + 1 /\ Mode[cursor - 1] = "top"
  BY <1>1, ScanState DEF ChatInputs
<1>3. cursor \in 1 .. Len(template) /\ template[cursor] \in Alphabet
  <2>1. /\ Len(template) \in Nat
        /\ \A k \in 1 .. Len(template) : template[k] \in Alphabet
    BY <1>2, Elements DEF ChatInputs
  <2>2. cursor \in 1 .. Len(template)
    BY <1>1, <1>2, <2>1
  <2>3. QED
    BY <2>1, <2>2
<1>4. /\ template[cursor] # "#system" /\ template[cursor] # "#message"
      /\ template[cursor] # "prompt" /\ template[cursor] # "system"
  BY <1>1 DEF Marks
<1>5. Mode[cursor] = "top"
  <2>1. Mode[cursor] = NextMode("top", template[cursor])
    BY <1>2, <1>3, ModeRule
  <2>2. QED
    BY <1>4, <2>1 DEF NextMode
<1>6. Part(cursor) = <<template[cursor]>>
  BY <1>2, <1>3, <1>4, <1>5, TopPart
<1>7. <<template[cursor]>> \in Bytes
  BY <1>3, OneElement DEF Bytes
<1>8. Appended(SoFar, <<template[cursor]>>, output_size,
               AppendText(SoFar, <<template[cursor]>>, output_size))
  BY <1>2, <1>7, TextAppended
<1>9. template[cursor] \notin {"#system", "#message"}
  BY <1>4
<1>10. QED
  BY <1>1, <1>6, <1>8, <1>9, SymbolKeeps

\* A closed section is written as its opening mark stands for.
LEMMA SectionKeeps ==
  ASSUME ChatAssumption, ChatInv, chat_pc = "scan", cursor <= Len(template),
         NEW section, NEW closing, Section(template[cursor], section, closing),
         Closes(closing) # {},
         NEW acc, Appended(SoFar, Part(cursor), output_size, acc),
         Write(acc, Min(Closes(closing)) + 1)
  PROVE  ChatInv'
<1> DEFINE e == Min(Closes(closing))
<1>1. /\ ChatInputs /\ cursor \in 1 .. Len(template) + 1 /\ Mode[cursor - 1] = "top"
      /\ output = Joins(Parts)[cursor - 1] /\ Len(template) \in Nat
  BY ScanState, Elements DEF ChatInputs
<1>2. cursor \in 1 .. Len(template)
  BY <1>1
<1>3. /\ e \in cursor + 1 .. Len(template) /\ Mode[e] = "top"
      /\ \A j \in cursor + 1 .. e : Parts[j] = <<>>
  BY <1>1, <1>2, ClosedSection
<1> HIDE DEF e
<1>4. Parts \in Seq(Bytes) /\ Len(Parts) = Len(template) /\ Parts[cursor] = Part(cursor)
  BY <1>1, <1>2, PartsTyped
<1>5. /\ Joins(Parts)[cursor] = Joins(Parts)[cursor - 1] \o Parts[cursor]
      /\ Parts[cursor] \in Bytes
  BY <1>2, <1>4, JoinStep
<1>6. Joins(Parts)[e] = Joins(Parts)[cursor]
  <2>1. cursor \in 0 .. Len(template) /\ e \in cursor .. Len(template)
    BY <1>1, <1>2, <1>3
  <2>2. cursor \in 0 .. Len(Parts) /\ e \in cursor .. Len(Parts)
    BY <1>4, <2>1
  <2>3. QED
    BY <1>3, <1>4, <2>2, JoinsOfEmpty
<1>7. Joins(Parts)[e] = output \o Part(cursor) /\ Part(cursor) \in Bytes
  BY <1>1, <1>4, <1>5, <1>6
<1>8. e + 1 \in cursor + 1 .. Len(template) + 1 /\ (e + 1) - 1 = e
  BY <1>1, <1>2, <1>3
<1>9. Write(acc, e + 1)
  BY DEF e
<1>10. Mode[(e + 1) - 1] = "top" /\ Joins(Parts)[(e + 1) - 1] = output \o Part(cursor)
  BY <1>3, <1>7, <1>8, Zenon
<1>11. QED
  BY <1>7, <1>8, <1>9, <1>10, WriteKeeps, Zenon

\* The section of the system.
LEMMA SystemSectionKeeps ==
  ASSUME ChatAssumption, ChatInv, SystemSection
  PROVE  ChatInv'
<1>1. /\ chat_pc = "scan" /\ cursor <= Len(template) /\ template[cursor] = "#system"
      /\ Closes("/system") # {}
      /\ Write(IF System = <<>> THEN SoFar ELSE Expand(SoFar, Inner("/system"), "system", System),
               Min(Closes("/system")) + 1)
  BY Zenon DEF SystemSection, At
<1>2. /\ ChatInputs /\ SoFar \in Accs /\ Len(SoFar.text) < output_size /\ output_size \in Nat
      /\ cursor \in 1 .. Len(template) + 1 /\ Mode[cursor - 1] = "top"
  BY <1>1, ScanState DEF ChatInputs
<1>3. cursor \in 1 .. Len(template)
  BY <1>1, <1>2, Elements DEF ChatInputs
<1>4. Section(template[cursor], "system", "/system")
  BY <1>1, Zenon DEF Section
<1>5. Mode[cursor] = "system" /\ Body(cursor) = Inner("/system")
  BY <1>1, <1>2, <1>3, <1>4, ClosedSection
<1>6. Part(cursor)
        = IF System = <<>> THEN <<>> ELSE Filled(Inner("/system"), "system", System)
  BY <1>2, <1>5 DEF Part
<1>7. /\ Appended(SoFar, <<>>, output_size, SoFar)
      /\ Appended(SoFar, Filled(Inner("/system"), "system", System), output_size,
                  Expand(SoFar, Inner("/system"), "system", System))
  <2>1. Inner("/system") \in Seq(Alphabet)
    BY <1>2, <1>3, <1>5, BodyTyped
  <2>2. "system" \in Alphabet /\ System \in Bytes
    BY <1>2, JoinSystemTyped DEF ChatInputs
  <2>3. QED
    BY <1>2, <2>1, <2>2, NothingAppended, SectionAppended
<1>8. Appended(SoFar, Part(cursor), output_size,
        IF System = <<>> THEN SoFar ELSE Expand(SoFar, Inner("/system"), "system", System))
  BY <1>6, <1>7, Zenon
<1>9. QED
  BY <1>1, <1>4, <1>8, SectionKeeps

\* The section of the turns.
LEMMA MessageSectionKeeps ==
  ASSUME ChatAssumption, ChatInv, MessageSection
  PROVE  ChatInv'
<1>1. /\ chat_pc = "scan" /\ cursor <= Len(template) /\ template[cursor] = "#message"
      /\ Closes("/message") # {}
      /\ Write(Turns(SoFar, Inner("/message")), Min(Closes("/message")) + 1)
  BY Zenon DEF MessageSection, At
<1>2. /\ ChatInputs /\ SoFar \in Accs /\ Len(SoFar.text) < output_size
      /\ cursor \in 1 .. Len(template) + 1 /\ Mode[cursor - 1] = "top"
  BY <1>1, ScanState DEF ChatInputs
<1>3. cursor \in 1 .. Len(template)
  BY <1>1, <1>2, Elements DEF ChatInputs
<1>4. Section(template[cursor], "message", "/message")
  BY <1>1, Zenon DEF Section
<1>5. Mode[cursor] = "message" /\ Body(cursor) = Inner("/message")
  BY <1>1, <1>2, <1>3, <1>4, ClosedSection
<1>6. Part(cursor) = Concat(FilledTurns(Inner("/message")))
  BY <1>2, <1>5 DEF Part
<1>7. Inner("/message") \in Seq(Alphabet)
  BY <1>2, <1>3, <1>5, BodyTyped
<1>8. Appended(SoFar, Concat(FilledTurns(Inner("/message"))), output_size,
               Turns(SoFar, Inner("/message")))
  BY <1>2, <1>7, TurnsAppended
<1>9. Appended(SoFar, Part(cursor), output_size, Turns(SoFar, Inner("/message")))
  BY <1>6, <1>8
<1>10. QED
  BY <1>1, <1>4, <1>9, SectionKeeps

\* The inputs stay typed.
LEMMA InputsStay ==
  ASSUME ChatTypeOK, Keep, cursor' \in Nat \ {0}, output' \in Seq(Alphabet),
         chat_pc' \in {"start", "scan", "ok", "refused"}
  PROVE  ChatTypeOK'
BY DEF ChatTypeOK, Keep

\* The joined system messages, and a template that is not used.
LEMMA BeginKeeps ==
  ASSUME ChatAssumption, ChatInv, Begin
  PROVE  ChatInv'
<1>1. /\ ChatInputs /\ ChatTypeOK /\ OutputFits /\ cursor = 1 /\ output = <<>>
  BY InputsTyped DEF ChatInv, Begin
<1>2. Keep /\ cursor' = cursor
  BY Zenon DEF Begin
<1>3. /\ JoinSystem' = JoinSystem /\ Mode' = Mode /\ Parts' = Parts /\ Verbatim' = Verbatim
      /\ WholePrompt' = WholePrompt /\ template' = template /\ output_size' = output_size
  BY <1>2, SameInputs
<1>4. cursor' \in Nat \ {0} /\ output \in Seq(Alphabet) /\ output_size \in Nat \ {0}
  BY <1>1, <1>2 DEF ChatTypeOK, ChatInputs
<1>5. CASE ~JoinSystem.fits
  <2>1. chat_pc' = "refused" /\ output' = output
    BY <1>5, Zenon DEF Begin
  <2>2. RefusedOnlyForCause' /\ WrittenWhole' /\ OutputFits'
    BY <1>1, <1>3, <1>5, <2>1 DEF RefusedOnlyForCause, WrittenWhole, OutputFits
  <2>3. ChatTypeOK'
    BY <1>1, <1>2, <1>4, <2>1, InputsStay
  <2>4. QED
    BY <2>1, <2>2, <2>3 DEF ChatInv
<1>6. CASE JoinSystem.fits /\ ~Verbatim
  <2>1. chat_pc' = "scan" /\ output' = output
    BY <1>6, Zenon DEF Begin
  <2>2. RefusedOnlyForCause' /\ WrittenWhole' /\ OutputFits'
    BY <1>1, <1>3, <2>1 DEF RefusedOnlyForCause, WrittenWhole, OutputFits
  <2>3. ChatTypeOK'
    BY <1>1, <1>2, <1>4, <2>1, InputsStay
  <2>4. Scanned'
    <3>1. Len(template) \in Nat
      BY <1>1, Elements DEF ChatInputs
    <3>2. Mode[0] = "top"
      BY <1>1, ModeRule
    <3>3. Joins(Parts)[0] = <<>>
      BY <1>1, PartsTyped, JoinsRule
    <3>4. Joins(Parts)' = Joins(Parts)
      BY <1>3 DEF Joins
    <3>5. ~Verbatim' /\ JoinSystem'.fits
      BY <1>3, <1>6
    <3>6. cursor' = 1 /\ cursor' - 1 = 0
      BY <1>1, <1>2
    <3>7. cursor' <= Len(template') + 1
      BY <1>3, <3>1, <3>6
    <3>8. Mode'[cursor' - 1] = "top"
      BY <1>3, <3>2, <3>6
    <3>9. output' = (Joins(Parts)')[cursor' - 1]
      BY <1>1, <2>1, <3>3, <3>4, <3>6
    <3>10. QED
      BY <3>5, <3>7, <3>8, <3>9 DEF Scanned
  <2>5. QED
    BY <2>1, <2>2, <2>3, <2>4 DEF ChatInv
<1>7. CASE JoinSystem.fits /\ Verbatim
  <2> DEFINE acc == AppendText(Empty, LastUser, output_size)
  <2>1. output' = acc.text /\ chat_pc' = IF acc.fits THEN "ok" ELSE "refused"
    BY <1>7, Zenon DEF Begin
  <2>2. LastUser \in Bytes /\ WholePrompt = LastUser
    BY <1>1, <1>7, LastUserTyped, Zenon DEF WholePrompt
  <2>3. Empty \in Accs /\ Empty.text = <<>> /\ Len(<<>>) = 0
    <3>1. <<>> \in Seq(Alphabet)
      OBVIOUS
    <3>2. Len(<<>>) = 0
      OBVIOUS
    <3>3. QED
      BY <3>1, <3>2 DEF Empty, Accs, Bytes
  <2>4. Appended(Empty, LastUser, output_size, acc)
    <3>1. output_size \in Nat /\ Len(Empty.text) < output_size
      BY <1>4, <2>3
    <3>2. QED
      BY <2>2, <2>3, <3>1, TextAppended
  <2> HIDE DEF acc
  <2>5. acc.text \in Seq(Alphabet) /\ acc.fits \in BOOLEAN /\ Len(acc.text) < output_size
    BY <2>4 DEF Appended, Accs, Bytes
  <2>6. OutputFits'
    BY <1>3, <2>1, <2>5 DEF OutputFits
  <2>7. ChatTypeOK'
    <3>1. chat_pc' \in {"start", "scan", "ok", "refused"}
      BY <2>1
    <3>2. QED
      BY <1>1, <1>2, <1>4, <2>1, <2>5, <3>1, InputsStay
  <2>8. CASE acc.fits
    <3>1. output' = <<>> \o LastUser
      BY <2>1, <2>3, <2>4, <2>8 DEF Appended
    <3>2. LastUser \in Seq(Alphabet)
      BY <2>2 DEF Bytes
    <3>3. output' = LastUser
      BY <3>1, <3>2, ConcatEmptySeq
    <3>4. chat_pc' = "ok"
      BY <2>1, <2>8
    <3>5. WrittenWhole' /\ RefusedOnlyForCause'
      BY <1>3, <1>7, <2>2, <3>3, <3>4 DEF WrittenWhole, RefusedOnlyForCause
    <3>6. QED
      BY <2>6, <2>7, <3>4, <3>5 DEF ChatInv
  <2>9. CASE ~acc.fits
    <3>1. ~Empty.fits \/ Len(Empty.text) + Len(LastUser) >= output_size
      BY <2>4, <2>9 DEF Appended
    <3>2. Empty.fits /\ Len(LastUser) \in Nat
      BY <2>2 DEF Empty, Bytes
    <3>3. Len(LastUser) >= output_size
      BY <1>4, <2>3, <3>1, <3>2
    <3>4. chat_pc' = "refused"
      BY <2>1, <2>9
    <3>5. WrittenWhole' /\ RefusedOnlyForCause'
      BY <1>3, <2>2, <3>3, <3>4 DEF WrittenWhole, RefusedOnlyForCause
    <3>6. QED
      BY <2>6, <2>7, <3>4, <3>5 DEF ChatInv
  <2>10. QED
    BY <2>5, <2>8, <2>9, Zenon
<1>8. JoinSystem.fits \in BOOLEAN
  BY <1>1, JoinSystemTyped DEF Accs
<1>9. QED
  BY <1>5, <1>6, <1>7, Zenon

\* A section without its closing mark.
LEMMA UnclosedKeeps ==
  ASSUME ChatAssumption, ChatInv, NEW opening, NEW section, NEW closing,
         Section(opening, section, closing), Unclosed(opening, closing)
  PROVE  ChatInv'
<1>1. /\ chat_pc = "scan" /\ cursor <= Len(template) /\ template[cursor] = opening
      /\ Closes(closing) = {} /\ chat_pc' = "refused" /\ Keep /\ cursor' = cursor
      /\ output' = output
  BY Zenon DEF Unclosed, At
<1>2. /\ ChatInputs /\ cursor \in 1 .. Len(template) + 1 /\ Mode[cursor - 1] = "top" /\ ~Verbatim
      /\ Len(template) \in Nat
  BY <1>1, ScanState, Elements DEF ChatInputs
<1>3. cursor \in 1 .. Len(template)
  BY <1>1, <1>2
<1>4. ~WellFormed
  BY <1>1, <1>2, <1>3, UnclosedSection
<1>5. WellFormed' = WellFormed /\ Verbatim' = Verbatim /\ output_size' = output_size
  BY <1>1, SameInputs
<1>6. RefusedOnlyForCause' /\ WrittenWhole' /\ OutputFits'
  <2>1. OutputFits
    BY DEF ChatInv
  <2>2. QED
    BY <1>1, <1>2, <1>4, <1>5, <2>1 DEF RefusedOnlyForCause, WrittenWhole, OutputFits
<1>7. ChatTypeOK'
  <2>1. ChatTypeOK
    BY DEF ChatInv
  <2>2. QED
    BY <1>1, <2>1 DEF ChatTypeOK, Keep
<1>8. QED
  BY <1>1, <1>6, <1>7 DEF ChatInv

\* The end of the template.
LEMMA FinishKeeps ==
  ASSUME ChatAssumption, ChatInv, Finish
  PROVE  ChatInv'
<1>1. /\ chat_pc = "scan" /\ cursor > Len(template) /\ chat_pc' = "ok" /\ Keep
      /\ cursor' = cursor /\ output' = output
  BY Zenon DEF Finish
<1>2. /\ ChatInputs /\ cursor \in 1 .. Len(template) + 1 /\ Mode[cursor - 1] = "top" /\ ~Verbatim
      /\ Len(template) \in Nat /\ output = Joins(Parts)[cursor - 1]
  BY <1>1, ScanState, Elements DEF ChatInputs
<1>3. cursor - 1 = Len(template)
  BY <1>1, <1>2
<1>4. WellFormed /\ output = WholePrompt
  <2>1. Len(Parts) = Len(template)
    BY <1>2, PartsTyped
  <2>2. WellFormed
    BY <1>2, <1>3, Zenon DEF WellFormed
  <2>3. WholePrompt = Joins(Parts)[Len(Parts)]
    BY <1>2, Zenon DEF WholePrompt, Concat
  <2>4. QED
    BY <1>2, <1>3, <2>1, <2>2, <2>3, Zenon
<1>5. /\ WellFormed' = WellFormed /\ WholePrompt' = WholePrompt /\ output_size' = output_size
  BY <1>1, SameInputs
<1>6. RefusedOnlyForCause' /\ WrittenWhole' /\ OutputFits'
  <2>1. OutputFits
    BY DEF ChatInv
  <2>2. QED
    BY <1>1, <1>4, <1>5, <2>1 DEF RefusedOnlyForCause, WrittenWhole, OutputFits
<1>7. ChatTypeOK'
  <2>1. ChatTypeOK
    BY DEF ChatInv
  <2>2. QED
    BY <1>1, <2>1 DEF ChatTypeOK, Keep
<1>8. QED
  BY <1>1, <1>6, <1>7 DEF ChatInv

\* The beginning.
LEMMA ChatInitHolds ==
  ASSUME ChatAssumption, ChatInit
  PROVE  ChatInv
<1>1. output_size \in Nat \ {0} /\ <<>> \in Seq(Alphabet)
  <2>1. Sizes \subseteq Nat \ {0} /\ output_size \in Sizes
    BY Zenon DEF ChatAssumption, ChatInit
  <2>2. QED
    BY <2>1
<1>2. Len(<<>>) = 0
  OBVIOUS
<1>3. ChatTypeOK
  BY <1>1 DEF ChatTypeOK, ChatInit
<1>4. OutputFits
  BY <1>1, <1>2 DEF OutputFits, ChatInit
<1>5. QED
  BY <1>3, <1>4 DEF ChatInv, ChatInit, WrittenWhole, RefusedOnlyForCause

\* Nothing happens.
LEMMA ChatUnchanged ==
  ASSUME ChatInv, UNCHANGED chat_vars
  PROVE  ChatInv'
<1>1. Keep /\ cursor' = cursor /\ output' = output /\ chat_pc' = chat_pc
  BY Zenon DEF chat_vars, Keep
<1>2. /\ JoinSystem' = JoinSystem /\ Mode' = Mode /\ Parts' = Parts /\ Verbatim' = Verbatim
      /\ WellFormed' = WellFormed /\ WholePrompt' = WholePrompt
      /\ template' = template /\ messages' = messages /\ output_size' = output_size
  BY <1>1, SameInputs
<1>3. ChatTypeOK' /\ OutputFits'
  BY <1>1, <1>2 DEF ChatInv, ChatTypeOK, OutputFits
<1>4. WrittenWhole' /\ RefusedOnlyForCause'
  BY <1>1, <1>2 DEF ChatInv, WrittenWhole, RefusedOnlyForCause
<1>5. chat_pc' = "scan" => Scanned'
  <2>1. Joins(Parts)' = Joins(Parts)
    BY <1>2 DEF Joins
  <2>2. QED
    BY <1>1, <1>2, <2>1 DEF ChatInv, Scanned
<1>6. QED
  BY <1>1, <1>3, <1>4, <1>5 DEF ChatInv

\* For every template and conversation: in front of the cursor the template is outside
\* of its sections and what it stands for is written, an accepted conversation is written
\* whole, and one is refused only for a reason.
THEOREM ChatInvariant ==
  ASSUME ChatAssumption
  PROVE  ChatSpec => []ChatInv
<1>1. ChatInit => ChatInv
  BY ChatInitHolds
<1>2. ChatInv /\ [ChatNext]_chat_vars => ChatInv'
  <2>1. SUFFICES ASSUME ChatInv, [ChatNext]_chat_vars PROVE ChatInv'
    OBVIOUS
  <2>2. CASE Begin
    BY <2>1, <2>2, BeginKeeps
  <2>3. CASE Unclosed("#system", "/system")
    <3>1. Section("#system", "system", "/system")
      BY DEF Section
    <3>2. QED
      BY <2>1, <2>3, <3>1, UnclosedKeeps
  <2>4. CASE Unclosed("#message", "/message")
    <3>1. Section("#message", "message", "/message")
      BY DEF Section
    <3>2. QED
      BY <2>1, <2>4, <3>1, UnclosedKeeps
  <2>5. CASE SystemSection
    BY <2>1, <2>5, SystemSectionKeeps
  <2>6. CASE MessageSection
    BY <2>1, <2>6, MessageSectionKeeps
  <2>7. CASE PromptMark
    BY <2>1, <2>7, PromptMarkKeeps
  <2>8. CASE SystemMark
    BY <2>1, <2>8, SystemMarkKeeps
  <2>9. CASE Literal
    BY <2>1, <2>9, LiteralKeeps
  <2>10. CASE Finish
    BY <2>1, <2>10, FinishKeeps
  <2>11. CASE UNCHANGED chat_vars
    BY <2>1, <2>11, ChatUnchanged
  <2>12. QED
    BY <2>1, <2>2, <2>3, <2>4, <2>5, <2>6, <2>7, <2>8, <2>9, <2>10, <2>11, Zenon DEF ChatNext
<1>3. QED
  BY <1>1, <1>2, PTL DEF ChatSpec

-----------------------------------------------------------------------------
(* The user's text.                                                        *)

\* A text with the part in it.
Encloses(text, part) == \E a, b \in Bytes : text = (a \o part) \o b

\* Texts one after the other are a text.
LEMMA ConcatInBytes == \A x, y \in Bytes : x \o y \in Bytes
BY DEF Bytes

\* What is contained in a part of a text is contained in the text.
LEMMA EnclosesPart ==
  ASSUME NEW text, NEW part, NEW x \in Bytes, Encloses(text, part), Encloses(part, x)
  PROVE  Encloses(text, x)
<1>1. PICK a \in Bytes, b \in Bytes : text = (a \o part) \o b
  BY Zenon DEF Encloses
<1>2. PICK c \in Bytes, d \in Bytes : part = (c \o x) \o d
  BY Zenon DEF Encloses
<1>3. c \o x \in Bytes /\ a \o c \in Bytes /\ d \o b \in Bytes
  BY ConcatInBytes, Zenon
<1>4. (a \o c) \o x \in Bytes
  BY <1>3, ConcatInBytes, Zenon
<1>5. (a \o (c \o x)) \o d = a \o ((c \o x) \o d)
  <2>1. \A u \in Bytes : (a \o u) \o d = a \o (u \o d)
    BY Associative, Zenon
  <2>2. QED
    BY <1>3, <2>1, Zenon
<1>6. (a \o c) \o x = a \o (c \o x)
  BY Associative, Zenon
<1>7. text = ((a \o c) \o x) \o (d \o b)
  <2>1. (((a \o c) \o x) \o d) \o b = ((a \o c) \o x) \o (d \o b)
    BY <1>4, Associative, Zenon
  <2>2. QED
    BY <1>1, <1>2, <1>5, <1>6, <2>1, Zenon
<1>8. QED
  BY <1>3, <1>7, Zenon DEF Encloses

\* Each text is contained in the join.
LEMMA ConcatEncloses ==
  ASSUME NEW texts \in Seq(Bytes), NEW j \in 1 .. Len(texts)
  PROVE  Encloses(Concat(texts), texts[j])
BY JoinsHold DEF Encloses

\* A text is in itself.
LEMMA EnclosesItself ==
  ASSUME NEW x \in Bytes
  PROVE  Encloses(x, x)
<1>1. x \in Seq(Alphabet) /\ <<>> \in Bytes
  BY DEF Bytes
<1>2. (<<>> \o x) \o <<>> = x
  <2>1. <<>> \o x = x /\ x \o <<>> = x
    BY <1>1, ConcatEmptySeq
  <2>2. QED
    BY <2>1, Zenon
<1>3. QED
  BY <1>1, <1>2 DEF Encloses

\* A part that is contained is found at its position.
LEMMA EnclosedIsFound ==
  ASSUME NEW text, NEW x \in Bytes, Encloses(text, x)
  PROVE  HasText(text, x)
<1>1. PICK a \in Bytes, b \in Bytes : text = (a \o x) \o b
  BY DEF Encloses
<1>2. a \in Seq(Alphabet) /\ b \in Seq(Alphabet) /\ x \in Seq(Alphabet)
  BY DEF Bytes
<1> DEFINE i == Len(a)
           j == Len(a) + Len(x)
<1>3. Len(a) \in Nat /\ Len(x) \in Nat /\ Len(b) \in Nat /\ Len(text) = (Len(a) + Len(x)) + Len(b)
  BY <1>1, <1>2
<1>4. i \in 0 .. Len(text) /\ j \in i .. Len(text)
  BY <1>3
<1>5. SubSeq(text, i + 1, j) = x
  <2>1. \A k \in 1 .. Len(x) : text[(Len(a) + 1) + k - 1] = x[k]
    BY <1>1, <1>2, <1>3
  <2>2. SubSeq(text, i + 1, j) \in Seq(Alphabet) /\ Len(SubSeq(text, i + 1, j)) = Len(x)
    BY <1>1, <1>2, <1>3
  <2>3. \A k \in 1 .. Len(x) : SubSeq(text, i + 1, j)[k] = text[(i + 1) + k - 1]
    BY <1>1, <1>2, <1>3
  <2>4. \A k \in 1 .. Len(x) : SubSeq(text, i + 1, j)[k] = x[k]
    BY <2>1, <2>3
  <2> HIDE DEF i, j
  <2>5. QED
    BY <1>2, <2>2, <2>4, SeqEqual
<1>6. QED
  BY <1>4, <1>5 DEF HasText

\* A position inside of the section of turns is in the body of one that opens
\* before it.
LEMMA InsideTurns ==
  ASSUME ChatInputs, NEW i \in Within("message")
  PROVE  \E o \in 1 .. Len(template) :
           /\ Mode[o - 1] = "top" /\ Mode[o] = "message"
           /\ \E k \in 1 .. Len(Body(o)) : Body(o)[k] = template[i]
<1> DEFINE n == Len(template)
           T == {d \in 0 .. i : \A j \in d .. i : Mode[j] = "message"}
<1>1. n \in Nat /\ DOMAIN template = 1 .. n
  BY Elements DEF ChatInputs
<1>2. i \in 1 .. n /\ Mode[i - 1] = "message" /\ Mode[i] = "message"
  BY <1>1 DEF Within
<1>3. /\ Mode[0] = "top" /\ \A j \in 1 .. n : Mode[j] = NextMode(Mode[j - 1], template[j])
      /\ \A j \in 0 .. n : Mode[j] \in {"top", "system", "message"}
  BY ModeRule
<1> HIDE DEF n
<1>4. PICK o \in T : \A d \in T : o <= d
  <2>1. T \in SUBSET Nat /\ i \in T
    BY <1>1, <1>2
  <2> HIDE DEF T
  <2>2. QED
    BY <2>1, LeastNatural
<1>5. o \in 0 .. i /\ \A j \in o .. i : Mode[j] = "message"
  OBVIOUS
<1>6. Mode[o] = "message"
  <2>1. o \in o .. i
    BY <1>1, <1>2, <1>5
  <2>2. QED
    BY <1>5, <2>1
<1>7. o \in 1 .. n /\ o - 1 \in 0 .. n
  <2>1. o # 0
    BY <1>3, <1>6
  <2>2. QED
    BY <1>1, <1>2, <1>5, <2>1
<1>8. Mode[o - 1] # "message"
  <2>1. SUFFICES ASSUME Mode[o - 1] = "message" PROVE FALSE
    OBVIOUS
  <2>2. \A j \in o - 1 .. i : j = o - 1 \/ j \in o .. i
    BY <1>2, <1>7
  <2>3. o - 1 \in 0 .. i
    BY <1>2, <1>5, <1>7
  <2>4. o - 1 \in T
    BY <1>5, <2>1, <2>2, <2>3
  <2>5. o <= o - 1
    BY <1>4, <2>4
  <2>6. QED
    BY <1>7, <2>5
<1> HIDE DEF T
<1>9. Mode[o - 1] = "top"
  <2>1. Mode[o - 1] = "top" \/ Mode[o - 1] = "system"
    BY <1>3, <1>7, <1>8
  <2>2. NextMode(Mode[o - 1], template[o]) = "message"
    BY <1>3, <1>6, <1>7
  <2>3. NextMode("system", template[o]) # "message"
    BY DEF NextMode
  <2>4. QED
    BY <2>1, <2>2, <2>3
<1>10. o < i
  <2>1. o # i
    BY <1>2, <1>9
  <2>2. QED
    BY <1>2, <1>5, <2>1
<1>11. SectionEnd(o) \in Nat /\ SectionEnd(o) > i /\ SectionEnd(o) <= n + 1
  <2>1. /\ SectionEnd(o) \in o + 1 .. n + 1
        /\ SectionEnd(o) <= n => Mode[SectionEnd(o)] = "top"
    BY <1>7, SectionEndIs DEF n
  <2>2. ~(SectionEnd(o) <= i)
    <3>1. SUFFICES ASSUME SectionEnd(o) <= i PROVE FALSE
      OBVIOUS
    <3>2. SectionEnd(o) \in o .. i /\ SectionEnd(o) <= n
      BY <1>1, <1>2, <1>7, <2>1, <3>1
    <3>3. Mode[SectionEnd(o)] = "message" /\ Mode[SectionEnd(o)] = "top"
      BY <1>5, <2>1, <3>2
    <3>4. QED
      BY <3>3
  <2>3. QED
    BY <1>1, <1>2, <1>7, <2>1, <2>2
<1> DEFINE a == o + 1
           b == SectionEnd(o) - 1
<1>12. a \in Int /\ b \in Int /\ \A j \in a .. b : template[j] \in Alphabet
  <2>1. \A j \in 1 .. n : template[j] \in Alphabet
    BY Elements DEF ChatInputs, n
  <2>2. \A j \in a .. b : j \in 1 .. n
    BY <1>1, <1>7, <1>11
  <2>3. QED
    BY <1>7, <1>11, <2>1, <2>2
<1>13. /\ Len(SubSeq(template, a, b)) = IF a <= b THEN b - a + 1 ELSE 0
       /\ \A k \in 1 .. b - a + 1 : SubSeq(template, a, b)[k] = template[a + k - 1]
  <2> HIDE DEF a, b
  <2>1. QED
    BY <1>12, SubSeqProperties
<1>14. Body(o) = SubSeq(template, a, b)
  BY Zenon DEF Body
<1> DEFINE k == i - o
<1>15. k \in 1 .. b - a + 1 /\ a <= b /\ a + k - 1 = i
  BY <1>2, <1>7, <1>10, <1>11
<1> HIDE DEF a, b, k
<1>16. k \in 1 .. Len(Body(o)) /\ Body(o)[k] = template[i]
  BY <1>13, <1>14, <1>15
<1>17. QED
  BY <1>6, <1>7, <1>9, <1>16 DEF n

\* What the user said last is what the marks stand for.
LEMMA SaidLastIs ==
  ASSUME ChatInputs, NEW m \in DOMAIN messages, SaidLast(m)
  PROVE  LastUser = messages[m].content
<1> DEFINE n == Len(messages)
           users == {i \in DOMAIN messages : messages[i].role = "user"}
<1>1. n \in Nat /\ DOMAIN messages = 1 .. n
  BY MessageTyped
<1>2. users \in SUBSET (1 .. n) /\ m \in users
  BY <1>1 DEF SaidLast
<1>3. LastUser = messages[Max(users)].content
  <2>1. users # {}
    BY <1>2
  <2>2. QED
    BY <2>1, Zenon DEF LastUser
<1>4. \A i \in users : ~(i > m)
  <2>1. SUFFICES ASSUME NEW i \in users, i > m PROVE FALSE
    OBVIOUS
  <2>2. i \in m + 1 .. n /\ messages[i].role = "user"
    BY <1>1, <1>2, <2>1
  <2>3. QED
    BY <2>2 DEF SaidLast
<1> HIDE DEF users, n
<1>5. Max(users) \in users /\ m <= Max(users)
  BY <1>1, <1>2, MaxIsGreatest
<1>6. Max(users) \in 1 .. n /\ m \in 1 .. n
  BY <1>2, <1>5
<1>7. Max(users) = m
  BY <1>1, <1>4, <1>5, <1>6
<1>8. QED
  BY <1>3, <1>7

\* A place for the user's text in an accepted template.
LEMMA PlaceIsFilled ==
  ASSUME ChatInputs, HasPlace, NEW m \in DOMAIN messages, SaidLast(m)
  PROVE  Encloses(Concat(Parts), messages[m].content)
<1> DEFINE n == Len(template)
           x == messages[m].content
<1>1. /\ n \in Nat /\ DOMAIN template = 1 .. n /\ m \in 1 .. Len(messages)
      /\ messages[m].role \in Alphabet /\ x \in Bytes
  BY MessageTyped, Elements DEF ChatInputs
<1>2. LastUser = x /\ messages[m].role = "user"
  BY SaidLastIs DEF SaidLast
<1>3. Parts \in Seq(Bytes) /\ Len(Parts) = n /\ \A i \in 1 .. n : Parts[i] = Part(i)
  BY PartsTyped
<1> HIDE DEF n, x
<1>4. CASE \E i \in DOMAIN template : /\ ~Has("#message") /\ template[i] = "prompt"
                                      /\ Mode[i - 1] = "top" /\ Mode[i] = "top"
  <2>1. PICK i \in 1 .. n : /\ ~Has("#message") /\ template[i] = "prompt"
                            /\ Mode[i - 1] = "top" /\ Mode[i] = "top"
    BY <1>1, <1>4
  <2>2. Part(i) = LastUser
    BY <2>1, TopPart DEF n
  <2>3. Parts[i] = x
    BY <1>2, <1>3, <2>2
  <2>4. Encloses(Concat(Parts), Parts[i])
    BY <1>3, ConcatEncloses
  <2>5. QED
    BY <2>3, <2>4 DEF x
<1>5. CASE \E i \in Within("message") : template[i] \in {"prompt", "content"}
  <2>1. PICK i \in Within("message") : template[i] \in {"prompt", "content"}
    BY <1>5
  <2>2. PICK o \in 1 .. n : /\ Mode[o - 1] = "top" /\ Mode[o] = "message"
                            /\ \E k \in 1 .. Len(Body(o)) : Body(o)[k] = template[i]
    BY InsideTurns DEF n
  <2>3. PICK k \in 1 .. Len(Body(o)) : Body(o)[k] = template[i]
    BY <2>2
  <2> DEFINE inner == Body(o)
             texts == Filling(inner, messages[m].role, x)
  <2>4. inner \in Seq(Alphabet)
    BY BodyTyped DEF n
  <2> HIDE DEF inner
  <2>5. /\ texts \in Seq(Bytes) /\ Len(texts) = Len(inner)
        /\ \A j \in 1 .. Len(inner) : texts[j] = Replacement(inner[j], messages[m].role, x)
    BY <1>1, <2>4, FillingTyped
  <2>6. k \in 1 .. Len(inner) /\ inner[k] \in {"prompt", "content"}
    BY <2>1, <2>3 DEF inner
  <2>7. texts[k] = x
    <3>1. Replacement("prompt", messages[m].role, x) = x
      BY <1>2 DEF Replacement
    <3>2. Replacement("content", messages[m].role, x) = x
      BY DEF Replacement
    <3>3. texts[k] = Replacement(inner[k], messages[m].role, x)
      BY <2>5, <2>6
    <3>4. QED
      BY <2>6, <3>1, <3>2, <3>3
  <2> HIDE DEF texts
  <2>8. Encloses(Concat(texts), x)
    <3>1. k \in 1 .. Len(texts)
      BY <2>5, <2>6
    <3>2. Encloses(Concat(texts), texts[k])
      BY <2>5, <3>1, ConcatEncloses
    <3>3. QED
      BY <2>7, <3>2
  <2>9. FilledTurns(inner)[m] = Concat(texts)
    <3>1. FilledTurns(inner)[m] = Filled(inner, messages[m].role, messages[m].content)
      BY <1>2 DEF FilledTurns
    <3>2. Filled(inner, messages[m].role, messages[m].content) = Concat(texts)
      BY Zenon DEF Filled, Filling, texts, x
    <3>3. QED
      BY <3>1, <3>2
  <2>10. Encloses(Concat(FilledTurns(inner)), FilledTurns(inner)[m])
    <3>1. FilledTurns(inner) \in Seq(Bytes) /\ Len(FilledTurns(inner)) = Len(messages)
      BY <2>4, TurnsTyped
    <3>2. QED
      BY <1>1, <3>1, ConcatEncloses
  <2>11. Encloses(Concat(FilledTurns(inner)), x)
    BY <1>1, <2>8, <2>9, <2>10, EnclosesPart
  <2>12. Parts[o] = Concat(FilledTurns(inner))
    <3>1. Part(o) = Concat(FilledTurns(Body(o)))
      BY <2>2 DEF Part
    <3>2. QED
      BY <1>3, <3>1 DEF inner
  <2>13. Encloses(Concat(Parts), Parts[o])
    BY <1>3, ConcatEncloses
  <2>14. Encloses(Concat(Parts), x)
    BY <1>1, <2>11, <2>12, <2>13, EnclosesPart
  <2>15. QED
    BY <2>14 DEF x
<1>6. QED
  BY <1>4, <1>5, Zenon DEF HasPlace

\* For every template and conversation: an accepted conversation is in the prompt whole,
\* the user's last text with it, one is refused only for want of room or for its template,
\* and the buffer is never overrun.
THEOREM ChatPromptWhole ==
  ASSUME ChatAssumption
  PROVE  ChatSpec => []PromptWhole
<1>1. ChatSpec => []ChatInv
  BY ChatInvariant
<1>2. ChatInv => PromptWhole
  <2>1. SUFFICES ASSUME ChatInv PROVE PromptWhole
    OBVIOUS
  <2>2. OutputFits /\ WrittenWhole /\ RefusedOnlyForCause
    BY <2>1 DEF ChatInv
  <2>3. ASSUME chat_pc = "ok", HasPlace, NEW m \in DOMAIN messages, SaidLast(m)
        PROVE  HasText(output, messages[m].content)
    <3>1. ChatInputs
      BY <2>1, InputsTyped DEF ChatInv
    <3>2. output = WholePrompt
      BY <2>2, <2>3 DEF WrittenWhole
    <3>3. messages[m].content \in Bytes /\ LastUser = messages[m].content
      BY <2>3, <3>1, MessageTyped, SaidLastIs
    <3>4. Encloses(WholePrompt, messages[m].content)
      <4>1. CASE Verbatim
        <5>1. WholePrompt = messages[m].content
          BY <3>3, <4>1, Zenon DEF WholePrompt
        <5>2. QED
          BY <3>3, <5>1, EnclosesItself
      <4>2. CASE ~Verbatim
        <5>1. WholePrompt = Concat(Parts)
          BY <4>2, Zenon DEF WholePrompt
        <5>2. QED
          BY <2>3, <3>1, <5>1, PlaceIsFilled
      <4>3. QED
        BY <4>1, <4>2, Zenon
    <3>5. QED
      BY <3>2, <3>3, <3>4, EnclosedIsFound
  <2>4. UserTextArrives
    BY <2>3 DEF UserTextArrives
  <2>5. QED
    BY <2>2, <2>4 DEF PromptWhole
<1>3. QED
  BY <1>1, <1>2, PTL
=============================================================================
