----------------------------- MODULE Scheduler -----------------------------
(***************************************************************************)
(* The decisions of scheduler.c: which manifest may be loaded at all, and  *)
(* for each job of a request the backend, device and policy written into   *)
(* its trace.  A decision starts from the job type, takes the manifest's   *)
(* backend for the two compute stages, is overridden by what the native    *)
(* session is ready for, and is annotated by the last telemetry.  Reasons  *)
(* are left out.  The memory budget is module Budget.                      *)
(***************************************************************************)
EXTENDS Naturals

HostJobs   == {"load_model", "prepare_prompt", "tokenize", "stream_token",
               "collect_telemetry"}
StageJobs  == {"prefill", "decode_step"}
JobTypes   == HostJobs \union StageJobs \union {"update_kv_cache", "prefetch_weights"}
CpuBackends == {"cpu.llama_cpp", "cpu.baseline", "cpu.native"}

\* manifest_supports_cpu_baseline: one of the two fields names a CPU backend.
Supported(manifest) == {manifest.fallback, manifest.backend} \intersect CpuBackends # {}

Decision(backend, device, policy) ==
  [backend |-> backend, device |-> device, policy |-> policy, fallback |-> FALSE]

\* select_execution_backend.  npus: the runtimes the device profile found.
SelectExecution(manifest, npus) ==
  LET Npu(runtime, device) ==
        IF runtime \in npus THEN Decision(manifest.backend, device, "stage_execution")
        ELSE [Decision("cpu.baseline", "cpu", "stage_execution") EXCEPT !.fallback = TRUE]
  IN CASE manifest.backend = "rockchip.rkllm" -> Npu("rkllm", "npu.rockchip")
       [] manifest.backend = "qualcomm.qnn"   -> Npu("qnn", "npu.qualcomm")
       [] manifest.backend = "dnpu"           -> Decision("dnpu", "dnpu", "stage_execution")
       [] manifest.backend = "cpu.native" ->
            Decision("cpu.native", "cpu", "stage_execution")
       [] OTHER -> Decision("cpu.baseline", "cpu", "stage_execution")

\* What the job type and the manifest say, before the native session is asked.
ByType(manifest, npus, job) ==
  CASE job \in HostJobs  -> Decision("cpu.runtime", "cpu", "host_cpu")
    [] job \in StageJobs -> SelectExecution(manifest, npus)
    [] job = "update_kv_cache"  -> Decision("memory.manager", "memory", "memory_pipeline")
    [] job = "prefetch_weights" -> Decision("flash.manager", "flash", "flash_pipeline")

\* Mutant of Override: prefill is native only once it has been decoded from.
OverrideDecodeOnly(decision, ready, job) ==
  IF job = "decode_step" /\ ready.kernel
  THEN [decision EXCEPT !.backend = "cpu.native", !.policy = "native_decode"]
  ELSE decision

\* plan_job_with_context: a ready native session takes its jobs over.  Only
\* the backend and the policy are written; device and fallback_reason stay.
Override(decision, ready, job) ==
  LET To(backend, policy) == [decision EXCEPT !.backend = backend, !.policy = policy]
  IN CASE job = "tokenize" /\ ready.tokenizer -> To("cpu.native", "native_tokenizer")
       [] job = "prefill" /\ ready.kv /\ ready.kernel -> To("cpu.native", "native_prefill")
       [] job = "update_kv_cache" /\ ready.kv -> To("memory.native", "native_kv")
       [] job = "decode_step" /\ ready.kernel -> To("cpu.native", "native_decode")
       [] OTHER -> decision

\* apply_telemetry_hint: a last request that decoded in measurable time keeps the
\* CPU backend of a decision; telemetry is "none" if there was no such request.
Hint(decision, telemetry) ==
  IF telemetry = "none" \/ decision.backend \notin {"cpu.baseline", "cpu.native"}
  THEN decision
  ELSE [decision EXCEPT !.fallback = TRUE,
          !.policy = IF decision.backend = "cpu.native"
                     THEN "telemetry_keep_native" ELSE "telemetry_keep_cpu"]

PlanJob(manifest, npus, telemetry, ready, job) ==
  LET decision == Override(ByType(manifest, npus, job), ready, job)
  IN IF job \in StageJobs THEN Hint(decision, telemetry) ELSE decision

=============================================================================
