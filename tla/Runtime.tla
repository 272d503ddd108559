------------------------------ MODULE Runtime ------------------------------
(***************************************************************************)
(* What the runtime facade keeps from one call to the next (runtime.c,     *)
(* manifest.c): the manifest, the native session, the last telemetry, and  *)
(* the manifest that the llama bootstrap holds in globals of the process   *)
(* (backend.c).  An application makes calls on several runtimes; the       *)
(* compare command (main.c) is one fixed sequence of calls on one.         *)
(*                                                                         *)
(* A manifest is replaced field by field before anything else of a load is *)
(* known to work, so the fields of a refused manifest meet the session of  *)
(* an accepted one.  Requests are one step here, with the trace of their   *)
(* jobs; module Generate has the steps, module Scheduler the decisions.    *)
(***************************************************************************)
EXTENDS Naturals, FiniteSets, SequencesExt

CONSTANTS
  Runtimes,   \* edgexpu_runtime structures of the process
  Packs,      \* model packs: id, backend, fallback, gguf, template, fields
  MaxCalls    \* bound: calls of the process

None == "none"

\* A pack's manifest file has its first `fields` required fields; 8 is all.
Required == 8

ASSUME RuntimeAssumption ==
  /\ MaxCalls \in Nat /\ IsFiniteSet(Runtimes)
  /\ \A p \in Packs : p.fields \in 0 .. Required /\ p.id # None

VARIABLES
  manifest,    \* runtime.manifest of each runtime
  backend,     \* whether runtime.backend is set
  loaded,      \* runtime.loaded
  native,      \* the pack whose GGUF the native session holds
  kv,          \* whether native.kv.k is allocated
  telemetry,   \* backend of last_telemetry, None if that request decoded nothing
  g_loaded, g_manifest,   \* the globals of backend.c
  npus,        \* NPU runtimes found on the device
  accepted,    \* history: what edgexpu_native_load was last asked for, if it did load it
  command,     \* which program runs: an application, or where compare is
  last,        \* history: what the last request ran
  trace,       \* history: its jobs, with the decision and who executed them
  calls        \* bound

state == <<manifest, backend, loaded, native, kv, telemetry>>
globals == <<g_loaded, g_manifest>>
vars == <<state, globals, npus, accepted, command, last, trace, calls>>

Sched == INSTANCE Scheduler

-----------------------------------------------------------------------------
Zeroed == [id |-> None, fallback |-> None, backend |-> None, path |-> None,
           resolved |-> FALSE, gguf |-> FALSE, template |-> None]

\* edgexpu_manifest_load: zeroed, then filled up to the first field that is
\* missing.  A relative path is joined to the manifest's directory at the end.
ManifestOf(p) ==
  LET Has(n, value) == IF p.fields >= n THEN value ELSE None
  IN [id |-> Has(1, p.id), fallback |-> Has(5, p.fallback), backend |-> Has(6, p.backend),
      path |-> Has(7, p.id), resolved |-> p.fields = Required,
      gguf |-> p.fields = Required /\ p.gguf,
      template |-> IF p.fields = Required /\ p.template THEN p.id ELSE None]

Whole(p) == p.fields = Required

Ran(r, path, weights, template) ==
  [by |-> r, path |-> path, weights |-> weights, template |-> template]
NoRun == Ran(None, None, None, None)

Init ==
  /\ manifest = [r \in Runtimes |-> Zeroed]
  /\ backend = [r \in Runtimes |-> FALSE] /\ loaded = [r \in Runtimes |-> FALSE]
  /\ native = [r \in Runtimes |-> None] /\ kv = [r \in Runtimes |-> FALSE]
  /\ telemetry = [r \in Runtimes |-> None]
  /\ g_loaded = FALSE /\ g_manifest = Zeroed
  /\ npus \in SUBSET {"rkllm", "qnn"}
  /\ accepted = [r \in Runtimes |-> None]
  /\ command \in {[at |-> "api", pack |-> None, on |-> None]} \union
                 [at : {"compare_load"}, pack : {p.id : p \in Packs}, on : Runtimes]
  /\ last = NoRun /\ trace = {} /\ calls = 0

-----------------------------------------------------------------------------
Call == calls < MaxCalls /\ calls' = calls + 1
Quiet == last' = NoRun /\ trace' = {} /\ UNCHANGED npus

\* The file cannot be read, a required field is missing, or the path does not
\* fit: only the manifest has changed.
ManifestRefused(r, p) ==
  /\ \E m \in {Zeroed} \union {[ManifestOf(p) EXCEPT !.resolved = FALSE]} :
       manifest' = [manifest EXCEPT ![r] = m]
  /\ UNCHANGED <<backend, loaded, native, kv, telemetry, globals, accepted>>

\* edgexpu_scheduler_select_backend finds no CPU backend.
BackendRefused(r, p) ==
  /\ Whole(p) /\ ~Sched!Supported(ManifestOf(p))
  /\ manifest' = [manifest EXCEPT ![r] = ManifestOf(p)]
  /\ UNCHANGED <<backend, loaded, native, kv, telemetry, globals, accepted>>

\* load_model_job_callback on an artifact that is no GGUF, or no slot is left for
\* its job, which takes earlier jobs and so an earlier backend.
JobRefused(r, p) ==
  /\ Whole(p) /\ Sched!Supported(ManifestOf(p)) /\ (p.gguf => backend[r])
  /\ manifest' = [manifest EXCEPT ![r] = ManifestOf(p)]
  /\ backend' = [backend EXCEPT ![r] = TRUE]
  /\ UNCHANGED <<loaded, native, kv, telemetry, globals, accepted>>

Loadable(p) == Whole(p) /\ Sched!Supported(ManifestOf(p)) /\ p.gguf

\* Mutant of NativeRefused: the session that was there is not freed.
NativeRefusedKeeps(r, p) ==
  /\ Loadable(p)
  /\ manifest' = [manifest EXCEPT ![r] = ManifestOf(p)]
  /\ backend' = [backend EXCEPT ![r] = TRUE]
  /\ accepted' = [accepted EXCEPT ![r] = None]
  /\ UNCHANGED <<loaded, native, kv, telemetry, globals>>

\* edgexpu_native_load fails: the session is freed, the one before it included.
NativeRefused(r, p) ==
  /\ Loadable(p)
  /\ manifest' = [manifest EXCEPT ![r] = ManifestOf(p)]
  /\ backend' = [backend EXCEPT ![r] = TRUE]
  /\ native' = [native EXCEPT ![r] = None] /\ kv' = [kv EXCEPT ![r] = FALSE]
  /\ accepted' = [accepted EXCEPT ![r] = None]
  /\ UNCHANGED <<loaded, telemetry, globals>>

\* edgexpu_native_load succeeds and the llama bootstrap is bound to the
\* manifest.  A model without attention layers has no cache.
Loads(r, p) ==
  /\ Loadable(p)
  /\ manifest' = [manifest EXCEPT ![r] = ManifestOf(p)]
  /\ backend' = [backend EXCEPT ![r] = TRUE]
  /\ loaded' = [loaded EXCEPT ![r] = TRUE]
  /\ native' = [native EXCEPT ![r] = p.id]
  /\ \E attention \in BOOLEAN : kv' = [kv EXCEPT ![r] = attention]
  /\ g_manifest' = ManifestOf(p) /\ g_loaded' = FALSE
  /\ accepted' = [accepted EXCEPT ![r] = p.id]
  /\ UNCHANGED telemetry

LoadRefused(r, p) ==
  ManifestRefused(r, p) \/ BackendRefused(r, p) \/ JobRefused(r, p) \/ NativeRefused(r, p)

LoadModel(r) ==
  /\ command.at = "api" /\ Call /\ Quiet
  /\ \E p \in Packs : Loads(r, p) \/ LoadRefused(r, p)
  /\ UNCHANGED command

-----------------------------------------------------------------------------
\* run_scheduled_job_ex: what the session is ready for, asked before each job.
Ready(r) ==
  [loader |-> native[r] # None, tokenizer |-> native[r] # None,
   kernel |-> native[r] # None, kv |-> kv[r]]

Jobs(path) ==
  <<"prepare_prompt", "tokenize", "prefetch_weights", "prefill", "decode_step">>
  \o (IF path = "llama" THEN <<>> ELSE <<"stream_token">>)
  \o <<"update_kv_cache", "collect_telemetry">>

\* The callbacks of the compute jobs: who does the work, if anyone does.
Executes(r, path, job) ==
  CASE native[r] # None /\ job = "tokenize"                       -> "cpu.native"
    [] native[r] # None /\ kv[r] /\ job = "prefill" /\ path # "llama" -> "cpu.native"
    [] job = "decode_step" /\ path = "llama"                      -> "cpu.baseline"
    [] native[r] # None /\ job = "decode_step" /\ path # "llama"  -> "cpu.native"
    [] OTHER -> None

Trace(r, path, n) ==
  {[job |-> j, by |-> Executes(r, path, j),
    plan |-> Sched!PlanJob(manifest[r], npus, telemetry[r], Ready(r), j)] :
     j \in ToSet(SubSeq(Jobs(path), 1, n))}

\* edgexpu_runtime_generate_stream: the pack's template, else the GGUF's own.
Template(r) == IF manifest[r].template # None THEN manifest[r].template ELSE native[r]

Enter(r) == loaded[r] /\ backend[r]

\* The telemetry of a request: it speaks for its backend if it decoded a token
\* and the clock saw time pass.
Telemetry(r, by) ==
  \E decoded \in {None, by} : telemetry' = [telemetry EXCEPT ![r] = decoded]

\* Decoding on cpu.native needs the hidden state that prefill leaves, and
\* prefill does nothing on a session without a cache.
GenerateNative(r) ==
  /\ Enter(r) /\ native[r] # None /\ kv[r]
  /\ Telemetry(r, "cpu.native")
  /\ last' = Ran(r, "native", native[r], Template(r))
  /\ trace' = Trace(r, "native", Len(Jobs("native")))
  /\ UNCHANGED <<manifest, backend, loaded, native, kv, globals>>

\* A job of the request fails; in prefill the cache may be lost while it grows.
\* A llama that was started and failed is loaded all the same.
GenerateFails(r, path) ==
  /\ Enter(r)
  /\ \E n \in 1 .. 5, lost, bound \in BOOLEAN :
       /\ lost => n = 4
       /\ bound => n = 5 /\ path = "llama" /\ g_manifest.path # None
       /\ trace' = Trace(r, path, n)
       /\ kv' = [kv EXCEPT ![r] = kv[r] /\ ~lost]
       /\ g_loaded' = (g_loaded \/ bound)
  /\ last' = NoRun
  /\ UNCHANGED <<manifest, backend, loaded, native, telemetry, g_manifest>>

\* cpu_baseline_generate: loads what was bound if that has not been done yet.
GenerateLlama(r) ==
  /\ Enter(r) /\ (g_loaded \/ g_manifest.path # None)
  /\ g_loaded' = TRUE
  /\ Telemetry(r, "cpu.baseline")
  /\ last' = Ran(r, "llama", g_manifest.path, Template(r))
  /\ trace' = Trace(r, "llama", Len(Jobs("llama")))
  /\ UNCHANGED <<manifest, backend, loaded, native, kv, g_manifest>>

Generate(r) ==
  /\ command.at = "api" /\ Call
  /\ GenerateNative(r) \/ GenerateLlama(r) \/ \E path \in {"native", "llama"} :
                                                GenerateFails(r, path)
  /\ UNCHANGED <<npus, accepted, command>>

-----------------------------------------------------------------------------
\* command_compare: load, the native leg, then the llama leg whatever happened.
Goto(at) == command' = [command EXCEPT !.at = at]

CompareLoad(r) ==
  /\ command.at = "compare_load" /\ command.on = r /\ Call /\ Quiet
  /\ \E p \in Packs :
       /\ p.id = command.pack
       /\ \/ Loads(r, p) /\ Goto("compare_native")
          \/ LoadRefused(r, p) /\ Goto("compare_llama")

CompareNative(r) ==
  /\ command.at = "compare_native" /\ command.on = r /\ Call
  /\ loaded[r]
  /\ GenerateNative(r) \/ GenerateFails(r, "native")
  /\ Goto("compare_llama")
  /\ UNCHANGED <<npus, accepted>>

\* A path that was not joined to its manifest's directory names a file of the
\* working directory.
FileAt(m) == IF m.resolved THEN m.path ELSE "stray"

\* A manifest without a model_id is read again; any other one is used as it is.
ComparedManifest(r) ==
  IF manifest[r].id # None THEN {manifest[r]}
  ELSE {Zeroed} \union {ManifestOf(p) : p \in {q \in Packs : q.id = command.pack}}

CompareLlama(r) ==
  /\ command.at = "compare_llama" /\ command.on = r /\ Call
  /\ \E m \in ComparedManifest(r) :
       /\ manifest' = [manifest EXCEPT ![r] = m]
       /\ \/ /\ m.path # None
             /\ g_manifest' = m /\ g_loaded' = TRUE
             /\ last' = Ran(r, "compare", FileAt(m), m.template)
          \/ UNCHANGED globals /\ last' = NoRun
  /\ trace' = {} /\ Goto("done")
  /\ UNCHANGED <<backend, loaded, native, kv, telemetry, npus, accepted>>

Next == \E r \in Runtimes :
  LoadModel(r) \/ Generate(r) \/ CompareLoad(r) \/ CompareNative(r) \/ CompareLlama(r)

-----------------------------------------------------------------------------
Ids == {None} \union {p.id : p \in Packs}

Manifests == [id : Ids, resolved : BOOLEAN, gguf : BOOLEAN,
              path : Ids, template : Ids,
              backend : {None} \union {p.backend : p \in Packs},
              fallback : {None} \union {p.fallback : p \in Packs}]

\* Types, and: a runtime that was ever loaded has a backend, a cache belongs to
\* a session, and the bootstrap counts as loaded only with an artifact.
TypeOK ==
  /\ manifest \in [Runtimes -> Manifests] /\ g_manifest \in Manifests
  /\ backend \in [Runtimes -> BOOLEAN] /\ loaded \in [Runtimes -> BOOLEAN]
  /\ native \in [Runtimes -> Ids] /\ kv \in [Runtimes -> BOOLEAN]
  /\ accepted \in [Runtimes -> Ids]
  /\ telemetry \in [Runtimes -> {None, "cpu.native", "cpu.baseline"}]
  /\ \A r \in Runtimes :
       /\ loaded[r] => backend[r]
       /\ kv[r] => native[r] # None
       /\ native[r] # None => loaded[r]
  /\ g_loaded \in BOOLEAN /\ (g_loaded => g_manifest.path # None)
  /\ command \in [at : {"api", "compare_load", "compare_native", "compare_llama", "done"},
                  pack : Ids, on : Runtimes \union {None}]

\* A native answer comes from the model of the last load that returned 1, and
\* none comes after a load that failed in cpu.native (runtime.c:339).
RunsAcceptedModel ==
  \A r \in Runtimes :
    /\ native[r] # None => native[r] = accepted[r]
    /\ (last.by = r /\ last.path = "native") => last.weights = accepted[r]

\* Work that cpu.native does is planned as cpu.native, whatever the manifest,
\* the device and the last telemetry say; README.plan.zh.md:55.
TraceNamesExecutor == \A e \in trace : e.by = "cpu.native" => e.plan.backend = e.by

\* The inductive invariant.
IInv == TypeOK /\ RunsAcceptedModel /\ TraceNamesExecutor

\* scheduler.c:11: backend and device are filled in by job type, native work is
\* marked cpu.native.  Violated: the override leaves the device of the NPU.
DeviceOfBackend ==
  \A e \in trace : e.plan.backend \in {"cpu.native", "cpu.baseline"} => e.plan.device = "cpu"

\* runtime.h:19: the model pack's chat template is applied before tokenize.
\* Violated after a refused load, whose template meets the model before it.
TemplateOfModel == last.path = "native" => last.template = last.weights

\* backend.c:20: the bootstrap keeps the manifest that is currently loaded.
\* Violated once another runtime has loaded, or after a refused load.
BootstrapRunsManifest == last.path = "llama" => last.weights = manifest[last.by].path

\* main.c:383: compare is of one model.  Violated by what is left of a refused
\* manifest: its path is taken relative to the working directory.
CompareRunsNamedModel == last.path = "compare" => last.weights = command.pack

Spec == Init /\ [][Next]_vars
=============================================================================
