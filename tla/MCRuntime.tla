----------------------------- MODULE MCRuntime -----------------------------
(* Five packs on two runtimes: one native with a template, one for an NPU   *)
(* with a CPU fallback, one without "format", one whose backends nobody     *)
(* supports and one that is no GGUF.                                        *)
EXTENDS Runtime, TLC

Pack(id, backend_, fallback, fields, gguf, template) ==
  [id |-> id, backend |-> backend_, fallback |-> fallback, fields |-> fields,
   gguf |-> gguf, template |-> template]

AllPacks == {
  Pack("native", "cpu.native", "cpu.baseline", 8, TRUE, TRUE),
  Pack("npu", "rockchip.rkllm", "cpu.native", 8, TRUE, TRUE),
  Pack("short", "cpu.native", "cpu.baseline", 7, TRUE, TRUE),
  Pack("alien", "qualcomm.qnn", "qualcomm.qnn", 8, TRUE, TRUE),
  Pack("other", "cpu.baseline", "cpu.baseline", 8, FALSE, FALSE)}

Swap == Permutations(Runtimes)
=============================================================================
