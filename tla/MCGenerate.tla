----------------------------- MODULE MCGenerate -----------------------------
(* Instances of Generate for TLC; the bounds are explained in the README.   *)
EXTENDS Generate

AllPaths    == {AutoPath, NativePath, LlamaPath}
NativeOnly == {AutoPath, NativePath}
LlamaOnly   == {LlamaPath}
=============================================================================
