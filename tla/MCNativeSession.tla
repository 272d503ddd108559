--------------------------- MODULE MCNativeSession ---------------------------
(* Instances of NativeSession for TLC; the README explains the bounds.      *)
EXTENDS NativeSession

AllPaths    == {AutoPath, NativePath, LlamaPath}
NativeOnly == {AutoPath, NativePath}
=============================================================================
