---------------------------- MODULE DecodeSession ----------------------------
(***************************************************************************)
(* What the runtime relies on of the native session: whether a model is    *)
(* loaded and whether native_decode_ready, that is whether a hidden state  *)
(* to decode from is held.  A load replaces both, a prefill may change the *)
(* second and only with a model, and nothing else changes either.          *)
(***************************************************************************)
VARIABLES session, ready

Init == session = FALSE /\ ready = FALSE

\* edgexpu_native_load frees the old session first, whether it succeeds or not.
Load(ok) == session' = ok /\ ready' = FALSE

\* Without a model a prefill does nothing.
Prefill == session' = session /\ ready' \in IF session THEN BOOLEAN ELSE {ready}

Next == (\E ok \in BOOLEAN : Load(ok)) \/ Prefill

Spec == Init /\ [][Next]_<<session, ready>>
=============================================================================
