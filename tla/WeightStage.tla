----------------------------- MODULE WeightStage -----------------------------
(***************************************************************************)
(* The layer loop of a native session (native.c).  All layers share one    *)
(* staging buffer: load_layer_into copies the quantised tensors of a layer *)
(* to its start, each rounded up to Align bytes, and leaves pointers into  *)
(* it in the layer's slot.  A gated delta layer also owns a recurrent      *)
(* state, which has to outlive every reload of its weights and to advance  *)
(* in step with the KV cache.  Any load or layer may fail half way.        *)
(*                                                                         *)
(* A byte of the buffer is the tensor it was copied from; a recurrent      *)
(* state and a hidden state are the number of positions they have taken    *)
(* in.  Page advice, which changes no value, and arithmetic are left out.  *)
(***************************************************************************)
EXTENDS Integers, Sequences, FiniteSets, FiniteSetsExt, Sums

CONSTANTS
  NLayers,      \* gguf.block_count
  Gated,        \* the layers of kind GATED_DELTA
  Weights,      \* [layer -> sequence of the byte sizes of its staged tensors]
  Floats,       \* [layer -> bytes of its tensors that are not staged]
  Align,        \* staged tensors start at multiples of this (64)
  MinStage,     \* smallest staging buffer (1 MiB)
  Window,       \* positions of the KV cache
  MaxLoads, MaxRequests   \* bounds: calls of native_load and of prefill

Layers == 0 .. NLayers - 1

ASSUME WeightStageAssumption ==
  /\ NLayers \in Nat \ {0} /\ Gated \subseteq Layers
  /\ Weights \in [Layers -> Seq(Nat \ {0})] /\ \A l \in Layers : Weights[l] # <<>>
  /\ Floats \in [Layers -> Nat]
  /\ Align \in Nat \ {0} /\ MinStage \in Nat /\ Window \in Nat \ {0}
  /\ MaxLoads \in Nat /\ MaxRequests \in Nat

VARIABLES
  loaded,     \* session.loaded
  stage,      \* weight_stage: offset -> <<layer, tensor>> last copied there
  bound,      \* layers whose slot in session.layers holds pointers into stage
  recurrent,  \* conv_state and ssm_state of each gated layer: positions, or Null
  seq_len,    \* kv.seq_len
  hidden,     \* last_hidden: positions it is computed over, 0 when NULL
  pc,         \* "idle", or the pass that is running
  at, staged, \* the layer the pass is at, and whether it has been loaded
  fresh,      \* positions the pass adds
  serving,    \* the request has been prefilled and nothing has failed since
  loads, requests   \* bounds: calls so far

pass    == <<pc, at, staged, fresh>>
session == <<loaded, stage, bound, recurrent, seq_len, hidden>>
counts  == <<loads, requests>>
vars    == <<session, pass, serving, counts>>

Null == -1

Count(l)    == Len(Weights[l])
Tensors(l)  == 1 .. Count(l)

Aligned(n)   == ((n + Align - 1) \div Align) * Align
Staged(l)    == [k \in Tensors(l) |-> Aligned(Weights[l][k])]
Offset(l, k) == Sums(Staged(l), Count(l))[k - 1]
Region(l, k) == Offset(l, k) .. Offset(l, k) + Weights[l][k] - 1

\* Mutant of BlockBytes: only the tensors that are staged are counted.
BlockBytesStaged(l) == Sums(Weights[l], Count(l))[Count(l)]

\* edgexpu_gguf_max_block_bytes, with which native_load sizes the buffer.
BlockBytes(l) == Sums(Weights[l], Count(l))[Count(l)] + Floats[l]
StageBytes == Max({MinStage} \union {BlockBytes(l) : l \in Layers})

Capacity == Cardinality(DOMAIN stage)

\* stage_copy_bytes has room for tensor k of layer l.  Only a tensor at the
\* start of the buffer may make it grow, which no model needs.
Fits(l, k) == Offset(l, k) + Aligned(Weights[l][k]) <= Capacity

\* The buffer after the first n tensors of layer l have been copied into it.
Copied(l, n) ==
  [o \in DOMAIN stage |->
     IF \E k \in 1 .. n : o \in Region(l, k)
     THEN <<l, CHOOSE k \in 1 .. n : o \in Region(l, k)>> ELSE stage[o]]

\* The pointers of layer l find its own tensors.
OwnBytes(l) == \A k \in Tensors(l) : \A o \in Region(l, k) : stage[o] = <<l, k>>

-----------------------------------------------------------------------------
Init ==
  /\ loaded = FALSE /\ stage = <<>> /\ bound = {}
  /\ recurrent = [l \in Gated |-> Null] /\ seq_len = 0 /\ hidden = 0
  /\ pc = "idle" /\ at = 0 /\ staged = FALSE /\ fresh = 0
  /\ serving = FALSE /\ loads = 0 /\ requests = 0

\* edgexpu_native_load: the buffer is allocated and holds layer 0, read through
\* session.layer0 until the first prefill; no slot of session.layers exists.
NativeLoad ==
  /\ pc = "idle" /\ loads < MaxLoads
  /\ loads' = loads + 1
  /\ loaded' = TRUE
  /\ stage' = [o \in 0 .. StageBytes - 1 |->
                 IF \E k \in Tensors(0) : o \in Region(0, k)
                 THEN <<0, CHOOSE k \in Tensors(0) : o \in Region(0, k)>> ELSE <<>>]
  /\ bound' = {} /\ recurrent' = [l \in Gated |-> Null]
  /\ seq_len' = 0 /\ hidden' = 0
  /\ serving' = FALSE
  /\ UNCHANGED <<pass, requests>>

NativeLoadFails ==
  /\ pc = "idle" /\ loads < MaxLoads
  /\ loads' = loads + 1
  /\ loaded' = FALSE /\ stage' = <<>> /\ bound' = {}
  /\ recurrent' = [l \in Gated |-> Null] /\ seq_len' = 0 /\ hidden' = 0
  /\ serving' = FALSE
  /\ UNCHANGED <<pass, requests>>

\* forward_prefill up to its layer loop.
BeginPrefill(n) ==
  /\ pc = "idle" /\ loaded /\ requests < MaxRequests
  /\ requests' = requests + 1
  /\ pc' = "prefill" /\ at' = 0 /\ staged' = FALSE /\ fresh' = n
  /\ seq_len' = 0
  /\ serving' = FALSE
  /\ UNCHANGED <<loaded, stage, bound, recurrent, hidden, loads>>

\* generate_next: a token is sampled from last_hidden and is not the end token.
BeginDecode ==
  /\ pc = "idle" /\ serving /\ seq_len < Window
  /\ pc' = "decode" /\ at' = 0 /\ staged' = FALSE /\ fresh' = 1
  /\ UNCHANGED <<session, serving, counts>>

\* Mutant of StateAfterLoad: prefill trusts the load to have cleared the state.
StateAfterLoadKept(l) == IF recurrent[l] = Null THEN 0 ELSE recurrent[l]

\* What a load leaves of the recurrent state: load_layer_into puts a saved state
\* back and allocates a cleared one otherwise; prefill clears it in any case.
StateAfterLoad(l) ==
  IF pc = "prefill" \/ recurrent[l] = Null THEN 0 ELSE recurrent[l]

\* Mutant of LoadLayer: a layer that is bound already is not copied again.
LoadLayerOnce ==
  /\ pc # "idle" /\ ~staged
  /\ staged' = TRUE
  /\ stage' = IF at \in bound THEN stage ELSE Copied(at, Count(at))
  /\ bound' = bound \union {at}
  /\ recurrent' = [l \in Gated |-> IF l = at THEN StateAfterLoad(l) ELSE recurrent[l]]
  /\ UNCHANGED <<loaded, seq_len, hidden, pc, at, fresh, serving, counts>>

LoadLayer ==
  /\ pc # "idle" /\ ~staged
  /\ \A k \in Tensors(at) : Fits(at, k)
  /\ staged' = TRUE
  /\ stage' = Copied(at, Count(at))
  /\ bound' = bound \union {at}
  /\ recurrent' = [l \in Gated |-> IF l = at THEN StateAfterLoad(l) ELSE recurrent[l]]
  /\ UNCHANGED <<loaded, seq_len, hidden, pc, at, fresh, serving, counts>>

PassFails ==
  /\ pc' = "idle" /\ serving' = FALSE
  /\ UNCHANGED <<at, staged, fresh>>

\* A tensor is missing, has another shape or finds no memory after n of them
\* were copied: the slot is freed and a saved recurrent state put back.
LoadLayerFails(n) ==
  /\ pc # "idle" /\ ~staged
  /\ \A k \in 1 .. n : Fits(at, k)
  /\ stage' = Copied(at, n)
  /\ bound' = bound \ {at}
  /\ PassFails
  /\ UNCHANGED <<loaded, recurrent, seq_len, hidden, counts>>

Advanced ==
  [l \in Gated |-> IF l = at THEN recurrent[l] + fresh ELSE recurrent[l]]

\* The layer runs over the fresh positions.
ApplyLayer ==
  /\ pc # "idle" /\ staged /\ at + 1 < NLayers
  /\ recurrent' = Advanced
  /\ at' = at + 1 /\ staged' = FALSE
  /\ UNCHANGED <<loaded, stage, bound, seq_len, hidden, pc, fresh, serving, counts>>

\* The workspace of the layer cannot be allocated, or that of its feed forward
\* part, by which time the recurrent state has moved on.
ApplyLayerFails ==
  /\ pc # "idle" /\ staged
  /\ recurrent' \in {recurrent, Advanced}
  /\ PassFails
  /\ UNCHANGED <<loaded, stage, bound, seq_len, hidden, counts>>

\* The last layer, the output norm, and the bookkeeping after them.
FinishPass ==
  /\ pc # "idle" /\ staged /\ at + 1 = NLayers
  /\ recurrent' = Advanced
  /\ seq_len' = seq_len + fresh
  /\ hidden' = seq_len + fresh
  /\ pc' = "idle" /\ staged' = FALSE
  /\ serving' = TRUE
  /\ UNCHANGED <<loaded, stage, bound, at, fresh, counts>>

\* Prefill has filled the cache but cannot keep the hidden state, or finds its
\* norm not finite.
FinishPrefillFails ==
  /\ pc = "prefill" /\ staged /\ at + 1 = NLayers
  /\ recurrent' = Advanced
  /\ seq_len' = seq_len + fresh
  /\ hidden' \in {0, fresh}
  /\ PassFails
  /\ UNCHANGED <<loaded, stage, bound, counts>>

Next ==
  \/ NativeLoad \/ NativeLoadFails
  \/ \E n \in 1 .. Window : BeginPrefill(n)
  \/ BeginDecode
  \/ LoadLayer \/ ApplyLayer \/ ApplyLayerFails
  \/ \E n \in 0 .. Count(at) : LoadLayerFails(n)
  \/ FinishPass \/ FinishPrefillFails

Spec == Init /\ [][Next]_vars

-----------------------------------------------------------------------------
\* Types; a recurrent state never runs past the window.
TypeOK ==
  /\ loaded \in BOOLEAN /\ serving \in BOOLEAN /\ staged \in BOOLEAN
  /\ bound \subseteq Layers
  /\ recurrent \in [Gated -> Null .. Window]
  /\ seq_len \in 0 .. Window /\ hidden \in 0 .. Window
  /\ pc \in {"idle", "prefill", "decode"}
  /\ at \in Layers /\ fresh \in 0 .. Window

\* A layer is computed with its own weights: nothing has been copied over them
\* between the load of the layer and its use.
OwnWeights == pc # "idle" /\ staged => at \in bound /\ OwnBytes(at)

\* Between two tokens of a request every recurrent state has taken in exactly
\* the positions of the KV cache, whatever failed in earlier requests.
RecurrentInStep ==
  serving =>
    /\ hidden = seq_len
    /\ \A l \in Gated : recurrent[l] = seq_len + (IF pc = "decode" /\ l < at THEN 1 ELSE 0)

\* Every layer fits the buffer native_load allocated, alignment included, so the
\* buffer never grows and its pointers never move ("fixed staging", README.md:124).
StageSuffices == loaded => \A l \in Layers : \A k \in Tensors(l) : Fits(l, k)

\* What alignment adds to the tensors of a layer is no more than the tensors that
\* are not staged (its norms) weigh.
PaddingFits ==
  \A l \in Layers :
    Offset(l, Count(l) + 1) <= Sums(Weights[l], Count(l))[Count(l)] + Floats[l]

(* The inductive invariant of the proofs.                                  *)

\* The buffer is the one native_load allocated, and every pass runs on it.
StageAllocated ==
  /\ loaded => DOMAIN stage = 0 .. StageBytes - 1
  /\ serving \/ pc # "idle" => loaded

\* Prefill starts the cache and every recurrent state anew: the layers behind it
\* have taken in the prompt, the layer it has staged nothing yet.
PrefillAnew ==
  pc = "prefill" =>
    /\ ~serving /\ seq_len = 0 /\ fresh > 0
    /\ \A l \in Gated : /\ l < at => recurrent[l] = fresh
                        /\ l = at /\ staged => recurrent[l] = 0

\* Decoding adds one position to a request that is being served.
DecodeServes == pc = "decode" => serving /\ fresh = 1 /\ seq_len < Window

IInv ==
  /\ TypeOK /\ StageAllocated /\ PrefillAnew /\ DecodeServes
  /\ OwnWeights /\ RecurrentInStep

\* native.h:81: the first prefill binds the weight pointers of all layers.  The
\* pointers of every layer but the last find the bytes of another one.
LayersStayBound == serving /\ pc = "idle" => \A l \in bound : OwnBytes(l)
=============================================================================
