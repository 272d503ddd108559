-------------------------- MODULE WeightStageProofs --------------------------
(***************************************************************************)
(* The staging buffer and the recurrent states for every model, alignment  *)
(* and window: a layer is computed with its own weights, and the recurrent *)
(* states keep step with the KV cache.  And the file the weights come      *)
(* from: the loader accepts none that is cut off, and each of its fields   *)
(* comes from the entry of its name.                                       *)
(***************************************************************************)
EXTENDS WeightStage, GgufLoad, FiniteSetTheorems, SequenceTheorems, BoundedRecursion, TLAPS

-----------------------------------------------------------------------------
(* The layout of a layer in the buffer.                                    *)

LEMMA SequenceOfSizes ==
  ASSUME NEW w \in Seq(Nat \ {0}), w # <<>>
  PROVE  Len(w) \in Nat \ {0} /\ \A k \in 1 .. Len(w) : w[k] \in Nat \ {0}
OBVIOUS

LEMMA Sizes ==
  ASSUME WeightStageAssumption, NEW l \in Layers
  PROVE  /\ Count(l) \in Nat \ {0} /\ Floats[l] \in Nat
         /\ \A k \in Tensors(l) : Weights[l][k] \in Nat \ {0}
<1>1. Weights[l] \in Seq(Nat \ {0}) /\ Weights[l] # <<>> /\ Floats[l] \in Nat
  BY DEF WeightStageAssumption
<1>2. /\ Len(Weights[l]) \in Nat \ {0}
      /\ \A k \in 1 .. Len(Weights[l]) : Weights[l][k] \in Nat \ {0}
  BY <1>1, SequenceOfSizes, Zenon
<1>3. QED
  BY <1>1, <1>2, Zenon DEF Count, Tensors

LEMMA Division ==
  ASSUME NEW n \in Nat, NEW d \in Nat \ {0}
  PROVE  /\ n \div d \in Nat /\ n % d \in Nat /\ n % d < d
         /\ d * (n \div d) + (n % d) = n
OBVIOUS

\* Rounding up adds less than Align.
LEMMA AlignedBounds ==
  ASSUME WeightStageAssumption, NEW n \in Nat
  PROVE  Aligned(n) \in Nat /\ n <= Aligned(n) /\ Aligned(n) <= n + Align - 1
<1>1. Align \in Nat \ {0} /\ n + Align - 1 \in Nat
  BY DEF WeightStageAssumption
<1> DEFINE m == n + Align - 1
           q == m \div Align
           r == m % Align
<1>2. q \in Nat /\ r \in Nat /\ r < Align /\ Align * q + r = m
  BY <1>1, Division
<1>3. Aligned(n) = q * Align
  BY DEF Aligned
<1>4. q * Align = Align * q /\ q * Align \in Nat
  <2> HIDE DEF q
  <2>1. QED
    BY <1>1, <1>2
<1>5. m = n + Align - 1
  OBVIOUS
<1> HIDE DEF m, q, r
<1>6. QED
  BY <1>1, <1>2, <1>3, <1>4, <1>5

Offsets(l) == Sums(Staged(l), Count(l))

LEMMA StagedSizes ==
  ASSUME WeightStageAssumption, NEW l \in Layers
  PROVE  /\ \A k \in Tensors(l) : /\ Staged(l)[k] = Aligned(Weights[l][k])
                                 /\ Aligned(Weights[l][k]) \in Nat
                                 /\ Weights[l][k] <= Aligned(Weights[l][k])
         /\ IsSums(Offsets(l), Staged(l), Count(l))
<1>1. ASSUME NEW k \in Tensors(l)
      PROVE  /\ Staged(l)[k] = Aligned(Weights[l][k])
             /\ Aligned(Weights[l][k]) \in Nat
             /\ Weights[l][k] <= Aligned(Weights[l][k])
  <2>1. Weights[l][k] \in Nat
    BY Sizes
  <2>2. Staged(l)[k] = Aligned(Weights[l][k])
    BY DEF Staged
  <2>3. QED
    BY <2>1, <2>2, AlignedBounds
<1>2. Count(l) \in Nat /\ \A i \in 1 .. Count(l) : Staged(l)[i] \in Nat
  BY <1>1, Sizes DEF Tensors
<1>3. IsSums(Offsets(l), Staged(l), Count(l))
  BY <1>2, SumsEquation, Zenon DEF Offsets
<1>4. QED
  BY <1>1, <1>3

\* A tensor ends, alignment included, where the next one starts, and the tensors
\* after it start no earlier.
LEMMA OffsetsInOrder ==
  ASSUME WeightStageAssumption, NEW l \in Layers, NEW k \in Tensors(l)
  PROVE  /\ Offset(l, k) \in Nat
         /\ Weights[l][k] \in Nat \ {0} /\ Aligned(Weights[l][k]) \in Nat
         /\ Weights[l][k] <= Aligned(Weights[l][k])
         /\ \A j \in k + 1 .. Count(l) + 1 :
              Offset(l, k) + Aligned(Weights[l][k]) <= Offset(l, j)
<1> DEFINE F == Offsets(l)
<1>1. /\ Staged(l)[k] = Aligned(Weights[l][k]) /\ Aligned(Weights[l][k]) \in Nat
      /\ Weights[l][k] <= Aligned(Weights[l][k])
      /\ IsSums(F, Staged(l), Count(l))
      /\ \A i \in 1 .. Count(l) : Staged(l)[i] \in Nat
  BY StagedSizes DEF Tensors
<1>2. /\ Count(l) \in Nat /\ k \in 1 .. Count(l) /\ Weights[l][k] \in Nat \ {0}
  BY Sizes DEF Tensors
<1>3. \A j : Offset(l, j) = F[j - 1]
  BY DEF Offset, Offsets
<1> HIDE DEF F
<1>4. F[k - 1] \in Nat /\ F[k] = F[k - 1] + Aligned(Weights[l][k])
  BY <1>1, <1>2 DEF IsSums
<1>5. ASSUME NEW j \in k + 1 .. Count(l) + 1 PROVE F[k] <= F[j - 1]
  <2>1. k \in 0 .. Count(l) /\ j - 1 \in 0 .. Count(l) /\ k <= j - 1
    BY <1>2
  <2>2. QED
    BY <1>1, <1>2, <2>1, SumsGrow
<1>6. QED
  BY <1>1, <1>2, <1>3, <1>4, <1>5

\* Each offset of a layer belongs to one tensor at most.
LEMMA RegionsDisjoint ==
  ASSUME WeightStageAssumption, NEW l \in Layers, NEW o,
         NEW k \in Tensors(l), o \in Region(l, k),
         NEW j \in Tensors(l), o \in Region(l, j)
  PROVE  j = k
<1>1. ASSUME NEW a \in Tensors(l), NEW b \in Tensors(l), a < b,
             o \in Region(l, a), o \in Region(l, b)
      PROVE  FALSE
  <2>1. Count(l) \in Nat /\ a \in 1 .. Count(l) /\ b \in 1 .. Count(l)
    BY Sizes DEF Tensors
  <2>2. b \in a + 1 .. Count(l) + 1
    BY <1>1, <2>1
  <2>3. /\ Offset(l, a) \in Nat /\ Weights[l][a] \in Nat
        /\ Aligned(Weights[l][a]) \in Nat /\ Weights[l][a] <= Aligned(Weights[l][a])
        /\ Offset(l, a) + Aligned(Weights[l][a]) <= Offset(l, b)
        /\ Offset(l, b) \in Nat /\ Weights[l][b] \in Nat
    BY <2>2, OffsetsInOrder
  <2>4. QED
    BY <1>1, <2>3 DEF Region
<1>2. j \in Int /\ k \in Int
  BY Sizes DEF Tensors
<1>3. QED
  BY <1>1, <1>2

-----------------------------------------------------------------------------
(* The size of the buffer.                                                 *)

LEMMA BlockBytesNat ==
  ASSUME WeightStageAssumption, NEW l \in Layers
  PROVE  BlockBytes(l) \in Nat
<1>1. Count(l) \in Nat /\ Floats[l] \in Nat /\ \A k \in 1 .. Count(l) : Weights[l][k] \in Nat
  BY Sizes DEF Tensors
<1>2. IsSums(Sums(Weights[l], Count(l)), Weights[l], Count(l))
  BY <1>1, SumsEquation
<1>3. QED
  BY <1>1, <1>2 DEF BlockBytes, IsSums

LEMMA GreatestBlock ==
  ASSUME WeightStageAssumption
  PROVE  \E m \in Layers : \A l \in Layers : BlockBytes(l) <= BlockBytes(m)
<1> DEFINE n == NLayers - 1
           Holds(i) == \E m \in 0 .. i : \A l \in 0 .. i : BlockBytes(l) <= BlockBytes(m)
           S == {i \in 0 .. n : Holds(i)}
<1>1. n \in Nat /\ Layers = 0 .. n
  BY DEF Layers, WeightStageAssumption
<1>2. \A l \in 0 .. n : BlockBytes(l) \in Nat
  BY <1>1, BlockBytesNat
<1> HIDE DEF n
<1>3. 0 \in S
  <2>1. 0 .. 0 = {0} /\ 0 \in 0 .. n /\ BlockBytes(0) <= BlockBytes(0)
    BY <1>1, <1>2
  <2>2. QED
    BY <2>1
<1>4. ASSUME NEW i \in 1 .. n, i - 1 \in S PROVE i \in S
  <2>1. PICK m \in 0 .. i - 1 : \A l \in 0 .. i - 1 : BlockBytes(l) <= BlockBytes(m)
    BY <1>4
  <2>2. /\ m \in 0 .. n /\ i \in 0 .. n /\ m \in 0 .. i /\ i \in 0 .. i
        /\ \A l \in 0 .. i : l \in 0 .. n /\ (l = i \/ l \in 0 .. i - 1)
    BY <1>1
  <2>3. CASE BlockBytes(m) <= BlockBytes(i)
    <3>1. BlockBytes(m) \in Nat /\ BlockBytes(i) \in Nat
      BY <1>2, <2>2
    <3>2. ASSUME NEW l \in 0 .. i PROVE BlockBytes(l) <= BlockBytes(i)
      <4>1. BlockBytes(l) \in Nat /\ (l = i \/ BlockBytes(l) <= BlockBytes(m))
        BY <1>2, <2>1, <2>2
      <4>2. QED
        BY <2>3, <3>1, <4>1
    <3>3. QED
      BY <2>2, <3>2
  <2>4. CASE BlockBytes(i) <= BlockBytes(m)
    BY <1>2, <2>1, <2>2, <2>4
  <2>5. QED
    BY <1>2, <2>2, <2>3, <2>4
<1>5. \A i \in 0 .. n : i \in S
  <2> HIDE DEF S
  <2>1. QED
    BY <1>1, <1>3, <1>4, UpTo
<1>6. Holds(n)
  <2>1. n \in 0 .. n
    BY <1>1
  <2>2. n \in S
    BY <1>5, <2>1
  <2>3. QED
    BY <2>2
<1>7. QED
  BY <1>1, <1>6

\* ensure_weight_stage allocates room for the largest layer.
LEMMA StageBytesBound ==
  ASSUME WeightStageAssumption
  PROVE  /\ StageBytes \in Nat
         /\ \A l \in Layers : BlockBytes(l) <= StageBytes
<1> DEFINE Sizable == {MinStage} \union {BlockBytes(l) : l \in Layers}
<1>1. MinStage \in Nat /\ \A l \in Layers : BlockBytes(l) \in Nat
  BY BlockBytesNat DEF WeightStageAssumption
<1>2. PICK m \in Layers : \A l \in Layers : BlockBytes(l) <= BlockBytes(m)
  BY GreatestBlock
<1>3. \E x \in Sizable : \A y \in Sizable : x >= y
  <2>1. MinStage \in Sizable /\ BlockBytes(m) \in Sizable
    OBVIOUS
  <2>2. \A y \in Sizable : y = MinStage \/ \E l \in Layers : y = BlockBytes(l)
    OBVIOUS
  <2> HIDE DEF Sizable
  <2>3. CASE MinStage <= BlockBytes(m)
    <3>1. \A y \in Sizable : BlockBytes(m) >= y
      BY <1>1, <1>2, <2>2, <2>3
    <3>2. QED
      BY <2>1, <3>1
  <2>4. CASE BlockBytes(m) <= MinStage
    <3>1. \A y \in Sizable : MinStage >= y
      BY <1>1, <1>2, <2>2, <2>4
    <3>2. QED
      BY <2>1, <3>1
  <2>5. QED
    BY <1>1, <2>3, <2>4
<1>4. StageBytes \in Sizable /\ \A y \in Sizable : StageBytes >= y
  <2>1. StageBytes = Max(Sizable)
    BY DEF StageBytes
  <2> HIDE DEF Sizable
  <2>2. QED
    BY <1>3, <2>1 DEF Max
<1>5. QED
  BY <1>1, <1>4
-----------------------------------------------------------------------------
(* The steps.                                                              *)

\* The buffer of a loaded session has StageBytes bytes.
LEMMA CapacityOfStage ==
  ASSUME WeightStageAssumption, loaded, StageAllocated
  PROVE  Capacity = StageBytes /\ StageBytes \in Nat
<1>1. StageBytes \in Nat /\ DOMAIN stage = 0 .. StageBytes - 1
  BY StageBytesBound DEF StageAllocated
<1>2. Cardinality(0 .. StageBytes - 1) = StageBytes
  BY <1>1, FS_Interval
<1>3. QED
  BY <1>1, <1>2 DEF Capacity

\* A layer that fits is found whole where it was copied.
LEMMA CopiedIsOwn ==
  ASSUME WeightStageAssumption, loaded, StageAllocated,
         NEW l \in Layers, \A k \in Tensors(l) : Fits(l, k),
         NEW k \in Tensors(l), NEW o \in Region(l, k)
  PROVE  Copied(l, Count(l))[o] = <<l, k>>
<1>1. Capacity = StageBytes /\ StageBytes \in Nat /\ DOMAIN stage = 0 .. StageBytes - 1
  BY CapacityOfStage DEF StageAllocated
<1>2. /\ Offset(l, k) \in Nat /\ Weights[l][k] \in Nat
      /\ Aligned(Weights[l][k]) \in Nat /\ Weights[l][k] <= Aligned(Weights[l][k])
      /\ Offset(l, k) + Aligned(Weights[l][k]) <= StageBytes
  BY <1>1, OffsetsInOrder DEF Fits
<1>3. o \in DOMAIN stage
  BY <1>1, <1>2 DEF Region
<1>4. \A j \in Tensors(l) : o \in Region(l, j) => j = k
  BY RegionsDisjoint
<1>5. (CHOOSE j \in Tensors(l) : o \in Region(l, j)) = k
  BY <1>4
<1>6. QED
  BY <1>3, <1>5, Zenon DEF Copied, Tensors

LEMMA LayerNumbers ==
  ASSUME WeightStageAssumption
  PROVE  /\ 0 \in Layers /\ Layers \subseteq Nat /\ Gated \subseteq Layers
         /\ Window \in Nat \ {0} /\ NLayers \in Nat \ {0}
         /\ \A l \in Layers : /\ l < NLayers
                              /\ l + 1 < NLayers => l + 1 \in Layers
                              /\ l + 1 = NLayers => \A m \in Layers : m < l \/ m = l
BY DEF WeightStageAssumption, Layers

\* The types, in two parts.
FlagTypes == loaded \in BOOLEAN /\ serving \in BOOLEAN /\ staged \in BOOLEAN

PositionTypes ==
  /\ bound \subseteq Layers
  /\ recurrent \in [Gated -> -1 .. Window]
  /\ seq_len \in 0 .. Window /\ hidden \in 0 .. Window
  /\ pc \in {"idle", "prefill", "decode"}
  /\ at \in Layers /\ fresh \in 0 .. Window

LEMMA TypesInParts == TypeOK <=> FlagTypes /\ PositionTypes
BY Zenon DEF TypeOK, FlagTypes, PositionTypes, Null

LEMMA TypesInPartsPrimed == TypeOK' <=> FlagTypes' /\ PositionTypes'
BY TypesInParts, PTL

LEMMA InitEstablishes ==
  ASSUME WeightStageAssumption, Init
  PROVE  IInv
<1>1. 0 \in Layers /\ Window \in Nat
  BY LayerNumbers
<1>2. FlagTypes
  BY Zenon DEF Init, FlagTypes
<1>3. PositionTypes
  BY <1>1 DEF Init, PositionTypes, Null
<1>4. pc = "idle" /\ ~loaded /\ ~serving
  BY DEF Init
<1>5. QED
  BY <1>2, <1>3, <1>4, TypesInParts
     DEF IInv, StageAllocated, PrefillAnew, DecodeServes, OwnWeights, RecurrentInStep

\* A load takes place between two passes.
LEMMA LoadPreserves ==
  ASSUME WeightStageAssumption, IInv, NativeLoad \/ NativeLoadFails
  PROVE  IInv'
<1>1. Window \in Nat
  BY LayerNumbers
<1>2. TypeOK'
  <2>1. FlagTypes /\ PositionTypes
    BY TypesInParts DEF IInv
  <2>2. FlagTypes'
    BY <2>1, Zenon DEF NativeLoad, NativeLoadFails, FlagTypes, pass
  <2>3. PositionTypes'
    BY <1>1, <2>1 DEF NativeLoad, NativeLoadFails, PositionTypes, pass, Null
  <2>4. QED
    BY <2>2, <2>3, TypesInPartsPrimed
<1>3. pc' = "idle" /\ ~serving'
  BY DEF NativeLoad, NativeLoadFails, pass
<1>4. StageAllocated'
  <2>1. CASE NativeLoad
    <3>1. DOMAIN stage' = 0 .. StageBytes - 1
      BY <2>1, Zenon DEF NativeLoad
    <3>2. QED
      BY <1>3, <3>1 DEF StageAllocated
  <2>2. CASE NativeLoadFails
    BY <1>3, <2>2 DEF NativeLoadFails, StageAllocated
  <2>3. QED
    BY <2>1, <2>2
<1>5. QED
  BY <1>2, <1>3, <1>4
     DEF IInv, PrefillAnew, DecodeServes, OwnWeights, RecurrentInStep

LEMMA BeginPreserves ==
  ASSUME WeightStageAssumption, IInv, BeginDecode \/ \E n \in 1 .. Window : BeginPrefill(n)
  PROVE  IInv'
<1>1. 0 \in Layers /\ Layers \subseteq Nat /\ Gated \subseteq Layers /\ Window \in Nat \ {0}
  BY LayerNumbers
<1>2. CASE BeginDecode
  <2>1. /\ pc' = "decode" /\ at' = 0 /\ staged' = FALSE /\ fresh' = 1
        /\ serving /\ seq_len < Window /\ pc = "idle"
        /\ UNCHANGED <<loaded, stage, bound, recurrent, seq_len, hidden, serving>>
    BY <1>2 DEF BeginDecode, session
  <2>2. TypeOK'
    <3>1. FlagTypes /\ PositionTypes
      BY TypesInParts DEF IInv
    <3>2. FlagTypes'
      BY <2>1, <3>1, Zenon DEF FlagTypes
    <3>3. PositionTypes'
      BY <1>1, <2>1, <3>1 DEF PositionTypes
    <3>4. QED
      BY <3>2, <3>3, TypesInPartsPrimed
  <2>3. StageAllocated'
    BY <2>1 DEF IInv, StageAllocated
  <2>4. RecurrentInStep'
    BY <1>1, <2>1 DEF IInv, TypeOK, RecurrentInStep
  <2>5. QED
    BY <2>1, <2>2, <2>3, <2>4 DEF IInv, PrefillAnew, DecodeServes, OwnWeights
<1>3. CASE \E n \in 1 .. Window : BeginPrefill(n)
  <2>1. PICK n \in 1 .. Window : BeginPrefill(n)
    BY <1>3
  <2>2. /\ pc' = "prefill" /\ at' = 0 /\ staged' = FALSE /\ fresh' = n
        /\ seq_len' = 0 /\ serving' = FALSE /\ loaded
        /\ UNCHANGED <<loaded, stage, bound, recurrent, hidden>>
    BY <2>1 DEF BeginPrefill
  <2>3. TypeOK'
    <3>1. FlagTypes /\ PositionTypes
      BY TypesInParts DEF IInv
    <3>2. FlagTypes'
      BY <2>2, <3>1, Zenon DEF FlagTypes
    <3>3. PositionTypes'
      BY <1>1, <2>2, <3>1 DEF PositionTypes
    <3>4. QED
      BY <3>2, <3>3, TypesInPartsPrimed
  <2>4. StageAllocated'
    BY <2>2 DEF IInv, StageAllocated
  <2>5. PrefillAnew'
    BY <1>1, <2>2 DEF PrefillAnew
  <2>6. QED
    BY <2>2, <2>3, <2>4, <2>5 DEF IInv, DecodeServes, OwnWeights, RecurrentInStep
<1>4. QED
  BY <1>2, <1>3

\* The layer that runs has taken in what the cache holds; with the fresh positions
\* it stays inside the window.
LEMMA AdvancedFits ==
  ASSUME WeightStageAssumption, IInv, pc # "idle", staged
  PROVE  Advanced \in [Gated -> -1 .. Window] /\ seq_len + fresh \in 0 .. Window
<1>1. PositionTypes /\ Window \in Nat /\ Gated \subseteq Layers /\ Layers \subseteq Nat
  BY TypesInParts, LayerNumbers DEF IInv
<1>2. pc \in {"prefill", "decode"}
  BY <1>1 DEF PositionTypes
<1>3. ASSUME NEW l \in Gated, l = at PROVE recurrent[l] + fresh \in 0 .. Window
  <2>1. CASE pc = "prefill"
    <3>1. recurrent[l] = 0 /\ fresh \in 0 .. Window
      BY <1>1, <1>3, <2>1 DEF IInv, PrefillAnew, PositionTypes
    <3>2. QED
      BY <1>1, <3>1
  <2>2. CASE pc = "decode"
    <3>1. recurrent[l] = seq_len /\ fresh = 1 /\ seq_len < Window /\ seq_len \in 0 .. Window
      BY <1>1, <1>3, <2>2 DEF IInv, DecodeServes, RecurrentInStep, PositionTypes
    <3>2. QED
      BY <1>1, <3>1
  <2>3. QED
    BY <1>2, <2>1, <2>2
<1>4. Advanced \in [Gated -> -1 .. Window]
  <2>1. \A l \in Gated : recurrent[l] \in -1 .. Window
    BY <1>1 DEF PositionTypes
  <2>2. ASSUME NEW l \in Gated
        PROVE  (IF l = at THEN recurrent[l] + fresh ELSE recurrent[l]) \in -1 .. Window
    BY <1>1, <1>3, <2>1
  <2>3. QED
    BY <2>2 DEF Advanced
<1>5. seq_len + fresh \in 0 .. Window
  <2>1. CASE pc = "prefill"
    BY <1>1, <2>1 DEF IInv, PrefillAnew, PositionTypes
  <2>2. CASE pc = "decode"
    BY <1>1, <2>2 DEF IInv, DecodeServes, PositionTypes
  <2>3. QED
    BY <1>2, <2>1, <2>2
<1>6. QED
  BY <1>4, <1>5

\* A pass that fails leaves nothing to be served.
LEMMA FailurePreserves ==
  ASSUME WeightStageAssumption, IInv, pc # "idle", PassFails, loaded' = loaded,
         DOMAIN stage' = DOMAIN stage, bound' \subseteq Layers,
         recurrent' \in [Gated -> -1 .. Window],
         seq_len' \in 0 .. Window, hidden' \in 0 .. Window
  PROVE  IInv'
<1>1. FlagTypes /\ PositionTypes
  BY TypesInParts DEF IInv
<1>2. pc' = "idle" /\ serving' = FALSE /\ UNCHANGED <<at, staged, fresh>>
  BY DEF PassFails
<1>3. FlagTypes'
  BY <1>1, <1>2, Zenon DEF FlagTypes
<1>4. PositionTypes'
  BY <1>1, <1>2 DEF PositionTypes
<1>5. StageAllocated'
  BY <1>2 DEF IInv, StageAllocated
<1>6. QED
  BY <1>2, <1>3, <1>4, <1>5, TypesInPartsPrimed
     DEF IInv, PrefillAnew, DecodeServes, OwnWeights, RecurrentInStep

LEMMA FailingStepsPreserve ==
  ASSUME WeightStageAssumption, IInv,
         \/ \E n \in 0 .. Count(at) : LoadLayerFails(n)
         \/ ApplyLayerFails \/ FinishPrefillFails
  PROVE  IInv'
<1>1. PositionTypes /\ Window \in Nat
  BY TypesInParts, LayerNumbers DEF IInv
<1>2. CASE \E n \in 0 .. Count(at) : LoadLayerFails(n)
  <2>1. PICK n : LoadLayerFails(n)
    BY <1>2
  <2>2. /\ pc # "idle" /\ PassFails /\ stage' = Copied(at, n) /\ bound' = bound \ {at}
        /\ UNCHANGED <<loaded, recurrent, seq_len, hidden>>
    BY <2>1 DEF LoadLayerFails
  <2>3. DOMAIN stage' = DOMAIN stage
    BY <2>2, Zenon DEF Copied
  <2>4. QED
    BY <1>1, <2>2, <2>3, FailurePreserves DEF PositionTypes
<1>3. CASE ApplyLayerFails
  <2>1. /\ pc # "idle" /\ staged /\ PassFails /\ recurrent' \in {recurrent, Advanced}
        /\ UNCHANGED <<loaded, stage, bound, seq_len, hidden>>
    BY <1>3 DEF ApplyLayerFails
  <2>2. QED
    BY <1>1, <2>1, AdvancedFits, FailurePreserves DEF PositionTypes
<1>4. CASE FinishPrefillFails
  <2>1. /\ pc # "idle" /\ staged /\ PassFails /\ recurrent' = Advanced
        /\ seq_len' = seq_len + fresh /\ hidden' \in {0, fresh}
        /\ UNCHANGED <<loaded, stage, bound>>
    BY <1>4 DEF FinishPrefillFails
  <2>2. hidden' \in 0 .. Window
    BY <1>1, <2>1 DEF PositionTypes
  <2>3. QED
    BY <1>1, <2>1, <2>2, AdvancedFits, FailurePreserves DEF PositionTypes
<1>5. QED
  BY <1>2, <1>3, <1>4

\* The layer is found whole in the buffer, and its recurrent state where the
\* pass needs it: cleared by prefill, kept by decoding.
LEMMA LoadLayerPreserves ==
  ASSUME WeightStageAssumption, IInv, LoadLayer
  PROVE  IInv'
<1>1. /\ FlagTypes /\ PositionTypes
      /\ Window \in Nat /\ Gated \subseteq Layers /\ Layers \subseteq Nat
  BY TypesInParts, LayerNumbers DEF IInv
<1>2. /\ pc # "idle" /\ ~staged /\ \A k \in Tensors(at) : Fits(at, k)
      /\ staged' = TRUE /\ stage' = Copied(at, Count(at)) /\ bound' = bound \union {at}
      /\ recurrent' = [l \in Gated |-> IF l = at THEN StateAfterLoad(l) ELSE recurrent[l]]
      /\ UNCHANGED <<loaded, seq_len, hidden, pc, at, fresh, serving>>
  BY DEF LoadLayer
<1>3. \A l \in Gated : recurrent[l] \in -1 .. Window
  BY <1>1 DEF PositionTypes
<1>4. \A l \in Gated : StateAfterLoad(l) \in -1 .. Window
  BY <1>1, <1>3 DEF StateAfterLoad, Null
<1>5. \A l \in Gated : recurrent'[l] = IF l = at THEN StateAfterLoad(l) ELSE recurrent[l]
  BY <1>2
<1>6. TypeOK'
  <2>1. FlagTypes'
    BY <1>1, <1>2, Zenon DEF FlagTypes
  <2>2. recurrent' \in [Gated -> -1 .. Window]
    BY <1>2, <1>3, <1>4
  <2>3. PositionTypes'
    BY <1>1, <1>2, <2>2 DEF PositionTypes
  <2>4. QED
    BY <2>1, <2>3, TypesInPartsPrimed
<1>7. StageAllocated'
  <2>1. DOMAIN stage' = DOMAIN stage
    BY <1>2, Zenon DEF Copied
  <2>2. QED
    BY <1>2, <2>1 DEF IInv, StageAllocated
<1>8. PrefillAnew'
  BY <1>1, <1>2, <1>5 DEF IInv, PrefillAnew, StateAfterLoad, PositionTypes
<1>9. DecodeServes'
  BY <1>2 DEF IInv, DecodeServes
<1>10. OwnWeights'
  <2>1. loaded /\ StageAllocated /\ at \in Layers
    BY <1>1, <1>2 DEF IInv, StageAllocated, PositionTypes
  <2>2. \A k \in Tensors(at) : \A o \in Region(at, k) : stage'[o] = <<at, k>>
    BY <1>2, <2>1, CopiedIsOwn
  <2>3. OwnBytes(at)'
    <3>1. at' = at
      BY <1>2
    <3>2. QED
      BY <2>2, <3>1 DEF OwnBytes
  <2>4. QED
    BY <1>2, <2>3, Zenon DEF OwnWeights
<1>11. RecurrentInStep'
  <2>1. SUFFICES ASSUME serving
        PROVE  /\ hidden = seq_len
               /\ \A l \in Gated :
                    recurrent'[l] = seq_len + (IF pc = "decode" /\ l < at THEN 1 ELSE 0)
    BY <1>2 DEF RecurrentInStep
  <2>2. /\ hidden = seq_len
        /\ \A l \in Gated :
             recurrent[l] = seq_len + (IF pc = "decode" /\ l < at THEN 1 ELSE 0)
    BY <2>1 DEF IInv, RecurrentInStep
  <2>3. pc # "prefill" /\ seq_len \in Nat
    BY <1>1, <2>1 DEF IInv, PrefillAnew, PositionTypes
  <2>4. \A l \in Gated : recurrent'[l] = recurrent[l]
    BY <1>5, <2>2, <2>3 DEF StateAfterLoad, Null
  <2>5. QED
    BY <2>2, <2>4
<1>12. QED
  BY <1>6, <1>7, <1>8, <1>9, <1>10, <1>11 DEF IInv

LEMMA ApplyLayerPreserves ==
  ASSUME WeightStageAssumption, IInv, ApplyLayer
  PROVE  IInv'
<1>1. /\ FlagTypes /\ PositionTypes
      /\ Window \in Nat /\ Gated \subseteq Layers /\ Layers \subseteq Nat
      /\ Advanced \in [Gated -> -1 .. Window]
  BY TypesInParts, LayerNumbers, AdvancedFits DEF IInv, ApplyLayer
<1>2. /\ pc # "idle" /\ staged /\ at + 1 < NLayers
      /\ recurrent' = Advanced /\ at' = at + 1 /\ staged' = FALSE
      /\ UNCHANGED <<loaded, stage, bound, seq_len, hidden, pc, fresh, serving>>
  BY DEF ApplyLayer
<1>3. at \in Layers /\ at + 1 \in Layers
  BY <1>1, <1>2, LayerNumbers DEF PositionTypes
<1>4. \A l \in Gated :
        recurrent'[l] = IF l = at THEN recurrent[l] + fresh ELSE recurrent[l]
  BY <1>2 DEF Advanced
<1>5. TypeOK'
  <2>1. FlagTypes'
    BY <1>1, <1>2, Zenon DEF FlagTypes
  <2>2. PositionTypes'
    BY <1>1, <1>2, <1>3 DEF PositionTypes
  <2>3. QED
    BY <2>1, <2>2, TypesInPartsPrimed
<1>6. at \in Nat /\ \A l \in Gated : l \in Nat
  BY <1>1, <1>3
<1>7. StageAllocated' /\ DecodeServes' /\ OwnWeights'
  BY <1>2 DEF IInv, StageAllocated, DecodeServes, OwnWeights
<1>8. PrefillAnew'
  <2>1. SUFFICES ASSUME pc = "prefill"
        PROVE  /\ ~serving /\ seq_len = 0 /\ fresh > 0
               /\ \A l \in Gated : l < at + 1 => recurrent'[l] = fresh
    BY <1>2 DEF PrefillAnew
  <2>2. /\ ~serving /\ seq_len = 0 /\ fresh > 0 /\ fresh \in Nat
        /\ \A l \in Gated : /\ l < at => recurrent[l] = fresh
                            /\ l = at => recurrent[l] = 0
    BY <1>1, <1>2, <2>1 DEF IInv, PrefillAnew, PositionTypes
  <2>3. ASSUME NEW l \in Gated, l < at + 1 PROVE recurrent'[l] = fresh
    <3>1. l < at \/ l = at
      BY <1>6, <2>3
    <3>2. QED
      BY <1>4, <1>6, <2>2, <3>1
  <2>4. QED
    BY <2>2, <2>3
<1>9. RecurrentInStep'
  <2>1. SUFFICES ASSUME serving
        PROVE  /\ hidden = seq_len
               /\ \A l \in Gated :
                    recurrent'[l] = seq_len + (IF pc = "decode" /\ l < at + 1 THEN 1 ELSE 0)
    BY <1>2 DEF RecurrentInStep
  <2>2. /\ hidden = seq_len
        /\ \A l \in Gated :
             recurrent[l] = seq_len + (IF pc = "decode" /\ l < at THEN 1 ELSE 0)
    BY <2>1 DEF IInv, RecurrentInStep
  <2>3. pc = "decode" /\ fresh = 1 /\ seq_len \in Nat
    BY <1>1, <1>2, <2>1 DEF IInv, PrefillAnew, DecodeServes, PositionTypes
  <2>4. ASSUME NEW l \in Gated
        PROVE  recurrent'[l] = seq_len + (IF pc = "decode" /\ l < at + 1 THEN 1 ELSE 0)
    <3>1. CASE l < at
      BY <1>4, <1>6, <2>2, <2>3, <3>1
    <3>2. CASE l = at
      BY <1>4, <1>6, <2>2, <2>3, <3>2
    <3>3. CASE at < l
      BY <1>4, <1>6, <2>2, <2>3, <3>3
    <3>4. QED
      BY <1>6, <3>1, <3>2, <3>3
  <2>5. QED
    BY <2>2, <2>4
<1>10. QED
  BY <1>5, <1>7, <1>8, <1>9 DEF IInv

\* When the last layer is done all recurrent states have taken in what the cache
\* has, and the hidden state with them.
LEMMA FinishPassPreserves ==
  ASSUME WeightStageAssumption, IInv, FinishPass
  PROVE  IInv'
<1>1. /\ FlagTypes /\ PositionTypes
      /\ Window \in Nat /\ Gated \subseteq Layers /\ Layers \subseteq Nat
      /\ Advanced \in [Gated -> -1 .. Window] /\ seq_len + fresh \in 0 .. Window
  BY TypesInParts, LayerNumbers, AdvancedFits DEF IInv, FinishPass
<1>2. /\ pc # "idle" /\ staged /\ at + 1 = NLayers
      /\ recurrent' = Advanced /\ seq_len' = seq_len + fresh /\ hidden' = seq_len + fresh
      /\ pc' = "idle" /\ staged' = FALSE /\ serving' = TRUE
      /\ UNCHANGED <<loaded, stage, bound, at, fresh>>
  BY DEF FinishPass
<1>3. \A l \in Gated : l < at \/ l = at
  BY <1>1, <1>2, LayerNumbers DEF PositionTypes
<1>4. \A l \in Gated :
        recurrent'[l] = IF l = at THEN recurrent[l] + fresh ELSE recurrent[l]
  BY <1>2 DEF Advanced
<1>5. TypeOK'
  <2>1. FlagTypes'
    BY <1>1, <1>2, Zenon DEF FlagTypes
  <2>2. PositionTypes'
    BY <1>1, <1>2 DEF PositionTypes
  <2>3. QED
    BY <2>1, <2>2, TypesInPartsPrimed
<1>6. StageAllocated' /\ PrefillAnew' /\ DecodeServes' /\ OwnWeights'
  BY <1>2 DEF IInv, StageAllocated, PrefillAnew, DecodeServes, OwnWeights
<1>7. ASSUME NEW l \in Gated PROVE recurrent'[l] = seq_len + fresh
  <2>1. l \in Nat /\ at \in Nat /\ seq_len \in Nat /\ fresh \in Nat
    BY <1>1 DEF PositionTypes
  <2>2. CASE pc = "prefill"
    BY <1>2, <1>3, <1>4, <2>1, <2>2 DEF IInv, PrefillAnew
  <2>3. CASE pc = "decode"
    <3>1. /\ fresh = 1
          /\ recurrent[l] = seq_len + (IF l < at THEN 1 ELSE 0)
      BY <2>3 DEF IInv, DecodeServes, RecurrentInStep
    <3>2. QED
      BY <1>3, <1>4, <2>1, <3>1
  <2>4. QED
    BY <1>1, <1>2, <2>2, <2>3 DEF PositionTypes
<1>8. RecurrentInStep'
  BY <1>2, <1>7 DEF RecurrentInStep, PositionTypes
<1>9. QED
  BY <1>5, <1>6, <1>8 DEF IInv

-----------------------------------------------------------------------------
LEMMA WeightStageInvariant == Spec => []IInv
<1>1. Init => IInv
  BY WeightStageAssumption, InitEstablishes
<1>2. IInv /\ [Next]_vars => IInv'
  <2>1. SUFFICES ASSUME IInv, [Next]_vars PROVE IInv'
    OBVIOUS
  <2>2. CASE NativeLoad \/ NativeLoadFails
    BY WeightStageAssumption, <2>1, <2>2, LoadPreserves
  <2>3. CASE BeginDecode \/ \E n \in 1 .. Window : BeginPrefill(n)
    BY WeightStageAssumption, <2>1, <2>3, BeginPreserves
  <2>4. CASE LoadLayer
    BY WeightStageAssumption, <2>1, <2>4, LoadLayerPreserves
  <2>5. CASE ApplyLayer
    BY WeightStageAssumption, <2>1, <2>5, ApplyLayerPreserves
  <2>6. CASE FinishPass
    BY WeightStageAssumption, <2>1, <2>6, FinishPassPreserves
  <2>7. CASE \/ \E n \in 0 .. Count(at) : LoadLayerFails(n)
             \/ ApplyLayerFails \/ FinishPrefillFails
    BY WeightStageAssumption, <2>1, <2>7, FailingStepsPreserve
  <2>8. CASE UNCHANGED vars
    <3>1. UNCHANGED <<loaded, stage, bound, recurrent, seq_len, hidden,
                      pc, at, staged, fresh, serving>>
      BY <2>8 DEF vars, session, pass
    <3>2. QED
      BY <2>1, <3>1
         DEF IInv, TypeOK, StageAllocated, PrefillAnew, DecodeServes, OwnWeights,
             OwnBytes, RecurrentInStep
  <2>9. QED
    BY <2>1, <2>2, <2>3, <2>4, <2>5, <2>6, <2>7, <2>8, Zenon DEF Next
<1>3. QED
  BY <1>1, <1>2, PTL DEF Spec

\* TypeOK: a recurrent state never runs past the window, whatever fails
\* (apply_gated_delta_layer, forward_decode_token).
THEOREM WeightStageTypeOK == Spec => []TypeOK
<1>1. IInv => TypeOK
  BY DEF IInv
<1>2. QED
  BY <1>1, WeightStageInvariant, PTL

\* OwnWeights: the layers share one buffer (load_layer_into), but a layer is
\* always computed with its own weights.
THEOREM WeightStageOwnWeights == Spec => []OwnWeights
<1>1. IInv => OwnWeights
  BY DEF IInv
<1>2. QED
  BY <1>1, WeightStageInvariant, PTL

\* RecurrentInStep: after any mixture of requests, reloads and failures, the
\* recurrent states of a served request have taken in the positions of the KV
\* cache (forward_prefill, forward_decode_token).
THEOREM WeightStageRecurrentInStep == Spec => []RecurrentInStep
<1>1. IInv => RecurrentInStep
  BY DEF IInv
<1>2. QED
  BY <1>1, WeightStageInvariant, PTL

\* The hypothesis of the next theorem holds of every model whose layers have
\* Align - 1 bytes that are not staged for each tensor that is.
LEMMA PaddingFitsByNorms ==
  ASSUME WeightStageAssumption,
         \A l \in Layers : Count(l) * (Align - 1) <= Floats[l]
  PROVE  PaddingFits
<1>1. SUFFICES ASSUME NEW l \in Layers
      PROVE  Offset(l, Count(l) + 1) <= Sums(Weights[l], Count(l))[Count(l)] + Floats[l]
  BY DEF PaddingFits
<1> DEFINE n == Count(l)
           p == Align - 1
           F == Offsets(l)
           G == Sums(Weights[l], n)
           S == {i \in 0 .. n : F[i] <= G[i] + i * p}
<1>2. n \in Nat /\ p \in Nat /\ Floats[l] \in Nat /\ n * p <= Floats[l]
  BY Sizes DEF WeightStageAssumption
<1>3. IsSums(F, Staged(l), n) /\ IsSums(G, Weights[l], n)
  BY StagedSizes, SumsEquation, Sizes DEF Tensors
<1>4. \A i \in 1 .. n : /\ Weights[l][i] \in Nat /\ Staged(l)[i] \in Nat
                       /\ Staged(l)[i] <= Weights[l][i] + p
  <2>1. TAKE i \in 1 .. n
  <2>2. i \in Tensors(l) /\ Weights[l][i] \in Nat
    BY Sizes DEF Tensors
  <2>3. /\ Aligned(Weights[l][i]) \in Nat /\ Staged(l)[i] = Aligned(Weights[l][i])
        /\ Aligned(Weights[l][i]) <= Weights[l][i] + Align - 1 /\ Align \in Nat
    BY <2>2, StagedSizes, AlignedBounds DEF WeightStageAssumption
  <2>4. QED
    BY <2>2, <2>3
<1>5. Offset(l, Count(l) + 1) = F[n]
  <2>1. \A j : Offset(l, j) = Offsets(l)[j - 1]
    BY DEF Offset, Offsets
  <2>2. QED
    BY <1>2, <2>1
<1> HIDE DEF n, p, F, G
<1>6. 0 \in S
  BY <1>2, <1>3 DEF IsSums
<1>7. ASSUME NEW i \in 1 .. n, i - 1 \in S PROVE i \in S
  <2>1. /\ F[i] = F[i - 1] + Staged(l)[i] /\ G[i] = G[i - 1] + Weights[l][i]
        /\ F[i - 1] \in Nat /\ G[i - 1] \in Nat /\ F[i - 1] <= G[i - 1] + (i - 1) * p
        /\ i \in 0 .. n
    BY <1>2, <1>3, <1>7 DEF IsSums
  <2>2. (i - 1) * p \in Int /\ i * p = (i - 1) * p + p
    BY <1>2
  <2>3. F[i] <= G[i] + i * p
    <3> DEFINE x == (i - 1) * p
               y == i * p
    <3>1. x \in Int /\ y = x + p /\ F[i - 1] <= G[i - 1] + x
      BY <2>1, <2>2
    <3>2. F[i] <= G[i] + y
      <4> DEFINE s == Staged(l)[i]
                 w == Weights[l][i]
                 f == F[i - 1]
                 g == G[i - 1]
      <4>1. s \in Nat /\ w \in Nat /\ s <= w + p
        BY <1>4
      <4>2. /\ F[i] = f + s /\ G[i] = g + w /\ f \in Nat /\ g \in Nat
            /\ f <= g + x
        BY <2>1, <3>1
      <4> HIDE DEF x, y, s, w, f, g
      <4>3. QED
        BY <1>2, <3>1, <4>1, <4>2
    <3>3. QED
      BY <3>2
  <2>4. QED
    BY <2>1, <2>3
<1>8. \A i \in 0 .. n : i \in S
  <2> HIDE DEF S
  <2>1. QED
    BY <1>2, <1>6, <1>7, UpTo
<1>9. F[n] <= G[n] + n * p /\ F[n] \in Nat /\ G[n] \in Nat
  BY <1>2, <1>3, <1>8 DEF IsSums
<1>10. F[n] <= G[n] + Floats[l]
  <2>1. n * p \in Int
    BY <1>2
  <2>2. QED
    BY <1>2, <1>9, <2>1
<1>11. QED
  BY <1>5, <1>10 DEF n, G

\* StageSuffices: the buffer that edgexpu_gguf_max_block_bytes sizes takes every
\* layer, so stage_copy_bytes never runs short, when the tensors of each layer
\* that are not staged make up for the alignment.
THEOREM WeightStageSuffices ==
  ASSUME PaddingFits
  PROVE  Spec => []StageSuffices
<1>1. IInv => StageSuffices
  <2>1. SUFFICES ASSUME IInv, loaded, NEW l \in Layers, NEW k \in Tensors(l)
        PROVE  Fits(l, k)
    BY DEF StageSuffices
  <2>2. Capacity = StageBytes /\ StageBytes \in Nat
    BY WeightStageAssumption, <2>1, CapacityOfStage DEF IInv
  <2>3. BlockBytes(l) \in Nat /\ BlockBytes(l) <= StageBytes
    BY WeightStageAssumption, BlockBytesNat, StageBytesBound
  <2>4. Count(l) + 1 \in k + 1 .. Count(l) + 1
    BY WeightStageAssumption, Sizes DEF Tensors
  <2>5. /\ Offset(l, k) \in Nat /\ Aligned(Weights[l][k]) \in Nat
        /\ Offset(l, k) + Aligned(Weights[l][k]) <= Offset(l, Count(l) + 1)
    BY WeightStageAssumption, <2>4, OffsetsInOrder
  <2>6. Offset(l, Count(l) + 1) \in Nat /\ Offset(l, Count(l) + 1) <= BlockBytes(l)
    <3>1. Offset(l, Count(l) + 1) \in Nat
      <4>1. IsSums(Offsets(l), Staged(l), Count(l)) /\ Count(l) \in Nat
        BY WeightStageAssumption, StagedSizes, Sizes
      <4>2. Offset(l, Count(l) + 1) = Offsets(l)[Count(l)]
        <5>1. \A j : Offset(l, j) = Offsets(l)[j - 1]
          BY DEF Offset, Offsets
        <5>2. QED
          BY <4>1, <5>1
      <4>3. QED
        BY <4>1, <4>2 DEF IsSums
    <3>2. QED
      BY <3>1 DEF PaddingFits, BlockBytes
  <2>7. QED
    BY <2>2, <2>3, <2>5, <2>6 DEF Fits
<1>2. QED
  BY <1>1, WeightStageInvariant, PTL

-----------------------------------------------------------------------------
(* The GGUF file.                                                          *)

\* The calls of the loader on the stream.
Calls == ({"read", "skip"} \X Nat) \union {Fail}

\* Steps of one list of calls are calls.
LEMMA CallsTyped ==
  /\ \A n \in Nat : Read(n) \in Calls /\ Skip(n) \in Calls
  /\ Fail \in Calls
BY DEF Calls, Read, Skip, Fail

\* The calls for a text.
LEMMA TextCalls ==
  ASSUME GgufAssumption, NEW n \in Nat
  PROVE  \E a, b \in Nat : a + b = n /\ ReadText(n) = <<Read(2), Read(a), Skip(b)>>
<1>1. TextRoom \in Nat \ {0}
  BY DEF GgufAssumption
<1> DEFINE a == IF n < TextRoom THEN n ELSE TextRoom - 1
<1>2. a \in Nat /\ n - a \in Nat /\ a + (n - a) = n
  BY <1>1
<1>3. ReadText(n) = <<Read(2), Read(a), Skip(n - a)>>
  BY DEF ReadText
<1> HIDE DEF a
<1>4. QED
  BY <1>2, <1>3

\* The calls for a text are calls.
LEMMA TextCallsTyped ==
  ASSUME GgufAssumption, NEW n \in Nat
  PROVE  ReadText(n) \in Seq(Calls)
<1>1. PICK a \in Nat, b \in Nat : ReadText(n) = <<Read(2), Read(a), Skip(b)>>
  BY TextCalls
<1>2. Read(2) \in Calls /\ Read(a) \in Calls /\ Skip(b) \in Calls
  BY CallsTyped
<1>3. QED
  BY <1>1, <1>2

\* The calls for a list of strings.
LEMMA EachTyped ==
  ASSUME GgufAssumption, NEW lengths \in Seq(Nat), NEW keep \in BOOLEAN
  PROVE  Each(lengths, keep) \in Seq(Calls)
<1> DEFINE n == Len(lengths)
<1>1. n \in Nat /\ \A i \in 1 .. n : lengths[i] \in Nat
  OBVIOUS
<1>2. \A i \in 1 .. 2 * n : (i + 1) \div 2 \in 1 .. n
  <2> HIDE DEF n
  <2>1. QED
    BY <1>1
<1>3. \A i \in 1 .. n : Kept(lengths[i]) \in Calls /\ Skip(lengths[i]) \in Calls
  BY <1>1, CallsTyped DEF Kept
<1>4. Read(2) \in Calls
  BY CallsTyped
<1>5. \A i \in 1 .. 2 * n : Each(lengths, keep)[i] \in Calls
  <2>1. TAKE i \in 1 .. 2 * n
  <2>2. (i + 1) \div 2 \in 1 .. n
    BY <1>2
  <2>3. Kept(lengths[(i + 1) \div 2]) \in Calls /\ Skip(lengths[(i + 1) \div 2]) \in Calls
    BY <1>3, <2>2, Zenon
  <2>4. Each(lengths, keep)[i]
          = IF i % 2 = 1 THEN Read(2)
            ELSE IF keep THEN Kept(lengths[(i + 1) \div 2]) ELSE Skip(lengths[(i + 1) \div 2])
    BY DEF Each
  <2>5. QED
    BY <1>4, <2>3, <2>4, Zenon
<1>6. Each(lengths, keep) = [i \in 1 .. 2 * n |-> Each(lengths, keep)[i]]
  BY DEF Each
<1>7. 2 * n \in Nat
  BY <1>1
<1> HIDE DEF n
<1>8. [i \in 1 .. 2 * n |-> Each(lengths, keep)[i]] \in Seq(Calls)
  BY <1>5, <1>7
<1>9. QED
  BY <1>6, <1>8, Zenon

\* The calls for an entry.
LEMMA EntryCallsTyped ==
  ASSUME GgufAssumption, NEW entry \in Entries
  PROVE  EntryCalls(entry) \in Seq(Calls)
<1>1. /\ entry.type \in {"u64", "string", "scalar"} => entry.value \in Nat
      /\ entry.type \in {"strings", "numbers"} => entry.value \in Seq(Nat)
  BY Zenon DEF GgufAssumption
<1>2. /\ Read(1) \in Calls /\ Read(2) \in Calls /\ Fail \in Calls
      /\ \A n \in Nat : Skip(n) \in Calls
  BY CallsTyped
<1>3. ValueCalls(entry) \in Seq(Calls)
  <2>1. CASE entry.type = "string" /\ entry.key \in TextKeys
    BY <1>1, <2>1, TextCallsTyped DEF ValueCalls
  <2>2. CASE entry.type = "string" /\ entry.key \notin TextKeys
    BY <1>1, <1>2, <2>2 DEF ValueCalls
  <2>3. CASE entry.type = "strings"
    <3>1. Each(entry.value, entry.key \in ListKeys) \in Seq(Calls)
      <4>1. entry.value \in Seq(Nat) /\ (entry.key \in ListKeys) \in BOOLEAN
        BY <1>1, <2>3
      <4>2. QED
        BY <4>1, EachTyped, Zenon
    <3>2. <<Read(1), Read(2)>> \in Seq(Calls)
      BY <1>2
    <3>3. ValueCalls(entry) = <<Read(1), Read(2)>> \o Each(entry.value, entry.key \in ListKeys)
      BY <2>3 DEF ValueCalls
    <3>4. QED
      BY <3>1, <3>2, <3>3
  <2>4. CASE entry.type = "numbers" /\ Sections(entry.key)
    <3>1. [i \in DOMAIN entry.value |-> Read(1)] \in Seq(Calls)
      BY <1>1, <1>2, <2>4
    <3>2. <<Read(1), Read(2)>> \in Seq(Calls)
      BY <1>2
    <3>3. ValueCalls(entry) = <<Read(1), Read(2)>> \o [i \in DOMAIN entry.value |-> Read(1)]
      BY <2>4 DEF ValueCalls
    <3>4. QED
      BY <3>1, <3>2, <3>3
  <2>5. CASE entry.type = "numbers" /\ ~Sections(entry.key)
    <3>1. Skip(Len(entry.value)) \in Calls
      BY <1>1, <1>2, <2>5
    <3>2. ValueCalls(entry) = <<Read(1), Read(2), IF entry.key \in ListKeys THEN Fail
                                                  ELSE Skip(Len(entry.value))>>
      BY <2>5 DEF ValueCalls
    <3>3. QED
      BY <1>2, <3>1, <3>2
  <2>6. CASE entry.type \notin {"string", "strings", "numbers"}
    BY <1>1, <1>2, <2>6 DEF ValueCalls
  <2>7. QED
    BY <2>1, <2>2, <2>3, <2>4, <2>5, <2>6, Zenon
<1>4. <<Read(2), Read(1), Read(1)>> \in Seq(Calls)
  BY <1>2
<1>5. QED
  BY <1>3, <1>4 DEF EntryCalls

\* The sums of calls.
LEMMA CallSums ==
  ASSUME NEW calls \in Seq(Calls)
  PROVE  /\ Len(calls) \in Nat /\ DOMAIN calls = 1 .. Len(calls)
         /\ Len(Lengths(calls)) = Len(calls)
         /\ \A i \in 1 .. Len(calls) : Lengths(calls)[i] = calls[i][2] /\ calls[i][2] \in Nat
         /\ IsSums(Sums(Lengths(calls), Len(calls)), Lengths(calls), Len(calls))
<1>1. Len(calls) \in Nat /\ DOMAIN calls = 1 .. Len(calls)
  OBVIOUS
<1>2. \A i \in 1 .. Len(calls) : calls[i] \in Calls
  OBVIOUS
<1>3. \A c \in Calls : c[2] \in Nat
  BY DEF Calls, Fail
<1>4. \A i \in 1 .. Len(calls) : Lengths(calls)[i] = calls[i][2] /\ calls[i][2] \in Nat
  BY <1>1, <1>2, <1>3 DEF Lengths
<1>5. Len(Lengths(calls)) = Len(calls)
  BY <1>1 DEF Lengths
<1>6. IsSums(Sums(Lengths(calls), Len(calls)), Lengths(calls), Len(calls))
  BY <1>1, <1>4, SumsEquation, Zenon
<1>7. QED
  BY <1>1, <1>4, <1>5, <1>6

\* What a run of calls tells of the file: all of it has been passed, or one of
\* them can only fail, or the file is too short for them.
LEMMA RunOfCalls ==
  ASSUME NEW calls \in Seq(Calls), pos \in Nat, size \in Nat
  PROVE  /\ Total(Lengths(calls)) \in Nat
         /\ Run(calls).pos = pos + Total(Lengths(calls))
         /\ Run(calls).done => Fail \notin ToSet(calls)
         /\ ~ Run(calls).done => Fail \in ToSet(calls) \/ pos + Total(Lengths(calls)) > size
         /\ Run(calls).done /\ calls # <<>> /\ calls[Len(calls)][1] = "read"
              => Run(calls).pos <= size
<1> DEFINE n == Len(calls)
           passed == Sums(Lengths(calls), n)
           Done == \A i \in DOMAIN calls : /\ calls[i][1] # "fail"
                                           /\ calls[i][1] = "read" => pos + passed[i] <= size
<1>1. Run(calls) = [done |-> Done, pos |-> pos + passed[n]]
  BY DEF Run
<1>2. Run(calls).done = Done /\ Run(calls).pos = pos + passed[n]
  <2> HIDE DEF Done, passed, n
  <2>1. QED
    BY <1>1
<1>3. Total(Lengths(calls)) = passed[n]
  BY CallSums, Zenon DEF Total
<1>4. n \in Nat /\ DOMAIN calls = 1 .. n /\ IsSums(passed, Lengths(calls), n)
      /\ \A i \in 1 .. n : Lengths(calls)[i] \in Nat
  BY CallSums
<1>5. \A i \in 1 .. n : calls[i] \in Calls
  OBVIOUS
<1> HIDE DEF n, passed
<1>6. \A i \in 0 .. n : passed[i] \in Nat /\ passed[i] <= passed[n]
  <2>1. TAKE i \in 0 .. n
  <2>2. n \in 0 .. n
    BY <1>4
  <2>3. passed[i] <= passed[n]
    BY <1>4, <2>2, SumsGrow
  <2>4. QED
    BY <1>4, <2>3 DEF IsSums
<1>7. passed[n] \in Nat
  BY <1>4, <1>6
<1>8. \A c \in Calls : (c[1] = "fail" <=> c = Fail)
  BY DEF Calls, Fail
<1>9. Done => Fail \notin ToSet(calls)
  BY <1>4, <1>8 DEF ToSet, Fail
<1>10. ~ Done => Fail \in ToSet(calls) \/ pos + passed[n] > size
  <2>1. SUFFICES ASSUME ~ Done PROVE Fail \in ToSet(calls) \/ pos + passed[n] > size
    OBVIOUS
  <2>2. PICK i \in 1 .. n : calls[i][1] = "fail" \/ ~(pos + passed[i] <= size)
    BY <1>4, <2>1
  <2>3. CASE calls[i][1] = "fail"
    BY <1>4, <1>5, <1>8, <2>3 DEF ToSet
  <2>4. CASE ~(pos + passed[i] <= size)
    <3>1. passed[i] \in Nat /\ passed[i] <= passed[n]
      BY <1>4, <1>6
    <3>2. QED
      BY <1>7, <2>4, <3>1
  <2>5. QED
    BY <2>2, <2>3, <2>4, Zenon
<1>11. Done /\ calls # <<>> /\ calls[n][1] = "read" => pos + passed[n] <= size
  <2>1. calls # <<>> => n \in 1 .. n
    BY DEF n
  <2>2. QED
    BY <1>4, <2>1
<1> HIDE DEF Done
<1>12. QED
  BY <1>2, <1>3, <1>7, <1>9, <1>10, <1>11 DEF n

\* The calls for a tensor: its length in the file, unless its dimensions are too
\* many, and a read at the end.
LEMMA CallsOfTensor ==
  ASSUME GgufAssumption, NEW tensor \in [name : Nat, n_dims : Nat]
  PROVE  /\ TensorCalls(tensor) \in Seq(Calls) /\ TensorCalls(tensor) # <<>>
         /\ TensorCalls(tensor)[Len(TensorCalls(tensor))][1] = "read"
         /\ Fail \in ToSet(TensorCalls(tensor)) <=> tensor.n_dims > 4
         /\ tensor.n_dims <= 4 => Total(Lengths(TensorCalls(tensor))) = TensorLength(tensor)
<1> DEFINE n == tensor.name
           m == 2 * tensor.n_dims
           dims == IF tensor.n_dims > 4 THEN Fail ELSE Read(m)
           calls == TensorCalls(tensor)
<1>1. n \in Nat /\ tensor.n_dims \in Nat /\ m \in Nat
  OBVIOUS
<1>2. PICK a \in Nat, b \in Nat : a + b = n /\ ReadText(n) = <<Read(2), Read(a), Skip(b)>>
  BY <1>1, TextCalls
<1>3. /\ Read(1) \in Calls /\ Read(2) \in Calls /\ Read(a) \in Calls /\ Skip(b) \in Calls
      /\ dims \in Calls
  BY <1>1, CallsTyped
<1>4. calls = <<Read(2), Read(a), Skip(b)>> \o <<Read(1), dims, Read(1), Read(2)>>
  BY <1>2 DEF TensorCalls
<1>5. /\ calls \in Seq(Calls) /\ Len(calls) = 7
      /\ calls[1] = Read(2) /\ calls[2] = Read(a) /\ calls[3] = Skip(b) /\ calls[4] = Read(1)
      /\ calls[5] = dims /\ calls[6] = Read(1) /\ calls[7] = Read(2)
  <2> DEFINE x == <<Read(2), Read(a), Skip(b)>>
             y == <<Read(1), dims, Read(1), Read(2)>>
  <2> HIDE DEF dims, calls
  <2>1. x \in Seq(Calls) /\ Len(x) = 3 /\ y \in Seq(Calls) /\ Len(y) = 4
    BY <1>3
  <2>2. x[1] = Read(2) /\ x[2] = Read(a) /\ x[3] = Skip(b)
    OBVIOUS
  <2>3. y[1] = Read(1) /\ y[2] = dims /\ y[3] = Read(1) /\ y[4] = Read(2)
    OBVIOUS
  <2>4. calls = x \o y
    BY <1>4
  <2> HIDE DEF x, y
  <2>5. /\ x \o y \in Seq(Calls) /\ Len(x \o y) = Len(x) + Len(y)
        /\ \A i \in 1 .. Len(x) + Len(y) :
             (x \o y)[i] = IF i <= Len(x) THEN x[i] ELSE y[i - Len(x)]
    BY <2>1, ConcatProperties, Zenon
  <2> DEFINE z == x \o y
  <2> HIDE DEF z
  <2>6. /\ z \in Seq(Calls) /\ Len(z) = 7
        /\ \A i \in 1 .. 7 : z[i] = IF i <= 3 THEN x[i] ELSE y[i - 3]
    BY <2>1, <2>5 DEF z
  <2>7. /\ z[1] = x[1] /\ z[2] = x[2] /\ z[3] = x[3]
        /\ z[4] = y[1] /\ z[5] = y[2] /\ z[6] = y[3] /\ z[7] = y[4]
    BY <2>6
  <2>8. QED
    BY <2>2, <2>3, <2>4, <2>6, <2>7, Zenon DEF z
<1>6. calls # <<>> /\ DOMAIN calls = 1 .. 7
  <2>1. calls \in Seq(Calls) /\ Len(calls) = 7
    BY <1>5
  <2> HIDE DEF calls
  <2>2. QED
    BY <2>1
<1>8. calls[7][1] = "read"
  BY <1>5 DEF Read
<1>9. Fail \in ToSet(calls) <=> dims = Fail
  <2> HIDE DEF dims, calls
  <2>1. ToSet(calls) = {Read(2), Read(a), Skip(b), Read(1), dims, Read(1), Read(2)}
    <3>1. \A i \in 1 .. 7 :
            i = 1 \/ i = 2 \/ i = 3 \/ i = 4 \/ i = 5 \/ i = 6 \/ i = 7
      OBVIOUS
    <3>2. 1 \in 1 .. 7 /\ 2 \in 1 .. 7 /\ 3 \in 1 .. 7 /\ 5 \in 1 .. 7
      OBVIOUS
    <3>3. \A i \in 1 .. 7 :
            calls[i] \in {Read(2), Read(a), Skip(b), Read(1), dims, Read(1), Read(2)}
      BY <1>5, <3>1
    <3>4. \A c \in {Read(2), Read(a), Skip(b), Read(1), dims, Read(1), Read(2)} :
            \E i \in 1 .. 7 : calls[i] = c
      BY <1>5, <3>2
    <3>5. ToSet(calls) = {calls[i] : i \in 1 .. 7}
      BY <1>6 DEF ToSet
    <3>6. QED
      BY <3>3, <3>4, <3>5
  <2>2. \A k \in Nat : Read(k) # Fail /\ Skip(k) # Fail
    BY DEF Read, Skip, Fail
  <2>3. QED
    BY <1>2, <2>1, <2>2
<1>10. dims = Fail <=> tensor.n_dims > 4
  BY <1>1 DEF Fail, Read
<1>11. ASSUME tensor.n_dims <= 4 PROVE Total(Lengths(calls)) = TensorLength(tensor)
  <2> DEFINE F == Sums(Lengths(calls), 7)
             L == Lengths(calls)
  <2>1. IsSums(F, L, 7) /\ Len(L) = 7 /\ \A i \in 1 .. 7 : L[i] = calls[i][2]
    <3>1. calls \in Seq(Calls) /\ Len(calls) = 7
      BY <1>5
    <3> HIDE DEF calls
    <3>2. QED
      BY <3>1, CallSums, Zenon
  <2>2. dims = Read(m)
    BY <1>1, <1>11
  <2> HIDE DEF F, L, dims, calls
  <2>3. /\ calls[1] = Read(2) /\ calls[2] = Read(a) /\ calls[3] = Skip(b) /\ calls[4] = Read(1)
        /\ calls[5] = Read(m) /\ calls[6] = Read(1) /\ calls[7] = Read(2)
    BY <1>5, <2>2
  <2>4. \A k : Read(k)[2] = k /\ Skip(k)[2] = k
    BY DEF Read, Skip
  <2>5. L[1] = 2 /\ L[2] = a /\ L[3] = b /\ L[4] = 1 /\ L[5] = m /\ L[6] = 1 /\ L[7] = 2
    BY <2>1, <2>3, <2>4
  <2>6. \A i \in 1 .. 7 : F[i] = F[i - 1] + L[i]
    BY <2>1 DEF IsSums
  <2>7. F[0] = 0
    BY <2>1 DEF IsSums
  <2>8. /\ F[1] = F[0] + L[1] /\ F[2] = F[1] + L[2] /\ F[3] = F[2] + L[3]
        /\ F[4] = F[3] + L[4] /\ F[5] = F[4] + L[5] /\ F[6] = F[5] + L[6]
        /\ F[7] = F[6] + L[7]
    BY <2>6
  <2> HIDE DEF n, m
  <2>9. F[7] = 2 + n + 1 + m + 3
    BY <1>1, <1>2, <2>5, <2>7, <2>8
  <2>10. Total(Lengths(calls)) = F[7]
    BY <2>1 DEF Total, F, L
  <2>11. QED
    BY <2>9, <2>10 DEF TensorLength, n, m
<1>12. QED
  BY <1>5, <1>6, <1>8, <1>9, <1>10, <1>11

\* Where the parts of a file end.
LEMMA PartsEnd ==
  ASSUME NEW n \in Nat, NEW lengths, \A i \in 1 .. n : lengths[i] \in Nat
  PROVE  /\ Sums(lengths, n)[0] = 0
         /\ \A i \in 0 .. n : /\ Sums(lengths, n)[i] \in Nat
                             /\ Sums(lengths, n)[i] <= Sums(lengths, n)[n]
         /\ \A i \in 1 .. n : Sums(lengths, n)[i] = Sums(lengths, n)[i - 1] + lengths[i]
<1> DEFINE F == Sums(lengths, n)
<1>1. IsSums(F, lengths, n)
  BY SumsEquation
<1> HIDE DEF F
<1>2. n \in 0 .. n
  OBVIOUS
<1>3. \A i \in 0 .. n : F[i] <= F[n]
  BY <1>1, <1>2, SumsGrow
<1>4. QED
  BY <1>1, <1>3 DEF IsSums, F

\* Where the entries of a file end.
LEMMA EntriesEnd ==
  ASSUME GgufAssumption, NEW list \in EntryLists
  PROVE  /\ Len(list) \in Nat /\ DOMAIN list = 1 .. Len(list)
         /\ \A i \in 1 .. Len(list) : list[i] \in Entries
         /\ EntryEnds(list)[0] = 0
         /\ \A i \in 0 .. Len(list) : /\ EntryEnds(list)[i] \in Nat
                                     /\ EntryEnds(list)[i] <= EntryEnds(list)[Len(list)]
         /\ \A i \in 1 .. Len(list) : /\ EntryLength(list[i]) \in Nat
                                     /\ EntryEnds(list)[i] = EntryEnds(list)[i - 1]
                                                               + EntryLength(list[i])
<1>1. list \in Seq(Entries)
  BY DEF GgufAssumption
<1> DEFINE n == Len(list)
           L == [i \in DOMAIN list |-> EntryLength(list[i])]
<1>2. n \in Nat /\ DOMAIN list = 1 .. n /\ \A i \in 1 .. n : list[i] \in Entries
  BY <1>1
<1>3. ASSUME NEW i \in 1 .. n PROVE EntryLength(list[i]) \in Nat
  <2>1. EntryCalls(list[i]) \in Seq(Calls)
    BY <1>2, EntryCallsTyped
  <2> HIDE DEF n
  <2>2. /\ Len(EntryCalls(list[i])) \in Nat
        /\ Len(Lengths(EntryCalls(list[i]))) = Len(EntryCalls(list[i]))
        /\ IsSums(Sums(Lengths(EntryCalls(list[i])), Len(EntryCalls(list[i]))),
                  Lengths(EntryCalls(list[i])), Len(EntryCalls(list[i])))
    BY <2>1, CallSums, Zenon
  <2>3. Len(EntryCalls(list[i])) \in 0 .. Len(EntryCalls(list[i]))
    BY <2>2
  <2>4. QED
    BY <2>2, <2>3 DEF IsSums, EntryLength, Total
<1>4. \A i \in 1 .. n : L[i] = EntryLength(list[i]) /\ L[i] \in Nat
  BY <1>2, <1>3
<1>5. EntryEnds(list) = Sums(L, n)
  BY DEF EntryEnds
<1> DEFINE F == EntryEnds(list)
<1> HIDE DEF L, n
<1>6. /\ F[0] = 0
      /\ \A i \in 0 .. n : F[i] \in Nat /\ F[i] <= F[n]
      /\ \A i \in 1 .. n : F[i] = F[i - 1] + L[i]
  BY <1>2, <1>4, <1>5, PartsEnd
<1> HIDE DEF F
<1>7. \A i \in 1 .. n : EntryLength(list[i]) \in Nat /\ F[i] = F[i - 1] + EntryLength(list[i])
  BY <1>3, <1>4, <1>6
<1>8. QED
  BY <1>2, <1>6, <1>7, Zenon DEF n, F

\* Where the tensors of a file end.
LEMMA TensorsEnd ==
  ASSUME GgufAssumption, NEW table \in TensorLists
  PROVE  /\ Len(table) \in Nat /\ DOMAIN table = 1 .. Len(table)
         /\ \A i \in 1 .. Len(table) : table[i] \in [name : Nat, n_dims : Nat]
         /\ TensorEnds(table)[0] = 0
         /\ \A i \in 0 .. Len(table) : /\ TensorEnds(table)[i] \in Nat
                                      /\ TensorEnds(table)[i] <= TensorEnds(table)[Len(table)]
         /\ \A i \in 1 .. Len(table) : /\ TensorLength(table[i]) \in Nat
                                      /\ TensorEnds(table)[i] = TensorEnds(table)[i - 1]
                                                                + TensorLength(table[i])
<1>1. table \in Seq([name : Nat, n_dims : Nat])
  BY DEF GgufAssumption
<1> DEFINE n == Len(table)
           L == [i \in DOMAIN table |-> TensorLength(table[i])]
<1>2. n \in Nat /\ DOMAIN table = 1 .. n
      /\ \A i \in 1 .. n : table[i] \in [name : Nat, n_dims : Nat]
  <2> DEFINE T == [name : Nat, n_dims : Nat]
  <2>1. table \in Seq(T)
    BY <1>1
  <2> HIDE DEF T
  <2>2. n \in Nat /\ DOMAIN table = 1 .. n /\ \A i \in 1 .. n : table[i] \in T
    BY <2>1
  <2>3. QED
    BY <2>2 DEF T
<1>3. \A i \in 1 .. n : TensorLength(table[i]) \in Nat
  BY <1>2 DEF TensorLength
<1>4. \A i \in 1 .. n : L[i] = TensorLength(table[i]) /\ L[i] \in Nat
  BY <1>2, <1>3
<1>5. TensorEnds(table) = Sums(L, n)
  BY DEF TensorEnds
<1> DEFINE F == TensorEnds(table)
<1> HIDE DEF L, n
<1>6. /\ F[0] = 0
      /\ \A i \in 0 .. n : F[i] \in Nat /\ F[i] <= F[n]
      /\ \A i \in 1 .. n : F[i] = F[i - 1] + L[i]
  BY <1>2, <1>4, <1>5, PartsEnd
<1> HIDE DEF F
<1>7. \A i \in 1 .. n : TensorLength(table[i]) \in Nat /\ F[i] = F[i - 1] + TensorLength(table[i])
  BY <1>3, <1>4, <1>6
<1>8. QED
  BY <1>2, <1>6, <1>7, Zenon DEF n, F

\* A multiple of a number leaves nothing.
LEMMA Multiple ==
  ASSUME NEW a \in Nat \ {0}, NEW q \in Nat
  PROVE  (a * q) % a = 0
<1> DEFINE p == a * q
           u == p \div a
           r == p % a
           d == q - u
           w == a * d
<1>1. p \in Nat
  OBVIOUS
<1> HIDE DEF p
<1>2. u \in Nat /\ r \in Nat /\ r < a /\ a * u + r = p
  BY <1>1, Division
<1> HIDE DEF u, r
<1>3. d \in Int /\ w \in Int
  BY <1>2
<1>4. w = r
  BY <1>2, <1>3 DEF p
<1>5. d <= -1 => w <= -a
  BY <1>3
<1>6. d >= 1 => w >= a
  BY <1>3
<1>7. d = 0 => w = 0
  BY <1>3
<1> HIDE DEF d, w
<1>8. r = 0
  BY <1>2, <1>3, <1>4, <1>5, <1>6, <1>7
<1>9. QED
  BY <1>8 DEF r, p

\* Alignment of the data.
LEMMA DataAlignment ==
  ASSUME GgufAssumption, NEW n \in Nat
  PROVE  /\ DataAligned(n) \in Nat /\ DataAligned(n) % DataAlign = 0
         /\ DataAligned(n) - n \in 0 .. DataAlign - 1
<1> DEFINE a == DataAlign
           m == n + a - 1
           q == m \div a
           p == a * q
           r == m % a
<1>1. a \in Nat \ {0}
  BY DEF GgufAssumption
<1>2. m \in Nat /\ m = n + a - 1
  BY <1>1
<1> HIDE DEF a, m
<1>3. q \in Nat /\ r \in Nat /\ r < a /\ p + r = m
  BY <1>1, <1>2, Division
<1>4. p \in Nat
  BY <1>1, <1>3
<1>5. p % a = 0
  BY <1>1, <1>3, Multiple
<1>6. DataAligned(n) = p
  BY DEF DataAligned, a, m
<1> HIDE DEF q, p, r
<1>7. p - n \in 0 .. a - 1
  BY <1>1, <1>2, <1>3, <1>4
<1>8. QED
  BY <1>4, <1>5, <1>6, <1>7 DEF a

\* The calls for the header.
LEMMA HeaderCalls ==
  LET calls == <<Read(1), Read(1), Read(2), Read(2)>>
  IN calls \in Seq(Calls) /\ Fail \notin ToSet(calls) /\ Total(Lengths(calls)) = HeaderLength
<1> DEFINE calls == <<Read(1), Read(1), Read(2), Read(2)>>
           L == Lengths(calls)
           F == Sums(L, 4)
<1>1. Read(1) \in Calls /\ Read(2) \in Calls
  BY CallsTyped
<1>2. calls \in Seq(Calls) /\ Len(calls) = 4 /\ DOMAIN calls = 1 .. 4
  BY <1>1
<1>3. calls[1] = Read(1) /\ calls[2] = Read(1) /\ calls[3] = Read(2) /\ calls[4] = Read(2)
  OBVIOUS
<1> HIDE DEF calls
<1>4. IsSums(F, L, 4) /\ Len(L) = 4 /\ \A i \in 1 .. 4 : L[i] = calls[i][2]
  BY <1>2, CallSums, Zenon
<1>5. \A k : Read(k)[2] = k /\ Read(k) # Fail
  BY DEF Read, Fail
<1> HIDE DEF L, F
<1>6. L[1] = 1 /\ L[2] = 1 /\ L[3] = 2 /\ L[4] = 2
  BY <1>3, <1>4, <1>5
<1>7. F[0] = 0 /\ \A i \in 1 .. 4 : F[i] = F[i - 1] + L[i]
  BY <1>4 DEF IsSums
<1>8. F[1] = F[0] + L[1] /\ F[2] = F[1] + L[2] /\ F[3] = F[2] + L[3] /\ F[4] = F[3] + L[4]
  BY <1>7
<1>9. F[4] = 6
  BY <1>6, <1>7, <1>8
<1>10. Total(Lengths(calls)) = F[4]
  BY <1>4 DEF Total, L, F
<1>11. Fail \notin ToSet(calls)
  BY <1>2, <1>3, <1>5 DEF ToSet
<1>12. QED
  BY <1>2, <1>9, <1>10, <1>11 DEF HeaderLength, calls

\* The end of the file that the entries and tensors ask for.
LEMMA WholeFile ==
  ASSUME GgufAssumption, GgufTypeOK
  PROVE  LET E(i) == EntryEnds(entries)[i]
             T(i) == TensorEnds(tensors)[i]
         IN /\ Len(entries) \in Nat /\ Len(tensors) \in Nat
            /\ \A i \in 0 .. Len(entries) : E(i) \in Nat /\ E(i) <= E(Len(entries))
            /\ \A i \in 0 .. Len(tensors) : T(i) \in Nat /\ T(i) <= T(Len(tensors))
            /\ E(0) = 0 /\ T(0) = 0
            /\ WholeLength(entries, tensors) = HeaderLength + E(Len(entries)) + T(Len(tensors))
            /\ size \in Nat
<1>1. entries \in EntryLists /\ tensors \in TensorLists
  BY DEF GgufTypeOK
<1>2. /\ Len(entries) \in Nat /\ EntryEnds(entries)[0] = 0
      /\ \A i \in 0 .. Len(entries) : /\ EntryEnds(entries)[i] \in Nat
                                     /\ EntryEnds(entries)[i] <= EntryEnds(entries)[Len(entries)]
  BY <1>1, EntriesEnd, Zenon
<1>3. /\ Len(tensors) \in Nat /\ TensorEnds(tensors)[0] = 0
      /\ \A i \in 0 .. Len(tensors) : /\ TensorEnds(tensors)[i] \in Nat
                                     /\ TensorEnds(tensors)[i] <= TensorEnds(tensors)[Len(tensors)]
  BY <1>1, TensorsEnd, Zenon
<1>4. WholeLength(entries, tensors)
        = HeaderLength + EntryEnds(entries)[Len(entries)] + TensorEnds(tensors)[Len(tensors)]
  BY DEF WholeLength
<1>5. size \in Nat
  BY <1>2, <1>3, <1>4 DEF GgufTypeOK, HeaderLength
<1>6. QED
  BY <1>2, <1>3, <1>4, <1>5, Zenon

\* A refusal for a cause.
LEMMA RefuseKeeps ==
  ASSUME GgufInv, RefuseFile, Unsupported \/ size < WholeLength(entries, tensors)
  PROVE  GgufInv'
<1>1. /\ gguf_pc' = "refused" /\ entries' = entries /\ tensors' = tensors /\ size' = size
      /\ pos' = pos /\ kv_index' = kv_index /\ n_tensors' = n_tensors
      /\ data_offset' = data_offset
  BY DEF RefuseFile, file
<1>2. GgufTypeOK'
  BY <1>1 DEF GgufInv, GgufTypeOK
<1>3. StreamInStep'
  BY <1>1 DEF GgufInv, StreamInStep
<1>4. SupportedSoFar'
  BY <1>1 DEF GgufInv, SupportedSoFar
<1>5. RefusedForCause'
  BY <1>1 DEF RefusedForCause, Unsupported
<1>6. QED
  BY <1>2, <1>3, <1>4, <1>5 DEF GgufInv

\* The invariant holds of a file that has not been read.
LEMMA GgufInitial ==
  ASSUME GgufAssumption, GgufInit
  PROVE  GgufInv
<1>1. GgufTypeOK
  <2>1. Len(entries) \in Nat /\ Len(tensors) \in Nat
    BY EntriesEnd, TensorsEnd DEF GgufInit
  <2>2. QED
    BY <2>1 DEF GgufInit, GgufTypeOK
<1>2. StreamInStep /\ SupportedSoFar /\ RefusedForCause
  BY DEF GgufInit, StreamInStep, SupportedSoFar, RefusedForCause
<1>3. QED
  BY <1>1, <1>2 DEF GgufInv

\* A header, unless the file is shorter than one.
LEMMA HeaderKeeps ==
  ASSUME GgufAssumption, GgufInv, ReadHeader
  PROVE  GgufInv'
<1> DEFINE calls == <<Read(1), Read(1), Read(2), Read(2)>>
<1>1. calls \in Seq(Calls) /\ Fail \notin ToSet(calls) /\ Total(Lengths(calls)) = 6
  BY HeaderCalls DEF HeaderLength
<1>2. gguf_pc = "header" /\ pos = 0 /\ kv_index = 0 /\ n_tensors = 0
  BY DEF ReadHeader, GgufInv, StreamInStep
<1>3. GgufTypeOK /\ pos \in Nat
  BY DEF GgufInv, GgufTypeOK
<1>4. /\ Len(entries) \in Nat /\ Len(tensors) \in Nat /\ size \in Nat
      /\ EntryEnds(entries)[0] = 0 /\ TensorEnds(tensors)[0] = 0
      /\ WholeLength(entries, tensors) \in Nat /\ WholeLength(entries, tensors) >= 6
  <2>1. 0 \in 0 .. Len(entries) /\ Len(entries) \in 0 .. Len(entries)
        /\ 0 \in 0 .. Len(tensors) /\ Len(tensors) \in 0 .. Len(tensors)
    BY <1>3, WholeFile
  <2>2. EntryEnds(entries)[Len(entries)] \in Nat /\ TensorEnds(tensors)[Len(tensors)] \in Nat
    BY <1>3, <2>1, WholeFile
  <2>3. WholeLength(entries, tensors)
          = 6 + EntryEnds(entries)[Len(entries)] + TensorEnds(tensors)[Len(tensors)]
    BY <1>3, WholeFile DEF HeaderLength
  <2>4. WholeLength(entries, tensors) \in Nat /\ WholeLength(entries, tensors) >= 6
    BY <2>2, <2>3
  <2>5. QED
    BY <1>3, <2>4, WholeFile
<1> HIDE DEF calls
<1>5. CASE Run(calls).done
  <2>1. /\ pos' = 6 /\ gguf_pc' = "metadata" /\ entries' = entries /\ tensors' = tensors
        /\ size' = size /\ kv_index' = kv_index /\ n_tensors' = n_tensors
        /\ data_offset' = data_offset
    <3>1. Run(calls).pos = 6
      BY <1>1, <1>2, <1>3, <1>4, RunOfCalls
    <3>2. QED
      BY <1>5, <3>1 DEF ReadHeader, calls, file
  <2>2. GgufTypeOK'
    BY <1>3, <2>1 DEF GgufTypeOK
  <2>3. StreamInStep'
    BY <1>2, <1>4, <2>1 DEF StreamInStep, HeaderLength
  <2>4. SupportedSoFar' /\ RefusedForCause'
    BY <1>2, <2>1 DEF SupportedSoFar, RefusedForCause
  <2>5. QED
    BY <2>2, <2>3, <2>4 DEF GgufInv
<1>6. CASE ~ Run(calls).done
  <2>1. RefuseFile
    BY <1>6 DEF ReadHeader, calls
  <2>2. pos + Total(Lengths(calls)) > size
    BY <1>1, <1>3, <1>4, <1>6, RunOfCalls
  <2>3. size < WholeLength(entries, tensors)
    BY <1>1, <1>2, <1>4, <2>2
  <2>4. QED
    BY <2>1, <2>3, RefuseKeeps
<1>7. QED
  BY <1>5, <1>6

\* An entry, unless it cannot be read or the file ends in it.
LEMMA EntryKeeps ==
  ASSUME GgufAssumption, GgufInv, ReadEntry
  PROVE  GgufInv'
<1> DEFINE n == kv_index + 1
           calls == EntryCalls(entries[n])
           E == EntryEnds(entries)
           T == TensorEnds(tensors)
           a == Len(entries)
           b == Len(tensors)
           whole == WholeLength(entries, tensors)
<1>1. gguf_pc = "metadata" /\ kv_index < Len(entries) /\ n_tensors = 0
  BY DEF ReadEntry, GgufInv, StreamInStep
<1>2. /\ GgufTypeOK /\ pos \in Nat /\ kv_index \in 0 .. a /\ entries \in EntryLists
      /\ pos = HeaderLength + E[kv_index] + T[n_tensors]
  BY <1>1 DEF GgufInv, GgufTypeOK, StreamInStep
<1>3. /\ a \in Nat /\ b \in Nat /\ size \in Nat
      /\ \A i \in 0 .. a : E[i] \in Nat /\ E[i] <= E[a]
      /\ \A i \in 0 .. b : T[i] \in Nat /\ T[i] <= T[b]
      /\ T[0] = 0 /\ whole = 6 + E[a] + T[b]
  <2> HIDE DEF E, T, a, b, whole
  <2>1. QED
    BY <1>2, WholeFile DEF HeaderLength, E, T, a, b, whole
<1>4. n \in 1 .. a /\ n \in 0 .. a /\ n - 1 = kv_index /\ b \in 0 .. b
  <2> HIDE DEF a, b
  <2>1. QED
    BY <1>1, <1>2, <1>3 DEF a
<1>5. entries[n] \in Entries /\ E[n] = E[kv_index] + EntryLength(entries[n])
  <2>1. /\ \A i \in 1 .. a : entries[i] \in Entries
        /\ \A i \in 1 .. a : E[i] = E[i - 1] + EntryLength(entries[i])
    BY <1>2, EntriesEnd
  <2> HIDE DEF E, a, n
  <2>2. QED
    BY <1>4, <2>1
<1>6. calls \in Seq(Calls) /\ EntryLength(entries[n]) = Total(Lengths(calls))
  BY <1>5, EntryCallsTyped DEF EntryLength
<1>7. DOMAIN entries = 1 .. a
  BY <1>2, EntriesEnd
<1> HIDE DEF calls, E, T, a, b, whole
<1>8. /\ Total(Lengths(calls)) \in Nat
      /\ Run(calls).pos = pos + Total(Lengths(calls))
      /\ Run(calls).done => Fail \notin ToSet(calls)
      /\ ~ Run(calls).done => Fail \in ToSet(calls) \/ pos + Total(Lengths(calls)) > size
  BY <1>2, <1>3, <1>6, RunOfCalls
<1>9. pos + Total(Lengths(calls)) = 6 + E[n] + T[0] /\ E[n] \in Nat /\ E[n] <= E[a] /\ T[b] \in Nat
  <2>1. E[kv_index] \in Nat /\ E[n] \in Nat /\ E[n] <= E[a] /\ E[a] \in Nat /\ T[b] \in Nat
    BY <1>2, <1>3, <1>4
  <2>2. T[n_tensors] = 0 /\ HeaderLength = 6
    BY <1>1, <1>3 DEF HeaderLength
  <2> DEFINE l == Total(Lengths(calls))
  <2>3. l \in Nat /\ pos = 6 + E[kv_index] + 0 /\ E[n] = E[kv_index] + l
    BY <1>2, <1>5, <1>6, <1>8, <2>2
  <2> HIDE DEF n, l
  <2>4. pos + l = 6 + E[n] + 0
    BY <2>1, <2>3
  <2>5. QED
    BY <1>3, <2>1, <2>4 DEF l
<1>10. CASE Run(calls).done
  <2>1. /\ pos' = 6 + E[n] + T[0] /\ kv_index' = n /\ gguf_pc' = gguf_pc
        /\ entries' = entries /\ tensors' = tensors /\ size' = size
        /\ n_tensors' = n_tensors /\ data_offset' = data_offset
    <3>1. pos' = Run(calls).pos
      BY <1>10 DEF ReadEntry, calls, n
    <3>2. QED
      BY <1>8, <1>9, <1>10, <3>1 DEF ReadEntry, calls, n, file
  <2>2. GgufTypeOK'
    BY <1>1, <1>2, <1>3, <1>4, <1>9, <2>1 DEF GgufTypeOK, a
  <2>3. StreamInStep'
    BY <1>1, <2>1 DEF StreamInStep, HeaderLength, E, T
  <2>4. SupportedSoFar'
    <3>1. \A i \in 1 .. n : i = n \/ i \in 1 .. kv_index
      BY <1>2, <1>3
    <3>2. Fail \notin ToSet(EntryCalls(entries[n]))
      BY <1>8, <1>10 DEF calls
    <3> HIDE DEF n
    <3>3. \A i \in 1 .. n : Fail \notin ToSet(EntryCalls(entries[i]))
      BY <3>1, <3>2 DEF GgufInv, SupportedSoFar
    <3>4. QED
      BY <2>1, <3>3 DEF GgufInv, SupportedSoFar
  <2>5. RefusedForCause'
    BY <1>1, <2>1 DEF RefusedForCause
  <2>6. QED
    BY <2>2, <2>3, <2>4, <2>5 DEF GgufInv
<1>11. CASE ~ Run(calls).done
  <2>1. RefuseFile
    BY <1>11 DEF ReadEntry, calls, n
  <2>2. CASE Fail \in ToSet(calls)
    <3>1. Unsupported
      BY <1>4, <1>7, <2>2 DEF Unsupported, calls
    <3>2. QED
      BY <2>1, <3>1, RefuseKeeps
  <2>3. CASE pos + Total(Lengths(calls)) > size
    <3>1. E[a] \in Nat
      BY <1>3
    <3>2. size < whole
      <4> HIDE DEF n
      <4>1. QED
        BY <1>3, <1>9, <2>3, <3>1
    <3>3. QED
      BY <2>1, <3>2, RefuseKeeps DEF whole
  <2>4. QED
    BY <1>8, <1>11, <2>2, <2>3, Zenon
<1>12. QED
  BY <1>10, <1>11

\* The end of the entries, and the end of the tensors.
LEMMA EndsKeep ==
  ASSUME GgufAssumption, GgufInv, EndEntries \/ EndTensors
  PROVE  GgufInv'
<1>1. GgufTypeOK /\ StreamInStep /\ SupportedSoFar /\ pos \in Nat
  BY DEF GgufInv, GgufTypeOK
<1>2. DataAligned(pos) \in Nat
  BY <1>1, DataAlignment
<1>3. /\ entries' = entries /\ tensors' = tensors /\ size' = size /\ pos' = pos
      /\ kv_index' = kv_index /\ n_tensors' = n_tensors
  BY DEF EndEntries, EndTensors, file
<1>4. gguf_pc' \in {"tensors", "ok"}
  BY DEF EndEntries, EndTensors
<1>5. CASE EndEntries
  <2>1. GgufTypeOK' /\ SupportedSoFar' /\ RefusedForCause'
    BY <1>1, <1>3, <1>5 DEF EndEntries, GgufTypeOK, SupportedSoFar, RefusedForCause
  <2>2. StreamInStep'
    BY <1>1, <1>3, <1>5 DEF EndEntries, StreamInStep
  <2>3. QED
    BY <2>1, <2>2 DEF GgufInv
<1>6. CASE EndTensors
  <2>1. GgufTypeOK' /\ SupportedSoFar' /\ RefusedForCause'
    BY <1>1, <1>2, <1>3, <1>6 DEF EndTensors, GgufTypeOK, SupportedSoFar, RefusedForCause
  <2>2. StreamInStep'
    BY <1>1, <1>3, <1>6 DEF EndTensors, StreamInStep
  <2>3. QED
    BY <2>1, <2>2 DEF GgufInv
<1>7. QED
  BY <1>5, <1>6

\* A tensor, unless it has too many dimensions or the file ends in it.
LEMMA TensorKeeps ==
  ASSUME GgufAssumption, GgufInv, ReadTensor
  PROVE  GgufInv'
<1> DEFINE n == n_tensors + 1
           tensor == tensors[n]
           calls == TensorCalls(tensor)
           E == EntryEnds(entries)
           T == TensorEnds(tensors)
           a == Len(entries)
           b == Len(tensors)
           l == Total(Lengths(calls))
           whole == WholeLength(entries, tensors)
<1>1. gguf_pc = "tensors" /\ n_tensors < b /\ kv_index = a
  BY DEF ReadTensor, GgufInv, StreamInStep
<1>2. /\ GgufTypeOK /\ pos \in Nat /\ n_tensors \in 0 .. b /\ tensors \in TensorLists
      /\ pos = 6 + E[kv_index] + T[n_tensors]
  BY <1>1 DEF GgufInv, GgufTypeOK, StreamInStep, HeaderLength
<1>3. /\ a \in Nat /\ b \in Nat /\ size \in Nat
      /\ \A i \in 0 .. a : E[i] \in Nat /\ E[i] <= E[a]
      /\ \A i \in 0 .. b : T[i] \in Nat /\ T[i] <= T[b]
      /\ T[0] = 0 /\ whole = 6 + E[a] + T[b]
  <2> HIDE DEF E, T, a, b, whole
  <2>1. QED
    BY <1>2, WholeFile DEF HeaderLength, E, T, a, b, whole
<1>4. n \in 1 .. b /\ n \in 0 .. b /\ n - 1 = n_tensors /\ a \in 0 .. a
  <2> HIDE DEF a, b
  <2>1. QED
    BY <1>1, <1>2, <1>3
<1>5. /\ tensor \in [name : Nat, n_dims : Nat] /\ TensorLength(tensor) \in Nat
      /\ T[n] = T[n_tensors] + TensorLength(tensor) /\ DOMAIN tensors = 1 .. b
  <2>1. /\ \A i \in 1 .. b : tensors[i] \in [name : Nat, n_dims : Nat]
        /\ \A i \in 1 .. b : TensorLength(tensors[i]) \in Nat
                            /\ T[i] = T[i - 1] + TensorLength(tensors[i])
        /\ DOMAIN tensors = 1 .. b
    BY <1>2, TensorsEnd
  <2> HIDE DEF T, b, n
  <2>2. QED
    BY <1>4, <2>1
<1>6. /\ calls \in Seq(Calls) /\ calls # <<>> /\ calls[Len(calls)][1] = "read"
      /\ Fail \in ToSet(calls) <=> tensor.n_dims > 4
      /\ tensor.n_dims <= 4 => l = TensorLength(tensor)
  <2> HIDE DEF tensor
  <2>1. QED
    BY <1>5, CallsOfTensor
<1>7. tensor.n_dims \in Nat
  <2> HIDE DEF tensor
  <2>1. QED
    BY <1>5
<1> HIDE DEF calls, E, T, a, b, l, whole, tensor
<1>8. /\ l \in Nat /\ Run(calls).pos = pos + l
      /\ Run(calls).done => Fail \notin ToSet(calls) /\ Run(calls).pos <= size
      /\ ~ Run(calls).done => Fail \in ToSet(calls) \/ pos + l > size
  BY <1>2, <1>3, <1>6, RunOfCalls DEF l
<1>9. tensor.n_dims <= 4 =>
        pos + l = 6 + E[a] + T[n] /\ T[n] \in Nat /\ T[n] <= T[b] /\ E[a] \in Nat /\ T[b] \in Nat
  <2>1. /\ T[n_tensors] \in Nat /\ T[n] \in Nat /\ T[n] <= T[b] /\ E[a] \in Nat /\ T[b] \in Nat
        /\ E[kv_index] = E[a]
    BY <1>1, <1>2, <1>3, <1>4
  <2> HIDE DEF n
  <2>2. QED
    BY <1>2, <1>5, <1>6, <1>8, <2>1
<1>10. CASE Run(calls).done
  <2>1. tensor.n_dims <= 4
    BY <1>6, <1>7, <1>8, <1>10
  <2>2. /\ pos' = Run(calls).pos /\ n_tensors' = n /\ gguf_pc' = gguf_pc
        /\ entries' = entries /\ tensors' = tensors /\ size' = size
        /\ kv_index' = kv_index /\ data_offset' = data_offset
    BY <1>10 DEF ReadTensor, calls, tensor, n, file
  <2>3. pos' = 6 + E[a] + T[n] /\ pos' \in Nat /\ pos' <= size
    <3> HIDE DEF n
    <3>1. QED
      BY <1>2, <1>8, <1>9, <1>10, <2>1, <2>2
  <2>4. GgufTypeOK'
    BY <1>1, <1>2, <1>4, <2>2, <2>3 DEF GgufTypeOK, b
  <2>5. StreamInStep'
    BY <1>1, <2>2, <2>3 DEF StreamInStep, HeaderLength, E, T, a
  <2>6. SupportedSoFar'
    <3>1. \A i \in 1 .. n : i = n \/ i \in 1 .. n_tensors
      BY <1>2, <1>3
    <3>2. tensors[n].n_dims <= 4
      BY <2>1 DEF tensor
    <3> HIDE DEF n
    <3>3. \A i \in 1 .. n : tensors[i].n_dims <= 4
      BY <3>1, <3>2 DEF GgufInv, SupportedSoFar
    <3>4. QED
      BY <2>2, <3>3 DEF GgufInv, SupportedSoFar
  <2>7. RefusedForCause'
    BY <1>1, <2>2 DEF RefusedForCause
  <2>8. QED
    BY <2>4, <2>5, <2>6, <2>7 DEF GgufInv
<1>11. CASE ~ Run(calls).done
  <2>1. RefuseFile
    BY <1>11 DEF ReadTensor, calls, tensor, n
  <2>2. CASE tensor.n_dims > 4
    <3>1. Unsupported
      BY <1>4, <1>5, <2>2 DEF Unsupported, tensor
    <3>2. QED
      BY <2>1, <3>1, RefuseKeeps
  <2>3. CASE tensor.n_dims <= 4
    <3>1. pos + l > size
      BY <1>6, <1>7, <1>8, <1>11, <2>3
    <3>2. size < whole
      <4> HIDE DEF n
      <4>1. QED
        BY <1>2, <1>3, <1>8, <1>9, <2>3, <3>1
    <3>3. QED
      BY <2>1, <3>2, RefuseKeeps DEF whole
  <2>4. QED
    BY <1>7, <2>2, <2>3
<1>12. QED
  BY <1>10, <1>11

\* Each step keeps the loader's invariant.
LEMMA GgufStep ==
  ASSUME GgufAssumption, GgufInv, [GgufNext]_gguf_vars
  PROVE  GgufInv'
<1>1. CASE ReadHeader
  BY <1>1, HeaderKeeps
<1>2. CASE ReadEntry
  BY <1>2, EntryKeeps
<1>3. CASE EndEntries \/ EndTensors
  BY <1>3, EndsKeep
<1>4. CASE ReadTensor
  BY <1>4, TensorKeeps
<1>5. CASE UNCHANGED gguf_vars
  <2>1. /\ entries' = entries /\ tensors' = tensors /\ size' = size /\ pos' = pos
        /\ kv_index' = kv_index /\ n_tensors' = n_tensors
        /\ data_offset' = data_offset /\ gguf_pc' = gguf_pc
    BY <1>5 DEF gguf_vars
  <2>2. GgufTypeOK' /\ StreamInStep' /\ SupportedSoFar'
    BY <2>1 DEF GgufInv, GgufTypeOK, StreamInStep, SupportedSoFar
  <2>3. RefusedForCause'
    BY <2>1 DEF GgufInv, RefusedForCause, Unsupported
  <2>4. QED
    BY <2>2, <2>3 DEF GgufInv
<1>6. QED
  BY <1>1, <1>2, <1>3, <1>4, <1>5, Zenon DEF GgufNext

\* A file that is cut off is noticed.
LEMMA TruncationByInv ==
  ASSUME GgufAssumption, GgufInv
  PROVE  TruncationNoticed
<1> DEFINE a == Len(entries)
           b == Len(tensors)
           whole == WholeLength(entries, tensors)
<1>1. gguf_pc = "refused" => Unsupported \/ size < whole
  BY DEF GgufInv, RefusedForCause
<1>2. ASSUME gguf_pc = "ok", tensors # <<>>
      PROVE  /\ size = whole /\ ~ Unsupported
             /\ data_offset % DataAlign = 0 /\ data_offset - size \in 0 .. DataAlign - 1
  <2>1. /\ GgufTypeOK /\ kv_index = a /\ n_tensors = b /\ data_offset = DataAligned(pos)
        /\ pos \in Nat /\ (n_tensors > 0 => pos <= size)
        /\ pos = HeaderLength + EntryEnds(entries)[a] + TensorEnds(tensors)[b]
        /\ size \in 0 .. whole
    BY <1>2 DEF GgufInv, GgufTypeOK, StreamInStep
  <2>2. b \in Nat /\ b # 0 /\ size \in Nat /\ whole = pos
        /\ DOMAIN entries = 1 .. a /\ DOMAIN tensors = 1 .. b
        /\ \A i \in 1 .. b : tensors[i] \in [name : Nat, n_dims : Nat]
    <3>1. entries \in EntryLists /\ tensors \in TensorLists
      BY <2>1 DEF GgufTypeOK
    <3>2. DOMAIN entries = 1 .. a /\ DOMAIN tensors = 1 .. b /\ b \in Nat
          /\ \A i \in 1 .. b : tensors[i] \in [name : Nat, n_dims : Nat]
      BY <3>1, EntriesEnd, TensorsEnd
    <3>3. b # 0
      <4>1. tensors \in Seq([name : Nat, n_dims : Nat])
        BY <3>1 DEF GgufAssumption
      <4>2. QED
        BY <1>2, <4>1
    <3>4. size \in Nat /\ whole = pos
      BY <2>1, WholeFile
    <3>5. QED
      BY <3>2, <3>3, <3>4
  <2>3. size = whole
    BY <2>1, <2>2
  <2>4. ~ Unsupported
    <3>1. \A i \in DOMAIN entries : Fail \notin ToSet(EntryCalls(entries[i]))
      BY <2>1, <2>2 DEF GgufInv, SupportedSoFar
    <3>2. \A i \in DOMAIN tensors : tensors[i].n_dims <= 4 /\ tensors[i].n_dims \in Nat
      BY <2>1, <2>2 DEF GgufInv, SupportedSoFar
    <3>3. QED
      BY <3>1, <3>2 DEF Unsupported
  <2>5. data_offset % DataAlign = 0 /\ data_offset - size \in 0 .. DataAlign - 1
    BY <2>1, <2>2, <2>3, DataAlignment
  <2>6. QED
    BY <2>3, <2>4, <2>5
<1>3. QED
  BY <1>1, <1>2 DEF TruncationNoticed

\* The stream of a loader stands where the parts it has read end.
THEOREM GgufInvariant == ASSUME GgufAssumption PROVE GgufSpec => []GgufInv
<1>1. GgufInit => GgufInv
  BY GgufInitial
<1>2. GgufInv /\ [GgufNext]_gguf_vars => GgufInv'
  BY GgufStep
<1>3. QED
  BY <1>1, <1>2, PTL DEF GgufSpec

\* The names of the fields, in order.
LEMMA U32Names ==
  /\ DOMAIN U32Fields = 1 .. 8
  /\ U32Fields[1] = "block_count" /\ U32Fields[2] = "context_length"
  /\ U32Fields[3] = "embedding_length" /\ U32Fields[4] = "feed_forward_length"
  /\ U32Fields[5] = "attention.head_count_kv" /\ U32Fields[6] = "attention.head_count"
  /\ U32Fields[7] = "rope.dimension_count" /\ U32Fields[8] = "eos_token_id"
BY DEF U32Fields

\* The names of the two fields of F32 entries.
LEMMA F32Names ==
  /\ DOMAIN F32Fields = 1 .. 2
  /\ F32Fields[1] = "layer_norm_rms_epsilon" /\ F32Fields[2] = "rope.freq_base"
BY DEF F32Fields

\* The name of a list of strings is not one of a field.
LEMMA NoListField == ListKeys \intersect FileFields = {}
<1>1. \A i \in 1 .. 8 : U32Fields[i] \notin ListKeys
  <2>1. \A i \in 1 .. 8 :
          i = 1 \/ i = 2 \/ i = 3 \/ i = 4 \/ i = 5 \/ i = 6 \/ i = 7 \/ i = 8
    OBVIOUS
  <2>2. QED
    BY <2>1, U32Names DEF ListKeys
<1>2. \A i \in 1 .. 2 : F32Fields[i] \notin ListKeys
  <2>1. \A i \in 1 .. 2 : i = 1 \/ i = 2
    OBVIOUS
  <2>2. QED
    BY <2>1, F32Names DEF ListKeys
<1>3. QED
  BY <1>1, <1>2, U32Names, F32Names DEF FileFields, ToSet

\* The field an entry is for has the name of its key: where a shorter name occurs
\* in the key as well, the longer one is asked for first.
LEMMA FieldOfKey ==
  ASSUME GgufAssumption, KeysApart(Entries), NEW entry \in Entries
  PROVE  /\ FieldOf(entry.key, U32Fields) = {entry.key} \intersect ToSet(U32Fields)
         /\ FieldOf(entry.key, F32Fields) = {entry.key} \intersect ToSet(F32Fields)
<1> DEFINE key == entry.key
<1>1. key \in Occurs[key]
  BY DEF GgufAssumption
<1>2. \A field \in Occurs[key] \intersect FileFields :
        field = key \/ (field = "attention.head_count" /\ key = "attention.head_count_kv")
  BY DEF KeysApart
<1> HIDE DEF key
<1>3. ASSUME NEW field \in FieldOf(key, U32Fields)
      PROVE  field = key /\ field \in ToSet(U32Fields)
  <2>1. PICK i \in DOMAIN U32Fields :
           /\ field = U32Fields[i] /\ U32Fields[i] \in Occurs[key]
           /\ \A j \in 1 .. i - 1 : U32Fields[j] \notin Occurs[key]
    BY <1>3, Zenon DEF FieldOf
  <2>2. field \in ToSet(U32Fields) /\ field \in Occurs[key] \intersect FileFields
    BY <2>1 DEF ToSet, FileFields
  <2>3. CASE field = "attention.head_count" /\ key = "attention.head_count_kv"
    <3>1. i \in 1 .. 8 /\ (i = 1 \/ i = 2 \/ i = 3 \/ i = 4 \/ i = 5 \/ i = 6 \/ i = 7 \/ i = 8)
      BY <2>1, U32Names
    <3>2. i = 6
      BY <2>1, <2>3, <3>1, U32Names
    <3>3. 5 \in 1 .. i - 1
      BY <3>2
    <3>4. QED
      BY <1>1, <2>1, <2>3, <3>3, U32Names
  <2>4. QED
    BY <1>2, <2>2, <2>3
<1>4. ASSUME key \in ToSet(U32Fields)
      PROVE  key \in FieldOf(key, U32Fields)
  <2>1. PICK i \in DOMAIN U32Fields : key = U32Fields[i]
    BY <1>4 DEF ToSet
  <2>2. i \in 1 .. 8 /\ \A j \in 1 .. i - 1 : j \in DOMAIN U32Fields
    BY <2>1, U32Names
  <2>3. ASSUME NEW j \in 1 .. i - 1, U32Fields[j] \in Occurs[key]
        PROVE  FALSE
    <3>1. U32Fields[j] \in Occurs[key] \intersect FileFields /\ j \in 1 .. 8 /\ j < i
      BY <2>2, <2>3 DEF FileFields, ToSet
    <3>2. U32Fields[j] = U32Fields[i]
          \/ (U32Fields[j] = "attention.head_count" /\ U32Fields[i] = "attention.head_count_kv")
      BY <1>2, <2>1, <3>1
    <3>3. \A k \in 1 .. 8 :
            k = 1 \/ k = 2 \/ k = 3 \/ k = 4 \/ k = 5 \/ k = 6 \/ k = 7 \/ k = 8
      OBVIOUS
    <3>4. \A k, m \in 1 .. 8 : k < m => U32Fields[k] # U32Fields[m]
      BY <3>3, U32Names
    <3>5. \A k, m \in 1 .. 8 :
            U32Fields[k] = "attention.head_count" /\ U32Fields[m] = "attention.head_count_kv"
            => k = 6 /\ m = 5
      BY <3>3, U32Names
    <3>6. QED
      BY <2>2, <3>1, <3>2, <3>4, <3>5
  <2>4. QED
    BY <1>1, <2>1, <2>3 DEF FieldOf
<1>5. ASSUME NEW field \in FieldOf(key, F32Fields)
      PROVE  field = key /\ field \in ToSet(F32Fields)
  <2>1. PICK i \in DOMAIN F32Fields : field = F32Fields[i] /\ F32Fields[i] \in Occurs[key]
    BY <1>5, Zenon DEF FieldOf
  <2>2. field \in ToSet(F32Fields) /\ field \in Occurs[key] \intersect FileFields
    BY <2>1 DEF ToSet, FileFields
  <2>3. field # "attention.head_count"
    <3>1. i = 1 \/ i = 2
      BY <2>1, F32Names
    <3>2. QED
      BY <2>1, <3>1, F32Names
  <2>4. QED
    BY <1>2, <2>2, <2>3
<1>6. ASSUME key \in ToSet(F32Fields)
      PROVE  key \in FieldOf(key, F32Fields)
  <2>1. PICK i \in DOMAIN F32Fields : key = F32Fields[i]
    BY <1>6 DEF ToSet
  <2>2. i = 1 \/ i = 2
    BY <2>1, F32Names
  <2>3. ASSUME NEW j \in 1 .. i - 1, F32Fields[j] \in Occurs[key]
        PROVE  FALSE
    <3>1. i = 2 /\ j = 1
      BY <2>2
    <3>2. F32Fields[j] \in Occurs[key] \intersect FileFields
      BY <2>3, <3>1, F32Names DEF FileFields, ToSet
    <3>3. F32Fields[1] = F32Fields[2] \/ F32Fields[2] = "attention.head_count_kv"
      BY <1>2, <2>1, <3>1, <3>2
    <3>4. QED
      BY <3>3, F32Names
  <2>4. QED
    BY <1>1, <2>1, <2>3 DEF FieldOf
<1>7. QED
  BY <1>3, <1>4, <1>5, <1>6 DEF key

\* What an entry assigns to a field is its value, and the field its key.
LEMMA LoadsOwnField ==
  ASSUME GgufAssumption, KeysApart(Entries), NEW entry \in Entries
  PROVE  /\ \A field \in FileFields \intersect DOMAIN Loaded(entry) :
              field = entry.key /\ Loaded(entry)[field] = entry.value
         /\ \/ entry.type = "u32" /\ entry.key \in ToSet(U32Fields)
            \/ entry.type = "f32" /\ entry.key \in ToSet(F32Fields)
            => entry.key \in DOMAIN Loaded(entry)
<1>1. Assigned(entry) \subseteq {entry.key}
  BY FieldOfKey DEF Assigned
<1>2. /\ entry.type = "u32" /\ entry.key \in ToSet(U32Fields) => entry.key \in Assigned(entry)
      /\ entry.type = "f32" /\ entry.key \in ToSet(F32Fields) => entry.key \in Assigned(entry)
  BY FieldOfKey DEF Assigned
<1>3. CASE entry.type = "strings" /\ entry.key \in ListKeys
  <2>1. DOMAIN Loaded(entry) = {entry.key}
    BY <1>3 DEF Loaded
  <2>2. QED
    BY <1>3, <2>1, NoListField
<1>4. CASE ~(entry.type = "strings" /\ entry.key \in ListKeys)
  <2>1. Loaded(entry) = [field \in Assigned(entry) |-> entry.value]
    BY <1>4 DEF Loaded
  <2>2. QED
    BY <1>1, <1>2, <2>1
<1>5. QED
  BY <1>3, <1>4

\* An entry that is read.
LEMMA EntryAssigns ==
  ASSUME GgufAssumption, KeysApart(Entries), GgufInv, FieldsSoFar, ReadEntry, gguf_pc' # "refused"
  PROVE  FieldsSoFar'
<1> DEFINE n == kv_index + 1
           entry == entries[n]
           loaded_fields == Loaded(entry)
<1>1. /\ kv_index' = n /\ info' = Override(info, loaded_fields) /\ entries' = entries
  BY DEF ReadEntry, RefuseFile, file
<1>2. kv_index \in Nat /\ n \in 1 .. Len(entries) /\ entries \in EntryLists
  <2>1. entries \in EntryLists /\ kv_index \in 0 .. Len(entries) /\ kv_index < Len(entries)
    BY DEF ReadEntry, GgufInv, GgufTypeOK
  <2>2. Len(entries) \in Nat
    BY <2>1, EntriesEnd
  <2>3. QED
    BY <2>1, <2>2
<1>3. entry \in Entries
  BY <1>2, EntriesEnd
<1> HIDE DEF loaded_fields, entry
<1>4. /\ \A field \in FileFields \intersect DOMAIN loaded_fields :
           field = entry.key /\ loaded_fields[field] = entry.value
      /\ \/ entry.type = "u32" /\ entry.key \in ToSet(U32Fields)
         \/ entry.type = "f32" /\ entry.key \in ToSet(F32Fields)
         => entry.key \in DOMAIN loaded_fields
  BY <1>3, LoadsOwnField, Zenon DEF loaded_fields
<1>5. /\ DOMAIN info' = DOMAIN info \union DOMAIN loaded_fields
      /\ \A field \in DOMAIN info' :
           info'[field] = IF field \in DOMAIN loaded_fields THEN loaded_fields[field]
                          ELSE info[field]
  BY <1>1 DEF Override
<1>6. n \in 1 .. n /\ \A i \in 1 .. n : i = n \/ i \in 1 .. kv_index
  BY <1>2
<1>7. \A i \in 1 .. kv_index : i \in 1 .. n
  BY <1>2
<1>8. entry = entries[n]
  BY DEF entry
<1> HIDE DEF n
<1>9. ASSUME NEW field \in FileFields \intersect DOMAIN info'
      PROVE  \E i \in 1 .. n : entries[i].key = field /\ info'[field] = entries[i].value
  <2>1. CASE field \in DOMAIN loaded_fields
    BY <1>4, <1>5, <1>6, <1>8, <2>1
  <2>2. CASE field \notin DOMAIN loaded_fields
    <3>1. field \in FileFields \intersect DOMAIN info /\ info'[field] = info[field]
      BY <1>5, <1>9, <2>2
    <3>2. PICK i \in 1 .. kv_index : entries[i].key = field /\ info[field] = entries[i].value
      BY <3>1 DEF FieldsSoFar
    <3>3. QED
      BY <1>7, <3>1, <3>2
  <2>3. QED
    BY <2>1, <2>2
<1>10. ASSUME NEW i \in 1 .. n,
              \/ entries[i].type = "u32" /\ entries[i].key \in ToSet(U32Fields)
              \/ entries[i].type = "f32" /\ entries[i].key \in ToSet(F32Fields)
       PROVE  entries[i].key \in DOMAIN info'
  <2>1. CASE i = n
    BY <1>4, <1>5, <1>8, <1>10, <2>1
  <2>2. CASE i \in 1 .. kv_index
    BY <1>5, <1>10, <2>2 DEF FieldsSoFar
  <2>3. QED
    BY <1>6, <2>1, <2>2
<1>11. QED
  BY <1>1, <1>9, <1>10, Zenon DEF FieldsSoFar

\* Each step keeps what is known of the fields.
LEMMA FieldsStep ==
  ASSUME GgufAssumption, KeysApart(Entries), GgufInv, FieldsSoFar, [GgufNext]_gguf_vars
  PROVE  FieldsSoFar'
<1>1. CASE info' = info /\ entries' = entries /\ kv_index' = kv_index
  BY <1>1 DEF FieldsSoFar
<1>2. CASE ReadEntry
  <2>1. CASE gguf_pc' # "refused"
    BY <1>2, <2>1, EntryAssigns
  <2>2. CASE gguf_pc' = "refused"
    <3>1. RefuseFile
      BY <1>2, <2>2 DEF ReadEntry
    <3>2. QED
      BY <1>1, <3>1 DEF RefuseFile, file
  <2>3. QED
    BY <2>1, <2>2
<1>3. CASE ReadHeader
  BY <1>1, <1>3 DEF ReadHeader, RefuseFile, file
<1>4. CASE EndEntries \/ EndTensors
  BY <1>1, <1>4 DEF EndEntries, EndTensors, file
<1>5. CASE ReadTensor
  BY <1>1, <1>5 DEF ReadTensor, RefuseFile, file
<1>6. CASE UNCHANGED gguf_vars
  BY <1>1, <1>6 DEF gguf_vars
<1>7. QED
  BY <1>2, <1>3, <1>4, <1>5, <1>6, Zenon DEF GgufNext

\* At the end each field comes from the entry of its name.
LEMMA FieldsByInv ==
  ASSUME GgufAssumption, GgufInv, FieldsSoFar
  PROVE  FieldsOfOwnKeys
<1>1. SUFFICES ASSUME gguf_pc = "ok" PROVE FieldsOfOwnKeys
  BY DEF FieldsOfOwnKeys
<1>2. kv_index = Len(entries) /\ entries \in EntryLists
  BY <1>1 DEF GgufInv, GgufTypeOK, StreamInStep
<1>3. DOMAIN entries = 1 .. kv_index
  BY <1>2, EntriesEnd
<1>4. QED
  BY <1>3 DEF FieldsOfOwnKeys, FieldsSoFar, Own

\* A file that is cut off is noticed, and each field of one that is not comes from
\* the entry of its name: the loop of edgexpu_gguf_load, for every file in which no
\* key contains the name of another field, but for the one pair that nests.
THEOREM GgufFileAsWritten ==
  ASSUME GgufAssumption, KeysApart(Entries)
  PROVE  GgufSpec => []FileAsWritten
<1>1. GgufInit => FieldsSoFar
  BY DEF GgufInit, FieldsSoFar
<1>2. GgufInv /\ FieldsSoFar /\ [GgufNext]_gguf_vars => FieldsSoFar'
  BY FieldsStep
<1>3. GgufInv /\ FieldsSoFar => FileAsWritten
  BY TruncationByInv, FieldsByInv DEF FileAsWritten
<1>4. GgufSpec => []GgufInv
  BY GgufInvariant
<1>5. QED
  BY <1>1, <1>2, <1>3, <1>4, PTL DEF GgufSpec
=============================================================================
