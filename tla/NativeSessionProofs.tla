------------------------- MODULE NativeSessionProofs -------------------------
(***************************************************************************)
(* The inductive invariant of NativeSession, for every context length,     *)
(* window, INT_MAX, request bound and path: first where the contents of    *)
(* the session come from, then what the admitted window is good for; and   *)
(* that the session is, to the runtime, a DecodeSession.                   *)
(***************************************************************************)
EXTENDS NativeSession, TLAPS

Caches == [k : BOOLEAN, max_seq : 0 .. Context, seq_len : 0 .. Context]

\* What updating seq_len leaves of a cache.
LEMMA WithSeqLen ==
  ASSUME NEW cache \in Caches, NEW n \in 0 .. Context
  PROVE  /\ [cache EXCEPT !.seq_len = n] \in Caches
         /\ [cache EXCEPT !.seq_len = n].seq_len = n
         /\ [cache EXCEPT !.seq_len = n].max_seq = cache.max_seq
         /\ [cache EXCEPT !.seq_len = n].k = cache.k
  BY DEF Caches

LEMMA NewCaches ==
  /\ NoCache \in Caches /\ NoCache.seq_len = 0 /\ NoCache.max_seq = 0 /\ ~NoCache.k
  /\ \A n \in 0 .. Context :
       Cache(n) \in Caches /\ Cache(n).seq_len = 0 /\ Cache(n).max_seq = n /\ Cache(n).k
  /\ Unwritten \in [Positions -> 0 .. MaxRequests]
  /\ NoHidden \in [by : 0 .. MaxRequests, at : 0 .. Context]
<1> USE SessionAssumption
<1>1. NoCache \in Caches /\ NoCache.seq_len = 0 /\ NoCache.max_seq = 0 /\ ~NoCache.k
  BY DEF NoCache, Caches
<1>2. \A n \in 0 .. Context :
        Cache(n) \in Caches /\ Cache(n).seq_len = 0 /\ Cache(n).max_seq = n /\ Cache(n).k
  BY DEF Cache, Caches
<1>3. Unwritten \in [Positions -> 0 .. MaxRequests]
  BY DEF Unwritten
<1>4. NoHidden \in [by : 0 .. MaxRequests, at : 0 .. Context]
  BY DEF NoHidden
<1>5. QED
  BY <1>1, <1>2, <1>3, <1>4

\* Actions that leave the session alone: a request that is turned away, or
\* that goes on with nothing changed.
LEMMA QuietStepKeepsOrigin ==
  ASSUME OriginInv, UNCHANGED <<held, request, produced, sample>>,
         pc' \in {"idle", "prefill", "llama", "update_kv"},
         pc' = "prefill" => pc = "tokenize"
  PROVE  OriginInv'
<1> USE DEF OriginInv, held
<1>1. TypeOK'
  BY DEF TypeOK
<1>2. TokensFromOwnPrompt'
  BY DEF TokensFromOwnPrompt
<1>3. QED
  BY <1>1, <1>2 DEF CacheHoldsIds, HiddenIsLast, AttentionOwnSlots, ScoresFit

LEMMA InitOrigin == Init => OriginInv
<1> SUFFICES ASSUME Init PROVE OriginInv
  OBVIOUS
<1> USE SessionAssumption DEF Init
<1>1. TypeOK
  <2>1. request \in [id : 0 .. MaxRequests, path : {AutoPath, NativePath, LlamaPath}, max_new : 1 .. MaxNew]
    BY DEF AutoPath, NativePath, LlamaPath
  <2>2. sample \in [by : 0 .. MaxRequests, from : [by : 0 .. MaxRequests, at : 0 .. Context],
                    len : 0 .. Context]
    BY NewCaches
  <2>3. slots \in [Positions -> 0 .. MaxRequests]
        /\ hidden \in [by : 0 .. MaxRequests, at : 0 .. Context]
    BY NewCaches
  <2>4. kv \in Caches /\ kv.seq_len <= kv.max_seq /\ ~kv.k
    BY NewCaches
  <2>5. /\ token_count \in 0 .. Context /\ generated \in Nat /\ scratch \in 0 .. Context
        /\ produced \in 0 .. MaxNew
    OBVIOUS
  <2>6. runtime_loaded \in BOOLEAN /\ loaded \in BOOLEAN /\ kv = NoCache /\ pc = "idle"
    OBVIOUS
  <2>7. QED
    BY <2>1, <2>2, <2>3, <2>4, <2>5, <2>6 DEF TypeOK, Caches
<1>2. QED
  BY <1>1 DEF OriginInv, CacheHoldsIds, HiddenIsLast, AttentionOwnSlots, TokensFromOwnPrompt,
              ScoresFit

-----------------------------------------------------------------------------
\* ensure_window hands the prefill a window within the context, also where the
\* sum of prompt and max_tokens has wrapped.
LEMMA WindowIsCache ==
  ASSUME TypeOK, WindowReady
  PROVE  /\ Window \in Caches /\ Window.k /\ Window.seq_len <= Window.max_seq
         /\ WindowSlots \in [Positions -> 0 .. MaxRequests]
         /\ loaded
<1>1. Sum \in Int
  BY SessionAssumption DEF TypeOK, Sum, AsInt
<1>2. Needed \in 1 .. Context
  BY <1>1, SessionAssumption DEF Needed, WindowReady, InContext
<1>3. CASE WindowHeld
  BY <1>2, <1>3 DEF WindowHeld, Window, WindowSlots, WindowReady, AtPrefill, TypeOK, Caches
<1>4. CASE ~WindowHeld
  <2>1. Window = Cache(Needed) /\ WindowSlots = Unwritten
    BY <1>4 DEF Window, WindowSlots
  <2>2. QED
    BY <1>2, <2>1, NewCaches DEF WindowReady, AtPrefill
<1>5. QED
  BY <1>3, <1>4

\* If the sum has not wrapped it has room for the prompt and the tokens to come.
LEMMA WindowIsAdmitted ==
  ASSUME TypeOK, WindowReady, produced = 0, ~Overflows
  PROVE  token_count + request.max_new <= Window.max_seq
<1>1. Sum = token_count + request.max_new
  BY SessionAssumption DEF Overflows, TypeOK, Sum, AsInt
<1>2. Needed = token_count + request.max_new /\ Needed \in 1 .. Context
  BY <1>1, SessionAssumption DEF TypeOK, Needed, WindowReady, InContext
<1>3. CASE WindowHeld
  BY <1>2, <1>3 DEF WindowHeld, Window
<1>4. CASE ~WindowHeld
  BY <1>2, <1>4, NewCaches DEF Window
<1>5. QED
  BY <1>3, <1>4

\* What the slots hold after n positions were written.
LEMMA FilledSlots ==
  ASSUME WindowSlots \in [Positions -> 0 .. MaxRequests],
         NEW n \in 0 .. Context, NEW by \in 0 .. MaxRequests
  PROVE  /\ Filled(n, by) \in [Positions -> 0 .. MaxRequests]
         /\ \A p \in 1 .. n : Filled(n, by)[p] = by
<1>1. \A p \in Positions : Filled(n, by)[p] = IF p <= n THEN by ELSE WindowSlots[p]
  BY DEF Filled
<1>2. Filled(n, by) \in [Positions -> 0 .. MaxRequests]
  BY DEF Filled
<1>3. \A p \in 1 .. n : p \in Positions /\ p <= n
  BY SessionAssumption DEF Positions
<1>4. QED
  BY <1>1, <1>2, <1>3

LEMMA LoadKeepsOrigin ==
  ASSUME OriginInv, (\E attention \in BOOLEAN : LoadModel(attention)) \/ LoadFails
  PROVE  OriginInv'
<1> USE SessionAssumption DEF OriginInv
<1>1. /\ kv' \in {NoCache, Cache(Least(DefaultWindow, Context))}
      /\ slots' = Unwritten /\ hidden' = NoHidden
      /\ token_count' = 0 /\ generated' = 0 /\ scratch' = 0
      /\ pc' = "idle" /\ outcome' \in {"loaded", "load_failed"}
      /\ runtime_loaded' \in BOOLEAN /\ loaded' \in BOOLEAN
      /\ kv' # NoCache => loaded'
      /\ UNCHANGED serving \/ UNCHANGED <<request, produced, sample>>
  BY DEF LoadModel, LoadFails, Return, TypeOK
<1>2. UNCHANGED <<request, produced, sample>>
  BY DEF LoadModel, LoadFails
<1>3. Least(DefaultWindow, Context) \in 1 .. Context
  BY DEF Least
<1>4. TypeOK'
  BY <1>1, <1>2, <1>3, NewCaches DEF TypeOK, Caches
<1>5. TokensFromOwnPrompt'
  BY <1>1, <1>2 DEF TokensFromOwnPrompt
<1>6. QED
  BY <1>1, <1>4, <1>5 DEF CacheHoldsIds, HiddenIsLast, AttentionOwnSlots, ScoresFit

LEMMA GenerateKeepsOrigin ==
  ASSUME OriginInv, NEW path \in Paths, NEW max_new \in 1 .. MaxNew, Generate(path, max_new)
  PROVE  OriginInv'
<1> USE SessionAssumption DEF OriginInv, Generate, held
<1>1. TypeOK'
  BY DEF TypeOK
<1>2. TokensFromOwnPrompt'
  BY DEF TokensFromOwnPrompt
<1>3. QED
  BY <1>1, <1>2 DEF CacheHoldsIds, HiddenIsLast, AttentionOwnSlots, ScoresFit

LEMMA TokenizeKeepsOrigin ==
  ASSUME OriginInv, NEW n \in 0 .. Context + 1, Tokenize(n)
  PROVE  OriginInv'
<1> USE SessionAssumption DEF OriginInv, Tokenize, Goto, Return, serving
<1>1. TypeOK'
  BY DEF TypeOK
<1>2. TokensFromOwnPrompt'
  BY DEF TokensFromOwnPrompt
<1>3. QED
  BY <1>1, <1>2 DEF CacheHoldsIds, HiddenIsLast, AttentionOwnSlots, ScoresFit

-----------------------------------------------------------------------------
\* The steps of the prefill that touch the cache and do not enter the decode
\* loop: every failure, and the llama path.
LEMMA PrefillAsideKeepsOrigin ==
  ASSUME OriginInv,
         PrefillRefused \/ PrefillFailsInLayers \/ PrefillFailsAtEnd \/ ReserveKv
  PROVE  OriginInv'
<1> USE SessionAssumption DEF OriginInv
<1>1. WindowReady
  BY DEF PrefillRefused, PrefillFailsInLayers, PrefillFailsAtEnd, ReserveKv, AtForward
<1>2. /\ Window \in Caches /\ Window.k /\ Window.seq_len <= Window.max_seq
      /\ WindowSlots \in [Positions -> 0 .. MaxRequests] /\ loaded
  BY <1>1, WindowIsCache
<1> token_count \in 0 .. Context
  BY DEF TypeOK
<1>3. \/ kv' \in {Window, [Window EXCEPT !.seq_len = 0]}
      \/ kv' = [Window EXCEPT !.seq_len = token_count] /\ token_count <= Window.max_seq
  BY DEF PrefillRefused, PrefillFailsInLayers, PrefillFailsAtEnd, ReserveKv, SeqFits
<1>4. slots' \in [Positions -> 0 .. MaxRequests]
  <2>1. slots' \in {WindowSlots, Filled(token_count, 0), Filled(token_count, request.id)}
    BY DEF PrefillRefused, PrefillFailsInLayers, PrefillFailsAtEnd, ReserveKv
  <2>2. 0 \in 0 .. MaxRequests /\ request.id \in 0 .. MaxRequests
    BY DEF TypeOK
  <2>3. QED
    BY <1>2, <2>1, <2>2, FilledSlots
<1>5. hidden' \in {hidden, NoHidden, OwnHidden(token_count)} /\ generated' \in {generated, 0}
  BY DEF PrefillRefused, PrefillFailsInLayers, PrefillFailsAtEnd, ReserveKv
<1>6. /\ UNCHANGED <<runtime_loaded, loaded, token_count, scratch, serving>>
      /\ \/ pc' = "idle" /\ outcome' = "prefill_failed"
         \/ pc' = "llama" /\ outcome' = outcome
  BY DEF PrefillRefused, PrefillFailsInLayers, PrefillFailsAtEnd, ReserveKv, Goto, Return, serving
<1>7. kv' \in Caches /\ kv'.k /\ kv'.seq_len <= kv'.max_seq
  <2>1. 0 \in 0 .. Context /\ Window.max_seq \in 0 .. Context
    BY <1>2 DEF Caches
  <2>2. CASE kv' = Window
    BY <1>2, <2>2
  <2>3. CASE kv' = [Window EXCEPT !.seq_len = 0]
    BY <1>2, <2>1, <2>3, WithSeqLen
  <2>4. CASE kv' = [Window EXCEPT !.seq_len = token_count] /\ token_count <= Window.max_seq
    BY <1>2, <2>4, WithSeqLen
  <2>5. QED
    BY <1>3, <2>2, <2>3, <2>4
<1>8. TypeOK'
  <2>1. hidden' \in [by : 0 .. MaxRequests, at : 0 .. Context]
    BY <1>5, NewCaches DEF TypeOK, OwnHidden
  <2>2. QED
    BY <1>2, <1>4, <1>5, <1>6, <1>7, <2>1 DEF TypeOK, serving, Caches
<1>9. TokensFromOwnPrompt'
  BY <1>6 DEF TokensFromOwnPrompt, serving
<1>10. QED
  BY <1>6, <1>8, <1>9 DEF CacheHoldsIds, HiddenIsLast, AttentionOwnSlots, ScoresFit

LEMMA AllocationFailureKeepsOrigin ==
  ASSUME OriginInv, WindowAllocationFails
  PROVE  OriginInv'
<1> USE SessionAssumption DEF OriginInv, WindowAllocationFails, Return, serving
<1>1. TypeOK'
  BY DEF TypeOK, NoCache, Unwritten, Positions
<1>2. TokensFromOwnPrompt'
  BY DEF TokensFromOwnPrompt
<1>3. QED
  BY <1>1, <1>2 DEF CacheHoldsIds, HiddenIsLast, AttentionOwnSlots, ScoresFit

\* The prefill establishes what the decode loop relies on.
LEMMA PrefillDoneKeepsOrigin ==
  ASSUME OriginInv, PrefillDone
  PROVE  OriginInv'
<1> USE SessionAssumption DEF OriginInv
<1>1. /\ Window \in Caches /\ Window.k
      /\ WindowSlots \in [Positions -> 0 .. MaxRequests] /\ loaded
  BY WindowIsCache DEF OriginInv, PrefillDone, AtForward
<1>2. token_count \in 1 .. Context /\ token_count <= Window.max_seq
  BY DEF PrefillDone, SeqFits, TypeOK
<1>3. /\ kv' = [Window EXCEPT !.seq_len = token_count]
      /\ slots' = Filled(token_count, request.id)
      /\ hidden' = OwnHidden(token_count) /\ generated' = 0
      /\ pc' = "decode" /\ outcome' = outcome
      /\ UNCHANGED <<runtime_loaded, loaded, token_count, scratch>>
      /\ UNCHANGED <<request, produced, sample>>
  BY DEF PrefillDone, Goto, serving
<1>4. kv' \in Caches /\ kv'.k /\ kv'.seq_len = token_count /\ kv'.max_seq = Window.max_seq
  BY <1>1, <1>2, <1>3, WithSeqLen
<1>5. /\ slots' \in [Positions -> 0 .. MaxRequests]
      /\ \A p \in 1 .. token_count : slots'[p] = request.id
  <2>1. request.id \in 0 .. MaxRequests
    BY DEF TypeOK
  <2>2. token_count \in 0 .. Context
    BY <1>2
  <2>3. /\ Filled(token_count, request.id) \in [Positions -> 0 .. MaxRequests]
        /\ \A p \in 1 .. token_count : Filled(token_count, request.id)[p] = request.id
    BY <1>1, <2>1, <2>2, FilledSlots
  <2>4. QED
    BY <1>3, <2>3
<1>6. TypeOK'
  <2>1. OwnHidden(token_count) \in [by : 0 .. MaxRequests, at : 0 .. Context]
    BY <1>2 DEF OwnHidden, TypeOK
  <2>2. QED
    BY <1>1, <1>2, <1>3, <1>4, <1>5, <2>1 DEF TypeOK, Caches
<1>7. AttentionOwnSlots' /\ CacheHoldsIds' /\ Ready' /\ HiddenIsLast'
  <2>1. AttentionOwnSlots'
    BY <1>3, <1>4, <1>5 DEF AttentionOwnSlots
  <2>2. CacheHoldsIds'
    BY <1>1, <1>2, <1>3, <1>4 DEF CacheHoldsIds, TypeOK, Caches
  <2>3. Ready' /\ HiddenIsLast'
    BY <1>2, <1>3, <1>4 DEF Ready, HiddenIsLast, OwnHidden, NoHidden
  <2>4. QED
    BY <2>1, <2>2, <2>3
<1>8. ScoresFit'
  <2>1. produced = 0
    BY DEF PrefillDone, AtForward, WindowReady, AtPrefill
  <2>2. QED
    BY <1>3, <2>1 DEF ScoresFit
<1>9. TokensFromOwnPrompt'
  BY <1>3 DEF TokensFromOwnPrompt
<1>10. QED
  BY <1>3, <1>6, <1>7, <1>8, <1>9

\* The native loop after a skipped prefill: there is no cache, so the loop's
\* window test will turn the request away.
LEMMA PrefillSkippedKeepsOrigin ==
  ASSUME OriginInv, PrefillSkipped
  PROVE  OriginInv'
<1> USE SessionAssumption DEF OriginInv, PrefillSkipped, Goto, Return, held, serving
<1>1. TypeOK'
  BY DEF TypeOK
<1>2. ~kv.k
  BY DEF TypeOK
<1>3. TokensFromOwnPrompt'
  BY <1>2 DEF TokensFromOwnPrompt
<1>4. CacheHoldsIds' /\ HiddenIsLast' /\ AttentionOwnSlots'
  BY <1>2 DEF CacheHoldsIds, HiddenIsLast, AttentionOwnSlots
<1>5. ScoresFit' /\ (pc' = "decode" => Ready')
  BY <1>1, <1>2 DEF ScoresFit, Ready
<1>6. QED
  BY <1>1, <1>3, <1>4, <1>5

-----------------------------------------------------------------------------
\* A step past the window test has a cache with a free slot, and samples from
\* the request's own hidden state.
LEMMA SamplesOwnHidden ==
  ASSUME OriginInv, AtDecode, ~WindowSpent
  PROVE  /\ kv.k /\ kv.seq_len + 1 \in 1 .. kv.max_seq /\ kv.max_seq <= Context
         /\ kv.seq_len = token_count /\ token_count < Context
         /\ hidden = OwnHidden(kv.seq_len)
<1> USE SessionAssumption DEF OriginInv, AtDecode, WindowSpent
<1>1. kv.k
  BY DEF TypeOK, NoCache
<1>2. QED
  BY <1>1 DEF TypeOK, CacheHoldsIds, HiddenIsLast

LEMMA DecodeTokenKeepsOrigin ==
  ASSUME OriginInv, DecodeToken
  PROVE  OriginInv'
<1> USE SessionAssumption DEF OriginInv
<1>1. /\ kv.k /\ kv.seq_len + 1 \in 1 .. kv.max_seq /\ kv.max_seq <= Context
      /\ kv.seq_len = token_count /\ token_count < Context
      /\ hidden = OwnHidden(kv.seq_len)
  BY SamplesOwnHidden DEF DecodeToken
<1>2. /\ kv' = [kv EXCEPT !.seq_len = kv.seq_len + 1]
      /\ slots' = [slots EXCEPT ![kv.seq_len + 1] = request.id]
      /\ hidden' = OwnHidden(kv.seq_len + 1)
      /\ token_count' = token_count + 1 /\ generated' = generated + 1
      /\ produced' = produced + 1 /\ scratch' = EnsureScratch
      /\ sample' = [by |-> request.id, from |-> hidden, len |-> kv.seq_len]
      /\ UNCHANGED <<runtime_loaded, loaded, pc, request, outcome, loads>>
      /\ pc = "decode" /\ produced < request.max_new
  BY <1>1 DEF DecodeToken, AtDecode, Sample
<1>3. kv' \in Caches /\ kv'.k /\ kv'.seq_len = kv.seq_len + 1 /\ kv'.max_seq = kv.max_seq
  <2>1. kv \in Caches /\ kv.seq_len + 1 \in 0 .. Context
    BY <1>1 DEF TypeOK, Caches
  <2>2. QED
    BY <1>1, <1>2, <2>1, WithSeqLen
<1>4. scratch' \in 0 .. Context /\ kv.max_seq <= scratch'
  BY <1>1, <1>2 DEF EnsureScratch, TypeOK
<1>5. /\ slots' \in [Positions -> 0 .. MaxRequests]
      /\ \A p \in 1 .. kv.seq_len + 1 : slots'[p] = request.id
  <2>1. kv.seq_len + 1 \in Positions
    BY <1>1 DEF Positions, TypeOK
  <2>2. \A p \in 1 .. kv.seq_len : slots[p] = request.id
    BY <1>1, <1>2 DEF AttentionOwnSlots
  <2>3. kv.seq_len \in Nat /\ request.id \in 0 .. MaxRequests
    BY DEF TypeOK
  <2>4. slots \in [Positions -> 0 .. MaxRequests]
    BY DEF TypeOK
  <2>5. \A p \in Positions : slots'[p] = IF p = kv.seq_len + 1 THEN request.id ELSE slots[p]
    BY <1>2, <2>4
  <2>6. 1 .. kv.seq_len + 1 \subseteq Positions
    BY <2>1, <2>3 DEF Positions
  <2>7. QED
    BY <1>2, <2>2, <2>3, <2>4, <2>5, <2>6
<1>6. TypeOK'
  <2>1. sample'.from \in [by : 0 .. MaxRequests, at : 0 .. Context]
    BY <1>2 DEF TypeOK
  <2>2. OwnHidden(kv.seq_len + 1) \in [by : 0 .. MaxRequests, at : 0 .. Context]
    BY <1>1 DEF OwnHidden, TypeOK
  <2>3. QED
    BY <1>1, <1>2, <1>3, <1>4, <1>5, <2>1, <2>2 DEF TypeOK, Caches
<1>7. AttentionOwnSlots' /\ CacheHoldsIds' /\ Ready' /\ HiddenIsLast'
  <2>1. AttentionOwnSlots'
    BY <1>2, <1>3, <1>5 DEF AttentionOwnSlots
  <2>2. CacheHoldsIds'
    BY <1>1, <1>2, <1>3 DEF CacheHoldsIds, TypeOK
  <2>3. Ready' /\ HiddenIsLast'
    BY <1>1, <1>2, <1>3 DEF Ready, HiddenIsLast, OwnHidden, NoHidden
  <2>4. QED
    BY <2>1, <2>2, <2>3
<1>8. ScoresFit'
  BY <1>1, <1>3, <1>4 DEF ScoresFit, TypeOK
<1>9. TokensFromOwnPrompt'
  BY <1>1, <1>2, <1>3 DEF TokensFromOwnPrompt, OwnHidden
<1>10. QED
  BY <1>2, <1>6, <1>7, <1>8, <1>9

\* The loop ends with a sampled token that is not decoded.
LEMMA DecodeStopsKeepsOrigin ==
  ASSUME OriginInv, EndOfSequence \/ DecodeFails
  PROVE  OriginInv'
<1> USE SessionAssumption DEF OriginInv
<1>1. /\ kv.k /\ kv.seq_len + 1 \in 1 .. kv.max_seq /\ kv.max_seq <= Context
      /\ hidden = OwnHidden(kv.seq_len)
  BY SamplesOwnHidden DEF EndOfSequence, DecodeFails
<1>2. /\ UNCHANGED <<runtime_loaded, loaded, kv, hidden, token_count, generated>>
      /\ UNCHANGED <<request, produced>>
      /\ slots' \in {slots, [slots EXCEPT ![kv.seq_len + 1] = 0]}
      /\ scratch' \in {scratch, 0, EnsureScratch}
      /\ sample' = [by |-> request.id, from |-> hidden, len |-> kv.seq_len]
      /\ \/ pc' = "idle" /\ outcome' = "decode_failed"
         \/ pc' = "update_kv" /\ outcome' = outcome
  BY DEF EndOfSequence, DecodeFails, Sample, Goto, Return, held
<1>3. slots' \in [Positions -> 0 .. MaxRequests]
  BY <1>2 DEF TypeOK
<1>4. scratch' \in 0 .. Context
  BY <1>1, <1>2 DEF EnsureScratch, TypeOK
<1>5. TypeOK'
  BY <1>1, <1>2, <1>3, <1>4 DEF TypeOK
<1>6. TokensFromOwnPrompt'
  BY <1>1, <1>2 DEF TokensFromOwnPrompt, OwnHidden
<1>7. QED
  BY <1>2, <1>5, <1>6 DEF CacheHoldsIds, HiddenIsLast, AttentionOwnSlots, ScoresFit

LEMMA UpdateExtendsKeepsOrigin ==
  ASSUME OriginInv, NEW extra \in 1 .. MaxNew, UpdateExtends(extra)
  PROVE  OriginInv'
<1> USE SessionAssumption DEF OriginInv, UpdateExtends, Goto, Return, serving
<1>1. kv' \in [k : BOOLEAN, max_seq : 0 .. Context, seq_len : 0 .. Context]
      /\ kv'.seq_len <= kv'.max_seq /\ kv'.k
  BY DEF TypeOK
<1>2. TypeOK'
  BY <1>1 DEF TypeOK
<1>3. TokensFromOwnPrompt'
  BY DEF TokensFromOwnPrompt
<1>4. QED
  BY <1>2, <1>3 DEF CacheHoldsIds, HiddenIsLast, AttentionOwnSlots, ScoresFit

-----------------------------------------------------------------------------
LEMMA NextKeepsOrigin ==
  ASSUME OriginInv, [Next]_vars
  PROVE  OriginInv'
<1>1. CASE (\E attention \in BOOLEAN : LoadModel(attention)) \/ LoadFails
  BY <1>1, LoadKeepsOrigin
<1>2. CASE \E path \in Paths, max_new \in 1 .. MaxNew : Generate(path, max_new)
  BY <1>2, GenerateKeepsOrigin
<1>3. CASE \E n \in 0 .. Context + 1 : Tokenize(n)
  BY <1>3, TokenizeKeepsOrigin
<1>4. CASE TokenizeSkipped \/ WindowTooLong \/ WindowNotAdmitted \/ WindowCannotGrow \/ LoadRefused
  BY <1>4, QuietStepKeepsOrigin
  DEF serving, LoadRefused, TokenizeSkipped, WindowTooLong, WindowNotAdmitted, WindowCannotGrow, Goto, Return
<1>5. CASE WindowAllocationFails
  BY <1>5, AllocationFailureKeepsOrigin
<1>6. CASE PrefillRefused \/ PrefillFailsInLayers \/ PrefillFailsAtEnd \/ ReserveKv
  BY <1>6, PrefillAsideKeepsOrigin
<1>7. CASE PrefillDone
  BY <1>7, PrefillDoneKeepsOrigin
<1>8. CASE PrefillSkipped
  BY <1>8, PrefillSkippedKeepsOrigin
<1>9. CASE OutOfWindow \/ SampleFails \/ LoopEnds \/ UpdateChecks
  BY <1>9, QuietStepKeepsOrigin
  DEF serving, OutOfWindow, SampleFails, LoopEnds, UpdateChecks, Goto, Return
<1>10. CASE EndOfSequence \/ DecodeFails
  BY <1>10, DecodeStopsKeepsOrigin
<1>11. CASE DecodeToken
  BY <1>11, DecodeTokenKeepsOrigin
<1>12. CASE \E ok \in BOOLEAN : LlamaGenerate(ok)
  BY <1>12, QuietStepKeepsOrigin DEF serving, LlamaGenerate, Goto, Return
<1>13. CASE \E extra \in 1 .. MaxNew : UpdateExtends(extra)
  BY <1>13, UpdateExtendsKeepsOrigin
<1>14. CASE UNCHANGED vars
  BY <1>14 DEF vars, held, serving, OriginInv, TypeOK, Ready, CacheHoldsIds, HiddenIsLast, OwnHidden,
               AttentionOwnSlots, TokensFromOwnPrompt, ScoresFit
<1>15. QED
  BY <1>1, <1>2, <1>3, <1>4, <1>5, <1>6, <1>7, <1>8, <1>9, <1>10, <1>11, <1>12, <1>13,
     <1>14 DEF Next, Prefill, Decode

-----------------------------------------------------------------------------
(* The room in the window.                                                 *)

\* A step out of the decode loop that does not end at the window keeps the promise
\* of room.
LEMMA AsideKeepsRoom ==
  ASSUME pc' # "decode", outcome' # "out_of_window", pc' # "idle" => outcome' = "none"
  PROVE  (pc # "idle" => outcome = "none")' /\ RoomLeft' /\ AdmittedRunsToEnd'
BY DEF RoomLeft, AdmittedRunsToEnd

LEMMA NextKeepsRoom ==
  ASSUME IInv, [Next]_vars
  PROVE  (pc # "idle" => outcome = "none")' /\ RoomLeft' /\ AdmittedRunsToEnd'
<1> USE SessionAssumption
<1>1. /\ TypeOK /\ RoomLeft /\ AdmittedRunsToEnd /\ CacheHoldsIds
      /\ pc # "idle" => outcome = "none"
  BY DEF IInv, OriginInv
<1>2. CASE PrefillDone
  <2>1. WindowReady /\ produced = 0 /\ pc = "prefill"
    BY <1>2 DEF PrefillDone, AtForward, WindowReady, AtPrefill, IInv, OriginInv
  <2>2. Window \in Caches /\ (~Overflows => token_count + request.max_new <= Window.max_seq)
    BY <1>1, <2>1, WindowIsAdmitted, WindowIsCache
  <2>3. /\ kv' = [Window EXCEPT !.seq_len = token_count] /\ outcome' = outcome
        /\ UNCHANGED <<token_count, request, produced>>
    BY <1>2 DEF PrefillDone, Goto, serving
  <2>4. kv'.max_seq = Window.max_seq
    BY <1>1, <2>2, <2>3, WithSeqLen DEF TypeOK
  <2>5. RoomLeft'
    BY <1>1, <2>1, <2>2, <2>3, <2>4 DEF RoomLeft, Overflows, TypeOK
  <2>6. outcome' = "none"
    BY <1>1, <2>1, <2>3
  <2>7. QED
    BY <2>5, <2>6 DEF AdmittedRunsToEnd
<1>3. CASE DecodeToken
  <2>1. /\ kv.k /\ pc = "decode" /\ produced < request.max_new
        /\ token_count' = token_count + 1 /\ produced' = produced + 1
        /\ UNCHANGED <<pc, request, outcome>>
    BY <1>3, SamplesOwnHidden DEF DecodeToken, AtDecode, IInv
  <2>2. kv' = [kv EXCEPT !.seq_len = kv.seq_len + 1]
    BY <1>3, <2>1 DEF DecodeToken
  <2>3. kv'.max_seq = kv.max_seq
    BY <1>1, <2>2 DEF TypeOK
  <2>4. Overflows' = Overflows
    BY <1>1, <2>1 DEF Overflows, TypeOK
  <2>5. RoomLeft'
    BY <1>1, <2>1, <2>3, <2>4 DEF RoomLeft, TypeOK
  <2>6. outcome' = "none"
    BY <1>1, <2>1
  <2>7. QED
    BY <2>5, <2>6 DEF AdmittedRunsToEnd
\* The window is met only without a cache, or when the sum has wrapped.
<1>4. CASE OutOfWindow
  <2>1. ~kv.k \/ Overflows
    BY <1>1, <1>4 DEF OutOfWindow, AtDecode, WindowSpent, RoomLeft, CacheHoldsIds, TypeOK
  <2>2. pc' = "idle" /\ UNCHANGED <<kv, token_count, produced, request>>
    BY <1>4 DEF OutOfWindow, Return, held, serving
  <2>3. QED
    BY <2>1, <2>2 DEF RoomLeft, AdmittedRunsToEnd, Overflows
<1>5. CASE PrefillSkipped
  <2>1. ~kv.k /\ kv' = kv
    BY <1>1, <1>5 DEF PrefillSkipped, TypeOK, held
  <2>2. pc' # "idle" => outcome' = "none"
    BY <1>1, <1>5 DEF PrefillSkipped, Goto, Return
  <2>3. QED
    BY <2>1, <2>2 DEF RoomLeft, AdmittedRunsToEnd
<1>6. CASE \/ \E attention \in BOOLEAN : LoadModel(attention)
           \/ LoadFails \/ LoadRefused
           \/ \E path \in Paths, max_new \in 1 .. MaxNew : Generate(path, max_new)
           \/ \E n \in 0 .. Context + 1 : Tokenize(n)
           \/ TokenizeSkipped
           \/ WindowTooLong \/ WindowNotAdmitted \/ WindowCannotGrow \/ WindowAllocationFails
  <2>1. pc' # "decode" /\ outcome' # "out_of_window" /\ (pc' # "idle" => outcome' = "none")
    BY <1>1, <1>6 DEF LoadModel, LoadFails, LoadRefused, Generate, Tokenize, TokenizeSkipped,
                AtPrefill, WindowTooLong, WindowNotAdmitted, WindowCannotGrow,
                WindowAllocationFails, Return, Goto
  <2>2. QED
    BY <2>1, AsideKeepsRoom
<1>7. CASE PrefillRefused \/ PrefillFailsInLayers \/ PrefillFailsAtEnd \/ ReserveKv
  <2>1. pc = "prefill"
    BY <1>7 DEF PrefillRefused, PrefillFailsInLayers, PrefillFailsAtEnd, ReserveKv,
                AtForward, WindowReady, AtPrefill
  <2>2. pc' # "decode" /\ outcome' # "out_of_window" /\ (pc' # "idle" => outcome' = "none")
    BY <1>1, <1>7, <2>1
    DEF PrefillRefused, PrefillFailsInLayers, PrefillFailsAtEnd, ReserveKv, Return, Goto
  <2>3. QED
    BY <2>2, AsideKeepsRoom
<1>8. CASE \/ SampleFails \/ EndOfSequence \/ DecodeFails \/ LoopEnds
           \/ \E ok \in BOOLEAN : LlamaGenerate(ok)
           \/ UpdateChecks
           \/ \E extra \in 1 .. MaxNew : UpdateExtends(extra)
  <2>1. pc' # "decode" /\ outcome' # "out_of_window" /\ (pc' # "idle" => outcome' = "none")
    BY <1>1, <1>8 DEF SampleFails, EndOfSequence, DecodeFails, LoopEnds, LlamaGenerate, UpdateChecks,
                UpdateExtends, AtDecode, Return, Goto
  <2>2. QED
    BY <2>1, AsideKeepsRoom
<1>9. CASE UNCHANGED vars
  BY <1>1, <1>9 DEF vars, held, serving, RoomLeft, AdmittedRunsToEnd, Overflows
<1>10. QED
  BY <1>2, <1>3, <1>4, <1>5, <1>6, <1>7, <1>8, <1>9 DEF Next, Prefill, Decode

\* What the invariant is about: see IInv in NativeSession.
THEOREM SessionInvariant == Spec => []IInv
<1>1. Init => IInv
  BY InitOrigin DEF Init, IInv, RoomLeft, AdmittedRunsToEnd
<1>2. IInv /\ [Next]_vars => IInv'
  BY NextKeepsOrigin, NextKeepsRoom DEF IInv
<1>3. QED
  BY <1>1, <1>2, PTL DEF Spec

\* Every token is sampled from the current request's own hidden state, whatever
\* failed before and however the window and the path changed.
THEOREM SessionTokensFromOwnPrompt == Spec => []TokensFromOwnPrompt
<1>1. IInv => TokensFromOwnPrompt
  BY DEF IInv, OriginInv
<1>2. QED
  BY <1>1, SessionInvariant, PTL

\* An admitted window lasts for max_tokens tokens, unless the sum it was admitted by
\* has wrapped.
THEOREM SessionAdmittedRunsToEnd == Spec => []AdmittedRunsToEnd
<1>1. IInv => AdmittedRunsToEnd
  BY DEF IInv
<1>2. QED
  BY <1>1, SessionInvariant, PTL

\* Attention reads slots of the current request only, below the occupied length.
THEOREM SessionAttentionOwnSlots == Spec => []AttentionOwnSlots
<1>1. IInv => AttentionOwnSlots
  BY DEF IInv, OriginInv
<1>2. QED
  BY <1>1, SessionInvariant, PTL

\* The scores of a decode step fit in the workspace that the session holds.
THEOREM SessionScoresFit == Spec => []ScoresFit
<1>1. IInv => ScoresFit
  BY DEF IInv, OriginInv
<1>2. QED
  BY <1>1, SessionInvariant, PTL

-----------------------------------------------------------------------------
\* What a step does to the two flags the runtime tests.
LEMMA FlagsStep ==
  ASSUME OriginInv, OriginInv', Next
  PROVE  \/ loaded' \in BOOLEAN /\ ~Ready'
         \/ loaded' = loaded /\ loaded
         \/ loaded' = loaded /\ Ready' = Ready
<1>1. CASE (\E attention \in BOOLEAN : LoadModel(attention)) \/ LoadFails
  BY <1>1 DEF LoadModel, LoadFails, Ready
<1>2. CASE PrefillFailsAtEnd \/ PrefillDone
  BY <1>2 DEF PrefillFailsAtEnd, PrefillDone, AtForward, WindowReady, AtPrefill
<1>3. CASE DecodeToken
  <2>1. Ready /\ Ready' /\ loaded' = loaded
    BY <1>3 DEF DecodeToken, AtDecode, OriginInv
  <2>2. QED
    BY <2>1
<1>4. CASE TokenizeSkipped \/ WindowTooLong \/ WindowNotAdmitted \/ WindowCannotGrow
           \/ SampleFails \/ LoopEnds \/ UpdateChecks \/ PrefillSkipped \/ OutOfWindow
           \/ EndOfSequence \/ LoadRefused
  BY <1>4 DEF LoadRefused, TokenizeSkipped, WindowTooLong, WindowNotAdmitted, WindowCannotGrow, SampleFails,
              LoopEnds, UpdateChecks, PrefillSkipped, OutOfWindow, EndOfSequence, held, Ready
<1>5. CASE PrefillRefused \/ PrefillFailsInLayers \/ ReserveKv \/ WindowAllocationFails
           \/ DecodeFails
  BY <1>5 DEF PrefillRefused, PrefillFailsInLayers, ReserveKv, WindowAllocationFails,
              DecodeFails, Ready
<1>6. CASE \/ \E path \in Paths, max_new \in 1 .. MaxNew : Generate(path, max_new)
           \/ \E n \in 0 .. Context + 1 : Tokenize(n)
           \/ \E ok \in BOOLEAN : LlamaGenerate(ok)
           \/ \E extra \in 1 .. MaxNew : UpdateExtends(extra)
  BY <1>6 DEF Generate, Tokenize, LlamaGenerate, UpdateExtends, held, Ready
<1>7. QED
  BY <1>1, <1>2, <1>3, <1>4, <1>5, <1>6 DEF Next, Prefill, Decode

LEMMA StepImplementsFlags ==
  ASSUME OriginInv, OriginInv', [Next]_vars
  PROVE  [Flags!Next]_<<loaded, Ready>>
<1>1. CASE UNCHANGED vars
  BY <1>1 DEF vars, held, Ready
<1>2. CASE Next
  <2>1. CASE loaded' \in BOOLEAN /\ ~Ready'
    <3>1. Ready' = FALSE
      BY <2>1
    <3>2. Flags!Load(loaded')
      BY <3>1 DEF Flags!Load
    <3>3. QED
      BY <2>1, <3>2 DEF Flags!Next
  <2>2. CASE loaded' = loaded /\ loaded
    <3>1. Ready' \in BOOLEAN
      BY DEF Ready
    <3>2. Flags!Prefill
      BY <2>2, <3>1 DEF Flags!Prefill
    <3>3. QED
      BY <3>2 DEF Flags!Next
  <2>3. CASE loaded' = loaded /\ Ready' = Ready
    BY <2>3
  <2>4. QED
    BY <1>2, <2>1, <2>2, <2>3, FlagsStep
<1>3. QED
  BY <1>1, <1>2

\* The session is a DecodeSession to the runtime, which is what Generate uses.
THEOREM SessionImplementsFlags == Spec => ImplementsDecodeSession
<1>1. Init => Flags!Init
  BY DEF Init, Flags!Init, Ready
<1>2. IInv /\ IInv' /\ [Next]_vars => [Flags!Next]_<<loaded, Ready>>
  BY StepImplementsFlags DEF IInv
<1>3. QED
  BY <1>1, <1>2, SessionInvariant, PTL DEF Spec, ImplementsDecodeSession, Flags!Spec
=============================================================================
