----------------------------- MODULE TokenProofs -----------------------------
(***************************************************************************)
(* Three parts of the road from text to tokens and back.                   *)
(*                                                                         *)
(* The greedy choice of a team of threads, for every vocabulary, chunk,    *)
(* team and order of merging, and the sequential scan it is compared with. *)
(*                                                                         *)
(* The tables of the tokenizer, for every file and every pair of hash      *)
(* functions: what was entered is found, under its first id or rank.       *)
(*                                                                         *)
(* The draw of a token, for every number of tokens, weights, top_p and     *)
(* random number: what is kept is a smallest set, and every token of it    *)
(* comes up as often as its weight asks for.                               *)
(*                                                                         *)
(* The sequential scan, the doubled table size and the running sums are    *)
(* defined by recursion.  What they compute is proved by induction; the    *)
(* provers cannot instantiate an induction rule that has a predicate as its*)
(* parameter, so every induction here takes a least counterexample or goes *)
(* by membership of a set (LeastNatural and UpTo in BoundedRecursion).     *)
(***************************************************************************)
EXTENDS GreedyArgmax, PieceIndex, Sampler, FiniteSetTheorems, BoundedRecursion, TLAPS

-----------------------------------------------------------------------------
(* Numbers.                                                                *)

\* The smaller of two numbers.
LEMMA MinOfTwo ==
  ASSUME NEW a \in Int, NEW b \in Int
  PROVE  Min({a, b}) = IF a <= b THEN a ELSE b
BY DEF Min

\* An element below all others is the minimum.
LEMMA MinIsLeast ==
  ASSUME NEW S \in SUBSET Int, NEW a \in S, \A b \in S : a <= b
  PROVE  Min(S) = a
<1>1. Min(S) \in S /\ \A b \in S : Min(S) <= b
  BY DEF Min
<1>2. \A x \in S : (\A b \in S : x <= b) => x = a
  OBVIOUS
<1>3. QED
  BY <1>1, <1>2

\* Division deals the rows out: the quotient to every thread, the remainder
\* to the first ones.
LEMMA Division ==
  ASSUME NEW n \in Nat, NEW d \in Nat \ {0}
  PROVE  /\ n \div d \in Nat /\ n % d \in Nat /\ n % d < d
         /\ d * (n \div d) + (n % d) = n
OBVIOUS

\* Multiples of a number grow, by the number with each step.
LEMMA Products ==
  ASSUME NEW q \in Nat, NEW a \in Nat, NEW b \in Nat, a <= b
  PROVE  /\ a * q \in Nat /\ b * q \in Nat /\ a * q <= b * q
         /\ (a + 1) * q = a * q + q
OBVIOUS

-----------------------------------------------------------------------------
(* The shares of a chunk.                                                  *)

\* A chunk ends behind its beginning, and within the rows.
LEMMA ChunkEnd ==
  ASSUME ArgmaxAssumption, begin \in Nat, begin < Vocab
  PROVE  /\ LastRow(begin) \in Nat /\ begin < LastRow(begin) /\ LastRow(begin) <= Vocab
         /\ LastRow(begin) = IF begin + Chunk <= Vocab THEN begin + Chunk ELSE Vocab
BY MinOfTwo DEF ArgmaxAssumption, LastRow

\* Shares follow one another and together they are the chunk.
LEMMA Shares ==
  ASSUME ArgmaxAssumption, begin \in Nat, begin < Vocab, NEW size \in Nat \ {0}
  PROVE  /\ ShareBegin(begin, size, 1) = begin
         /\ ShareBegin(begin, size, size + 1) = LastRow(begin)
         /\ \A t \in 1 .. size + 1 : /\ ShareBegin(begin, size, t) \in Nat
                                     /\ begin <= ShareBegin(begin, size, t)
                                     /\ ShareBegin(begin, size, t) <= LastRow(begin)
         /\ \A t \in 1 .. size :
              ShareBegin(begin, size, t) <= ShareBegin(begin, size, t + 1)
<1> DEFINE rows == LastRow(begin) - begin
           q == rows \div size
           m == rows % size
<1>1. rows \in Nat /\ q \in Nat /\ m \in Nat /\ m < size /\ size * q + m = rows
  <2>1. rows \in Nat
    BY ChunkEnd
  <2>2. QED
    BY <2>1, Division
<1>2. \A t \in 1 .. size + 1 :
        ShareBegin(begin, size, t) = begin + (t - 1) * q + (IF t - 1 <= m THEN t - 1 ELSE m)
  <2>1. TAKE t \in 1 .. size + 1
  <2>2. ShareBegin(begin, size, t) = begin + (t - 1) * q + Min({t - 1, m})
    BY DEF ShareBegin
  <2> HIDE DEF q, m
  <2>3. Min({t - 1, m}) = IF t - 1 <= m THEN t - 1 ELSE m
    BY <1>1, MinOfTwo
  <2>4. QED
    BY <2>2, <2>3
<1>3. \A t \in 1 .. size + 1 : (t - 1) * q \in Nat /\ (t - 1) * q <= size * q
  <2>1. TAKE t \in 1 .. size + 1
  <2>2. t - 1 \in Nat /\ t - 1 <= size /\ size \in Nat
    OBVIOUS
  <2> HIDE DEF q
  <2>3. QED
    BY <1>1, <2>2, Products
<1>4. \A t \in 1 .. size : t * q = (t - 1) * q + q
  <2>1. TAKE t \in 1 .. size
  <2>2. t - 1 \in Nat /\ (t - 1) + 1 = t
    OBVIOUS
  <2> HIDE DEF q
  <2>3. QED
    BY <1>1, <2>2, Products
<1>5. begin \in Nat /\ LastRow(begin) = begin + rows
  BY ChunkEnd
<1> HIDE DEF rows, q, m
<1>6. ShareBegin(begin, size, 1) = begin
  BY <1>1, <1>2, <1>5
<1>7. ShareBegin(begin, size, size + 1) = LastRow(begin)
  BY <1>1, <1>2, <1>5
<1>8. \A t \in 1 .. size + 1 : /\ ShareBegin(begin, size, t) \in Nat
                               /\ begin <= ShareBegin(begin, size, t)
                               /\ ShareBegin(begin, size, t) <= LastRow(begin)
  BY <1>1, <1>2, <1>3, <1>5
<1>9. \A t \in 1 .. size : ShareBegin(begin, size, t) <= ShareBegin(begin, size, t + 1)
  BY <1>1, <1>2, <1>3, <1>4, <1>5
<1>10. QED
  BY <1>6, <1>7, <1>8, <1>9

\* Every row of a chunk is in one share at least.
LEMMA SharesCover ==
  ASSUME ArgmaxAssumption, begin \in Nat, begin < Vocab, NEW size \in Nat \ {0},
         NEW r \in Nat, begin <= r, r < LastRow(begin)
  PROVE  \E t \in 1 .. size : ShareBegin(begin, size, t) <= r
                              /\ r < ShareBegin(begin, size, t + 1)
<1> DEFINE T == {t \in 1 .. size : r < ShareBegin(begin, size, t + 1)}
<1>1. T \in SUBSET Nat /\ size \in T
  BY Shares
<1>2. PICK t \in T : \A u \in T : t <= u
  <2> HIDE DEF T
  <2>1. QED
    BY <1>1, LeastNatural
<1>3. CASE t = 1
  BY <1>2, <1>3, Shares
<1>4. CASE t # 1
  <2>1. t - 1 \in 1 .. size /\ t - 1 \notin T /\ (t - 1) + 1 = t
    BY <1>2, <1>4
  <2>2. ~(r < ShareBegin(begin, size, t))
    BY <2>1
  <2>3. QED
    BY <1>2, <2>1, <2>2, Shares
<1>5. QED
  BY <1>3, <1>4

-----------------------------------------------------------------------------
(* The best of a set of rows.                                              *)

LEMMA BestUnique ==
  ASSUME NEW R \in SUBSET Rows, score \in [Rows -> Int],
         NEW a, NEW s, NEW b, NEW u, BestOf(R, a, s), BestOf(R, b, u)
  PROVE  a = b /\ s = u
<1>1. \A r \in R : r \in Int /\ score[r] \in Int
  BY DEF Rows
<1>2. CASE \A r \in R : score[r] <= NegInf
  BY <1>1, <1>2 DEF BestOf, NegInf
<1>3. CASE ~ \A r \in R : score[r] <= NegInf
  <2>1. /\ a \in R /\ s = score[a] /\ \A r \in R : score[r] < s \/ (score[r] = s /\ a <= r)
        /\ b \in R /\ u = score[b] /\ \A r \in R : score[r] < u \/ (score[r] = u /\ b <= r)
    BY <1>3 DEF BestOf
  <2>2. QED
    BY <1>1, <2>1
<1>4. QED
  BY <1>2, <1>3

\* A row joins the rows before it.
LEMMA BestWithRow ==
  ASSUME score \in [Rows -> Int], NEW R \in SUBSET Rows, NEW k \in Rows,
         NEW row \in Nat, NEW s \in Int, BestOf(R, row, s), \A r \in R : r < k
  PROVE  BestOf(R \union {k}, IF score[k] > s THEN k ELSE row,
                              IF score[k] > s THEN score[k] ELSE s)
BY DEF BestOf, Rows, NegInf

\* A share joins the shares merged before it, whichever of them is lower.
LEMMA BestWithShare ==
  ASSUME score \in [Rows -> Int], NEW R \in SUBSET Rows, NEW S \in SUBSET Rows,
         NEW w \in WorkerType, best \in Nat, best_score \in Int,
         BestOf(R, best, best_score), BestOf(S, w.local_best, w.local_score)
  PROVE  BestOf(R \union S, IF Wins(w) THEN w.local_best ELSE best,
                            IF Wins(w) THEN w.local_score ELSE best_score)
BY DEF BestOf, Rows, NegInf, Wins, WorkerType

-----------------------------------------------------------------------------
(* The invariant.                                                          *)

LEMMA TeamSize ==
  ASSUME NEW size \in Nat
  PROVE  Cardinality(1 .. size) = size
BY FS_Interval

\* The rows merged, with the size of the team at hand.
LEMMA MergedRows ==
  /\ team = <<>> => MergedShares = {r \in Rows : r < begin}
  /\ \A size \in Nat : DOMAIN team = 1 .. size =>
       MergedShares = {r \in Rows :
                   \/ r < begin
                   \/ \E t \in 1 .. size :
                        /\ team[t].merged /\ r < team[t].end
                        /\ r >= ShareBegin(begin, size, t)}
<1>1. ASSUME team = <<>> PROVE MergedShares = {r \in Rows : r < begin}
  BY <1>1 DEF MergedShares
<1>2. ASSUME NEW size \in Nat, DOMAIN team = 1 .. size
      PROVE  MergedShares = {r \in Rows :
                         \/ r < begin
                         \/ \E t \in 1 .. size :
                              /\ team[t].merged /\ r < team[t].end
                              /\ r >= ShareBegin(begin, size, t)}
  <2>1. Cardinality(1 .. size) = size
    BY FS_Interval
  <2>2. QED
    BY <1>2, <2>1 DEF MergedShares
<1>3. QED
  BY <1>1, <1>2

LEMMA InitIInv ==
  ASSUME ArgmaxAssumption, ArgmaxInit
  PROVE  ArgmaxInv
<1>1. ArgmaxTypeOK /\ TeamOK
  BY DEF ArgmaxInit, ArgmaxTypeOK, TeamOK, NegInf
<1>2. MergedShares = {}
  BY MergedRows DEF ArgmaxInit, Rows
<1>3. QED
  BY <1>1, <1>2 DEF ArgmaxInit, ArgmaxInv, BestOf

LEMMA OpenChunkKeeps ==
  ASSUME ArgmaxAssumption, ArgmaxInv, OpenChunk
  PROVE  ArgmaxInv'
<1>1. PICK size \in TeamSizes(begin) : team' = [t \in 1 .. size |-> Worker(begin, size, t)]
  BY DEF OpenChunk
<1>2. /\ team = <<>> /\ begin < Vocab /\ begin \in Nat /\ size \in Nat \ {0}
      /\ UNCHANGED <<score, begin, best, best_score>>
  BY DEF OpenChunk, TeamSizes, ArgmaxInv, ArgmaxTypeOK, ArgmaxAssumption
<1>3. \A t \in 1 .. size : /\ team'[t] \in WorkerType /\ ~team'[t].merged
                           /\ WorkerOK(team[t], ShareBegin(begin, size, t),
                                       ShareBegin(begin, size, t + 1))'
  <2>1. TAKE t \in 1 .. size
  <2>2. team'[t] = Worker(begin, size, t)
    BY <1>1
  <2>3. /\ ShareBegin(begin, size, t) \in Nat /\ ShareBegin(begin, size, t + 1) \in Nat
        /\ ShareBegin(begin, size, t) <= ShareBegin(begin, size, t + 1)
    <3>1. t \in 1 .. size + 1 /\ t + 1 \in 1 .. size + 1
      BY <1>2
    <3>2. QED
      BY <1>2, <3>1, Shares
  <2>4. team'[t] \in WorkerType /\ ~team'[t].merged
    BY <2>2, <2>3 DEF Worker, WorkerType, NegInf
  <2>5. WorkerOK(team[t], ShareBegin(begin, size, t), ShareBegin(begin, size, t + 1))'
    <3>1. begin' = begin
      BY <1>2
    <3>2. BestOf(ShareBegin(begin, size, t) .. ShareBegin(begin, size, t) - 1, 0, NegInf)'
      BY <2>3, <3>1 DEF BestOf
    <3>3. QED
      BY <2>2, <2>3, <3>1, <3>2 DEF Worker, WorkerOK
  <2>6. QED
    BY <2>4, <2>5
<1>4. TeamOK'
  <2>1. team' \in [1 .. size -> WorkerType]
    BY <1>1, <1>3
  <2>2. size \in TeamSizes(begin)'
    BY <1>2 DEF TeamSizes, LastRow
  <2>3. begin' < Vocab
    BY <1>2
  <2>4. QED
    BY <1>3, <2>1, <2>2, <2>3 DEF TeamOK
<1>5. MergedShares' = MergedShares
  <2>1. MergedShares = {r \in Rows : r < begin}
    BY <1>2, MergedRows
  <2>2. MergedShares' = {r \in Rows :
                     \/ r < begin
                     \/ \E t \in 1 .. size :
                          /\ team'[t].merged /\ r < team'[t].end
                          /\ r >= ShareBegin(begin, size, t)'}
    <3>1. DOMAIN team' = 1 .. size
      BY <1>1
    <3>2. Cardinality(1 .. size) = size
      BY <1>2, FS_Interval
    <3>3. QED
      BY <1>2, <3>1, <3>2 DEF MergedShares, Rows
  <2>3. QED
    BY <1>3, <2>1, <2>2
<1>6. QED
  BY <1>2, <1>4, <1>5 DEF ArgmaxInv, ArgmaxTypeOK, BestOf

\* A team at work: its size, and what the shares of its chunk are.
LEMMA TeamAtWork ==
  ASSUME ArgmaxAssumption, ArgmaxInv, team # <<>>
  PROVE  /\ begin \in Nat /\ begin < Vocab
         /\ \E size \in Nat \ {0} :
              /\ size \in TeamSizes(begin)
              /\ DOMAIN team = 1 .. size /\ team \in [1 .. size -> WorkerType]
              /\ \A t \in 1 .. size :
                   /\ WorkerOK(team[t], ShareBegin(begin, size, t), ShareBegin(begin, size, t + 1))
                   /\ ShareBegin(begin, size, t) \in Nat /\ ShareBegin(begin, size, t + 1) \in Nat
                   /\ begin <= ShareBegin(begin, size, t)
                   /\ ShareBegin(begin, size, t + 1) <= LastRow(begin)
<1>1. begin \in Nat /\ begin < Vocab
  BY DEF ArgmaxInv, ArgmaxTypeOK, TeamOK
<1>2. PICK size \in TeamSizes(begin) :
         /\ team \in [1 .. size -> WorkerType]
         /\ \A t \in 1 .. size :
              WorkerOK(team[t], ShareBegin(begin, size, t), ShareBegin(begin, size, t + 1))
  BY DEF ArgmaxInv, TeamOK
<1>3. size \in Nat \ {0}
  BY DEF TeamSizes, ArgmaxAssumption
<1>4. \A t \in 1 .. size :
         /\ ShareBegin(begin, size, t) \in Nat /\ ShareBegin(begin, size, t + 1) \in Nat
         /\ begin <= ShareBegin(begin, size, t)
         /\ ShareBegin(begin, size, t + 1) <= LastRow(begin)
  <2>1. TAKE t \in 1 .. size
  <2>2. t \in 1 .. size + 1 /\ t + 1 \in 1 .. size + 1
    BY <1>3
  <2>3. QED
    BY <1>1, <1>3, <2>2, Shares
<1>5. QED
  BY <1>1, <1>2, <1>3, <1>4

\* A row of a share is a row of the matrix.
LEMMA ShareRows ==
  ASSUME ArgmaxAssumption, begin \in Nat, begin < Vocab,
         NEW a \in Nat, NEW b \in Nat, b <= LastRow(begin)
  PROVE  a .. b - 1 \in SUBSET Rows
BY ChunkEnd DEF Rows, ArgmaxAssumption

LEMMA ScoreType ==
  ASSUME ArgmaxAssumption, ArgmaxInv
  PROVE  score \in [Rows -> Int]
BY DEF ArgmaxAssumption, ArgmaxInv, ArgmaxTypeOK

LEMMA ScanKeeps ==
  ASSUME ArgmaxAssumption, ArgmaxInv, NEW t \in DOMAIN team, Scan(t)
  PROVE  ArgmaxInv'
<1>1. team # <<>>
  OBVIOUS
<1>2. PICK size \in Nat \ {0} :
        /\ size \in TeamSizes(begin)
        /\ DOMAIN team = 1 .. size /\ team \in [1 .. size -> WorkerType]
        /\ \A u \in 1 .. size :
             /\ WorkerOK(team[u], ShareBegin(begin, size, u), ShareBegin(begin, size, u + 1))
             /\ ShareBegin(begin, size, u) \in Nat /\ ShareBegin(begin, size, u + 1) \in Nat
             /\ begin <= ShareBegin(begin, size, u)
             /\ ShareBegin(begin, size, u + 1) <= LastRow(begin)
  BY <1>1, TeamAtWork
<1>3. begin \in Nat /\ begin < Vocab /\ UNCHANGED <<score, begin, best, best_score>>
  BY <1>1, TeamAtWork DEF Scan
<1> DEFINE w == team[t]
           lo == ShareBegin(begin, size, t)
           hi == ShareBegin(begin, size, t + 1)
           row == IF Takes(w) THEN w.next ELSE w.local_best
           top == IF Takes(w) THEN score[w.next] ELSE w.local_score
           after == [w EXCEPT !.next = w.next + 1, !.local_best = row, !.local_score = top]
<1>4. /\ t \in 1 .. size /\ w \in WorkerType /\ WorkerOK(w, lo, hi)
      /\ lo \in Nat /\ hi \in Nat /\ begin <= lo /\ hi <= LastRow(begin)
  BY <1>2
<1>5. w.next < w.end /\ w.next \in Rows /\ ~w.merged /\ w.end = hi /\ lo <= w.next
  <2>1. w.next < w.end /\ w.end = hi /\ lo <= w.next /\ ~w.merged
    BY <1>4 DEF Scan, WorkerOK, WorkerType
  <2>2. QED
    BY <1>3, <1>4, <2>1, ChunkEnd DEF Rows, WorkerType, ArgmaxAssumption
<1>6. team' = [team EXCEPT ![t] = after]
  BY DEF Scan
<1>7. BestOf(lo .. w.next, row, top)
  <2>1. lo .. w.next - 1 \in SUBSET Rows
    BY <1>4, <1>5, ShareRows, <1>3, ChunkEnd DEF WorkerType, Rows
  <2>2. BestOf(lo .. w.next - 1, w.local_best, w.local_score)
    BY <1>4 DEF WorkerOK
  <2>3. (lo .. w.next - 1) \union {w.next} = lo .. w.next
    BY <1>4, <1>5 DEF WorkerType
  <2>4. \A r \in lo .. w.next - 1 : r < w.next
    BY <1>4 DEF WorkerType
  <2> HIDE DEF w, lo, hi
  <2>5. BestOf((lo .. w.next - 1) \union {w.next}, row, top)
    BY <1>4, <1>5, <2>1, <2>2, <2>4, ScoreType, BestWithRow DEF WorkerType, Takes
  <2>6. QED
    BY <2>3, <2>5
<1>8. /\ after \in WorkerType /\ ~after.merged /\ after.end = w.end
      /\ WorkerOK(after, lo, hi)
  <2>1. row \in Nat /\ top \in Int
    BY <1>4, <1>5, ScoreType DEF WorkerType, Rows
  <2> HIDE DEF w, lo, hi, row, top
  <2>2. after \in WorkerType /\ ~after.merged /\ after.end = w.end /\ after.next = w.next + 1
        /\ after.local_best = row /\ after.local_score = top
    <3>1. after.merged = w.merged /\ after.end = w.end /\ after.next = w.next + 1
      BY <1>4 DEF WorkerType
    <3>2. after.local_best = row /\ after.local_score = top
      BY <1>4 DEF WorkerType
    <3>3. after \in WorkerType
      <4> DEFINE n == w.next + 1
      <4>1. n \in Nat /\ after = [w EXCEPT !.next = n, !.local_best = row, !.local_score = top]
        BY <1>4 DEF WorkerType
      <4> HIDE DEF n, after
      <4>2. QED
        BY <1>4, <2>1, <4>1 DEF WorkerType
    <3>4. QED
      BY <1>5, <3>1, <3>2, <3>3
  <2>3. (w.next + 1) - 1 = w.next
    BY <1>4 DEF WorkerType
  <2> HIDE DEF after
  <2>4. BestOf(lo .. after.next - 1, after.local_best, after.local_score)
    BY <1>7, <2>2, <2>3
  <2>5. QED
    BY <1>4, <1>5, <2>2, <2>4 DEF WorkerOK, WorkerType
<1> HIDE DEF after, row, top
<1>9. TeamOK'
  <2>1. team' \in [1 .. size -> WorkerType]
    BY <1>2, <1>6, <1>8
  <2>2. \A u \in 1 .. size :
          WorkerOK(team[u], ShareBegin(begin, size, u), ShareBegin(begin, size, u + 1))'
    <3>1. TAKE u \in 1 .. size
    <3>2. CASE u = t
      <4>1. team'[u] = after
        BY <1>2, <1>6, <3>2
      <4>2. QED
        BY <1>3, <1>8, <3>2, <4>1 DEF WorkerOK, BestOf
    <3>3. CASE u # t
      <4>1. team'[u] = team[u]
        BY <1>2, <1>6, <3>3
      <4>2. QED
        BY <1>2, <1>3, <4>1 DEF WorkerOK, BestOf
    <3>4. QED
      BY <3>2, <3>3
  <2>3. size \in TeamSizes(begin)' /\ begin' < Vocab
    BY <1>2, <1>3 DEF TeamSizes, LastRow
  <2>4. QED
    BY <2>1, <2>2, <2>3 DEF TeamOK
<1>10. MergedShares' = MergedShares
  <2>1. DOMAIN team' = DOMAIN team
    BY <1>6
  <2>2. \A u \in DOMAIN team : team'[u].merged = team[u].merged /\ team'[u].end = team[u].end
    <3>1. after.merged = w.merged
      BY DEF after
    <3>2. QED
      BY <1>2, <1>6, <1>8, <3>1
  <2>3. QED
    BY <1>3, <2>1, <2>2 DEF MergedShares, Rows
<1>11. QED
  BY <1>3, <1>9, <1>10 DEF ArgmaxInv, ArgmaxTypeOK, BestOf

\* The rows merged, once thread t has merged its share.
LEMMA MergedShare ==
  ASSUME ArgmaxAssumption, ArgmaxInv, NEW t \in DOMAIN team, ~team[t].merged,
         team' = [team EXCEPT ![t].merged = TRUE], UNCHANGED <<score, begin>>,
         NEW size \in Nat \ {0}, DOMAIN team = 1 .. size, team \in [1 .. size -> WorkerType],
         ShareBegin(begin, size, t) \in Nat, team[t].end <= LastRow(begin),
         begin \in Nat, begin < Vocab
  PROVE  MergedShares' = MergedShares \union (ShareBegin(begin, size, t) .. team[t].end - 1)
<1>1. DOMAIN team' = 1 .. size
  OBVIOUS
<1>2. Cardinality(1 .. size) = size
  BY TeamSize
<1>3. MergedShares' = {r \in Rows :
                   \/ r < begin
                   \/ \E u \in 1 .. size :
                        /\ team'[u].merged /\ r < team'[u].end
                        /\ r >= ShareBegin(begin, size, u)}
  BY <1>1, <1>2 DEF MergedShares, Rows, ShareBegin, LastRow
<1>4. MergedShares = {r \in Rows :
                  \/ r < begin
                  \/ \E u \in 1 .. size :
                       /\ team[u].merged /\ r < team[u].end
                       /\ r >= ShareBegin(begin, size, u)}
  BY MergedRows
<1>5. /\ team'[t].merged /\ team'[t].end = team[t].end
      /\ \A u \in 1 .. size : team'[u].end = team[u].end
      /\ \A u \in 1 .. size : u # t => team'[u].merged = team[u].merged
  BY DEF WorkerType
<1>6. team[t].end \in Nat
  BY DEF WorkerType
<1>7. ShareBegin(begin, size, t) .. team[t].end - 1
        = {r \in Rows : r < team[t].end /\ r >= ShareBegin(begin, size, t)}
  BY <1>6, ChunkEnd DEF Rows, ArgmaxAssumption
<1> DEFINE first(u) == ShareBegin(begin, size, u)
<1> HIDE DEF first
<1>8. \A r \in Rows :
        (\E u \in 1 .. size : team'[u].merged /\ r < team'[u].end /\ r >= first(u))
        <=> \/ \E u \in 1 .. size : team[u].merged /\ r < team[u].end /\ r >= first(u)
            \/ r < team[t].end /\ r >= first(t)
  BY <1>5
<1>9. QED
  BY <1>3, <1>4, <1>7, <1>8 DEF first

LEMMA MergeKeeps ==
  ASSUME ArgmaxAssumption, ArgmaxInv, NEW t \in DOMAIN team, Merge(t)
  PROVE  ArgmaxInv'
<1>1. team # <<>>
  OBVIOUS
<1>2. PICK size \in Nat \ {0} :
        /\ size \in TeamSizes(begin)
        /\ DOMAIN team = 1 .. size /\ team \in [1 .. size -> WorkerType]
        /\ \A u \in 1 .. size :
             /\ WorkerOK(team[u], ShareBegin(begin, size, u), ShareBegin(begin, size, u + 1))
             /\ ShareBegin(begin, size, u) \in Nat /\ ShareBegin(begin, size, u + 1) \in Nat
             /\ begin <= ShareBegin(begin, size, u)
             /\ ShareBegin(begin, size, u + 1) <= LastRow(begin)
  BY <1>1, TeamAtWork
<1>3. begin \in Nat /\ begin < Vocab /\ UNCHANGED <<score, begin>>
  BY <1>1, TeamAtWork DEF Merge
<1> DEFINE w == team[t]
           lo == ShareBegin(begin, size, t)
           hi == ShareBegin(begin, size, t + 1)
<1>4. /\ t \in 1 .. size /\ w \in WorkerType /\ WorkerOK(w, lo, hi)
      /\ lo \in Nat /\ hi \in Nat /\ hi <= LastRow(begin)
      /\ w.next = hi /\ w.end = hi /\ ~w.merged
      /\ team' = [team EXCEPT ![t].merged = TRUE]
      /\ best' = (IF Wins(w) THEN w.local_best ELSE best)
      /\ best_score' = (IF Wins(w) THEN w.local_score ELSE best_score)
  BY <1>2 DEF Merge, WorkerOK
<1>5. MergedShares' = MergedShares \union (lo .. hi - 1)
  BY <1>2, <1>3, <1>4, MergedShare
<1>6. BestOf(MergedShares, best, best_score)'
  <2>1. BestOf(lo .. hi - 1, w.local_best, w.local_score)
    BY <1>4 DEF WorkerOK
  <2>2. BestOf(MergedShares, best, best_score) /\ best \in Nat /\ best_score \in Int
    BY DEF ArgmaxInv, ArgmaxTypeOK
  <2>3. lo .. hi - 1 \in SUBSET Rows /\ MergedShares \in SUBSET Rows
    BY <1>3, <1>4, ShareRows DEF MergedShares
  <2> HIDE DEF w, lo, hi
  <2>4. BestOf(MergedShares \union (lo .. hi - 1), best', best_score')
    BY <1>4, <2>1, <2>2, <2>3, ScoreType, BestWithShare
  <2>5. QED
    BY <1>3, <1>5, <2>4 DEF BestOf
<1>7. TeamOK'
  <2>1. team' \in [1 .. size -> WorkerType]
    BY <1>2, <1>4 DEF WorkerType
  <2>2. \A u \in 1 .. size :
          WorkerOK(team[u], ShareBegin(begin, size, u), ShareBegin(begin, size, u + 1))'
    <3>1. TAKE u \in 1 .. size
    <3>2. /\ team'[u].next = team[u].next /\ team'[u].end = team[u].end
          /\ team'[u].local_best = team[u].local_best
          /\ team'[u].local_score = team[u].local_score
          /\ team'[u].merged => (team[u].merged \/ u = t)
      BY <1>2, <1>4 DEF WorkerType
    <3>3. team[t].next = hi
      BY <1>4
    <3>4. WorkerOK(team[u], ShareBegin(begin, size, u), ShareBegin(begin, size, u + 1))
      BY <1>2
    <3> HIDE DEF w, lo
    <3>5. QED
      BY <1>3, <3>2, <3>3, <3>4 DEF WorkerOK, BestOf
  <2>3. size \in TeamSizes(begin)' /\ begin' < Vocab
    BY <1>2, <1>3 DEF TeamSizes, LastRow
  <2>4. QED
    BY <2>1, <2>2, <2>3 DEF TeamOK
<1>8. ArgmaxTypeOK'
  BY <1>3, <1>4 DEF ArgmaxInv, ArgmaxTypeOK, WorkerType
<1>9. QED
  BY <1>6, <1>7, <1>8 DEF ArgmaxInv

LEMMA CloseChunkKeeps ==
  ASSUME ArgmaxAssumption, ArgmaxInv, CloseChunk
  PROVE  ArgmaxInv'
<1>1. /\ team # <<>> /\ \A t \in DOMAIN team : team[t].merged
      /\ team' = <<>> /\ begin' = begin + Chunk /\ UNCHANGED <<score, best, best_score>>
  BY DEF CloseChunk
<1>2. PICK size \in Nat \ {0} :
        /\ DOMAIN team = 1 .. size
        /\ \A u \in 1 .. size :
             /\ WorkerOK(team[u], ShareBegin(begin, size, u), ShareBegin(begin, size, u + 1))
             /\ ShareBegin(begin, size, u) \in Nat /\ ShareBegin(begin, size, u + 1) \in Nat
             /\ begin <= ShareBegin(begin, size, u)
             /\ ShareBegin(begin, size, u + 1) <= LastRow(begin)
  BY <1>1, TeamAtWork
<1>3. begin \in Nat /\ begin < Vocab
  BY <1>1, TeamAtWork
<1>4. MergedShares = {r \in Rows : r < LastRow(begin)}
  <2>1. MergedShares = {r \in Rows :
                    \/ r < begin
                    \/ \E t \in 1 .. size :
                         /\ team[t].merged /\ r < team[t].end
                         /\ r >= ShareBegin(begin, size, t)}
    BY <1>2, MergedRows
  <2>2. \A t \in 1 .. size : team[t].merged /\ team[t].end = ShareBegin(begin, size, t + 1)
    BY <1>1, <1>2 DEF WorkerOK
  <2>3. \A r \in Rows : r < begin => r < LastRow(begin)
    BY <1>3, ChunkEnd DEF Rows
  <2>4. \A r \in Rows : begin <= r /\ r < LastRow(begin) =>
          \E t \in 1 .. size : ShareBegin(begin, size, t) <= r
                               /\ r < ShareBegin(begin, size, t + 1)
    BY <1>3, SharesCover DEF Rows
  <2>5. \A r \in Rows : \A t \in 1 .. size :
          r < ShareBegin(begin, size, t + 1) => r < LastRow(begin)
    <3>1. TAKE r \in Rows
    <3>2. TAKE t \in 1 .. size
    <3>3. /\ ShareBegin(begin, size, t + 1) \in Nat
          /\ ShareBegin(begin, size, t + 1) <= LastRow(begin)
      BY <1>2
    <3>4. LastRow(begin) \in Nat /\ r \in Int
      BY <1>3, ChunkEnd DEF Rows
    <3>5. QED
      BY <3>3, <3>4
  <2>6. \A r \in Rows : \A t \in 1 .. size :
          r >= ShareBegin(begin, size, t) <=> ShareBegin(begin, size, t) <= r
    OBVIOUS
  <2>7. \A r \in Rows : r < begin \/ begin <= r
    BY <1>3 DEF Rows
  <2>8. QED
    BY <2>1, <2>2, <2>3, <2>4, <2>5, <2>6, <2>7, Zenon
<1>5. MergedShares' = MergedShares
  <2>1. MergedShares' = {r \in Rows : r < begin + Chunk}
    BY <1>1 DEF MergedShares, Rows
  <2>2. \A r \in Rows : r < begin + Chunk <=> r < LastRow(begin)
    BY <1>3, ChunkEnd DEF Rows, ArgmaxAssumption
  <2>3. QED
    BY <1>4, <2>1, <2>2
<1>6. ArgmaxTypeOK' /\ TeamOK'
  BY <1>1, <1>3 DEF ArgmaxInv, ArgmaxTypeOK, TeamOK, ArgmaxAssumption
<1>7. QED
  BY <1>1, <1>5, <1>6 DEF ArgmaxInv, BestOf

\* At every moment each thread holds the best of the rows it has scanned and
\* the result is the best of the shares merged.
LEMMA ArgmaxInvariant ==
  ASSUME ArgmaxAssumption
  PROVE  ArgmaxSpec => []ArgmaxInv
<1>1. ArgmaxInit => ArgmaxInv
  BY InitIInv
<1>2. ArgmaxInv /\ [ArgmaxNext]_argmax_vars => ArgmaxInv'
  <2>1. SUFFICES ASSUME ArgmaxInv, [ArgmaxNext]_argmax_vars PROVE ArgmaxInv'
    OBVIOUS
  <2>2. CASE OpenChunk
    BY <2>1, <2>2, OpenChunkKeeps
  <2>3. CASE CloseChunk
    BY <2>1, <2>3, CloseChunkKeeps
  <2>4. ASSUME NEW t \in DOMAIN team, Scan(t) PROVE ArgmaxInv'
    BY <2>1, <2>4, ScanKeeps
  <2>5. ASSUME NEW t \in DOMAIN team, Merge(t) PROVE ArgmaxInv'
    BY <2>1, <2>5, MergeKeeps
  <2>6. CASE UNCHANGED argmax_vars
    <3>1. UNCHANGED <<score, begin, team, best, best_score>>
      BY <2>6 DEF argmax_vars
    <3>2. ArgmaxTypeOK'
      BY <2>1, <3>1 DEF ArgmaxInv, ArgmaxTypeOK
    <3>3. TeamOK'
      BY <2>1, <3>1 DEF ArgmaxInv, TeamOK, TeamSizes, WorkerOK, BestOf
    <3>4. BestOf(MergedShares, best, best_score)'
      BY <2>1, <3>1 DEF ArgmaxInv, MergedShares, BestOf
    <3>5. QED
      BY <3>2, <3>3, <3>4 DEF ArgmaxInv
  <2>7. QED
    BY <2>1, <2>2, <2>3, <2>4, <2>5, <2>6 DEF ArgmaxNext
<1>3. QED
  BY <1>1, <1>2, PTL DEF ArgmaxSpec

-----------------------------------------------------------------------------
(* The scan of the build without threads.                                  *)

\* The step of the scan: what row n - 1 makes of the result before it.
ScanRow(n, before) ==
  IF score[n - 1] > before.best_score
  THEN [best |-> n - 1, best_score |-> score[n - 1]] ELSE before

Scanned0 == [best |-> 0, best_score |-> NegInf]

\* g holds the results of the scan of up to n rows.
ScanUpTo(g, n) ==
  /\ g = [k \in 0 .. n |-> g[k]]
  /\ g[0] = Scanned0 /\ \A k \in 1 .. n : g[k] = ScanRow(k, g[k - 1])

LEMMA ScanUpToExists == \A n \in Nat : \E g : ScanUpTo(g, n)
<1> DEFINE T == {n \in Nat : ~ \E g : ScanUpTo(g, n)}
<1>1. SUFFICES ASSUME T # {} PROVE FALSE
  OBVIOUS
<1>2. PICK n \in T : \A m \in T : n <= m
  <2>1. T \in SUBSET Nat
    OBVIOUS
  <2> HIDE DEF T
  <2>2. QED
    BY <1>1, <2>1, LeastNatural
<1>3. n # 0
  <2>1. ScanUpTo([k \in 0 .. 0 |-> Scanned0], 0)
    BY DEF ScanUpTo
  <2>2. QED
    BY <2>1, <1>2
<1>4. n \in Nat /\ n - 1 \in Nat /\ n - 1 \notin T
  BY <1>2, <1>3
<1>5. PICK g : ScanUpTo(g, n - 1)
  BY <1>4
<1> DEFINE h == [k \in 0 .. n |-> IF k = n THEN ScanRow(n, g[n - 1]) ELSE g[k]]
<1>6. ScanUpTo(h, n)
  <2>1. h = [k \in 0 .. n |-> h[k]] /\ h[0] = Scanned0
    BY <1>3, <1>4, <1>5 DEF ScanUpTo
  <2>2. \A k \in 1 .. n : h[k] = ScanRow(k, h[k - 1])
    <3>1. TAKE k \in 1 .. n
    <3>2. h[k - 1] = g[k - 1]
      BY <1>4
    <3>3. CASE k = n
      BY <1>4, <3>2, <3>3
    <3>4. CASE k # n
      <4>1. k \in 1 .. n - 1 /\ h[k] = g[k]
        BY <1>4, <3>4
      <4> HIDE DEF h
      <4>2. QED
        BY <1>5, <3>2, <4>1 DEF ScanUpTo
    <3>5. QED
      BY <3>3, <3>4
  <2> HIDE DEF h
  <2>3. QED
    BY <2>1, <2>2 DEF ScanUpTo
<1>7. QED
  BY <1>2, <1>6

LEMMA ScanUpToAgree ==
  ASSUME NEW n \in Nat, NEW m \in 0 .. n, NEW g, NEW h, ScanUpTo(g, n), ScanUpTo(h, m)
  PROVE  \A k \in 0 .. m : g[k] = h[k]
<1> DEFINE T == {k \in 0 .. m : g[k] # h[k]}
<1>1. SUFFICES ASSUME T # {} PROVE FALSE
  OBVIOUS
<1>2. PICK k \in T : \A l \in T : k <= l
  <2>1. T \in SUBSET Nat
    OBVIOUS
  <2> HIDE DEF T
  <2>2. QED
    BY <1>1, <2>1, LeastNatural
<1>3. k # 0
  BY <1>2 DEF ScanUpTo
<1>4. k \in 1 .. m /\ k \in 1 .. n /\ k - 1 \in 0 .. m /\ ~(k <= k - 1)
  BY <1>2, <1>3
<1>5. g[k - 1] = h[k - 1]
  BY <1>2, <1>4
<1>6. g[k] = h[k]
  BY <1>4, <1>5 DEF ScanUpTo
<1>7. QED
  BY <1>2, <1>6

\* PlainScan satisfies its own equation: there is a function that does.
LEMMA PlainScanSteps ==
  \A n \in Nat : PlainScan[n] = IF n = 0 THEN Scanned0 ELSE ScanRow(n, PlainScan[n - 1])
<1> DEFINE G(n) == CHOOSE g : ScanUpTo(g, n)
           F == [n \in Nat |-> G(n)[n]]
<1>1. \A n \in Nat : ScanUpTo(G(n), n)
  BY ScanUpToExists
<1>2. \A n \in Nat : F[n] = IF n = 0 THEN Scanned0 ELSE ScanRow(n, F[n - 1])
  <2>1. TAKE n \in Nat
  <2>2. CASE n = 0
    BY <1>1, <2>2 DEF ScanUpTo
  <2>3. CASE n # 0
    <3>1. n - 1 \in Nat /\ n - 1 \in 0 .. n /\ n - 1 \in 0 .. n - 1 /\ n \in 1 .. n
      BY <2>3
    <3>2. G(n)[n] = ScanRow(n, G(n)[n - 1])
      BY <1>1, <3>1 DEF ScanUpTo
    <3>3. G(n)[n - 1] = G(n - 1)[n - 1]
      <4> HIDE DEF G
      <4>1. ScanUpTo(G(n), n) /\ ScanUpTo(G(n - 1), n - 1)
        BY <1>1, <3>1
      <4>2. \A k \in 0 .. n - 1 : G(n)[k] = G(n - 1)[k]
        BY <4>1, <3>1, ScanUpToAgree
      <4>3. QED
        BY <4>2, <3>1
    <3>4. QED
      BY <2>3, <3>1, <3>2, <3>3
  <2>4. QED
    BY <2>2, <2>3
<1> DEFINE Rule(f, n) == IF n = 0 THEN [best |-> 0, best_score |-> NegInf]
                         ELSE IF score[n - 1] > f[n - 1].best_score
                              THEN [best |-> n - 1, best_score |-> score[n - 1]] ELSE f[n - 1]
<1>3. F = [n \in Nat |-> Rule(F, n)]
  <2>1. F = [n \in Nat |-> F[n]]
    OBVIOUS
  <2>2. \A n \in Nat : F[n] = Rule(F, n)
    BY <1>2 DEF ScanRow, Scanned0
  <2> HIDE DEF F, Rule
  <2>3. QED
    BY <2>1, <2>2
<1>4. PlainScan = CHOOSE f : f = [n \in Nat |-> Rule(f, n)]
  BY DEF PlainScan
<1>5. PlainScan = [n \in Nat |-> Rule(PlainScan, n)]
  <2> HIDE DEF F, Rule
  <2>1. \E f : f = [n \in Nat |-> Rule(f, n)]
    BY <1>3
  <2>2. QED
    BY <1>4, <2>1
<1>6. QED
  <2>1. \A n \in Nat : PlainScan[n] = Rule(PlainScan, n)
    <3> HIDE DEF Rule
    <3>1. QED
      BY <1>5
  <2>2. QED
    BY <2>1 DEF ScanRow, Scanned0

\* The scan of n rows holds the best of them.
LEMMA PlainScanBest ==
  ASSUME ArgmaxAssumption, score \in [Rows -> Int]
  PROVE  \A n \in 0 .. Vocab : \E row \in Nat, s \in Int :
           /\ PlainScan[n] = [best |-> row, best_score |-> s]
           /\ BestOf(0 .. n - 1, row, s)
<1> DEFINE Holds(n, row, s) == /\ PlainScan[n] = [best |-> row, best_score |-> s]
                               /\ BestOf(0 .. n - 1, row, s)
           T == {n \in 0 .. Vocab : ~ \E row \in Nat, s \in Int : Holds(n, row, s)}
<1>1. SUFFICES ASSUME T # {} PROVE FALSE
  OBVIOUS
<1>2. PICK n \in T : \A m \in T : n <= m
  <2>1. T \in SUBSET Nat
    BY DEF ArgmaxAssumption
  <2> HIDE DEF T
  <2>2. QED
    BY <1>1, <2>1, LeastNatural
<1>3. Vocab \in Nat /\ n \in Nat
  BY <1>2 DEF ArgmaxAssumption
<1>4. n # 0
  <2>1. PlainScan[0] = [best |-> 0, best_score |-> NegInf]
    BY PlainScanSteps DEF Scanned0
  <2>2. Holds(0, 0, NegInf) /\ 0 \in Nat /\ NegInf \in Int
    BY <2>1 DEF BestOf, NegInf
  <2>3. QED
    BY <1>2, <2>2
<1>5. n - 1 \in 0 .. Vocab /\ n - 1 \notin T /\ n - 1 \in Rows
  <2>1. n \in 1 .. Vocab /\ n - 1 \in 0 .. Vocab /\ n - 1 \in Rows /\ ~(n <= n - 1)
    BY <1>2, <1>3, <1>4 DEF Rows
  <2> HIDE DEF T
  <2>2. QED
    BY <1>2, <2>1
<1>6. PICK row \in Nat, s \in Int : Holds(n - 1, row, s)
  BY <1>5
<1> DEFINE r == n - 1
           row2 == IF score[r] > s THEN r ELSE row
           s2 == IF score[r] > s THEN score[r] ELSE s
<1>7. PlainScan[n] = [best |-> row2, best_score |-> s2]
  <2>1. PlainScan[n] = ScanRow(n, [best |-> row, best_score |-> s])
    BY <1>3, <1>4, <1>6, PlainScanSteps
  <2>2. QED
    BY <2>1 DEF ScanRow
<1>8. BestOf(0 .. n - 1, row2, s2)
  <2>1. 0 .. r - 1 \in SUBSET Rows /\ r \in Rows /\ score[r] \in Int
    BY <1>3, <1>5 DEF Rows
  <2>2. BestOf(0 .. r - 1, row, s)
    BY <1>6
  <2>3. 0 .. n - 1 = (0 .. r - 1) \union {r} /\ \A k \in 0 .. r - 1 : k < r
    BY <1>3, <1>4
  <2> HIDE DEF r
  <2>4. BestOf((0 .. r - 1) \union {r}, row2, s2)
    BY <1>6, <2>1, <2>2, <2>3, BestWithRow
  <2>5. QED
    BY <2>3, <2>4
<1>9. row2 \in Nat /\ s2 \in Int
  BY <1>3, <1>5
<1>10. QED
  <2>1. Holds(n, row2, s2)
    BY <1>7, <1>8
  <2> HIDE DEF Holds, row2, s2
  <2>2. QED
    BY <1>2, <1>9, <2>1

-----------------------------------------------------------------------------
(* The results.                                                            *)

\* Whatever order the threads merge in, the result is at every moment the
\* lowest row with the greatest score among the shares merged so far.
THEOREM ArgmaxBestOfMerged ==
  ASSUME ArgmaxAssumption
  PROVE  ArgmaxSpec => []BestOfMerged
<1>1. ArgmaxInv => BestOfMerged
  <2>1. SUFFICES ASSUME ArgmaxInv PROVE BestOfMerged
    OBVIOUS
  <2> DEFINE scored == {r \in MergedShares : score[r] > NegInf}
             top == {r \in scored : \A s \in scored : score[r] >= score[s]}
  <2>2. BestOf(MergedShares, best, best_score) /\ MergedShares \in SUBSET Rows /\ score \in [Rows -> Int]
    BY <2>1, ScoreType DEF ArgmaxInv, MergedShares
  <2>3. \A r \in MergedShares : r \in Int /\ score[r] \in Int
    BY <2>2 DEF Rows
  <2>4. CASE scored = {}
    <3>1. \A r \in MergedShares : ~(score[r] > NegInf)
      BY <2>4
    <3>2. best = 0 /\ best_score = NegInf
      BY <2>2, <3>1 DEF BestOf
    <3>3. QED
      BY <2>4, <3>2 DEF BestOfMerged
  <2>5. CASE scored # {}
    <3>1. /\ best \in MergedShares /\ best_score = score[best] /\ best_score > NegInf
          /\ \A r \in MergedShares : score[r] < best_score \/ (score[r] = best_score /\ best <= r)
      BY <2>2, <2>3, <2>5 DEF BestOf, NegInf
    <3>2. best \in top /\ top \in SUBSET Int /\ \A r \in top : best <= r
      BY <2>3, <3>1
    <3>3. Min(top) = best
      <4> HIDE DEF top
      <4>1. QED
        BY <3>2, MinIsLeast
    <3>4. QED
      BY <2>5, <3>1, <3>3 DEF BestOfMerged
  <2>6. QED
    BY <2>4, <2>5
<1>2. QED
  BY <1>1, ArgmaxInvariant, PTL

\* Threads, team sizes and chunks do not change the token: when every chunk is
\* done the result is the one of the build without threads.
THEOREM ArgmaxSameAsPlainBuild ==
  ASSUME ArgmaxAssumption
  PROVE  ArgmaxSpec => []SameAsPlainBuild
<1>1. ArgmaxInv => SameAsPlainBuild
  <2>1. SUFFICES ASSUME ArgmaxInv, Worked
                 PROVE  [best |-> best, best_score |-> best_score] = PlainScan[Vocab]
    BY DEF SameAsPlainBuild
  <2>2. Vocab \in Nat /\ begin \in Nat /\ score \in [Rows -> Int]
    BY <2>1, ScoreType DEF ArgmaxInv, ArgmaxTypeOK, ArgmaxAssumption
  <2>3. MergedShares = Rows
    <3>1. MergedShares = {r \in Rows : r < begin}
      BY <2>1, MergedRows DEF Worked
    <3>2. \A r \in Rows : r < begin
      BY <2>1, <2>2 DEF Worked, Rows
    <3>3. QED
      BY <3>1, <3>2
  <2>4. BestOf(Rows, best, best_score)
    BY <2>1, <2>3 DEF ArgmaxInv
  <2>5. PICK row \in Nat, s \in Int : /\ PlainScan[Vocab] = [best |-> row, best_score |-> s]
                                      /\ BestOf(Rows, row, s)
    <3>1. Vocab \in 0 .. Vocab /\ Rows = 0 .. Vocab - 1
      BY <2>2 DEF Rows
    <3>2. QED
      BY <2>2, <3>1, PlainScanBest
  <2>6. best = row /\ best_score = s
    BY <2>2, <2>4, <2>5, BestUnique
  <2>7. QED
    BY <2>5, <2>6
<1>2. QED
  BY <1>1, ArgmaxInvariant, PTL

\* Both together: at every moment the best of what was merged, in the end the
\* token of the build without threads.
THEOREM ArgmaxGreedyExact ==
  ASSUME ArgmaxAssumption
  PROVE  ArgmaxSpec => []GreedyExact
<1>1. BestOfMerged /\ SameAsPlainBuild => GreedyExact
  BY DEF GreedyExact
<1>2. QED
  BY <1>1, ArgmaxBestOfMerged, ArgmaxSameAsPlainBuild, PTL

-----------------------------------------------------------------------------
(* The tables of the tokenizer.                                            *)

Slots(n) == 0 .. n - 1

\* A remainder of less than twice the divisor.
LEMMA Modulo ==
  ASSUME NEW n \in Nat \ {0}, NEW a \in Nat, a < 2 * n
  PROVE  a % n = IF a < n THEN a ELSE a - n
OBVIOUS

\* Distances from a home tell the slots apart, and reach each of them.
LEMMA Distances ==
  ASSUME NEW n \in Nat \ {0}, NEW start \in Slots(n)
  PROVE  /\ \A s \in Slots(n) : Away(n, start, s) \in Slots(n)
         /\ \A s, t \in Slots(n) : Away(n, start, s) = Away(n, start, t) => s = t
BY DEF Away, Slots

\* A walk of i steps arrives at distance i.
LEMMA Steps ==
  ASSUME NEW n \in Nat \ {0}, NEW start \in Slots(n), NEW i \in Slots(n)
  PROVE  /\ (start + i) % n \in Slots(n)
         /\ Away(n, start, (start + i) % n) = i
<1>1. (start + i) % n = IF start + i < n THEN start + i ELSE start + i - n
  <2>1. PICK a \in Nat : a = start + i /\ a < 2 * n
    BY DEF Slots
  <2>2. a % n = IF a < n THEN a ELSE a - n
    BY <2>1, Modulo
  <2>3. QED
    BY <2>1, <2>2 DEF Slots
<1> DEFINE s == (start + i) % n
<1> HIDE DEF s
<1>2. s = IF start + i < n THEN start + i ELSE start + i - n
  BY <1>1 DEF s
<1>3. s \in Slots(n) /\ Away(n, start, s) = i
  BY <1>2 DEF Slots, Away
<1>4. QED
  BY <1>3 DEF s

\* A slot is reached by as many steps as it is away.
LEMMA SlotReached ==
  ASSUME NEW n \in Nat \ {0}, NEW start \in Slots(n), NEW s \in Slots(n)
  PROVE  (start + Away(n, start, s)) % n = s
<1>1. Away(n, start, s) \in Slots(n)
  BY Distances
<1>2. QED
  BY <1>1, Steps, Distances

\* The distance computed with a remainder, for two slots of the table.
LEMMA DistanceIsAway ==
  ASSUME hash_cap \in Nat \ {0}, NEW start \in Slots(hash_cap), NEW s \in Slots(hash_cap)
  PROVE  Distance(start, s) = Away(hash_cap, start, s)
<1> DEFINE a == s - start + hash_cap
<1>1. a \in Nat /\ a < 2 * hash_cap
  BY DEF Slots
<1>2. Distance(start, s) = a % hash_cap
  BY DEF Distance
<1> HIDE DEF a
<1>3. a % hash_cap = IF a < hash_cap THEN a ELSE a - hash_cap
  BY <1>1, Modulo
<1>4. QED
  BY <1>2, <1>3 DEF Away, Slots, a

\* The slots on the way to s are taken, s with them.
InReach(n, taken, start, s) ==
  \A t \in Slots(n) : Away(n, start, t) <= Away(n, start, s) => t \in taken

\* A walk visits the slots that are in reach, and no others.
LEMMA WalkIsReach ==
  ASSUME hash_cap \in Nat \ {0}, NEW tab, NEW start \in Slots(hash_cap)
  PROVE  Walk(tab, start)
           = {s \in Slots(hash_cap) : InReach(hash_cap, DOMAIN tab, start, s)}
<1> DEFINE n == hash_cap
           Reached == {j \in 0 .. n - 1 : \A k \in 0 .. j : Slot(start, k) \in DOMAIN tab}
<1>1. Walk(tab, start) = {Slot(start, i) : i \in Reached}
  BY DEF Walk
<1>2. ASSUME NEW i \in Reached
      PROVE  Slot(start, i) \in Slots(n) /\ InReach(n, DOMAIN tab, start, Slot(start, i))
  <2>1. i \in Slots(n)
    BY DEF Slots
  <2>2. /\ Slot(start, i) \in Slots(n)
        /\ Away(n, start, Slot(start, i)) = i
    BY <2>1, Steps DEF Slot
  <2>3. ASSUME NEW t \in Slots(n), Away(n, start, t) <= i PROVE t \in DOMAIN tab
    <3>1. Away(n, start, t) \in 0 .. i
      BY <2>3, Distances DEF Slots
    <3>2. Slot(start, Away(n, start, t)) = t
      BY SlotReached DEF Slot
    <3>3. QED
      BY <3>1, <3>2
  <2>4. QED
    BY <2>2, <2>3 DEF InReach
<1>3. ASSUME NEW s \in Slots(n), InReach(n, DOMAIN tab, start, s)
      PROVE  \E i \in Reached : s = Slot(start, i)
  <2> DEFINE i == Away(n, start, s)
  <2>1. i \in Slots(n) /\ s = Slot(start, i)
    BY Distances, SlotReached DEF Slot
  <2>2. ASSUME NEW k \in 0 .. i PROVE Slot(start, k) \in DOMAIN tab
    <3>1. k \in Slots(n) /\ k <= i
      BY <2>1 DEF Slots
    <3>2. Slot(start, k) \in Slots(n) /\ Away(n, start, Slot(start, k)) = k
      BY <3>1, Steps DEF Slot
    <3>3. QED
      BY <1>3, <3>1, <3>2 DEF InReach
  <2>3. i \in Reached
    BY <2>1, <2>2 DEF Slots
  <2>4. QED
    BY <2>1, <2>3
<1> HIDE DEF Reached
<1>4. QED
  BY <1>1, <1>2, <1>3

\* The nearest of some slots.
LEMMA NearestSlot ==
  ASSUME hash_cap \in Nat \ {0}, NEW start \in Slots(hash_cap),
         NEW slots \in SUBSET Slots(hash_cap), slots # {}
  PROVE  /\ First(slots, start) \in slots
         /\ \A t \in slots : Away(hash_cap, start, First(slots, start))
                               <= Away(hash_cap, start, t)
<1> DEFINE n == hash_cap
           T == {Away(n, start, s) : s \in slots}
<1>1. T \in SUBSET Nat /\ T # {}
  <2>1. \A s \in slots : Away(n, start, s) \in Slots(n)
    BY Distances
  <2>2. \A s \in slots : Away(n, start, s) \in Nat
    BY <2>1 DEF Slots
  <2>3. QED
    BY <2>2
<1>2. PICK x \in T : \A y \in T : x <= y
  <2> HIDE DEF T
  <2>1. QED
    BY <1>1, LeastNatural
<1>3. PICK s \in slots : x = Away(n, start, s)
  OBVIOUS
<1>4. \A t \in slots : Away(n, start, s) <= Away(n, start, t)
  BY <1>2, <1>3
<1>5. \A t \in slots : Distance(start, t) = Away(n, start, t)
  BY DistanceIsAway
<1>6. \A t \in slots : Distance(start, s) <= Distance(start, t)
  BY <1>4, <1>5
<1>7. /\ First(slots, start) \in slots
      /\ \A t \in slots :
           Distance(start, First(slots, start)) <= Distance(start, t)
  BY <1>6 DEF First
<1>8. QED
  BY <1>5, <1>7

\* It is the only one.
LEMMA NearestIs ==
  ASSUME hash_cap \in Nat \ {0}, NEW start \in Slots(hash_cap),
         NEW slots \in SUBSET Slots(hash_cap), NEW s \in slots,
         \A t \in slots : t # s => Away(hash_cap, start, s) < Away(hash_cap, start, t)
  PROVE  First(slots, start) = s
<1> DEFINE f == First(slots, start)
<1>1. f \in slots /\ Away(hash_cap, start, f) <= Away(hash_cap, start, s)
  BY NearestSlot
<1> HIDE DEF f
<1>2. Away(hash_cap, start, f) \in Int /\ Away(hash_cap, start, s) \in Int
  <2>1. f \in Slots(hash_cap) /\ s \in Slots(hash_cap)
    BY <1>1
  <2>2. QED
    BY <2>1, Distances DEF Slots
<1>3. f = s
  BY <1>1, <1>2
<1>4. QED
  BY <1>3 DEF f

\* An entry with a number above all others goes to the nearest free slot.
LEMMA ProbedWithEntry ==
  ASSUME NEW n \in Nat \ {0}, NEW taken \in SUBSET Slots(n), NEW start \in Slots(n),
         NEW f \in Slots(n) \ taken,
         \A t \in Slots(n) \ taken : Away(n, start, f) <= Away(n, start, t),
         NEW from, NEW number, NEW from2, NEW number2, NEW k \in Nat,
         \A s \in taken : from[s] \in Slots(n) /\ number[s] \in Nat /\ number[s] < k,
         \A s \in taken : from2[s] = from[s] /\ number2[s] = number[s],
         from2[f] = start, number2[f] = k,
         Probed(n, taken, from, number)
  PROVE  Probed(n, taken \union {f}, from2, number2)
<1> DEFINE all == taken \union {f}
<1>1. ASSUME NEW s \in all, NEW t \in Slots(n),
             Away(n, from2[s], t) <= Away(n, from2[s], s)
      PROVE  t \in all
  <2>1. CASE s = f
    <3>1. Away(n, start, t) \in Int /\ Away(n, start, f) \in Int
      BY Distances DEF Slots
    <3>2. t \in taken \/ Away(n, start, t) = Away(n, start, f)
      BY <1>1, <2>1, <3>1
    <3>3. QED
      BY <3>2, Distances
  <2>2. CASE s \in taken
    BY <1>1, <2>2 DEF Probed, Slots
  <2>3. QED
    BY <2>1, <2>2
<1>2. ASSUME NEW s \in all, NEW t \in all, from2[s] = from2[t], number2[s] < number2[t]
      PROVE  Away(n, from2[s], s) < Away(n, from2[s], t)
  <2>1. CASE s \in taken /\ t \in taken
    BY <1>2, <2>1 DEF Probed
  <2>2. CASE s \in taken /\ t = f
    <3>1. from2[s] = start /\ from[s] = start
      BY <1>2, <2>2
    <3>2. Away(n, start, s) \in Int /\ Away(n, start, f) \in Int
      BY <2>2, Distances DEF Slots
    <3>3. ~(Away(n, start, f) <= Away(n, start, s))
      BY <2>2, <3>1 DEF Probed, Slots
    <3>4. QED
      BY <2>2, <3>1, <3>2, <3>3
  <2>3. CASE s = f
    <3>1. CASE t = f
      BY <1>2, <2>3, <3>1
    <3>2. CASE t \in taken
      BY <1>2, <2>3, <3>2
    <3>3. QED
      BY <3>1, <3>2
  <2>4. QED
    BY <2>1, <2>2, <2>3
<1>3. ASSUME NEW s \in all, NEW t \in all, number2[s] = number2[t]
      PROVE  s = t
  <2>1. CASE s \in taken /\ t \in taken
    BY <1>3, <2>1 DEF Probed
  <2>2. CASE s = f \/ t = f
    BY <1>3, <2>2
  <2>3. QED
    BY <2>1, <2>2
<1>4. QED
  BY <1>1, <1>2, <1>3 DEF Probed, Slots

-----------------------------------------------------------------------------
(* The size of the tables.                                                 *)

DoublingRule(f, n) ==
  [k \in 0 .. n |-> IF k = 0 THEN 1 ELSE IF f[k - 1] < n THEN 2 * f[k - 1] ELSE f[k - 1]]

\* The recursive definition of NextPow2 has a solution.
LEMMA DoublingExists ==
  ASSUME NEW n \in Nat
  PROVE  \E f : f = DoublingRule(f, n)
<1> DEFINE step == [x \in Nat \X (1 .. n) |-> IF x[1] < n THEN 2 * x[1] ELSE x[1]]
<1>1. step \in StepFunctions(Nat, n)
  BY DEF StepFunctions
<1>2. PICK f : Unrolls(f, Nat, 1, n, step)
  <2> HIDE DEF step
  <2>1. QED
    BY <1>1, Recursion
<1>3. \A k \in 1 .. n : f[k] = IF f[k - 1] < n THEN 2 * f[k - 1] ELSE f[k - 1]
  <2>1. TAKE k \in 1 .. n
  <2>2. f[k - 1] \in Nat
    BY <1>2 DEF Unrolls
  <2>3. step[<<f[k - 1], k>>] = IF f[k - 1] < n THEN 2 * f[k - 1] ELSE f[k - 1]
    BY <2>2
  <2> HIDE DEF step
  <2>4. QED
    BY <1>2, <2>3 DEF Unrolls
<1>4. f = DoublingRule(f, n)
  <2> HIDE DEF step
  <2>1. QED
    BY <1>2, <1>3 DEF Unrolls, DoublingRule
<1>5. QED
  BY <1>4

\* The doubled power is at least the number it is wanted for.
LEMMA PowerReaches ==
  ASSUME NEW n \in Nat
  PROVE  NextPow2(n) \in Nat \ {0} /\ n <= NextPow2(n)
<1>1. PICK F : F = DoublingRule(F, n) /\ NextPow2(n) = F[n]
  <2> DEFINE F == CHOOSE f : f = DoublingRule(f, n)
  <2>1. NextPow2(n) = F[n]
    BY DEF NextPow2, DoublingRule
  <2> HIDE DEF F
  <2>2. F = DoublingRule(F, n)
    BY DoublingExists, Zenon DEF F
  <2>3. QED
    BY <2>1, <2>2
<1>2. \A k \in 0 .. n :
        F[k] = IF k = 0 THEN 1 ELSE IF F[k - 1] < n THEN 2 * F[k - 1] ELSE F[k - 1]
  <2>1. ASSUME NEW k \in 0 .. n
        PROVE  DoublingRule(F, n)[k]
                 = IF k = 0 THEN 1 ELSE IF F[k - 1] < n THEN 2 * F[k - 1] ELSE F[k - 1]
    BY DEF DoublingRule
  <2>2. QED
    BY <1>1, <2>1
<1> DEFINE S == {k \in 0 .. n : F[k] \in Nat \ {0} /\ (F[k] >= n \/ F[k] > k)}
<1>3. 0 \in S
  BY <1>2
<1>4. ASSUME NEW k \in 1 .. n, k - 1 \in S PROVE k \in S
  <2>1. F[k] = IF F[k - 1] < n THEN 2 * F[k - 1] ELSE F[k - 1]
    BY <1>2
  <2>2. QED
    BY <1>4, <2>1
<1>5. \A k \in 0 .. n : k \in S
  <2> HIDE DEF S
  <2>1. QED
    BY <1>3, <1>4, UpTo
<1>6. n \in S
  BY <1>5
<1>7. F[n] \in Nat \ {0} /\ n <= F[n]
  BY <1>6
<1>8. QED
  BY <1>1, <1>7

\* The larger of two numbers.
LEMMA MaxOfTwo ==
  ASSUME NEW a \in Int, NEW b \in Int
  PROVE  Max({a, b}) = IF a >= b THEN a ELSE b
BY DEF Max

\* A table has more slots than there are pieces, and more than there are lines.
LEMMA TableHasRoom ==
  ASSUME IndexAssumption, NEW a \in Nat \ {0}, NEW b \in Nat
  PROVE  /\ TableSize(a, b) \in Nat \ {0}
         /\ a < TableSize(a, b) /\ b < TableSize(a, b)
<1> DEFINE most == Max({a, b})
           power == NextPow2(2 * most)
<1>1. most \in Nat \ {0} /\ a <= most /\ b <= most
  BY MaxOfTwo
<1> HIDE DEF most
<1>2. power \in Nat \ {0} /\ 2 * most <= power
  BY <1>1, PowerReaches
<1> HIDE DEF power
<1>3. TableSize(a, b) = Max({MinCap, power})
  BY DEF TableSize, most, power
<1>4. MinCap \in Nat \ {0}
  BY DEF IndexAssumption
<1>5. Max({MinCap, power}) = IF MinCap >= power THEN MinCap ELSE power
  BY <1>2, <1>4, MaxOfTwo
<1>6. QED
  BY <1>1, <1>2, <1>3, <1>4, <1>5

\* Fewer numbers than slots leave a slot empty.
LEMMA SlotIsLeft ==
  ASSUME NEW n \in Nat, NEW k \in Nat, k < n, NEW taken \in SUBSET Slots(n), NEW number,
         \A s \in taken : number[s] \in Slots(k),
         \A s, t \in taken : number[s] = number[t] => s = t
  PROVE  Slots(n) \ taken # {}
<1> SUFFICES ASSUME taken = Slots(n) PROVE FALSE
  OBVIOUS
<1>1. /\ IsFiniteSet(Slots(n)) /\ Cardinality(Slots(n)) = n
      /\ IsFiniteSet(Slots(k)) /\ Cardinality(Slots(k)) = k
  <2>1. /\ IsFiniteSet(0 .. n - 1) /\ Cardinality(0 .. n - 1) = IF 0 > n - 1 THEN 0 ELSE n - 1 - 0 + 1
        /\ IsFiniteSet(0 .. k - 1) /\ Cardinality(0 .. k - 1) = IF 0 > k - 1 THEN 0 ELSE k - 1 - 0 + 1
    BY FS_Interval
  <2>2. QED
    BY <2>1 DEF Slots
<1> DEFINE f == [s \in Slots(n) |-> number[s]]
<1>2. f \in [Slots(n) -> Slots(k)]
  OBVIOUS
<1> HIDE DEF f
<1>3. PICK s \in Slots(n), t \in Slots(n) : s # t /\ f[s] = f[t]
  BY <1>1, <1>2, FS_PigeonHole
<1>4. QED
  BY <1>3 DEF f

\* An entry goes to the nearest free slot, and the others stay.
LEMMA PutFills ==
  ASSUME hash_cap \in Nat \ {0}, NEW tab, DOMAIN tab \subseteq Slots(hash_cap),
         NEW start \in Slots(hash_cap), NEW entry, Slots(hash_cap) \ DOMAIN tab # {}
  PROVE  \E f \in Slots(hash_cap) \ DOMAIN tab :
           /\ DOMAIN Put(tab, start, entry) = DOMAIN tab \union {f}
           /\ Put(tab, start, entry)[f] = entry
           /\ \A s \in DOMAIN tab : Put(tab, start, entry)[s] = tab[s]
           /\ \A t \in Slots(hash_cap) \ DOMAIN tab :
                Away(hash_cap, start, f) <= Away(hash_cap, start, t)
<1> DEFINE free == Slots(hash_cap) \ DOMAIN tab
           f == First(free, start)
<1>1. Put(tab, start, entry)
        = [s \in DOMAIN tab \union {f} |-> IF s = f THEN entry ELSE tab[s]]
  BY DEF Put, Slots
<1>2. f \in free /\ \A t \in free : Away(hash_cap, start, f) <= Away(hash_cap, start, t)
  BY NearestSlot
<1> HIDE DEF f
<1>3. QED
  BY <1>1, <1>2

-----------------------------------------------------------------------------
(* Ids and lookups.                                                        *)

\* The first id of a piece.
LEMMA FirstIdIs ==
  ASSUME vocab \in Seq(Pieces), NEW piece
  PROVE  IF \E i \in 1 .. Len(vocab) : vocab[i] = piece
         THEN /\ FirstId(piece) \in 0 .. Len(vocab) - 1
              /\ vocab[FirstId(piece) + 1] = piece
              /\ \A i \in 1 .. Len(vocab) : vocab[i] = piece => FirstId(piece) <= i - 1
         ELSE FirstId(piece) = None
<1> DEFINE ids == {i \in DOMAIN vocab : vocab[i] = piece}
<1>1. Len(vocab) \in Nat /\ DOMAIN vocab = 1 .. Len(vocab)
  OBVIOUS
<1>2. CASE ids = {}
  <2>1. ~ \E i \in 1 .. Len(vocab) : vocab[i] = piece
    BY <1>1, <1>2
  <2>2. QED
    BY <1>2, <2>1 DEF FirstId
<1>3. CASE ids # {}
  <2>1. ids \in SUBSET Nat
    BY <1>1
  <2>2. FirstId(piece) = Min(ids) - 1
    BY <1>3 DEF FirstId
  <2> HIDE DEF ids
  <2>3. PICK m \in ids : \A i \in ids : m <= i
    BY <1>3, <2>1, LeastNatural
  <2>4. Min(ids) \in ids /\ \A i \in ids : Min(ids) <= i
    BY <2>3 DEF Min
  <2>5. \A i \in ids : i \in 1 .. Len(vocab) /\ vocab[i] = piece
    BY <1>1 DEF ids
  <2>6. \A i \in 1 .. Len(vocab) : vocab[i] = piece => i \in ids
    BY <1>1 DEF ids
  <2> DEFINE least == Min(ids)
  <2>7. least \in 1 .. Len(vocab) /\ vocab[least] = piece
    BY <2>4, <2>5
  <2> HIDE DEF least
  <2>8. /\ least - 1 \in 0 .. Len(vocab) - 1 /\ (least - 1) + 1 = least
        /\ \A i \in 1 .. Len(vocab) : vocab[i] = piece => least - 1 <= i - 1
    BY <1>1, <2>4, <2>6, <2>7 DEF least
  <2>9. FirstId(piece) = least - 1
    BY <2>2 DEF least
  <2>10. \E i \in 1 .. Len(vocab) : vocab[i] = piece
    BY <2>7
  <2>11. QED
    BY <2>7, <2>8, <2>9, <2>10
<1>4. QED
  BY <1>2, <1>3

\* Every home is a slot of the table, whatever the hash functions.
LEMMA HomesAreSlots ==
  ASSUME IndexAssumption, IndexTypeOK, hash_cap \in Nat \ {0}
  PROVE  /\ \A piece \in Pieces : PieceHome(piece) \in Slots(hash_cap)
         /\ \A left, right \in Nat : PairHome(left, right) \in Slots(hash_cap)
<1>1. ASSUME NEW a \in Nat PROVE a % hash_cap \in Slots(hash_cap)
  BY DEF Slots
<1>2. ASSUME NEW piece \in Pieces PROVE PieceHome(piece) \in Slots(hash_cap)
  <2>1. home[piece] \in Nat
    BY DEF IndexTypeOK, IndexAssumption
  <2>2. hash_cap - 1 + home[piece] \in Nat
    BY <2>1
  <2>3. QED
    BY <1>1, <2>2 DEF PieceHome
<1>3. ASSUME NEW left \in Nat, NEW right \in Nat
      PROVE  PairHome(left, right) \in Slots(hash_cap)
  <2>1. spread * (left + 3 * right) \in Nat
    BY DEF IndexTypeOK
  <2>2. QED
    BY <1>1, <2>1 DEF PairHome
<1>4. QED
  BY <1>2, <1>3

\* What Probed says of a table, for the lemmas that look entries up.
LEMMA ProbedMeans ==
  ASSUME NEW n \in Nat \ {0}, NEW taken \in SUBSET Slots(n), NEW from, NEW number,
         \A s \in taken : from[s] \in Slots(n) /\ number[s] \in Nat,
         Probed(n, taken, from, number)
  PROVE  /\ \A s \in taken : InReach(n, taken, from[s], s)
         /\ \A s, t \in taken :
              from[s] = from[t] /\ number[s] <= number[t] /\ s # t
                => Away(n, from[s], s) < Away(n, from[s], t)
<1>1. \A s \in taken : InReach(n, taken, from[s], s)
  BY DEF Probed, InReach, Slots
<1>2. ASSUME NEW s \in taken, NEW t \in taken,
             from[s] = from[t], number[s] <= number[t], s # t
      PROVE  Away(n, from[s], s) < Away(n, from[s], t)
  <2>1. number[s] # number[t]
    BY <1>2 DEF Probed
  <2>2. number[s] < number[t]
    BY <1>2, <2>1
  <2>3. QED
    BY <1>2, <2>2 DEF Probed
<1>3. QED
  BY <1>1, <1>2

\* A walk from a home meets taken slots only, and all with an entry of that home.
LEMMA WalkMeets ==
  ASSUME hash_cap \in Nat \ {0}, NEW tab, DOMAIN tab \subseteq Slots(hash_cap),
         NEW start \in Slots(hash_cap), NEW from, NEW number,
         \A s \in DOMAIN tab : from[s] \in Slots(hash_cap) /\ number[s] \in Nat,
         Probed(hash_cap, DOMAIN tab, from, number)
  PROVE  /\ Walk(tab, start) \subseteq DOMAIN tab
         /\ \A s \in DOMAIN tab : from[s] = start => s \in Walk(tab, start)
<1>1. Walk(tab, start)
        = {s \in Slots(hash_cap) : InReach(hash_cap, DOMAIN tab, start, s)}
  BY WalkIsReach
<1>2. \A s \in DOMAIN tab : s \in Slots(hash_cap) /\ InReach(hash_cap, DOMAIN tab, from[s], s)
  BY ProbedMeans
<1>3. ASSUME NEW s \in Slots(hash_cap), InReach(hash_cap, DOMAIN tab, start, s)
      PROVE  s \in DOMAIN tab
  <2>1. Away(hash_cap, start, s) \in Int
    BY Distances DEF Slots
  <2>2. QED
    BY <1>3, <2>1 DEF InReach
<1>4. QED
  BY <1>1, <1>2, <1>3

\* Of entries with one home the walk meets first the one numbered first.
LEMMA WalkStopsAt ==
  ASSUME hash_cap \in Nat \ {0}, NEW taken, taken \subseteq Slots(hash_cap),
         NEW start \in Slots(hash_cap), NEW from, NEW number,
         \A s \in taken : from[s] \in Slots(hash_cap) /\ number[s] \in Nat,
         Probed(hash_cap, taken, from, number),
         NEW wanted, wanted \subseteq taken, \A s \in wanted : from[s] = start,
         NEW s \in wanted, \A t \in wanted : number[s] <= number[t]
  PROVE  First(wanted, start) = s
<1>1. \A t \in wanted : t # s =>
         Away(hash_cap, start, s) < Away(hash_cap, start, t)
  BY ProbedMeans
<1>2. wanted \in SUBSET Slots(hash_cap)
  OBVIOUS
<1>3. QED
  BY <1>1, <1>2, NearestIs

\* The entries of the table of pieces have a home and a number.
LEMMA PieceEntries ==
  ASSUME IndexAssumption, IndexInv, hash_cap # 0
  PROVE  /\ hash_cap \in Nat \ {0} /\ Len(vocab) \in Nat /\ entered.pieces \in Nat
         /\ DOMAIN vocab_hash \subseteq Slots(hash_cap)
         /\ \A s \in DOMAIN vocab_hash :
              /\ vocab_hash[s] \in Slots(entered.pieces)
              /\ vocab_hash[s] + 1 \in 1 .. Len(vocab)
              /\ vocab[vocab_hash[s] + 1] \in Pieces
              /\ PieceFrom[s] = PieceHome(vocab[vocab_hash[s] + 1])
              /\ PieceFrom[s] \in Slots(hash_cap)
         /\ Probed(hash_cap, DOMAIN vocab_hash, PieceFrom, vocab_hash)
<1>1. /\ hash_cap \in Nat \ {0} /\ Len(vocab) \in Nat /\ entered.pieces \in Nat
      /\ vocab \in Seq(Pieces) /\ entered.pieces <= Len(vocab)
  BY DEF IndexInv, IndexTypeOK, Progress
<1>2. /\ DOMAIN vocab_hash \subseteq Slots(hash_cap)
      /\ \A s \in DOMAIN vocab_hash : vocab_hash[s] \in Slots(entered.pieces)
      /\ Probed(hash_cap, DOMAIN vocab_hash, PieceFrom, vocab_hash)
  BY DEF IndexInv, PiecesEntered, Slots
<1>3. ASSUME NEW s \in DOMAIN vocab_hash
      PROVE  /\ vocab_hash[s] + 1 \in 1 .. Len(vocab)
             /\ vocab[vocab_hash[s] + 1] \in Pieces
             /\ PieceFrom[s] = PieceHome(vocab[vocab_hash[s] + 1])
             /\ PieceFrom[s] \in Slots(hash_cap)
  <2>1. vocab_hash[s] + 1 \in 1 .. Len(vocab)
    BY <1>1, <1>2 DEF Slots
  <2>2. vocab[vocab_hash[s] + 1] \in Pieces
    BY <1>1, <2>1
  <2>3. PieceFrom[s] = PieceHome(vocab[vocab_hash[s] + 1])
    BY DEF PieceFrom
  <2>4. IndexTypeOK
    BY DEF IndexInv
  <2>5. QED
    BY <1>1, <2>1, <2>2, <2>3, <2>4, HomesAreSlots
<1>4. QED
  BY <1>1, <1>2, <1>3

\* Once all pieces are entered a lookup finds the first id of a piece.
LEMMA LookupIsFirstId ==
  ASSUME IndexAssumption, IndexInv, hash_cap # 0, entered.pieces = Len(vocab),
         NEW piece \in Pieces
  PROVE  Lookup(piece) = FirstId(piece)
<1> DEFINE start == PieceHome(piece)
           wanted == {s \in DOMAIN vocab_hash : vocab[vocab_hash[s] + 1] = piece}
           hits == {s \in Walk(vocab_hash, start) : vocab[vocab_hash[s] + 1] = piece}
<1>1. /\ hash_cap \in Nat \ {0}
      /\ DOMAIN vocab_hash \subseteq Slots(hash_cap)
      /\ \A s \in DOMAIN vocab_hash :
           PieceFrom[s] \in Slots(hash_cap) /\ vocab_hash[s] \in Nat
      /\ Probed(hash_cap, DOMAIN vocab_hash, PieceFrom, vocab_hash)
  BY PieceEntries DEF Slots
<1>2. start \in Slots(hash_cap)
  BY <1>1, HomesAreSlots DEF IndexInv
<1>3. \A s \in wanted : PieceFrom[s] = start
  BY PieceEntries
<1>4. Lookup(piece) = IF hits = {} THEN None ELSE vocab_hash[First(hits, start)]
  BY DEF Lookup
<1>5. wanted \in SUBSET DOMAIN vocab_hash
  OBVIOUS
<1> DEFINE from == PieceFrom
<1> HIDE DEF start, wanted, from
<1>6. /\ \A s \in DOMAIN vocab_hash : from[s] \in Slots(hash_cap) /\ vocab_hash[s] \in Nat
      /\ Probed(hash_cap, DOMAIN vocab_hash, from, vocab_hash)
      /\ \A s \in wanted : from[s] = start
  BY <1>1, <1>3 DEF from
<1>7. hits = wanted
  <2>1. /\ Walk(vocab_hash, start) \subseteq DOMAIN vocab_hash
        /\ \A s \in DOMAIN vocab_hash : from[s] = start => s \in Walk(vocab_hash, start)
    BY <1>1, <1>2, <1>6, WalkMeets
  <2>2. QED
    BY <1>5, <1>6, <2>1 DEF wanted
<1> HIDE DEF hits
<1>8. vocab \in Seq(Pieces)
  BY DEF IndexInv, IndexTypeOK
<1>9. CASE \E i \in 1 .. Len(vocab) : vocab[i] = piece
  <2> DEFINE id == FirstId(piece)
  <2>1. /\ id \in 0 .. Len(vocab) - 1 /\ vocab[id + 1] = piece
        /\ \A i \in 1 .. Len(vocab) : vocab[i] = piece => id <= i - 1
    BY <1>8, <1>9, FirstIdIs
  <2> HIDE DEF id
  <2>2. PICK s \in DOMAIN vocab_hash : vocab_hash[s] = id
    BY <2>1 DEF IndexInv, PiecesEntered
  <2>3. s \in wanted
    BY <2>1, <2>2 DEF wanted
  <2>4. ASSUME NEW t \in wanted PROVE vocab_hash[s] <= vocab_hash[t]
    <3>1. vocab_hash[t] + 1 \in 1 .. Len(vocab) /\ vocab[vocab_hash[t] + 1] = piece
      BY PieceEntries DEF wanted
    <3>2. vocab_hash[t] \in Nat
      BY <1>1 DEF wanted
    <3>3. QED
      BY <2>1, <2>2, <3>1, <3>2
  <2>5. First(wanted, start) = s
    BY <1>1, <1>2, <1>5, <1>6, <2>3, <2>4, WalkStopsAt
  <2>6. QED
    BY <1>4, <1>7, <2>2, <2>3, <2>5 DEF id
<1>10. CASE ~ \E i \in 1 .. Len(vocab) : vocab[i] = piece
  <2>1. wanted = {}
    BY <1>10, PieceEntries DEF wanted
  <2>2. FirstId(piece) = None
    BY <1>8, <1>10, FirstIdIs
  <2>3. QED
    BY <1>4, <1>7, <2>1, <2>2
<1>11. QED
  BY <1>9, <1>10

\* A merge line is entered as its entry, whatever the table of pairs holds.
LEMMA EntryIsLineEntry ==
  ASSUME IndexAssumption, IndexInv, hash_cap # 0, entered.pieces = Len(vocab),
         NEW i \in 1 .. Len(merge_lines)
  PROVE  EntryOf(merge_lines[i], i - 1) = LineEntry(i)
<1>1. merge_lines[i] = <<>> \/ (merge_lines[i][1] \in Pieces /\ merge_lines[i][2] \in Pieces)
  <2>1. merge_lines[i] \in Lines
    BY DEF IndexInv, IndexTypeOK
  <2>2. merge_lines[i] \in (Pieces \X Pieces) \union {<<>>}
    BY <2>1 DEF IndexAssumption
  <2>3. QED
    BY <2>2
<1>2. \A piece \in Pieces : Lookup(piece) = FirstId(piece)
  BY LookupIsFirstId
<1> DEFINE joined == merge_lines[i][1] \o merge_lines[i][2]
<1>3. CASE merge_lines[i] = <<>>
  BY <1>3 DEF EntryOf, LineEntry
<1>4. CASE merge_lines[i] # <<>>
  <2>1. /\ Lookup(merge_lines[i][1]) = FirstId(merge_lines[i][1])
        /\ Lookup(merge_lines[i][2]) = FirstId(merge_lines[i][2])
        /\ joined \in Pieces => Lookup(joined) = FirstId(joined)
    BY <1>1, <1>2, <1>4
  <2>2. QED
    BY <2>1 DEF EntryOf, LineEntry
<1>5. QED
  BY <1>3, <1>4

\* The entries of a line: none, or one with ids of pieces of the file.
LEMMA LineEntries ==
  ASSUME IndexAssumption, IndexTypeOK, NEW i \in 1 .. Len(merge_lines),
         NEW e \in LineEntry(i)
  PROVE  /\ e.left \in Nat /\ e.right \in Nat /\ e.rank = i - 1
         /\ merge_lines[i] = <<vocab[e.left + 1], vocab[e.right + 1]>>
         /\ vocab[e.left + 1] \o vocab[e.right + 1] \in Pieces
         /\ e = [left |-> e.left, right |-> e.right, rank |-> i - 1,
                 result |-> FirstId(vocab[e.left + 1] \o vocab[e.right + 1])]
         /\ FirstId(vocab[e.left + 1] \o vocab[e.right + 1]) # None
         /\ LineEntry(i) = {e}
<1> DEFINE line == merge_lines[i]
           joined == line[1] \o line[2]
<1>1. line \in (Pieces \X Pieces) \union {<<>>}
  BY DEF IndexTypeOK, IndexAssumption
<1>2. /\ line # <<>> /\ joined \in Pieces
      /\ FirstId(line[1]) # None /\ FirstId(line[2]) # None
      /\ FirstId(joined) # None
      /\ LineEntry(i) = {[left |-> FirstId(line[1]), right |-> FirstId(line[2]),
                                rank |-> i - 1, result |-> FirstId(joined)]}
  BY DEF LineEntry
<1>3. line = <<line[1], line[2]>>
  BY <1>1, <1>2
<1>4. \A p : FirstId(p) # None =>
        FirstId(p) \in Nat /\ vocab[FirstId(p) + 1] = p
  <2>1. vocab \in Seq(Pieces)
    BY DEF IndexTypeOK
  <2>2. QED
    BY <2>1, FirstIdIs
<1>5. /\ e.left = FirstId(line[1]) /\ e.right = FirstId(line[2]) /\ e.rank = i - 1
      /\ e = [left |-> FirstId(line[1]), right |-> FirstId(line[2]),
              rank |-> i - 1, result |-> FirstId(joined)]
  BY <1>2
<1>6. vocab[e.left + 1] = line[1] /\ vocab[e.right + 1] = line[2]
  BY <1>2, <1>4, <1>5
<1>7. e.left \in Nat /\ e.right \in Nat
  BY <1>2, <1>4, <1>5
<1>8. LineEntry(i) = {e}
  BY <1>2, <1>5
<1>9. joined = vocab[e.left + 1] \o vocab[e.right + 1]
  BY <1>6
<1>10. merge_lines[i] = <<vocab[e.left + 1], vocab[e.right + 1]>>
  BY <1>3, <1>6
<1>11. e = [left |-> e.left, right |-> e.right, rank |-> i - 1, result |-> FirstId(joined)]
  BY <1>5
<1> HIDE DEF joined, line
<1>12. QED
  BY <1>2, <1>5, <1>7, <1>8, <1>9, <1>10, <1>11

\* The entries of the table of pairs have a home and a number.
LEMMA PairEntries ==
  ASSUME IndexAssumption, IndexInv, hash_cap # 0
  PROVE  /\ entered.lines \in Nat /\ Len(merge_lines) \in Nat /\ entered.lines <= Len(merge_lines)
         /\ DOMAIN pair_hash \subseteq Slots(hash_cap)
         /\ \A s \in DOMAIN pair_hash :
              /\ \E i \in 1 .. entered.lines : pair_hash[s] \in LineEntry(i)
              /\ pair_hash[s].left \in Nat /\ pair_hash[s].right \in Nat
              /\ pair_hash[s].rank \in Slots(entered.lines)
              /\ PairFrom[s] = PairHome(pair_hash[s].left, pair_hash[s].right)
              /\ PairFrom[s] \in Slots(hash_cap)
              /\ PairRank[s] = pair_hash[s].rank
         /\ Probed(hash_cap, DOMAIN pair_hash, PairFrom, PairRank)
<1>1. /\ hash_cap \in Nat \ {0} /\ Len(merge_lines) \in Nat /\ entered.lines \in Nat
      /\ entered.lines <= Len(merge_lines)
  BY DEF IndexInv, IndexTypeOK, Progress
<1>2. /\ DOMAIN pair_hash \subseteq Slots(hash_cap)
      /\ \A s \in DOMAIN pair_hash : \E i \in 1 .. entered.lines : pair_hash[s] \in LineEntry(i)
      /\ Probed(hash_cap, DOMAIN pair_hash, PairFrom, PairRank)
  BY DEF IndexInv, PairsEntered, Slots
<1>3. IndexTypeOK
  BY DEF IndexInv
<1>4. ASSUME NEW s \in DOMAIN pair_hash
      PROVE  /\ pair_hash[s].left \in Nat /\ pair_hash[s].right \in Nat
             /\ pair_hash[s].rank \in Slots(entered.lines)
             /\ PairFrom[s] = PairHome(pair_hash[s].left, pair_hash[s].right)
             /\ PairFrom[s] \in Slots(hash_cap)
             /\ PairRank[s] = pair_hash[s].rank
  <2>1. PICK i \in 1 .. entered.lines : pair_hash[s] \in LineEntry(i)
    BY <1>2
  <2>2. i \in 1 .. Len(merge_lines)
    BY <1>1
  <2>3. /\ pair_hash[s].left \in Nat /\ pair_hash[s].right \in Nat /\ pair_hash[s].rank = i - 1
    BY <1>3, <2>1, <2>2, LineEntries
  <2>4. pair_hash[s].rank \in Slots(entered.lines)
    BY <1>1, <2>3 DEF Slots
  <2>5. /\ PairFrom[s] = PairHome(pair_hash[s].left, pair_hash[s].right)
        /\ PairRank[s] = pair_hash[s].rank
    BY DEF PairFrom, PairRank
  <2>6. QED
    BY <1>1, <1>3, <2>3, <2>4, <2>5, HomesAreSlots
<1>5. QED
  BY <1>1, <1>2, <1>4

\* Both tables keep an empty slot.
LEMMA SlotsLeft ==
  ASSUME IndexAssumption, IndexInv, hash_cap # 0
  PROVE  /\ Slots(hash_cap) \ DOMAIN vocab_hash # {}
         /\ Slots(hash_cap) \ DOMAIN pair_hash # {}
<1>1. /\ hash_cap \in Nat /\ entered.pieces \in Nat /\ entered.lines \in Nat
      /\ entered.pieces < hash_cap /\ entered.lines < hash_cap
  BY PieceEntries, PairEntries DEF IndexInv, Progress
<1>2. Slots(hash_cap) \ DOMAIN vocab_hash # {}
  <2>1. /\ DOMAIN vocab_hash \in SUBSET Slots(hash_cap)
        /\ \A s \in DOMAIN vocab_hash : vocab_hash[s] \in Slots(entered.pieces)
    BY PieceEntries
  <2>2. \A s, t \in DOMAIN vocab_hash : vocab_hash[s] = vocab_hash[t] => s = t
    BY PieceEntries DEF Probed
  <2>3. QED
    BY <1>1, <2>1, <2>2, SlotIsLeft
<1>3. Slots(hash_cap) \ DOMAIN pair_hash # {}
  <2> DEFINE number == PairRank
  <2>1. /\ DOMAIN pair_hash \in SUBSET Slots(hash_cap)
        /\ \A s \in DOMAIN pair_hash : number[s] \in Slots(entered.lines)
    BY PairEntries
  <2>2. \A s, t \in DOMAIN pair_hash : number[s] = number[t] => s = t
    BY PairEntries DEF Probed
  <2> HIDE DEF number
  <2>3. QED
    BY <1>1, <2>1, <2>2, SlotIsLeft
<1>4. QED
  BY <1>2, <1>3

\* The table of pairs finds the first line that joins two pieces, once all are entered.
LEMMA PairIsFirstLine ==
  ASSUME IndexAssumption, IndexInv, ready
  PROVE  PairExact
<1> SUFFICES ASSUME NEW left \in {FirstId(p) : p \in Pieces} \ {None},
                    NEW right \in {FirstId(p) : p \in Pieces} \ {None}
             PROVE  LET Joins(i) == merge_lines[i] = <<vocab[left + 1], vocab[right + 1]>>
                        joined == vocab[left + 1] \o vocab[right + 1]
                        lines == {i \in DOMAIN merge_lines : Joins(i) /\ joined \in Pieces}
                    IN PairLookup(left, right) =
                         IF lines = {} \/ FirstId(joined) = None THEN {}
                         ELSE {[left |-> left, right |-> right, rank |-> Min(lines) - 1,
                                result |-> FirstId(joined)]}
  BY DEF PairExact
<1> DEFINE joined == vocab[left + 1] \o vocab[right + 1]
           lines == {i \in DOMAIN merge_lines :
                       merge_lines[i] = <<vocab[left + 1], vocab[right + 1]>> /\ joined \in Pieces}
           start == PairHome(left, right)
           wanted == {s \in DOMAIN pair_hash : pair_hash[s].left = left /\ pair_hash[s].right = right}
           hits == {s \in Walk(pair_hash, start) :
                      pair_hash[s].left = left /\ pair_hash[s].right = right}
           from == PairFrom
           number == PairRank
           entry(i) == [left |-> left, right |-> right, rank |-> i - 1,
                        result |-> FirstId(joined)]
<1>1. /\ hash_cap \in Nat \ {0} /\ entered.lines = Len(merge_lines) /\ entered.pieces = Len(vocab)
      /\ Len(merge_lines) \in Nat /\ DOMAIN merge_lines = 1 .. Len(merge_lines)
  BY DEF IndexInv, IndexTypeOK, Progress
<1>2. IndexTypeOK /\ vocab \in Seq(Pieces)
  BY DEF IndexInv, IndexTypeOK
<1>3. /\ left \in Nat /\ FirstId(vocab[left + 1]) = left /\ vocab[left + 1] \in Pieces
      /\ right \in Nat /\ FirstId(vocab[right + 1]) = right /\ vocab[right + 1] \in Pieces
  <2>1. \A p : FirstId(p) # None =>
          FirstId(p) \in Nat /\ vocab[FirstId(p) + 1] = p
    BY <1>2, FirstIdIs
  <2>2. QED
    BY <2>1
<1>4. start \in Slots(hash_cap)
  BY <1>1, <1>2, <1>3, HomesAreSlots
<1>5. /\ DOMAIN pair_hash \subseteq Slots(hash_cap)
      /\ \A s \in DOMAIN pair_hash : from[s] \in Slots(hash_cap) /\ number[s] \in Nat
      /\ Probed(hash_cap, DOMAIN pair_hash, from, number)
      /\ \A s \in wanted : from[s] = start
  BY <1>1, PairEntries DEF Slots
<1>6. PairLookup(left, right)
        = IF hits = {} THEN {} ELSE {pair_hash[First(hits, start)]}
  BY DEF PairLookup
<1>7. wanted \in SUBSET DOMAIN pair_hash
  OBVIOUS
<1> HIDE DEF start, wanted, from, number
<1>9. hits = wanted
  <2>1. /\ Walk(pair_hash, start) \subseteq DOMAIN pair_hash
        /\ \A s \in DOMAIN pair_hash : from[s] = start => s \in Walk(pair_hash, start)
    BY <1>1, <1>4, <1>5, WalkMeets
  <2>2. \A s \in DOMAIN pair_hash : from[s] = PairHome(pair_hash[s].left, pair_hash[s].right)
    BY <1>1, PairEntries DEF from
  <2>3. QED
    BY <1>5, <1>7, <2>1, <2>2 DEF wanted, start
<1> HIDE DEF hits
<1>10. ASSUME NEW s \in wanted
       PROVE  \E i \in lines : /\ pair_hash[s] = entry(i) /\ number[s] = i - 1
                               /\ FirstId(joined) # None
  <2>1. PICK i \in 1 .. Len(merge_lines) : pair_hash[s] \in LineEntry(i)
    BY <1>1, PairEntries DEF wanted
  <2>2. pair_hash[s].left = left /\ pair_hash[s].right = right
    BY DEF wanted
  <2>3. /\ pair_hash[s].rank = i - 1
        /\ merge_lines[i] = <<vocab[left + 1], vocab[right + 1]>>
        /\ joined \in Pieces
        /\ pair_hash[s] = entry(i)
        /\ FirstId(joined) # None
    <3> DEFINE e == pair_hash[s]
    <3>1. e \in LineEntry(i) /\ e.left = left /\ e.right = right
      BY <2>1, <2>2
    <3> HIDE DEF e
    <3>2. /\ e.rank = i - 1
          /\ merge_lines[i] = <<vocab[e.left + 1], vocab[e.right + 1]>>
          /\ vocab[e.left + 1] \o vocab[e.right + 1] \in Pieces
          /\ e = [left |-> e.left, right |-> e.right, rank |-> i - 1,
                  result |-> FirstId(vocab[e.left + 1] \o vocab[e.right + 1])]
          /\ FirstId(vocab[e.left + 1] \o vocab[e.right + 1]) # None
      BY <1>2, <3>1, LineEntries
    <3>3. QED
      BY <3>1, <3>2 DEF e
  <2>4. number[s] = i - 1
    BY <1>1, <2>3, PairEntries DEF wanted, number
  <2>5. i \in lines
    BY <1>1, <2>3
  <2>6. QED
    BY <2>3, <2>4, <2>5
<1>11. ASSUME NEW i \in lines, FirstId(joined) # None
       PROVE  \E s \in wanted : pair_hash[s] = entry(i) /\ number[s] = i - 1
  <2>1. i \in 1 .. Len(merge_lines) /\ joined \in Pieces
    BY <1>1
  <2>2. merge_lines[i] = <<vocab[left + 1], vocab[right + 1]>>
    OBVIOUS
  <2>3. merge_lines[i] # <<>> /\ merge_lines[i][1] = vocab[left + 1] /\ merge_lines[i][2] = vocab[right + 1]
    BY <2>2
  <2>4. LineEntry(i) = {entry(i)}
    <3>1. merge_lines[i][1] \o merge_lines[i][2] = joined
      BY <2>3
    <3> HIDE DEF joined
    <3>2. left # None /\ right # None
      OBVIOUS
    <3>3. QED
      BY <1>3, <1>11, <2>1, <2>3, <3>1, <3>2 DEF LineEntry
  <2>5. PICK s \in DOMAIN pair_hash : pair_hash[s] = entry(i)
    <3>1. entry(i) \in LineEntry(i) /\ i \in 1 .. entered.lines
      BY <1>1, <2>1, <2>4
    <3>2. QED
      BY <3>1 DEF IndexInv, PairsEntered
  <2>6. s \in wanted
    BY <2>5 DEF wanted
  <2>7. number[s] = i - 1
    <3>1. number[s] = pair_hash[s].rank
      BY <1>1, PairEntries DEF number
    <3>2. QED
      BY <2>5, <3>1
  <2>8. QED
    BY <2>5, <2>6, <2>7
<1>12. CASE lines = {} \/ FirstId(joined) = None
  <2>1. wanted = {}
    BY <1>10, <1>12
  <2>2. PairLookup(left, right) = {}
    BY <1>6, <1>9, <2>1
  <2>3. QED
    BY <1>12, <2>2
<1>13. CASE lines # {} /\ FirstId(joined) # None
  <2> DEFINE m == Min(lines)
  <2>1. m \in lines /\ \A i \in lines : m <= i
    <3>1. lines \in SUBSET Nat
      BY <1>1
    <3> HIDE DEF lines
    <3>2. PICK x \in lines : \A i \in lines : x <= i
      BY <1>13, <3>1, LeastNatural
    <3>3. QED
      BY <3>2 DEF Min
  <2>2. \A i \in lines : i \in Nat
    BY <1>1
  <2> HIDE DEF m, lines
  <2>3. PICK s \in wanted : pair_hash[s] = entry(m) /\ number[s] = m - 1
    BY <1>11, <1>13, <2>1
  <2>4. ASSUME NEW t \in wanted PROVE number[s] <= number[t]
    <3>1. PICK i \in lines : number[t] = i - 1
      BY <1>10
    <3>2. QED
      BY <2>1, <2>2, <2>3, <3>1
  <2>5. First(wanted, start) = s
    BY <1>1, <1>4, <1>5, <1>7, <2>4, WalkStopsAt
  <2>6. PairLookup(left, right) = {entry(m)}
    BY <1>6, <1>9, <2>3, <2>5
  <2>7. ~(lines = {} \/ FirstId(joined) = None)
    BY <1>13
  <2>8. QED
    BY <2>6, <2>7 DEF m, lines
<1>14. QED
  BY <1>12, <1>13

\* The invariant implies the property.
LEMMA InvariantIsExact ==
  ASSUME IndexAssumption, IndexInv
  PROVE  IndexExact
<1>1. ArraysHold
  BY DEF IndexInv
<1>2. ASSUME ready PROVE hash_cap # 0 /\ entered.pieces = Len(vocab)
  BY <1>2 DEF IndexInv, Progress
<1>3. LookupExact
  BY <1>2, LookupIsFirstId DEF LookupExact
<1>4. PairExact
  BY PairIsFirstLine DEF PairExact
<1>5. ASSUME hash_cap > 0
      PROVE  /\ Slots(hash_cap) \ DOMAIN vocab_hash # {}
             /\ Slots(hash_cap) \ DOMAIN pair_hash # {}
  BY <1>5, SlotsLeft DEF IndexInv, IndexTypeOK
<1>6. KeepsEmptySlots
  BY <1>5 DEF KeepsEmptySlots, Slots
<1>7. QED
  BY <1>1, <1>3, <1>4, <1>6 DEF IndexExact

-----------------------------------------------------------------------------
(* The steps.                                                              *)

\* The invariant holds of a tokenizer before anything is loaded.
LEMMA IndexInitHolds ==
  ASSUME IndexAssumption, IndexInit
  PROVE  IndexInv
<1>1. /\ vocab = <<>> /\ merge_lines = <<>> /\ vocab_cap = 0 /\ merge_cap = 0 /\ hash_cap = 0
      /\ vocab_hash = <<>> /\ pair_hash = <<>> /\ ~ready
      /\ entered = [pieces |-> 0, lines |-> 0]
      /\ home \in [Pieces -> Homes] /\ spread \in {0, 1}
  BY DEF IndexInit
<1>2. entered \in [pieces : Nat, lines : Nat] /\ entered.pieces = 0 /\ entered.lines = 0
  BY <1>1
<1>3. IndexTypeOK
  <2>1. vocab \in Seq(Pieces) /\ merge_lines \in Seq(Lines)
    BY <1>1
  <2>2. QED
    BY <1>1, <1>2, <2>1 DEF IndexTypeOK
<1>4. ArraysHold /\ Progress
  BY <1>1, <1>2 DEF ArraysHold, Progress
<1>5. DOMAIN vocab_hash = {} /\ DOMAIN pair_hash = {}
  BY <1>1
<1>6. PiecesEntered /\ PairsEntered
  BY <1>2, <1>5 DEF PiecesEntered, PairsEntered, Probed
<1>7. QED
  BY <1>3, <1>4, <1>6 DEF IndexInv

\* Nothing is entered before the tables are allocated.
LEMMA TablesEmpty ==
  ASSUME IndexInv, hash_cap = 0
  PROVE  entered.pieces = 0 /\ entered.lines = 0 /\ DOMAIN vocab_hash = {} /\ DOMAIN pair_hash = {}
<1>1. entered.pieces = 0 /\ entered.lines = 0
  BY DEF IndexInv, Progress
<1>2. 0 .. hash_cap - 1 = {}
  OBVIOUS
<1>3. DOMAIN vocab_hash = {} /\ DOMAIN pair_hash = {}
  BY <1>2 DEF IndexInv, PiecesEntered, PairsEntered
<1>4. QED
  BY <1>1, <1>3

\* Empty tables hold nothing, whatever is appended to the arrays.
LEMMA EmptyHolds ==
  ASSUME (entered.pieces = 0)', (entered.lines = 0)',
         (DOMAIN vocab_hash = {})', (DOMAIN pair_hash = {})', (hash_cap \in Nat)'
  PROVE  PiecesEntered' /\ PairsEntered'
BY DEF PiecesEntered, PairsEntered, Probed

\* An array that has grown has room for one entry more.
LEMMA GrownHolds ==
  ASSUME IndexAssumption, NEW cap \in Nat, NEW size \in Nat
  PROVE  Grown(cap, size) \in Nat /\ size + 1 <= Grown(cap, size)
<1>1. CASE size < cap
  BY <1>1 DEF Grown
<1>2. CASE ~(size < cap)
  <2> DEFINE wish == IF cap = 0 THEN FirstCap ELSE 2 * cap
  <2>1. wish \in Nat
    BY DEF IndexAssumption
  <2>2. Grown(cap, size) = Max({wish, size + 1})
    BY <1>2 DEF Grown
  <2> HIDE DEF wish
  <2>3. Max({wish, size + 1}) = IF wish >= size + 1 THEN wish ELSE size + 1
    BY <2>1, MaxOfTwo
  <2>4. QED
    BY <2>1, <2>2, <2>3
<1>3. QED
  BY <1>1, <1>2

\* The four steps of loading.
LEMMA LoadKeeps ==
  ASSUME IndexAssumption, IndexInv,
         Reserve \/ ReserveLines \/ AppendPiece \/ AppendMergeLine
  PROVE  IndexInv'
<1>1. /\ hash_cap = 0 /\ UNCHANGED <<home, spread, hash_cap, vocab_hash, pair_hash, entered, ready>>
  BY DEF Reserve, ReserveLines, AppendPiece, AppendMergeLine,
         hash, table
<1>2. /\ vocab \in Seq(Pieces) /\ merge_lines \in Seq(Lines) /\ vocab_cap \in Nat /\ merge_cap \in Nat
      /\ Len(vocab) \in Nat /\ Len(merge_lines) \in Nat
      /\ Len(vocab) <= vocab_cap /\ Len(merge_lines) <= merge_cap
  BY DEF IndexInv, IndexTypeOK, ArraysHold
<1>3. MaxVocab \in Nat /\ MaxMerges \in Nat
  BY DEF IndexAssumption
<1>4. /\ vocab' \in Seq(Pieces) /\ merge_lines' \in Seq(Lines) /\ vocab_cap' \in Nat /\ merge_cap' \in Nat
      /\ Len(vocab') <= vocab_cap' /\ Len(merge_lines') <= merge_cap'
  <2>1. CASE Reserve
    <3>1. Len(vocab) = 0
      BY <2>1 DEF Reserve
    <3>2. vocab' = vocab /\ merge_lines' = merge_lines /\ merge_cap' = merge_cap /\ vocab_cap' \in 1 .. MaxVocab
      BY <2>1 DEF Reserve
    <3>3. QED
      BY <1>2, <1>3, <3>1, <3>2
  <2>2. CASE ReserveLines
    <3>1. Len(merge_lines) = 0
      BY <2>2 DEF ReserveLines
    <3>2. vocab' = vocab /\ merge_lines' = merge_lines /\ vocab_cap' = vocab_cap /\ merge_cap' \in 1 .. MaxMerges
      BY <2>2 DEF ReserveLines
    <3>3. QED
      BY <1>2, <1>3, <3>1, <3>2
  <2>3. CASE AppendPiece
    <3>1. PICK piece \in Pieces : vocab' = Append(vocab, piece)
      BY <2>3 DEF AppendPiece
    <3>2. merge_lines' = merge_lines /\ merge_cap' = merge_cap /\ vocab_cap' = Grown(vocab_cap, Len(vocab))
      BY <2>3 DEF AppendPiece
    <3>3. vocab' \in Seq(Pieces) /\ Len(vocab') = Len(vocab) + 1
      BY <1>2, <3>1
    <3>4. vocab_cap' \in Nat /\ Len(vocab) + 1 <= vocab_cap'
      BY <1>2, <3>2, GrownHolds
    <3>5. QED
      BY <1>2, <3>2, <3>3, <3>4
  <2>4. CASE AppendMergeLine
    <3>1. PICK line \in Lines : merge_lines' = Append(merge_lines, line)
      BY <2>4 DEF AppendMergeLine
    <3>2. vocab' = vocab /\ vocab_cap' = vocab_cap /\ merge_cap' = Grown(merge_cap, Len(merge_lines))
      BY <2>4 DEF AppendMergeLine
    <3>3. merge_lines' \in Seq(Lines) /\ Len(merge_lines') = Len(merge_lines) + 1
      BY <1>2, <3>1
    <3>4. merge_cap' \in Nat /\ Len(merge_lines) + 1 <= merge_cap'
      BY <1>2, <3>2, GrownHolds
    <3>5. QED
      BY <1>2, <3>2, <3>3, <3>4
  <2>5. QED
    BY <2>1, <2>2, <2>3, <2>4
<1>5. IndexTypeOK'
  BY <1>1, <1>4 DEF IndexInv, IndexTypeOK
<1>6. ArraysHold'
  BY <1>4 DEF ArraysHold
<1>7. entered.pieces = 0 /\ entered.lines = 0 /\ DOMAIN vocab_hash = {} /\ DOMAIN pair_hash = {}
  BY <1>1, TablesEmpty
<1>8. ~ready
  BY <1>1 DEF IndexInv, Progress
<1>9. Progress'
  <2>1. Len(vocab') \in Nat /\ Len(merge_lines') \in Nat
    BY <1>4
  <2>2. hash_cap' = 0 /\ entered'.pieces = 0 /\ entered'.lines = 0 /\ ~ready'
    BY <1>1, <1>7, <1>8
  <2>3. QED
    BY <2>1, <2>2 DEF Progress
<1>10. PiecesEntered' /\ PairsEntered'
  <2>1. /\ (entered.pieces = 0)' /\ (entered.lines = 0)'
        /\ (DOMAIN vocab_hash = {})' /\ (DOMAIN pair_hash = {})' /\ (hash_cap \in Nat)'
    BY <1>1, <1>7
  <2>2. QED
    BY <2>1, EmptyHolds
<1>11. QED
  BY <1>5, <1>6, <1>9, <1>10 DEF IndexInv

\* The tables are allocated empty, with more slots than entries to come.
LEMMA AllocateKeeps ==
  ASSUME IndexAssumption, IndexInv, Allocate
  PROVE  IndexInv'
<1>1. /\ hash_cap = 0 /\ vocab # <<>> /\ hash_cap' = TableSize(Len(vocab), Len(merge_lines))
      /\ UNCHANGED <<vocab, merge_lines, vocab_cap, merge_cap, home, spread>>
      /\ UNCHANGED <<vocab_hash, pair_hash, entered, ready>>
  BY DEF Allocate, file, hash
<1>2. Len(vocab) \in Nat \ {0} /\ Len(merge_lines) \in Nat
  BY <1>1 DEF IndexInv, IndexTypeOK
<1>3. hash_cap' \in Nat \ {0} /\ Len(vocab) < hash_cap' /\ Len(merge_lines) < hash_cap'
  BY <1>1, <1>2, TableHasRoom
<1>4. IndexTypeOK'
  BY <1>1, <1>3 DEF IndexInv, IndexTypeOK
<1>5. ArraysHold'
  BY <1>1 DEF IndexInv, ArraysHold
<1>6. entered.pieces = 0 /\ entered.lines = 0 /\ DOMAIN vocab_hash = {} /\ DOMAIN pair_hash = {}
  BY <1>1, TablesEmpty
<1>7. ~ready
  BY <1>1 DEF IndexInv, Progress
<1>8. Progress'
  BY <1>1, <1>2, <1>3, <1>6, <1>7 DEF Progress
<1>9. PiecesEntered' /\ PairsEntered'
  <2>1. /\ (entered.pieces = 0)' /\ (entered.lines = 0)'
        /\ (DOMAIN vocab_hash = {})' /\ (DOMAIN pair_hash = {})' /\ (hash_cap \in Nat)'
    BY <1>1, <1>3, <1>6
  <2>2. QED
    BY <2>1, EmptyHolds
<1>10. QED
  BY <1>4, <1>5, <1>8, <1>9 DEF IndexInv

\* A piece takes the nearest free slot, numbered above all before it.
LEMMA EnterPieceKeeps ==
  ASSUME IndexAssumption, IndexInv, EnterPiece
  PROVE  IndexInv'
<1> DEFINE k == entered.pieces
           piece == vocab[k + 1]
           start == PieceHome(piece)
<1>1. /\ hash_cap > 0 /\ k < Len(vocab) /\ vocab_hash' = Put(vocab_hash, start, k)
      /\ entered' = [entered EXCEPT !.pieces = k + 1]
      /\ UNCHANGED <<vocab, merge_lines, vocab_cap, merge_cap, home, spread, hash_cap>>
      /\ UNCHANGED <<pair_hash, ready>>
  BY DEF EnterPiece, file, hash
<1>2. /\ IndexTypeOK /\ entered \in [pieces : Nat, lines : Nat] /\ k \in Nat
      /\ hash_cap \in Nat \ {0} /\ vocab \in Seq(Pieces) /\ Len(vocab) \in Nat
  BY <1>1 DEF IndexInv, IndexTypeOK
<1>3. /\ entered' \in [pieces : Nat, lines : Nat]
      /\ entered'.pieces = k + 1 /\ entered'.lines = entered.lines
  BY <1>1, <1>2
<1>4. entered.lines = 0 /\ ~ready
  BY <1>1, <1>2 DEF IndexInv, Progress
<1>5. piece \in Pieces /\ start \in Slots(hash_cap)
  <2>1. piece \in Pieces
    BY <1>1, <1>2
  <2>2. QED
    BY <1>2, <2>1, HomesAreSlots
<1>6. IndexTypeOK'
  BY <1>1, <1>2, <1>3 DEF IndexTypeOK
<1>7. ArraysHold'
  BY <1>1 DEF IndexInv, ArraysHold
<1>8. Progress'
  BY <1>1, <1>2, <1>3, <1>4 DEF IndexInv, Progress
<1>9. PairsEntered'
  <2>1. PairsEntered
    BY DEF IndexInv
  <2>2. PairFrom' = PairFrom /\ PairRank' = PairRank
    BY <1>1 DEF PairFrom, PairRank, PairHome
  <2>3. entered'.lines = 0
    BY <1>3, <1>4
  <2>4. DOMAIN pair_hash = {} /\ DOMAIN pair_hash' = {}
    <3>1. 1 .. entered.lines = {}
      BY <1>4
    <3>2. DOMAIN pair_hash = {}
      BY <2>1, <3>1 DEF PairsEntered
    <3>3. QED
      BY <1>1, <3>2
  <2>5. QED
    BY <2>3, <2>4 DEF PairsEntered, Probed
<1> HIDE DEF start, piece
<1>10. PICK f \in Slots(hash_cap) \ DOMAIN vocab_hash :
         /\ DOMAIN vocab_hash' = DOMAIN vocab_hash \union {f}
         /\ vocab_hash'[f] = k
         /\ \A s \in DOMAIN vocab_hash : vocab_hash'[s] = vocab_hash[s]
         /\ \A t \in Slots(hash_cap) \ DOMAIN vocab_hash :
              Away(hash_cap, start, f) <= Away(hash_cap, start, t)
  <2>1. DOMAIN vocab_hash \subseteq Slots(hash_cap) /\ Slots(hash_cap) \ DOMAIN vocab_hash # {}
    BY <1>2, PieceEntries, SlotsLeft
  <2>2. QED
    BY <1>1, <1>2, <1>5, <2>1, PutFills
<1>11. /\ DOMAIN vocab_hash' \subseteq Slots(hash_cap)
       /\ \A s \in DOMAIN vocab_hash' : vocab_hash'[s] \in Slots(k + 1)
       /\ \A i \in Slots(k + 1) : \E s \in DOMAIN vocab_hash' : vocab_hash'[s] = i
  <2>1. /\ DOMAIN vocab_hash \subseteq Slots(hash_cap)
        /\ \A s \in DOMAIN vocab_hash : vocab_hash[s] \in Slots(k)
    BY <1>2, PieceEntries
  <2>2. \A i \in Slots(k) : \E s \in DOMAIN vocab_hash : vocab_hash[s] = i
    BY DEF IndexInv, PiecesEntered, Slots
  <2>3. Slots(k + 1) = Slots(k) \union {k}
    BY <1>2 DEF Slots
  <2>4. QED
    BY <1>10, <2>1, <2>2, <2>3
<1>12. Probed(hash_cap, DOMAIN vocab_hash', PieceFrom', vocab_hash')
  <2> DEFINE from == PieceFrom
             from2 == [s \in DOMAIN vocab_hash' |-> PieceHome(vocab[vocab_hash'[s] + 1])]
             taken == DOMAIN vocab_hash
  <2>1. PieceFrom' = from2
    BY <1>1 DEF PieceFrom, PieceHome
  <2>2. \A s \in taken : /\ from[s] = PieceHome(vocab[vocab_hash[s] + 1])
                         /\ from[s] \in Slots(hash_cap)
                         /\ vocab_hash[s] \in Nat /\ vocab_hash[s] < k
    BY <1>2, PieceEntries DEF Slots
  <2>3. from2[f] = start /\ \A s \in taken : from2[s] = from[s]
    BY <1>10, <2>2 DEF start, piece
  <2>4. Probed(hash_cap, taken, from, vocab_hash) /\ taken \in SUBSET Slots(hash_cap)
    BY <1>2, PieceEntries
  <2> HIDE DEF from, from2, taken
  <2>5. Probed(hash_cap, taken \union {f}, from2, vocab_hash')
    <3>1. \A s \in taken : vocab_hash'[s] = vocab_hash[s]
      BY <1>10 DEF taken
    <3>2. f \in Slots(hash_cap) \ taken /\ vocab_hash'[f] = k
      BY <1>10 DEF taken
    <3>3. \A t \in Slots(hash_cap) \ taken :
            Away(hash_cap, start, f) <= Away(hash_cap, start, t)
      BY <1>10 DEF taken
    <3>4. /\ \A s \in taken : from[s] \in Slots(hash_cap) /\ vocab_hash[s] \in Nat /\ vocab_hash[s] < k
          /\ \A s \in taken : from2[s] = from[s] /\ vocab_hash'[s] = vocab_hash[s]
      BY <2>2, <2>3, <3>1
    <3>5. QED
      BY <1>2, <1>5, <2>3, <2>4, <3>2, <3>3, <3>4, ProbedWithEntry
  <2>6. QED
    BY <1>10, <2>1, <2>5 DEF taken
<1>13. PiecesEntered'
  BY <1>1, <1>3, <1>11, <1>12 DEF PiecesEntered, Slots
<1>14. QED
  BY <1>6, <1>7, <1>8, <1>9, <1>13 DEF IndexInv

\* A merge line is entered by the ids of its halves, or not at all.
LEMMA EnterMergeKeeps ==
  ASSUME IndexAssumption, IndexInv, EnterMerge
  PROVE  IndexInv'
<1> DEFINE k == entered.lines
<1>1. /\ hash_cap > 0 /\ entered.pieces = Len(vocab) /\ k < Len(merge_lines)
      /\ entered' = [entered EXCEPT !.lines = k + 1]
      /\ UNCHANGED <<vocab, merge_lines, vocab_cap, merge_cap, home, spread, hash_cap>>
      /\ UNCHANGED <<vocab_hash, ready>>
  BY DEF EnterMerge, file, hash
<1>2. /\ IndexTypeOK /\ entered \in [pieces : Nat, lines : Nat] /\ k \in Nat
      /\ hash_cap \in Nat \ {0} /\ Len(vocab) \in Nat /\ Len(merge_lines) \in Nat
      /\ k + 1 \in 1 .. Len(merge_lines)
  BY <1>1 DEF IndexInv, IndexTypeOK
<1>3. /\ entered' \in [pieces : Nat, lines : Nat]
      /\ entered'.pieces = entered.pieces /\ entered'.lines = k + 1
  BY <1>1, <1>2
<1>4. ~ready
  BY <1>1, <1>2 DEF IndexInv, Progress
<1>5. IndexTypeOK'
  BY <1>1, <1>2, <1>3 DEF IndexTypeOK
<1>6. ArraysHold'
  BY <1>1 DEF IndexInv, ArraysHold
<1>7. Progress'
  BY <1>1, <1>2, <1>3, <1>4 DEF IndexInv, Progress
<1>8. PiecesEntered'
  <2>1. PiecesEntered
    BY DEF IndexInv
  <2>2. PieceFrom' = PieceFrom
    BY <1>1 DEF PieceFrom, PieceHome
  <2>3. QED
    BY <1>1, <1>3, <2>1, <2>2 DEF PiecesEntered
<1> DEFINE L == LineEntry(k + 1)
<1>9. \A i : LineEntry(i)' = LineEntry(i)
  BY <1>1 DEF LineEntry, FirstId
<1>10. IF L = {} THEN pair_hash' = pair_hash
       ELSE \E e \in L : pair_hash' = Put(pair_hash, PairHome(e.left, e.right), e)
  <2>1. EntryOf(merge_lines[k + 1], (k + 1) - 1) = L
    BY <1>1, <1>2, EntryIsLineEntry
  <2>2. (k + 1) - 1 = k
    BY <1>2
  <2>3. EntryOf(merge_lines[k + 1], k) = L
    BY <2>1, <2>2
  <2> HIDE DEF L
  <2>4. QED
    BY <2>3 DEF EnterMerge
<1>11. 1 .. k + 1 = (1 .. k) \union {k + 1}
  BY <1>2
<1> DEFINE from == PairFrom
           number == PairRank
           taken == DOMAIN pair_hash
<1>12. /\ taken \subseteq Slots(hash_cap)
       /\ \A s \in taken : \E i \in 1 .. k : pair_hash[s] \in LineEntry(i)
       /\ \A i \in 1 .. k : \A e \in LineEntry(i) : \E s \in taken : pair_hash[s] = e
       /\ Probed(hash_cap, taken, from, number)
  BY DEF IndexInv, PairsEntered, Slots
<1>13. CASE L = {}
  <2>1. pair_hash' = pair_hash
    BY <1>10, <1>13
  <2>2. PairFrom' = from /\ PairRank' = number
    BY <1>1, <2>1 DEF PairFrom, PairRank, PairHome
  <2>3. /\ \A s \in taken : \E i \in 1 .. k + 1 : pair_hash[s] \in LineEntry(i)
        /\ \A i \in 1 .. k + 1 : \A e \in LineEntry(i) : \E s \in taken : pair_hash[s] = e
    BY <1>11, <1>12, <1>13
  <2> HIDE DEF L, from, number
  <2>4. PairsEntered'
    BY <1>1, <1>3, <1>9, <1>12, <2>1, <2>2, <2>3 DEF PairsEntered, Slots
  <2>5. QED
    BY <1>5, <1>6, <1>7, <1>8, <2>4 DEF IndexInv
<1>14. CASE L # {}
  <2>1. PICK e \in L : pair_hash' = Put(pair_hash, PairHome(e.left, e.right), e)
    BY <1>10, <1>14
  <2> DEFINE start == PairHome(e.left, e.right)
  <2>2. e.left \in Nat /\ e.right \in Nat /\ e.rank = k /\ L = {e}
    BY <1>2, LineEntries
  <2>3. start \in Slots(hash_cap)
    BY <1>2, <2>2, HomesAreSlots
  <2> HIDE DEF start
  <2>4. PICK f \in Slots(hash_cap) \ taken :
          /\ DOMAIN pair_hash' = taken \union {f}
          /\ pair_hash'[f] = e
          /\ \A s \in taken : pair_hash'[s] = pair_hash[s]
          /\ \A t \in Slots(hash_cap) \ taken :
               Away(hash_cap, start, f) <= Away(hash_cap, start, t)
    <3>1. Slots(hash_cap) \ taken # {}
      BY <1>2, SlotsLeft
    <3>2. pair_hash' = Put(pair_hash, start, e)
      BY <2>1 DEF start
    <3>3. QED
      BY <1>2, <1>12, <2>3, <3>1, <3>2, PutFills
  <2> HIDE DEF L
  <2>5. /\ DOMAIN pair_hash' \subseteq Slots(hash_cap)
        /\ \A s \in DOMAIN pair_hash' : \E i \in 1 .. k + 1 : pair_hash'[s] \in LineEntry(i)
        /\ \A i \in 1 .. k + 1 : \A d \in LineEntry(i) :
             \E s \in DOMAIN pair_hash' : pair_hash'[s] = d
    <3>1. e \in LineEntry(k + 1) /\ LineEntry(k + 1) = {e}
      BY <2>2 DEF L
    <3>2. QED
      BY <1>11, <1>12, <2>4, <3>1
  <2>6. Probed(hash_cap, DOMAIN pair_hash', PairFrom', PairRank')
    <3> DEFINE from2 == [s \in DOMAIN pair_hash' |-> PairHome(pair_hash'[s].left, pair_hash'[s].right)]
               number2 == [s \in DOMAIN pair_hash' |-> pair_hash'[s].rank]
    <3>1. PairFrom' = from2 /\ PairRank' = number2
      BY <1>1 DEF PairFrom, PairRank, PairHome
    <3>2. \A s \in taken : /\ from[s] = PairHome(pair_hash[s].left, pair_hash[s].right)
                           /\ number[s] = pair_hash[s].rank
                           /\ from[s] \in Slots(hash_cap)
                           /\ number[s] \in Nat /\ number[s] < k
      BY <1>2, PairEntries DEF Slots
    <3>3. from2[f] = start /\ \A s \in taken : from2[s] = from[s]
      BY <2>4, <3>2 DEF start
    <3>4. number2[f] = k /\ \A s \in taken : number2[s] = number[s]
      BY <2>2, <2>4, <3>2
    <3> HIDE DEF from, from2, number, number2, taken
    <3>5. /\ \A s \in taken : from[s] \in Slots(hash_cap) /\ number[s] \in Nat /\ number[s] < k
          /\ \A s \in taken : from2[s] = from[s] /\ number2[s] = number[s]
      BY <3>2, <3>3, <3>4
    <3>6. Probed(hash_cap, taken \union {f}, from2, number2)
      BY <1>2, <1>12, <2>3, <2>4, <3>3, <3>4, <3>5, ProbedWithEntry
    <3>7. QED
      BY <2>4, <3>1, <3>6
  <2>7. PairsEntered'
    BY <1>1, <1>3, <1>9, <2>5, <2>6 DEF PairsEntered, Slots
  <2>8. QED
    BY <1>5, <1>6, <1>7, <1>8, <2>7 DEF IndexInv
<1>15. QED
  BY <1>13, <1>14

\* What neither the arrays nor the tables change in keeps them as they are.
LEMMA IndexUnchanged ==
  ASSUME IndexInv, UNCHANGED <<file, hash, hash_cap, vocab_hash, pair_hash, entered>>,
         (ready => hash_cap # 0 /\ entered.pieces = Len(vocab) /\ entered.lines = Len(merge_lines))'
  PROVE  IndexInv'
<1>1. /\ UNCHANGED <<vocab, merge_lines, vocab_cap, merge_cap, home, spread>>
      /\ UNCHANGED <<hash_cap, vocab_hash, pair_hash, entered>>
  BY DEF file, hash
<1>2. IndexTypeOK' /\ ArraysHold'
  BY <1>1 DEF IndexInv, IndexTypeOK, ArraysHold
<1>3. PiecesEntered'
  <2>1. PieceFrom' = PieceFrom
    BY <1>1 DEF PieceFrom, PieceHome
  <2>2. QED
    BY <1>1, <2>1 DEF IndexInv, PiecesEntered
<1>4. PairsEntered'
  <2>1. PairFrom' = PairFrom /\ PairRank' = PairRank
    BY <1>1 DEF PairFrom, PairRank, PairHome
  <2>2. \A i : LineEntry(i)' = LineEntry(i)
    BY <1>1 DEF LineEntry, FirstId
  <2>3. QED
    BY <1>1, <2>1, <2>2 DEF IndexInv, PairsEntered
<1>5. Progress'
  <2>1. CASE ready'
    <3>1. hash_cap # 0 /\ entered.pieces = Len(vocab) /\ entered.lines = Len(merge_lines)
      BY <1>1, <2>1
    <3>2. Progress /\ entered.lines \in Nat /\ entered.pieces \in Nat
      BY DEF IndexInv, IndexTypeOK
    <3>3. QED
      BY <1>1, <2>1, <3>1, <3>2 DEF Progress
  <2>2. CASE ~ready'
    BY <1>1, <2>2 DEF IndexInv, Progress
  <2>3. QED
    BY <2>1, <2>2
<1>6. QED
  BY <1>2, <1>3, <1>4, <1>5 DEF IndexInv

\* The invariant of the tables: the arrays and hash functions are of their types,
\* fewer entries than slots are there or to come, and what was entered by
\* edgexpu_tokenizer_build_index is in reach from its home, the earlier of two
\* entries with one home the nearer.
THEOREM IndexInvariant ==
  ASSUME IndexAssumption
  PROVE  IndexSpec => []IndexInv
<1>1. IndexInit => IndexInv
  BY IndexInitHolds
<1>2. IndexInv /\ [IndexNext]_index_vars => IndexInv'
  <2> SUFFICES ASSUME IndexInv, [IndexNext]_index_vars
               PROVE  IndexInv'
    OBVIOUS
  <2>1. CASE Reserve \/ ReserveLines \/ AppendPiece \/ AppendMergeLine
    BY <2>1, LoadKeeps
  <2>2. CASE Allocate
    BY <2>2, AllocateKeeps
  <2>3. CASE EnterPiece
    BY <2>3, EnterPieceKeeps
  <2>4. CASE EnterMerge
    BY <2>4, EnterMergeKeeps
  <2>5. CASE BuildDone
    <3>1. UNCHANGED <<file, hash, hash_cap, vocab_hash, pair_hash, entered>>
      BY <2>5 DEF BuildDone
    <3>2. hash_cap # 0 /\ entered.pieces = Len(vocab) /\ entered.lines = Len(merge_lines)
      BY <2>5 DEF BuildDone, IndexInv, IndexTypeOK
    <3>3. (ready => hash_cap # 0 /\ entered.pieces = Len(vocab) /\ entered.lines = Len(merge_lines))'
      BY <3>1, <3>2 DEF file
    <3>4. QED
      BY <3>1, <3>3, IndexUnchanged
  <2>6. CASE UNCHANGED index_vars
    <3>1. UNCHANGED <<file, hash, hash_cap, vocab_hash, pair_hash, entered>> /\ ready' = ready
      BY <2>6 DEF index_vars, table
    <3>2. ready => hash_cap # 0 /\ entered.pieces = Len(vocab) /\ entered.lines = Len(merge_lines)
      BY DEF IndexInv, IndexTypeOK, Progress
    <3>3. (ready => hash_cap # 0 /\ entered.pieces = Len(vocab) /\ entered.lines = Len(merge_lines))'
      BY <3>1, <3>2 DEF file
    <3>4. QED
      BY <3>1, <3>3, IndexUnchanged
  <2>7. QED
    BY <2>1, <2>2, <2>3, <2>4, <2>5, <2>6 DEF IndexNext
<1>3. QED
  BY <1>1, <1>2, PTL DEF IndexSpec

\* Whatever the hash functions and the file, the tables of the tokenizer never fill
\* up, vocab_lookup finds each piece under its first id and no other, and
\* pair_lookup finds for two ids the first merge line that joins their pieces.
THEOREM IndexFindsAll ==
  ASSUME IndexAssumption
  PROVE  IndexSpec => []IndexExact
<1>1. IndexInv => IndexExact
  BY InvariantIsExact
<1>2. QED
  BY <1>1, IndexInvariant, PTL

-----------------------------------------------------------------------------
(* The mass of a set of tokens.                                            *)

\* Every token has a weight.
Weighted == Tokens \in Nat \ {0} /\ weight \in [Ids -> Nat]

\* What the tokens weigh that belong to a set.
Part(ids) == [i \in 1 .. Tokens |-> IF i - 1 \in ids THEN weight[i - 1] ELSE 0]

\* The running sums of what is counted for a set.
LEMMA MassIsSum ==
  ASSUME Weighted, NEW ids
  PROVE  /\ \A i \in 1 .. Tokens : Part(ids)[i] \in Nat
         /\ IsSums(Sums(Part(ids), Tokens), Part(ids), Tokens)
         /\ Mass(ids) = Sums(Part(ids), Tokens)[Tokens]
         /\ Mass(ids) \in Nat
<1>1. \A i \in 1 .. Tokens : Part(ids)[i] \in Nat
  BY DEF Part, Weighted, Ids
<1>2. IsSums(Sums(Part(ids), Tokens), Part(ids), Tokens)
  BY <1>1, SumsEquation DEF Weighted
<1>3. Mass(ids) = Sums(Part(ids), Tokens)[Tokens]
  BY DEF Mass, Part
<1>4. Mass(ids) \in Nat
  BY <1>2, <1>3 DEF IsSums, Weighted
<1>5. QED
  BY <1>1, <1>2, <1>3, <1>4

\* Sums of sizes that are added up part by part.
LEMMA SumsCombine ==
  ASSUME NEW n \in Nat, NEW a, NEW b, NEW c, NEW A, NEW B, NEW C,
         IsSums(A, a, n), IsSums(B, b, n), IsSums(C, c, n),
         \A i \in 1 .. n : a[i] \in Nat /\ b[i] \in Nat /\ c[i] = a[i] + b[i]
  PROVE  C[n] = A[n] + B[n]
<1> DEFINE S == {i \in 0 .. n : C[i] = A[i] + B[i]}
<1>1. 0 \in S
  BY DEF IsSums
<1>2. ASSUME NEW i \in 1 .. n, i - 1 \in S PROVE i \in S
  <2>1. /\ A[i - 1] \in Nat /\ B[i - 1] \in Nat /\ C[i - 1] = A[i - 1] + B[i - 1]
        /\ A[i] = A[i - 1] + a[i] /\ B[i] = B[i - 1] + b[i] /\ C[i] = C[i - 1] + c[i]
    BY <1>2 DEF IsSums
  <2>2. QED
    BY <2>1
<1>3. \A i \in 0 .. n : i \in S
  <2> HIDE DEF S
  <2>1. QED
    BY <1>1, <1>2, UpTo
<1>4. QED
  BY <1>3

\* Two sets without a common token weigh what they weigh together.
LEMMA MassUnion ==
  ASSUME Weighted, NEW ids, NEW more, ids \cap more = {}
  PROVE  Mass(ids \union more) = Mass(ids) + Mass(more)
<1>1. \A i \in 1 .. Tokens :
        /\ Part(ids)[i] \in Nat /\ Part(more)[i] \in Nat
        /\ Part(ids \union more)[i] = Part(ids)[i] + Part(more)[i]
  <2>1. TAKE i \in 1 .. Tokens
  <2>2. weight[i - 1] \in Nat
    BY DEF Weighted, Ids
  <2>3. QED
    BY <2>2 DEF Part
<1> DEFINE both == ids \union more
           A == Sums(Part(ids), Tokens)
           B == Sums(Part(more), Tokens)
           C == Sums(Part(both), Tokens)
<1>2. /\ IsSums(A, Part(ids), Tokens) /\ Mass(ids) = A[Tokens]
      /\ IsSums(B, Part(more), Tokens) /\ Mass(more) = B[Tokens]
      /\ IsSums(C, Part(both), Tokens) /\ Mass(both) = C[Tokens]
  BY MassIsSum
<1>3. C[Tokens] = A[Tokens] + B[Tokens]
  <2>1. Tokens \in Nat
    BY DEF Weighted
  <2> HIDE DEF A, B, C
  <2>2. QED
    BY <1>1, <1>2, <2>1, SumsCombine
<1>4. QED
  BY <1>2, <1>3

\* No tokens weigh nothing.
LEMMA MassEmpty ==
  ASSUME Weighted
  PROVE  Mass({}) = 0
BY MassUnion, MassIsSum

\* A set weighs at least what its part weighs.
LEMMA MassGrows ==
  ASSUME Weighted, NEW ids, NEW more, ids \subseteq more
  PROVE  Mass(ids) <= Mass(more)
<1>1. Mass(ids \union (more \ ids)) = Mass(ids) + Mass(more \ ids)
  BY MassUnion
<1>2. ids \union (more \ ids) = more
  OBVIOUS
<1>3. Mass(ids) \in Nat /\ Mass(more) \in Nat /\ Mass(more \ ids) \in Nat
  BY MassIsSum
<1>4. Mass(more) = Mass(ids) + Mass(more \ ids)
  BY <1>1, <1>2, Zenon
<1>5. QED
  BY <1>3, <1>4

\* One token weighs its weight.
LEMMA MassOfOne ==
  ASSUME Weighted, NEW id \in Ids
  PROVE  Mass({id}) = weight[id]
<1> DEFINE F == Sums(Part({id}), Tokens)
           S == {i \in 0 .. Tokens : F[i] = IF id < i THEN weight[id] ELSE 0}
<1>1. IsSums(F, Part({id}), Tokens) /\ Mass({id}) = F[Tokens]
  BY MassIsSum
<1>2. weight[id] \in Nat /\ id \in Int /\ 0 <= id /\ id < Tokens /\ Tokens \in Nat
  BY DEF Weighted, Ids
<1>3. \A i \in 1 .. Tokens : Part({id})[i] = IF i - 1 = id THEN weight[id] ELSE 0
  BY DEF Part
<1> HIDE DEF F
<1>4. 0 \in S
  BY <1>1, <1>2 DEF IsSums
<1>5. ASSUME NEW i \in 1 .. Tokens, i - 1 \in S PROVE i \in S
  <2>1. F[i] = F[i - 1] + IF i - 1 = id THEN weight[id] ELSE 0
    BY <1>1, <1>3 DEF IsSums
  <2>2. F[i - 1] = IF id < i - 1 THEN weight[id] ELSE 0
    BY <1>5
  <2>3. QED
    BY <2>1, <2>2, <1>2
<1>6. \A i \in 0 .. Tokens : i \in S
  <2> HIDE DEF S
  <2>1. QED
    BY <1>2, <1>4, <1>5, UpTo
<1>7. F[Tokens] = weight[id]
  BY <1>2, <1>6
<1>8. QED
  BY <1>1, <1>7

\* One token more weighs its weight more.
LEMMA MassWithOne ==
  ASSUME Weighted, NEW ids, NEW id \in Ids, id \notin ids
  PROVE  Mass(ids \union {id}) = Mass(ids) + weight[id]
<1>1. ids \cap {id} = {}
  OBVIOUS
<1>2. QED
  BY <1>1, MassUnion, MassOfOne

-----------------------------------------------------------------------------
(* Mass and number of tokens.                                              *)

\* The tokens of a set below an id.
Below(ids, i) == {id \in ids : id < i}

\* A set of tokens can be counted.
LEMMA IdsFinite ==
  ASSUME Weighted, NEW ids \in SUBSET Ids
  PROVE  IsFiniteSet(ids) /\ Cardinality(ids) \in Nat
<1>1. IsFiniteSet(Ids)
  BY FS_Interval DEF Ids, Weighted
<1>2. QED
  BY <1>1, FS_Subset, FS_CardinalityType

\* With the next id a set gains that token, if it has it.
LEMMA BelowGrows ==
  ASSUME Weighted, NEW ids \in SUBSET Ids, NEW i \in 1 .. Tokens
  PROVE  /\ i - 1 \notin ids => Below(ids, i) = Below(ids, i - 1)
         /\ i - 1 \in ids =>
              /\ Mass(Below(ids, i)) = Mass(Below(ids, i - 1)) + weight[i - 1]
              /\ Cardinality(Below(ids, i)) = Cardinality(Below(ids, i - 1)) + 1
         /\ Mass(Below(ids, i - 1)) \in Nat /\ Cardinality(Below(ids, i - 1)) \in Nat
<1>1. Tokens \in Nat /\ \A id \in ids : id \in Int
  BY DEF Weighted, Ids
<1>2. ASSUME i - 1 \notin ids PROVE Below(ids, i) = Below(ids, i - 1)
  BY <1>1, <1>2 DEF Below
<1>3. Below(ids, i - 1) \in SUBSET Ids
  BY DEF Below
<1>4. ASSUME i - 1 \in ids
      PROVE  /\ Mass(Below(ids, i)) = Mass(Below(ids, i - 1)) + weight[i - 1]
             /\ Cardinality(Below(ids, i)) = Cardinality(Below(ids, i - 1)) + 1
  <2>1. Below(ids, i) = Below(ids, i - 1) \union {i - 1} /\ i - 1 \notin Below(ids, i - 1)
    BY <1>1, <1>4 DEF Below
  <2>2. i - 1 \in Ids
    BY <1>4
  <2>3. QED
    BY <1>3, <2>1, <2>2, MassWithOne, IdsFinite, FS_AddElement
<1>5. QED
  BY <1>2, <1>3, <1>4, MassIsSum, IdsFinite

\* From id to id up to all of them.
LEMMA BelowAll ==
  ASSUME Weighted, NEW ids \in SUBSET Ids
  PROVE  Below(ids, 0) = {} /\ Below(ids, Tokens) = ids
<1>1. \A id \in ids : ~(id < 0) /\ id < Tokens
  BY DEF Ids, Weighted
<1>2. QED
  BY <1>1 DEF Below

\* A set of tokens none of which weighs more than a limit.
LEMMA MassAtMost ==
  ASSUME Weighted, NEW ids \in SUBSET Ids, NEW limit \in Nat,
         \A id \in ids : weight[id] <= limit
  PROVE  Mass(ids) <= limit * Cardinality(ids)
<1> DEFINE M(i) == Mass(Below(ids, i))
           C(i) == Cardinality(Below(ids, i))
           S == {i \in 0 .. Tokens : M(i) <= limit * C(i)}
<1>1. 0 \in S
  <2>1. Below(ids, 0) = {}
    BY BelowAll
  <2>2. M(0) = 0 /\ C(0) = 0
    BY <2>1, MassEmpty, FS_EmptySet
  <2>3. 0 \in 0 .. Tokens
    BY DEF Weighted
  <2> HIDE DEF M, C
  <2>4. QED
    BY <2>2, <2>3
<1>2. ASSUME NEW i \in 1 .. Tokens, i - 1 \in S PROVE i \in S
  <2>1. M(i - 1) \in Nat /\ C(i - 1) \in Nat
    BY BelowGrows
  <2>2. M(i - 1) <= limit * C(i - 1) /\ i \in 0 .. Tokens
    BY <1>2
  <2>3. CASE i - 1 \in ids
    <3>1. M(i) = M(i - 1) + weight[i - 1] /\ C(i) = C(i - 1) + 1
      BY <2>3, BelowGrows
    <3>2. weight[i - 1] <= limit /\ weight[i - 1] \in Nat
      BY <2>3 DEF Weighted
    <3> HIDE DEF M, C
    <3>3. limit * C(i) = limit * C(i - 1) + limit /\ limit * C(i - 1) \in Nat
      BY <2>1, <3>1
    <3> DEFINE old == limit * C(i - 1)
               new == limit * C(i)
    <3>4. new = old + limit /\ old \in Nat /\ M(i - 1) <= old
      BY <3>3, <2>2
    <3> HIDE DEF old, new
    <3>5. M(i) <= new
      BY <2>1, <3>1, <3>2, <3>4
    <3>6. QED
      BY <2>2, <3>5 DEF new
  <2>4. CASE i - 1 \notin ids
    <3>1. Below(ids, i) = Below(ids, i - 1)
      BY <2>4, BelowGrows
    <3>2. QED
      BY <2>2, <3>1
  <2>5. QED
    BY <2>3, <2>4, Zenon
<1>3. \A i \in 0 .. Tokens : i \in S
  <2>1. Tokens \in Nat
    BY DEF Weighted
  <2> HIDE DEF S
  <2>2. QED
    BY <1>1, <1>2, <2>1, UpTo
<1>4. Tokens \in 0 .. Tokens
  BY DEF Weighted
<1>5. QED
  BY <1>3, <1>4, BelowAll

\* A set of tokens none of which weighs less than a limit.
LEMMA MassAtLeast ==
  ASSUME Weighted, NEW ids \in SUBSET Ids, NEW limit \in Nat,
         \A id \in ids : limit <= weight[id]
  PROVE  limit * Cardinality(ids) <= Mass(ids)
<1> DEFINE M(i) == Mass(Below(ids, i))
           C(i) == Cardinality(Below(ids, i))
           S == {i \in 0 .. Tokens : limit * C(i) <= M(i)}
<1>1. 0 \in S
  <2>1. Below(ids, 0) = {}
    BY BelowAll
  <2>2. M(0) = 0 /\ C(0) = 0
    BY <2>1, MassEmpty, FS_EmptySet
  <2>3. 0 \in 0 .. Tokens
    BY DEF Weighted
  <2> HIDE DEF M, C
  <2>4. QED
    BY <2>2, <2>3
<1>2. ASSUME NEW i \in 1 .. Tokens, i - 1 \in S PROVE i \in S
  <2>1. M(i - 1) \in Nat /\ C(i - 1) \in Nat
    BY BelowGrows
  <2>2. limit * C(i - 1) <= M(i - 1) /\ i \in 0 .. Tokens
    BY <1>2
  <2>3. CASE i - 1 \in ids
    <3>1. M(i) = M(i - 1) + weight[i - 1] /\ C(i) = C(i - 1) + 1
      BY <2>3, BelowGrows
    <3>2. limit <= weight[i - 1] /\ weight[i - 1] \in Nat
      BY <2>3 DEF Weighted
    <3> HIDE DEF M, C
    <3>3. limit * C(i) = limit * C(i - 1) + limit /\ limit * C(i - 1) \in Nat
      BY <2>1, <3>1
    <3> DEFINE old == limit * C(i - 1)
               new == limit * C(i)
    <3>4. new = old + limit /\ old \in Nat /\ old <= M(i - 1)
      BY <3>3, <2>2
    <3> HIDE DEF old, new
    <3>5. new <= M(i)
      BY <2>1, <3>1, <3>2, <3>4
    <3>6. QED
      BY <2>2, <3>5 DEF new
  <2>4. CASE i - 1 \notin ids
    <3>1. Below(ids, i) = Below(ids, i - 1)
      BY <2>4, BelowGrows
    <3>2. QED
      BY <2>2, <3>1
  <2>5. QED
    BY <2>3, <2>4, Zenon
<1>3. \A i \in 0 .. Tokens : i \in S
  <2>1. Tokens \in Nat
    BY DEF Weighted
  <2> HIDE DEF S
  <2>2. QED
    BY <1>1, <1>2, <2>1, UpTo
<1>4. Tokens \in 0 .. Tokens
  BY DEF Weighted
<1>5. QED
  BY <1>3, <1>4, BelowAll

-----------------------------------------------------------------------------
(* The walk over the tokens.                                               *)

\* An order in which every token occurs once.
Arranged(order) ==
  /\ order \in [1 .. Tokens -> Ids]
  /\ \A i, j \in 1 .. Tokens : i # j => order[i] # order[j]

\* The first i tokens of an order.
Walked(order, i) == {order[j] : j \in 1 .. i}

\* The sum of the walk grows by the weight of each token.
LEMMA RunningSums ==
  ASSUME Weighted, NEW order, Arranged(order)
  PROVE  /\ Running(order) \in [0 .. Tokens -> Nat] /\ Running(order)[0] = 0
         /\ \A i \in 1 .. Tokens :
              Running(order)[i] = Running(order)[i - 1] + weight[order[i]]
         /\ \A a, b \in 0 .. Tokens : a <= b => Running(order)[a] <= Running(order)[b]
<1> DEFINE size == [i \in 1 .. Tokens |-> weight[order[i]]]
<1>1. \A i \in 1 .. Tokens : size[i] \in Nat /\ size[i] = weight[order[i]]
  BY DEF Weighted, Arranged
<1>2. Running(order) = Sums(size, Tokens) /\ Tokens \in Nat
  BY DEF Running, Weighted
<1> HIDE DEF size
<1>3. IsSums(Running(order), size, Tokens)
  BY <1>1, <1>2, SumsEquation
<1>4. \A a, b \in 0 .. Tokens : a <= b => Running(order)[a] <= Running(order)[b]
  BY <1>1, <1>2, <1>3, SumsGrow
<1>5. QED
  BY <1>1, <1>3, <1>4 DEF IsSums

\* It is the mass of the tokens walked, and these are as many as the steps.
LEMMA WalkedMass ==
  ASSUME Weighted, NEW order, Arranged(order)
  PROVE  \A i \in 0 .. Tokens :
           /\ Walked(order, i) \in SUBSET Ids
           /\ Running(order)[i] = Mass(Walked(order, i))
           /\ Cardinality(Walked(order, i)) = i
<1> DEFINE S == {i \in 0 .. Tokens : /\ Walked(order, i) \in SUBSET Ids
                                     /\ Running(order)[i] = Mass(Walked(order, i))
                                     /\ Cardinality(Walked(order, i)) = i}
<1>1. 0 \in S
  <2>1. Walked(order, 0) = {}
    BY DEF Walked
  <2>2. 0 \in 0 .. Tokens
    BY DEF Weighted
  <2>3. QED
    BY <2>1, <2>2, MassEmpty, FS_EmptySet, RunningSums
<1>2. ASSUME NEW i \in 1 .. Tokens, i - 1 \in S PROVE i \in S
  <2> DEFINE W == Walked(order, i - 1)
  <2>1. W \in SUBSET Ids /\ Running(order)[i - 1] = Mass(W) /\ Cardinality(W) = i - 1
    BY <1>2
  <2>2. Walked(order, i) = W \union {order[i]} /\ order[i] \notin W
    <3>1. \A j \in 1 .. i : j \in 1 .. i - 1 \/ j = i
      OBVIOUS
    <3>2. \A j \in 1 .. i - 1 : j \in 1 .. i /\ j \in 1 .. Tokens /\ j # i
      BY DEF Weighted
    <3>3. i \in 1 .. i
      OBVIOUS
    <3>4. QED
      BY <3>1, <3>2, <3>3 DEF Walked, Arranged
  <2>3. order[i] \in Ids
    BY DEF Arranged
  <2> HIDE DEF W
  <2>4. Mass(Walked(order, i)) = Mass(W) + weight[order[i]]
    BY <2>1, <2>2, <2>3, MassWithOne, Zenon
  <2>5. Cardinality(Walked(order, i)) = (i - 1) + 1
    <3>1. IsFiniteSet(W)
      BY <2>1, IdsFinite
    <3>2. QED
      BY <2>1, <2>2, <3>1, FS_AddElement
  <2>6. Running(order)[i] = Running(order)[i - 1] + weight[order[i]]
    BY RunningSums
  <2>7. Walked(order, i) \in SUBSET Ids
    BY <2>1, <2>2, <2>3
  <2>8. QED
    BY <2>1, <2>4, <2>5, <2>6, <2>7
<1>3. \A i \in 0 .. Tokens : i \in S
  <2>1. Tokens \in Nat
    BY DEF Weighted
  <2> HIDE DEF S
  <2>2. QED
    BY <1>1, <1>2, <2>1, UpTo
<1>4. QED
  BY <1>3

\* The whole walk meets every token.
LEMMA WalkedAll ==
  ASSUME Weighted, NEW order, Arranged(order)
  PROVE  /\ Walked(order, Tokens) = Ids
         /\ Running(order)[Tokens] = Mass(Ids)
         /\ \A id \in Ids : \E i \in 1 .. Tokens : order[i] = id
<1>1. Tokens \in 0 .. Tokens
  BY DEF Weighted
<1>2. /\ Walked(order, Tokens) \in SUBSET Ids
      /\ Running(order)[Tokens] = Mass(Walked(order, Tokens))
      /\ Cardinality(Walked(order, Tokens)) = Tokens
  BY <1>1, WalkedMass
<1>3. IsFiniteSet(Ids) /\ Cardinality(Ids) = Tokens
  BY FS_Interval DEF Ids, Weighted
<1>4. Walked(order, Tokens) = Ids
  BY <1>2, <1>3, FS_Subset
<1>5. QED
  BY <1>2, <1>4 DEF Walked

\* A token behind another one in sorted order weighs no more.
LEMMA SortedFalls ==
  ASSUME Weighted, NEW order, Arranged(order), Sorted(order),
         NEW i \in 1 .. Tokens, NEW j \in 1 .. Tokens, i <= j
  PROVE  weight[order[j]] <= weight[order[i]]
<1>1. weight[order[i]] \in Nat /\ weight[order[j]] \in Nat
  BY DEF Weighted, Arranged
<1>2. CASE i = j
  BY <1>1, <1>2
<1>3. CASE i < j
  BY <1>1, <1>3 DEF Sorted, Before
<1>4. QED
  BY <1>2, <1>3

\* The first k tokens in sorted order are a heaviest set of k tokens: a token
\* outside weighs at most as much as the last of them, one inside at least as much.
LEMMA HeaviestSet ==
  ASSUME Weighted, NEW order, Arranged(order), Sorted(order),
         NEW k \in 0 .. Tokens, NEW ids \in SUBSET Ids, Cardinality(ids) <= k
  PROVE  Mass(ids) <= Running(order)[k]
<1> DEFINE W == Walked(order, k)
<1>1. W \in SUBSET Ids /\ Running(order)[k] = Mass(W) /\ Cardinality(W) = k
  BY WalkedMass
<1>2. CASE k = 0
  <2>1. Cardinality(ids) = 0
    BY <1>2, IdsFinite
  <2>2. ids = {}
    BY <2>1, IdsFinite, FS_EmptySet
  <2>3. QED
    BY <1>2, <2>2, MassEmpty, RunningSums
<1>3. CASE k # 0
  <2> DEFINE limit == weight[order[k]]
             common == ids \cap W
             others == ids \ W
             missed == W \ ids
  <2>1. k \in 1 .. Tokens /\ order[k] \in Ids /\ limit \in Nat
    BY <1>3 DEF Arranged, Weighted
  <2>2. \A id \in others : weight[id] <= limit
    <3>1. TAKE id \in others
    <3>2. PICK j \in 1 .. Tokens : order[j] = id
      BY WalkedAll
    <3>3. ~(j <= k)
      BY <2>1, <3>2 DEF Walked
    <3>4. k <= j
      BY <2>1, <3>3
    <3>5. QED
      BY <2>1, <3>2, <3>4, SortedFalls
  <2>3. \A id \in missed : limit <= weight[id]
    <3>1. TAKE id \in missed
    <3>2. PICK j \in 1 .. k : order[j] = id
      BY DEF Walked
    <3>3. j \in 1 .. Tokens /\ j <= k
      BY <2>1, <3>2 DEF Weighted
    <3>4. QED
      BY <2>1, <3>2, <3>3, SortedFalls
  <2> HIDE DEF W, limit
  <2>4. /\ common \in SUBSET Ids /\ others \in SUBSET Ids /\ missed \in SUBSET Ids
        /\ common \union others = ids /\ common \cap others = {}
        /\ common \union missed = W /\ common \cap missed = {}
        /\ ids \cap W = common /\ W \cap ids = common
    BY <1>1
  <2>5. /\ Cardinality(others) = Cardinality(ids) - Cardinality(common)
        /\ Cardinality(missed) = Cardinality(W) - Cardinality(common)
    <3>1. IsFiniteSet(ids) /\ IsFiniteSet(W)
      BY <1>1, IdsFinite
    <3>2. /\ Cardinality(others) = Cardinality(ids) - Cardinality(ids \cap W)
          /\ Cardinality(missed) = Cardinality(W) - Cardinality(W \cap ids)
      BY <3>1, FS_Difference
    <3>3. W \cap ids = ids \cap W
      OBVIOUS
    <3>4. QED
      BY <3>2, <3>3
  <2>6. Mass(others) <= limit * Cardinality(others)
    BY <2>1, <2>2, <2>4, MassAtMost
  <2>7. limit * Cardinality(missed) <= Mass(missed)
    BY <2>1, <2>3, <2>4, MassAtLeast
  <2>8. /\ Mass(ids) = Mass(common) + Mass(others)
        /\ Mass(W) = Mass(common) + Mass(missed)
    <3>1. /\ Mass(common \union others) = Mass(common) + Mass(others)
          /\ Mass(common \union missed) = Mass(common) + Mass(missed)
      BY <2>4, MassUnion
    <3>2. common \union others = ids /\ common \union missed = W
      BY <2>4
    <3>3. QED
      BY <3>1, <3>2, Zenon
  <2>9. /\ Cardinality(ids) \in Nat /\ Cardinality(common) \in Nat
        /\ Cardinality(others) \in Nat /\ Cardinality(missed) \in Nat
    BY <2>4, IdsFinite
  <2>10. Mass(common) \in Nat /\ Mass(others) \in Nat /\ Mass(missed) \in Nat
    BY MassIsSum
  <2> HIDE DEF common, others, missed
  <2>11. Cardinality(others) <= Cardinality(missed)
    BY <1>1, <2>5, <2>9
  <2>12. limit * Cardinality(others) <= limit * Cardinality(missed)
    BY <2>1, <2>9, <2>11
  <2> DEFINE few == limit * Cardinality(others)
             more == limit * Cardinality(missed)
  <2>13. few \in Int /\ more \in Int
    BY <2>1, <2>9
  <2> HIDE DEF few, more
  <2>14. Mass(others) <= Mass(missed)
    <3>1. few <= more /\ Mass(others) <= few /\ more <= Mass(missed)
      BY <2>6, <2>7, <2>12 DEF few, more
    <3>2. QED
      BY <2>10, <2>13, <3>1
  <2>15. QED
    BY <1>1, <2>8, <2>10, <2>14
<1>4. QED
  BY <1>2, <1>3

-----------------------------------------------------------------------------
(* What is kept.                                                           *)

\* The constants, the weights of a softmax, and a top_p of a request.
SampleType ==
  /\ SamplerAssumption
  /\ weight \in [Ids -> 0 .. MaxWeight]
  /\ \E id \in Ids : weight[id] > 0
  /\ top_p \in TopPs

\* Where the walk may end: cut off, the first token with which the sum reaches
\* top_p, and otherwise the last one.
Cutting(order, k) ==
  IF Truncates
  THEN /\ Sorted(order) /\ Reaches(order, k)
       /\ \A i \in 1 .. k - 1 : ~Reaches(order, i)
  ELSE k = Tokens

\* The facts about the numbers that the proofs use; some token has a weight above
\* 0, so that all together have one.
LEMMA TypeGives ==
  ASSUME SampleType
  PROVE  /\ Weighted /\ top_p \in Int /\ Scale \in Nat \ {0} /\ Draws \in Nat \ {0}
         /\ Mass(Ids) \in Nat \ {0}
<1>1. Weighted /\ top_p \in Int /\ Scale \in Nat \ {0} /\ Draws \in Nat \ {0}
  BY DEF SampleType, SamplerAssumption, Weighted
<1>2. PICK id \in Ids : weight[id] > 0
  BY DEF SampleType
<1>3. Mass({id}) = weight[id] /\ Mass({id}) <= Mass(Ids)
  BY <1>1, MassOfOne, MassGrows
<1>4. Mass(Ids) \in Nat /\ weight[id] \in Nat
  BY <1>1, MassIsSum DEF Weighted
<1>5. QED
  BY <1>1, <1>2, <1>3, <1>4

\* Numbers a product of which is positive.
LEMMA PositiveProduct ==
  ASSUME NEW a \in Int, NEW b \in Int, 0 < a, 0 < b
  PROVE  a * b \in Int /\ 0 < a * b
OBVIOUS

\* What is kept has mass.
LEMMA KeptMass ==
  ASSUME SampleType, NEW order, Arranged(order), NEW k \in 1 .. Tokens, Cutting(order, k)
  PROVE  Running(order)[k] \in Nat \ {0}
<1>1. Weighted /\ Mass(Ids) \in Nat \ {0} /\ top_p \in Int /\ Scale \in Nat \ {0}
  BY TypeGives
<1>2. Running(order)[k] \in Nat
  <2>1. k \in 0 .. Tokens
    BY <1>1 DEF Weighted
  <2>2. QED
    BY <1>1, <2>1, RunningSums
<1>3. CASE Truncates
  <2>1. 0 < top_p * Mass(Ids) /\ top_p * Mass(Ids) \in Int
    BY <1>1, <1>3, PositiveProduct DEF Truncates
  <2>2. Scale * Running(order)[k] >= top_p * Mass(Ids)
    BY <1>3 DEF Cutting, Reaches
  <2>3. Running(order)[k] # 0
    <3>1. SUFFICES ASSUME Running(order)[k] = 0 PROVE FALSE
      OBVIOUS
    <3>2. Scale * Running(order)[k] = 0
      BY <1>1, <3>1
    <3>3. QED
      BY <2>1, <2>2, <3>2
  <2>4. QED
    BY <1>2, <2>3
<1>4. CASE ~Truncates
  BY <1>1, <1>4, WalkedAll DEF Cutting
<1>5. QED
  BY <1>3, <1>4

\* The walk finds a first token whose sum reaches a bound that some sum reaches.
LEMMA FirstReached ==
  ASSUME NEW n \in Nat, NEW reached \in SUBSET (1 .. n), reached # {}
  PROVE  /\ Min(reached) \in reached /\ Min(reached) \in 1 .. n
         /\ \A i \in 1 .. Min(reached) - 1 : i \notin reached
<1>1. PICK i \in reached : \A j \in reached : i <= j
  BY LeastNatural
<1>2. Min(reached) = i
  BY <1>1, MinIsLeast
<1>3. QED
  BY <1>1, <1>2

-----------------------------------------------------------------------------
(* The draw.                                                               *)

\* A multiple stays below a number as long as the factor stays below the quotient.
LEMMA QuotientBound ==
  ASSUME NEW n \in Nat, NEW d \in Nat \ {0}, NEW r \in Nat
  PROVE  r * d <= n <=> r <= n \div d
<1> DEFINE q == n \div d
           m == n % d
<1>1. q \in Nat /\ m \in Nat /\ m < d /\ d * q + m = n
  BY Division
<1> HIDE DEF q, m
<1>2. q * d = d * q /\ q * d \in Nat /\ (q + 1) * d = q * d + d
  BY <1>1
<1>3. ASSUME r <= q PROVE r * d <= n
  <2>1. r * d <= q * d /\ r * d \in Nat
    BY <1>1, <1>3, Products
  <2>2. QED
    BY <1>1, <1>2, <2>1
<1>4. ASSUME ~(r <= q) PROVE ~(r * d <= n)
  <2>1. (q + 1) * d <= r * d /\ r * d \in Nat
    <3>1. q + 1 \in Nat /\ q + 1 <= r
      BY <1>1, <1>4
    <3>2. QED
      BY <3>1, Products
  <2>2. QED
    BY <1>1, <1>2, <2>1
<1>5. QED
  BY <1>3, <1>4 DEF q

\* Of D equally spaced numbers, those between two bounds are as many as their
\* distance, to within one.  With no bound below, 0 counts as well.
LEMMA CountShare ==
  ASSUME NEW S \in Nat \ {0}, NEW D \in Nat \ {0}, NEW before \in Nat, NEW after \in Nat,
         before <= after, after <= D * S, NEW first \in BOOLEAN, first => before = 0
  PROVE  LET among == {r \in 0 .. D - 1 : r * S <= after /\ (first \/ ~(r * S <= before))}
         IN Cardinality(among) * S - (after - before) \in -S .. S
<1> DEFINE among == {r \in 0 .. D - 1 : r * S <= after /\ (first \/ ~(r * S <= before))}
           q0 == before \div S
           q1 == after \div S
           m0 == before % S
           m1 == after % S
           low  == IF first THEN 0 ELSE q0 + 1
           high == IF q1 <= D - 1 THEN q1 ELSE D - 1
           count == IF low > high THEN 0 ELSE high - low + 1
           p0 == S * q0
           p1 == S * q1
           all == D * S
<1>1. /\ q0 \in Nat /\ m0 \in Nat /\ m0 < S /\ p0 + m0 = before
      /\ q1 \in Nat /\ m1 \in Nat /\ m1 < S /\ p1 + m1 = after
  BY Division
<1>2. \A r \in Nat : (r * S <= after <=> r <= q1) /\ (r * S <= before <=> r <= q0)
  BY QuotientBound
<1> HIDE DEF q0, q1, m0, m1
<1>3. p0 \in Nat /\ p1 \in Nat /\ all \in Nat
  BY <1>1
<1>4. q0 <= q1
  <2>1. q0 * S = p0
    BY <1>1
  <2>2. q0 * S <= after
    BY <1>1, <1>3, <2>1
  <2>3. QED
    BY <1>1, <1>2, <2>2
<1>5. q1 <= D
  <2>1. SUFFICES ASSUME D + 1 <= q1 PROVE FALSE
    BY <1>1
  <2>2. (D + 1) * S <= after
    BY <1>2, <2>1
  <2>3. (D + 1) * S = all + S
    OBVIOUS
  <2>4. QED
    BY <1>3, <2>2, <2>3
<1>6. Cardinality(among) = count
  <2>1. among = low .. high
    <3>1. among = {r \in 0 .. D - 1 : r <= q1 /\ (first \/ ~(r <= q0))}
      BY <1>2
    <3> HIDE DEF among
    <3>2. \A r \in among : r \in Int /\ low <= r /\ r <= high
      BY <1>1, <3>1
    <3>3. \A r \in low .. high : r \in among
      BY <1>1, <3>1
    <3>4. among \subseteq low .. high
      BY <1>1, <3>2
    <3>5. QED
      BY <3>3, <3>4
  <2>2. low \in Int /\ high \in Int
    BY <1>1
  <2> HIDE DEF among, low, high
  <2>3. QED
    BY <2>1, <2>2, FS_Interval
<1>7. count * S - (after - before) \in -S .. S
  <2>1. CASE q1 <= D - 1
    <3>1. CASE first
      <4>1. count = q1 + 1 /\ before = 0
        BY <1>1, <2>1, <3>1
      <4>2. (q1 + 1) * S = p1 + S
        BY <1>1
      <4>3. count * S = p1 + S
        BY <4>1, <4>2
      <4> HIDE DEF count, p1
      <4>4. QED
        BY <1>1, <1>3, <4>1, <4>3
    <3>2. CASE ~first
      <4>1. count = q1 - q0
        BY <1>1, <1>4, <2>1, <3>2
      <4>2. (q1 - q0) * S = p1 - p0
        BY <1>1
      <4>3. count * S = p1 - p0
        BY <4>1, <4>2
      <4> HIDE DEF count, p0, p1
      <4>4. QED
        BY <1>1, <1>3, <4>3
    <3>3. QED
      BY <3>1, <3>2
  <2>2. CASE q1 = D
    <3>1. p1 = all /\ m1 = 0 /\ after = all
      <4>1. p1 = all
        BY <2>2
      <4> HIDE DEF p1, all
      <4>2. after <= all
        BY DEF all
      <4>3. QED
        BY <1>1, <1>3, <4>1, <4>2
    <3>2. CASE first
      <4>1. count = D /\ before = 0
        BY <2>2, <3>2
      <4>2. count * S = all
        BY <4>1
      <4> HIDE DEF count, all
      <4>3. QED
        BY <1>3, <3>1, <4>1, <4>2
    <3>3. CASE ~first /\ q0 = D
      <4>1. count = 0
        BY <2>2, <3>3
      <4>2. p0 = all /\ count * S = 0
        BY <3>3, <4>1
      <4> HIDE DEF count, p0, all
      <4>3. QED
        BY <1>1, <1>3, <3>1, <4>2
    <3>4. CASE ~first /\ q0 # D
      <4>1. count = D - 1 - q0
        BY <1>1, <1>4, <2>2, <3>4
      <4>2. (D - 1 - q0) * S = all - S - p0
        BY <1>1
      <4>3. count * S = all - S - p0
        BY <4>1, <4>2
      <4> HIDE DEF count, p0, all
      <4>4. QED
        BY <1>1, <1>3, <3>1, <4>3
    <3>5. QED
      BY <3>2, <3>3, <3>4
  <2>3. q1 <= D - 1 \/ q1 = D
    BY <1>1, <1>5
  <2>4. QED
    BY <2>1, <2>2, <2>3, Zenon
<1>8. QED
  BY <1>6, <1>7

\* Whether the walk has reached a random number with its first i tokens.
At(r, i) == Draws * Running(items)[i] >= r * Running(items)[kept]

\* The two sides of the comparison of the walk are numbers, and the side of the
\* sum grows with the walk.
LEMMA Comparisons ==
  ASSUME SampleType, Arranged(items), kept \in 1 .. Tokens, NEW i \in 0 .. Tokens
  PROVE  /\ Draws * Running(items)[i] \in Nat
         /\ \A j \in 0 .. i : Draws * Running(items)[j] <= Draws * Running(items)[i]
         /\ Running(items)[kept] \in Nat
         /\ \A r \in Nat : r * Running(items)[kept] \in Nat
<1>1. Weighted /\ Draws \in Nat
  BY TypeGives
<1>2. \A j \in 0 .. i : j \in 0 .. Tokens /\ j <= i
  BY <1>1 DEF Weighted
<1>3. kept \in 0 .. Tokens
  BY <1>1 DEF Weighted
<1>4. /\ \A j \in 0 .. Tokens : Running(items)[j] \in Nat
      /\ \A j \in 0 .. i : Running(items)[j] <= Running(items)[i]
  BY <1>1, <1>2, RunningSums
<1>5. ASSUME NEW j \in 0 .. i
      PROVE  Draws * Running(items)[j] <= Draws * Running(items)[i]
  <2>1. Running(items)[j] \in Nat /\ Running(items)[i] \in Nat
    BY <1>2, <1>4
  <2>2. Running(items)[j] <= Running(items)[i]
    BY <1>4
  <2> DEFINE a == Running(items)[j]
             b == Running(items)[i]
  <2>3. a \in Nat /\ b \in Nat /\ a <= b
    BY <2>1, <2>2
  <2> HIDE DEF a, b
  <2>4. a * Draws <= b * Draws /\ a * Draws = Draws * a /\ b * Draws = Draws * b
    BY <1>1, <2>3, Products
  <2>5. QED
    BY <2>4 DEF a, b
<1>6. Draws * Running(items)[i] \in Nat
  BY <1>1, <1>4
<1>7. \A r \in Nat : r * Running(items)[kept] \in Nat
  BY <1>3, <1>4
<1>8. QED
  BY <1>3, <1>4, <1>5, <1>6, <1>7

\* The token picked is the first with which the walk reaches the random number;
\* the last one kept always does, because the number is below 1.
LEMMA PickIs ==
  ASSUME SampleType, Arranged(items), kept \in 1 .. Tokens, NEW r \in 0 .. Draws - 1
  PROVE  \E j \in 1 .. kept :
           PickFor(r) = items[j] /\ At(r, j) /\ \A i \in 1 .. j - 1 : ~At(r, i)
<1> DEFINE reached == {i \in 1 .. kept : At(r, i)}
<1>1. Draws \in Nat /\ Weighted /\ kept \in Nat /\ kept \in 0 .. Tokens
  BY TypeGives DEF Weighted
<1>2. At(r, kept)
  <2> DEFINE S == Running(items)[kept]
  <2>1. S \in Nat
    BY Comparisons, <1>1
  <2> HIDE DEF S
  <2>2. r \in Nat /\ r <= Draws
    BY <1>1
  <2>3. r * S <= Draws * S /\ r * S \in Nat /\ Draws * S \in Nat
    BY <1>1, <2>1, <2>2, Products
  <2>4. QED
    BY <2>3 DEF At, S
<1>3. kept \in reached
  BY <1>1, <1>2
<1>4. PickFor(r) = items[IF reached = {} THEN kept ELSE Min(reached)]
  BY DEF PickFor, At
<1> DEFINE j == Min(reached)
<1>5. j \in reached /\ j \in 1 .. kept /\ \A i \in 1 .. j - 1 : i \notin reached
  <2>1. reached \in SUBSET (1 .. kept) /\ reached # {}
    BY <1>3
  <2> HIDE DEF reached
  <2>2. QED
    BY <1>1, <2>1, FirstReached
<1>6. PickFor(r) = items[j]
  BY <1>3, <1>4
<1>7. At(r, j)
  BY <1>5
<1> HIDE DEF j
<1>8. \A i \in 1 .. j - 1 : ~At(r, i)
  <2>1. TAKE i \in 1 .. j - 1
  <2>2. i \in 1 .. kept
    BY <1>1, <1>5
  <2>3. QED
    BY <1>5, <2>2
<1>9. QED
  BY <1>5, <1>6, <1>7, <1>8

\* A token kept is picked by the random numbers its sum reaches and the sum before
\* it does not.
LEMMA PickedBy ==
  ASSUME SampleType, Arranged(items), kept \in 1 .. Tokens,
         NEW r \in 0 .. Draws - 1, NEW j \in 1 .. kept
  PROVE  PickFor(r) = items[j] <=> At(r, j) /\ (j = 1 \/ ~At(r, j - 1))
<1>1. PICK k \in 1 .. kept :
        PickFor(r) = items[k] /\ At(r, k) /\ \A i \in 1 .. k - 1 : ~At(r, i)
  BY PickIs
<1>2. Weighted /\ Draws \in Nat /\ r \in Nat
  BY TypeGives
<1>3. j \in 1 .. Tokens /\ k \in 1 .. Tokens
  BY <1>2 DEF Weighted
<1>4. ASSUME PickFor(r) = items[j] PROVE At(r, j) /\ (j = 1 \/ ~At(r, j - 1))
  <2>1. j = k
    BY <1>1, <1>3, <1>4 DEF Arranged
  <2>2. j = 1 \/ j - 1 \in 1 .. j - 1
    BY <1>3
  <2>3. QED
    BY <1>1, <2>1, <2>2
<1>5. ASSUME At(r, j), j = 1 \/ ~At(r, j - 1) PROVE PickFor(r) = items[j]
  <2>1. ~(j < k)
    <3>1. SUFFICES ASSUME j < k PROVE FALSE
      OBVIOUS
    <3>2. j \in 1 .. k - 1
      BY <1>3, <3>1
    <3>3. QED
      BY <1>1, <1>5, <3>2
  <2>2. ~(k < j)
    <3>1. SUFFICES ASSUME k < j PROVE FALSE
      OBVIOUS
    <3>2. j # 1 /\ j - 1 \in 0 .. Tokens /\ k \in 0 .. j - 1
      BY <1>2, <1>3, <3>1 DEF Weighted
    <3>3. /\ Draws * Running(items)[k] <= Draws * Running(items)[j - 1]
          /\ Draws * Running(items)[j - 1] \in Nat /\ Draws * Running(items)[k] \in Nat
          /\ r * Running(items)[kept] \in Nat
      BY <1>2, <1>3, <3>2, Comparisons
    <3> DEFINE x == Draws * Running(items)[k]
               y == Draws * Running(items)[j - 1]
               z == r * Running(items)[kept]
    <3>4. x <= y /\ x \in Nat /\ y \in Nat /\ z \in Nat /\ x >= z
      BY <1>1, <3>3 DEF At
    <3> HIDE DEF x, y, z
    <3>5. y >= z
      BY <3>4
    <3>6. At(r, j - 1)
      BY <3>5 DEF At, y, z
    <3>7. QED
      BY <1>5, <3>2, <3>6
  <2>3. j = k
    BY <1>3, <2>1, <2>2
  <2>4. QED
    BY <1>1, <2>3
<1>6. QED
  BY <1>4, <1>5

-----------------------------------------------------------------------------
(* What the three parts of the property rest on.                           *)

\* The inductive invariant.
SampleInv ==
  /\ SampleType
  /\ stage \in {"softmax", "kept", "picked", "refused"}
  /\ stage \in {"kept", "picked"} =>
       Arranged(items) /\ kept \in 1 .. Tokens /\ Cutting(items, kept)
  /\ stage = "picked" => draw \in 0 .. Draws - 1 /\ out = PickFor(draw)

\* A set of fewer tokens than were kept weighs no more than as many tokens at the
\* front, which do not reach top_p.
LEMMA KeptSmallest ==
  ASSUME SampleInv
  PROVE  NucleusSmallest
<1> SUFFICES ASSUME stage \in {"kept", "picked"}, Truncates
             PROVE  /\ Scale * Mass(Nucleus) >= top_p * Mass(Ids)
                    /\ \A ids \in SUBSET Ids :
                         Scale * Mass(ids) >= top_p * Mass(Ids) => Cardinality(ids) >= kept
                    /\ \A inside \in Nucleus, outside \in Ids \ Nucleus :
                         \/ weight[inside] > weight[outside]
                         \/ weight[inside] = weight[outside] /\ inside < outside
  BY DEF NucleusSmallest
<1>1. /\ SampleType /\ Arranged(items) /\ kept \in 1 .. Tokens
      /\ Sorted(items) /\ Reaches(items, kept) /\ \A i \in 1 .. kept - 1 : ~Reaches(items, i)
  BY DEF SampleInv, Cutting
<1>2. /\ Weighted /\ Tokens \in Nat /\ Scale \in Nat \ {0} /\ top_p \in Int /\ 0 < top_p
      /\ Mass(Ids) \in Nat \ {0}
  BY <1>1, TypeGives DEF Weighted, Truncates
<1>3. Nucleus = Walked(items, kept)
  BY DEF Nucleus, Walked
<1>4. Scale * Mass(Nucleus) >= top_p * Mass(Ids)
  <2>1. kept \in 0 .. Tokens
    BY <1>1, <1>2
  <2>2. Running(items)[kept] = Mass(Nucleus)
    BY <1>1, <1>2, <1>3, <2>1, WalkedMass
  <2>3. QED
    BY <1>1, <2>2 DEF Reaches
<1>5. ASSUME NEW ids \in SUBSET Ids, Scale * Mass(ids) >= top_p * Mass(Ids)
      PROVE  Cardinality(ids) >= kept
  <2>1. Cardinality(ids) \in Nat
    BY <1>2, IdsFinite
  <2>2. SUFFICES ASSUME Cardinality(ids) <= kept - 1 PROVE FALSE
    BY <1>1, <2>1
  <2> DEFINE k == kept - 1
             bound == top_p * Mass(Ids)
  <2>3. k \in 0 .. Tokens /\ Cardinality(ids) <= k
    BY <1>1, <1>2, <2>2
  <2>4. Mass(ids) <= Running(items)[k] /\ Running(items)[k] \in Nat /\ Mass(ids) \in Nat
    <3> HIDE DEF k
    <3>1. QED
      BY <1>1, <1>2, <2>3, HeaviestSet, RunningSums, MassIsSum
  <2>5. 0 < bound /\ bound \in Int
    BY <1>2, PositiveProduct
  <2> DEFINE a == Scale * Mass(ids)
             b == Scale * Running(items)[k]
  <2>6. a <= b /\ a \in Nat /\ b \in Nat
    <3> DEFINE x == Mass(ids)
               y == Running(items)[k]
    <3>1. x \in Nat /\ y \in Nat /\ x <= y
      BY <2>4
    <3> HIDE DEF x, y
    <3>2. x * Scale <= y * Scale /\ x * Scale = Scale * x /\ y * Scale = Scale * y
      BY <1>2, <3>1, Products
    <3>3. Scale * x \in Nat /\ Scale * y \in Nat
      BY <1>2, <3>1
    <3>4. QED
      BY <3>2, <3>3 DEF x, y
  <2>7. a >= bound
    BY <1>5
  <2> HIDE DEF a, b, bound
  <2>8. b >= bound
    BY <2>5, <2>6, <2>7
  <2>9. CASE k = 0
    <3>1. Running(items)[k] = 0
      BY <1>1, <1>2, <2>9, RunningSums
    <3>2. b = 0
      BY <1>2, <3>1 DEF b
    <3>3. QED
      BY <2>5, <2>8, <3>2
  <2>10. CASE k # 0
    <3>1. k \in 1 .. kept - 1
      BY <1>1, <1>2, <2>3, <2>10
    <3>2. Reaches(items, k)
      BY <2>8 DEF Reaches, b, bound
    <3>3. QED
      BY <1>1, <3>1, <3>2
  <2>11. QED
    BY <2>9, <2>10
<1>6. ASSUME NEW inside \in Nucleus, NEW outside \in Ids \ Nucleus
      PROVE  \/ weight[inside] > weight[outside]
             \/ weight[inside] = weight[outside] /\ inside < outside
  <2>1. PICK i \in 1 .. kept : items[i] = inside
    BY <1>3 DEF Walked
  <2>2. PICK j \in 1 .. Tokens : items[j] = outside
    BY <1>1, <1>2, WalkedAll
  <2>3. j \notin 1 .. kept
    BY <1>3, <2>2 DEF Walked
  <2>4. i \in 1 .. Tokens /\ i < j
    BY <1>1, <1>2, <2>3
  <2>5. Before(items[i], items[j])
    BY <1>1, <2>4 DEF Sorted
  <2>6. QED
    BY <2>1, <2>2, <2>5 DEF Before
<1>7. QED
  BY <1>4, <1>5, <1>6

\* The random numbers that pick a token lie between two neighbouring sums.
LEMMA KeptFair ==
  ASSUME SampleInv
  PROVE  ProportionalShare
<1> DEFINE picking(id) == {r \in 0 .. Draws - 1 : PickFor(r) = id}
           share(id) == IF id \in Nucleus THEN Draws * weight[id] ELSE 0
           whole == Running(items)[kept]
<1> SUFFICES ASSUME stage = "kept", NEW id \in Ids
             PROVE  /\ Cardinality(picking(id)) * whole - share(id) \in -whole .. whole
                    /\ id \notin Nucleus => Cardinality(picking(id)) = 0
  BY DEF ProportionalShare
<1>1. /\ SampleType /\ Arranged(items) /\ kept \in 1 .. Tokens /\ Cutting(items, kept)
  BY DEF SampleInv
<1>2. Weighted /\ Tokens \in Nat /\ Draws \in Nat \ {0} /\ whole \in Nat \ {0}
  BY <1>1, TypeGives, KeptMass DEF Weighted
<1>3. CASE id \notin Nucleus
  <2>1. ASSUME NEW r \in 0 .. Draws - 1 PROVE PickFor(r) # id
    <3>1. PICK j \in 1 .. kept : PickFor(r) = items[j]
      BY <1>1, PickIs
    <3>2. items[j] \in Nucleus
      BY DEF Nucleus
    <3>3. QED
      BY <1>3, <3>1, <3>2
  <2>2. picking(id) = {}
    BY <2>1
  <2>3. Cardinality(picking(id)) = 0 /\ share(id) = 0
    BY <1>3, <2>2, FS_EmptySet
  <2> HIDE DEF picking, share, whole
  <2>4. QED
    BY <1>2, <2>3
<1>4. CASE id \in Nucleus
  <2>1. PICK j \in 1 .. kept : items[j] = id
    BY <1>4 DEF Nucleus
  <2>2. j \in 1 .. Tokens /\ j \in 0 .. Tokens /\ j - 1 \in 0 .. Tokens /\ j - 1 \in 0 .. j
        /\ kept \in 0 .. Tokens /\ j \in 0 .. kept
    BY <1>1, <1>2
  <2> DEFINE before == Draws * Running(items)[j - 1]
             after  == Draws * Running(items)[j]
             first  == j = 1
             among  == {r \in 0 .. Draws - 1 :
                          r * whole <= after /\ (first \/ ~(r * whole <= before))}
  <2>3. before \in Nat /\ after \in Nat /\ before <= after /\ after <= Draws * whole
    BY <1>1, <2>2, Comparisons
  <2>4. after - before = Draws * weight[id]
    <3> DEFINE x == Running(items)[j - 1]
    <3>1. Running(items)[j] = x + weight[id] /\ x \in Nat /\ weight[id] \in Nat
      BY <1>1, <1>2, <2>1, <2>2, RunningSums DEF Weighted
    <3> HIDE DEF x
    <3>2. Draws * (x + weight[id]) - Draws * x = Draws * weight[id]
      BY <1>2, <3>1
    <3>3. after = Draws * (x + weight[id]) /\ before = Draws * x
      BY <3>1 DEF x
    <3>4. QED
      BY <3>2, <3>3
  <2>5. first => before = 0
    <3>1. Running(items)[0] = 0
      BY <1>1, <1>2, RunningSums
    <3>2. first => j - 1 = 0
      OBVIOUS
    <3>3. QED
      BY <1>2, <3>1, <3>2
  <2>6. picking(id) = among
    <3>1. ASSUME NEW r \in 0 .. Draws - 1
          PROVE  PickFor(r) = id <=> r * whole <= after /\ (first \/ ~(r * whole <= before))
      <4>1. PickFor(r) = items[j] <=> At(r, j) /\ (j = 1 \/ ~At(r, j - 1))
        BY <1>1, PickedBy
      <4>2. r \in Nat
        BY <1>2
      <4>3. r * whole \in Nat
        BY <1>2, <4>2
      <4> DEFINE z == r * whole
      <4>4. At(r, j) <=> after >= z
        BY DEF At
      <4>5. At(r, j - 1) <=> before >= z
        BY DEF At
      <4> HIDE DEF before, after, z
      <4>6. (after >= z <=> z <= after) /\ (before >= z <=> z <= before)
        BY <2>3, <4>3 DEF z
      <4>7. QED
        BY <2>1, <4>1, <4>4, <4>5, <4>6 DEF z
    <3> HIDE DEF whole, before, after, first
    <3>2. QED
      BY <3>1
  <2>7. Cardinality(among) * whole - (after - before) \in -whole .. whole
    <3>1. first \in BOOLEAN
      OBVIOUS
    <3> HIDE DEF whole, before, after, first
    <3>2. QED
      BY <1>2, <2>3, <2>5, <3>1, CountShare
  <2>8. share(id) = after - before
    BY <1>4, <2>4
  <2> HIDE DEF picking, share, among, whole, before, after, first
  <2>9. QED
    BY <1>4, <2>6, <2>7, <2>8
<1>5. QED
  BY <1>3, <1>4

\* A token of weight 0 adds nothing to the sum, so that the walk reaches with it
\* what it had reached before; only the first token has nothing before it.
LEMMA ImpossibleFirst ==
  ASSUME SampleInv
  PROVE  ImpossibleOnlyAtZero
<1> SUFFICES ASSUME stage = "picked", weight[out] = 0
             PROVE  ~Truncates /\ draw = 0
  BY DEF ImpossibleOnlyAtZero
<1>1. /\ SampleType /\ Arranged(items) /\ kept \in 1 .. Tokens /\ Cutting(items, kept)
      /\ draw \in 0 .. Draws - 1 /\ out = PickFor(draw)
  BY DEF SampleInv
<1>2. /\ Weighted /\ Tokens \in Nat /\ Draws \in Nat \ {0}
      /\ Running(items)[kept] \in Nat \ {0}
  BY <1>1, TypeGives, KeptMass DEF Weighted
<1>3. PICK j \in 1 .. kept :
        out = items[j] /\ At(draw, j) /\ \A i \in 1 .. j - 1 : ~At(draw, i)
  BY <1>1, PickIs
<1>4. j \in 1 .. Tokens
  BY <1>1, <1>2
<1>5. Running(items)[j] = Running(items)[j - 1] /\ Running(items)[j - 1] \in Nat
  <2>1. Running(items)[j] = Running(items)[j - 1] + weight[items[j]]
    BY <1>1, <1>2, <1>4, RunningSums
  <2>2. j - 1 \in 0 .. Tokens
    BY <1>2, <1>4
  <2>3. Running(items)[j - 1] \in Nat
    BY <1>1, <1>2, <2>2, RunningSums
  <2>4. QED
    BY <1>3, <2>1, <2>3
<1>6. j = 1
  <2>1. SUFFICES ASSUME j # 1 PROVE FALSE
    OBVIOUS
  <2>2. At(draw, j - 1)
    BY <1>3, <1>5 DEF At
  <2>3. j - 1 \in 1 .. j - 1
    BY <1>4, <2>1
  <2>4. QED
    BY <1>3, <2>2, <2>3
<1>7. draw = 0
  <2>1. Running(items)[j] = 0
    <3>1. Running(items)[0] = 0
      BY <1>1, <1>2, RunningSums
    <3>2. QED
      BY <1>5, <1>6, <3>1
  <2> DEFINE whole == Running(items)[kept]
  <2>2. Draws * 0 >= draw * whole
    BY <1>3, <2>1 DEF At
  <2>3. whole \in Nat \ {0} /\ draw \in Nat
    BY <1>1, <1>2
  <2> HIDE DEF whole
  <2>4. draw * whole <= 0
    BY <1>2, <2>2, <2>3
  <2>5. SUFFICES ASSUME draw # 0 PROVE FALSE
    OBVIOUS
  <2>6. 0 < draw * whole /\ draw * whole \in Int
    BY <2>3, <2>5, PositiveProduct
  <2>7. QED
    BY <2>4, <2>6
<1>8. ~Truncates
  <2>1. SUFFICES ASSUME Truncates PROVE FALSE
    OBVIOUS
  <2>2. PICK id \in Ids : weight[id] > 0
    BY <1>1 DEF SampleType
  <2>3. PICK i \in 1 .. Tokens : items[i] = id
    BY <1>1, <1>2, WalkedAll
  <2>4. weight[items[i]] <= weight[items[1]]
    <3>1. Sorted(items)
      BY <1>1, <2>1 DEF Cutting
    <3>2. 1 \in 1 .. Tokens /\ 1 <= i
      BY <1>4, <1>6
    <3>3. QED
      BY <1>1, <1>2, <3>1, <3>2, SortedFalls
  <2>5. weight[items[1]] = 0
    BY <1>3, <1>6
  <2>6. weight[id] \in Nat
    BY <1>2 DEF Weighted
  <2>7. QED
    BY <2>2, <2>3, <2>4, <2>5, <2>6
<1>9. QED
  BY <1>7, <1>8

-----------------------------------------------------------------------------
(* The steps.                                                              *)

\* The sums depend on the weights, the order and what is asked for only.
LEMMA SumsStay ==
  ASSUME UNCHANGED <<weight, top_p>>
  PROVE  /\ Mass(Ids)' = Mass(Ids) /\ (SampleType' <=> SampleType)
         /\ (Truncates' <=> Truncates)
         /\ Running(items)' = Running(items')
         /\ (Sorted(items)' <=> Sorted(items'))
         /\ \A i : Reaches(items, i)' <=> Reaches(items', i)
<1>1. weight' = weight /\ top_p' = top_p
  OBVIOUS
<1>2. Mass(Ids)' = Mass(Ids)
  BY <1>1 DEF Mass, Ids
<1>3. Running(items)' = Running(items')
  BY <1>1 DEF Running
<1>4. /\ (SampleType' <=> SampleType) /\ (Truncates' <=> Truncates)
      /\ (Sorted(items)' <=> Sorted(items'))
  BY <1>1 DEF SampleType, SamplerAssumption, Truncates, Sorted, Before, Ids
<1>5. \A i : Reaches(items, i)' <=> Reaches(items', i)
  BY <1>1, <1>2, <1>3 DEF Reaches
<1>6. QED
  BY <1>2, <1>3, <1>4, <1>5

\* A sorted order has no token twice, and the whole of it reaches a top_p below 1.
LEMMA CutOffKeeps ==
  ASSUME SampleInv, CutOff
  PROVE  SampleInv'
<1>1. PICK order \in [1 .. Tokens -> Ids] :
        LET short == {i \in 1 .. Tokens : Reaches(order, i)}
        IN /\ Sorted(order)
           /\ items' = order
           /\ kept' = IF short = {} THEN Tokens ELSE Min(short)
  BY DEF CutOff
<1>2. Truncates /\ stage' = "kept" /\ UNCHANGED <<weight, top_p>>
  BY DEF CutOff
<1>3. SampleType /\ SampleType'
  BY <1>2, SumsStay DEF SampleInv
<1>4. /\ Weighted /\ Tokens \in Nat \ {0} /\ Scale \in Nat \ {0} /\ top_p \in Int
      /\ Mass(Ids) \in Nat \ {0} /\ 0 < top_p /\ top_p < Scale
  BY <1>2, <1>3, TypeGives DEF Weighted, Truncates
<1>5. Arranged(order)
  <2>1. ASSUME NEW i \in 1 .. Tokens, NEW j \in 1 .. Tokens, i < j
        PROVE  order[i] # order[j]
    <3>1. Before(order[i], order[j])
      BY <1>1, <2>1 DEF Sorted
    <3>2. order[i] \in Int /\ weight[order[i]] \in Int
      BY <1>4 DEF Weighted, Ids
    <3>3. QED
      BY <3>1, <3>2 DEF Before
  <2>2. \A i, j \in 1 .. Tokens : i # j => i < j \/ j < i
    BY <1>4
  <2>3. QED
    BY <2>1, <2>2 DEF Arranged
<1> DEFINE short == {i \in 1 .. Tokens : Reaches(order, i)}
<1>6. Tokens \in short
  <2>1. Running(order)[Tokens] = Mass(Ids)
    BY <1>4, <1>5, WalkedAll
  <2> DEFINE m == Mass(Ids)
  <2>2. m \in Nat
    BY <1>4
  <2> HIDE DEF m
  <2>3. Scale * m >= top_p * m
    <3>1. top_p \in Nat /\ top_p <= Scale
      BY <1>4
    <3>2. top_p * m <= Scale * m /\ top_p * m \in Nat /\ Scale * m \in Nat
      BY <1>4, <2>2, <3>1, Products
    <3>3. QED
      BY <3>2
  <2>4. Reaches(order, Tokens)
    BY <2>1, <2>3 DEF Reaches, m
  <2>5. QED
    BY <1>4, <2>4
<1>7. items' = order /\ kept' = Min(short)
  BY <1>1, <1>6
<1>8. /\ Min(short) \in short /\ Min(short) \in 1 .. Tokens
      /\ \A i \in 1 .. Min(short) - 1 : i \notin short
  <2>1. short \in SUBSET (1 .. Tokens) /\ short # {} /\ Tokens \in Nat
    BY <1>4, <1>6
  <2> HIDE DEF short
  <2>2. QED
    BY <2>1, FirstReached
<1>9. PICK k \in 1 .. Tokens :
        kept' = k /\ Reaches(order, k) /\ \A i \in 1 .. k - 1 : ~Reaches(order, i)
  <2> DEFINE k == Min(short)
  <2>1. kept' = k /\ Reaches(order, k) /\ k \in 1 .. Tokens
    BY <1>7, <1>8
  <2> HIDE DEF k
  <2>2. \A i \in 1 .. k - 1 : ~Reaches(order, i)
    <3>1. \A i \in 1 .. k - 1 : i \in 1 .. Tokens
      BY <1>4, <2>1
    <3>2. \A i \in 1 .. k - 1 : i \notin short
      BY <1>8 DEF k
    <3>3. QED
      BY <3>1, <3>2
  <2>3. QED
    BY <2>1, <2>2
<1> HIDE DEF short
<1>10. items' = order
  BY <1>7
<1>11. Cutting(items, kept)'
  <2>1. /\ Truncates' /\ Sorted(items)'
        /\ \A i : Reaches(items, i)' <=> Reaches(order, i)
    BY <1>1, <1>2, <1>10, SumsStay
  <2>2. Reaches(items, kept)' <=> Reaches(items, k)'
    BY <1>9 DEF Reaches
  <2>3. \A i \in 1 .. kept' - 1 : ~Reaches(items, i)'
    BY <1>9, <2>1
  <2>4. QED
    BY <1>9, <2>1, <2>2, <2>3 DEF Cutting
<1>12. (Arranged(items) /\ kept \in 1 .. Tokens)'
  BY <1>5, <1>9, <1>10 DEF Arranged, Ids
<1>13. QED
  BY <1>2, <1>3, <1>11, <1>12 DEF SampleInv

\* Without a cut the tokens stay in the order of their ids.
LEMMA KeepAllKeeps ==
  ASSUME SampleInv, KeepAll
  PROVE  SampleInv'
<1>1. /\ ~Truncates /\ stage' = "kept" /\ UNCHANGED <<weight, top_p>>
      /\ items' = [i \in 1 .. Tokens |-> i - 1] /\ kept' = Tokens
  BY DEF KeepAll
<1>2. SampleType /\ SampleType' /\ ~Truncates'
  BY <1>1, SumsStay DEF SampleInv
<1>3. Tokens \in Nat \ {0}
  BY <1>2, TypeGives DEF Weighted
<1>4. Arranged(items)'
  BY <1>1, <1>3 DEF Arranged, Ids
<1>5. QED
  BY <1>1, <1>2, <1>3, <1>4 DEF SampleInv, Cutting

\* A draw picks the token of its random number and changes nothing of the walk.
LEMMA PickKeeps ==
  ASSUME SampleInv, Pick
  PROVE  SampleInv'
<1>1. PICK r \in 0 .. Draws - 1 : draw' = r /\ out' = PickFor(r)
  BY DEF Pick
<1>2. stage = "kept" /\ stage' = "picked" /\ UNCHANGED <<weight, top_p, items, kept>>
  BY DEF Pick
<1>3. SampleType' /\ Arranged(items)' /\ (kept \in 1 .. Tokens)'
  BY <1>2, SumsStay DEF SampleInv, Arranged, Ids
<1>4. Cutting(items, kept)'
  <2>1. Cutting(items, kept)
    BY <1>2 DEF SampleInv
  <2>2. QED
    BY <1>2, <2>1, SumsStay DEF Cutting
<1>5. PickFor(draw)' = PickFor(r)
  <2>1. Running(items)' = Running(items)
    BY <1>2, SumsStay
  <2>2. QED
    BY <1>1, <1>2, <2>1 DEF PickFor
<1>6. QED
  BY <1>1, <1>2, <1>3, <1>4, <1>5 DEF SampleInv

\* A failed allocation leaves nothing to say, a step of others everything as it is.
LEMMA SampleStutters ==
  ASSUME SampleInv, UNCHANGED <<weight, top_p>>,
         \/ UNCHANGED <<stage, items, kept, draw, out>>
         \/ stage' = "refused"
  PROVE  SampleInv'
<1>1. SampleType'
  BY SumsStay DEF SampleInv
<1>2. CASE stage' = "refused"
  BY <1>1, <1>2 DEF SampleInv
<1>3. CASE UNCHANGED <<stage, items, kept, draw, out>>
  <2>1. items' = items /\ kept' = kept /\ stage' = stage /\ draw' = draw /\ out' = out
    BY <1>3
  <2>2. Running(items)' = Running(items)
    BY <2>1, SumsStay
  <2>3. PickFor(draw)' = PickFor(draw)
    BY <2>1, <2>2 DEF PickFor
  <2>4. Arranged(items)' <=> Arranged(items)
    BY <2>1 DEF Arranged, Ids
  <2>5. Cutting(items, kept)' <=> Cutting(items, kept)
    BY <2>1, SumsStay DEF Cutting
  <2>6. QED
    BY <1>1, <2>1, <2>3, <2>4, <2>5 DEF SampleInv
<1>4. QED
  BY <1>2, <1>3

\* The invariant of sampling: the walk meets every token once, sorted if top_p cuts
\* it off, it is cut off behind the first token that reaches top_p, and the token
\* picked is the one of the random number.
THEOREM SampleInvariant ==
  ASSUME SamplerAssumption
  PROVE  SampleSpec => []SampleInv
<1>1. SampleInit => SampleInv
  BY DEF SampleInit, SampleInv, SampleType
<1>2. SampleInv /\ [SampleNext]_sample_vars => SampleInv'
  <2> SUFFICES ASSUME SampleInv, [SampleNext]_sample_vars
               PROVE  SampleInv'
    OBVIOUS
  <2>1. CASE CutOff
    BY <2>1, CutOffKeeps
  <2>2. CASE KeepAll
    BY <2>2, KeepAllKeeps
  <2>3. CASE AllocationFails
    BY <2>3, SampleStutters DEF AllocationFails
  <2>4. CASE Pick
    BY <2>4, PickKeeps
  <2>5. CASE UNCHANGED sample_vars
    BY <2>5, SampleStutters DEF sample_vars
  <2>6. QED
    BY <2>1, <2>2, <2>3, <2>4, <2>5 DEF SampleNext
<1>3. QED
  BY <1>1, <1>2, PTL DEF SampleSpec

\* Whatever the weights, top_p keeps a smallest set of tokens that reaches it, each
\* token kept comes up in proportion to its weight to within one random number, and
\* one of weight 0 only without a cut and at a random number of 0.
THEOREM SampleKeepsNucleus ==
  ASSUME SamplerAssumption
  PROVE  SampleSpec => []SamplesNucleus
<1>1. SampleInv => SamplesNucleus
  BY KeptSmallest, KeptFair, ImpossibleFirst DEF SamplesNucleus
<1>2. QED
  BY <1>1, SampleInvariant, PTL
=============================================================================
