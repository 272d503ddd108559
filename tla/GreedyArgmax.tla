---------------------------- MODULE GreedyArgmax ----------------------------
(***************************************************************************)
(* The greedy branch of sample_next_token in native.c: one row of the      *)
(* output matrix per token, scored in chunks of rows that fit the budget.  *)
(* A chunk with enough rows is shared by a team of threads; each keeps the *)
(* best of its share and merges it into the result in a critical section,  *)
(* in whatever order the threads come.  The build without threads scans    *)
(* the rows one after the other, and both must pick the same token.        *)
(*                                                                         *)
(* Scores are ranks: 0 stands for -INFINITY and -1 for a NaN, which no     *)
(* comparison of the code ever finds above a score.                        *)
(***************************************************************************)
EXTENDS Integers, FiniteSets, FiniteSetsExt

CONSTANTS Vocab,         \* rows of the output matrix, one per token
          Chunk,         \* rows of a chunk (logit_chunk_rows)
          ParallelRows,  \* a chunk of this many rows is given to a team
          MaxTeam,       \* threads the runtime may give a team at most
          Scores         \* what a row may score

NegInf == 0

\* Assumed of the constants by the modules that extend this one.
ArgmaxAssumption ==
  /\ Vocab \in Nat \ {0} /\ Chunk \in Nat \ {0}
  /\ ParallelRows \in Nat /\ MaxTeam \in Nat \ {0}
  /\ Scores \subseteq Int

VARIABLES score,      \* the logit of every row
          begin,      \* first row of the chunk
          team,       \* the threads of the parallel region; empty outside it
          best, best_score

argmax_vars == <<score, begin, team, best, best_score>>

Rows == 0 .. Vocab - 1

LastRow(b) == Min({b + Chunk, Vocab})     \* `end` of the chunk that begins at b

-----------------------------------------------------------------------------
(* The build without threads: the rows in order, a later one only if it is *)
(* above the best so far.                                                  *)

PlainScan[n \in Nat] ==
  IF n = 0 THEN [best |-> 0, best_score |-> NegInf]
  ELSE LET before == PlainScan[n - 1]
       IN IF score[n - 1] > before.best_score
          THEN [best |-> n - 1, best_score |-> score[n - 1]] ELSE before

-----------------------------------------------------------------------------
(* The build with threads.  A static schedule deals the rows out in blocks *)
(* of equal size, the first threads taking one more when it does not come  *)
(* out even.                                                               *)

ShareBegin(b, size, t) ==
  LET rows == LastRow(b) - b
  IN b + (t - 1) * (rows \div size) + Min({t - 1, rows % size})

Worker(b, size, t) ==
  [next |-> ShareBegin(b, size, t), end |-> ShareBegin(b, size, t + 1),
   local_best |-> 0, local_score |-> NegInf, merged |-> FALSE]

TeamSizes(b) == IF LastRow(b) - b >= ParallelRows THEN 1 .. MaxTeam ELSE {1}

ArgmaxInit ==
  /\ score \in [Rows -> Scores]
  /\ begin = 0 /\ team = <<>>
  /\ best = 0 /\ best_score = NegInf

OpenChunk ==
  /\ team = <<>> /\ begin < Vocab
  /\ \E size \in TeamSizes(begin) :
       team' = [t \in 1 .. size |-> Worker(begin, size, t)]
  /\ UNCHANGED <<score, begin, best, best_score>>

\* Mutant of Takes: a row that equals the best of the share replaces it.
TakesEqual(w) == score[w.next] >= w.local_score

Takes(w) == score[w.next] > w.local_score

Scan(t) ==
  LET w == team[t]
      kept == IF Takes(w) THEN [w EXCEPT !.local_best = w.next, !.local_score = score[w.next]]
              ELSE w
  IN /\ w.next < w.end
     /\ team' = [team EXCEPT ![t] = [kept EXCEPT !.next = w.next + 1]]
     /\ UNCHANGED <<score, begin, best, best_score>>

\* Mutant of Wins: the thread that came first keeps a tie.
WinsFirstCome(w) == w.local_score > best_score

Wins(w) ==
  \/ w.local_score > best_score
  \/ w.local_score = best_score /\ w.local_best < best

\* The critical section, entered as soon as the share is done (nowait).
Merge(t) ==
  LET w == team[t]
  IN /\ w.next = w.end /\ ~w.merged
     /\ IF Wins(w) THEN best' = w.local_best /\ best_score' = w.local_score
        ELSE UNCHANGED <<best, best_score>>
     /\ team' = [team EXCEPT ![t].merged = TRUE]
     /\ UNCHANGED <<score, begin>>

\* The barrier at the end of the region; the pages of the chunk are released.
CloseChunk ==
  /\ team # <<>> /\ \A t \in DOMAIN team : team[t].merged
  /\ team' = <<>> /\ begin' = begin + Chunk
  /\ UNCHANGED <<score, best, best_score>>

ArgmaxNext ==
  \/ OpenChunk \/ CloseChunk
  \/ \E t \in DOMAIN team : Scan(t) \/ Merge(t)

ArgmaxSpec == ArgmaxInit /\ [][ArgmaxNext]_argmax_vars

-----------------------------------------------------------------------------

Worked == begin >= Vocab /\ team = <<>>

\* The rows whose score the result already accounts for.
MergedShares ==
  {r \in Rows :
     \/ r < begin
     \/ \E t \in DOMAIN team :
          /\ team[t].merged /\ r < team[t].end
          /\ r >= ShareBegin(begin, Cardinality(DOMAIN team), t)}

\* Whatever order the threads merge in, the result is at every moment the
\* lowest row with the greatest score among the shares merged so far, and row
\* 0 while none of them scores above -INFINITY.
BestOfMerged ==
  LET scored == {r \in MergedShares : score[r] > NegInf}
      top    == {r \in scored : \A s \in scored : score[r] >= score[s]}
  IN IF scored = {} THEN best = 0 /\ best_score = NegInf
     ELSE best = Min(top) /\ best_score = score[best]

\* Threads, team sizes and chunks do not change the token: when every chunk is
\* done the result is the one of the build without threads.
SameAsPlainBuild ==
  Worked => [best |-> best, best_score |-> best_score] = PlainScan[Vocab]

\* The token of the threads is the token of the sequential scan, and every result
\* on the way is the best of what was merged.
GreedyExact == BestOfMerged /\ SameAsPlainBuild

-----------------------------------------------------------------------------
(* The inductive invariant: each worker holds the best of the rows it has  *)
(* scanned, and the result is the best of the shares merged.               *)

\* The rows give the result (row, s): the lowest row with the greatest score,
\* or row 0 when none is above -INFINITY.
BestOf(rows, row, s) ==
  \/ row = 0 /\ s = NegInf /\ \A r \in rows : score[r] <= NegInf
  \/ /\ row \in rows /\ s = score[row] /\ s > NegInf
     /\ \A r \in rows : score[r] < s \/ (score[r] = s /\ row <= r)

WorkerType == [next : Nat, end : Nat, local_best : Nat, local_score : Int, merged : BOOLEAN]

WorkerOK(w, first, end) ==
  /\ w.end = end /\ first <= w.next /\ w.next <= end
  /\ w.merged => w.next = end
  /\ BestOf(first .. w.next - 1, w.local_best, w.local_score)

TeamOK ==
  team # <<>> =>
    /\ begin < Vocab
    /\ \E size \in TeamSizes(begin) :
         /\ team \in [1 .. size -> WorkerType]
         /\ \A t \in 1 .. size :
              WorkerOK(team[t], ShareBegin(begin, size, t), ShareBegin(begin, size, t + 1))

ArgmaxTypeOK ==
  /\ score \in [Rows -> Scores]
  /\ begin \in Nat /\ best \in Nat /\ best_score \in Int

ArgmaxInv == ArgmaxTypeOK /\ TeamOK /\ BestOf(MergedShares, best, best_score)
=============================================================================
