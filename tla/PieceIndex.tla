----------------------------- MODULE PieceIndex -----------------------------
(***************************************************************************)
(* The tables of tokenizer.c.  The pieces and merge lines of a file are    *)
(* appended to arrays that grow by doubling; edgexpu_tokenizer_build_index *)
(* then enters them into two open-addressed tables with linear probing,    *)
(* pieces first, because a merge line is entered by the ids of its halves. *)
(* vocab_lookup and pair_lookup walk the same way and stop at the first    *)
(* empty slot.                                                             *)
(*                                                                         *)
(* A piece is a sequence of characters.  The two hash functions are any    *)
(* functions of the set given: which keys collide is up to them.  Capacity *)
(* constants are scaled down.  A merge line without a blank, or with a     *)
(* half of 256 bytes or more, is <<>>.  Allocations succeed: the code ends *)
(* the load when one of vocab_hash and pair_hash_used fails and looks at   *)
(* no other table of the index.                                            *)
(***************************************************************************)
EXTENDS Integers, Sequences, FiniteSetsExt, TLC

CONSTANTS Pieces,      \* what a file may name as a piece
          Lines,       \* its merge lines: pairs of pieces, or <<>> for a malformed one
          MaxVocab, MaxMerges,     \* bounds of the file
          FirstCap,    \* entries of an array that grows from nothing (256)
          MinCap,      \* slots of the smallest table (256)
          Homes        \* hash values of the keys, as offsets from the last slot

None == -1    \* no id

\* Assumed of the constants by the modules that extend this one.
IndexAssumption ==
  /\ MaxVocab \in Nat /\ MaxMerges \in Nat
  /\ FirstCap \in Nat \ {0} /\ MinCap \in Nat \ {0}
  /\ Homes \subseteq Nat /\ Homes # {}
  /\ Lines \subseteq (Pieces \X Pieces) \union {<<>>}

VARIABLES vocab, merge_lines,    \* the arrays; rank and id are the index less one
          vocab_cap, merge_cap,  \* entries allocated for them
          home, spread,          \* the hash functions
          hash_cap,              \* slots of both tables, 0 before the build
          vocab_hash, pair_hash, \* slot -> entry, for the slots that are not empty
          entered,               \* pieces and merge lines entered so far
          ready

file  == <<vocab, merge_lines, vocab_cap, merge_cap>>
hash  == <<home, spread>>
table == <<hash_cap, vocab_hash, pair_hash, entered, ready>>
index_vars ==  <<file, hash, table>>

-----------------------------------------------------------------------------
(* Loading.  `count` is the length the file announces for its array; a     *)
(* string that is too long is skipped, so fewer may come, and the append   *)
(* relies on neither.  The pieces come before the lines, as in every file  *)
(* the two arrays are written to.                                          *)

IndexInit ==
  /\ vocab = <<>> /\ merge_lines = <<>> /\ vocab_cap = 0 /\ merge_cap = 0
  /\ home \in [Pieces -> Homes] /\ spread \in {0, 1}
  /\ hash_cap = 0 /\ vocab_hash = <<>> /\ pair_hash = <<>>
  /\ entered = [pieces |-> 0, lines |-> 0]
  /\ ready = FALSE

Reserve ==
  /\ hash_cap = 0 /\ vocab = <<>> /\ vocab_cap = 0
  /\ \E count \in 1 .. MaxVocab : vocab_cap' = count
  /\ UNCHANGED <<vocab, merge_lines, merge_cap, hash, table>>

ReserveLines ==
  /\ hash_cap = 0 /\ merge_lines = <<>> /\ merge_cap = 0 /\ vocab # <<>>
  /\ \E count \in 1 .. MaxMerges : merge_cap' = count
  /\ UNCHANGED <<vocab, vocab_cap, merge_lines, hash, table>>

\* Entries after room was made for one more behind `size`.
Grown(cap, size) ==
  IF size < cap THEN cap ELSE Max({IF cap = 0 THEN FirstCap ELSE 2 * cap, size + 1})

AppendPiece ==
  /\ hash_cap = 0 /\ Len(vocab) < MaxVocab /\ merge_cap = 0
  /\ \E piece \in Pieces : vocab' = Append(vocab, piece)
  /\ vocab_cap' = Grown(vocab_cap, Len(vocab))
  /\ UNCHANGED <<merge_lines, merge_cap, hash, table>>

AppendMergeLine ==
  /\ hash_cap = 0 /\ Len(merge_lines) < MaxMerges /\ vocab # <<>>
  /\ \E line \in Lines : merge_lines' = Append(merge_lines, line)
  /\ merge_cap' = Grown(merge_cap, Len(merge_lines))
  /\ UNCHANGED <<vocab, vocab_cap, hash, table>>

-----------------------------------------------------------------------------
(* Probing.                                                                *)

\* Doubled until it is at least n, which takes no more than n rounds.
NextPow2(n) ==
  LET p[k \in 0 .. n] == IF k = 0 THEN 1
                         ELSE IF p[k - 1] < n THEN 2 * p[k - 1] ELSE p[k - 1]
  IN p[n]

TableSize(vocab_size, n_merges) ==
  Max({MinCap, NextPow2(2 * Max({vocab_size, n_merges}))})

PieceHome(piece)   == (hash_cap - 1 + home[piece]) % hash_cap
PairHome(left, right) == (spread * (left + 3 * right)) % hash_cap

Slot(start, i) == (start + i) % hash_cap

\* The slots of a walk from `start` up to, not including, the first empty one.
Walk(tab, start) ==
  {Slot(start, i) : i \in {j \in 0 .. hash_cap - 1 :
                             \A k \in 0 .. j : Slot(start, k) \in DOMAIN tab}}

\* How many steps the walk from `start` takes to a slot, and the first of some.
Distance(start, s) == (s - start + hash_cap) % hash_cap
First(slots, start) ==
  CHOOSE s \in slots : \A t \in slots : Distance(start, s) <= Distance(start, t)

\* The entry goes to the first empty slot; if there is none it is dropped.
Put(tab, start, entry) ==
  LET free == (0 .. hash_cap - 1) \ DOMAIN tab
      slot == First(free, start)
  IN IF free = {} THEN tab
     ELSE [s \in DOMAIN tab \union {slot} |-> IF s = slot THEN entry ELSE tab[s]]

\* vocab_lookup: the id of a piece, or None.
Lookup(piece) ==
  LET start == PieceHome(piece)
      hits == {s \in Walk(vocab_hash, start) : vocab[vocab_hash[s] + 1] = piece}
  IN IF hits = {} THEN None ELSE vocab_hash[First(hits, start)]

\* pair_lookup: the entry of a pair of ids, if there is one.
PairLookup(left, right) ==
  LET start == PairHome(left, right)
      hits == {s \in Walk(pair_hash, start) :
                 pair_hash[s].left = left /\ pair_hash[s].right = right}
  IN IF hits = {} THEN {} ELSE {pair_hash[First(hits, start)]}

-----------------------------------------------------------------------------
(* edgexpu_tokenizer_build_index.                                          *)

Allocate ==
  /\ hash_cap = 0 /\ vocab # <<>>
  /\ hash_cap' = TableSize(Len(vocab), Len(merge_lines))
  /\ UNCHANGED <<file, hash, vocab_hash, pair_hash, entered, ready>>

\* Mutant of EnterPiece: the probe for a free slot looks at the first one only.
EnterPieceOverwrites ==
  /\ hash_cap > 0 /\ entered.pieces < Len(vocab)
  /\ vocab_hash' = (PieceHome(vocab[entered.pieces + 1]) :> entered.pieces) @@ vocab_hash
  /\ entered' = [entered EXCEPT !.pieces = @ + 1]
  /\ UNCHANGED <<file, hash, hash_cap, pair_hash, ready>>

\* A piece that is there twice is entered twice; the walk finds the first.
EnterPiece ==
  /\ hash_cap > 0 /\ entered.pieces < Len(vocab)
  /\ vocab_hash' = Put(vocab_hash, PieceHome(vocab[entered.pieces + 1]), entered.pieces)
  /\ entered' = [entered EXCEPT !.pieces = @ + 1]
  /\ UNCHANGED <<file, hash, hash_cap, pair_hash, ready>>

\* What a line enters: nothing when a half or the two together are no piece.
EntryOf(line, rank) ==
  LET Known(piece) == piece \in Pieces /\ Lookup(piece) # None
  IN IF line = <<>> \/ ~(Known(line[1]) /\ Known(line[2]) /\ Known(line[1] \o line[2]))
     THEN {}
     ELSE {[left |-> Lookup(line[1]), right |-> Lookup(line[2]), rank |-> rank,
            result |-> Lookup(line[1] \o line[2])]}

EnterMerge ==
  /\ hash_cap > 0 /\ entered.pieces = Len(vocab) /\ entered.lines < Len(merge_lines)
  /\ LET entries == EntryOf(merge_lines[entered.lines + 1], entered.lines)
     IN IF entries = {} THEN UNCHANGED pair_hash
        ELSE \E e \in entries :
               pair_hash' = Put(pair_hash, PairHome(e.left, e.right), e)
  /\ entered' = [entered EXCEPT !.lines = @ + 1]
  /\ UNCHANGED <<file, hash, hash_cap, vocab_hash, ready>>

BuildDone ==
  /\ hash_cap > 0 /\ ~ready
  /\ entered = [pieces |-> Len(vocab), lines |-> Len(merge_lines)]
  /\ ready' = TRUE
  /\ UNCHANGED <<file, hash, hash_cap, vocab_hash, pair_hash, entered>>

IndexNext ==
  \/ Reserve \/ ReserveLines \/ AppendPiece \/ AppendMergeLine
  \/ Allocate \/ EnterPiece \/ EnterMerge \/ BuildDone

IndexSpec == IndexInit /\ [][IndexNext]_index_vars

-----------------------------------------------------------------------------

\* The arrays hold what was appended, within what was allocated for them.
ArraysHold == Len(vocab) <= vocab_cap /\ Len(merge_lines) <= merge_cap

FirstId(piece) ==
  LET ids == {i \in DOMAIN vocab : vocab[i] = piece}
  IN IF ids = {} THEN None ELSE Min(ids) - 1

\* Once the index is built a piece is found by every hash function exactly if
\* the file has it, under the first of its ids, which is also what the halves
\* of a merge line are entered by.
LookupExact == ready => \A piece \in Pieces : Lookup(piece) = FirstId(piece)

\* The merge found for a pair of ids is the first line of the file that joins
\* their pieces into a piece, with its rank; lines that join to nothing in the
\* vocabulary do not exist for the encoder.
PairExact ==
  ready =>
    \A left, right \in {FirstId(p) : p \in Pieces} \ {None} :
      LET Joins(i) == merge_lines[i] = <<vocab[left + 1], vocab[right + 1]>>
          joined == vocab[left + 1] \o vocab[right + 1]
          lines == {i \in DOMAIN merge_lines : Joins(i) /\ joined \in Pieces}
      IN PairLookup(left, right) =
           IF lines = {} \/ FirstId(joined) = None THEN {}
           ELSE {[left |-> left, right |-> right, rank |-> Min(lines) - 1,
                  result |-> FirstId(joined)]}

\* No table fills up: a walk for a key that is not there ends at an empty slot
\* and an entry always finds one, or it would be lost without an error.
KeepsEmptySlots ==
  hash_cap > 0 =>
    (0 .. hash_cap - 1) \ DOMAIN vocab_hash # {} /\ (0 .. hash_cap - 1) \ DOMAIN pair_hash # {}

\* Whatever the hash functions, the index finds each piece and each pair that the
\* file has, and nothing else; its arrays and tables never fill up.
IndexExact == ArraysHold /\ KeepsEmptySlots /\ LookupExact /\ PairExact

-----------------------------------------------------------------------------
(* The inductive invariant.  An entry is in reach from its home: no slot   *)
(* on the way there is empty.  Of two entries with one home the one that   *)
(* was entered first is nearer.                                            *)

\* How far a slot is from a home in a table of n slots.
Away(n, start, s) == IF start <= s THEN s - start ELSE s - start + n

\* The slots that are taken, with the home and the number of each entry; numbers
\* are given out in ascending order.
Probed(n, taken, from, number) ==
  /\ \A s \in taken : \A t \in 0 .. n - 1 :
       Away(n, from[s], t) <= Away(n, from[s], s) => t \in taken
  /\ \A s, t \in taken :
       from[s] = from[t] /\ number[s] < number[t] => Away(n, from[s], s) < Away(n, from[s], t)
  /\ \A s, t \in taken : number[s] = number[t] => s = t

PieceFrom == [s \in DOMAIN vocab_hash |-> PieceHome(vocab[vocab_hash[s] + 1])]
PairFrom  == [s \in DOMAIN pair_hash |-> PairHome(pair_hash[s].left, pair_hash[s].right)]
PairRank  == [s \in DOMAIN pair_hash |-> pair_hash[s].rank]

\* What the line with index i is entered as.
LineEntry(i) ==
  LET line == merge_lines[i]
      Known(piece) == piece \in Pieces /\ FirstId(piece) # None
  IN IF line = <<>> \/ ~(Known(line[1]) /\ Known(line[2]) /\ Known(line[1] \o line[2]))
     THEN {}
     ELSE {[left |-> FirstId(line[1]), right |-> FirstId(line[2]), rank |-> i - 1,
            result |-> FirstId(line[1] \o line[2])]}

IndexTypeOK ==
  /\ vocab \in Seq(Pieces) /\ merge_lines \in Seq(Lines)
  /\ vocab_cap \in Nat /\ merge_cap \in Nat
  /\ home \in [Pieces -> Homes] /\ spread \in {0, 1}
  /\ hash_cap \in Nat /\ entered \in [pieces : Nat, lines : Nat]

Progress ==
  /\ entered.pieces <= Len(vocab) /\ entered.lines <= Len(merge_lines)
  /\ entered.lines > 0 \/ ready => entered.pieces = Len(vocab)
  /\ ready => entered.lines = Len(merge_lines)
  /\ IF hash_cap = 0 THEN entered.pieces = 0 /\ entered.lines = 0 /\ ~ready
     ELSE Len(vocab) < hash_cap /\ Len(merge_lines) < hash_cap

PiecesEntered ==
  /\ DOMAIN vocab_hash \subseteq 0 .. hash_cap - 1
  /\ \A s \in DOMAIN vocab_hash : vocab_hash[s] \in 0 .. entered.pieces - 1
  /\ \A i \in 0 .. entered.pieces - 1 : \E s \in DOMAIN vocab_hash : vocab_hash[s] = i
  /\ Probed(hash_cap, DOMAIN vocab_hash, PieceFrom, vocab_hash)

PairsEntered ==
  /\ DOMAIN pair_hash \subseteq 0 .. hash_cap - 1
  /\ \A s \in DOMAIN pair_hash : \E i \in 1 .. entered.lines : pair_hash[s] \in LineEntry(i)
  /\ \A i \in 1 .. entered.lines :
       \A e \in LineEntry(i) : \E s \in DOMAIN pair_hash : pair_hash[s] = e
  /\ Probed(hash_cap, DOMAIN pair_hash, PairFrom, PairRank)

IndexInv == IndexTypeOK /\ ArraysHold /\ Progress /\ PiecesEntered /\ PairsEntered
=============================================================================
