----------------------------- MODULE Tokenizer -----------------------------
(***************************************************************************)
(* edgexpu_tokenizer_encode in tokenizer.c: special tokens are taken out   *)
(* of the text whole, what is between them is cut into words (module       *)
(* Pretokenizer), and the bytes of a word are merged pair by pair, always  *)
(* the leftmost pair of the lowest rank, until no merge applies.  Decoding *)
(* puts the bytes of the pieces together again.                            *)
(*                                                                         *)
(* A token is its piece, a sequence of code points: the lookups are exact  *)
(* (module PieceIndex).  The vocabulary is one with a piece for every      *)
(* byte, so the padding token for an unknown byte never occurs; a text of  *)
(* more than 8192 code points between two special tokens is refused by the *)
(* code and longer than the texts here.                                    *)
(***************************************************************************)
EXTENDS Integers, Sequences, FiniteSetsExt, SequencesExt

CONSTANTS Chars,        \* characters of a text (see Pretokenizer)
          MaxText,      \* longest text
          MergeTables,  \* merge lists a file may have: pairs of pieces by rank
          Specials,     \* the pieces of the vocabulary that begin with "<"
          AddBos,       \* does the model want the first token
          MaxIds,       \* tokens the caller has room for
          MaxPieces,    \* EDGEXPU_BPE_MAX_PIECES (256)
          MapBuffer,    \* bytes of the buffer of a mapped word (1024)
          MaxAngle      \* longest special token (64)

ASSUME BufferAssumption ==
  MaxIds \in Nat \ {0} /\ MaxPieces \in Nat \ {0} /\ MapBuffer \in Nat /\ MaxAngle \in Nat

Bos == "bos"

VARIABLES text, merges,
          cursor,   \* first character not yet in a word or a special token
          words,    \* the words of the chunk that are still to be encoded
          pieces,   \* the word being merged
          ids,
          pc        \* "scan", "word", "merge", "ok", "refused"

vars == <<text, merges, cursor, words, pieces, ids, pc>>

End == Len(text) + 1

\* The bytes of a character.
Utf8(c) ==
  CASE c = "zhong" -> <<228, 184, 173>>
    [] c = "x" -> <<120>> [] c = "s" -> <<115>> [] c = " " -> <<32>>
    [] c = "!" -> <<33>>  [] c = "<" -> <<60>>  [] c = ">" -> <<62>>

Bytes(chars) == FlattenSeq([i \in DOMAIN chars |-> Utf8(chars[i])])

\* gpt2_byte_to_cp: printable bytes stand for themselves, the others for the
\* code points from U+0100 on, in order.
Printable == 33 .. 126 \union 161 .. 172 \union 174 .. 255

StandIn == [b \in 0 .. 255 |->
              IF b \in Printable THEN b ELSE 256 + Cardinality((0 .. b - 1) \ Printable)]

\* gpt2_map_bytes, and the size of the result in UTF-8.
Mapped(word) == [i \in DOMAIN word |-> StandIn[word[i]]]
MappedSize(word) == Len(word) + Len(SelectSeq(Mapped(word), LAMBDA cp : cp >= 128))

\* What a code point of a piece decodes to.
FromStandIn(cp) ==
  LET bytes == {b \in 0 .. 255 : StandIn[b] = cp}
  IN IF cp < 512 /\ bytes # {} THEN Min(bytes) ELSE cp

\* The characters of the special token that begins at i, 0 if there is none:
\* up to the first ">", and all of it a piece.
SpecialLength(i) ==
  LET close == {j \in i .. Len(text) : text[j] = ">"}
      token == SubSeq(text, i, Min(close))
  IN IF i > Len(text) \/ text[i] # "<" \/ close = {} THEN 0
     ELSE IF Len(Bytes(token)) \in 2 .. MaxAngle /\ Bytes(token) \in Specials
          THEN Len(token) ELSE 0

\* The words of a chunk, by the dialect of most vocabularies.
Scanner(chunk) == INSTANCE Pretokenizer WITH
  text <- chunk, kind <- "qwen2", pos <- 1, words <- <<>>

Words(chunk) ==
  LET cuts == Scanner(chunk)!Split[1]
  IN [w \in DOMAIN cuts |-> Bytes(SubSeq(chunk, cuts[w][1], cuts[w][2] - 1))]

Init ==
  /\ text \in UNION {[1 .. n -> Chars] : n \in 0 .. MaxText}
  /\ merges \in MergeTables
  /\ ids = (IF AddBos THEN <<Bos>> ELSE <<>>)
  /\ cursor = 1 /\ words = <<>> /\ pieces = <<>> /\ pc = "scan"

Refuse == pc' = "refused" /\ UNCHANGED <<text, merges, cursor, words, pieces, ids>>

TakeSpecial ==
  LET length == SpecialLength(cursor)
  IN /\ pc = "scan" /\ length > 0
     /\ IF Len(ids) >= MaxIds THEN Refuse
        ELSE /\ ids' = Append(ids, Bytes(SubSeq(text, cursor, cursor + length - 1)))
             /\ cursor' = cursor + length
             /\ UNCHANGED <<text, merges, words, pieces, pc>>

\* Mutant of ChunkEnd: the chunk runs to the end of the text.
ChunkEndWhole == End

ChunkEnd == Min({e \in cursor + 1 .. End : e = End \/ SpecialLength(e) > 0})

TakeChunk ==
  /\ pc = "scan" /\ cursor < End /\ SpecialLength(cursor) = 0
  /\ words' = Words(SubSeq(text, cursor, ChunkEnd - 1))
  /\ cursor' = ChunkEnd /\ pc' = "word"
  /\ UNCHANGED <<text, merges, pieces, ids>>

\* encode_word starts from the characters of the word, as many as there is room
\* for; the rest is not looked at again.
FirstPieces(word) ==
  [i \in 1 .. Min({Len(word), MaxPieces}) |-> <<StandIn[word[i]]>>]

StartWord ==
  /\ pc = "word" /\ words # <<>>
  /\ IF MappedSize(Head(words)) >= MapBuffer THEN Refuse
     ELSE /\ pieces' = FirstPieces(Head(words)) /\ pc' = "merge"
          /\ UNCHANGED <<text, merges, cursor, words, ids>>

\* The rank of the merge of the pieces at i and i + 1, if there is one.
Ranks(i) == {r \in DOMAIN merges : merges[r] = <<pieces[i], pieces[i + 1]>>}
Mergeable == {i \in 1 .. Len(pieces) - 1 : Ranks(i) # {}}

\* Mutant of BestPair: the first pair that merges is taken, whatever its rank.
BestPairFirst == Min(Mergeable)

BestPair ==
  Min({i \in Mergeable : \A j \in Mergeable : Min(Ranks(i)) <= Min(Ranks(j))})

MergeStep ==
  /\ pc = "merge" /\ Mergeable # {}
  /\ pieces' = SubSeq(pieces, 1, BestPair - 1)
               \o <<pieces[BestPair] \o pieces[BestPair + 1]>>
               \o SubSeq(pieces, BestPair + 2, Len(pieces))
  /\ UNCHANGED <<text, merges, cursor, words, ids, pc>>

Fits == Len(ids) + Len(pieces) <= MaxIds

FinishWord ==
  /\ pc = "merge" /\ Mergeable = {}
  /\ IF ~Fits THEN Refuse
     ELSE /\ ids' = ids \o pieces /\ words' = Tail(words) /\ pc' = "word"
          /\ UNCHANGED <<text, merges, cursor, pieces>>

ChunkDone ==
  /\ pc = "word" /\ words = <<>> /\ pc' = "scan"
  /\ UNCHANGED <<text, merges, cursor, words, pieces, ids>>

EncodeDone ==
  /\ pc = "scan" /\ cursor = End /\ pc' = "ok"
  /\ UNCHANGED <<text, merges, cursor, words, pieces, ids>>

Next ==
  \/ TakeSpecial \/ TakeChunk \/ ChunkDone \/ EncodeDone
  \/ StartWord \/ MergeStep \/ FinishWord

Spec == Init /\ [][Next]_vars

-----------------------------------------------------------------------------

\* edgexpu_tokenizer_decode, into a buffer that is large enough.
Decode(tokens) ==
  LET cps == FlattenSeq(tokens) IN [i \in DOMAIN cps |-> FromStandIn(cps[i])]

Content == IF AddBos THEN Tail(ids) ELSE ids

\* The caller's array is never overrun, whichever word is one token too long.
IdsFit == Len(ids) <= MaxIds

\* A text that is encoded comes back from its tokens byte for byte: no word,
\* special token or end of a long word is lost on the way.
RoundTrip == pc = "ok" => Decode(Content) = Bytes(text)

\* The merge as GPT-2 defines it: in every round all occurrences of the pair of
\* the lowest rank are joined, from left to right.
MergeAll(word, pair) ==
  FoldLeft(LAMBDA acc, piece :
             IF acc # <<>> /\ <<Last(acc), piece>> = pair
             THEN Append(Front(acc), pair[1] \o pair[2]) ELSE Append(acc, piece),
           <<>>, word)

Merged(word) ==
  LET Round[k \in 0 .. Len(word)] ==
        IF k = 0 THEN [i \in DOMAIN word |-> <<StandIn[word[i]]>>]
        ELSE LET before == Round[k - 1]
                 ranks == {r \in DOMAIN merges :
                             \E i \in 1 .. Len(before) - 1 :
                               merges[r] = <<before[i], before[i + 1]>>}
             IN IF ranks = {} THEN before ELSE MergeAll(before, merges[Min(ranks)])
  IN Round[Len(word)]

\* Joining one pair at a time ends at the same pieces as joining all its
\* occurrences at once, for merge lists in which every piece is made one way.
MergesLikeGpt2 == pc = "merge" /\ Mergeable = {} => pieces = Merged(Head(words))

\* Every occurrence of a special token in the text is one token, and nothing
\* else becomes one.
SpecialsWhole ==
  pc = "ok" =>
    Len(SelectSeq(Content, LAMBDA t : t \in Specials)) =
      Cardinality({i \in 1 .. Len(text) : \E j \in i .. Len(text) :
                     Bytes(SubSeq(text, i, j)) \in Specials})
=============================================================================
