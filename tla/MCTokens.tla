------------------------------ MODULE MCTokens ------------------------------
(***************************************************************************)
(* The computations between a text and its tokens, and between the scores  *)
(* and the next token, on small instances.  They share no state: a         *)
(* behaviour carries out one task, and the variables of the others stay,   *)
(* those of PieceIndex, GreedyArgmax and Sampler in a state where nothing  *)
(* has begun, for which their properties hold.                             *)
(*                                                                         *)
(*   "encode"  texts of up to five characters with special tokens          *)
(*   "merge"   runs of letters under every merge list of three lines       *)
(*   "cut"     the pretokenizer on texts of up to four characters: enough  *)
(*             for a contraction and its neighbours, four digits, and      *)
(*             blanks before and after a newline                           *)
(*   "index"   the piece table: three pieces and two merge lines, which    *)
(*             fill half of four slots, so that every walk may wrap around *)
(*   "argmax"  five rows in chunks of three: one for a team, and a short   *)
(*             one                                                         *)
(*   "sample"  four tokens with weights up to 3 and seven random numbers;  *)
(*             top_p in sixths, so that sums that meet it exactly occur    *)
(***************************************************************************)
EXTENDS Tokenizer, PieceIndex, GreedyArgmax, Sampler

VARIABLES task,
          kind, cut_text, pos, cut_words

-----------------------------------------------------------------------------
\* x and s are bytes 120 and 115.  A merge list is one a training could end
\* with: each pair consists of pieces that exist by then, and no piece is made
\* in two ways.
Known(list) ==
  {<<120>>, <<115>>} \union {list[i][1] \o list[i][2] : i \in DOMAIN list}

Extend(lists) ==
  UNION {{Append(list, pair) : pair \in {p \in Known(list) \X Known(list) :
                                           p[1] \o p[2] \notin Known(list)}} : list \in lists}

TrainedLists == Extend(Extend(Extend({<<>>})))

Zhong == <<228, 184, StandIn[173]>>
OneList == {<< <<<<120>>, <<120>>>>, <<<<228>>, <<184>>>>,
               <<SubSeq(Zhong, 1, 2), <<Zhong[3]>>>> >>}

\* "<x>" and "<>" are pieces of the vocabulary.
AngleTokens == {<<60, 120, 62>>, <<60, 62>>}

Training == INSTANCE Tokenizer WITH
  Chars <- {"x", "s"}, MaxText <- 6, MergeTables <- TrainedLists, Specials <- {},
  AddBos <- FALSE, MaxIds <- 6, MaxPieces <- 6, MapBuffer <- 24, MaxAngle <- 4

Cut == INSTANCE Pretokenizer WITH
  Chars <- {"s", "S", "r", "e", "x", "1", "nl", " ", "tab", "!", "'"}, MaxText <- 4,
  text <- cut_text, words <- cut_words

A  == <<"a">>
B  == <<"b">>
AB == <<"a", "b">>
AA == <<"a", "a">>

IndexPieces == {A, B, AB, AA}
IndexLines  == {<<A, B>>, <<A, A>>, <<>>}

RankedScores == {-1, 0, 1, 2}

ASSUME TokensAssumption ==
  /\ Training!BufferAssumption /\ Cut!PretokenizerAssumption /\ IndexAssumption
  /\ ArgmaxAssumption /\ SamplerAssumption

-----------------------------------------------------------------------------
NoEncoding ==
  /\ text = <<>> /\ merges = <<>> /\ cursor = 0 /\ words = <<>> /\ pieces = <<>>
  /\ ids = <<>> /\ pc = "none"
NoScan == kind = "none" /\ cut_text = <<>> /\ pos = 0 /\ cut_words = <<>>
NoIndex ==
  /\ vocab = <<>> /\ merge_lines = <<>> /\ vocab_cap = 0 /\ merge_cap = 0
  /\ home = <<>> /\ spread = <<>> /\ hash_cap = 0 /\ vocab_hash = <<>> /\ pair_hash = <<>>
  /\ entered = [pieces |-> 0, lines |-> 0] /\ ready = FALSE
NoGreedy == score = <<>> /\ begin = 0 /\ team = <<>> /\ best = 0 /\ best_score = 0
NoSample ==
  /\ weight = <<>> /\ top_p = 0 /\ stage = "none" /\ items = <<>> /\ kept = 0
  /\ draw = 0 /\ out = 0

scan == <<kind, cut_text, pos, cut_words>>

AnyTask ==
  \/ task = "encode" /\ Init          /\ NoScan   /\ NoIndex   /\ NoGreedy   /\ NoSample
  \/ task = "merge"  /\ Training!Init /\ NoScan   /\ NoIndex   /\ NoGreedy   /\ NoSample
  \/ task = "cut"    /\ NoEncoding    /\ Cut!Init /\ NoIndex   /\ NoGreedy   /\ NoSample
  \/ task = "index"  /\ NoEncoding    /\ NoScan   /\ IndexInit /\ NoGreedy   /\ NoSample
  \/ task = "argmax" /\ NoEncoding    /\ NoScan   /\ NoIndex   /\ ArgmaxInit /\ NoSample
  \/ task = "sample" /\ NoEncoding    /\ NoScan   /\ NoIndex   /\ NoGreedy   /\ SampleInit

OneStep ==
  /\ UNCHANGED task
  /\ \/ task = "encode" /\ Next
        /\ UNCHANGED <<scan, index_vars, argmax_vars, sample_vars>>
     \/ task = "merge" /\ Training!Next
        /\ UNCHANGED <<scan, index_vars, argmax_vars, sample_vars>>
     \/ task = "cut" /\ Cut!Next
        /\ UNCHANGED <<vars, index_vars, argmax_vars, sample_vars>>
     \/ task = "index" /\ IndexNext
        /\ UNCHANGED <<vars, scan, argmax_vars, sample_vars>>
     \/ task = "argmax" /\ ArgmaxNext
        /\ UNCHANGED <<vars, scan, index_vars, sample_vars>>
     \/ task = "sample" /\ SampleNext
        /\ UNCHANGED <<vars, scan, index_vars, argmax_vars>>

TaskSpec ==
  AnyTask /\ [][OneStep]_<<task, vars, scan, index_vars, argmax_vars, sample_vars>>

\* One task only, for an instance with a small array of pieces.
EncodeSpec ==
  /\ task = "encode" /\ Init /\ NoScan /\ NoIndex /\ NoGreedy /\ NoSample
  /\ [][Next /\ UNCHANGED <<task, scan, index_vars, argmax_vars, sample_vars>>]_
       <<task, vars, scan, index_vars, argmax_vars, sample_vars>>

-----------------------------------------------------------------------------
\* A text that is encoded comes back from its tokens byte for byte, every
\* special token that occurs in it is one token, and the caller's array is not
\* overrun.
EncodesText == task = "encode" => IdsFit /\ RoundTrip /\ SpecialsWhole

\* Joining one pair at a time ends where GPT-2's rounds end.
EncodesLikeGpt2 == task = "merge" => Training!MergesLikeGpt2

\* The scanner of both dialects cuts a text into the words of its regular
\* expression, and no text leaves it without a branch to take.
ScansLikeTheRegex == task = "cut" => Cut!CutsLikeTheRegex /\ Cut!SplitsEverything
=============================================================================
