---------------------------- MODULE Pretokenizer ----------------------------
(***************************************************************************)
(* pretok_split in tokenizer.c: a hand-written scanner that cuts a text    *)
(* into the words the byte-pair merge works on, in three dialects.  It     *)
(* stands for the regular expressions the vocabularies were trained with:  *)
(*                                                                         *)
(*   gpt2    's|'t|'re|'ve|'m|'ll|'d | ?L+ | ?N+ | ?[^\sLN]+               *)
(*           | \s+(?!\S) | \s+                                             *)
(*   qwen2   (?i:the contractions) | [^\r\nLN]?L+ | N | ?[^\sLN]+[\r\n]*   *)
(*           | \s*[\r\n]+ | \s+(?!\S) | \s+                                *)
(*   llama3  qwen2 with N{1,3} for N                                       *)
(*                                                                         *)
(* A character is one representative of its class ("zhong" is U+4E2D, one  *)
(* of the many code points above U+007F that count as letters).  The bound *)
(* of 8192 words cannot bind, since no text of more code points gets here. *)
(* The last statement of the loop, a word of one character that no branch  *)
(* took, is left out: that every text is split without it is checked.      *)
(***************************************************************************)
EXTENDS Integers, Sequences, FiniteSetsExt

CONSTANTS Chars,    \* characters of a text, from the classes below
          MaxText   \* longest text

Letters  == {"s", "S", "r", "e", "E", "x", "zhong"}
Numbers  == {"1"}
Newlines == {"nl", "cr"}
Spaces   == {" ", "tab"} \union Newlines
Others   == {"!", "'", "<", ">"}

\* Assumed of the constants by the modules that instantiate this one.
PretokenizerAssumption ==
  /\ Chars \subseteq Letters \union Numbers \union Spaces \union Others
  /\ MaxText \in Nat

VARIABLES kind,   \* the dialect
          text,
          pos,    \* first character not yet in a word
          words   \* the words so far: first character, and the one after the last

vars == <<kind, text, pos, words>>

\* pre_kind_from_name: every name it does not know is taken for qwen2.
KindOf(pre) ==
  IF pre \in {"", "default", "gpt2", "olmo", "jais"} THEN "gpt2"
  ELSE IF pre \in {"llama3", "llama-v3", "llama-bpe"} THEN "llama3" ELSE "qwen2"

End   == Len(text) + 1
At(i) == IF i \in DOMAIN text THEN text[i] ELSE "end"

Lower(c) == CASE c = "S" -> "s" [] c = "E" -> "e" [] OTHER -> c

\* The first place from i on whose character is not of the class.
RunEnd(i, class) == Min({j \in i .. End : At(j) \notin class})

Emit(e) ==
  /\ words' = Append(words, <<pos, e>>) /\ pos' = e
  /\ UNCHANGED <<kind, text>>

\* Only gpt2 tells capitals apart after an apostrophe.
Fold(c) == IF kind = "gpt2" THEN c ELSE Lower(c)

\* Characters of the contraction at pos, 0 if there is none.
ContractionLength ==
  IF At(pos) # "'" THEN 0
  ELSE IF Fold(At(pos + 1)) \in {"s", "t", "m", "d"} THEN 2
  ELSE IF <<Fold(At(pos + 1)), Fold(At(pos + 2))>>
            \in {<<"r", "e">>, <<"v", "e">>, <<"l", "l">>} THEN 3 ELSE 0

\* A blank is taken along by the run that follows it.
Lead == IF At(pos) = " " /\ pos + 1 < End THEN pos + 1 ELSE pos

Init ==
  /\ kind \in {KindOf(pre) : pre \in {"gpt2", "llama-bpe", "qwen2"}}
  /\ text \in UNION {[1 .. n -> Chars] : n \in 0 .. MaxText}
  /\ pos = 1 /\ words = <<>>

Contraction == ContractionLength > 0 /\ Emit(pos + ContractionLength)

Plain == pos < End /\ ContractionLength = 0   \* what the other branches start from

SpacedRun ==
  /\ Plain /\ kind = "gpt2"
  /\ \E class \in {Letters, Numbers, Others} :
       At(Lead) \in class /\ Emit(RunEnd(Lead, class))

\* One character of any kind but a digit or a newline may precede the letters.
PrefixedLetters ==
  /\ At(pos) \notin Newlines \union Numbers
  /\ At(pos) \in Letters \/ At(pos + 1) \in Letters

LetterRun ==
  /\ Plain /\ kind # "gpt2" /\ PrefixedLetters
  /\ Emit(RunEnd(pos + 1, Letters))

OneDigit == Plain /\ kind = "qwen2" /\ At(pos) \in Numbers /\ Emit(pos + 1)

\* A run of digits is cut into threes from its beginning.
DigitGroups ==
  LET e == RunEnd(pos, Numbers)
  IN /\ Plain /\ kind = "llama3" /\ At(pos) \in Numbers
     /\ words' = words \o [g \in 1 .. (e - pos + 2) \div 3 |->
                             <<pos + 3 * (g - 1), Min({pos + 3 * g, e})>>]
     /\ pos' = e
     /\ UNCHANGED <<kind, text>>

PunctuationRun ==
  /\ Plain /\ kind # "gpt2" /\ ~PrefixedLetters
  /\ At(Lead) \in Others
  /\ Emit(RunEnd(RunEnd(Lead, Others), Newlines))

\* Nothing but white space is left to take at pos.
AtSpaces ==
  /\ Plain /\ At(pos) \in Spaces
  /\ IF kind = "gpt2" THEN At(Lead) \in Spaces
     ELSE ~PrefixedLetters /\ At(Lead) \notin Others

NewlinesIn(e) == {i \in pos .. e - 1 : text[i] \in Newlines}

\* Mutant of SpacesEnd: the last blank is not left for the word that follows.
SpacesEndGreedy ==
  LET e == RunEnd(pos, Spaces)
  IN IF kind # "gpt2" /\ NewlinesIn(e) # {} THEN Max(NewlinesIn(e)) + 1 ELSE e

\* Up to the last newline; else all but the last blank if a word follows.
SpacesEnd ==
  LET e == RunEnd(pos, Spaces)
  IN IF kind # "gpt2" /\ NewlinesIn(e) # {} THEN Max(NewlinesIn(e)) + 1
     ELSE IF e - pos > 1 /\ e < End THEN e - 1 ELSE e

SpaceRun == AtSpaces /\ Emit(SpacesEnd)

Next ==
  \/ Contraction \/ SpacedRun \/ LetterRun \/ OneDigit \/ DigitGroups
  \/ PunctuationRun \/ SpaceRun

Spec == Init /\ [][Next]_vars

-----------------------------------------------------------------------------
(* The regular expressions.  An alternative is the set of places where a   *)
(* match that begins at p may end; the first alternative that matches at   *)
(* all is taken, and as far as it goes.                                    *)

All(p, e, class) == \A i \in p .. e - 1 : text[i] \in class

Optional(p, class) == IF text[p] \in class THEN {p, p + 1} ELSE {p}

Ends(p) == p + 1 .. End

Apostrophes(p) ==
  {e \in Ends(p) :
     [i \in 1 .. e - p |-> IF kind = "gpt2" THEN text[p + i - 1] ELSE Lower(text[p + i - 1])]
       \in {<<"'", "s">>, <<"'", "t">>, <<"'", "m">>, <<"'", "d">>,
            <<"'", "r", "e">>, <<"'", "v", "e">>, <<"'", "l", "l">>}}

After(p, prefix, class) ==
  {e \in Ends(p) : \E b \in Optional(p, prefix) : b < e /\ All(b, e, class)}

AfterWithTail(p, prefix, class, tail) ==
  {e \in Ends(p) : \E b \in Optional(p, prefix), m \in Ends(p) :
     b < m /\ m <= e /\ All(b, m, class) /\ All(m, e, tail)}

SpacesTo(p, Follows(_)) == {e \in Ends(p) : All(p, e, Spaces) /\ Follows(e)}

Alternatives(p) ==
  LET blank  == SpacesTo(p, LAMBDA e : e = End \/ text[e] \in Spaces)
      spaces == SpacesTo(p, LAMBDA e : TRUE)
      digits == {e \in Ends(p) : All(p, e, Numbers) /\ e - p <= (IF kind = "qwen2" THEN 1 ELSE 3)}
  IN IF kind = "gpt2"
     THEN <<Apostrophes(p), After(p, {" "}, Letters), After(p, {" "}, Numbers),
            After(p, {" "}, Others), blank, spaces>>
     ELSE <<Apostrophes(p), After(p, Chars \ (Newlines \union Letters \union Numbers), Letters),
            digits, AfterWithTail(p, {" "}, Others, Newlines),
            SpacesTo(p, LAMBDA e : text[e - 1] \in Newlines), blank, spaces>>

Match(p) ==
  LET alternatives == Alternatives(p)
  IN Max(alternatives[Min({i \in DOMAIN alternatives : alternatives[i] # {}})])

\* The words from p on.
Split[p \in 1 .. End] == IF p = End THEN <<>> ELSE <<<<p, Match(p)>>>> \o Split[Match(p)]

\* The scanner cuts every text where the regular expression of its dialect
\* does: the words found so far are the first ones of its split.
CutsLikeTheRegex == words \o Split[pos] = Split[1]

\* Every text is split to its end by the branches above, so the catch-all at
\* the end of the loop is never reached.
SplitsEverything == pos = End \/ ENABLED Next
=============================================================================
