---------------------------- MODULE ChatTemplate ----------------------------
(***************************************************************************)
(* edgexpu_chat_apply_conversation in chat.c: a conversation is written    *)
(* out by the model's template.  {{prompt}} stands for the last user       *)
(* message, {{system}} for the system messages joined; the section between *)
(* {{#system}} and {{/system}} is written if there is a system text, the   *)
(* one between {{#message}} and {{/message}} once for every other message. *)
(*                                                                         *)
(* A template is a sequence of symbols: the marks, named below without     *)
(* their braces, and other text.  Every symbol counts as one byte of the   *)
(* buffers.  The output after a refusal is what was written until then.    *)
(***************************************************************************)
EXTENDS Integers, Sequences, FiniteSetsExt

CONSTANTS Alphabet,      \* the symbols of templates and messages; a role is one too
          Templates,     \* template texts
          Conversations, \* sequences of messages [role, content]
          Sizes,         \* output_size a caller may have
          SystemSize     \* room for the joined system messages (4096)

\* Assumed of the constants by the modules that extend this one.
ChatAssumption ==
  /\ {"newline", "system"} \subseteq Alphabet
  /\ Templates \subseteq Seq(Alphabet)
  /\ Conversations \subseteq Seq([role : Alphabet, content : Seq(Alphabet)])
  /\ Sizes \subseteq Nat \ {0} /\ SystemSize \in Nat \ {0}

Newline == "newline"

VARIABLES template, messages, output_size,
          cursor,   \* next symbol of the template
          output,
          chat_pc        \* "start", "scan", "ok" or "refused"

chat_vars == <<template, messages, output_size, cursor, output, chat_pc>>

Empty == [text |-> <<>>, fits |-> TRUE]

\* append_text: all of a text that fits with its terminator or none of it, and
\* nothing after the first one that does not fit.
AppendText(acc, text, room) ==
  IF ~acc.fits \/ text = <<>> THEN acc
  ELSE IF Len(acc.text) + Len(text) >= room THEN [acc EXCEPT !.fits = FALSE]
  ELSE [acc EXCEPT !.text = @ \o text]

\* One text after the other, up to the first that does not fit.
AppendAll(acc, texts, room) ==
  LET After[k \in 0 .. Len(texts)] ==
        IF k = 0 THEN acc ELSE AppendText(After[k - 1], texts[k], room)
  IN After[Len(texts)]

\* What the loop of join_system does with one message.
AddSystem(acc, message) ==
  IF message.role # "system" \/ message.content = <<>> THEN acc
  ELSE AppendText(IF acc.text = <<>> THEN acc ELSE AppendText(acc, <<Newline>>, SystemSize),
                  message.content, SystemSize)

\* join_system
JoinSystem ==
  LET After[k \in 0 .. Len(messages)] ==
        IF k = 0 THEN Empty ELSE AddSystem(After[k - 1], messages[k])
  IN After[Len(messages)]

System == JoinSystem.text

\* last_user_content
LastUser ==
  LET users == {i \in DOMAIN messages : messages[i].role = "user"}
  IN IF users = {} THEN <<>> ELSE messages[Max(users)].content

Has(mark) == \E i \in DOMAIN template : template[i] = mark

\* What one symbol inside a section is replaced by.
Replacement(symbol, role, content) ==
  CASE symbol = "prompt"  -> LastUser
    [] symbol = "system"  -> System
    [] symbol = "content" -> content
    [] symbol = "role"    -> <<role>>
    [] OTHER              -> <<symbol>>

\* Mutant of Expand: what a mark was replaced by is expanded in its turn.
ExpandAgain(acc, inner, role, content) ==
  LET Again(text) == AppendAll(Empty, [n \in DOMAIN text |-> Replacement(text[n], role, content)],
                               output_size).text
  IN AppendAll(acc, [k \in DOMAIN inner |-> Again(Replacement(inner[k], role, content))],
               output_size)

\* expand_placeholders: one section, for one message.
Expand(acc, inner, role, content) ==
  AppendAll(acc, [k \in DOMAIN inner |-> Replacement(inner[k], role, content)], output_size)

ChatInit ==
  /\ template \in Templates /\ messages \in Conversations /\ output_size \in Sizes
  /\ cursor = 1 /\ output = <<>> /\ chat_pc = "start"

Keep == UNCHANGED <<template, messages, output_size>>

\* The output after a step, and the refusal when a part of it did not fit.
Write(acc, next) ==
  /\ output' = acc.text /\ Keep
  /\ IF acc.fits THEN cursor' = next /\ chat_pc' = "scan"
     ELSE chat_pc' = "refused" /\ UNCHANGED cursor

\* A template without any of these marks is not used.
Verbatim == \A mark \in {"prompt", "#message", "system", "#system"} : ~Has(mark)

Begin ==
  /\ chat_pc = "start"
  /\ IF ~JoinSystem.fits THEN chat_pc' = "refused" /\ Keep /\ UNCHANGED <<cursor, output>>
     ELSE IF ~Verbatim THEN chat_pc' = "scan" /\ Keep /\ UNCHANGED <<cursor, output>>
     ELSE LET acc == AppendText(Empty, LastUser, output_size)
          IN /\ output' = acc.text /\ chat_pc' = IF acc.fits THEN "ok" ELSE "refused"
             /\ Keep /\ UNCHANGED cursor

At(mark) == chat_pc = "scan" /\ cursor <= Len(template) /\ template[cursor] = mark

SoFar == [text |-> output, fits |-> TRUE]

\* The section that begins at the cursor: the first closing mark ends it.
Closes(mark) == {j \in cursor + 1 .. Len(template) : template[j] = mark}
Inner(mark)  == SubSeq(template, cursor + 1, Min(Closes(mark)) - 1)

Unclosed(opening, closing) ==
  /\ At(opening) /\ Closes(closing) = {}
  /\ chat_pc' = "refused" /\ Keep /\ UNCHANGED <<cursor, output>>

SystemSection ==
  /\ At("#system") /\ Closes("/system") # {}
  /\ Write(IF System = <<>> THEN SoFar ELSE Expand(SoFar, Inner("/system"), "system", System),
           Min(Closes("/system")) + 1)

\* What the loop over the messages does with one of them.
AddTurn(acc, inner, message) ==
  IF message.role = "system" THEN acc ELSE Expand(acc, inner, message.role, message.content)

Turns(acc, inner) ==
  LET After[k \in 0 .. Len(messages)] ==
        IF k = 0 THEN acc ELSE AddTurn(After[k - 1], inner, messages[k])
  IN After[Len(messages)]

MessageSection ==
  /\ At("#message") /\ Closes("/message") # {}
  /\ Write(Turns(SoFar, Inner("/message")), Min(Closes("/message")) + 1)

\* The turns are in the section if there is one, and the prompt with them.
PromptMark ==
  /\ At("prompt")
  /\ Write(IF Has("#message") THEN SoFar ELSE AppendText(SoFar, LastUser, output_size), cursor + 1)

SystemMark ==
  /\ At("system")
  /\ Write(AppendText(SoFar, System, output_size), cursor + 1)

Marks == {"#system", "#message", "prompt", "system"}

Literal ==
  /\ chat_pc = "scan" /\ cursor <= Len(template) /\ template[cursor] \notin Marks
  /\ Write(AppendText(SoFar, <<template[cursor]>>, output_size), cursor + 1)

Finish ==
  /\ chat_pc = "scan" /\ cursor > Len(template) /\ chat_pc' = "ok"
  /\ Keep /\ UNCHANGED <<cursor, output>>

ChatNext ==
  \/ Begin \/ Unclosed("#system", "/system") \/ Unclosed("#message", "/message")
  \/ SystemSection \/ MessageSection \/ PromptMark \/ SystemMark \/ Literal \/ Finish

ChatSpec == ChatInit /\ [][ChatNext]_chat_vars

-----------------------------------------------------------------------------

\* The output keeps room for its terminator after every part.
OutputFits == Len(output) < output_size

\* The template read from left to right with no look ahead: where a symbol is.
NextMode(mode, symbol) ==
  CASE mode = "top" /\ symbol = "#system"      -> "system"
    [] mode = "top" /\ symbol = "#message"     -> "message"
    [] mode = "system" /\ symbol = "/system"   -> "top"
    [] mode = "message" /\ symbol = "/message" -> "top"
    [] OTHER                                   -> mode

Mode[i \in 0 .. Len(template)] ==
  IF i = 0 THEN "top" ELSE NextMode(Mode[i - 1], template[i])

\* The positions inside a section, without its two marks.
Within(section) == {i \in DOMAIN template : Mode[i - 1] = section /\ Mode[i] = section}

\* The section that opens at a position; one without an end reaches to the end.
SectionEnd(opening) ==
  Min({j \in opening + 1 .. Len(template) : Mode[j] = "top"} \union {Len(template) + 1})

Body(opening) == SubSeq(template, opening + 1, SectionEnd(opening) - 1)

\* The first k texts of a sequence, joined, for every k.
Joins(texts) ==
  LET Join[k \in 0 .. Len(texts)] == IF k = 0 THEN <<>> ELSE Join[k - 1] \o texts[k] IN Join

Concat(texts) == Joins(texts)[Len(texts)]

Filled(inner, role, content) ==
  Concat([k \in DOMAIN inner |-> Replacement(inner[k], role, content)])

\* A section, written once for each message that is not the system's.
FilledTurns(inner) ==
  [k \in DOMAIN messages |->
     IF messages[k].role = "system" THEN <<>>
     ELSE Filled(inner, messages[k].role, messages[k].content)]

\* What the symbol at i adds to an output without a limit.
Part(i) ==
  CASE Mode[i - 1] = "top" /\ Mode[i] = "system" ->
         IF System = <<>> THEN <<>> ELSE Filled(Body(i), "system", System)
    [] Mode[i - 1] = "top" /\ Mode[i] = "message" -> Concat(FilledTurns(Body(i)))
    [] Mode[i - 1] # "top" -> <<>>
    [] Mode[i - 1] = "top" /\ Mode[i] = "top" ->
         IF template[i] = "prompt" /\ Has("#message") THEN <<>>
         ELSE IF template[i] \in {"role", "content"} THEN <<template[i]>>
         ELSE Replacement(template[i], "", <<>>)

Parts == [i \in DOMAIN template |-> Part(i)]

WellFormed == Mode[Len(template)] = "top"

WholePrompt == IF Verbatim THEN LastUser ELSE Concat(Parts)

\* An accepted conversation is written out whole: every turn in its order, every
\* section of the template, and no mark that a message contains is expanded.
WrittenWhole == chat_pc = "ok" => (Verbatim \/ WellFormed) /\ output = WholePrompt

\* A conversation is refused for one of three reasons: a section is not closed,
\* the system messages are too long, or the whole would not fit in the output.
RefusedOnlyForCause ==
  chat_pc = "refused" =>
    \/ ~Verbatim /\ ~WellFormed
    \/ ~JoinSystem.fits
    \/ Len(WholePrompt) >= output_size

\* The template has a place for the user's text: {{prompt}} outside of sections, or
\* {{content}} in the section of turns.
HasPlace ==
  \/ /\ ~Has("#message")
     /\ \E i \in DOMAIN template :
          template[i] = "prompt" /\ Mode[i - 1] = "top" /\ Mode[i] = "top"
  \/ \E i \in Within("message") : template[i] \in {"prompt", "content"}

SaidLast(m) ==
  /\ messages[m].role = "user"
  /\ \A later \in m + 1 .. Len(messages) : messages[later].role # "user"

HasText(text, part) ==
  \E i \in 0 .. Len(text) : \E j \in i .. Len(text) : SubSeq(text, i + 1, j) = part

\* What the user said last is in every prompt that the template has a place for.
UserTextArrives ==
  chat_pc = "ok" /\ HasPlace =>
    \A m \in DOMAIN messages : SaidLast(m) => HasText(output, messages[m].content)

\* An accepted conversation is in the prompt whole, the user's last text with it,
\* one is refused only for want of room or for its template, and the buffer is
\* never overrun.
PromptWhole == OutputFits /\ WrittenWhole /\ RefusedOnlyForCause /\ UserTextArrives

-----------------------------------------------------------------------------
(* The inductive invariant: in front of the cursor the template is outside *)
(* of its sections, and what it stands for up to there is written.         *)

ChatTypeOK ==
  /\ template \in Templates /\ messages \in Conversations /\ output_size \in Sizes
  /\ cursor \in Nat \ {0} /\ output \in Seq(Alphabet)
  /\ chat_pc \in {"start", "scan", "ok", "refused"}

Scanned ==
  /\ ~Verbatim /\ JoinSystem.fits
  /\ cursor <= Len(template) + 1 /\ Mode[cursor - 1] = "top"
  /\ output = Joins(Parts)[cursor - 1]

ChatInv ==
  /\ ChatTypeOK /\ OutputFits
  /\ chat_pc = "start" => cursor = 1 /\ output = <<>>
  /\ chat_pc = "scan" => Scanned
  /\ WrittenWhole /\ RefusedOnlyForCause

\* The comment of the header: a template that is empty or has neither
\* {{prompt}} nor {{#message}} gives the last user text as it is.
CopiedWithoutPlace ==
  chat_pc = "ok" /\ ~Has("prompt") /\ ~Has("#message") => output = LastUser
=============================================================================
