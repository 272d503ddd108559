------------------------------ MODULE MCServer ------------------------------
(* Instances of Server for TLC; the bounds are explained in the README.     *)
EXTENDS Server

Msg(text) == <<"begin", text, "end">>
Ask(head, len, body) == [line |-> "chat", head |-> head, len |-> len, body |-> body]
Whole(head, body) == Ask(head, Len(body), body)

Two == Msg("text") \o Msg("text")

\* With Buffer = 10: Two with its stream member fills the buffer with a header of
\* three bytes and exceeds it by one with a header of four.
Answered ==
  {[line |-> "models", head |-> 2, len |-> Absent, body |-> <<>>],
   [line |-> "other", head |-> 2, len |-> 2, body |-> Msg("text")],
   Whole(3, Two \o <<"stream">>), Whole(1, Two), Whole(2, Msg("text") \o <<"begin", "end">>)}

Refused4xx ==
  {Whole(4, Two \o <<"stream">>), Whole(11, <<>>), Whole(2, <<"stream">>),
   Whole(2, <<"other_model">> \o Msg("text")), Whole(2, Msg("long")),
   Ask(2, Invalid, Msg("text"))}

Misframed ==
  {Ask(2, Absent, Msg("text") \o <<"stream">>), Ask(2, 5, Msg("text")),
   Ask(2, 3, Two)}

LongTalk == {Whole(1, Two \o Msg("text"))}
BraceTalk == {Whole(1, Msg("text") \o Msg("brace"))}

AllRequests == Answered \union Refused4xx \union Misframed \union LongTalk \union BraceTalk
Tokens == {0, 1}

ASSUME MessagesAreFlat == FlatMessages
=============================================================================
