----------------------------- MODULE EventStream -----------------------------
(***************************************************************************)
(* What one HTTP connection delivers to its client: nothing if the client  *)
(* said nothing, else one answer.  An answer is a status with its JSON     *)
(* body, or an event stream: header, role, tokens in order, then either    *)
(* the finish chunk or the error chunk, then [DONE].  Chunks sent after    *)
(* the client has left are lost, so what it got is a prefix of an answer.  *)
(***************************************************************************)
EXTENDS Integers, Sequences, SequencesExt

CONSTANTS
  Status,   \* the status codes of JSON answers
  Index     \* the token indices there can be

VARIABLES
  live,     \* a connection is being served
  heard,    \* at least one byte of its request has arrived
  gone,     \* its client has left
  wire      \* the chunks its client has received

Chunk(kind, n) == [kind |-> kind, n |-> n]
Plain(kind)    == Chunk(kind, 0)
TokenChunk(k)  == Chunk("token", k)

\* The chunks that may come after w.
Follows(w) ==
  IF w = <<>> THEN {Chunk("status", s) : s \in Status} \union {Plain("header")}
  ELSE LET last == Last(w)
           rest == {Plain("finish"), Plain("error")}
       IN CASE last.kind = "status" -> {Plain("json")}
            [] last.kind = "header" -> {Plain("role")}
            [] last.kind = "role"   -> {TokenChunk(k) : k \in Index} \union rest
            [] last.kind = "token"  ->
                 {TokenChunk(k) : k \in {i \in Index : i > last.n}} \union rest
            [] last.kind \in {"finish", "error"} -> {Plain("done")}
            [] OTHER -> {}

Complete(w) == w # <<>> /\ Follows(w) = {}

Init == ~live /\ ~heard /\ ~gone /\ wire = <<>>

Open ==
  /\ ~live
  /\ live' = TRUE /\ heard' = FALSE /\ gone' = FALSE /\ wire' = <<>>

Hear  == live /\ heard' = TRUE /\ UNCHANGED <<live, gone, wire>>
Leave == live /\ gone' = TRUE /\ UNCHANGED <<live, heard, wire>>

Deliver ==
  /\ live /\ ~gone
  /\ \E chunk \in Follows(wire) : wire' = Append(wire, chunk)
  /\ UNCHANGED <<live, heard, gone>>

\* A connection is closed when its answer is complete, when the client never
\* said anything, or when nobody listens any more.
Close ==
  /\ live
  /\ gone \/ Complete(wire) \/ (~heard /\ wire = <<>>)
  /\ live' = FALSE
  /\ UNCHANGED <<heard, gone, wire>>

Next == Open \/ Hear \/ Leave \/ Deliver \/ Close

Spec == Init /\ [][Next]_<<live, heard, gone, wire>>
=============================================================================
