----------------------------- MODULE Completion -----------------------------
(***************************************************************************)
(* What a client of generate_stream is promised: a request is opened,      *)
(* tokens arrive with growing indices while it is open, and it ends with   *)
(* one verdict.  A request may be refused before it opens, and the verdict *)
(* of a model load is reported the same way.  The indices need not be      *)
(* consecutive: a token that has no text is not sent.                      *)
(***************************************************************************)
EXTENDS Integers, Sequences

CONSTANT Index   \* the token indices there can be

VARIABLES
  open,      \* a request is being served
  sent,      \* token_index of every call of on_token for it, in order
  verdict    \* how the last call ended, "none" while one runs

Init == open = FALSE /\ sent = <<>> /\ verdict = "none"

Open ==
  /\ ~open
  /\ open' = TRUE /\ sent' = <<>> /\ verdict' = "none"

Send ==
  /\ open
  /\ \E k \in Index :
       /\ \A i \in 1 .. Len(sent) : sent[i] < k
       /\ sent' = Append(sent, k)
  /\ UNCHANGED <<open, verdict>>

\* The request ends: it stays closed and nothing more is sent.
Close ==
  /\ open
  /\ open' = FALSE /\ verdict' # "none"
  /\ UNCHANGED sent

\* A request that is refused at once, and the two ends of a model load.
Report ==
  /\ ~open
  /\ UNCHANGED <<open, sent>>

Next == Open \/ Send \/ Close \/ Report

Spec == Init /\ [][Next]_<<open, sent, verdict>>
=============================================================================
