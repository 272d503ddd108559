----------------------------- MODULE ServerProofs -----------------------------
(***************************************************************************)
(* What the server guarantees for every buffer, every set of requests and  *)
(* every way the network cuts them: the answer does not depend on the      *)
(* cuts, a connection delivers one well-formed answer, and a client that   *)
(* stays is told how its generation went.                                  *)
(*                                                                         *)
(* The scan of a body and the texts in it are recursive functions on its   *)
(* positions.  That they satisfy their equations follows from Recursion;   *)
(* what they compute is proved by UpTo (both in BoundedRecursion).         *)
(***************************************************************************)
EXTENDS Server, SequenceTheorems, BoundedRecursion, TLAPS

-----------------------------------------------------------------------------
(* The recursive functions inside TextsOf and ScanMessages satisfy their   *)
(* equations.  L is the length of the body and A what the values are in.   *)

TextsRule(f, body, n, base) ==
  [i \in 0 .. n |-> IF i = 0 THEN base ELSE KeepText(f[i - 1], body[i])]

IsTexts(F, body, n, A, base) ==
  /\ F \in [0 .. n -> A] /\ F[0] = base
  /\ \A i \in 1 .. n : F[i] = KeepText(F[i - 1], body[i])

LEMMA TextsExists ==
  ASSUME NEW n \in Nat, NEW body, NEW A, NEW base \in A,
         \A a \in A : \A p : KeepText(a, p) \in A
  PROVE  \E f : f = TextsRule(f, body, n, base)
<1> DEFINE step == [x \in A \X (1 .. n) |-> KeepText(x[1], body[x[2]])]
<1>1. step \in StepFunctions(A, n)
  BY DEF StepFunctions
<1>2. PICK f : Unrolls(f, A, base, n, step)
  <2> HIDE DEF step
  <2>1. QED
    BY <1>1, Recursion
<1>3. \A i \in 1 .. n : f[i] = KeepText(f[i - 1], body[i])
  <2>1. TAKE i \in 1 .. n
  <2>2. f[i - 1] \in A
    BY <1>2 DEF Unrolls
  <2>3. step[<<f[i - 1], i>>] = KeepText(f[i - 1], body[i])
    BY <2>2
  <2> HIDE DEF step
  <2>4. QED
    BY <1>2, <2>3 DEF Unrolls
<1>4. f = TextsRule(f, body, n, base)
  <2> HIDE DEF step
  <2>1. QED
    BY <1>2, <1>3 DEF Unrolls, TextsRule
<1>5. QED
  BY <1>4

LEMMA TextsEquation ==
  ASSUME NEW n \in Nat, NEW body, NEW A, NEW base \in A,
         \A a \in A : \A p : KeepText(a, p) \in A,
         NEW F, F = CHOOSE f : f = TextsRule(f, body, n, base)
  PROVE  IsTexts(F, body, n, A, base)
<1>1. F = TextsRule(F, body, n, base)
  BY TextsExists, Zenon
<1>2. \A i \in 0 .. n : F[i] = IF i = 0 THEN base ELSE KeepText(F[i - 1], body[i])
  <2>1. ASSUME NEW i \in 0 .. n
        PROVE  TextsRule(F, body, n, base)[i] = IF i = 0 THEN base ELSE KeepText(F[i - 1], body[i])
    BY DEF TextsRule
  <2>2. QED
    BY <1>1, <2>1
<1>3. F[0] = base /\ \A i \in 1 .. n : F[i] = KeepText(F[i - 1], body[i])
  <2>1. 0 \in 0 .. n /\ \A i \in 1 .. n : i \in 0 .. n /\ i # 0
    OBVIOUS
  <2>2. QED
    BY <1>2, <2>1
<1>4. \A i \in 0 .. n : F[i] \in A
  <2> DEFINE S == {i \in 0 .. n : F[i] \in A}
  <2>1. 0 \in S /\ \A i \in 1 .. n : i - 1 \in S => i \in S
    BY <1>3
  <2>2. \A i \in 0 .. n : i \in S
    <3> HIDE DEF S
    <3>1. QED
      BY <2>1, UpTo
  <2>3. QED
    BY <2>2
<1>5. F \in [0 .. n -> A]
  BY <1>1, <1>4 DEF TextsRule
<1>6. QED
  BY <1>3, <1>5 DEF IsTexts

ScanRule(f, body, n, base) ==
  [i \in 0 .. n |-> IF i = 0 THEN base ELSE Scan(f[i - 1], body[i])]

IsScan(F, body, n, A, base) ==
  /\ F \in [0 .. n -> A] /\ F[0] = base
  /\ \A i \in 1 .. n : F[i] = Scan(F[i - 1], body[i])

LEMMA ScanExists ==
  ASSUME NEW n \in Nat, NEW body, NEW A, NEW base \in A,
         \A a \in A : \A p : Scan(a, p) \in A
  PROVE  \E f : f = ScanRule(f, body, n, base)
<1> DEFINE step == [x \in A \X (1 .. n) |-> Scan(x[1], body[x[2]])]
<1>1. step \in StepFunctions(A, n)
  BY DEF StepFunctions
<1>2. PICK f : Unrolls(f, A, base, n, step)
  <2> HIDE DEF step
  <2>1. QED
    BY <1>1, Recursion
<1>3. \A i \in 1 .. n : f[i] = Scan(f[i - 1], body[i])
  <2>1. TAKE i \in 1 .. n
  <2>2. f[i - 1] \in A
    BY <1>2 DEF Unrolls
  <2>3. step[<<f[i - 1], i>>] = Scan(f[i - 1], body[i])
    BY <2>2
  <2> HIDE DEF step
  <2>4. QED
    BY <1>2, <2>3 DEF Unrolls
<1>4. f = ScanRule(f, body, n, base)
  <2> HIDE DEF step
  <2>1. QED
    BY <1>2, <1>3 DEF Unrolls, ScanRule
<1>5. QED
  BY <1>4

LEMMA ScanEquation ==
  ASSUME NEW n \in Nat, NEW body, NEW A, NEW base \in A,
         \A a \in A : \A p : Scan(a, p) \in A,
         NEW F, F = CHOOSE f : f = ScanRule(f, body, n, base)
  PROVE  IsScan(F, body, n, A, base)
<1>1. F = ScanRule(F, body, n, base)
  BY ScanExists, Zenon
<1>2. \A i \in 0 .. n : F[i] = IF i = 0 THEN base ELSE Scan(F[i - 1], body[i])
  <2>1. ASSUME NEW i \in 0 .. n
        PROVE  ScanRule(F, body, n, base)[i] = IF i = 0 THEN base ELSE Scan(F[i - 1], body[i])
    BY DEF ScanRule
  <2>2. QED
    BY <1>1, <2>1
<1>3. F[0] = base /\ \A i \in 1 .. n : F[i] = Scan(F[i - 1], body[i])
  <2>1. 0 \in 0 .. n /\ \A i \in 1 .. n : i \in 0 .. n /\ i # 0
    OBVIOUS
  <2>2. QED
    BY <1>2, <2>1
<1>4. \A i \in 0 .. n : F[i] \in A
  <2> DEFINE S == {i \in 0 .. n : F[i] \in A}
  <2>1. 0 \in S /\ \A i \in 1 .. n : i - 1 \in S => i \in S
    BY <1>3
  <2>2. \A i \in 0 .. n : i \in S
    <3> HIDE DEF S
    <3>1. QED
      BY <2>1, UpTo
  <2>3. QED
    BY <2>2
<1>5. F \in [0 .. n -> A]
  BY <1>1, <1>4 DEF ScanRule
<1>6. QED
  BY <1>3, <1>5 DEF IsScan

-----------------------------------------------------------------------------
(* The texts of a body and the messages the scan finds.                    *)

Accs == [turns : Seq(Texts), text : Seq(Texts), depth : Int]

NoAcc == [turns |-> <<>>, text |-> <<>>, depth |-> 0]

LEMMA KeepTextType ==
  ASSUME NEW a \in Seq(Texts), NEW piece
  PROVE  KeepText(a, piece) \in Seq(Texts)
BY DEF KeepText

LEMMA ScanType ==
  ASSUME NEW acc \in Accs, NEW piece
  PROVE  Scan(acc, piece) \in Accs
<1> acc.depth \in Int /\ acc.text \in Seq(Texts) /\ acc.turns \in Seq(Texts)
  BY DEF Accs
<1>1. CASE Len(acc.turns) = MaxMessages
  BY <1>1 DEF Scan
<1>2. CASE Len(acc.turns) # MaxMessages
  <2>1. CASE piece = "begin"
    <3>1. Scan(acc, piece) = [acc EXCEPT !.depth = @ + 1]
      BY <1>2, <2>1 DEF Scan, Texts
    <3>2. QED
      BY <3>1 DEF Accs
  <2>2. CASE piece = "end" /\ acc.depth = 1
    <3>1. Scan(acc, piece) = [turns |-> acc.turns \o acc.text, text |-> <<>>, depth |-> 0]
      BY <1>2, <2>2 DEF Scan, Texts
    <3>2. acc.turns \o acc.text \in Seq(Texts)
      OBVIOUS
    <3>3. QED
      BY <3>1, <3>2 DEF Accs
  <2>3. CASE piece = "end" /\ acc.depth > 1
    <3>1. Scan(acc, piece) = [acc EXCEPT !.depth = @ - 1]
      BY <1>2, <2>3 DEF Scan, Texts
    <3>2. QED
      BY <3>1 DEF Accs
  <2>4. CASE piece \in Texts /\ acc.depth > 0
    <3>1. Scan(acc, piece) =
            [acc EXCEPT !.text  = IF @ = <<>> THEN <<piece>> ELSE @,
                        !.depth = IF piece = "brace" THEN @ + 1 ELSE @]
      BY <1>2, <2>4 DEF Scan, Texts
    <3>2. (IF acc.text = <<>> THEN <<piece>> ELSE acc.text) \in Seq(Texts)
      BY <2>4
    <3>3. (IF piece = "brace" THEN acc.depth + 1 ELSE acc.depth) \in Int
      OBVIOUS
    <3>4. \A x \in Seq(Texts), y \in Int : [acc EXCEPT !.text = x, !.depth = y] \in Accs
      BY DEF Accs
    <3> DEFINE x == IF acc.text = <<>> THEN <<piece>> ELSE acc.text
               y == IF piece = "brace" THEN acc.depth + 1 ELSE acc.depth
    <3>5. Scan(acc, piece) = [acc EXCEPT !.text = x, !.depth = y]
      BY <3>1
    <3>6. x \in Seq(Texts) /\ y \in Int
      BY <3>2, <3>3
    <3> HIDE DEF x, y
    <3>7. QED
      BY <3>4, <3>5, <3>6
  <2>5. CASE /\ piece # "begin" /\ ~(piece = "end" /\ acc.depth = 1)
             /\ ~(piece = "end" /\ acc.depth > 1) /\ ~(piece \in Texts /\ acc.depth > 0)
    BY <1>2, <2>5 DEF Scan, Texts
  <2>6. QED
    BY <2>1, <2>2, <2>3, <2>4, <2>5
<1>3. QED
  BY <1>1, <1>2

LEMMA TextsFunction ==
  ASSUME NEW body \in Seq(Pieces)
  PROVE  \E F : /\ IsTexts(F, body, Len(body), Seq(Texts), <<>>)
               /\ TextsOf(body) = F[Len(body)]
<1> DEFINE F == CHOOSE f : f = TextsRule(f, body, Len(body), <<>>)
<1>1. TextsOf(body) = F[Len(body)]
  BY Zenon DEF TextsOf, TextsRule
<1>2. Len(body) \in Nat /\ <<>> \in Seq(Texts)
  OBVIOUS
<1>3. \A a \in Seq(Texts) : \A p : KeepText(a, p) \in Seq(Texts)
  BY KeepTextType
<1>4. IsTexts(F, body, Len(body), Seq(Texts), <<>>)
  BY <1>2, <1>3, TextsEquation, Zenon
<1>5. QED
  BY <1>1, <1>4, Zenon

LEMMA ScanFunction ==
  ASSUME NEW body \in Seq(Pieces)
  PROVE  \E G : /\ IsScan(G, body, Len(body), Accs, NoAcc)
               /\ ScanMessages(body) = G[Len(body)]
<1> DEFINE G == CHOOSE f : f = ScanRule(f, body, Len(body), NoAcc)
<1>1. ScanMessages(body) = G[Len(body)]
  BY Zenon DEF ScanMessages, ScanRule, NoAcc
<1>2. Len(body) \in Nat /\ NoAcc \in Accs
  BY DEF Accs, NoAcc
<1>3. \A a \in Accs : \A p : Scan(a, p) \in Accs
  BY ScanType
<1>4. IsScan(G, body, Len(body), Accs, NoAcc)
  BY <1>2, <1>3, ScanEquation, Zenon
<1>5. QED
  BY <1>1, <1>4, Zenon

-----------------------------------------------------------------------------
(* What a request is answered.                                             *)

AnyRequest == Requests \union {NoClient.request}

\* A decision that ends the reception of a request.
Final == {d \in Decision : d.status # 0 /\ (d.turns = <<>> => ~d.stream)}

LEMMA RequestType ==
  ASSUME NEW r \in AnyRequest
  PROVE  /\ r.line \in {"models", "chat", "other"} /\ r.head \in Nat \ {0}
         /\ r.len \in Nat \union {Absent, Invalid} /\ r.body \in Seq(Pieces)
<1>1. CASE r \in Requests
  BY <1>1, ServerAssumption
<1>2. CASE r = [line |-> "other", head |-> 1, len |-> Absent, body |-> <<>>]
  BY <1>2
<1>3. QED
  BY <1>1, <1>2 DEF AnyRequest, NoClient

LEMMA TextsLast ==
  ASSUME NEW n \in Nat, NEW body, NEW A, NEW base, NEW F, IsTexts(F, body, n, A, base)
  PROVE  F[n] \in A
BY DEF IsTexts

LEMMA ScanLast ==
  ASSUME NEW n \in Nat, NEW body, NEW A, NEW base, NEW G, IsScan(G, body, n, A, base)
  PROVE  G[n] \in A
BY DEF IsScan

LEMMA TextsOfType ==
  ASSUME NEW body \in Seq(Pieces)
  PROVE  TextsOf(body) \in Seq(Texts)
<1>1. PICK F : IsTexts(F, body, Len(body), Seq(Texts), <<>>) /\ TextsOf(body) = F[Len(body)]
  BY TextsFunction, Zenon
<1>2. Len(body) \in Nat
  OBVIOUS
<1>3. QED
  BY <1>1, <1>2, TextsLast, Zenon

LEMMA TurnsType ==
  ASSUME NEW body \in Seq(Pieces)
  PROVE  Turns(body) \in Seq(Texts)
<1>1. ScanMessages(body).turns \in Seq(Texts)
  <2>1. PICK G : IsScan(G, body, Len(body), Accs, NoAcc) /\ ScanMessages(body) = G[Len(body)]
    BY ScanFunction, Zenon
  <2>2. Len(body) \in Nat
    OBVIOUS
  <2>3. ScanMessages(body) \in Accs
    BY <2>1, <2>2, ScanLast, Zenon
  <2>4. QED
    BY <2>3 DEF Accs
<1>2. TextsOf(body) \in Seq(Texts)
  BY TextsOfType
<1>3. CASE TextsOf(body) = <<>>
  BY <1>1, <1>3 DEF Turns
<1>4. CASE TextsOf(body) # <<>>
  <2>1. <<Head(TextsOf(body))>> \in Seq(Texts)
    BY <1>2, <1>4
  <2>2. QED
    BY <1>1, <1>4, <2>1 DEF Turns
<1>5. QED
  BY <1>3, <1>4

LEMMA AnswerFinal ==
  ASSUME NEW status \in {200, 400, 404, 413}
  PROVE  Answer(status) \in Final
BY DEF Answer, Final, Decision

LEMMA RouteFinal ==
  ASSUME NEW r \in AnyRequest, NEW body \in Seq(Pieces)
  PROVE  Route(r, body) \in Final
<1>1. ASSUME Turns(body) # <<>>
      PROVE  [status |-> 200, turns |-> Turns(body), stream |-> Holds(body, "stream")] \in Final
  <2>1. Holds(body, "stream") \in BOOLEAN
    BY DEF Holds
  <2>2. QED
    BY <1>1, <2>1, TurnsType DEF Final, Decision
<1>2. ChatCompletion(body) \in Final
  BY <1>1, AnswerFinal DEF ChatCompletion
<1>3. QED
  BY <1>2, RequestType, AnswerFinal DEF Route

LEMMA FinalNotUndecided ==
  ASSUME NEW d \in Final
  PROVE  d # Undecided
BY DEF Final, Undecided

LEMMA BodyInType ==
  ASSUME NEW r \in AnyRequest,
         NEW n \in Nat, r.head <= n, n <= r.head + Len(r.body)
  PROVE  BodyIn(r, n) \in Seq(Pieces)
BY RequestType DEF BodyIn

\* Only what the client has sent is routed, so a recv decides or waits.
LEMMA AfterRecvType ==
  ASSUME NEW r \in AnyRequest,
         NEW n \in Nat, n <= r.head + Len(r.body)
  PROVE  AfterRecv(r, n) \in Final \union {Undecided}
<1>1. CASE n < r.head
  BY <1>1, RequestType, AnswerFinal DEF AfterRecv
<1>2. CASE n >= r.head
  <2>1. Route(r, BodyIn(r, n)) \in Final
    BY <1>2, RequestType, BodyInType, RouteFinal
  <2>2. QED
    BY <1>2, <2>1, RequestType, AnswerFinal DEF AfterRecv, Absent, Invalid
<1>3. QED
  BY <1>1, <1>2, RequestType

LEMMA AfterEofFinal ==
  ASSUME NEW r \in AnyRequest,
         NEW n \in Nat, n <= r.head + Len(r.body)
  PROVE  AfterEof(r, n) \in Final
BY RequestType, BodyInType, RouteFinal, AnswerFinal DEF AfterEof

\* However few bytes the last recv brought, the decision on a framed request is
\* the one its whole body deserves.
LEMMA FramedDecision ==
  ASSUME NEW r \in AnyRequest, Framed(r),
         NEW n \in 0 .. Buffer, n <= r.head + Len(r.body)
  PROVE  /\ AfterRecv(r, n) # Undecided => AfterRecv(r, n) = Reference(r)
         /\ n = r.head + Len(r.body) => AfterEof(r, n) = Reference(r)
<1> DEFINE L == Len(r.body)
<1>1. /\ r.head \in Nat /\ L \in Nat /\ r.len = L /\ Buffer \in Nat
      /\ n \in Nat /\ n <= Buffer /\ n <= r.head + L
  BY RequestType, ServerAssumption DEF Framed
<1>2. ASSUME n = r.head + L PROVE BodyIn(r, n) = r.body
  <2>1. n - r.head = L
    BY <1>1, <1>2
  <2>2. SubSeq(r.body, 1, L) = r.body
    BY RequestType
  <2>3. QED
    BY <2>1, <2>2 DEF BodyIn
<1> HIDE DEF L
<1>3. AfterRecv(r, n) # Undecided => AfterRecv(r, n) = Reference(r)
  <2>1. CASE n < r.head
    BY <1>1, <2>1 DEF AfterRecv, Reference
  <2>2. CASE n >= r.head
    <3>1. AfterRecv(r, n) = IF r.head + r.len > Buffer THEN Answer(413)
                            ELSE IF n >= r.head + r.len
                                 THEN Route(r, BodyIn(r, n)) ELSE Undecided
      BY <1>1, <2>2 DEF AfterRecv, Absent, Invalid
    <3>2. QED
      BY <1>1, <1>2, <2>2, <3>1 DEF Reference
  <2>3. QED
    BY <1>1, <2>1, <2>2
<1>4. n = r.head + L => AfterEof(r, n) = Reference(r)
  BY <1>1, <1>2 DEF AfterEof, Reference
<1>5. QED
  BY <1>3, <1>4 DEF L

-----------------------------------------------------------------------------
(* Chunks.                                                                 *)

LEMMA WellFormedAppend ==
  ASSUME NEW s \in Seq(Chunks), WellFormed(s), NEW c \in Chunks, c \in Stream!Follows(s)
  PROVE  WellFormed(Append(s, c))
<1> DEFINE t == Append(s, c)
<1>1. /\ t \in Seq(Chunks) /\ DOMAIN t = 1 .. Len(s) + 1 /\ t[Len(s) + 1] = c
      /\ \A i \in 1 .. Len(s) : t[i] = s[i]
  OBVIOUS
<1>2. ASSUME NEW i \in 1 .. Len(s) + 1 PROVE SubSeq(t, 1, i - 1) = SubSeq(s, 1, i - 1)
  OBVIOUS
<1>3. SubSeq(s, 1, Len(s)) = s
  OBVIOUS
<1> HIDE DEF t
<1>4. ASSUME NEW i \in 1 .. Len(s) PROVE t[i] \in Stream!Follows(SubSeq(t, 1, i - 1))
  <2>1. i \in DOMAIN s /\ i \in 1 .. Len(s) + 1
    OBVIOUS
  <2>2. s[i] \in Stream!Follows(SubSeq(s, 1, i - 1))
    BY <2>1 DEF WellFormed
  <2>3. QED
    BY <1>1, <1>2, <2>1, <2>2
<1>5. t[Len(s) + 1] \in Stream!Follows(SubSeq(t, 1, Len(s) + 1 - 1))
  <2>1. SubSeq(t, 1, Len(s) + 1 - 1) = s
    BY <1>2, <1>3
  <2>2. QED
    BY <1>1, <2>1
<1>6. ASSUME NEW i \in DOMAIN t PROVE t[i] \in Stream!Follows(SubSeq(t, 1, i - 1))
  BY <1>1, <1>4, <1>5
<1>7. WellFormed(t)
  BY <1>6 DEF WellFormed
<1>8. QED
  BY <1>7 DEF t

LEMMA ChunkTypes ==
  /\ \A kind \in Kinds : Stream!Plain(kind) \in Chunks
  /\ \A status \in Nat : Stream!Chunk("status", status) \in Chunks
  /\ \A k \in Nat : Stream!TokenChunk(k) \in Chunks
BY DEF Stream!Plain, Stream!TokenChunk, Stream!Chunk, Chunks, Kinds

\* Two chunks that may follow one another after s.
LEMMA WellFormedTwo ==
  ASSUME NEW s \in Seq(Chunks), WellFormed(s), NEW c \in Chunks, NEW d \in Chunks,
         c \in Stream!Follows(s), d \in Stream!Follows(Append(s, c))
  PROVE  WellFormed(s \o <<c, d>>)
<1>1. s \o <<c, d>> = Append(Append(s, c), d) /\ Append(s, c) \in Seq(Chunks)
  OBVIOUS
<1>2. QED
  BY <1>1, WellFormedAppend

\* What may follow a sequence depends on its last chunk.
LEMMA FollowsKind ==
  ASSUME NEW t, t # <<>>
  PROVE  /\ Stream!Last(t).kind = "status" => Stream!Follows(t) = {Stream!Plain("json")}
         /\ Stream!Last(t).kind = "header" => Stream!Follows(t) = {Stream!Plain("role")}
         /\ Stream!Last(t).kind = "role" =>
              Stream!Follows(t) = {Stream!TokenChunk(k) : k \in Index}
                                  \union {Stream!Plain("finish"), Stream!Plain("error")}
         /\ Stream!Last(t).kind = "token" =>
              Stream!Follows(t) =
                {Stream!TokenChunk(k) : k \in {i \in Index : i > Stream!Last(t).n}}
                \union {Stream!Plain("finish"), Stream!Plain("error")}
         /\ Stream!Last(t).kind \in {"finish", "error"} => Stream!Follows(t) = {Stream!Plain("done")}
         /\ Stream!Last(t).kind \in {"json", "done"} => Stream!Follows(t) = {}
BY DEF Stream!Follows

LEMMA FollowsLast ==
  ASSUME NEW s \in Seq(Chunks), NEW c \in Chunks
  PROVE  /\ c.kind = "status" => Stream!Follows(Append(s, c)) = {Stream!Plain("json")}
         /\ c.kind = "header" => Stream!Follows(Append(s, c)) = {Stream!Plain("role")}
         /\ c.kind \in {"finish", "error"} =>
              Stream!Follows(Append(s, c)) = {Stream!Plain("done")}
         /\ c.kind \in {"json", "done"} => Stream!Follows(Append(s, c)) = {}
<1>1. Append(s, c) # <<>> /\ Stream!Last(Append(s, c)) = c
  BY DEF Stream!Last
<1> DEFINE t == Append(s, c)
<1> HIDE DEF t
<1>2. t # <<>> /\ Stream!Last(t) = c
  BY <1>1 DEF t
<1>3. QED
  BY <1>2, FollowsKind DEF t

LEMMA FollowsFirst ==
  ASSUME NEW c \in Chunks
  PROVE  /\ c.kind = "status" => Stream!Follows(Append(<<>>, c)) = {Stream!Plain("json")}
         /\ c.kind = "header" => Stream!Follows(Append(<<>>, c)) = {Stream!Plain("role")}
<1>1. <<>> \in Seq(Chunks)
  OBVIOUS
<1>2. QED
  BY <1>1, FollowsLast

LEMMA JsonComplete ==
  ASSUME NEW status \in {200, 400, 404, 413, 500}
  PROVE  Json(status) \in Seq(Chunks) /\ WellFormed(Json(status)) /\ Stream!Complete(Json(status))
<1> DEFINE c == Stream!Chunk("status", status)
           d == Stream!Plain("json")
<1>1. c \in Chunks /\ d \in Chunks
  BY ChunkTypes DEF Kinds
<1>2. c.kind = "status" /\ d.kind = "json"
  BY DEF Stream!Chunk, Stream!Plain
<1>3. c \in Stream!Follows(<<>>)
  BY DEF Stream!Follows
<1> HIDE DEF c, d
<1>4. <<>> \in Seq(Chunks) /\ WellFormed(<<>>) /\ Append(<<>>, c) \in Seq(Chunks)
  BY <1>1 DEF WellFormed
<1>5. d \in Stream!Follows(Append(<<>>, c))
  <2>1. Stream!Follows(Append(<<>>, c)) = {d}
    BY <1>1, <1>2, FollowsFirst, Zenon DEF d
  <2>2. QED
    BY <2>1, Zenon
<1>6. Json(status) = <<>> \o <<c, d>> /\ Json(status) = Append(Append(<<>>, c), d)
      /\ Json(status) # <<>>
  BY <1>1 DEF Json, c, d
<1>7. Json(status) \in Seq(Chunks) /\ WellFormed(Json(status))
  <2>1. WellFormed(<<>> \o <<c, d>>)
    BY <1>1, <1>3, <1>4, <1>5, WellFormedTwo, Zenon
  <2>2. <<>> \o <<c, d>> \in Seq(Chunks)
    BY <1>1
  <2>3. QED
    BY <1>6, <2>1, <2>2
<1>8. Stream!Follows(Json(status)) = {}
  <2>1. d.kind \in {"json", "done"}
    BY <1>2
  <2>2. Stream!Follows(Append(Append(<<>>, c), d)) = {}
    <3> DEFINE s == Append(<<>>, c)
    <3> HIDE DEF s
    <3>1. s \in Seq(Chunks)
      BY <1>4 DEF s
    <3>2. Stream!Follows(Append(s, d)) = {}
      BY <1>1, <2>1, <3>1, FollowsLast
    <3>3. QED
      BY <3>2 DEF s
  <2>3. QED
    BY <1>6, <2>2, Zenon
<1>9. QED
  BY <1>6, <1>7, <1>8 DEF Stream!Complete

LEMMA OpeningWellFormed ==
  Opening \in Seq(Chunks) /\ WellFormed(Opening)
<1> DEFINE c == Stream!Plain("header")
           d == Stream!Plain("role")
<1>1. c \in Chunks /\ d \in Chunks
  BY ChunkTypes DEF Kinds
<1>2. c.kind = "header"
  BY DEF Stream!Chunk, Stream!Plain
<1>3. c \in Stream!Follows(<<>>)
  BY DEF Stream!Follows
<1> HIDE DEF c, d
<1>4. <<>> \in Seq(Chunks) /\ WellFormed(<<>>)
  BY DEF WellFormed
<1>5. d \in Stream!Follows(Append(<<>>, c))
  <2>1. Stream!Follows(Append(<<>>, c)) = {d}
    BY <1>1, <1>2, FollowsFirst, Zenon DEF d
  <2>2. QED
    BY <2>1, Zenon
<1>6. Opening = <<>> \o <<c, d>>
  BY DEF Opening, c, d
<1>7. WellFormed(<<>> \o <<c, d>>)
  BY <1>1, <1>3, <1>4, <1>5, WellFormedTwo, Zenon
<1>8. <<>> \o <<c, d>> \in Seq(Chunks)
  BY <1>1
<1>9. QED
  BY <1>6, <1>7, <1>8

-----------------------------------------------------------------------------
(* A stream under way: the opening and the tokens sent so far.             *)

Flow == Opening \o TokenChunks

LEMMA AfterTwo ==
  ASSUME NEW O \in Seq(Chunks), NEW T \in Seq(Chunks), Len(O) = 2
  PROVE  /\ O \o T \in Seq(Chunks) /\ Len(O \o T) = 2 + Len(T)
         /\ (O \o T)[1] = O[1] /\ (O \o T)[2] = O[2]
         /\ \A i \in 1 .. Len(T) : (O \o T)[2 + i] = T[i]
<1> DEFINE U == O \o T
<1>1. /\ U \in Seq(Chunks) /\ Len(U) = Len(O) + Len(T)
      /\ \A i \in 1 .. Len(O) + Len(T) : U[i] = IF i <= Len(O) THEN O[i] ELSE T[i - Len(O)]
  BY ConcatProperties, Zenon
<1> HIDE DEF U
<1>2. Len(T) \in Nat
  OBVIOUS
<1>3. U[1] = O[1] /\ U[2] = O[2]
  BY <1>1, <1>2
<1>4. ASSUME NEW i \in 1 .. Len(T) PROVE U[2 + i] = T[i]
  <2>1. 2 + i \in 1 .. Len(O) + Len(T) /\ ~(2 + i <= Len(O)) /\ 2 + i - Len(O) = i
    BY <1>2
  <2>2. QED
    BY <1>1, <2>1
<1>5. QED
  BY <1>1, <1>3, <1>4 DEF U

LEMMA IndexNatural == Index \subseteq Nat
BY ServerAssumption

LEMMA FlowProperties ==
  ASSUME sent \in Seq(Index)
  PROVE  /\ TokenChunks \in Seq(Chunks) /\ Flow \in Seq(Chunks)
         /\ Len(TokenChunks) = Len(sent) /\ Len(Flow) = 2 + Len(sent)
         /\ Flow[1] = Stream!Plain("header") /\ Flow[2] = Stream!Plain("role")
         /\ \A i \in 1 .. Len(sent) : Flow[2 + i] = Stream!TokenChunk(sent[i])
<1>1. \A i \in 1 .. Len(sent) : sent[i] \in Nat
  <2>1. \A i \in 1 .. Len(sent) : sent[i] \in Index
    OBVIOUS
  <2>2. QED
    BY <2>1, IndexNatural
<1>2. TokenChunks \in Seq(Chunks) /\ Len(TokenChunks) = Len(sent)
      /\ \A i \in 1 .. Len(sent) : TokenChunks[i] = Stream!TokenChunk(sent[i])
  <2>1. \A i \in 1 .. Len(sent) : Stream!TokenChunk(sent[i]) \in Chunks
    BY <1>1, ChunkTypes
  <2>2. QED
    BY <2>1 DEF TokenChunks
<1>3. Opening \in Seq(Chunks)
  BY OpeningWellFormed
<1>4. Len(Opening) = 2 /\ Opening[1] = Stream!Plain("header") /\ Opening[2] = Stream!Plain("role")
  BY DEF Opening
<1> DEFINE T == TokenChunks
           O == Opening
<1> HIDE DEF T, O
<1>5. T \in Seq(Chunks) /\ O \in Seq(Chunks) /\ Len(O) = 2
  BY <1>2, <1>3, <1>4 DEF T, O
<1>6. /\ O \o T \in Seq(Chunks) /\ Len(O \o T) = 2 + Len(T)
      /\ (O \o T)[1] = O[1] /\ (O \o T)[2] = O[2]
      /\ \A i \in 1 .. Len(T) : (O \o T)[2 + i] = T[i]
  BY <1>5, AfterTwo
<1>7. Flow = O \o T
  BY DEF Flow, T, O
<1>8. QED
  BY <1>2, <1>4, <1>6, <1>7 DEF T, O

LEMMA FlowFollows ==
  ASSUME sent \in Seq(Index)
  PROVE  /\ Stream!Plain("finish") \in Stream!Follows(Flow)
         /\ Stream!Plain("error") \in Stream!Follows(Flow)
         /\ \A k \in Index : (\A i \in 1 .. Len(sent) : sent[i] < k)
                              => Stream!TokenChunk(k) \in Stream!Follows(Flow)
<1>1. Flow # <<>> /\ Stream!Last(Flow) = Flow[2 + Len(sent)]
  BY FlowProperties DEF Stream!Last
<1>5. Index \subseteq Nat
  BY IndexNatural
<1>2. CASE Len(sent) = 0
  <2>1. Stream!Last(Flow) = Stream!Plain("role")
    BY <1>1, <1>2, FlowProperties
  <2>2. Stream!Last(Flow).kind = "role"
    BY <2>1 DEF Stream!Plain, Stream!Chunk
  <2>3. Stream!Follows(Flow) = {Stream!TokenChunk(k) : k \in Index}
                               \union {Stream!Plain("finish"), Stream!Plain("error")}
    <3> DEFINE t == Flow
    <3> HIDE DEF t
    <3>1. t # <<>> /\ Stream!Last(t).kind = "role"
      BY <1>1, <2>2 DEF t
    <3>2. QED
      BY <3>1, FollowsKind DEF t
  <2>4. QED
    BY <2>3
<1>3. CASE Len(sent) # 0
  <2>1. Len(sent) \in 1 .. Len(sent)
    BY <1>3
  <2>2. Stream!Last(Flow) = Stream!TokenChunk(sent[Len(sent)])
    BY <1>1, <2>1, FlowProperties
  <2>3. Stream!Last(Flow).kind = "token" /\ Stream!Last(Flow).n = sent[Len(sent)]
    BY <2>2 DEF Stream!TokenChunk, Stream!Chunk
  <2>4. Stream!Follows(Flow) = {Stream!TokenChunk(k) : k \in {i \in Index : i > sent[Len(sent)]}}
                               \union {Stream!Plain("finish"), Stream!Plain("error")}
    <3> DEFINE t == Flow
    <3> HIDE DEF t
    <3>1. t # <<>> /\ Stream!Last(t).kind = "token" /\ Stream!Last(t).n = sent[Len(sent)]
      BY <1>1, <2>3 DEF t
    <3>2. QED
      BY <3>1, FollowsKind DEF t
  <2>5. sent[Len(sent)] \in Nat /\ Index \subseteq Nat
    <3>1. sent[Len(sent)] \in Index
      BY <2>1
    <3>2. QED
      BY <3>1, <1>5
  <2>6. ASSUME NEW k \in Index, \A i \in 1 .. Len(sent) : sent[i] < k
        PROVE  k \in {i \in Index : i > sent[Len(sent)]}
    BY <2>1, <2>5, <2>6
  <2>7. QED
    BY <2>4, <2>6
<1>4. QED
  BY <1>2, <1>3

\* Whichever way the generation ends, the answer is complete.
LEMMA EndingComplete ==
  ASSUME NEW s \in Seq(Chunks), WellFormed(s),
         NEW c \in {Stream!Plain("finish"), Stream!Plain("error")}, c \in Stream!Follows(s)
  PROVE  LET t == s \o <<c, Stream!Plain("done")>>
         IN  t \in Seq(Chunks) /\ WellFormed(t) /\ Stream!Complete(t)
<1> DEFINE d == Stream!Plain("done")
<1>1. c \in Chunks /\ d \in Chunks
  BY ChunkTypes DEF Kinds
<1>2. c.kind \in {"finish", "error"} /\ d.kind = "done"
  BY DEF Stream!Chunk, Stream!Plain
<1> HIDE DEF d
<1>3. d \in Stream!Follows(Append(s, c)) /\ Append(s, c) \in Seq(Chunks)
  BY <1>1, <1>2, FollowsLast DEF d
<1>4. s \o <<c, d>> = Append(Append(s, c), d) /\ s \o <<c, d>> # <<>>
      /\ s \o <<c, d>> \in Seq(Chunks)
  BY <1>1
<1>5. WellFormed(s \o <<c, d>>)
  BY <1>1, <1>3, WellFormedTwo
<1>6. Stream!Follows(s \o <<c, d>>) = {}
  BY <1>1, <1>2, <1>3, <1>4, FollowsLast
<1>7. QED
  BY <1>4, <1>5, <1>6 DEF Stream!Complete, d

LEMMA OpeningFollows ==
  /\ Stream!Plain("finish") \in Stream!Follows(Opening)
  /\ Stream!Plain("error") \in Stream!Follows(Opening)
<1>1. Opening # <<>> /\ Stream!Last(Opening) = Stream!Plain("role")
  BY DEF Opening, Stream!Last
<1>2. Stream!Last(Opening).kind = "role"
  BY <1>1 DEF Stream!Plain, Stream!Chunk
<1>3. QED
  BY <1>1, <1>2, FollowsKind

\* No stream under way tells that it is finished.
LEMMA NoFinish ==
  ASSUME sent \in Seq(Index), NEW s \in {Opening, Flow}
  PROVE  ~Holds(s, Stream!Plain("finish"))
<1> DEFINE f == Stream!Plain("finish")
<1>1. /\ f # Stream!Plain("header") /\ f # Stream!Plain("role")
      /\ \A k \in Nat : f # Stream!TokenChunk(k)
  BY DEF Stream!Plain, Stream!TokenChunk, Stream!Chunk
<1> HIDE DEF f
<1>2. ~Holds(Opening, f)
  BY <1>1 DEF Holds, Opening
<1>3. ~Holds(Flow, f)
  <2>1. /\ Flow \in Seq(Chunks) /\ Len(Flow) = 2 + Len(sent)
        /\ Flow[1] = Stream!Plain("header") /\ Flow[2] = Stream!Plain("role")
        /\ \A i \in 1 .. Len(sent) : Flow[2 + i] = Stream!TokenChunk(sent[i])
    BY FlowProperties
  <2>2. ASSUME NEW j \in DOMAIN Flow PROVE Flow[j] # f
    <3>1. j = 1 \/ j = 2 \/ (j - 2 \in 1 .. Len(sent) /\ 2 + (j - 2) = j)
      BY <2>1
    <3>2. ASSUME NEW i \in 1 .. Len(sent) PROVE Flow[2 + i] # f
      <4>1. sent[i] \in Index
        OBVIOUS
      <4>2. QED
        BY <1>1, <2>1, <4>1, IndexNatural
    <3>3. QED
      BY <1>1, <2>1, <3>1, <3>2
  <2>3. QED
    BY <2>2 DEF Holds
<1>4. QED
  BY <1>2, <1>3 DEF f

LEMMA HoldsTwo ==
  ASSUME NEW s \in Seq(Chunks), NEW c \in Chunks, NEW d \in Chunks, NEW f,
         ~Holds(s, f), d # f
  PROVE  Holds(s \o <<c, d>>, f) <=> c = f
<1> DEFINE t == Append(Append(s, c), d)
<1>1. s \o <<c, d>> = t
  OBVIOUS
<1>2. DOMAIN t = 1 .. Len(s) + 2 /\ t[Len(s) + 1] = c /\ t[Len(s) + 2] = d
      /\ \A i \in 1 .. Len(s) : t[i] = s[i]
  OBVIOUS
<1>3. DOMAIN s = 1 .. Len(s) /\ Len(s) \in Nat
  OBVIOUS
<1> HIDE DEF t
<1>4. \A i \in 1 .. Len(s) : t[i] # f
  BY <1>2, <1>3 DEF Holds
<1>5. c = f => Holds(t, f)
  BY <1>2, <1>3 DEF Holds
<1>6. ASSUME NEW i \in DOMAIN t, t[i] = f PROVE c = f
  <2>1. i \in 1 .. Len(s) \/ i = Len(s) + 1 \/ i = Len(s) + 2
    BY <1>2, <1>3
  <2>2. QED
    BY <1>2, <1>4, <1>6, <2>1
<1>7. QED
  BY <1>1, <1>5, <1>6 DEF Holds

-----------------------------------------------------------------------------
(* Every step keeps the inductive invariant.                               *)

Client == [request : AnyRequest, left : Nat, eof : BOOLEAN, peer : {"here", "left", "reset"}]

LEMMA StateTypes ==
  ASSUME TypeOK
  PROVE  /\ client \in Client /\ client.request \in AnyRequest
         /\ client.left \in Nat /\ client.eof \in BOOLEAN
         /\ client.peer \in {"here", "left", "reset"}
         /\ received \in Nat /\ received <= Buffer
         /\ Len(client.request.body) \in Nat /\ client.request.head \in Nat
<1>1. client \in Client
  BY DEF TypeOK, Client, AnyRequest
<1>2. client.request \in AnyRequest /\ client.left \in Nat /\ client.eof \in BOOLEAN
      /\ client.peer \in {"here", "left", "reset"}
  BY <1>1 DEF Client
<1>3. received \in Nat /\ received <= Buffer
  BY ServerAssumption DEF TypeOK
<1>4. Len(client.request.body) \in Nat /\ client.request.head \in Nat
  BY <1>2, RequestType
<1>5. QED
  BY <1>1, <1>2, <1>3, <1>4

LEMMA EmptyAnswer ==
  <<>> \in Seq(Chunks) /\ WellFormed(<<>>)
BY DEF WellFormed

LEMMA InitIInv ==
  ASSUME Init
  PROVE  IInv
<1>1. NoClient \in Client /\ NoClient.left = 0 /\ NoClient.request.head = 1
      /\ NoClient.request.body = <<>>
  BY DEF NoClient, Client, AnyRequest
<1>2. Undecided \in Decision /\ Undecided.stream = FALSE
  BY DEF Undecided, Decision
<1>3. TypeOK
  <2>1. client \in Client /\ received \in 0 .. Buffer /\ decision \in Decision
    BY <1>1, <1>2, ServerAssumption DEF Init
  <2>2. /\ backlog \in Seq(Clients) /\ served \subseteq Clients /\ stage = "starting"
        /\ wire \in Seq(Chunks) /\ todo \in Seq(Chunks) /\ todo = <<>> /\ sent \in Seq(Index)
    BY DEF Init, Run!Init
  <2>3. QED
    BY <2>1, <2>2 DEF TypeOK, Client, AnyRequest
<1>4. BytesOfRequest
  BY <1>1 DEF Init, BytesOfRequest
<1>5. stage = "starting" /\ decision = Undecided
  BY DEF Init
<1>6. QED
  BY <1>2, <1>3, <1>4, <1>5
     DEF IInv, NothingBeforeDecision, AnswerInProgress, Connected, ChunkingIrrelevant,
         StreamTellsGeneration

\* The ways out of a connection, and the ones that never enter it.
LEMMA DisconnectKeepsIInv ==
  ASSUME IInv, stage' \in {"exited", "accept"}, todo' = <<>>,
         UNCHANGED <<backlog, served, conn, wire, generation>>
  PROVE  IInv'
<1>1. /\ backlog' = backlog /\ served' = served /\ client' = client /\ received' = received
      /\ decision' = decision /\ wire' = wire /\ sent' = sent /\ verdict' = verdict
  BY DEF conn, generation
<1>2. TypeOK'
  BY <1>1, EmptyAnswer DEF IInv, TypeOK
<1>3. BytesOfRequest' /\ ChunkingIrrelevant'
  BY <1>1 DEF IInv, BytesOfRequest, ChunkingIrrelevant, AllSent
<1>4. NothingBeforeDecision' /\ AnswerInProgress' /\ StreamTellsGeneration'
  BY DEF NothingBeforeDecision, AnswerInProgress, StreamTellsGeneration, Connected
<1>5. QED
  BY <1>2, <1>3, <1>4 DEF IInv

LEMMA ConnectKeepsIInv ==
  ASSUME IInv, NEW c \in Clients, Connect(c)
  PROVE  IInv'
<1>1. /\ served' = served /\ client' = client /\ received' = received
      /\ decision' = decision /\ wire' = wire /\ sent' = sent /\ verdict' = verdict
      /\ stage' = stage /\ todo' = todo
  BY DEF Connect, conn, generation
<1>2. backlog' \in Seq(Clients)
  BY DEF Connect, IInv, TypeOK
<1>3. TypeOK'
  BY <1>1, <1>2 DEF IInv, TypeOK, Connected
<1>4. BytesOfRequest' /\ ChunkingIrrelevant' /\ NothingBeforeDecision'
  BY <1>1 DEF IInv, BytesOfRequest, ChunkingIrrelevant, AllSent, NothingBeforeDecision
<1>5. Delivered' = Delivered /\ TokenChunks' = TokenChunks
  BY <1>1 DEF Delivered, TokenChunks
<1>6. AnswerInProgress' /\ StreamTellsGeneration'
  BY <1>1, <1>5 DEF IInv, AnswerInProgress, StreamTellsGeneration, Connected
<1>7. QED
  BY <1>3, <1>4, <1>6 DEF IInv

LEMMA AcceptKeepsIInv ==
  ASSUME IInv, NEW request \in Requests, Accept(request)
  PROVE  IInv'
<1>1. /\ sent' = sent /\ verdict' = verdict /\ stage' = "recv" /\ todo' = todo /\ stage = "accept"
      /\ received' = 0 /\ decision' = Undecided /\ wire' = <<>> /\ backlog # <<>>
      /\ backlog' = Tail(backlog) /\ served' = served \union {Head(backlog)}
      /\ client' = [request |-> request, left |-> request.head + Len(request.body),
                    eof |-> FALSE, peer |-> "here"]
  BY DEF Accept, generation
<1>2. backlog' \in Seq(Clients) /\ served' \subseteq Clients
  <2>1. backlog \in Seq(Clients) /\ served \subseteq Clients
    BY DEF IInv, TypeOK
  <2>2. QED
    BY <1>1, <2>1
<1>3. todo' = <<>>
  BY <1>1 DEF IInv, TypeOK, Connected
<1>4. request \in AnyRequest /\ request.head + Len(request.body) \in Nat
  <2>1. request \in AnyRequest
    BY DEF AnyRequest
  <2>2. QED
    BY <2>1, RequestType
<1>5. client' \in Client /\ client'.left = request.head + Len(request.body)
      /\ client'.request = request
  BY <1>1, <1>4 DEF Client
<1>6. Undecided \in Decision
  BY DEF Undecided, Decision
<1>7. TypeOK'
  BY <1>1, <1>2, <1>3, <1>5, <1>6, EmptyAnswer, ServerAssumption
     DEF IInv, TypeOK, Client, AnyRequest
<1>8. BytesOfRequest'
  BY <1>1, <1>4, <1>5 DEF BytesOfRequest
<1>9. NothingBeforeDecision' /\ ChunkingIrrelevant'
  BY <1>1, <1>3 DEF NothingBeforeDecision, ChunkingIrrelevant
<1>10. Delivered' = <<>>
  BY <1>1, <1>3 DEF Delivered
<1>11. AnswerInProgress' /\ StreamTellsGeneration'
  BY <1>1, <1>10, EmptyAnswer DEF AnswerInProgress, StreamTellsGeneration
<1>12. QED
  BY <1>7, <1>8, <1>9, <1>11 DEF IInv

\* A decision taken on what has arrived.
LEMMA DecideKeepsIInv ==
  ASSUME IInv, stage = "recv", NEW d \in Final \union {Undecided}, Decide(d),
         client' \in Client, client'.request = client.request,
         received' \in 0 .. Buffer, BytesOfRequest',
         (d # Undecided /\ Framed(client'.request) /\ AllSent')
           => d = Reference(client'.request),
         UNCHANGED <<backlog, served, wire, generation>>
  PROVE  IInv'
<1>1. /\ backlog' = backlog /\ served' = served /\ wire' = wire /\ sent' = sent
      /\ verdict' = verdict /\ decision' = d
  BY DEF generation, Decide
<1>2. wire = <<>> /\ todo = <<>>
  BY DEF IInv, NothingBeforeDecision
<1>3. Undecided \in Decision /\ d \in Decision
  <2>1. Undecided \in Decision
    BY DEF Undecided, Decision
  <2>2. QED
    BY <2>1 DEF Final
<1>4. ChunkingIrrelevant'
  BY <1>1 DEF ChunkingIrrelevant
<1>5. ASSUME stage' \in {"recv", "calling", "closing"}, todo' \in Seq(Chunks)
      PROVE  TypeOK'
  BY <1>1, <1>3, <1>5 DEF IInv, TypeOK, Client, AnyRequest, Connected
<1>6. CASE d = Undecided
  <2>1. stage' = "recv" /\ todo' = <<>>
    <3>1. Undecided.turns = <<>>
      BY DEF Undecided
    <3>2. QED
      BY <1>2, <1>6, <3>1 DEF Decide
  <2>2. Delivered' = <<>>
    BY <1>1, <1>2, <2>1 DEF Delivered
  <2>3. NothingBeforeDecision'
    BY <1>1, <1>2, <1>6, <2>1 DEF NothingBeforeDecision
  <2>4. AnswerInProgress' /\ StreamTellsGeneration'
    BY <2>1, <2>2, EmptyAnswer DEF AnswerInProgress, StreamTellsGeneration
  <2>5. QED
    BY <1>4, <1>5, <2>1, <2>3, <2>4, EmptyAnswer DEF IInv
<1>7. CASE d # Undecided /\ d.turns = <<>>
  <2>1. stage' = "closing" /\ todo' = Json(d.status)
    BY <1>7 DEF Decide
  <2>2. d.status \in {200, 400, 404, 413, 500} /\ d.stream = FALSE
    BY <1>7 DEF Final, Decision
  <2>3. /\ Json(d.status) \in Seq(Chunks) /\ WellFormed(Json(d.status))
        /\ Stream!Complete(Json(d.status))
    BY <2>2, JsonComplete
  <2>4. Delivered' = Json(d.status)
    BY <1>1, <1>2, <2>1, <2>3 DEF Delivered
  <2>5. NothingBeforeDecision'
    BY <2>1 DEF NothingBeforeDecision
  <2>6. AnswerInProgress'
    BY <2>1, <2>3, <2>4 DEF AnswerInProgress
  <2>7. StreamTellsGeneration'
    BY <1>1, <2>2 DEF StreamTellsGeneration
  <2>8. QED
    BY <1>4, <1>5, <2>1, <2>3, <2>5, <2>6, <2>7 DEF IInv
<1>8. CASE d # Undecided /\ d.turns # <<>>
  <2>1. stage' = "calling" /\ todo' = IF d.stream THEN Opening ELSE <<>>
    <3>1. Undecided.turns = <<>>
      BY DEF Undecided
    <3>2. QED
      BY <1>8, <3>1 DEF Decide
  <2>2. todo' \in Seq(Chunks) /\ WellFormed(todo')
    BY <2>1, OpeningWellFormed, EmptyAnswer
  <2>3. Delivered' = todo'
    BY <1>1, <1>2, <2>2 DEF Delivered
  <2>4. NothingBeforeDecision' /\ StreamTellsGeneration'
    BY <2>1 DEF NothingBeforeDecision, StreamTellsGeneration
  <2>5. AnswerInProgress'
    BY <1>1, <2>1, <2>2, <2>3 DEF AnswerInProgress
  <2>6. QED
    BY <1>4, <1>5, <2>1, <2>2, <2>4, <2>5 DEF IInv
<1>9. QED
  BY <1>6, <1>7, <1>8

LEMMA RecvKeepsIInv ==
  ASSUME IInv, NEW k \in 1 .. Buffer, Recv(k)
  PROVE  IInv'
<1> DEFINE r == client.request
           n == received + k
<1>1. /\ stage = "recv" /\ k <= client.left /\ k <= Buffer - received
      /\ received' = n /\ client' = [client EXCEPT !.left = @ - k]
      /\ Decide(AfterRecv(r, n)) /\ UNCHANGED <<backlog, served, wire, generation>>
  BY DEF Recv
<1>2. /\ client \in Client /\ r \in AnyRequest /\ client.left \in Nat
      /\ received \in Nat /\ received <= Buffer
      /\ Len(r.body) \in Nat /\ r.head \in Nat /\ k \in Nat /\ Buffer \in Nat
  <2>1. TypeOK
    BY DEF IInv
  <2>2. QED
    BY <2>1, StateTypes, ServerAssumption
<1>3. received + client.left <= r.head + Len(r.body)
  BY DEF IInv, BytesOfRequest
<1>4. n \in 0 .. Buffer /\ n <= r.head + Len(r.body)
  <2> DEFINE L == Len(r.body)
             h == r.head
  <2>1. /\ k <= client.left /\ k <= Buffer - received /\ L \in Nat /\ h \in Nat
        /\ received + client.left <= h + L
    BY <1>1, <1>2, <1>3
  <2> HIDE DEF L, h
  <2>2. n \in 0 .. Buffer /\ n <= h + L
    BY <1>2, <2>1
  <2>3. QED
    BY <2>2 DEF L, h
<1>5. client' \in Client /\ client'.request = r /\ client'.left = client.left - k
  <2>1. client.left - k \in Nat
    BY <1>1, <1>2
  <2>2. QED
    BY <1>1, <1>2, <2>1 DEF Client
<1>6. BytesOfRequest'
  BY <1>1, <1>2, <1>3, <1>5 DEF BytesOfRequest
<1>7. AfterRecv(r, n) \in Final \union {Undecided}
  BY <1>2, <1>4, AfterRecvType
<1>8. (AfterRecv(r, n) # Undecided /\ Framed(client'.request) /\ AllSent')
        => AfterRecv(r, n) = Reference(client'.request)
  BY <1>2, <1>4, <1>5, FramedDecision
<1> HIDE DEF r, n
<1>9. client'.request = client.request /\ received' \in 0 .. Buffer
  BY <1>1, <1>4, <1>5 DEF r
<1>10. QED
  BY <1>1, <1>5, <1>6, <1>7, <1>8, <1>9, DecideKeepsIInv

LEMMA RecvNothingKeepsIInv ==
  ASSUME IInv, RecvNothing
  PROVE  IInv'
<1> DEFINE r == client.request
<1>1. /\ stage = "recv" /\ client.left = 0 /\ received' = received /\ client' = client
      /\ Decide(AfterEof(r, received)) /\ UNCHANGED <<backlog, served, wire, generation>>
  BY DEF RecvNothing
<1>2. /\ client \in Client /\ r \in AnyRequest
      /\ received \in Nat /\ received <= Buffer
      /\ Len(r.body) \in Nat /\ r.head \in Nat
  <2>1. TypeOK
    BY DEF IInv
  <2>2. QED
    BY <2>1, StateTypes
<1>3. received <= r.head + Len(r.body)
  BY <1>1, <1>2 DEF IInv, BytesOfRequest
<1>4. received' \in 0 .. Buffer /\ received \in 0 .. Buffer
  BY <1>1 DEF IInv, TypeOK
<1>5. BytesOfRequest'
  BY <1>1 DEF IInv, BytesOfRequest
<1>6. AfterEof(r, received) \in Final \union {Undecided}
  BY <1>2, <1>3, AfterEofFinal
<1>7. AllSent' => received = r.head + Len(r.body)
  BY <1>1, <1>2 DEF AllSent
<1>8. (Framed(client'.request) /\ AllSent') => AfterEof(r, received) = Reference(client'.request)
  BY <1>1, <1>2, <1>3, <1>4, <1>7, FramedDecision
<1> HIDE DEF r
<1>9. client' \in Client /\ client'.request = client.request
  BY <1>1, <1>2
<1>10. QED
  BY <1>1, <1>4, <1>5, <1>6, <1>8, <1>9, DecideKeepsIInv

LEMMA RecvNothingAtAllKeepsIInv ==
  ASSUME IInv, RecvNothingAtAll
  PROVE  IInv'
<1>1. /\ backlog' = backlog /\ served' = served /\ client' = client /\ received' = received
      /\ decision' = decision /\ wire' = wire /\ todo' = todo /\ sent' = sent
      /\ verdict' = verdict /\ stage = "recv" /\ stage' = "closing" /\ received = 0
  BY DEF RecvNothingAtAll, conn, generation
<1>2. decision.stream = FALSE /\ wire = <<>> /\ todo = <<>>
  BY <1>1 DEF IInv, NothingBeforeDecision, Undecided
<1>3. TypeOK'
  BY <1>1 DEF IInv, TypeOK, Connected
<1>4. BytesOfRequest' /\ ChunkingIrrelevant' /\ NothingBeforeDecision'
  BY <1>1 DEF IInv, BytesOfRequest, ChunkingIrrelevant, AllSent, NothingBeforeDecision
<1>5. Delivered' = <<>>
  BY <1>1, <1>2 DEF Delivered
<1>6. AnswerInProgress' /\ StreamTellsGeneration'
  BY <1>1, <1>2, <1>5, EmptyAnswer DEF AnswerInProgress, StreamTellsGeneration
<1>7. QED
  BY <1>3, <1>4, <1>6 DEF IInv

\* Nothing is left to be received from a client that stops or leaves.
LEMMA ClientKeepsIInv ==
  ASSUME IInv, ClientStops \/ ClientLeaves
  PROVE  IInv'
<1>1. /\ backlog' = backlog /\ served' = served /\ received' = received
      /\ decision' = decision /\ wire' = wire /\ todo' = todo /\ sent' = sent
      /\ verdict' = verdict /\ stage' = stage
  BY DEF ClientStops, ClientLeaves, generation
<1>2. client \in Client /\ client.left \in Nat /\ received \in Nat
      /\ Len(client.request.body) \in Nat /\ client.request.head \in Nat
  BY StateTypes DEF IInv
<1>3. /\ client' \in Client /\ client'.request = client.request /\ client'.left = 0
      /\ client'.peer = client.peer \/ client'.peer = "left"
  <2>1. CASE ClientStops
    <3>1. client' = [client EXCEPT !.eof = TRUE, !.left = 0]
      BY <2>1 DEF ClientStops
    <3>2. QED
      BY <1>2, <3>1 DEF Client
  <2>2. CASE ClientLeaves
    <3>1. client' = [client EXCEPT !.eof = TRUE, !.left = 0, !.peer = "left"]
      BY <2>2 DEF ClientLeaves
    <3>2. QED
      BY <1>2, <3>1 DEF Client
  <2>3. QED
    BY <2>1, <2>2
<1>4. TypeOK'
  BY <1>1, <1>3 DEF IInv, TypeOK, Connected, Client, AnyRequest
<1>5. BytesOfRequest'
  BY <1>1, <1>2, <1>3 DEF IInv, BytesOfRequest
<1>6. AllSent' => AllSent
  BY <1>1, <1>2, <1>3 DEF IInv, BytesOfRequest, AllSent
<1>7. ChunkingIrrelevant' /\ NothingBeforeDecision'
  BY <1>1, <1>3, <1>6 DEF IInv, ChunkingIrrelevant, NothingBeforeDecision
<1>8. Delivered' = Delivered /\ TokenChunks' = TokenChunks
  BY <1>1 DEF Delivered, TokenChunks
<1>9. AnswerInProgress' /\ StreamTellsGeneration'
  BY <1>1, <1>3, <1>8 DEF IInv, AnswerInProgress, StreamTellsGeneration, Connected
<1>10. QED
  BY <1>4, <1>5, <1>7, <1>9 DEF IInv

LEMMA SendKeepsIInv ==
  ASSUME IInv, Send
  PROVE  IInv'
<1>1. /\ backlog' = backlog /\ served' = served /\ received' = received
      /\ decision' = decision /\ sent' = sent /\ verdict' = verdict /\ stage' = stage
      /\ todo # <<>> /\ todo' = Tail(todo)
      /\ wire' = IF client.peer = "here" THEN Append(wire, Head(todo)) ELSE wire
      /\ client' = IF client.peer = "left" THEN [client EXCEPT !.peer = "reset"] ELSE client
  BY DEF Send, generation
<1>2. /\ client \in Client /\ wire \in Seq(Chunks) /\ todo \in Seq(Chunks) /\ Connected
  BY <1>1, StateTypes DEF IInv, TypeOK
<1>3. wire' \in Seq(Chunks) /\ todo' \in Seq(Chunks)
  BY <1>1, <1>2
<1>4. /\ client' \in Client /\ client'.request = client.request /\ client'.left = client.left
      /\ client'.peer = client.peer \/ client'.peer = "reset"
  BY <1>1, <1>2 DEF Client
<1>5. TypeOK'
  BY <1>1, <1>2, <1>3, <1>4 DEF IInv, TypeOK, Connected, Client, AnyRequest
<1>6. BytesOfRequest' /\ ChunkingIrrelevant'
  BY <1>1, <1>4 DEF IInv, BytesOfRequest, ChunkingIrrelevant, AllSent
<1>7. NothingBeforeDecision'
  BY <1>1 DEF IInv, NothingBeforeDecision
<1>8. client'.peer = "here" => Delivered' = Delivered
  <2>1. Append(wire, Head(todo)) \o Tail(todo) = wire \o todo
    BY <1>1, <1>2
  <2>2. client'.peer = "here" => client.peer = "here"
    BY <1>4
  <2>3. QED
    BY <1>1, <2>1, <2>2 DEF Delivered
<1>9. TokenChunks' = TokenChunks
  BY <1>1 DEF TokenChunks
<1>10. client'.peer = "here" => client.peer = "here"
  BY <1>4
<1>11. AnswerInProgress' /\ StreamTellsGeneration'
  BY <1>1, <1>8, <1>9, <1>10 DEF IInv, AnswerInProgress, StreamTellsGeneration, Connected
<1>12. QED
  BY <1>5, <1>6, <1>7, <1>11 DEF IInv

\* What the steps of a generation leave alone: the connection and its request.
LEMMA GenerationKeeps ==
  ASSUME IInv, stage \in {"calling", "generating"}, todo = <<>>,
         UNCHANGED <<backlog, served, conn, wire>>,
         stage' \in {"generating", "closing"},
         todo' \in Seq(Chunks), sent' \in Seq(Index)
  PROVE  /\ client' = client /\ received' = received /\ decision' = decision
         /\ wire \in Seq(Chunks) /\ Delivered = wire
         /\ TypeOK' /\ BytesOfRequest' /\ ChunkingIrrelevant' /\ NothingBeforeDecision'
         /\ client.peer = "here" =>
              /\ WellFormed(wire)
              /\ ~decision.stream => wire = <<>>
              /\ decision.stream => wire = IF stage = "calling" THEN Opening ELSE Flow
<1>1. /\ backlog' = backlog /\ served' = served /\ client' = client /\ received' = received
      /\ decision' = decision /\ wire' = wire
  BY DEF conn
<1>2. wire \in Seq(Chunks)
  BY DEF IInv, TypeOK
<1>3. Delivered = wire
  BY <1>2 DEF Delivered
<1>4. TypeOK'
  BY <1>1 DEF IInv, TypeOK, Connected
<1>5. BytesOfRequest' /\ ChunkingIrrelevant' /\ NothingBeforeDecision'
  BY <1>1 DEF IInv, BytesOfRequest, ChunkingIrrelevant, AllSent, NothingBeforeDecision
<1>6. ASSUME client.peer = "here"
      PROVE  /\ WellFormed(wire)
             /\ ~decision.stream => wire = <<>>
             /\ decision.stream => wire = IF stage = "calling" THEN Opening ELSE Flow
  BY <1>3, <1>6 DEF IInv, AnswerInProgress, Connected, Flow
<1>7. QED
  BY <1>1, <1>2, <1>3, <1>4, <1>5, <1>6, Zenon

LEMMA StartGenerationKeepsIInv ==
  ASSUME IInv, StartGeneration
  PROVE  IInv'
<1>1. /\ stage = "calling" /\ todo = <<>> /\ stage' = "generating" /\ sent' = <<>>
      /\ UNCHANGED <<backlog, served, conn, wire>> /\ todo' = todo
  BY DEF StartGeneration, Run!Open
<1>2. todo' \in Seq(Chunks) /\ sent' \in Seq(Index)
  BY <1>1
<1>3. /\ client' = client /\ decision' = decision
      /\ TypeOK' /\ BytesOfRequest' /\ ChunkingIrrelevant' /\ NothingBeforeDecision'
      /\ Delivered = wire
      /\ client.peer = "here" =>
           /\ WellFormed(wire)
           /\ ~decision.stream => wire = <<>>
           /\ decision.stream => wire = Opening
  BY <1>1, <1>2, GenerationKeeps
<1>4. Delivered' = wire
  BY <1>1, <1>3 DEF Delivered
<1>5. Opening \o TokenChunks' = Opening
  <2>1. TokenChunks' = <<>>
    BY <1>1 DEF TokenChunks
  <2>2. QED
    BY <2>1, OpeningWellFormed
<1>6. AnswerInProgress' /\ StreamTellsGeneration'
  BY <1>1, <1>3, <1>4, <1>5 DEF AnswerInProgress, StreamTellsGeneration
<1>7. QED
  BY <1>3, <1>6 DEF IInv

LEMMA TokenKeepsIInv ==
  ASSUME IInv, Token
  PROVE  IInv'
<1>1. PICK k \in Index : (\A i \in 1 .. Len(sent) : sent[i] < k) /\ sent' = Append(sent, k)
  BY DEF Token, Run!Send
<1>2. /\ stage = "generating" /\ todo = <<>> /\ stage' = stage
      /\ todo' = IF decision.stream THEN <<Stream!TokenChunk(Last(sent'))>> ELSE <<>>
      /\ UNCHANGED <<backlog, served, conn, wire>>
  BY DEF Token
<1> DEFINE c == Stream!TokenChunk(k)
<1>3. sent \in Seq(Index) /\ sent' \in Seq(Index) /\ Last(sent') = k
  <2>1. sent \in Seq(Index)
    BY DEF IInv, TypeOK
  <2>2. QED
    BY <1>1, <2>1 DEF Last
<1>4. c \in Chunks
  BY IndexNatural, ChunkTypes
<1>5. todo' = IF decision.stream THEN <<c>> ELSE <<>>
  BY <1>2, <1>3
<1>6. todo' \in Seq(Chunks)
  BY <1>4, <1>5
<1>7. /\ client' = client /\ decision' = decision /\ wire' = wire /\ wire \in Seq(Chunks)
      /\ TypeOK' /\ BytesOfRequest' /\ ChunkingIrrelevant' /\ NothingBeforeDecision'
      /\ client.peer = "here" =>
           /\ WellFormed(wire)
           /\ ~decision.stream => wire = <<>>
           /\ decision.stream => wire = Flow
  BY <1>2, <1>3, <1>6, GenerationKeeps DEF conn
<1>8. TokenChunks' = Append(TokenChunks, c)
  BY <1>1, <1>3 DEF TokenChunks
<1>9. CASE client.peer = "here" /\ decision.stream
  <2>1. Delivered' = Append(wire, c)
    BY <1>4, <1>5, <1>7, <1>9 DEF Delivered
  <2>2. Opening \o TokenChunks' = Append(Flow, c)
    BY <1>3, <1>4, <1>8, FlowProperties, OpeningWellFormed DEF Flow
  <2>3. c \in Stream!Follows(wire)
    BY <1>1, <1>3, <1>7, <1>9, FlowFollows
  <2>4. WellFormed(Append(wire, c))
    BY <1>4, <1>7, <1>9, <2>3, WellFormedAppend
  <2>5. AnswerInProgress' /\ StreamTellsGeneration'
    BY <1>2, <1>7, <1>9, <2>1, <2>2, <2>4 DEF AnswerInProgress, StreamTellsGeneration
  <2>6. QED
    BY <1>7, <2>5 DEF IInv
<1>10. CASE ~(client.peer = "here" /\ decision.stream)
  <2>1. client.peer = "here" => Delivered' = <<>>
    BY <1>5, <1>7, <1>10 DEF Delivered
  <2>2. AnswerInProgress' /\ StreamTellsGeneration'
    BY <1>2, <1>7, <1>10, <2>1, EmptyAnswer DEF AnswerInProgress, StreamTellsGeneration
  <2>3. QED
    BY <1>7, <2>2 DEF IInv
<1>11. QED
  BY <1>9, <1>10

\* The answer that ends a call of generate, whether it ran or was refused.
LEMMA EndKeepsIInv ==
  ASSUME IInv, stage \in {"calling", "generating"}, todo = <<>>,
         UNCHANGED <<backlog, served, conn, wire>>, sent' = sent,
         NEW ok \in BOOLEAN, verdict' = IF ok THEN "done" ELSE "failed",
         todo' = Ending(ok), stage' = "closing"
  PROVE  IInv'
<1> DEFINE c == Stream!Plain(IF ok THEN "finish" ELSE "error")
           d == Stream!Plain("done")
<1>1. c \in {Stream!Plain("finish"), Stream!Plain("error")} /\ c \in Chunks /\ d \in Chunks
  BY ChunkTypes DEF Kinds
<1>2. Ending(ok) = IF decision.stream THEN <<c, d>> ELSE Json(IF ok THEN 200 ELSE 500)
  BY DEF Ending
<1>3. /\ Json(IF ok THEN 200 ELSE 500) \in Seq(Chunks)
      /\ WellFormed(Json(IF ok THEN 200 ELSE 500))
      /\ Stream!Complete(Json(IF ok THEN 200 ELSE 500))
  BY JsonComplete
<1>4. c = Stream!Plain("finish") <=> ok
  BY DEF Stream!Plain, Stream!Chunk
<1>5. d # Stream!Plain("finish")
  BY DEF Stream!Plain, Stream!Chunk
<1> HIDE DEF c, d
<1>6. todo' \in Seq(Chunks) /\ sent \in Seq(Index) /\ sent' \in Seq(Index)
  BY <1>1, <1>2, <1>3 DEF IInv, TypeOK
<1>7. /\ client' = client /\ decision' = decision /\ wire' = wire /\ wire \in Seq(Chunks)
      /\ TypeOK' /\ BytesOfRequest' /\ ChunkingIrrelevant' /\ NothingBeforeDecision'
      /\ client.peer = "here" =>
           /\ WellFormed(wire)
           /\ ~decision.stream => wire = <<>>
           /\ decision.stream => wire = IF stage = "calling" THEN Opening ELSE Flow
  BY <1>6, GenerationKeeps DEF conn
<1>8. CASE client.peer = "here" /\ decision.stream
  <2>1. Delivered' = wire \o <<c, d>>
    BY <1>2, <1>7, <1>8 DEF Delivered
  <2>2. wire \in {Opening, Flow}
    BY <1>7, <1>8
  <2>3. c \in Stream!Follows(wire)
    BY <1>1, <1>6, <2>2, FlowFollows, OpeningFollows
  <2>4. WellFormed(wire \o <<c, d>>) /\ Stream!Complete(wire \o <<c, d>>)
    BY <1>1, <1>7, <1>8, <2>3, EndingComplete DEF d
  <2>5. ~Holds(wire, Stream!Plain("finish"))
    BY <1>6, <2>2, NoFinish
  <2>6. Holds(wire \o <<c, d>>, Stream!Plain("finish")) <=> ok
    BY <1>1, <1>4, <1>5, <1>7, <2>5, HoldsTwo
  <2>7. AnswerInProgress' /\ StreamTellsGeneration'
    BY <2>1, <2>4, <2>6 DEF AnswerInProgress, StreamTellsGeneration
  <2>8. QED
    BY <1>7, <2>7 DEF IInv
<1>9. CASE ~(client.peer = "here" /\ decision.stream)
  <2>1. client.peer = "here" => Delivered' = Json(IF ok THEN 200 ELSE 500)
    BY <1>2, <1>3, <1>7, <1>9 DEF Delivered
  <2>2. AnswerInProgress' /\ StreamTellsGeneration'
    BY <1>3, <1>7, <1>9, <2>1 DEF AnswerInProgress, StreamTellsGeneration
  <2>3. QED
    BY <1>7, <2>2 DEF IInv
<1>10. QED
  BY <1>8, <1>9

LEMMA StepKeepsIInv ==
  ASSUME IInv, Next
  PROVE  IInv'
<1>1. CASE StartFails \/ Listen \/ SendKills \/ Close
  <2>1. stage' \in {"exited", "accept"} /\ UNCHANGED <<backlog, served, conn, wire, generation>>
    BY <1>1 DEF StartFails, Listen, SendKills, Close
  <2>2. todo' = <<>>
    BY <1>1 DEF StartFails, Listen, SendKills, Close, IInv, TypeOK, Connected
  <2>3. QED
    BY <2>1, <2>2, DisconnectKeepsIInv
<1>2. ASSUME NEW request \in Requests, Accept(request) PROVE IInv'
  BY <1>2, AcceptKeepsIInv
<1>3. CASE RecvNothing
  BY <1>3, RecvNothingKeepsIInv
<1>4. CASE RecvNothingAtAll
  BY <1>4, RecvNothingAtAllKeepsIInv
<1>5. CASE Send
  BY <1>5, SendKeepsIInv
<1>6. CASE StartGeneration
  BY <1>6, StartGenerationKeepsIInv
<1>7. CASE Token
  BY <1>7, TokenKeepsIInv
<1>8. CASE Refused
  <2>1. /\ stage = "calling" /\ todo = <<>> /\ UNCHANGED <<backlog, served, conn, wire>>
        /\ sent' = sent /\ verdict' = "failed" /\ todo' = Ending(FALSE) /\ stage' = "closing"
    BY <1>8 DEF Refused, Run!Report
  <2>2. QED
    BY <2>1, EndKeepsIInv
<1>9. ASSUME NEW ok \in BOOLEAN, Finish(ok) PROVE IInv'
  <2>1. /\ stage = "generating" /\ todo = <<>> /\ UNCHANGED <<backlog, served, conn, wire>>
        /\ sent' = sent /\ verdict' = (IF ok THEN "done" ELSE "failed")
        /\ todo' = Ending(ok) /\ stage' = "closing"
    BY <1>9 DEF Finish, Run!Close
  <2>2. QED
    BY <2>1, EndKeepsIInv
<1>10. ASSUME NEW k \in 1 .. Buffer, Recv(k) PROVE IInv'
  BY <1>10, RecvKeepsIInv
<1>11. ASSUME NEW c \in Clients, Connect(c) PROVE IInv'
  BY <1>11, ConnectKeepsIInv
<1>12. CASE ClientStops \/ ClientLeaves
  BY <1>12, ClientKeepsIInv
<1>13. QED
  BY <1>1, <1>2, <1>3, <1>4, <1>5, <1>6, <1>7, <1>8, <1>9, <1>10, <1>11, <1>12
     DEF Next, Server, Receive

\* Nothing an observer of a connection can see changes when nothing does.
LEMMA StutterKeepsIInv ==
  ASSUME IInv, UNCHANGED vars
  PROVE  IInv'
<1>1. /\ backlog' = backlog /\ served' = served /\ client' = client /\ received' = received
      /\ decision' = decision /\ wire' = wire /\ todo' = todo /\ sent' = sent
      /\ verdict' = verdict /\ stage' = stage
  BY DEF vars, conn, generation
<1>2. TypeOK'
  BY <1>1 DEF IInv, TypeOK, Connected
<1>3. BytesOfRequest' /\ ChunkingIrrelevant' /\ NothingBeforeDecision'
  BY <1>1 DEF IInv, BytesOfRequest, ChunkingIrrelevant, AllSent, NothingBeforeDecision
<1>4. Delivered' = Delivered /\ TokenChunks' = TokenChunks
  BY <1>1 DEF Delivered, TokenChunks
<1>5. AnswerInProgress' /\ StreamTellsGeneration'
  BY <1>1, <1>4 DEF IInv, AnswerInProgress, StreamTellsGeneration, Connected
<1>6. QED
  BY <1>2, <1>3, <1>5 DEF IInv

LEMMA ServerInvariant == Spec => []IInv
<1>1. Init => IInv
  BY InitIInv
<1>2. IInv /\ [Next]_vars => IInv'
  BY StepKeepsIInv, StutterKeepsIInv
<1>3. QED
  BY <1>1, <1>2, PTL DEF Spec

\* However the network cuts a framed request into pieces, it is answered for its
\* whole body, and refused for its size exactly when it exceeds the buffer.
THEOREM ServerChunkingIrrelevant == Spec => []ChunkingIrrelevant
<1>1. IInv => ChunkingIrrelevant
  BY DEF IInv
<1>2. QED
  BY ServerInvariant, <1>1, PTL

\* A client that stays is sent every token of its stream, in order, and is told
\* at the end how the generation went.
THEOREM ServerStreamTellsGeneration == Spec => []StreamTellsGeneration
<1>1. IInv => StreamTellsGeneration
  BY DEF IInv
<1>2. QED
  BY ServerInvariant, <1>1, PTL

-----------------------------------------------------------------------------
(* The connections implement the event stream: a chunk is delivered when   *)
(* send_all is called with it for a client that is there, and a connection *)
(* is open from accept to close.                                           *)

Seen == <<Connected, received > 0, client.peer # "here", wire>>

\* The chunk that is sent next may come after those the client has got.
LEMMA NextChunkFollows ==
  ASSUME IInv, todo # <<>>, client.peer = "here", Connected
  PROVE  Head(todo) \in Stream!Follows(wire)
<1>1. wire \in Seq(Chunks) /\ todo \in Seq(Chunks)
  BY DEF IInv, TypeOK
<1> DEFINE m == Len(wire) + 1
<1>2. /\ wire \o todo \in Seq(Chunks) /\ m \in DOMAIN (wire \o todo)
      /\ (wire \o todo)[m] = Head(todo) /\ SubSeq(wire \o todo, 1, m - 1) = wire
  <2>1. Len(todo) \in Nat /\ Len(todo) > 0 /\ Head(todo) = todo[1] /\ Len(wire) \in Nat
    BY <1>1
  <2>2. /\ wire \o todo \in Seq(Chunks) /\ Len(wire \o todo) = Len(wire) + Len(todo)
        /\ \A i \in 1 .. Len(wire) + Len(todo) :
             (wire \o todo)[i] = IF i <= Len(wire) THEN wire[i] ELSE todo[i - Len(wire)]
    BY <1>1, ConcatProperties, Zenon
  <2>3. SubSeq(wire \o todo, 1, Len(wire)) = wire
    BY <1>1, SubSeqOfConcat1
  <2>4. QED
    BY <2>1, <2>2, <2>3
<1>3. WellFormed(wire \o todo)
  BY DEF IInv, AnswerInProgress, Delivered
<1> HIDE DEF m
<1>4. QED
  BY <1>2, <1>3 DEF WellFormed

LEMMA StepImplementsStream ==
  ASSUME IInv, [Next]_vars
  PROVE  [Stream!Next]_Seen
<1> USE DEF Seen
<1>1. CASE UNCHANGED vars
  BY <1>1 DEF vars, conn, Connected
<1>2. CASE StartFails \/ Listen \/ RecvNothingAtAll \/ StartGeneration \/ Token \/ Refused
           \/ (\E ok \in BOOLEAN : Finish(ok)) \/ (\E c \in Clients : Connect(c))
  BY <1>2 DEF StartFails, Listen, RecvNothingAtAll, StartGeneration, Token, Refused, Finish,
              Connect, conn, Connected
<1>3. ASSUME NEW request \in Requests, Accept(request) PROVE Stream!Open
  BY <1>3 DEF Accept, Connected, Stream!Open
<1>4. CASE RecvNothing
  BY <1>4 DEF RecvNothing, Decide, Connected, Undecided
<1>5. ASSUME NEW k \in 1 .. Buffer, Recv(k) PROVE Stream!Hear
  <2>1. stage = "recv" /\ stage' \in {"recv", "closing", "calling"}
    BY <1>5 DEF Recv, Decide
  <2>2. received' = received + k /\ wire' = wire /\ client'.peer = client.peer
    <3>1. client \in Client
      BY StateTypes DEF IInv
    <3>2. client' = [client EXCEPT !.left = @ - k] /\ received' = received + k /\ wire' = wire
      BY <1>5 DEF Recv
    <3>3. QED
      BY <3>1, <3>2 DEF Client
  <2>3. received' > 0
    BY <2>2, StateTypes, ServerAssumption DEF IInv
  <2>4. QED
    BY <2>1, <2>2, <2>3 DEF Connected, Stream!Hear
<1>6. CASE ClientStops
  BY <1>6 DEF ClientStops, Connected
<1>7. ASSUME ClientLeaves PROVE Stream!Leave
  <2>1. client \in Client
    BY StateTypes DEF IInv
  <2>2. client' = [client EXCEPT !.eof = TRUE, !.left = 0, !.peer = "left"]
    BY <1>7 DEF ClientLeaves
  <2>3. client'.peer = "left"
    BY <2>1, <2>2 DEF Client
  <2>4. QED
    BY <1>7, <2>3 DEF ClientLeaves, Connected, Stream!Leave
<1>8. CASE Send
  <2>1. client \in Client /\ Connected
    BY <1>8, StateTypes DEF Send, IInv, TypeOK
  <2>2. /\ todo # <<>> /\ stage' = stage /\ received' = received
        /\ wire' = IF client.peer = "here" THEN Append(wire, Head(todo)) ELSE wire
        /\ client' = IF client.peer = "left" THEN [client EXCEPT !.peer = "reset"] ELSE client
    BY <1>8 DEF Send
  <2>3. ASSUME client.peer = "here" PROVE Stream!Deliver
    <3>1. Head(todo) \in Stream!Follows(wire)
      BY <2>1, <2>2, <2>3, NextChunkFollows
    <3>2. wire' = Append(wire, Head(todo)) /\ client' = client
      BY <2>2, <2>3
    <3>3. QED
      BY <2>1, <2>2, <2>3, <3>1, <3>2 DEF Connected, Stream!Deliver
  <2>4. ASSUME client.peer # "here" PROVE UNCHANGED Seen
    <3>1. client'.peer # "here"
      BY <2>1, <2>2, <2>4 DEF Client
    <3>2. QED
      BY <2>2, <2>4, <3>1 DEF Connected
  <2>5. QED
    BY <2>3, <2>4 DEF Stream!Next
<1>9. ASSUME SendKills PROVE Stream!Close
  <2>1. Connected /\ ~Connected'
    BY <1>9 DEF SendKills, IInv, TypeOK, Connected
  <2>2. QED
    BY <1>9, <2>1 DEF SendKills, conn, Stream!Close
<1>10. ASSUME Close PROVE Stream!Close
  <2>1. /\ stage = "closing" /\ stage' = "accept" /\ todo = <<>> /\ client' = client
        /\ received' = received /\ wire' = wire /\ wire \in Seq(Chunks)
    BY <1>10 DEF Close, conn, IInv, TypeOK
  <2>2. Delivered = wire
    BY <2>1 DEF Delivered
  <2>3. client.peer = "here" => Stream!Complete(wire) \/ (received = 0 /\ wire = <<>>)
    BY <2>1, <2>2 DEF IInv, AnswerInProgress, Connected
  <2>4. QED
    BY <2>1, <2>3 DEF Connected, Stream!Close
<1>11. QED
  BY <1>1, <1>2, <1>3, <1>4, <1>5, <1>6, <1>7, <1>8, <1>9, <1>10
     DEF Next, Server, Receive, Stream!Next

\* Each connection delivers one well-formed answer, cut short only by a client
\* that leaves, and is closed only when that answer is complete.
THEOREM ServerImplementsEventStream == Spec => ImplementsEventStream
<1>1. Init => Stream!Init
  BY DEF Init, NoClient, Connected, Stream!Init
<1>2. IInv /\ [Next]_vars => [Stream!Next]_Seen
  BY StepImplementsStream
<1>3. QED
  BY <1>1, <1>2, ServerInvariant, PTL DEF Spec, ImplementsEventStream, Stream!Spec, Seen

-----------------------------------------------------------------------------
(* The messages the model is asked.  Of a body whose message objects hold  *)
(* one content each, the scan keeps a prefix of the contents: as long as   *)
(* every object closes, all of them; once one does not, no further one.    *)

LEMMA PrefixElements ==
  ASSUME NEW A, NEW s \in Seq(A), NEW t \in Seq(A)
  PROVE  IsPrefix(s, t) <=> Len(s) <= Len(t) /\ \A i \in 1 .. Len(s) : s[i] = t[i]
<1>1. CASE Len(s) <= Len(t)
  <2> DEFINE u == SubSeq(t, 1, Len(s))
  <2>1. u \in Seq(A) /\ Len(u) = Len(s) /\ \A i \in 1 .. Len(s) : u[i] = t[i]
    BY <1>1
  <2>2. SubSeq(s, 1, Len(s)) = s
    OBVIOUS
  <2>3. IsPrefix(s, t) <=> s = u
    BY <1>1, <2>2 DEF IsPrefix
  <2> HIDE DEF u
  <2>4. s = u <=> \A i \in 1 .. Len(s) : s[i] = u[i]
    BY <2>1, SeqEqual
  <2>5. QED
    BY <1>1, <2>1, <2>3, <2>4
<1>2. CASE ~(Len(s) <= Len(t))
  BY <1>2 DEF IsPrefix
<1>3. QED
  BY <1>1, <1>2

LEMMA PrefixFacts ==
  ASSUME NEW A, NEW s \in Seq(A), NEW t \in Seq(A)
  PROVE  /\ IsPrefix(s, s) /\ IsPrefix(<<>>, s)
         /\ t # <<>> => IsPrefix(<<Head(t)>>, t)
         /\ IsPrefix(s, t) => \A x \in A : IsPrefix(s, Append(t, x))
         /\ IsPrefix(s, t) => \A u \in Seq(A) : IsPrefix(t, u) => IsPrefix(s, u)
<1>1. IsPrefix(s, s)
  BY PrefixElements
<1>2. IsPrefix(<<>>, s)
  <2> DEFINE e == <<>>
  <2>1. e \in Seq(A) /\ Len(e) = 0 /\ Len(s) \in Nat
    OBVIOUS
  <2> HIDE DEF e
  <2>2. Len(e) <= Len(s) /\ \A i \in 1 .. Len(e) : e[i] = s[i]
    BY <2>1
  <2>3. IsPrefix(e, s)
    BY <2>1, <2>2, PrefixElements
  <2>4. QED
    BY <2>3 DEF e
<1>3. ASSUME t # <<>> PROVE IsPrefix(<<Head(t)>>, t)
  <2> DEFINE h == <<Head(t)>>
  <2>1. h \in Seq(A) /\ Len(h) = 1 /\ h[1] = t[1] /\ Len(t) >= 1
    BY <1>3
  <2> HIDE DEF h
  <2>2. IsPrefix(h, t)
    BY <2>1, PrefixElements
  <2>3. QED
    BY <2>2 DEF h
<1>4. ASSUME IsPrefix(s, t), NEW x \in A PROVE IsPrefix(s, Append(t, x))
  <2> DEFINE u == Append(t, x)
  <2>1. u \in Seq(A) /\ Len(u) = Len(t) + 1 /\ \A i \in 1 .. Len(t) : u[i] = t[i]
    OBVIOUS
  <2>2. Len(s) <= Len(t) /\ \A i \in 1 .. Len(s) : s[i] = t[i]
    BY <1>4, PrefixElements
  <2> HIDE DEF u
  <2>3. Len(s) <= Len(u) /\ \A i \in 1 .. Len(s) : s[i] = u[i]
    BY <2>1, <2>2
  <2>4. IsPrefix(s, u)
    BY <2>1, <2>3, PrefixElements
  <2>5. QED
    BY <2>4 DEF u
<1>5. ASSUME IsPrefix(s, t), NEW u \in Seq(A), IsPrefix(t, u) PROVE IsPrefix(s, u)
  <2>1. Len(s) <= Len(t) /\ \A i \in 1 .. Len(s) : s[i] = t[i]
    BY <1>5, PrefixElements
  <2>2. Len(t) <= Len(u) /\ \A i \in 1 .. Len(t) : t[i] = u[i]
    BY <1>5, PrefixElements
  <2>3. Len(s) <= Len(u) /\ \A i \in 1 .. Len(s) : s[i] = u[i]
    BY <2>1, <2>2
  <2>4. QED
    BY <2>3, PrefixElements
<1>6. QED
  BY <1>1, <1>2, <1>3, <1>4, <1>5

InObject == {"begin"} \union Texts

\* What Flat says of a piece and the one before it.
FlatStep(prev, piece) ==
  /\ piece \in Texts => prev = "begin"
  /\ piece = "end" => prev \in InObject
  /\ piece = "begin" => prev \notin InObject

\* The scan after a piece prev: between objects, in one, with its content, or
\* lost in one that never closes; texts are the contents so far.
Between(acc, texts, prev) ==
  acc.depth = 0 /\ acc.text = <<>> /\ acc.turns = texts /\ prev \notin InObject
Begun(acc, texts, prev) ==
  acc.depth = 1 /\ acc.text = <<>> /\ acc.turns = texts /\ prev = "begin"
WithText(acc, texts, prev) ==
  acc.depth = 1 /\ prev \in Texts /\ acc.text = <<prev>> /\ texts = Append(acc.turns, prev)
Lost(acc, prev) == acc.depth >= 1 /\ (prev \in InObject => acc.depth >= 2)

Scanned(acc, texts, prev) ==
  /\ IsPrefix(acc.turns, texts)
  /\ \/ Len(acc.turns) = MaxMessages
     \/ Between(acc, texts, prev)
     \/ Begun(acc, texts, prev)
     \/ WithText(acc, texts, prev)
     \/ Lost(acc, prev)

LEMMA KeepTextExtends ==
  ASSUME NEW s \in Seq(Texts), NEW texts \in Seq(Texts), NEW piece, IsPrefix(s, texts)
  PROVE  IsPrefix(s, KeepText(texts, piece))
<1>1. ASSUME piece \in Texts PROVE IsPrefix(s, Append(texts, piece))
  BY <1>1, PrefixFacts
<1>2. QED
  BY <1>1 DEF KeepText

LEMMA ScanStep ==
  ASSUME NEW acc \in Accs, NEW texts \in Seq(Texts), NEW prev, NEW piece,
         Scanned(acc, texts, prev), FlatStep(prev, piece)
  PROVE  Scanned(Scan(acc, piece), KeepText(texts, piece), piece)
<1> DEFINE new == Scan(acc, piece)
           all == KeepText(texts, piece)
<1>1. /\ acc.turns \in Seq(Texts) /\ acc.text \in Seq(Texts) /\ acc.depth \in Int
      /\ IsPrefix(acc.turns, texts) /\ IsPrefix(acc.turns, all)
  <2>1. acc.turns \in Seq(Texts) /\ acc.text \in Seq(Texts) /\ acc.depth \in Int
    BY DEF Accs
  <2>2. IsPrefix(acc.turns, texts)
    BY DEF Scanned
  <2>3. QED
    BY <2>1, <2>2, KeepTextExtends
<1>2. "begin" \notin Texts /\ "end" \notin Texts /\ "begin" # "end" /\ "end" \notin InObject
  BY DEF Texts, InObject
<1>3. CASE Len(acc.turns) = MaxMessages
  <2>1. new = acc
    BY <1>3 DEF Scan
  <2>2. QED
    BY <1>1, <1>3, <2>1 DEF Scanned
<1>4. CASE Len(acc.turns) # MaxMessages /\ piece = "begin"
  <2>1. new = [acc EXCEPT !.depth = @ + 1]
    BY <1>4 DEF Scan, Texts
  <2>2. new.depth = acc.depth + 1 /\ new.text = acc.text /\ new.turns = acc.turns
    BY <2>1 DEF Accs
  <2>3. all = texts /\ prev \notin InObject
    BY <1>2, <1>4 DEF KeepText, FlatStep
  <2> HIDE DEF new, all
  <2>4. Between(acc, texts, prev) \/ Lost(acc, prev)
    BY <1>4, <2>3 DEF Scanned, Begun, WithText, InObject
  <2>5. Begun(new, all, piece) \/ Lost(new, piece)
    BY <1>1, <1>4, <2>2, <2>3, <2>4 DEF Between, Begun, Lost
  <2>6. QED
    BY <1>1, <2>2, <2>5 DEF Scanned, new, all
<1>5. CASE Len(acc.turns) # MaxMessages /\ piece = "end"
  <2>1. all = texts /\ prev \in InObject
    BY <1>2, <1>5 DEF KeepText, FlatStep
  <2>2. CASE acc.depth = 1
    <3>1. new = [turns |-> acc.turns \o acc.text, text |-> <<>>, depth |-> 0]
      BY <1>5, <2>2 DEF Scan, Texts
    <3>2. Begun(acc, texts, prev) \/ WithText(acc, texts, prev)
      BY <1>5, <2>1, <2>2 DEF Scanned, Between, Lost
    <3>3. acc.turns \o acc.text = texts
      <4>1. CASE Begun(acc, texts, prev)
        BY <1>1, <4>1 DEF Begun
      <4>2. CASE WithText(acc, texts, prev)
        <5>1. acc.turns \o <<prev>> = Append(acc.turns, prev)
          BY <1>1, <4>2 DEF WithText
        <5>2. QED
          BY <4>2, <5>1 DEF WithText
      <4>3. QED
        BY <3>2, <4>1, <4>2
    <3>4. new.depth = 0 /\ new.text = <<>> /\ new.turns = texts
      BY <3>1, <3>3
    <3> HIDE DEF new, all
    <3>5. Between(new, all, piece)
      BY <1>2, <1>5, <2>1, <3>4 DEF Between
    <3>6. IsPrefix(new.turns, all)
      BY <2>1, <3>4, PrefixFacts
    <3>7. QED
      BY <3>5, <3>6 DEF Scanned, new, all
  <2>3. CASE acc.depth # 1
    <3>1. Lost(acc, prev)
      BY <1>5, <2>1, <2>3 DEF Scanned, Between, Begun, WithText
    <3>2. acc.depth >= 2
      BY <2>1, <3>1 DEF Lost
    <3>3. new = [acc EXCEPT !.depth = @ - 1]
      BY <1>1, <1>5, <3>2 DEF Scan, Texts
    <3>4. new.depth = acc.depth - 1 /\ new.turns = acc.turns
      BY <3>3 DEF Accs
    <3> HIDE DEF new, all
    <3>5. Lost(new, piece)
      BY <1>1, <1>2, <1>5, <3>2, <3>4 DEF Lost
    <3>6. QED
      BY <1>1, <3>4, <3>5 DEF Scanned, new, all
  <2>4. QED
    BY <2>2, <2>3
<1>6. CASE Len(acc.turns) # MaxMessages /\ piece \in Texts
  <2>1. prev = "begin" /\ all = Append(texts, piece)
    BY <1>6 DEF KeepText, FlatStep
  <2>2. Begun(acc, texts, prev) \/ Lost(acc, prev)
    BY <1>2, <1>6, <2>1 DEF Scanned, Between, WithText, InObject
  <2>3. acc.depth > 0
    BY <1>1, <2>2 DEF Begun, Lost
  <2>4. new = [acc EXCEPT !.text  = IF @ = <<>> THEN <<piece>> ELSE @,
                          !.depth = IF piece = "brace" THEN @ + 1 ELSE @]
    BY <1>6, <2>3 DEF Scan, Texts
  <2>5. /\ new.depth = (IF piece = "brace" THEN acc.depth + 1 ELSE acc.depth)
        /\ new.text = (IF acc.text = <<>> THEN <<piece>> ELSE acc.text)
        /\ new.turns = acc.turns
    BY <2>4 DEF Accs
  <2> HIDE DEF new, all
  <2>6. CASE Begun(acc, texts, prev) /\ piece # "brace"
    <3>1. WithText(new, all, piece)
      BY <1>6, <2>1, <2>5, <2>6 DEF Begun, WithText
    <3>2. QED
      BY <1>1, <2>5, <3>1 DEF Scanned, new, all
  <2>7. CASE ~(Begun(acc, texts, prev) /\ piece # "brace")
    <3>1. new.depth \in Int /\ new.depth >= 2
      BY <1>1, <2>1, <2>2, <2>5, <2>7 DEF Begun, Lost, InObject
    <3>2. Lost(new, piece)
      BY <3>1 DEF Lost
    <3>3. QED
      BY <1>1, <2>5, <3>2 DEF Scanned, new, all
  <2>8. QED
    BY <2>6, <2>7
<1>7. CASE Len(acc.turns) # MaxMessages /\ piece \notin {"begin", "end"} \union Texts
  <2>1. new = acc /\ all = texts /\ piece \notin InObject
    BY <1>7 DEF Scan, KeepText, InObject
  <2> HIDE DEF new, all
  <2>2. Between(new, all, piece) \/ Lost(new, piece)
    BY <1>1, <1>7, <2>1 DEF Scanned, Between, Begun, WithText, Lost
  <2>3. QED
    BY <1>1, <2>1, <2>2 DEF Scanned, new, all
<1>8. QED
  BY <1>3, <1>4, <1>5, <1>6, <1>7

\* The piece before position i + 1.
Before(body, i) == IF i = 0 THEN "none" ELSE body[i]

LEMMA FlatSteps ==
  ASSUME NEW body \in Seq(Pieces), Flat(body), NEW i \in 1 .. Len(body)
  PROVE  FlatStep(Before(body, i - 1), body[i])
<1>1. "none" \notin InObject /\ "none" # "begin"
  BY DEF InObject, Texts
<1>2. /\ body[i] \in Texts => i > 1 /\ body[i - 1] = "begin"
      /\ body[i] = "end" => i > 1 /\ body[i - 1] \in InObject
      /\ body[i] = "begin" /\ i > 1 => body[i - 1] \notin InObject
  <2>1. i \in DOMAIN body
    OBVIOUS
  <2>2. QED
    BY <2>1, Zenon DEF Flat, InObject
<1>3. QED
  BY <1>1, <1>2 DEF FlatStep, Before

LEMMA ScannedUpTo ==
  ASSUME NEW n \in Nat, NEW body, NEW F, NEW G,
         \A i \in 1 .. n : FlatStep(Before(body, i - 1), body[i]),
         NEW A, NEW none, IsTexts(F, body, n, A, none), NEW B, NEW start,
         IsScan(G, body, n, B, start), Scanned(start, none, "none"),
         \A acc \in B, texts \in A : \A prev, piece :
           Scanned(acc, texts, prev) /\ FlatStep(prev, piece)
             => Scanned(Scan(acc, piece), KeepText(texts, piece), piece)
  PROVE  Scanned(G[n], F[n], Before(body, n))
<1> DEFINE S == {i \in 0 .. n : Scanned(G[i], F[i], Before(body, i))}
<1>1. 0 \in S
  BY DEF IsTexts, IsScan, Before
<1>2. ASSUME NEW i \in 1 .. n, i - 1 \in S PROVE i \in S
  <2>1. Scanned(G[i - 1], F[i - 1], Before(body, i - 1))
    BY <1>2
  <2>2. G[i - 1] \in B /\ F[i - 1] \in A /\ i - 1 \in 0 .. n
    BY DEF IsTexts, IsScan
  <2>3. G[i] = Scan(G[i - 1], body[i]) /\ F[i] = KeepText(F[i - 1], body[i])
    BY DEF IsTexts, IsScan
  <2>4. Scanned(G[i], F[i], body[i])
    BY <2>1, <2>2, <2>3
  <2>5. Before(body, i) = body[i] /\ i \in 0 .. n
    BY DEF Before
  <2>6. QED
    BY <2>4, <2>5
<1>3. n \in 0 .. n /\ \A i \in 0 .. n : i \in S
  <2> HIDE DEF S
  <2>1. QED
    BY <1>1, <1>2, UpTo
<1>4. QED
  BY <1>3

\* What a body is answered for is a prefix of its contents.
LEMMA TurnsPrefix ==
  ASSUME NEW body \in Seq(Pieces), Flat(body)
  PROVE  IsPrefix(Turns(body), TextsOf(body))
<1> DEFINE n == Len(body)
           acc == ScanMessages(body)
           texts == TextsOf(body)
<1>1. PICK F : IsTexts(F, body, n, Seq(Texts), <<>>) /\ texts = F[n]
  BY TextsFunction, Zenon
<1>2. PICK G : IsScan(G, body, n, Accs, NoAcc) /\ acc = G[n]
  BY ScanFunction, Zenon
<1>3. n \in Nat
  OBVIOUS
<1>4. \A i \in 1 .. n : FlatStep(Before(body, i - 1), body[i])
  BY FlatSteps
<1>5. Scanned(NoAcc, <<>>, "none")
  <2>1. NoAcc.turns = <<>> /\ NoAcc.text = <<>> /\ NoAcc.depth = 0
    BY DEF NoAcc
  <2>2. IsPrefix(<<>>, <<>>)
    <3>1. <<>> \in Seq(Texts)
      OBVIOUS
    <3>2. QED
      BY <3>1, PrefixFacts, Zenon
  <2>3. "none" \notin InObject
    BY DEF InObject, Texts
  <2>4. QED
    BY <2>1, <2>2, <2>3 DEF Scanned, Between
<1>6. \A a \in Accs, t \in Seq(Texts) : \A prev, piece :
        Scanned(a, t, prev) /\ FlatStep(prev, piece)
          => Scanned(Scan(a, piece), KeepText(t, piece), piece)
  BY ScanStep
<1>7. texts \in Seq(Texts) /\ acc \in Accs
  BY <1>1, <1>2, <1>3, TextsLast, ScanLast, Zenon
<1> HIDE DEF n, acc, texts
<1>8. Scanned(acc, texts, Before(body, n))
  BY <1>1, <1>2, <1>3, <1>4, <1>5, <1>6, ScannedUpTo, Zenon
<1>9. acc.turns \in Seq(Texts) /\ IsPrefix(acc.turns, texts)
  BY <1>7, <1>8 DEF Accs, Scanned
<1>10. Turns(body) \in {acc.turns, <<>>} \/ (texts # <<>> /\ Turns(body) = <<Head(texts)>>)
  BY <1>7, <1>9 DEF Turns, acc, texts
<1>11. QED
  BY <1>7, <1>9, <1>10, PrefixFacts DEF texts

LEMMA SameTexts ==
  ASSUME NEW m \in Nat, NEW n \in Nat, m <= n, NEW A, NEW none,
         NEW F, NEW part, IsTexts(F, part, m, A, none),
         NEW H, NEW body, IsTexts(H, body, n, A, none),
         \A i \in 1 .. m : part[i] = body[i]
  PROVE  F[m] = H[m]
<1> DEFINE S == {i \in 0 .. m : F[i] = H[i]}
<1>1. 0 \in S
  BY DEF IsTexts
<1>2. ASSUME NEW i \in 1 .. m, i - 1 \in S PROVE i \in S
  <2>1. F[i] = KeepText(F[i - 1], part[i])
    BY DEF IsTexts
  <2>2. i \in 1 .. n
    OBVIOUS
  <2>3. H[i] = KeepText(H[i - 1], body[i])
    BY <2>2 DEF IsTexts
  <2>4. QED
    BY <1>2, <2>1, <2>3
<1>3. m \in 0 .. m /\ \A i \in 0 .. m : i \in S
  <2> HIDE DEF S
  <2>1. QED
    BY <1>1, <1>2, UpTo
<1>4. QED
  BY <1>3

LEMMA GrowingTexts ==
  ASSUME NEW m \in Nat, NEW n \in Nat, m <= n, NEW A, NEW none,
         NEW F, NEW body, IsTexts(F, body, n, A, none),
         \A s \in A : IsPrefix(s, s),
         \A s \in A, t \in A : \A p : IsPrefix(s, t) => IsPrefix(s, KeepText(t, p))
  PROVE  IsPrefix(F[m], F[n])
<1> DEFINE S == {i \in 0 .. n : i >= m => IsPrefix(F[m], F[i])}
<1>1. \A i \in 0 .. n : F[i] \in A
  BY DEF IsTexts
<1>2. IsPrefix(F[m], F[m]) /\ F[m] \in A
  BY <1>1
<1>3. 0 \in S
  BY <1>2
<1>4. ASSUME NEW i \in 1 .. n, i - 1 \in S PROVE i \in S
  <2>1. i - 1 \in 0 .. n /\ F[i - 1] \in A /\ F[i] = KeepText(F[i - 1], body[i])
    BY <1>1 DEF IsTexts
  <2>2. CASE i = m
    BY <1>2, <2>2
  <2>3. CASE i # m
    <3>1. i >= m => IsPrefix(F[m], F[i - 1])
      BY <1>4, <2>3
    <3>2. QED
      BY <1>2, <2>1, <3>1
  <2>4. QED
    BY <2>2, <2>3
<1>5. n \in 0 .. n /\ \A i \in 0 .. n : i \in S
  <2> HIDE DEF S
  <2>1. QED
    BY <1>3, <1>4, UpTo
<1>6. QED
  BY <1>5

\* Cutting a body off cuts its contents off.
LEMMA TextsPrefix ==
  ASSUME NEW body \in Seq(Pieces), NEW m \in 0 .. Len(body)
  PROVE  IsPrefix(TextsOf(SubSeq(body, 1, m)), TextsOf(body))
<1> DEFINE part == SubSeq(body, 1, m)
           n == Len(body)
<1>1. /\ part \in Seq(Pieces) /\ Len(part) = m /\ \A i \in 1 .. m : part[i] = body[i]
      /\ n \in Nat /\ m \in Nat /\ m <= n
  OBVIOUS
<1> HIDE DEF part, n
<1>2. PICK F : IsTexts(F, part, Len(part), Seq(Texts), <<>>) /\ TextsOf(part) = F[Len(part)]
  BY <1>1, TextsFunction, Zenon
<1>3. PICK H : IsTexts(H, body, n, Seq(Texts), <<>>) /\ TextsOf(body) = H[n]
  BY TextsFunction, Zenon DEF n
<1>4. IsTexts(F, part, m, Seq(Texts), <<>>) /\ TextsOf(part) = F[m]
  BY <1>1, <1>2, Zenon
<1>5. F[m] = H[m]
  BY <1>1, <1>3, <1>4, SameTexts
<1>6. \A s \in Seq(Texts) : IsPrefix(s, s)
  BY PrefixFacts
<1>7. \A s \in Seq(Texts), t \in Seq(Texts) : \A p :
        IsPrefix(s, t) => IsPrefix(s, KeepText(t, p))
  BY KeepTextExtends
<1>8. IsPrefix(H[m], H[n])
  BY <1>1, <1>3, <1>6, <1>7, GrowingTexts, Zenon
<1>9. QED
  BY <1>3, <1>4, <1>5, <1>8, Zenon DEF part

LEMMA FlatPart ==
  ASSUME NEW body \in Seq(Pieces), Flat(body), NEW m \in 0 .. Len(body)
  PROVE  Flat(SubSeq(body, 1, m))
<1> DEFINE part == SubSeq(body, 1, m)
<1>1. DOMAIN part = 1 .. m /\ \A i \in 1 .. m : part[i] = body[i]
  OBVIOUS
<1>2. \A i \in 1 .. m : i \in DOMAIN body
  OBVIOUS
<1> HIDE DEF part
<1>3. ASSUME NEW i \in DOMAIN part
      PROVE  /\ part[i] \in Texts => i > 1 /\ part[i - 1] = "begin"
             /\ part[i] = "end" => i > 1 /\ part[i - 1] \in {"begin"} \union Texts
             /\ part[i] = "begin" /\ i > 1 => part[i - 1] \notin {"begin"} \union Texts
  <2>1. i \in 1 .. m /\ part[i] = body[i] /\ i \in DOMAIN body
    BY <1>1, <1>2
  <2>2. i > 1 => part[i - 1] = body[i - 1]
    BY <1>1, <2>1
  <2>3. /\ body[i] \in Texts => i > 1 /\ body[i - 1] = "begin"
        /\ body[i] = "end" => i > 1 /\ body[i - 1] \in {"begin"} \union Texts
        /\ body[i] = "begin" /\ i > 1 => body[i - 1] \notin {"begin"} \union Texts
    BY <2>1, Zenon DEF Flat
  <2>4. QED
    BY <2>1, <2>2, <2>3, Zenon
<1>4. Flat(part)
  BY <1>3, Zenon DEF Flat
<1>5. QED
  BY <1>4 DEF part

\* The decision on whatever part of a request has arrived.
LEMMA RouteTurns ==
  ASSUME NEW r \in AnyRequest, Flat(r.body),
         NEW n \in Nat, r.head <= n, n <= r.head + Len(r.body)
  PROVE  IsPrefix(Route(r, BodyIn(r, n)).turns, TextsOf(r.body))
<1> DEFINE m == n - r.head
           part == BodyIn(r, n)
           all == TextsOf(r.body)
<1>1. r.body \in Seq(Pieces) /\ m \in 0 .. Len(r.body)
  BY RequestType
<1>2. part = SubSeq(r.body, 1, m) /\ part \in Seq(Pieces)
  BY BodyInType DEF BodyIn
<1> HIDE DEF m, part
<1>3. IsPrefix(Turns(part), TextsOf(part))
  BY <1>1, <1>2, FlatPart, TurnsPrefix
<1>4. IsPrefix(TextsOf(part), all)
  BY <1>1, <1>2, TextsPrefix
<1>5. Turns(part) \in Seq(Texts) /\ TextsOf(part) \in Seq(Texts) /\ all \in Seq(Texts)
  BY <1>1, <1>2, TurnsType, TextsOfType
<1> HIDE DEF all
<1>6. IsPrefix(Turns(part), all) /\ IsPrefix(<<>>, all)
  BY <1>3, <1>4, <1>5, PrefixFacts, Zenon
<1>7. \A status : Answer(status).turns = <<>>
  BY DEF Answer
<1>8. ChatCompletion(part).turns \in {<<>>, Turns(part)}
  BY <1>7 DEF ChatCompletion
<1>9. Route(r, part).turns \in {<<>>, Turns(part)}
  BY <1>7, <1>8, RequestType DEF Route
<1>10. QED
  BY <1>6, <1>9 DEF part, all

LEMMA DecisionTurns ==
  ASSUME NEW r \in AnyRequest, Flat(r.body), NEW n \in Nat, n <= r.head + Len(r.body)
  PROVE  /\ IsPrefix(AfterRecv(r, n).turns, TextsOf(r.body))
         /\ IsPrefix(AfterEof(r, n).turns, TextsOf(r.body))
<1> DEFINE all == TextsOf(r.body)
           routed == Route(r, BodyIn(r, n))
<1>1. \A status : Answer(status).turns = <<>>
  BY DEF Answer
<1>2. Undecided.turns = <<>>
  BY DEF Undecided
<1>3. r.head \in Nat /\ r.len \in Nat \union {Absent, Invalid} /\ IsPrefix(<<>>, all)
  <2>1. all \in Seq(Texts)
    BY RequestType, TextsOfType
  <2>2. QED
    BY <2>1, RequestType, PrefixFacts
<1>4. n >= r.head => IsPrefix(routed.turns, all)
  BY <1>3, RouteTurns
<1> HIDE DEF all
<1>5. IsPrefix(AfterEof(r, n).turns, all)
  BY <1>1, <1>3, <1>4 DEF AfterEof
<1>6. IsPrefix(AfterRecv(r, n).turns, all)
  <2>1. CASE n < r.head
    BY <1>1, <1>2, <1>3, <2>1 DEF AfterRecv
  <2>2. CASE n >= r.head
    <3>1. AfterRecv(r, n) \in {Answer(400), Answer(413), Undecided, routed}
      BY <1>3, <2>2 DEF AfterRecv, Absent, Invalid
    <3> HIDE DEF routed
    <3>2. QED
      BY <1>1, <1>2, <1>3, <1>4, <2>2, <3>1
  <2>3. QED
    BY <1>3, <2>1, <2>2
<1>7. QED
  BY <1>5, <1>6 DEF all

LEMMA AskStep ==
  ASSUME FlatMessages, IInv, AsksLeadingMessages, [Next]_vars
  PROVE  AsksLeadingMessages'
<1>1. /\ client \in Client /\ client.request \in AnyRequest /\ client.left \in Nat
      /\ received \in Nat /\ Flat(client.request.body)
      /\ received + client.left <= client.request.head + Len(client.request.body)
      /\ client.request.head \in Nat /\ Len(client.request.body) \in Nat
  <2>1. /\ client \in Client /\ client.request \in AnyRequest /\ client.left \in Nat
        /\ received \in Nat
        /\ client.request.head \in Nat /\ Len(client.request.body) \in Nat
    BY StateTypes DEF IInv
  <2>2. NoClient.request.body = <<>> /\ Flat(<<>>)
    BY DEF NoClient, Flat
  <2>3. Flat(client.request.body)
    BY <2>1, <2>2 DEF FlatMessages, AnyRequest
  <2>4. QED
    BY <2>1, <2>3 DEF IInv, BytesOfRequest
<1>2. ASSUME decision' = decision, client'.request = client.request
      PROVE  AsksLeadingMessages'
  BY <1>2 DEF AsksLeadingMessages
<1>3. ASSUME NEW request \in Requests, Accept(request) PROVE AsksLeadingMessages'
  <2>1. decision'.turns = <<>> /\ client'.request = request
    BY <1>3 DEF Accept, Undecided
  <2>2. TextsOf(request.body) \in Seq(Texts)
    BY RequestType, TextsOfType DEF AnyRequest
  <2>3. IsPrefix(<<>>, TextsOf(request.body))
    BY <2>2, PrefixFacts
  <2>4. QED
    BY <2>1, <2>3 DEF AsksLeadingMessages
<1>4. ASSUME NEW k \in 1 .. Buffer, Recv(k) PROVE AsksLeadingMessages'
  <2>1. /\ k <= client.left /\ client' = [client EXCEPT !.left = @ - k]
        /\ decision' = AfterRecv(client.request, received + k)
    BY <1>4 DEF Recv, Decide
  <2>2. client'.request = client.request
    BY <1>1, <2>1 DEF Client
  <2>3. k \in Nat /\ received + k \in Nat
        /\ received + k <= client.request.head + Len(client.request.body)
    <3> DEFINE all == client.request.head + Len(client.request.body)
               left == client.left
    <3>1. received + left <= all /\ k <= left /\ all \in Nat /\ left \in Nat
      BY <1>1, <2>1
    <3> HIDE DEF all, left
    <3>2. k \in Nat /\ received + k \in Nat /\ received + k <= all
      BY <1>1, <3>1, ServerAssumption
    <3>3. QED
      BY <3>2 DEF all
  <2>4. IsPrefix(AfterRecv(client.request, received + k).turns, TextsOf(client.request.body))
    BY <1>1, <2>3, DecisionTurns
  <2>5. QED
    BY <2>1, <2>2, <2>4 DEF AsksLeadingMessages
<1>5. CASE RecvNothing
  <2>1. client' = client /\ decision' = AfterEof(client.request, received)
    BY <1>5 DEF RecvNothing, Decide
  <2>2. received <= client.request.head + Len(client.request.body)
    BY <1>1
  <2>3. IsPrefix(AfterEof(client.request, received).turns, TextsOf(client.request.body))
    BY <1>1, <2>2, DecisionTurns
  <2>4. QED
    BY <2>1, <2>3 DEF AsksLeadingMessages
<1>6. CASE ClientStops \/ ClientLeaves \/ Send
  <2>1. decision' = decision
    BY <1>6 DEF ClientStops, ClientLeaves, Send
  <2>2. client'.request = client.request
    <3>1. CASE ClientStops
      BY <1>1, <3>1 DEF ClientStops, Client
    <3>2. CASE ClientLeaves
      BY <1>1, <3>2 DEF ClientLeaves, Client
    <3>3. CASE Send
      BY <1>1, <3>3 DEF Send, Client
    <3>4. QED
      BY <1>6, <3>1, <3>2, <3>3
  <2>3. QED
    BY <1>2, <2>1, <2>2
<1>7. CASE \/ StartFails \/ Listen \/ RecvNothingAtAll \/ SendKills \/ StartGeneration
           \/ Token \/ Refused \/ (\E ok \in BOOLEAN : Finish(ok)) \/ Close
           \/ (\E c \in Clients : Connect(c)) \/ UNCHANGED vars
  <2>1. decision' = decision /\ client' = client
    BY <1>7 DEF StartFails, Listen, RecvNothingAtAll, SendKills, StartGeneration, Token,
                Refused, Finish, Close, Connect, conn, vars
  <2>2. QED
    BY <1>2, <2>1
<1>8. QED
  BY <1>3, <1>4, <1>5, <1>6, <1>7 DEF Next, Server, Receive

\* Whatever was cut off, dropped or could not be parsed, the model is asked the
\* leading messages of the request, in their order and each at most once, when
\* its messages are objects without objects in them and with one content each.
THEOREM ServerAsksLeadingMessages ==
  ASSUME FlatMessages
  PROVE  Spec => []AsksLeadingMessages
<1>1. Init => AsksLeadingMessages
  <2>1. ASSUME Init PROVE AsksLeadingMessages
    <3>1. decision.turns = <<>> /\ client.request \in AnyRequest
      BY <2>1 DEF Init, Undecided, AnyRequest
    <3>2. TextsOf(client.request.body) \in Seq(Texts)
      BY <3>1, RequestType, TextsOfType
    <3>3. IsPrefix(<<>>, TextsOf(client.request.body))
      BY <3>2, PrefixFacts
    <3>4. QED
      BY <3>1, <3>3 DEF AsksLeadingMessages
  <2>2. QED
    BY <2>1
<1>2. IInv /\ AsksLeadingMessages /\ [Next]_vars => AsksLeadingMessages'
  BY AskStep
<1>3. QED
  BY <1>1, <1>2, ServerInvariant, PTL DEF Spec
=============================================================================
