------------------------- MODULE ParseSessionProofs -------------------------
(***************************************************************************)
(* One call, for every capacity of the channel, size of a batch, size of   *)
(* an event and byte cap: the slot is held while bytes are read and rows   *)
(* decoded, what is under way is bounded, the client is told the truth,    *)
(* and what it reads is an EventStream.                                    *)
(*                                                                         *)
(* The argument follows the events that are out of the task's hands, from  *)
(* the first delivered to the last in the channel: the response stream     *)
(* moves them along and changes nothing of that sequence, and the task     *)
(* appends to it, in an order its program counter determines.              *)
(***************************************************************************)
EXTENDS ParseSession, TLAPS, SequenceTheorems, FiniteSetTheorems

SentEvent ==
    [kind : {"layout_info", "record", "document", "status"}, n : Nat,
     size : Nat \ {0}]

Outcomes ==
    {"none", "ok", "exhausted", "invalid", "unsupported", "internal",
     "timed out", "abandoned", "panicked"}

Codes == Outcomes \cup {"no trailer"}
Told == [kind : {"error"}, n : {0}, size : {0}, code : Codes]
AnyEvent == SentEvent \cup Told

Joined(d, b, c) == d \o b \o c

Out == Joined(delivered, batch, channel)

-----------------------------------------------------------------------------
(***************************************************************************)
(* A sequence in three parts, element by element.                          *)
(***************************************************************************)
LEMMA ThreeParts ==
    ASSUME NEW S, NEW d \in Seq(S), NEW b \in Seq(S), NEW c \in Seq(S)
    PROVE  /\ Joined(d, b, c) \in Seq(S)
           /\ Len(Joined(d, b, c)) = Len(d) + Len(b) + Len(c)
           /\ \A i \in 1..Len(d) : Joined(d, b, c)[i] = d[i]
           /\ \A i \in 1..Len(b) : Joined(d, b, c)[Len(d) + i] = b[i]
           /\ \A i \in 1..Len(c) :
                 Joined(d, b, c)[Len(d) + Len(b) + i] = c[i]
  <1>1. /\ d \o b \in Seq(S)
        /\ Len(d \o b) = Len(d) + Len(b)
        /\ \A i \in 1..Len(d) + Len(b) :
              (d \o b)[i] = IF i <= Len(d) THEN d[i] ELSE b[i - Len(d)]
    BY ConcatProperties
  <1>2. /\ (d \o b) \o c \in Seq(S)
        /\ Len((d \o b) \o c) = Len(d) + Len(b) + Len(c)
        /\ \A i \in 1..Len(d) + Len(b) + Len(c) :
              ((d \o b) \o c)[i] = IF i <= Len(d) + Len(b)
                                   THEN (d \o b)[i]
                                   ELSE c[i - (Len(d) + Len(b))]
    BY <1>1, ConcatProperties
  <1>3. Len(d) \in Nat /\ Len(b) \in Nat /\ Len(c) \in Nat
    OBVIOUS
  <1> QED
    BY <1>1, <1>2, <1>3 DEF Joined

(***************************************************************************)
(* TrailerGuard takes an event off the channel.                            *)
(***************************************************************************)
LEMMA TakeKeeps ==
    ASSUME NEW S, NEW d \in Seq(S), NEW b \in Seq(S), NEW c \in Seq(S),
           c # <<>>
    PROVE  Joined(d, Append(b, Head(c)), Tail(c)) = Joined(d, b, c)
  <1>1. /\ Head(c) \in S /\ Head(c) = c[1]
        /\ Tail(c) \in Seq(S) /\ Len(Tail(c)) = Len(c) - 1
        /\ \A i \in 1..Len(Tail(c)) : Tail(c)[i] = c[i + 1]
    BY HeadTailProperties
  <1>2. /\ Append(b, Head(c)) \in Seq(S)
        /\ Append(b, Head(c)) = b \o <<Head(c)>>
    BY <1>1
  <1>3. <<Head(c)>> \in Seq(S) /\ c = <<Head(c)>> \o Tail(c)
    <2>1. <<Head(c)>> \in Seq(S)
      BY <1>1
    <2>2. /\ <<Head(c)>> \o Tail(c) \in Seq(S)
          /\ Len(<<Head(c)>> \o Tail(c)) = Len(c)
          /\ \A i \in 1..Len(c) :
                (<<Head(c)>> \o Tail(c))[i]
                   = IF i <= 1 THEN <<Head(c)>>[i] ELSE Tail(c)[i - 1]
      BY <2>1, <1>1, ConcatProperties
    <2>3. \A i \in 1..Len(c) : c[i] = (<<Head(c)>> \o Tail(c))[i]
      BY <2>2, <1>1
    <2> QED
      BY <2>1, <2>2, <2>3, SeqEqual
  <1>4. d \o (b \o <<Head(c)>>) = (d \o b) \o <<Head(c)>>
    BY <1>3, ConcatAssociative
  <1>5. d \o b \in Seq(S)
    BY ConcatProperties
  <1>6. ((d \o b) \o <<Head(c)>>) \o Tail(c)
           = (d \o b) \o (<<Head(c)>> \o Tail(c))
    <2>1. <<Head(c)>> \in Seq(S) /\ Tail(c) \in Seq(S)
      BY <1>1, <1>3
    <2> QED
      BY <2>1, <1>5, ConcatAssociative
  <1> QED
    BY <1>2, <1>3, <1>4, <1>6 DEF Joined

(***************************************************************************)
(* TrailerGuard hands an event of the batch to the transport.              *)
(***************************************************************************)
LEMMA HandKeeps ==
    ASSUME NEW S, NEW d \in Seq(S), NEW b \in Seq(S), NEW c \in Seq(S),
           b # <<>>
    PROVE  Joined(Append(d, Head(b)), Tail(b), c) = Joined(d, b, c)
  <1>1. <<>> \in Seq(S) /\ Tail(b) \in Seq(S) /\ Head(b) \in S
    BY HeadTailProperties
  <1>2. <<>> \o Append(d, Head(b)) \o Tail(b) = <<>> \o d \o b
    BY <1>1, TakeKeeps DEF Joined
  <1>3. Append(d, Head(b)) \in Seq(S)
    BY <1>1
  <1> QED
    BY <1>1, <1>2, <1>3, ConcatEmptySeq DEF Joined

(***************************************************************************)
(* The task puts an event on the channel, or TrailerGuard, once the        *)
(* channel is empty, into its batch.                                       *)
(***************************************************************************)
LEMMA SendAppends ==
    ASSUME NEW S, NEW d \in Seq(S), NEW b \in Seq(S), NEW c \in Seq(S),
           NEW e \in S
    PROVE  Joined(d, b, Append(c, e)) = Append(Joined(d, b, c), e)
  <1>1. /\ d \o b \in Seq(S) /\ <<e>> \in Seq(S)
        /\ (d \o b) \o c \in Seq(S)
    BY ConcatProperties
  <1>2. /\ Append(c, e) = c \o <<e>>
        /\ Append((d \o b) \o c, e) = ((d \o b) \o c) \o <<e>>
    BY <1>1, AppendIsConcat
  <1>3. (d \o b) \o (c \o <<e>>) = ((d \o b) \o c) \o <<e>>
    BY <1>1, ConcatAssociative
  <1> QED
    BY <1>2, <1>3 DEF Joined

(***************************************************************************)
(* GatherClosed adds the error of a call whose trailer is missing to the   *)
(* batch, once nothing is left in the channel.                             *)
(***************************************************************************)
LEMMA CloseAppends ==
    ASSUME NEW S, NEW d \in Seq(S), NEW b \in Seq(S), NEW e \in S
    PROVE  Joined(d, Append(b, e), <<>>) = Append(Joined(d, b, <<>>), e)
  <1>1. /\ d \o b \in Seq(S) /\ <<e>> \in Seq(S) /\ <<>> \in Seq(S)
        /\ Append(b, e) \in Seq(S) /\ d \o Append(b, e) \in Seq(S)
    BY ConcatProperties, AppendProperties
  <1>2. (d \o b) \o <<>> = d \o b
    BY <1>1, ConcatEmptySeq
  <1>3. (d \o Append(b, e)) \o <<>> = d \o Append(b, e)
    BY <1>1, ConcatEmptySeq
  <1>4. /\ Append(b, e) = b \o <<e>>
        /\ Append(d \o b, e) = (d \o b) \o <<e>>
    BY <1>1, AppendIsConcat
  <1>5. d \o (b \o <<e>>) = (d \o b) \o <<e>>
    BY <1>1, ConcatAssociative
  <1> QED
    BY <1>2, <1>3, <1>4, <1>5 DEF Joined

-----------------------------------------------------------------------------
(***************************************************************************)
(* The shapes a stream goes through: a layout_info and k rows, which is    *)
(* what all of them begin with; the document behind them; and the two      *)
(* last words.                                                             *)
(***************************************************************************)
Rows(s, k) ==
    /\ Len(s) >= k + 1
    /\ s[1].kind = "layout_info"
    /\ \A i \in 2..(k + 1) : s[i].kind = "record" /\ s[i].n = i - 2

Opened(s, k) == Rows(s, k) /\ Len(s) = k + 1

WithDocument(s, k) ==
    emit_document = TRUE /\ s[k + 2].kind = "document" /\ s[k + 2].n = k

Documented(s, k) == Rows(s, k) /\ Len(s) = k + 2 /\ WithDocument(s, k)

IsTrailer(e, k) == e.kind = "status" /\ e.n = k
IsFailure(e) == e.kind = "error" /\ e.code \in {outcome, "no trailer"}

Completed(s, k) ==
    /\ Rows(s, k)
    /\ \/ emit_document = FALSE /\ Len(s) = k + 2 /\ IsTrailer(s[k + 2], k)
       \/ WithDocument(s, k) /\ Len(s) = k + 3 /\ IsTrailer(s[k + 3], k)

Broken(s, k) ==
    /\ Rows(s, k)
    /\ \/ Len(s) = k + 2 /\ IsFailure(s[k + 2])
       \/ WithDocument(s, k) /\ Len(s) = k + 3 /\ IsFailure(s[k + 3])

Shape(s, k) ==
    Opened(s, k) \/ Documented(s, k) \/ Completed(s, k) \/ Broken(s, k)

(***************************************************************************)
(* Appending takes one shape to the next.                                  *)
(***************************************************************************)
LEMMA RowsAppend ==
    ASSUME NEW s \in Seq(AnyEvent), NEW e \in AnyEvent, NEW k \in Nat,
           Rows(s, k)
    PROVE  Rows(Append(s, e), k)
  BY AppendProperties DEF Rows

(***************************************************************************)
(* The first event sent, layout_info, opens a stream with no row.          *)
(***************************************************************************)
LEMMA AppendLayout ==
    ASSUME NEW e \in AnyEvent, e.kind = "layout_info"
    PROVE  Opened(Append(<<>>, e), 0)
  BY DEF Opened, Rows

(***************************************************************************)
(* A row with the next number extends a stream that is open.               *)
(***************************************************************************)
LEMMA AppendRecord ==
    ASSUME NEW s \in Seq(AnyEvent), NEW e \in AnyEvent, NEW k \in Nat,
           Opened(s, k), e.kind = "record", e.n = k
    PROVE  Opened(Append(s, e), k + 1)
  BY AppendProperties DEF Opened, Rows

(***************************************************************************)
(* The document follows the rows, and only where it was asked for.         *)
(***************************************************************************)
LEMMA AppendDocument ==
    ASSUME NEW s \in Seq(AnyEvent), NEW e \in AnyEvent, NEW k \in Nat,
           emit_document, Opened(s, k), e.kind = "document", e.n = k
    PROVE  Documented(Append(s, e), k)
  <1>1. Rows(Append(s, e), k)
    BY RowsAppend DEF Opened
  <1> QED
    BY <1>1, AppendProperties DEF Opened, Documented, WithDocument

(***************************************************************************)
(* The trailer completes a stream that has its rows and, where it was      *)
(* asked for, its document.                                                *)
(***************************************************************************)
LEMMA AppendStatus ==
    ASSUME NEW s \in Seq(AnyEvent), NEW e \in AnyEvent, NEW k \in Nat,
           \/ emit_document = TRUE /\ Documented(s, k)
           \/ emit_document = FALSE /\ Opened(s, k),
           IsTrailer(e, k)
    PROVE  Completed(Append(s, e), k)
  <1>1. Rows(Append(s, e), k)
    BY RowsAppend DEF Opened, Documented
  <1>2. CASE emit_document = TRUE /\ Documented(s, k)
    BY <1>1, <1>2, AppendProperties DEF Documented, Completed, WithDocument
  <1>3. CASE emit_document = FALSE /\ Opened(s, k)
    BY <1>1, <1>3, AppendProperties DEF Opened, Completed
  <1> QED
    BY <1>2, <1>3

(***************************************************************************)
(* An error breaks a stream off behind its rows or its document.           *)
(***************************************************************************)
LEMMA AppendError ==
    ASSUME NEW s \in Seq(AnyEvent), NEW e \in AnyEvent, NEW k \in Nat,
           Opened(s, k) \/ Documented(s, k), IsFailure(e)
    PROVE  Broken(Append(s, e), k)
  <1>1. Rows(Append(s, e), k)
    BY RowsAppend DEF Opened, Documented
  <1>2. CASE Opened(s, k)
    BY <1>1, <1>2, AppendProperties DEF Opened, Broken
  <1>3. CASE Documented(s, k)
    BY <1>1, <1>3, AppendProperties DEF Documented, Broken, WithDocument
  <1> QED
    BY <1>2, <1>3

-----------------------------------------------------------------------------
(***************************************************************************)
(* What the shapes say: the order of SentInOrder, where its last word can  *)
(* be, and how many events of a kind there are.                            *)
(***************************************************************************)
InOrder(s) ==
    \A i \in DOMAIN s :
        LET e == s[i]
        IN  /\ e.kind \in EventKinds
            /\ e.kind = "layout_info" <=> i = 1
            /\ e.kind = "record" => e.n = i - 2
            /\ e.kind = "document" =>
                  /\ emit_document
                  /\ e.n = i - 2
                  /\ i < Len(s) => Last(s[i + 1])
            /\ e.kind = "status" =>
                  /\ e.n = IF emit_document THEN i - 3 ELSE i - 2
                  /\ emit_document => s[i - 1].kind = "document"
            /\ Last(e) => i = Len(s)

(***************************************************************************)
(* A stream of one of the four shapes is in the order of SentInOrder.      *)
(***************************************************************************)
LEMMA ShapeInOrder ==
    ASSUME NEW s \in Seq(AnyEvent), NEW k \in Nat, Shape(s, k)
    PROVE  InOrder(s)
  <1>0. Len(s) \in Nat /\ DOMAIN s = 1..Len(s)
    BY LenProperties
  <1>1. Rows(s, k)
    BY DEF Shape, Opened, Documented, Completed, Broken
  <1>11. Len(s) >= k + 1 /\ s[1].kind = "layout_info"
        /\ \A i \in 2..(k + 1) : s[i].kind = "record" /\ s[i].n = i - 2
    BY <1>1 DEF Rows
  <1> SUFFICES ASSUME NEW i \in DOMAIN s
               PROVE  /\ s[i].kind \in EventKinds
                      /\ s[i].kind = "layout_info" <=> i = 1
                      /\ s[i].kind = "record" => s[i].n = i - 2
                      /\ s[i].kind = "document" =>
                            /\ emit_document
                            /\ s[i].n = i - 2
                            /\ i < Len(s) => Last(s[i + 1])
                      /\ s[i].kind = "status" =>
                            /\ s[i].n = IF emit_document THEN i - 3 ELSE i - 2
                            /\ emit_document => s[i - 1].kind = "document"
                      /\ Last(s[i]) => i = Len(s)
    BY DEF InOrder
  <1>2. i \in 1..Len(s)
    BY <1>0
  <1>3. CASE i = 1
    BY <1>0, <1>11, <1>3 DEF EventKinds, Last
  <1>4. CASE i \in 2..(k + 1)
    BY <1>0, <1>11, <1>4 DEF EventKinds, Last
  <1>5. CASE i > k + 1 /\ Opened(s, k)
    BY <1>0, <1>2, <1>5 DEF Opened
  <1>6. CASE i > k + 1 /\ Documented(s, k)
    <2>1. /\ i = k + 2 /\ i = Len(s) /\ i # 1
          /\ s[i].kind = "document" /\ s[i].n = k /\ emit_document = TRUE
      BY <1>0, <1>2, <1>6 DEF Documented, WithDocument
    <2>2. s[i].kind \in EventKinds /\ ~Last(s[i])
      BY <2>1 DEF EventKinds, Last
    <2>3. ~(i < Len(s)) /\ s[i].n = i - 2
      BY <1>0, <2>1
    <2>4. s[i].kind # "layout_info" /\ s[i].kind # "record" /\ s[i].kind # "status"
      BY <2>1
    <2> QED
      BY <2>1, <2>2, <2>3, <2>4
  <1>7. CASE i > k + 1 /\ Completed(s, k)
    <2>1. CASE emit_document = FALSE /\ Len(s) = k + 2 /\ IsTrailer(s[k + 2], k)
      BY <1>0, <1>2, <1>7, <2>1 DEF IsTrailer, EventKinds, Last
    <2>2. CASE /\ WithDocument(s, k) /\ Len(s) = k + 3
               /\ IsTrailer(s[k + 3], k)
      <3>1. i = k + 2 \/ i = k + 3
        BY <1>0, <1>2, <1>7, <2>2
      <3> QED
        BY <1>0, <2>2, <3>1 DEF WithDocument, IsTrailer, EventKinds, Last
    <2> QED
      BY <1>7, <2>1, <2>2 DEF Completed
  <1>8. CASE i > k + 1 /\ Broken(s, k)
    <2>1. CASE Len(s) = k + 2 /\ IsFailure(s[k + 2])
      <3>1. s[k + 2].kind = "error"
        BY <2>1 DEF IsFailure
      <3>2. i = k + 2
        BY <1>0, <1>2, <1>8, <2>1
      <3> QED
        BY <1>0, <2>1, <3>1, <3>2 DEF EventKinds, Last
    <2>2. CASE /\ WithDocument(s, k) /\ Len(s) = k + 3
               /\ IsFailure(s[k + 3])
      <3>1. s[k + 3].kind = "error"
        BY <2>2 DEF IsFailure
      <3>2. CASE i = k + 2
        BY <1>0, <2>2, <3>1, <3>2 DEF WithDocument, EventKinds, Last
      <3>3. CASE i = k + 3
        BY <1>0, <2>2, <3>1, <3>3 DEF EventKinds, Last
      <3> QED
        BY <1>0, <1>2, <1>8, <2>2, <3>2, <3>3
    <2> QED
      BY <1>8, <2>1, <2>2 DEF Broken
  <1> QED
    BY <1>0, <1>2, <1>3, <1>4, <1>5, <1>6, <1>7, <1>8 DEF Shape

(***************************************************************************)
(* A stream of one of the four shapes has as many rows as its parameter    *)
(* says, and a completed one a single trailer.                             *)
(***************************************************************************)
LEMMA ShapeCounts ==
    ASSUME NEW s \in Seq(AnyEvent), NEW k \in Nat, Shape(s, k)
    PROVE  /\ CountOf("record", s) = k
           /\ Completed(s, k) => CountOf("status", s) = 1
  <1>0. Len(s) \in Nat /\ DOMAIN s = 1..Len(s)
    BY LenProperties
  <1>1. Rows(s, k)
    BY DEF Shape, Opened, Documented, Completed, Broken
  <1>11. Len(s) >= k + 1 /\ s[1].kind = "layout_info"
        /\ \A i \in 2..(k + 1) : s[i].kind = "record" /\ s[i].n = i - 2
    BY <1>1 DEF Rows
  <1>2. ASSUME NEW i \in 1..Len(s), i > k + 1
        PROVE  s[i].kind # "record"
    <2>1. CASE Opened(s, k)
      BY <1>0, <1>2, <2>1 DEF Opened
    <2>2. CASE Documented(s, k)
      BY <1>0, <1>2, <2>2 DEF Documented, WithDocument
    <2>3. CASE Completed(s, k)
      <3>1. CASE Len(s) = k + 2 /\ s[k + 2].kind = "status"
        BY <1>0, <1>2, <3>1
      <3>2. CASE /\ s[k + 2].kind = "document" /\ Len(s) = k + 3
                 /\ s[k + 3].kind = "status"
        BY <1>0, <1>2, <3>2
      <3> QED
        BY <2>3, <3>1, <3>2 DEF Completed, WithDocument, IsTrailer
    <2>4. CASE Broken(s, k)
      <3>1. CASE Len(s) = k + 2 /\ s[k + 2].kind = "error"
        BY <1>0, <1>2, <3>1
      <3>2. CASE /\ s[k + 2].kind = "document" /\ Len(s) = k + 3
                 /\ s[k + 3].kind = "error"
        BY <1>0, <1>2, <3>2
      <3> QED
        BY <2>4, <3>1, <3>2 DEF Broken, WithDocument, IsFailure
    <2> QED
      BY <2>1, <2>2, <2>3, <2>4 DEF Shape
  <1>3. {i \in DOMAIN s : s[i].kind = "record"} = 2..(k + 1)
    BY <1>0, <1>11, <1>2
  <1>4. Cardinality(2..(k + 1)) = k
    BY FS_Interval
  <1>5. CountOf("record", s) = k
    BY <1>3, <1>4 DEF CountOf
  <1>6. ASSUME Completed(s, k) PROVE CountOf("status", s) = 1
    <2>1. /\ Len(s) \in {k + 2, k + 3} /\ s[Len(s)].kind = "status"
          /\ Len(s) = k + 3 => s[k + 2].kind = "document"
      BY <1>6 DEF Completed, IsTrailer, WithDocument
    <2>2. ASSUME NEW i \in 1..Len(s), i # Len(s)
          PROVE  s[i].kind # "status"
      <3>1. i = 1 \/ i \in 2..(k + 1) \/ (i = k + 2 /\ Len(s) = k + 3)
        <4>1. Len(s) = k + 2 \/ Len(s) = k + 3
          BY <2>1
        <4>2. i \in Nat /\ 1 <= i /\ i <= Len(s)
          BY <1>0
        <4>3. i # Len(s)
          BY <2>2
        <4> QED
          BY <4>1, <4>2, <4>3
      <3>2. CASE i = 1
        BY <1>11, <3>2
      <3>3. CASE i \in 2..(k + 1)
        BY <1>11, <3>3
      <3>4. CASE i = k + 2 /\ Len(s) = k + 3
        BY <2>1, <3>4
      <3> QED
        BY <3>1, <3>2, <3>3, <3>4
    <2>3. Len(s) \in 1..Len(s)
      BY <1>0, <2>1
    <2>4. {i \in DOMAIN s : s[i].kind = "status"} = {Len(s)}
      BY <1>0, <2>1, <2>2, <2>3
    <2> QED
      BY <2>4, FS_Singleton DEF CountOf
  <1> QED
    BY <1>5, <1>6

-----------------------------------------------------------------------------
(***************************************************************************)
(* The inductive invariant, in parts.                                      *)
(***************************************************************************)
Places ==
    {"arriving", "refused", "opening", "run", "sending", "document sent",
     "decided", "counting", "reporting", "ended"}

Counters ==
    [started : Nat, completed : Nat, failed : Nat, rejected : Nat,
     records : Nat, bytes : Nat, cap_hits : Nat]

Typed ==
    /\ emit_document \in BOOLEAN
    /\ requested_cap \in Nat
    /\ pc \in Places
    /\ received \in Nat
    /\ yielded \in Nat
    /\ fold \in Nat \cup {NoFold}
    /\ pc = "sending" => pending \in SentEvent
    /\ then \in {"run", "document sent", "decided"}
    /\ outcome \in Outcomes
    /\ metrics \in Counters
    /\ channel \in Seq(AnyEvent)
    /\ batch \in Seq(AnyEvent)
    /\ batch_bytes \in Nat
    /\ delivered \in Seq(AnyEvent)

(***************************************************************************)
(* The slot is held from the admission to the end of run_parse.            *)
(***************************************************************************)
SlotHeld ==
    /\ pc = "arriving" => slot = "none"
    /\ pc \in {"opening", "decided"} \cup Working => slot = "held"

(***************************************************************************)
(* What is under way has room, and the last event closes its batch.  (A    *)
(* batch that gathers is no longer than it has bytes: every event but an   *)
(* error has some.)                                                        *)
(***************************************************************************)
Bounded ==
    /\ received <= byte_cap
    /\ Len(channel) <= Capacity
    /\ Len(batch) <= BatchBytes
    /\ releasing \/ batch_final \/ Len(batch) <= batch_bytes

LastInBatch ==
    /\ \A i \in 1..Len(delivered) : Last(delivered[i]) => finished
    /\ \A i \in 1..Len(batch) :
          Last(batch[i]) => batch_final /\ i = Len(batch)
    /\ releasing => batch # <<>>
    /\ batch_final /\ ~finished =>
          batch # <<>> /\ Last(batch[Len(batch)])
    /\ finished => delivered # <<>> /\ Last(delivered[Len(delivered)])
    /\ closed = "ended" => finished

(***************************************************************************)
(* What is out of the task's hands when it is at a place: before its       *)
(* outcome, and once it is decided.  The last row of a failed call may be  *)
(* missing, its layout_info only if there is nobody to miss it.            *)
(***************************************************************************)
Failed ==
    /\ outcome \notin {"none", "ok"}
    /\ \/ Out = <<>> /\ yielded = 0 /\ closed # "open"
       \/ \E k \in Nat : /\ yielded \in {k, k + 1}
                         /\ (Opened(Out, k) \/ Documented(Out, k))

Succeeded == outcome = "ok" /\ Completed(Out, yielded)

Reported ==
    /\ outcome \notin {"none", "ok"}
    /\ \E k \in Nat : yielded \in {k, k + 1} /\ Broken(Out, k)

SendingRow ==
    /\ then = "run"
    /\ \/ yielded = 0 /\ Out = <<>> /\ pending.kind = "layout_info"
       \/ /\ yielded > 0
          /\ Opened(Out, yielded - 1)
          /\ pending.kind = "record" /\ pending.n = yielded - 1

SendingDocument ==
    /\ then = "document sent"
    /\ emit_document = TRUE
    /\ Opened(Out, yielded)
    /\ pending.kind = "document" /\ pending.n = yielded

SendingTrailer ==
    /\ then = "decided"
    /\ \/ emit_document = TRUE /\ Documented(Out, yielded)
       \/ emit_document = FALSE /\ Opened(Out, yielded)
    /\ IsTrailer(pending, yielded)

Undecided == {"arriving", "opening"} \cup Working

Ordered ==
    /\ pc \in Undecided => outcome = "none"
    /\ pc \in {"arriving", "opening", "refused"} => yielded = 0 /\ Out = <<>>
    /\ pc = "run" => Opened(Out, yielded)
    /\ pc = "sending" => SendingRow \/ SendingDocument \/ SendingTrailer
    /\ pc = "document sent" => Documented(Out, yielded)
    /\ pc \in {"decided", "counting"} => Failed \/ Succeeded
    /\ pc = "reporting" => Failed
    /\ pc = "ended" => Failed \/ Succeeded \/ Reported

Folded ==
    pc = "run" \/ (pc = "sending" /\ then = "run") =>
        fold = IF emit_document THEN yielded ELSE NoFold

(***************************************************************************)
(* The counters, from where the task is.                                   *)
(***************************************************************************)
Counted ==
    /\ metrics.started = IF pc \in Started THEN 1 ELSE 0
    /\ metrics.rejected = 0 \/ (pc = "refused" /\ metrics.rejected = 1)
    /\ metrics.completed = IF pc = "ended" /\ outcome = "ok" THEN 1 ELSE 0
    /\ metrics.failed =
          IF pc \in {"reporting", "ended"} /\ outcome \notin {"ok", "panicked"}
          THEN 1 ELSE 0
    /\ metrics.cap_hits <= metrics.failed
    /\ metrics.bytes = received
    /\ metrics.records = yielded
    /\ pc \in {"decided", "counting", "reporting"} => outcome # "panicked"

SInv ==
    /\ Typed
    /\ SlotHeld
    /\ Bounded
    /\ LastInBatch
    /\ Ordered
    /\ Folded
    /\ Counted

-----------------------------------------------------------------------------
(***************************************************************************)
(* The steps the invariant tells apart: one that leaves all of it alone,   *)
(* one by which run_parse fails, and the others.                           *)
(***************************************************************************)
Quiet ==
    UNCHANGED <<request, pc, received, yielded, fold, sending, ending, channel,
                guard>>

Refusals == {"exhausted", "invalid", "unsupported", "internal", "timed out"}

GiveUp ==
    /\ pc \in {"run", "sending"}
    /\ pc = "sending" /\ ReceiverOpen => ~HasRoom
    /\ \E code \in Refusals : Fail(code)

Chunk == \E n \in ChunkSizes : ReceiveChunk(n)
TaskStep ==
    \/ Reject \/ Admit \/ RefuseOptions \/ StartParse
    \/ SendDone \/ GiveUp \/ Chunk \/ DrainRow \/ Finish \/ FinishStatus
    \/ ReleaseSlot \/ CountOutcome \/ ReportError \/ ReportLost \/ Panic

StreamStep ==
    Gather \/ GatherClosed \/ Release \/ HandOver \/ EndStream \/ HangUp

(***************************************************************************)
(* Every step of a call is one of the three.                               *)
(***************************************************************************)
LEMMA StepCases ==
    ASSUME [Next]_vars
    PROVE  Quiet \/ TaskStep \/ StreamStep
  <1> USE DEF request, walk, sending, ending, guard, task
  <1>1. CASE Open
    BY <1>1 DEF Open, TaskStep
  <1>2. CASE Send
    BY <1>2 DEF Send, SendClosed, SendTimeout, GiveUp, TaskStep, Refusals
  <1>3. CASE Receive
    <2>1. CASE \E n \in ChunkSizes : ReceiveChunk(n)
      BY <2>1 DEF Chunk, TaskStep
    <2>2. CASE \E n \in ChunkSizes : ReceiveTooMuch(n)
      BY <2>2 DEF ReceiveTooMuch, Awaiting, GiveUp, TaskStep, Refusals
    <2>3. CASE Wait \/ ReceiveEmpty \/ ReceiveEnd
      BY <2>3 DEF Wait, ReceiveEmpty, ReceiveEnd, W!FinishInput, Quiet
    <2>4. CASE ReceiveOptions \/ ReceiveError \/ ReceiveIdle
      BY <2>4 DEF ReceiveOptions, ReceiveError, ReceiveIdle, FailReceiving,
                  Awaiting, GiveUp, TaskStep, Refusals
    <2> QED
      BY <1>3, <2>1, <2>2, <2>3, <2>4 DEF Receive
  <1>4. CASE Drain
    <2>1. CASE DrainRow
      BY <2>1 DEF TaskStep
    <2>2. CASE DrainNone
      BY <2>2 DEF DrainNone, W!NoMore, Quiet
    <2>3. CASE DrainError
      BY <2>3 DEF DrainError, GiveUp, TaskStep, Refusals
    <2> QED
      BY <1>4, <2>1, <2>2, <2>3 DEF Drain
  <1>5. CASE Trailer
    BY <1>5 DEF Trailer, FinishError, GiveUp, TaskStep, Refusals
  <1>6. CASE Report
    BY <1>6 DEF Report, TaskStep
  <1>7. CASE Panic
    BY <1>7 DEF TaskStep
  <1>8. CASE Poll \/ HangUp
    BY <1>8 DEF Poll, StreamStep
  <1>9. CASE UNCHANGED vars
    BY <1>9 DEF vars, Quiet
  <1> QED
    BY <1>1, <1>2, <1>3, <1>4, <1>5, <1>6, <1>7, <1>8, <1>9 DEF Next, Server

(***************************************************************************)
(* Who moves what.                                                         *)
(***************************************************************************)
LEMMA StreamLeavesTask ==
    ASSUME StreamStep
    PROVE  UNCHANGED <<request, pc, received, yielded, fold, sending, ending>>
  BY DEF StreamStep, Gather, Take, GatherClosed, Release, HandOver, Hand,
         EndStream, HangUp, request, walk, sending, ending, guard, task

(***************************************************************************)
(* The task changes nothing of the response stream but the channel, where  *)
(* it sends an event or reports its error.                                 *)
(***************************************************************************)
LEMMA TaskLeavesStream ==
    ASSUME TaskStep
    PROVE  /\ UNCHANGED <<request, guard>>
           /\ SendDone \/ ReportError \/ UNCHANGED channel
  BY DEF TaskStep, Reject, Admit, RefuseOptions, StartParse, SendDone,
         GiveUp, Fail, Chunk, ReceiveChunk, DrainRow, Finish, FinishStatus,
         ReleaseSlot, CountOutcome, ReportError, ReportLost, Panic, BeginSend,
         request, guard

(***************************************************************************)
(* The slot stays with the call from Admit to ReleaseSlot.                 *)
(***************************************************************************)
LEMMA SlotHeldStep ==
    ASSUME Typed, SlotHeld, [Next]_vars
    PROVE  SlotHeld'
  <1> USE DEF Working
  <1>1. CASE Quiet
    BY <1>1 DEF Quiet, SlotHeld, ending
  <1>2. CASE StreamStep
    BY <1>2, StreamLeavesTask DEF SlotHeld, ending
  <1>3. CASE TaskStep
    BY <1>3 DEF SlotHeld, Typed, Places, ending,
         TaskStep, Reject, Admit, RefuseOptions, StartParse, SendDone,
         GiveUp, Fail, Chunk, ReceiveChunk, DrainRow, Finish, FinishStatus,
         ReleaseSlot, CountOutcome, ReportError, ReportLost, Panic, BeginSend
  <1> QED
    BY <1>1, <1>2, <1>3, StepCases

(***************************************************************************)
(* What the task and TrailerGuard construct are events; only an error has  *)
(* no bytes of its own.                                                    *)
(***************************************************************************)
LEMMA EventTypes ==
    /\ \A n \in Nat, size \in EventSizes :
          /\ Event("layout_info", n, size) \in SentEvent
          /\ Event("record", n, size) \in SentEvent
          /\ Event("document", n, size) \in SentEvent
          /\ Event("status", n, size) \in SentEvent
    /\ \A code \in Codes : ErrorEvent(code) \in AnyEvent
    /\ \A e \in AnyEvent : e.size \in Nat
    /\ SentEvent \subseteq AnyEvent
  <1>1. \A size \in EventSizes : size \in Nat \ {0}
    BY SessionAssumption
  <1>2. \A code \in Codes : ErrorEvent(code) \in Told
    BY DEF ErrorEvent, Told
  <1>3. /\ \A e \in SentEvent : e.size \in Nat
        /\ \A e \in Told : e.size \in Nat
    BY DEF SentEvent, Told
  <1> QED
    BY <1>1, <1>2, <1>3 DEF Event, SentEvent, AnyEvent

(***************************************************************************)
(* The two counters of a failure may be set together.                      *)
(***************************************************************************)
LEMMA CountersSet ==
    ASSUME NEW m \in Counters, NEW a \in Nat, NEW b \in Nat
    PROVE  [m EXCEPT !.failed = a, !.cap_hits = b] \in Counters
  BY DEF Counters

(***************************************************************************)
(* Every variable keeps its type; what is pending is an event, though      *)
(* never an error.                                                         *)
(***************************************************************************)
LEMMA TypedStep ==
    ASSUME Typed, LastInBatch, Ordered, [Next]_vars
    PROVE  Typed'
  <1>a. /\ received \in Nat /\ yielded \in Nat
        /\ fold \in Nat \cup {NoFold} /\ batch_bytes \in Nat
    BY DEF Typed
  <1>b. /\ pc \in Places /\ outcome \in Outcomes
        /\ then \in {"run", "document sent", "decided"}
        /\ pc = "sending" => pending \in SentEvent
    BY DEF Typed
  <1>c. metrics \in Counters
    BY DEF Typed
  <1>d. /\ channel \in Seq(AnyEvent) /\ batch \in Seq(AnyEvent)
        /\ delivered \in Seq(AnyEvent)
    BY DEF Typed
  <1>1. CASE Quiet
    BY <1>1 DEF Typed, Quiet, request, sending, ending, guard
  <1>2. CASE StreamStep
    <2>0. UNCHANGED <<request, pc, received, yielded, fold, sending, ending>>
      BY <1>2, StreamLeavesTask
    <2>1. /\ channel' \in Seq(AnyEvent) /\ batch' \in Seq(AnyEvent)
          /\ delivered' \in Seq(AnyEvent) /\ batch_bytes' \in Nat
      <3>1. CASE Gather
        <4>1. /\ Head(channel) \in AnyEvent /\ Tail(channel) \in Seq(AnyEvent)
          BY <1>d, <3>1, HeadTailProperties DEF Gather, Take
        <4>2. Head(channel).size \in Nat
          BY <4>1, EventTypes
        <4>3. Append(batch, Head(channel)) \in Seq(AnyEvent)
          BY <1>d, <4>1, AppendProperties
        <4> QED
          BY <1>a, <1>d, <3>1, <4>1, <4>2, <4>3 DEF Gather, Take
      <3>2. CASE GatherClosed
        <4>1. ErrorEvent("no trailer") \in AnyEvent
          BY EventTypes DEF Codes
        <4> QED
          BY <1>a, <1>d, <3>2, <4>1, AppendProperties DEF GatherClosed
      <3>3. CASE HandOver
        <4>1. batch # <<>>
          BY <3>3 DEF HandOver, Hand, LastInBatch
        <4>2. Head(batch) \in AnyEvent /\ Tail(batch) \in Seq(AnyEvent)
          BY <1>d, <4>1, HeadTailProperties
        <4>3. Append(delivered, Head(batch)) \in Seq(AnyEvent)
          BY <1>d, <4>2, AppendProperties
        <4>4. batch_bytes' \in Nat
          <5>1. batch_bytes' = 0 \/ UNCHANGED batch_bytes
            BY <3>3 DEF HandOver, Hand
          <5> QED
            BY <1>a, <5>1
        <4> QED
          BY <1>d, <3>3, <4>2, <4>3, <4>4 DEF HandOver, Hand
      <3>4. CASE Release \/ EndStream \/ HangUp
        BY <1>a, <1>d, <3>4 DEF Release, EndStream, HangUp
      <3> QED
        BY <1>2, <3>1, <3>2, <3>3, <3>4 DEF StreamStep
    <2> QED
      BY <2>0, <2>1 DEF Typed, request, sending, ending
  <1>3. CASE TaskStep
    <2>0. UNCHANGED <<request, guard>>
      BY <1>3, TaskLeavesStream
    <2>1. channel' \in Seq(AnyEvent)
      <3>1. CASE SendDone
        <4>1. pending \in AnyEvent
          BY <1>b, <3>1, EventTypes DEF SendDone
        <4> QED
          BY <1>d, <3>1, <4>1, AppendProperties DEF SendDone
      <3>2. CASE ReportError
        <4>1. ErrorEvent(outcome) \in AnyEvent
          BY <1>b, EventTypes DEF Codes
        <4> QED
          BY <1>d, <3>2, <4>1, AppendProperties DEF ReportError
      <3> QED
        BY <1>d, <1>3, <3>1, <3>2, TaskLeavesStream
    <2>2. metrics' \in Counters
      <3>1. CASE Chunk
        <4>1. PICK n \in ChunkSizes :
                 metrics' = [metrics EXCEPT !.bytes = @ + n]
          BY <3>1 DEF Chunk, ReceiveChunk
        <4>2. n \in Nat
          BY <4>1, SessionAssumption
        <4> QED
          BY <1>c, <4>1, <4>2 DEF Counters
      <3>2. CASE Reject \/ StartParse \/ DrainRow
        BY <1>c, <3>2 DEF Reject, StartParse, DrainRow, Counters
      <3>3. CASE CountOutcome
        <4>0. /\ metrics.completed \in Nat /\ metrics.failed \in Nat
              /\ metrics.cap_hits \in Nat
          BY <1>c DEF Counters
        <4>1. CASE outcome = "ok"
          BY <1>c, <3>3, <4>0, <4>1 DEF CountOutcome, Counters
        <4>2. CASE outcome # "ok"
          <5>1. PICK d \in 0..1 :
                   metrics' = [metrics EXCEPT !.failed = metrics.failed + 1,
                                              !.cap_hits = metrics.cap_hits + d]
            <6>1. CASE outcome = "exhausted"
              BY <3>3, <6>1 DEF CountOutcome
            <6>2. CASE outcome # "exhausted"
              BY <3>3, <4>2, <6>2 DEF CountOutcome
            <6> QED
              BY <6>1, <6>2
          <5>2. metrics.failed + 1 \in Nat /\ metrics.cap_hits + d \in Nat
            BY <4>0, <5>1
          <5> QED
            BY <1>c, <5>1, <5>2, CountersSet
        <4> QED
          BY <4>1, <4>2
      <3>4. CASE UNCHANGED metrics
        BY <1>c, <3>4
      <3> QED
        BY <1>3, <3>1, <3>2, <3>3, <3>4
           DEF TaskStep, Admit, RefuseOptions, SendDone, GiveUp, Fail, Finish,
               FinishStatus, ReleaseSlot, ReportError, ReportLost, Panic,
               ending
    <2>3. received' \in Nat /\ yielded' \in Nat
      <3>1. CASE Chunk
        <4>1. PICK n \in ChunkSizes :
                 received' = received + n /\ yielded' = yielded
          BY <3>1 DEF Chunk, ReceiveChunk, W!Push
        <4> QED
          BY <1>a, <4>1, SessionAssumption
      <3>2. CASE DrainRow
        BY <1>a, <3>2 DEF DrainRow, W!Yield
      <3> QED
        BY <1>a, <1>3, <3>1, <3>2
           DEF TaskStep, Reject, Admit, RefuseOptions, StartParse,
               SendDone, GiveUp, Fail, Finish, FinishStatus, W!Stop, W!Status,
               ReleaseSlot, CountOutcome, ReportError, ReportLost, Panic, walk
    <2>4. /\ pc' \in Places
          /\ then' \in {"run", "document sent", "decided"}
          /\ outcome' \in Outcomes
      BY <1>b, <1>3
         DEF TaskStep, Reject, Admit, RefuseOptions, StartParse, SendDone,
             GiveUp, Refusals, Fail, Chunk, ReceiveChunk, DrainRow, Finish,
             FinishAfter, FinishStatus, ReleaseSlot, CountOutcome, ReportError,
             ReportLost, Panic, BeginSend, sending, ending, Places, Outcomes
    <2>5. fold' \in Nat \cup {NoFold}
      <3>1. \/ fold' \in {fold, 0, NoFold}
            \/ fold # NoFold /\ fold' = fold + 1
        BY <1>3
           DEF TaskStep, Reject, Admit, RefuseOptions, StartParse,
               SendDone, GiveUp, Fail, Chunk, ReceiveChunk, DrainRow, Finish,
               FinishStatus, ReleaseSlot, CountOutcome, ReportError,
               ReportLost, Panic, BeginSend, Consume
      <3> QED
        BY <1>a, <3>1
    <2>6. pc' = "sending" => pending' \in SentEvent
      <3>1. CASE StartParse
        BY <3>1, <1>a, EventTypes DEF StartParse
      <3>2. CASE DrainRow
        BY <3>2, <1>a, EventTypes DEF DrainRow, BeginSend
      <3>3. CASE Finish
        BY <3>3, <1>a, EventTypes DEF Finish, BeginSend, StatusEvent
      <3>4. CASE FinishStatus
        BY <3>4, <1>a, EventTypes DEF FinishStatus, BeginSend, StatusEvent
      <3> QED
        BY <1>b, <1>3, <3>1, <3>2, <3>3, <3>4
           DEF TaskStep, Reject, Admit, RefuseOptions, SendDone, GiveUp, Fail,
               Chunk, ReceiveChunk, ReleaseSlot, CountOutcome, ReportError,
               ReportLost, Panic, sending
    <2> QED
      BY <2>0, <2>1, <2>2, <2>3, <2>4, <2>5, <2>6
         DEF Typed, request, guard
  <1> QED
    BY <1>1, <1>2, <1>3, StepCases

(***************************************************************************)
(* Every event that is not the last has at least one byte.                 *)
(***************************************************************************)
LEMMA SizedEvents ==
    /\ \A e \in AnyEvent : e.size \in Nat
    /\ \A e \in AnyEvent : ~Last(e) => e.size >= 1
  <1>1. /\ \A e \in SentEvent : e.size \in Nat \ {0}
        /\ \A e \in Told : e.size \in Nat /\ e.kind = "error"
    BY DEF SentEvent, Told
  <1> QED
    BY <1>1 DEF AnyEvent, Last

(***************************************************************************)
(* A chunk past the cap is refused, an event waits for room in the         *)
(* channel, and a batch that gathers has fewer bytes than BatchBytes,      *)
(* hence fewer events.                                                     *)
(***************************************************************************)
LEMMA BoundedStep ==
    ASSUME Typed, Bounded, LastInBatch, [Next]_vars
    PROVE  Bounded'
  <1>a. /\ received \in Nat /\ batch_bytes \in Nat
        /\ channel \in Seq(AnyEvent) /\ batch \in Seq(AnyEvent)
    BY DEF Typed
  <1>b. BatchBytes \in Nat /\ BatchBytes > 0 /\ Capacity \in Nat
    BY SessionAssumption
  <1>c. Len(channel) \in Nat /\ Len(batch) \in Nat
    BY <1>a
  <1>1. CASE Quiet
    BY <1>1 DEF Quiet, Bounded, byte_cap, request, guard
  <1>2. CASE StreamStep
    <2>1. received' <= byte_cap'
      BY <1>2, StreamLeavesTask DEF Bounded, byte_cap, request
    <2>2. CASE Gather
      <3>1. /\ Head(channel) \in AnyEvent
            /\ Len(channel') = Len(channel) - 1
            /\ Len(batch') = Len(batch) + 1
        BY <1>a, <2>2, HeadTailProperties, AppendProperties DEF Gather, Take
      <3>2. /\ ~releasing /\ ~batch_final /\ batch_bytes < BatchBytes
            /\ batch_bytes' = batch_bytes + Head(channel).size
            /\ batch_final' = Last(Head(channel))
        BY <2>2 DEF Gather, Take, Gathering, EndsStream
      <3>3. Len(channel') <= Capacity
        BY <1>b, <1>c, <3>1 DEF Bounded
      <3>4. Len(batch') <= BatchBytes
        BY <1>a, <1>b, <1>c, <3>1, <3>2 DEF Bounded
      <3>5. batch_final' \/ Len(batch') <= batch_bytes'
        BY <1>a, <1>c, <3>1, <3>2, SizedEvents DEF Bounded
      <3> QED
        BY <2>1, <3>3, <3>4, <3>5 DEF Bounded
    <2>3. CASE GatherClosed
      <3>1. Len(batch') = Len(batch) + 1
        BY <1>a, <2>3, AppendProperties, EventTypes DEF GatherClosed, Codes
      <3>2. Len(batch) <= batch_bytes /\ batch_bytes < BatchBytes
        BY <2>3 DEF GatherClosed, Gathering, Bounded
      <3>3. Len(batch') <= BatchBytes
        BY <1>a, <1>b, <1>c, <3>1, <3>2
      <3>4. Len(channel') <= Capacity
        BY <2>3 DEF GatherClosed, Bounded
      <3>5. batch_final'
        BY <2>3 DEF GatherClosed
      <3> QED
        BY <2>1, <3>3, <3>4, <3>5 DEF Bounded
    <2>4. CASE HandOver
      <3>1. /\ batch # <<>> /\ batch' = Tail(batch)
            /\ UNCHANGED channel /\ releasing
        BY <2>4 DEF HandOver, Hand, LastInBatch
      <3>2. Len(batch') = Len(batch) - 1
        BY <1>a, <3>1, HeadTailProperties
      <3>3. Len(batch') <= BatchBytes
        BY <1>b, <1>c, <3>2 DEF Bounded
      <3>4. releasing' \/ Len(batch') <= batch_bytes'
        <4>1. CASE batch' = <<>>
          <5>1. batch_bytes' = 0 /\ Len(batch') = 0
            BY <2>4, <4>1 DEF HandOver, Hand
          <5> QED
            BY <5>1
        <4>2. CASE batch' # <<>>
          BY <2>4, <3>1, <4>2 DEF HandOver, Hand
        <4> QED
          BY <4>1, <4>2
      <3> QED
        BY <2>1, <3>1, <3>3, <3>4 DEF Bounded
    <2>5. CASE Release
      BY <2>1, <2>5 DEF Release, Bounded
    <2>6. CASE EndStream \/ HangUp
      BY <2>1, <2>6 DEF EndStream, HangUp, Bounded
    <2> QED
      BY <1>2, <2>2, <2>3, <2>4, <2>5, <2>6 DEF StreamStep
  <1>3. CASE TaskStep
    <2>1. UNCHANGED <<request, guard>>
      BY <1>3, TaskLeavesStream
    <2>2. received' <= byte_cap'
      <3>1. CASE Chunk
        <4>1. byte_cap \in Nat /\ byte_cap' = byte_cap
          BY <2>1, SessionAssumption DEF byte_cap, request, Typed
        <4>2. PICK n \in ChunkSizes :
                 ~(received + n > byte_cap) /\ received' = received + n
          BY <3>1 DEF Chunk, ReceiveChunk, OverCap, W!Push
        <4> QED
          BY <1>a, <4>1, <4>2, SessionAssumption
      <3>2. CASE UNCHANGED received
        BY <2>1, <3>2 DEF Bounded, byte_cap, request
      <3> QED
        BY <1>3, <3>1, <3>2
           DEF TaskStep, Reject, Admit, RefuseOptions, StartParse,
               SendDone, GiveUp, Fail, DrainRow, Finish, FinishStatus,
               W!Stop, W!Yield, W!Status, ReleaseSlot, CountOutcome,
               ReportError, ReportLost, Panic, walk
    <2>3. Len(channel') <= Capacity
      <3>1. CASE SendDone
        <4>1. pending \in AnyEvent
          BY <3>1, EventTypes DEF SendDone, Typed
        <4>2. Len(channel') = Len(channel) + 1
          BY <1>a, <3>1, <4>1, AppendProperties DEF SendDone
        <4> QED
          BY <1>b, <1>c, <3>1, <4>2 DEF SendDone, HasRoom
      <3>2. CASE ReportError
        <4>1. ErrorEvent(outcome) \in AnyEvent
          BY EventTypes DEF Typed, Codes
        <4>2. Len(channel') = Len(channel) + 1
          BY <1>a, <3>2, <4>1, AppendProperties DEF ReportError
        <4> QED
          BY <1>b, <1>c, <3>2, <4>2 DEF ReportError, HasRoom
      <3>3. CASE UNCHANGED channel
        BY <3>3 DEF Bounded
      <3> QED
        BY <1>3, <3>1, <3>2, <3>3, TaskLeavesStream
    <2> QED
      BY <2>1, <2>2, <2>3 DEF Bounded, guard
  <1> QED
    BY <1>1, <1>2, <1>3, StepCases

(***************************************************************************)
(* TrailerGuard takes nothing more once it has seen the last event, so     *)
(* that event closes its batch and then what is delivered.                 *)
(***************************************************************************)
LEMMA LastInBatchStep ==
    ASSUME Typed, Bounded, LastInBatch, [Next]_vars
    PROVE  LastInBatch'
  <1>a. /\ channel \in Seq(AnyEvent) /\ batch \in Seq(AnyEvent)
        /\ delivered \in Seq(AnyEvent)
    BY DEF Typed
  <1>c. Len(delivered) \in Nat /\ Len(batch) \in Nat
    BY <1>a
  <1>1. CASE Quiet
    BY <1>1 DEF Quiet, LastInBatch, guard
  <1>2. CASE TaskStep
    BY <1>2, TaskLeavesStream DEF LastInBatch, guard
  <1>3. CASE \E e \in AnyEvent : /\ batch' = Append(batch, e)
                                /\ batch_final' = Last(e)
                                /\ ~batch_final /\ ~finished /\ ~releasing
                                /\ UNCHANGED <<releasing, finished, delivered, closed>>
    <2>1. PICK e \in AnyEvent : /\ batch' = Append(batch, e)
                               /\ batch_final' = Last(e)
                               /\ ~batch_final /\ ~finished /\ ~releasing
                               /\ UNCHANGED <<releasing, finished, delivered, closed>>
      BY <1>3
    <2>2. /\ Len(batch') = Len(batch) + 1
          /\ \A i \in 1..Len(batch) : batch'[i] = batch[i]
          /\ batch'[Len(batch) + 1] = e
      BY <1>a, <2>1, AppendProperties
    <2>3. \A i \in 1..Len(batch') :
             Last(batch'[i]) => batch_final' /\ i = Len(batch')
      BY <1>c, <2>1, <2>2 DEF LastInBatch
    <2>4. batch' # <<>> /\ (batch_final' => Last(batch'[Len(batch')]))
      BY <1>a, <1>c, <2>1, <2>2
    <2> QED
      BY <2>1, <2>3, <2>4 DEF LastInBatch
  <1>4. CASE Gather
    <2>1. Head(channel) \in AnyEvent
      BY <1>a, <1>4, HeadTailProperties DEF Gather, Take
    <2> QED
      BY <1>3, <1>4, <2>1 DEF Gather, Take, Gathering, EndsStream
  <1>5. CASE GatherClosed
    <2>1. /\ ErrorEvent("no trailer") \in AnyEvent
          /\ Last(ErrorEvent("no trailer"))
      BY EventTypes DEF Codes, Last, ErrorEvent
    <2> QED
      BY <1>3, <1>5, <2>1 DEF GatherClosed, Gathering
  <1>6. CASE Release
    BY <1>6 DEF Release, LastInBatch
  <1>7. CASE HandOver
    <2>1. /\ releasing /\ ~finished /\ batch # <<>>
          /\ batch' = Tail(batch)
          /\ delivered' = Append(delivered, Head(batch))
          /\ UNCHANGED <<batch_final, closed>>
      BY <1>7 DEF HandOver, Hand, LastInBatch
    <2>2. /\ Head(batch) \in AnyEvent /\ Head(batch) = batch[1]
          /\ Len(batch') = Len(batch) - 1
          /\ \A i \in 1..Len(batch') : batch'[i] = batch[i + 1]
      BY <1>a, <2>1, HeadTailProperties
    <2>3. /\ Len(delivered') = Len(delivered) + 1
          /\ \A i \in 1..Len(delivered) : delivered'[i] = delivered[i]
          /\ delivered'[Len(delivered) + 1] = batch[1]
      BY <1>a, <2>1, <2>2, AppendProperties
    <2>4. \A i \in 1..Len(batch') :
             Last(batch'[i]) => batch_final' /\ i = Len(batch')
      <3> SUFFICES ASSUME NEW i \in 1..Len(batch'), Last(batch'[i])
                   PROVE  batch_final' /\ i = Len(batch')
        OBVIOUS
      <3>1. i + 1 \in 1..Len(batch) /\ Last(batch[i + 1])
        BY <1>c, <2>2
      <3>2. batch_final /\ i + 1 = Len(batch)
        BY <3>1 DEF LastInBatch
      <3>3. i = Len(batch')
        BY <1>c, <2>2, <3>2
      <3> QED
        BY <2>1, <3>2, <3>3
    <2>5. CASE batch' = <<>>
      <3>1. ~releasing' /\ finished' = batch_final
        BY <1>7, <2>5 DEF HandOver, Hand
      <3>2. Len(batch) = 1
        BY <1>a, <1>c, <2>2, <2>5
      <3>3. batch_final => Last(batch[1])
        BY <2>1, <3>2 DEF LastInBatch
      <3>4. \A i \in 1..Len(delivered') : Last(delivered'[i]) => finished'
        BY <1>c, <2>1, <2>3, <3>1, <3>2 DEF LastInBatch
      <3>5. finished' => /\ delivered' # <<>>
                         /\ Last(delivered'[Len(delivered')])
        BY <1>c, <2>1, <2>3, <3>1, <3>3
      <3> QED
        BY <2>1, <2>4, <3>1, <3>4, <3>5 DEF LastInBatch
    <2>6. CASE batch' # <<>>
      <3>1. UNCHANGED <<releasing, finished>>
        BY <1>7, <2>6 DEF HandOver, Hand
      <3>2. Len(batch) > 1 /\ batch'[Len(batch')] = batch[Len(batch)]
        BY <1>a, <1>c, <2>1, <2>2, <2>6
      <3>3. ~Last(batch[1])
        BY <1>c, <3>2 DEF LastInBatch
      <3>4. \A i \in 1..Len(delivered') : Last(delivered'[i]) => finished'
        BY <1>c, <2>1, <2>3, <3>1, <3>3 DEF LastInBatch
      <3>5. batch_final' => Last(batch'[Len(batch')])
        BY <2>1, <2>6, <3>1, <3>2 DEF LastInBatch
      <3> QED
        BY <2>1, <2>4, <2>6, <3>1, <3>4, <3>5 DEF LastInBatch
    <2> QED
      BY <2>5, <2>6
  <1>8. CASE EndStream
    BY <1>8 DEF EndStream, LastInBatch
  <1>9. CASE HangUp
    BY <1>9 DEF HangUp, LastInBatch
  <1> QED
    BY <1>1, <1>2, <1>4, <1>5, <1>6, <1>7, <1>8, <1>9, StepCases DEF StreamStep

(***************************************************************************)
(* The document has a row for every row sent or about to be.               *)
(***************************************************************************)
LEMMA FoldedStep ==
    ASSUME Typed, Ordered, Folded, [Next]_vars
    PROVE  Folded'
  <1>1. CASE Quiet
    BY <1>1 DEF Quiet, Folded, request, sending
  <1>2. CASE StreamStep
    BY <1>2, StreamLeavesTask DEF Folded, request, sending
  <1>3. CASE TaskStep
    <2>0. UNCHANGED emit_document
      BY <1>3, TaskLeavesStream DEF request
    <2>1. CASE StartParse
      <3>1. yielded' = 0 /\ fold' = IF emit_document THEN 0 ELSE NoFold
        BY <2>1 DEF StartParse, Ordered, walk
      <3> QED
        BY <2>0, <3>1 DEF Folded
    <2>2. CASE SendDone
      BY <2>0, <2>2 DEF SendDone, Folded, walk
    <2>3. CASE DrainRow
      <3>1. /\ yielded' = yielded + 1 /\ pc = "run"
            /\ fold' = IF fold # NoFold THEN fold + 1 ELSE fold
        BY <2>3 DEF DrainRow, BeginSend, Consume, Event, W!Yield
      <3>2. fold = IF emit_document THEN yielded ELSE NoFold
        BY <3>1 DEF Folded
      <3>3. CASE emit_document
        <4>1. fold = yielded /\ yielded \in Nat
          BY <3>2, <3>3 DEF Typed
        <4>2. fold' = yielded'
          BY <3>1, <4>1 DEF NoFold
        <4> QED
          BY <2>0, <3>3, <4>2 DEF Folded
      <3>4. CASE ~emit_document
        BY <2>0, <3>1, <3>2, <3>4 DEF Folded
      <3> QED
        BY <3>3, <3>4
    <2>4. CASE Chunk
      <3>1. pc' = pc /\ UNCHANGED <<then, fold, yielded>>
        BY <2>4 DEF Chunk, ReceiveChunk, W!Push, sending
      <3> QED
        BY <2>0, <3>1 DEF Folded
    <2>5. CASE Finish
      BY <2>5 DEF Finish, BeginSend, FinishAfter, Folded
    <2>6. CASE FinishStatus
      BY <2>6 DEF FinishStatus, BeginSend, Folded
    <2>7. CASE \/ Reject \/ Admit \/ RefuseOptions \/ GiveUp \/ ReleaseSlot
               \/ CountOutcome \/ ReportError \/ ReportLost \/ Panic
      BY <2>7 DEF Reject, Admit, RefuseOptions, GiveUp, Fail, ReleaseSlot,
                  CountOutcome, ReportError, ReportLost, Panic, Folded
    <2> QED
      BY <1>3, <2>1, <2>2, <2>3, <2>4, <2>5, <2>6, <2>7 DEF TaskStep
  <1> QED
    BY <1>1, <1>2, <1>3, StepCases

(***************************************************************************)
(* The counters follow the task from place to place.                       *)
(***************************************************************************)
LEMMA CountedStep ==
    ASSUME Typed, Ordered, Counted, [Next]_vars
    PROVE  Counted'
  <1> USE DEF Working, Started
  <1>a. /\ metrics \in Counters /\ received \in Nat /\ yielded \in Nat
        /\ pc \in Places
    BY DEF Typed
  <1>b. /\ metrics.started \in Nat /\ metrics.completed \in Nat
        /\ metrics.failed \in Nat /\ metrics.rejected \in Nat
        /\ metrics.records \in Nat /\ metrics.bytes \in Nat
        /\ metrics.cap_hits \in Nat
    BY <1>a DEF Counters
  <1>1. CASE Quiet
    BY <1>1 DEF Quiet, Counted, ending
  <1>2. CASE StreamStep
    BY <1>2, StreamLeavesTask DEF Counted, ending
  <1>3. CASE Reject
    BY <1>a, <1>b, <1>3 DEF Reject, Counted, Counters, walk
  <1>4. CASE Admit
    BY <1>4 DEF Admit, Counted, walk
  <1>5. CASE RefuseOptions
    BY <1>5 DEF RefuseOptions, Counted, walk
  <1>6. CASE StartParse
    BY <1>a, <1>b, <1>6 DEF StartParse, Counted, Counters, walk
  <1>7. CASE SendDone
    <2>1. /\ pc = "sending" /\ pc' \in {"run", "document sent", "decided"}
          /\ outcome' \in {outcome, "ok"}
          /\ UNCHANGED <<metrics, received, yielded>>
      BY <1>7 DEF SendDone, Typed, walk
    <2>2. outcome = "none"
      BY <2>1 DEF Ordered, Undecided
    <2> QED
      BY <2>1, <2>2 DEF Counted
  <1>8. CASE GiveUp
    BY <1>8 DEF GiveUp, Fail, Refusals, W!Stop, Counted
  <1>9. CASE Chunk
    <2>1. PICK n \in ChunkSizes : ReceiveChunk(n)
      BY <1>9 DEF Chunk
    <2>2. n \in Nat
      BY SessionAssumption
    <2>3. /\ metrics' = [metrics EXCEPT !.bytes = @ + n]
          /\ received' = received + n
          /\ UNCHANGED <<pc, outcome, yielded>>
      BY <2>1 DEF ReceiveChunk, W!Push
    <2> QED
      BY <1>a, <1>b, <2>2, <2>3 DEF Counted, Counters
  <1>10. CASE DrainRow
    <2>1. /\ metrics' = [metrics EXCEPT !.records = @ + 1]
          /\ yielded' = yielded + 1
          /\ pc = "run" /\ pc' = "sending"
          /\ UNCHANGED <<outcome, received>>
      BY <1>10 DEF DrainRow, BeginSend, W!Yield
    <2> QED
      BY <1>a, <1>b, <2>1 DEF Counted, Counters
  <1>11. CASE Finish \/ FinishStatus
    <2>1. /\ UNCHANGED <<metrics, outcome, received, yielded>>
          /\ pc \in {"run", "document sent"} /\ pc' = "sending"
      BY <1>11 DEF Finish, FinishStatus, BeginSend, W!Status, ending, walk
    <2> QED
      BY <2>1 DEF Counted
  <1>12. CASE ReleaseSlot
    BY <1>12 DEF ReleaseSlot, Counted, walk
  <1>13. CASE CountOutcome
    <2>1. /\ pc = "counting" /\ outcome' = outcome
          /\ UNCHANGED <<received, yielded>>
      BY <1>13 DEF CountOutcome, walk
    <2>2. CASE outcome = "ok"
      <3>1. pc' = "ended" /\ metrics' = [metrics EXCEPT !.completed = @ + 1]
        BY <1>13, <2>2 DEF CountOutcome
      <3> QED
        BY <1>a, <1>b, <2>1, <2>2, <3>1 DEF Counted, Counters
    <2>3. CASE outcome # "ok"
      <3>1. pc' = "reporting"
        BY <1>13, <2>3 DEF CountOutcome
      <3>2. PICK d \in 0..1 :
               metrics' = [metrics EXCEPT !.failed = metrics.failed + 1,
                                          !.cap_hits = metrics.cap_hits + d]
        <4>1. CASE outcome = "exhausted"
          BY <1>13, <4>1 DEF CountOutcome
        <4>2. CASE outcome # "exhausted"
          BY <1>13, <2>3, <4>2 DEF CountOutcome
        <4> QED
          BY <4>1, <4>2
      <3>3. /\ metrics'.started = metrics.started
            /\ metrics'.rejected = metrics.rejected
            /\ metrics'.completed = metrics.completed
            /\ metrics'.failed = metrics.failed + 1
            /\ metrics'.cap_hits = metrics.cap_hits + d
            /\ metrics'.bytes = metrics.bytes
            /\ metrics'.records = metrics.records
        BY <1>a, <3>2 DEF Counters
      <3> QED
        BY <1>b, <2>1, <2>3, <3>1, <3>3 DEF Counted
    <2> QED
      BY <2>2, <2>3
  <1>14. CASE ReportError \/ ReportLost
    <2>1. /\ UNCHANGED <<metrics, outcome, received, yielded>>
          /\ pc = "reporting" /\ pc' = "ended"
      BY <1>14 DEF ReportError, ReportLost, ending, walk
    <2>2. outcome # "ok"
      BY <2>1 DEF Ordered, Failed
    <2> QED
      BY <2>1, <2>2 DEF Counted
  <1>15. CASE Panic
    <2>1. /\ UNCHANGED <<metrics, received, yielded>>
          /\ pc = "run" /\ pc' = "ended" /\ outcome' = "panicked"
      BY <1>15 DEF Panic, W!Stop
    <2> QED
      BY <2>1 DEF Counted
  <1> QED
    BY <1>1, <1>2, <1>3, <1>4, <1>5, <1>6, <1>7, <1>8, <1>9, <1>10, <1>11,
       <1>12, <1>13, <1>14, <1>15, StepCases DEF TaskStep

(***************************************************************************)
(* What a step appends to the events that are out of the task's hands.     *)
(***************************************************************************)
LEMMA OutSteps ==
    ASSUME Typed, LastInBatch, [Next]_vars
    PROVE  /\ Out \in Seq(AnyEvent)
           /\ SendDone => Out' = Append(Out, pending)
           /\ ReportError => Out' = Append(Out, ErrorEvent(outcome))
           /\ GatherClosed => Out' = Append(Out, ErrorEvent("no trailer"))
           /\ \/ SendDone \/ ReportError \/ GatherClosed
              \/ Out' = Out
  <1>a. /\ channel \in Seq(AnyEvent) /\ batch \in Seq(AnyEvent)
        /\ delivered \in Seq(AnyEvent)
    BY DEF Typed
  <1>1. Out \in Seq(AnyEvent)
    BY <1>a, ThreeParts DEF Out
  <1>2. SendDone => Out' = Append(Out, pending)
    <2> SUFFICES ASSUME SendDone PROVE Out' = Append(Out, pending)
      OBVIOUS
    <2>1. pending \in AnyEvent
      BY EventTypes DEF SendDone, Typed
    <2>2. /\ channel' = Append(channel, pending)
          /\ UNCHANGED <<batch, delivered>>
      BY DEF SendDone, guard
    <2>3. Joined(delivered, batch, Append(channel, pending)) = Append(Out, pending)
      BY <1>a, <2>1, SendAppends DEF Out
    <2> QED
      BY <2>2, <2>3 DEF Out
  <1>3. ReportError => Out' = Append(Out, ErrorEvent(outcome))
    <2> SUFFICES ASSUME ReportError
                 PROVE  Out' = Append(Out, ErrorEvent(outcome))
      OBVIOUS
    <2>1. ErrorEvent(outcome) \in AnyEvent
      BY EventTypes DEF Typed, Codes
    <2>2. /\ channel' = Append(channel, ErrorEvent(outcome))
          /\ UNCHANGED <<batch, delivered>>
      BY DEF ReportError, guard
    <2>3. Joined(delivered, batch, Append(channel, ErrorEvent(outcome)))
             = Append(Out, ErrorEvent(outcome))
      BY <1>a, <2>1, SendAppends DEF Out
    <2> QED
      BY <2>2, <2>3 DEF Out
  <1>4. GatherClosed => Out' = Append(Out, ErrorEvent("no trailer"))
    <2> SUFFICES ASSUME GatherClosed
                 PROVE  Out' = Append(Out, ErrorEvent("no trailer"))
      OBVIOUS
    <2>1. ErrorEvent("no trailer") \in AnyEvent
      BY EventTypes DEF Codes
    <2>2. /\ channel = <<>> /\ batch' = Append(batch, ErrorEvent("no trailer"))
          /\ UNCHANGED <<channel, delivered>>
      BY DEF GatherClosed
    <2>3. Joined(delivered, Append(batch, ErrorEvent("no trailer")), <<>>)
             = Append(Joined(delivered, batch, <<>>), ErrorEvent("no trailer"))
      BY <1>a, <2>1, CloseAppends
    <2> QED
      BY <2>2, <2>3 DEF Out
  <1>5. CASE Gather
    <2>1. /\ channel # <<>> /\ batch' = Append(batch, Head(channel))
          /\ channel' = Tail(channel) /\ UNCHANGED delivered
      BY <1>5 DEF Gather, Take
    <2>2. Joined(delivered, Append(batch, Head(channel)), Tail(channel)) = Out
      BY <1>a, <2>1, TakeKeeps DEF Out
    <2>3. Out' = Out
      BY <2>1, <2>2 DEF Out
    <2> QED
      BY <1>1, <1>2, <1>3, <1>4, <2>3
  <1>6. CASE HandOver
    <2>1. /\ batch # <<>> /\ delivered' = Append(delivered, Head(batch))
          /\ batch' = Tail(batch) /\ UNCHANGED channel
      BY <1>6 DEF HandOver, Hand, LastInBatch
    <2>2. Joined(Append(delivered, Head(batch)), Tail(batch), channel) = Out
      BY <1>a, <2>1, HandKeeps DEF Out
    <2>3. Out' = Out
      BY <2>1, <2>2 DEF Out
    <2> QED
      BY <1>1, <1>2, <1>3, <1>4, <2>3
  <1>7. CASE UNCHANGED <<delivered, batch, channel>>
    BY <1>1, <1>2, <1>3, <1>4, <1>7 DEF Out
  <1>8. \/ SendDone \/ ReportError \/ GatherClosed \/ Gather \/ HandOver
        \/ UNCHANGED <<delivered, batch, channel>>
    BY StepCases, TaskLeavesStream
       DEF Quiet, StreamStep, Release, EndStream, HangUp, guard
  <1> QED
    BY <1>1, <1>2, <1>3, <1>4, <1>5, <1>6, <1>7, <1>8

(***************************************************************************)
(* A shape says the same of the sequence after a step as of a sequence     *)
(* that equals it.                                                         *)
(***************************************************************************)
LEMMA ShapesPrimed ==
    ASSUME UNCHANGED emit_document
    PROVE  /\ Opened(Out, yielded)' <=> Opened(Out', yielded')
           /\ Opened(Out, yielded - 1)' <=> Opened(Out', yielded' - 1)
           /\ Documented(Out, yielded)' <=> Documented(Out', yielded')
           /\ Completed(Out, yielded)' <=> Completed(Out', yielded')
           /\ IsTrailer(pending, yielded)' <=> IsTrailer(pending', yielded')
           /\ \A k \in Nat : Opened(Out, k)' <=> Opened(Out', k)
           /\ \A k \in Nat : Documented(Out, k)' <=> Documented(Out', k)
           /\ outcome' = outcome =>
                 \A k \in Nat : Broken(Out, k)' <=> Broken(Out', k)
  <1>1. /\ Opened(Out, yielded)' <=> Opened(Out', yielded')
        /\ Opened(Out, yielded - 1)' <=> Opened(Out', yielded' - 1)
        /\ \A k \in Nat : Opened(Out, k)' <=> Opened(Out', k)
    BY DEF Opened, Rows
  <1>2. /\ Documented(Out, yielded)' <=> Documented(Out', yielded')
        /\ \A k \in Nat : Documented(Out, k)' <=> Documented(Out', k)
    BY DEF Documented, Rows, WithDocument
  <1>3. Completed(Out, yielded)' <=> Completed(Out', yielded')
    BY DEF Completed, Rows, WithDocument, IsTrailer
  <1>4. IsTrailer(pending, yielded)' <=> IsTrailer(pending', yielded')
    BY DEF IsTrailer
  <1>5. ASSUME outcome' = outcome, NEW k \in Nat
        PROVE  Broken(Out, k)' <=> Broken(Out', k)
    BY <1>5 DEF Broken, Rows, WithDocument, IsFailure
  <1> QED
    BY <1>1, <1>2, <1>3, <1>4, <1>5

(***************************************************************************)
(* A failed call whose sent events stay as they are remains one.           *)
(***************************************************************************)
LEMMA FailedKept ==
    ASSUME Failed, UNCHANGED <<emit_document, outcome, yielded, Out>>,
           closed' = "open" => closed = "open"
    PROVE  Failed'
  <1>0. outcome \notin {"none", "ok"} /\ outcome' \notin {"none", "ok"}
    BY DEF Failed
  <1>1. CASE Out = <<>> /\ yielded = 0 /\ closed # "open"
    BY <1>0, <1>1 DEF Failed
  <1>2. CASE \E k \in Nat : /\ yielded \in {k, k + 1}
                           /\ (Opened(Out, k) \/ Documented(Out, k))
    <2>1. PICK k \in Nat : /\ yielded \in {k, k + 1}
                          /\ (Opened(Out, k) \/ Documented(Out, k))
      BY <1>2
    <2>2. (yielded \in {k, k + 1})' /\ (Opened(Out, k) \/ Documented(Out, k))'
      BY <2>1, ShapesPrimed
    <2> QED
      BY <1>0, <2>2 DEF Failed
  <1> QED
    BY <1>1, <1>2 DEF Failed

(***************************************************************************)
(* A step that keeps the sequence of sent events and the place of the task *)
(* keeps Ordered: the response stream only moves events along.             *)
(***************************************************************************)
LEMMA OrderedKept ==
    ASSUME Ordered, closed' = "open" => closed = "open",
           UNCHANGED <<emit_document, pc, pending, then, outcome, yielded, Out>>
    PROVE  Ordered'
  <1>1. Failed => Failed'
    BY FailedKept
  <1>2. Succeeded => Succeeded'
    BY ShapesPrimed DEF Succeeded
  <1>3. Reported => Reported'
    BY ShapesPrimed DEF Reported
  <1>4. /\ SendingRow => SendingRow'
        /\ SendingDocument => SendingDocument'
        /\ SendingTrailer => SendingTrailer'
    BY ShapesPrimed DEF SendingRow, SendingDocument, SendingTrailer
  <1> QED
    BY <1>1, <1>2, <1>3, <1>4, ShapesPrimed DEF Ordered

(***************************************************************************)
(* A call fails where the stream is open, or has its document.             *)
(***************************************************************************)
LEMMA FailedNow ==
    ASSUME UNCHANGED emit_document, outcome' \notin {"none", "ok"},
           NEW k \in Nat, yielded' \in {k, k + 1},
           Opened(Out', k) \/ Documented(Out', k)
    PROVE  Failed'
  <1>1. (yielded \in {k, k + 1})' /\ (Opened(Out, k) \/ Documented(Out, k))'
    BY ShapesPrimed
  <1> QED
    BY <1>1 DEF Failed

(***************************************************************************)
(* The events out of the task's hands, by where they are.                  *)
(***************************************************************************)
LEMMA OutParts ==
    ASSUME Typed
    PROVE  /\ Len(Out) = Len(delivered) + Len(batch) + Len(channel)
           /\ \A i \in 1..Len(delivered) : Out[i] = delivered[i]
           /\ \A i \in 1..Len(batch) : Out[Len(delivered) + i] = batch[i]
  <1>1. /\ channel \in Seq(AnyEvent) /\ batch \in Seq(AnyEvent)
        /\ delivered \in Seq(AnyEvent)
    BY DEF Typed
  <1>2. Len(Out) = Len(delivered) + Len(batch) + Len(channel)
    BY <1>1, ThreeParts DEF Out
  <1>3. \A i \in 1..Len(delivered) : Out[i] = delivered[i]
    BY <1>1, ThreeParts DEF Out
  <1>4. \A i \in 1..Len(batch) : Out[Len(delivered) + i] = batch[i]
    BY <1>1, ThreeParts DEF Out
  <1> QED
    BY <1>2, <1>3, <1>4

(***************************************************************************)
(* Nothing that is out is a last word while the response stream may still  *)
(* miss one.                                                               *)
(***************************************************************************)
LEMMA NoLastWord ==
    ASSUME Typed, LastInBatch, ~finished, ~batch_final, channel = <<>>,
           NEW i \in 1..Len(Out)
    PROVE  ~Last(Out[i])
  <1>a. /\ channel \in Seq(AnyEvent) /\ batch \in Seq(AnyEvent)
        /\ delivered \in Seq(AnyEvent)
    BY DEF Typed
  <1>b. Len(delivered) \in Nat /\ Len(batch) \in Nat /\ Len(channel) = 0
    BY <1>a
  <1>1. /\ Len(Out) = Len(delivered) + Len(batch) + Len(channel)
        /\ \A j \in 1..Len(delivered) : Out[j] = delivered[j]
        /\ \A j \in 1..Len(batch) : Out[Len(delivered) + j] = batch[j]
    BY OutParts
  <1>2. CASE i \in 1..Len(delivered)
    BY <1>1, <1>2 DEF LastInBatch
  <1>3. CASE i \notin 1..Len(delivered)
    <2>1. /\ i - Len(delivered) \in 1..Len(batch)
          /\ i = Len(delivered) + (i - Len(delivered))
      BY <1>a, <1>b, <1>1, <1>3
    <2>2. Out[i] = batch[i - Len(delivered)]
      BY <1>1, <2>1
    <2> QED
      BY <2>1, <2>2 DEF LastInBatch
  <1> QED
    BY <1>2, <1>3

(***************************************************************************)
(* A completed or a broken stream ends with a last word.                   *)
(***************************************************************************)
LEMMA LastWords ==
    ASSUME NEW s, NEW k \in Nat, Len(s) \in Nat,
           Completed(s, k) \/ Broken(s, k)
    PROVE  Len(s) \in 1..Len(s) /\ Last(s[Len(s)])
  <1>1. CASE Completed(s, k)
    BY <1>1 DEF Completed, IsTrailer, Last
  <1>2. CASE Broken(s, k)
    <2>1. CASE Len(s) = k + 2 /\ IsFailure(s[k + 2])
      <3>1. s[k + 2].kind = "error"
        BY <2>1 DEF IsFailure
      <3> QED
        BY <2>1, <3>1 DEF Last
    <2>2. CASE Len(s) = k + 3 /\ IsFailure(s[k + 3])
      <3>1. s[k + 3].kind = "error"
        BY <2>2 DEF IsFailure
      <3> QED
        BY <2>2, <3>1 DEF Last
    <2> QED
      BY <1>2, <2>1, <2>2 DEF Broken
  <1> QED
    BY <1>1, <1>2

(***************************************************************************)
(* The task sends each event where the shape of what it sent so far allows *)
(* it, and nothing after its last word.                                    *)
(***************************************************************************)
LEMMA OrderedStep ==
    ASSUME Typed, Bounded, LastInBatch, Ordered, Folded, [Next]_vars
    PROVE  Ordered'
  <1> USE DEF Working, Undecided
  <1>a. /\ yielded \in Nat /\ Out \in Seq(AnyEvent) /\ Out' \in Seq(AnyEvent)
        /\ pc \in Places
    BY OutSteps, TypedStep, ThreeParts DEF Typed, Out
  <1>b. TaskStep => UNCHANGED <<emit_document, closed>>
    BY TaskLeavesStream DEF request, guard
  <1>1. CASE Quiet
    <2>1. Out' = Out
      BY <1>1 DEF Quiet, guard, Out
    <2> QED
      BY <1>1, <2>1, OrderedKept DEF Quiet, request, sending, ending, guard
  <1>2. CASE StreamStep
    <2>1. /\ UNCHANGED <<emit_document, pc, pending, then, outcome, yielded>>
          /\ closed' = "open" => closed = "open"
      BY <1>2, StreamLeavesTask
         DEF request, sending, ending, StreamStep, Gather, Take, GatherClosed,
             Release, HandOver, Hand, EndStream, HangUp
    <2>2. CASE Out' = Out
      BY <2>1, <2>2, OrderedKept
    <2>3. CASE GatherClosed
      <3>1. /\ pc = "ended" /\ closed = "open" /\ channel = <<>>
            /\ ~finished /\ ~batch_final
        BY <2>3 DEF GatherClosed, Gathering, ReceiverOpen
      <3>2. \A i \in 1..Len(Out) : ~Last(Out[i])
        BY <3>1, NoLastWord
      <3>3. ~Succeeded /\ ~Reported
        BY <1>a, <3>2, LastWords DEF Succeeded, Reported
      <3>4. Failed
        BY <3>1, <3>3 DEF Ordered
      <3>5. PICK k \in Nat : /\ yielded \in {k, k + 1}
                            /\ (Opened(Out, k) \/ Documented(Out, k))
        BY <3>1, <3>4 DEF Failed
      <3>6. /\ ErrorEvent("no trailer") \in AnyEvent
            /\ IsFailure(ErrorEvent("no trailer"))
        BY EventTypes DEF Codes, IsFailure, ErrorEvent
      <3>7. Broken(Append(Out, ErrorEvent("no trailer")), k)
        BY <1>a, <3>5, <3>6, AppendError
      <3>8. Broken(Out', k)
        BY <2>3, <3>7, OutSteps
      <3>9. Broken(Out, k)'
        BY <2>1, <3>8, ShapesPrimed
      <3>10. (yielded \in {k, k + 1})' /\ outcome' \notin {"none", "ok"}
        BY <2>1, <3>4, <3>5 DEF Failed
      <3>11. Reported'
        BY <3>9, <3>10 DEF Reported
      <3> QED
        BY <2>1, <3>1, <3>11 DEF Ordered
    <2>4. ~SendDone /\ ~ReportError
      BY <2>1 DEF SendDone, ReportError, Typed
    <2> QED
      BY <2>2, <2>3, <2>4, OutSteps
  <1>3. CASE Reject \/ Admit \/ RefuseOptions
    <2>1. /\ pc \in {"arriving", "opening"} /\ pc' \in {"opening", "refused"}
          /\ pc' = "opening" => outcome' = outcome
          /\ UNCHANGED <<yielded, delivered, batch, channel>>
      BY <1>3 DEF Reject, Admit, RefuseOptions, walk, guard
    <2>2. yielded' = 0 /\ Out' = <<>> /\ outcome = "none"
      BY <2>1 DEF Ordered, Out
    <2> QED
      BY <2>1, <2>2 DEF Ordered
  <1>4. CASE StartParse
    <2>1. /\ pc = "opening" /\ pc' = "sending" /\ then' = "run"
          /\ pending'.kind = "layout_info"
          /\ UNCHANGED <<yielded, outcome, delivered, batch, channel>>
      BY <1>4 DEF StartParse, Event, walk, guard
    <2>2. yielded' = 0 /\ Out' = <<>> /\ outcome = "none"
      BY <2>1 DEF Ordered, Out
    <2>3. SendingRow'
      BY <2>1, <2>2 DEF SendingRow
    <2> QED
      BY <2>1, <2>2, <2>3 DEF Ordered
  <1>5. CASE SendDone
    <2>0. /\ pc = "sending" /\ pc' = then /\ UNCHANGED <<emit_document, yielded>>
          /\ outcome' = IF then = "decided" THEN "ok" ELSE outcome
          /\ pending \in AnyEvent
      BY <1>5, EventTypes DEF SendDone, Typed, request, walk
    <2>1. Out' = Append(Out, pending) /\ outcome = "none"
      BY <1>5, <2>0, OutSteps DEF Ordered
    <2>2. CASE SendingRow
      <3>1. Opened(Out', yielded)
        <4>1. CASE yielded = 0 /\ Out = <<>> /\ pending.kind = "layout_info"
          BY <2>0, <2>1, <4>1, AppendLayout
        <4>2. CASE /\ yielded > 0 /\ Opened(Out, yielded - 1)
                   /\ pending.kind = "record" /\ pending.n = yielded - 1
          <5>1. yielded - 1 \in Nat /\ (yielded - 1) + 1 = yielded
            BY <1>a, <4>2
          <5>2. Opened(Append(Out, pending), (yielded - 1) + 1)
            BY <1>a, <2>0, <4>2, <5>1, AppendRecord
          <5> QED
            BY <2>1, <5>1, <5>2
        <4> QED
          BY <2>2, <4>1, <4>2 DEF SendingRow
      <3>2. Opened(Out, yielded)'
        BY <2>0, <3>1, ShapesPrimed
      <3> QED
        BY <2>0, <2>1, <2>2, <3>2 DEF Ordered, SendingRow
    <2>3. CASE SendingDocument
      <3>1. Documented(Out', yielded)
        BY <1>a, <2>0, <2>1, <2>3, AppendDocument DEF SendingDocument
      <3>2. Documented(Out, yielded)'
        BY <2>0, <3>1, ShapesPrimed
      <3> QED
        BY <2>0, <2>1, <2>3, <3>2 DEF Ordered, SendingDocument
    <2>4. CASE SendingTrailer
      <3>1. Completed(Out', yielded)
        BY <1>a, <2>0, <2>1, <2>4, AppendStatus DEF SendingTrailer
      <3>2. Completed(Out, yielded)'
        BY <2>0, <3>1, ShapesPrimed
      <3> QED
        BY <2>0, <2>4, <3>2 DEF Ordered, SendingTrailer, Succeeded
    <2> QED
      BY <2>0, <2>2, <2>3, <2>4 DEF Ordered
  <1>6. CASE GiveUp
    <2>1. /\ pc' = "decided" /\ outcome' \notin {"none", "ok"}
          /\ UNCHANGED <<emit_document, closed, yielded, Out>>
      BY <1>6 DEF GiveUp, Fail, Refusals, W!Stop, request, guard, Out
    <2>2. ASSUME Opened(Out, yielded) \/ Documented(Out, yielded)
          PROVE  Failed'
      <3>1. yielded' \in {yielded, yielded + 1}
        BY <2>1
      <3>2. Opened(Out', yielded) \/ Documented(Out', yielded)
        BY <2>1, <2>2
      <3> QED
        BY <1>a, <2>1, <3>1, <3>2, FailedNow
    <2>3. ASSUME yielded > 0 /\ Opened(Out, yielded - 1)
          PROVE  Failed'
      <3>1. yielded - 1 \in Nat /\ yielded' \in {yielded - 1, (yielded - 1) + 1}
        BY <1>a, <2>1, <2>3
      <3>2. Opened(Out', yielded - 1)
        BY <2>1, <2>3
      <3> QED
        BY <2>1, <3>1, <3>2, FailedNow
    <2>4. ASSUME pc = "sending" /\ Out = <<>> /\ yielded = 0
          PROVE  Failed'
      <3>1. Len(channel) = 0
        <4>1. Len(Out) = Len(delivered) + Len(batch) + Len(channel)
          BY OutParts
        <4>2. /\ delivered \in Seq(AnyEvent) /\ batch \in Seq(AnyEvent)
              /\ channel \in Seq(AnyEvent)
          BY DEF Typed
        <4>3. /\ Len(delivered) \in Nat /\ Len(batch) \in Nat
              /\ Len(channel) \in Nat
          BY <4>2
        <4>4. Len(Out) = 0
          BY <2>4
        <4> QED
          BY <4>1, <4>3, <4>4
      <3>2. closed # "open"
        BY <1>6, <2>4, <3>1, SessionAssumption
           DEF GiveUp, HasRoom, ReceiverOpen, Started
      <3>3. Out' = <<>> /\ yielded' = 0 /\ closed' # "open"
        BY <2>1, <2>4, <3>2
      <3> QED
        BY <2>1, <3>3 DEF Failed
    <2>5. Failed'
      <3>1. CASE pc = "run"
        BY <2>2, <3>1 DEF Ordered
      <3>2. CASE pc = "sending"
        BY <2>2, <2>3, <2>4, <3>2
           DEF Ordered, SendingRow, SendingDocument, SendingTrailer
      <3> QED
        BY <1>6, <3>1, <3>2 DEF GiveUp
    <2> QED
      BY <2>1, <2>5 DEF Ordered
  <1>7. CASE Chunk
    <2>1. /\ Out' = Out
          /\ UNCHANGED <<emit_document, closed, pc, pending, then, outcome, yielded>>
      BY <1>7 DEF Chunk, ReceiveChunk, W!Push, request, sending, guard, Out
    <2> QED
      BY <2>1, OrderedKept
  <1>8. CASE DrainRow
    <2>1. /\ pc = "run" /\ pc' = "sending" /\ then' = "run"
          /\ pending'.kind = "record" /\ pending'.n = yielded
          /\ yielded' = yielded + 1
          /\ UNCHANGED <<emit_document, outcome, Out>>
      BY <1>8 DEF DrainRow, BeginSend, Event, W!Yield, request, guard, Out
    <2>2. yielded' > 0 /\ yielded' - 1 = yielded
      BY <1>a, <2>1
    <2>3. Opened(Out, yielded - 1)'
      BY <2>1, <2>2, ShapesPrimed DEF Ordered
    <2>4. SendingRow'
      BY <2>1, <2>2, <2>3 DEF SendingRow
    <2> QED
      BY <2>1, <2>4 DEF Ordered
  <1>9. CASE Finish
    <2>1. /\ pc = "run" /\ pc' = "sending"
          /\ UNCHANGED <<emit_document, outcome, yielded, Out>>
          /\ \/ /\ fold = NoFold /\ then' = "decided"
                /\ pending'.kind = "status" /\ pending'.n = yielded
             \/ /\ fold # NoFold /\ then' = "document sent"
                /\ pending'.kind = "document" /\ pending'.n = fold
      <3>1. PICK size \in EventSizes :
               \/ fold = NoFold /\ BeginSend(StatusEvent(size), "decided")
               \/ /\ fold # NoFold /\ pending' = Event("document", fold, size)
                  /\ then' = FinishAfter /\ pc' = "sending"
        BY <1>9 DEF Finish
      <3>2. pc = "run" /\ UNCHANGED <<emit_document, outcome, yielded, Out>>
        BY <1>9 DEF Finish, W!Status, request, guard, ending, Out
      <3>3. CASE fold = NoFold
        BY <3>1, <3>2, <3>3 DEF BeginSend, StatusEvent, Event
      <3>4. CASE fold # NoFold
        <4>1. /\ pending' = Event("document", fold, size)
              /\ then' = FinishAfter /\ pc' = "sending"
          BY <3>1, <3>4
        <4>2. pending'.kind = "document" /\ pending'.n = fold
          BY <4>1 DEF Event
        <4> QED
          BY <3>2, <3>4, <4>1, <4>2 DEF FinishAfter
      <3> QED
        BY <3>3, <3>4
    <2>2. /\ Opened(Out, yielded) /\ emit_document \in BOOLEAN
          /\ fold = IF emit_document THEN yielded ELSE NoFold
      BY <2>1 DEF Ordered, Folded, Typed
    <2>3. Opened(Out, yielded)'
      BY <2>1, <2>2, ShapesPrimed
    <2>4. CASE fold = NoFold
      <3>1. emit_document = FALSE
        BY <1>a, <2>2, <2>4 DEF NoFold
      <3>2. IsTrailer(pending, yielded)'
        BY <2>1, <2>4 DEF IsTrailer
      <3>3. then' = "decided" /\ emit_document' = FALSE
        BY <2>1, <2>4, <3>1
      <3>4. SendingTrailer'
        BY <2>3, <3>2, <3>3 DEF SendingTrailer
      <3> QED
        BY <2>1, <3>4 DEF Ordered
    <2>5. CASE fold # NoFold
      <3>1. emit_document = TRUE /\ fold = yielded
        BY <2>2, <2>5
      <3>2. SendingDocument'
        BY <2>1, <2>3, <2>5, <3>1 DEF SendingDocument
      <3> QED
        BY <2>1, <3>2 DEF Ordered
    <2> QED
      BY <2>4, <2>5
  <1>10. CASE FinishStatus
    <2>1. /\ pc = "document sent" /\ pc' = "sending" /\ then' = "decided"
          /\ pending'.kind = "status" /\ pending'.n = yielded
          /\ UNCHANGED <<emit_document, outcome, yielded, Out>>
      <3>1. PICK size \in EventSizes : BeginSend(StatusEvent(size), "decided")
        BY <1>10 DEF FinishStatus
      <3>2. /\ pc = "document sent"
            /\ UNCHANGED <<emit_document, outcome, yielded, Out>>
        BY <1>10 DEF FinishStatus, walk, request, guard, ending, Out
      <3> QED
        BY <3>1, <3>2 DEF BeginSend, StatusEvent, Event
    <2>2. Documented(Out, yielded) /\ emit_document = TRUE
      BY <2>1 DEF Ordered, Documented, WithDocument
    <2>3. Documented(Out, yielded)' /\ emit_document' = TRUE
      BY <2>1, <2>2, ShapesPrimed
    <2>4. IsTrailer(pending, yielded)'
      BY <2>1 DEF IsTrailer
    <2>5. SendingTrailer'
      BY <2>1, <2>3, <2>4 DEF SendingTrailer
    <2> QED
      BY <2>1, <2>5 DEF Ordered
  <1>11. CASE ReleaseSlot \/ CountOutcome \/ ReportLost
    <2>1. /\ UNCHANGED <<emit_document, outcome, yielded, closed, Out>>
          /\ \/ pc = "decided" /\ pc' = "counting"
             \/ pc = "counting" /\ outcome = "ok" /\ pc' = "ended"
             \/ pc = "counting" /\ outcome # "ok" /\ pc' = "reporting"
             \/ pc = "reporting" /\ pc' = "ended"
      BY <1>11 DEF ReleaseSlot, CountOutcome, ReportLost, walk, request, guard,
                   ending, Out
    <2>2. Failed => Failed'
      BY <2>1, FailedKept
    <2>3. Succeeded => Succeeded' /\ outcome = "ok"
      BY <2>1, ShapesPrimed DEF Succeeded
    <2> QED
      BY <2>1, <2>2, <2>3 DEF Ordered
  <1>12. CASE ReportError
    <2>1. /\ pc = "reporting" /\ pc' = "ended" /\ closed = "open"
          /\ UNCHANGED <<emit_document, outcome, yielded>>
          /\ Out' = Append(Out, ErrorEvent(outcome))
      BY <1>12, OutSteps DEF ReportError, ReceiverOpen, walk, request, ending
    <2>2. outcome \notin {"none", "ok"}
      BY <2>1 DEF Ordered, Failed
    <2>3. PICK k \in Nat : /\ yielded \in {k, k + 1}
                          /\ (Opened(Out, k) \/ Documented(Out, k))
      BY <2>1 DEF Ordered, Failed
    <2>4. /\ ErrorEvent(outcome) \in AnyEvent
          /\ IsFailure(ErrorEvent(outcome))
      BY EventTypes DEF Typed, Codes, IsFailure, ErrorEvent
    <2>5. Broken(Append(Out, ErrorEvent(outcome)), k)
      BY <1>a, <2>3, <2>4, AppendError
    <2>6. Broken(Out, k)'
      BY <2>1, <2>5, ShapesPrimed
    <2>7. (yielded \in {k, k + 1})' /\ outcome' \notin {"none", "ok"}
      BY <2>1, <2>2, <2>3
    <2>8. Reported'
      BY <2>6, <2>7 DEF Reported
    <2> QED
      BY <2>1, <2>8 DEF Ordered
  <1>13. CASE Panic
    <2>1. /\ pc = "run" /\ pc' = "ended" /\ outcome' = "panicked"
          /\ UNCHANGED <<emit_document, yielded, Out>>
      BY <1>13 DEF Panic, W!Stop, request, guard, Out
    <2>2. Opened(Out', yielded) /\ yielded' \in {yielded, yielded + 1}
      BY <2>1 DEF Ordered
    <2>3. Failed'
      BY <1>a, <2>1, <2>2, FailedNow
    <2> QED
      BY <2>1, <2>3 DEF Ordered
  <1> QED
    BY <1>1, <1>2, <1>3, <1>4, <1>5, <1>6, <1>7, <1>8, <1>9, <1>10, <1>11,
       <1>12, <1>13, StepCases DEF TaskStep

(***************************************************************************)
(* A call that has just arrived satisfies the invariant.                   *)
(***************************************************************************)
LEMMA InitSInv ==
    ASSUME Init
    PROVE  SInv
  <1>1. /\ emit_document \in BOOLEAN /\ requested_cap \in Nat
        /\ pc = "arriving" /\ received = 0 /\ yielded = 0 /\ fold = NoFold
        /\ then = "run" /\ outcome = "none" /\ slot = "none"
        /\ channel = <<>> /\ batch = <<>> /\ delivered = <<>>
        /\ batch_bytes = 0 /\ batch_final = FALSE /\ releasing = FALSE
        /\ finished = FALSE /\ closed = "open"
    BY SessionAssumption DEF Init, W!Init
  <1>2. metrics = [started |-> 0, completed |-> 0, failed |-> 0, rejected |-> 0,
                   records |-> 0, bytes |-> 0, cap_hits |-> 0]
    BY DEF Init
  <1>3. Out = <<>>
    BY <1>1 DEF Out, Joined
  <1>4. metrics \in Counters
    BY <1>2 DEF Counters
  <1>5. Typed
    BY <1>1, <1>4 DEF Typed, Places, Outcomes
  <1>6. SlotHeld
    BY <1>1 DEF SlotHeld, Working
  <1>7. Bounded
    BY <1>1, SessionAssumption DEF Bounded, byte_cap
  <1>8. LastInBatch
    BY <1>1 DEF LastInBatch
  <1>9. Ordered
    BY <1>1, <1>3 DEF Ordered, Undecided, Working
  <1>10. Folded
    BY <1>1 DEF Folded
  <1>11. Counted
    BY <1>1, <1>2 DEF Counted, Started, Working
  <1> QED
    BY <1>5, <1>6, <1>7, <1>8, <1>9, <1>10, <1>11 DEF SInv

(***************************************************************************)
(* The inductive invariant holds in every reachable state.                 *)
(***************************************************************************)
THEOREM SessionInvariant == Spec => []SInv
  <1>1. Init => SInv
    BY InitSInv
  <1>2. SInv /\ [Next]_vars => SInv'
    BY TypedStep, SlotHeldStep, BoundedStep, LastInBatchStep, OrderedStep,
       FoldedStep, CountedStep DEF SInv
  <1> QED
    BY <1>1, <1>2, PTL DEF Spec

-----------------------------------------------------------------------------
(***************************************************************************)
(* What the invariant says of everything that was sent.                    *)
(***************************************************************************)
LEMMA SentShape ==
    ASSUME SInv
    PROVE  /\ Sent \in Seq(AnyEvent)
           /\ \/ yielded = 0 /\ Sent = <<>> /\ ~(pc = "ended" /\ outcome = "ok")
              \/ \E k \in Nat : /\ Shape(Sent, k)
                                /\ yielded \in {k, k + 1}
                                /\ outcome \in {"none", "ok"} => k = yielded
                                /\ pc = "ended" /\ outcome = "ok" =>
                                       Completed(Sent, k)
  <1> USE DEF Undecided, Working
  <1>a. /\ channel \in Seq(AnyEvent) /\ batch \in Seq(AnyEvent)
        /\ delivered \in Seq(AnyEvent)
    BY DEF SInv, Typed
  <1>b. yielded \in Nat /\ pc \in Places
    BY DEF SInv, Typed
  <1>c. Out \in Seq(AnyEvent)
    BY <1>a, ThreeParts DEF Out
  <1>1. CASE pc = "sending"
    <2>1. pending \in AnyEvent
      BY <1>1, EventTypes DEF SInv, Typed
    <2>2. Sent = Append(Out, pending)
      <3>1. Sent = Out \o <<pending>>
        BY <1>1 DEF Sent, Out, Joined
      <3> QED
        BY <1>c, <2>1, <3>1, AppendIsConcat
    <2>3. Sent \in Seq(AnyEvent)
      BY <1>c, <2>1, <2>2, AppendProperties
    <2>4. outcome = "none"
      BY <1>1 DEF SInv, Ordered
    <2>5. Shape(Sent, yielded)
      <3>1. CASE SendingRow
        <4>1. CASE yielded = 0 /\ Out = <<>> /\ pending.kind = "layout_info"
          BY <2>1, <2>2, <4>1, AppendLayout DEF Shape
        <4>2. CASE /\ yielded > 0 /\ Opened(Out, yielded - 1)
                   /\ pending.kind = "record" /\ pending.n = yielded - 1
          <5>1. yielded - 1 \in Nat /\ (yielded - 1) + 1 = yielded
            BY <1>b, <4>2
          <5>2. Opened(Append(Out, pending), (yielded - 1) + 1)
            BY <1>c, <2>1, <4>2, <5>1, AppendRecord
          <5> QED
            BY <2>2, <5>1, <5>2 DEF Shape
        <4> QED
          BY <3>1, <4>1, <4>2 DEF SendingRow
      <3>2. CASE SendingDocument
        BY <1>b, <1>c, <2>1, <2>2, <3>2, AppendDocument
           DEF SendingDocument, Shape
      <3>3. CASE SendingTrailer
        BY <1>b, <1>c, <2>1, <2>2, <3>3, AppendStatus DEF SendingTrailer, Shape
      <3> QED
        BY <1>1, <3>1, <3>2, <3>3 DEF SInv, Ordered
    <2> QED
      BY <1>1, <1>b, <2>3, <2>4, <2>5
  <1>2. CASE pc # "sending"
    <2>1. Sent = Out
      <3>1. Sent = Out \o <<>>
        BY <1>2 DEF Sent, Out, Joined
      <3> QED
        BY <1>c, <3>1, ConcatEmptySeq
    <2>2. CASE pc \in {"arriving", "opening", "refused"}
      BY <1>c, <2>1, <2>2 DEF SInv, Ordered
    <2>3. CASE pc \in {"run", "document sent"}
      <3>1. Shape(Out, yielded) /\ outcome = "none"
        BY <2>3 DEF SInv, Ordered, Shape
      <3> QED
        BY <1>b, <1>c, <2>1, <2>3, <3>1
    <2>4. CASE Failed
      BY <1>c, <2>1, <2>4 DEF Failed, Shape
    <2>5. CASE Succeeded
      <3>1. Shape(Out, yielded) /\ Completed(Out, yielded)
        BY <2>5 DEF Succeeded, Shape
      <3> QED
        BY <1>b, <1>c, <2>1, <3>1
    <2>6. CASE Reported
      BY <1>c, <2>1, <2>6 DEF Reported, Shape
    <2> QED
      BY <1>2, <1>b, <2>2, <2>3, <2>4, <2>5, <2>6 DEF SInv, Ordered, Places
  <1> QED
    BY <1>1, <1>2

-----------------------------------------------------------------------------
(***************************************************************************)
(* EventSink.finish, through channel, batch and transport: layout_info     *)
(* first, rows numbered without a gap, the document before the trailer,    *)
(* nothing behind the last word.                                           *)
(***************************************************************************)
THEOREM SentInOrderHolds == Spec => []SentInOrder
  <1>1. ASSUME SInv PROVE SentInOrder
    <2>1. CASE Sent = <<>>
      BY <2>1 DEF SentInOrder
    <2>2. CASE Sent # <<>>
      <3>1. PICK k \in Nat : Shape(Sent, k)
        BY <1>1, <2>2, SentShape
      <3>2. InOrder(Sent)
        BY <1>1, <3>1, SentShape, ShapeInOrder
      <3> QED
        BY <3>2 DEF InOrder, SentInOrder
    <2> QED
      BY <2>1, <2>2
  <1> QED
    BY <1>1, SessionInvariant, PTL

(***************************************************************************)
(* TrailerGuard: a client that stops reading stops the parse, whatever the *)
(* sizes of the channel, the batch and the events.                         *)
(***************************************************************************)
THEOREM BackpressureHolds == Spec => []Backpressure
  <1>1. ASSUME SInv PROVE Backpressure
    <2>a. /\ yielded \in Nat /\ requested_cap \in Nat /\ pc \in Places
          /\ channel \in Seq(AnyEvent) /\ batch \in Seq(AnyEvent)
          /\ delivered \in Seq(AnyEvent)
      BY <1>1 DEF SInv, Typed
    <2>b. /\ Len(delivered) \in Nat /\ Len(batch) \in Nat
          /\ Len(channel) \in Nat
      BY <2>a
    <2>2. ASSUME closed = "open", pc \in Started
          PROVE  yielded <= Len(Out)
      <3>1. CASE pc = "sending" /\ SendingRow
        BY <2>a, <3>1 DEF SendingRow, Opened
      <3>2. CASE \E k \in Nat : Shape(Out, k) /\ yielded \in {k, k + 1}
        <4>1. PICK k \in Nat : Shape(Out, k) /\ yielded \in {k, k + 1}
          BY <3>2
        <4>2. Rows(Out, k)
          BY <4>1 DEF Shape, Opened, Documented, Completed, Broken
        <4>3. Len(Out) \in Nat
          BY <2>a, ThreeParts, LenProperties DEF Out
        <4> QED
          BY <4>1, <4>2, <4>3 DEF Rows
      <3>3. CASE pc \in {"run", "document sent"}
        BY <1>1, <2>a, <3>2, <3>3 DEF SInv, Ordered, Shape
      <3>4. CASE pc = "sending" /\ (SendingDocument \/ SendingTrailer)
        BY <2>a, <3>2, <3>4 DEF SendingDocument, SendingTrailer, Shape
      <3>5. CASE Failed
        BY <2>2, <3>2, <3>5 DEF Failed, Shape
      <3>6. CASE Succeeded \/ Reported
        BY <2>a, <3>2, <3>6 DEF Succeeded, Reported, Shape
      <3> QED
        BY <1>1, <2>2, <3>1, <3>3, <3>4, <3>5, <3>6
           DEF SInv, Ordered, Started, Working
    <2>3. Len(Out) = Len(delivered) + Len(batch) + Len(channel)
      BY <1>1, OutParts DEF SInv
    <2>4. ASSUME closed = "open", pc \in Started
          PROVE  1 + yielded - Len(delivered) <= Capacity + BatchBytes + 1
      <3>1. Len(batch) <= BatchBytes /\ Len(channel) <= Capacity
        BY <1>1 DEF SInv, Bounded
      <3> QED
        BY <2>a, <2>b, <2>2, <2>3, <2>4, <3>1, SessionAssumption
    <2> QED
      BY <2>4 DEF Backpressure
  <1> QED
    BY <1>1, SessionInvariant, PTL

-----------------------------------------------------------------------------
(***************************************************************************)
(* What the client sent and what was taken in: the same until a chunk is   *)
(* too much, and then the call has failed for that.                        *)
(***************************************************************************)
CapInv ==
    /\ offered \in Nat
    /\ pc \in Undecided => received = offered
    /\ pc \in Started =>
          /\ outcome = "exhausted" <=> offered > byte_cap
          /\ offered <= byte_cap => received = offered

(***************************************************************************)
(* What has nothing to do with the upload leaves it alone.                 *)
(***************************************************************************)
Elsewhere ==
    /\ UNCHANGED <<request, received, offered, outcome>>
    /\ pc' \in Undecided => pc \in Undecided
    /\ pc' \in Started => pc \in Started \cup {"opening"}

Decides ==
    /\ UNCHANGED <<request, received, offered>>
    /\ pc \in Undecided
    /\ outcome' # "exhausted"

Refuses ==
    /\ UNCHANGED <<request, received, offered>>
    /\ pc' = "refused"

(***************************************************************************)
(* The steps, as the cap sees them.                                        *)
(***************************************************************************)
LEMMA CapCases ==
    ASSUME SInv, [Next]_vars
    PROVE  \/ Elsewhere \/ Decides \/ Refuses
           \/ \E n \in ChunkSizes : ReceiveChunk(n) \/ ReceiveTooMuch(n)
  <1> USE DEF request, walk, sending, ending, guard, task, Undecided, Working,
              Started
  <1>1. CASE Open
    BY <1>1 DEF Open, Reject, Admit, RefuseOptions, StartParse, Refuses,
                Elsewhere
  <1>2. CASE Send
    <2>1. CASE SendDone /\ then = "decided"
      BY <2>1 DEF SendDone, Decides
    <2>2. CASE SendDone /\ then # "decided"
      BY <2>2 DEF SendDone, Elsewhere
    <2>3. CASE SendClosed \/ SendTimeout
      BY <2>3 DEF SendClosed, SendTimeout, Fail, W!Stop, Decides
    <2> QED
      BY <1>2, <2>1, <2>2, <2>3 DEF Send
  <1>3. CASE Receive
    <2>1. CASE Wait \/ ReceiveEmpty \/ ReceiveEnd
      BY <2>1 DEF Wait, ReceiveEmpty, ReceiveEnd, W!FinishInput, Elsewhere
    <2>2. CASE ReceiveOptions \/ ReceiveError \/ ReceiveIdle
      BY <2>2 DEF ReceiveOptions, ReceiveError, ReceiveIdle, FailReceiving,
                  Awaiting, Fail, W!Stop, Decides
    <2> QED
      BY <1>3, <2>1, <2>2 DEF Receive
  <1>4. CASE Drain
    <2>1. CASE DrainRow \/ DrainNone
      BY <2>1 DEF DrainRow, DrainNone, BeginSend, W!Yield, W!NoMore, Elsewhere
    <2>2. CASE DrainError
      BY <2>2 DEF DrainError, Fail, W!Stop, Decides
    <2> QED
      BY <1>4, <2>1, <2>2 DEF Drain
  <1>5. CASE Trailer
    <2>1. CASE Finish \/ FinishStatus
      BY <2>1 DEF Finish, FinishStatus, BeginSend, W!Status, Elsewhere
    <2>2. CASE FinishError
      BY <2>2 DEF FinishError, Fail, W!Stop, Decides
    <2> QED
      BY <1>5, <2>1, <2>2 DEF Trailer
  <1>6. CASE Report
    BY <1>6 DEF Report, ReleaseSlot, CountOutcome, ReportError, ReportLost,
                Elsewhere
  <1>7. CASE Panic
    BY <1>7 DEF Panic, W!Stop, Decides
  <1>8. CASE Poll \/ HangUp
    BY <1>8 DEF Poll, Gather, Take, GatherClosed, Release, HandOver, Hand,
                EndStream, HangUp, Elsewhere
  <1>9. CASE UNCHANGED vars
    BY <1>9 DEF vars, Elsewhere
  <1> QED
    BY <1>1, <1>2, <1>3, <1>4, <1>5, <1>6, <1>7, <1>8, <1>9 DEF Next, Server

(***************************************************************************)
(* Every step keeps the cap exact.                                         *)
(***************************************************************************)
LEMMA CapStep ==
    ASSUME SInv, CapInv, [Next]_vars
    PROVE  CapInv'
  <1>1. /\ received \in Nat /\ offered \in Nat /\ byte_cap \in Nat
        /\ received <= byte_cap
        /\ pc \in Undecided => outcome = "none" /\ received = offered
    BY SessionAssumption
       DEF SInv, Typed, Bounded, Ordered, CapInv, byte_cap
  <1>2. CASE Elsewhere
    <2>1. byte_cap' = byte_cap
      BY <1>2 DEF Elsewhere, byte_cap, request
    <2>2. CASE pc \in Undecided
      BY <1>1, <1>2, <2>1, <2>2 DEF Elsewhere, CapInv
    <2>3. CASE pc \notin Undecided
      BY <1>1, <1>2, <2>1, <2>3 DEF Elsewhere, CapInv, Undecided
    <2> QED
      BY <2>2, <2>3
  <1>3. CASE Decides
    <2>1. byte_cap' = byte_cap
      BY <1>3 DEF Decides, byte_cap, request
    <2> QED
      BY <1>1, <1>3, <2>1 DEF Decides, CapInv
  <1>4. CASE Refuses
    BY <1>1, <1>4 DEF Refuses, CapInv, Undecided, Working, Started
  <1>5. CASE \E n \in ChunkSizes : ReceiveChunk(n)
    <2>1. PICK n \in ChunkSizes : ReceiveChunk(n)
      BY <1>5
    <2>2. /\ n \in Nat /\ pc = "run" /\ pc' = pc /\ outcome' = outcome
          /\ offered' = offered + n /\ received' = received + n
          /\ ~(received + n > byte_cap) /\ byte_cap' = byte_cap
      BY <2>1, SessionAssumption
         DEF ReceiveChunk, OverCap, Awaiting, W!Push, byte_cap, request
    <2>3. outcome = "none" /\ received = offered
      BY <1>1, <2>2 DEF Undecided, Working
    <2> QED
      BY <1>1, <2>2, <2>3 DEF CapInv
  <1>6. CASE \E n \in ChunkSizes : ReceiveTooMuch(n)
    <2>1. PICK n \in ChunkSizes : ReceiveTooMuch(n)
      BY <1>6
    <2>2. /\ n \in Nat /\ pc = "run" /\ pc' = "decided"
          /\ outcome' = "exhausted"
          /\ offered' = offered + n /\ received + n > byte_cap
          /\ byte_cap' = byte_cap
      BY <2>1, SessionAssumption
         DEF ReceiveTooMuch, Fail, OverCap, Awaiting, byte_cap, request
    <2>3. received = offered
      BY <1>1, <2>2 DEF Undecided, Working
    <2>4. offered' \in Nat /\ offered' > byte_cap'
      BY <1>1, <2>2, <2>3
    <2>5. ~(offered' <= byte_cap')
      BY <1>1, <2>2, <2>4
    <2> QED
      BY <2>2, <2>4, <2>5 DEF CapInv, Undecided, Working
  <1> QED
    BY <1>2, <1>3, <1>4, <1>5, <1>6, CapCases

(***************************************************************************)
(* run_parse: an upload is refused for its size exactly when it is larger  *)
(* than the cap, in whatever chunks it comes.                              *)
(***************************************************************************)
THEOREM CapIsExactHolds == Spec => []CapIsExact
  <1>1. Init => CapInv
    BY DEF Init, W!Init, CapInv, Started, Working
  <1>2. SInv /\ CapInv /\ [Next]_vars => CapInv'
    BY CapStep
  <1>3. SInv /\ CapInv => CapIsExact
    <2>1. ASSUME SInv PROVE byte_cap <= MaxDocumentBytes
      <3>1. requested_cap \in Nat
        BY <2>1 DEF SInv, Typed
      <3> QED
        BY <3>1, SessionAssumption DEF byte_cap
    <2> QED
      BY <2>1 DEF SInv, Bounded, CapInv, CapIsExact
  <1> QED
    BY <1>1, <1>2, <1>3, SessionInvariant, PTL DEF Spec

(***************************************************************************)
(* No byte is taken in and no row decoded without the slot, and a slot     *)
(* that was given back is not held again.                                  *)
(***************************************************************************)
SlotDiscipline ==
    [][/\ received' # received \/ yielded' # yielded =>
             slot = "held" /\ slot' = "held"
       /\ slot = "released" => slot' = "released"]_vars

(***************************************************************************)
(* The handler and the task: no byte is taken in and no row decoded        *)
(* without the slot, and it is given back once.                            *)
(***************************************************************************)
THEOREM SlotDisciplineHolds == Spec => SlotDiscipline
  <1>1. ASSUME SInv, [Next]_vars
        PROVE  /\ received' # received \/ yielded' # yielded =>
                     slot = "held" /\ slot' = "held"
               /\ slot = "released" => slot' = "released"
    <2>1. CASE Quiet
      BY <2>1 DEF Quiet, ending
    <2>2. CASE StreamStep
      BY <2>2, StreamLeavesTask DEF ending
    <2>3. CASE TaskStep
      <3>1. CASE Chunk \/ DrainRow
        <4>1. pc = "run" /\ slot' = slot
          BY <3>1 DEF Chunk, ReceiveChunk, Awaiting, DrainRow
        <4>2. slot = "held"
          BY <1>1, <4>1 DEF SInv, SlotHeld, Working
        <4> QED
          BY <4>1, <4>2
      <3>2. CASE Admit
        BY <1>1, <3>2 DEF Admit, SInv, SlotHeld, walk
      <3>3. CASE TaskStep /\ ~Chunk /\ ~DrainRow /\ ~Admit
        BY <3>3 DEF TaskStep, Reject, RefuseOptions, StartParse, SendDone,
                    GiveUp, Fail, Finish, BeginSend, FinishStatus, W!Stop,
                    W!Status, ReleaseSlot, CountOutcome, ReportError,
                    ReportLost, Panic, ending, walk
      <3> QED
        BY <2>3, <3>1, <3>2, <3>3
    <2> QED
      BY <1>1, <2>1, <2>2, <2>3, StepCases
  <1> QED
    BY <1>1, SessionInvariant, PTL DEF Spec, SlotDiscipline

-----------------------------------------------------------------------------
(***************************************************************************)
(* A stream that is open, or has its document, has no last word yet.       *)
(***************************************************************************)
LEMMA NotLastYet ==
    ASSUME NEW s, NEW k \in Nat, Len(s) \in Nat,
           Opened(s, k) \/ Documented(s, k)
    PROVE  Len(s) >= 1 /\ ~Last(s[Len(s)])
  <1>1. CASE Documented(s, k)
    BY <1>1 DEF Documented, WithDocument, Last
  <1>2. CASE Opened(s, k) /\ k = 0
    BY <1>2 DEF Opened, Rows, Last
  <1>3. CASE Opened(s, k) /\ k > 0
    <2>1. k + 1 \in 2..(k + 1) /\ Len(s) = k + 1
      BY <1>3 DEF Opened
    <2>2. s[k + 1].kind = "record"
      BY <1>3, <2>1 DEF Opened, Rows
    <2> QED
      BY <2>1, <2>2 DEF Last
  <1> QED
    BY <1>1, <1>2, <1>3

(***************************************************************************)
(* In every state that satisfies the invariant the sent events have a      *)
(* shape, and a last word only when the call succeeded or reported its     *)
(* error.                                                                  *)
(***************************************************************************)
LEMMA OutShape ==
    ASSUME SInv
    PROVE  /\ Out = <<>> \/ \E k \in Nat : Shape(Out, k)
           /\ Out # <<>> /\ Last(Out[Len(Out)]) => Succeeded \/ Reported
  <1> USE DEF Undecided, Working
  <1>a. /\ channel \in Seq(AnyEvent) /\ batch \in Seq(AnyEvent)
        /\ delivered \in Seq(AnyEvent)
    BY DEF SInv, Typed
  <1>b. yielded \in Nat /\ pc \in Places
    BY DEF SInv, Typed
  <1>c. Out \in Seq(AnyEvent) /\ Len(Out) \in Nat
    BY <1>a, ThreeParts, LenProperties DEF Out
  <1>1. CASE Out = <<>>
    BY <1>1
  <1>2. CASE \E k \in Nat : Opened(Out, k) \/ Documented(Out, k)
    BY <1>c, <1>2, NotLastYet DEF Shape
  <1>3. CASE Succeeded \/ Reported
    BY <1>b, <1>3 DEF Succeeded, Reported, Shape
  <1>4. CASE pc = "sending"
    <2>1. CASE yielded > 0 /\ Opened(Out, yielded - 1)
      <3>1. yielded - 1 \in Nat
        BY <1>b, <2>1
      <3> QED
        BY <1>2, <2>1, <3>1
    <2>2. CASE Opened(Out, yielded) \/ Documented(Out, yielded)
      BY <1>2, <1>b, <2>2
    <2> QED
      BY <1>1, <1>4, <2>1, <2>2
         DEF SInv, Ordered, SendingRow, SendingDocument, SendingTrailer
  <1>5. CASE Failed
    BY <1>1, <1>2, <1>5 DEF Failed
  <1>6. CASE pc \in {"run", "document sent"}
    BY <1>2, <1>b, <1>6 DEF SInv, Ordered
  <1> QED
    BY <1>b, <1>1, <1>3, <1>4, <1>5, <1>6 DEF SInv, Ordered, Places

(***************************************************************************)
(* A call that ended told its client how: a trailer exactly when the parse *)
(* succeeded, else its error, or that the trailer is missing.              *)
(***************************************************************************)
THEOREM OutcomeToldHolds == Spec => []OutcomeTold
  <1>1. ASSUME SInv PROVE OutcomeTold
    <2> SUFFICES ASSUME closed = "ended"
                 PROVE  LET last == delivered[Len(delivered)]
                        IN  /\ Last(last)
                            /\ last.kind = "status" <=> outcome = "ok"
                            /\ last.kind = "error" =>
                                   last.code \in {outcome, "no trailer"}
      BY DEF OutcomeTold
    <2>a. /\ channel \in Seq(AnyEvent) /\ batch \in Seq(AnyEvent)
          /\ delivered \in Seq(AnyEvent) /\ yielded \in Nat
      BY <1>1 DEF SInv, Typed
    <2>b. Out \in Seq(AnyEvent)
      BY <2>a, ThreeParts DEF Out
    <2>c. Len(Out) \in Nat /\ DOMAIN Out = 1..Len(Out)
      BY <2>b, LenProperties
    <2>1. delivered # <<>> /\ Last(delivered[Len(delivered)])
      BY <1>1 DEF SInv, LastInBatch
    <2>2. /\ Len(delivered) \in 1..Len(Out)
          /\ Out[Len(delivered)] = delivered[Len(delivered)]
      <3>1. /\ Len(Out) = Len(delivered) + Len(batch) + Len(channel)
            /\ \A i \in 1..Len(delivered) : Out[i] = delivered[i]
        BY <1>1, OutParts DEF SInv
      <3>2. /\ Len(delivered) \in Nat /\ Len(batch) \in Nat
            /\ Len(channel) \in Nat /\ Len(delivered) > 0
        BY <2>a, <2>1
      <3> QED
        BY <3>1, <3>2
    <2>3. Out # <<>>
      BY <2>2
    <2>4. InOrder(Out)
      BY <1>1, <2>b, <2>3, OutShape, ShapeInOrder
    <2>5. Len(delivered) = Len(Out)
      BY <2>c, <2>1, <2>2, <2>4 DEF InOrder
    <2>6. delivered[Len(delivered)] = Out[Len(Out)]
      BY <2>2, <2>5
    <2>7. CASE Succeeded
      <3>1. Out[Len(Out)].kind = "status"
        BY <2>a, <2>7 DEF Succeeded, Completed, IsTrailer
      <3>2. outcome = "ok"
        BY <2>7 DEF Succeeded
      <3> QED
        BY <2>1, <2>6, <3>1, <3>2
    <2>8. CASE Reported
      <3>1. IsFailure(Out[Len(Out)])
        BY <2>8 DEF Reported, Broken
      <3>2. /\ Out[Len(Out)].kind = "error"
            /\ Out[Len(Out)].code \in {outcome, "no trailer"}
        BY <3>1 DEF IsFailure
      <3>3. outcome # "ok"
        BY <2>8 DEF Reported
      <3> QED
        BY <2>1, <2>6, <3>2, <3>3
    <2> QED
      BY <1>1, <2>1, <2>3, <2>6, <2>7, <2>8, OutShape
  <1> QED
    BY <1>1, SessionInvariant, PTL

(***************************************************************************)
(* The counters of a call agree with one another, with the walker and with *)
(* what was sent.                                                          *)
(***************************************************************************)
THEOREM CountersAgreeHolds == Spec => []CountersAgree
  <1>1. ASSUME SInv PROVE CountersAgree
    <2> USE DEF Started, Working
    <2>a. /\ metrics.started \in Nat /\ metrics.completed \in Nat
          /\ metrics.failed \in Nat /\ metrics.rejected \in Nat
          /\ yielded \in Nat
      BY <1>1 DEF SInv, Typed, Counters
    <2>1. /\ metrics.completed + metrics.failed <= metrics.started
          /\ pc = "ended" =>
                metrics.completed + metrics.failed
                   = IF outcome = "panicked" THEN 0 ELSE metrics.started
          /\ metrics.rejected + metrics.started <= 1
          /\ metrics.cap_hits <= metrics.failed
          /\ metrics.bytes = received /\ metrics.records = yielded
          /\ metrics.completed = 1 => pc = "ended" /\ outcome = "ok"
      <3>1. metrics.started = IF pc \in Started THEN 1 ELSE 0
        BY <1>1 DEF SInv, Counted
      <3>2. /\ metrics.cap_hits <= metrics.failed
            /\ metrics.bytes = received /\ metrics.records = yielded
        BY <1>1 DEF SInv, Counted
      <3>3. metrics.completed = IF pc = "ended" /\ outcome = "ok" THEN 1 ELSE 0
        BY <1>1 DEF SInv, Counted
      <3>4. metrics.failed =
               IF /\ pc \in {"reporting", "ended"}
                  /\ outcome \notin {"ok", "panicked"}
               THEN 1 ELSE 0
        BY <1>1 DEF SInv, Counted
      <3>5. metrics.rejected = 0 \/ (pc = "refused" /\ metrics.rejected = 1)
        BY <1>1 DEF SInv, Counted
      <3>6. /\ metrics.completed + metrics.failed <= metrics.started
            /\ pc = "ended" =>
                  metrics.completed + metrics.failed
                     = IF outcome = "panicked" THEN 0 ELSE metrics.started
        <4>1. CASE pc = "ended" /\ outcome = "ok"
          <5>1. /\ metrics.started = 1 /\ metrics.completed = 1
                /\ metrics.failed = 0
            BY <3>1, <3>3, <3>4, <4>1
          <5> QED
            BY <4>1, <5>1
        <4>2. CASE pc = "ended" /\ outcome = "panicked"
          <5>1. /\ metrics.started = 1 /\ metrics.completed = 0
                /\ metrics.failed = 0
            BY <3>1, <3>3, <3>4, <4>2
          <5> QED
            BY <4>2, <5>1
        <4>3. CASE pc = "ended" /\ outcome # "ok" /\ outcome # "panicked"
          <5>1. /\ metrics.started = 1 /\ metrics.completed = 0
                /\ metrics.failed = 1
            BY <3>1, <3>3, <3>4, <4>3
          <5> QED
            BY <4>3, <5>1
        <4>4. CASE pc = "reporting"
          <5>1. /\ metrics.started = 1 /\ metrics.completed = 0
                /\ metrics.failed <= 1
            BY <2>a, <3>1, <3>3, <3>4, <4>4
          <5> QED
            BY <2>a, <4>4, <5>1
        <4>5. CASE pc # "reporting" /\ pc # "ended"
          <5>1. metrics.completed = 0 /\ metrics.failed = 0
            BY <3>3, <3>4, <4>5
          <5> QED
            BY <2>a, <4>5, <5>1
        <4> QED
          BY <4>1, <4>2, <4>3, <4>4, <4>5
      <3>7. metrics.rejected + metrics.started <= 1
        <4>1. CASE pc = "refused"
          <5>1. metrics.started = 0 /\ metrics.rejected <= 1
            BY <3>1, <3>5, <4>1
          <5> QED
            BY <2>a, <5>1
        <4>2. CASE pc # "refused"
          <5>1. metrics.started = 0 \/ metrics.started = 1
            BY <3>1
          <5>2. metrics.rejected = 0
            BY <3>5, <4>2
          <5> QED
            BY <2>a, <5>1, <5>2
        <4> QED
          BY <4>1, <4>2
      <3>8. metrics.completed = 1 => pc = "ended" /\ outcome = "ok"
        BY <3>3
      <3> QED
        BY <3>2, <3>6, <3>7, <3>8
    <2>2. CASE /\ yielded = 0 /\ Sent = <<>>
               /\ ~(pc = "ended" /\ outcome = "ok")
      <3>1. {i \in DOMAIN Sent : Sent[i].kind = "record"} = {}
        BY <2>2
      <3>2. CountOf("record", Sent) = 0
        BY <3>1, FS_EmptySet DEF CountOf
      <3> QED
        BY <2>1, <2>2, <3>2 DEF CountersAgree
    <2>3. CASE \E k \in Nat : /\ Shape(Sent, k)
                              /\ yielded \in {k, k + 1}
                              /\ outcome \in {"none", "ok"} => k = yielded
                              /\ pc = "ended" /\ outcome = "ok" =>
                                    Completed(Sent, k)
      <3>1. PICK k \in Nat : /\ Shape(Sent, k)
                             /\ yielded \in {k, k + 1}
                             /\ outcome \in {"none", "ok"} => k = yielded
                             /\ pc = "ended" /\ outcome = "ok" =>
                                   Completed(Sent, k)
        BY <2>3
      <3>a. k \in Nat /\ (yielded = k \/ yielded = k + 1)
        BY <3>1
      <3>b. outcome \in {"none", "ok"} => k = yielded
        BY <3>1
      <3>c. pc = "ended" /\ outcome = "ok" => Completed(Sent, k)
        BY <3>1
      <3>2. /\ CountOf("record", Sent) = k
            /\ Completed(Sent, k) => CountOf("status", Sent) = 1
        <4>1. Sent \in Seq(AnyEvent)
          BY <1>1, SentShape
        <4>2. Shape(Sent, k)
          BY <3>1
        <4> QED
          BY <4>1, <4>2, ShapeCounts
      <3>3. yielded - k \in IF outcome \in {"none", "ok"} THEN {0} ELSE {0, 1}
        <4>1. CASE outcome \in {"none", "ok"}
          <5>1. yielded - k = 0
            BY <2>a, <3>b, <4>1
          <5> QED
            BY <4>1, <5>1
        <4>2. CASE outcome \notin {"none", "ok"}
          <5>1. yielded - k = 0 \/ yielded - k = 1
            BY <2>a, <3>a
          <5> QED
            BY <4>2, <5>1
        <4> QED
          BY <4>1, <4>2
      <3>4. metrics.completed = 1 =>
               CountOf("status", Sent) = 1 /\ CountOf("record", Sent) = yielded
        <4> SUFFICES ASSUME metrics.completed = 1
                     PROVE  /\ CountOf("status", Sent) = 1
                            /\ CountOf("record", Sent) = yielded
          OBVIOUS
        <4>1. pc = "ended" /\ outcome = "ok"
          BY <2>1
        <4>2. Completed(Sent, k) /\ k = yielded
          BY <3>b, <3>c, <4>1
        <4> QED
          BY <3>2, <4>2
      <3> QED
        BY <2>1, <3>2, <3>3, <3>4 DEF CountersAgree
    <2> QED
      BY <1>1, <2>2, <2>3, SentShape
  <1> QED
    BY <1>1, SessionInvariant, PTL

-----------------------------------------------------------------------------
(***************************************************************************)
(* What was delivered, as the client of an EventStream sees it.            *)
(***************************************************************************)
Promised(d) == [i \in 1..Len(d) |-> Promise(d[i])]

PromisedKinds ==
    [kind : {"layout_info", "error"}]
        \cup [kind : {"record", "document", "status"}, n : Nat]

(***************************************************************************)
(* The abstract stream sees an event's kind, and all of it but its size.   *)
(***************************************************************************)
LEMMA PromiseKeepsKind ==
    ASSUME NEW e \in AnyEvent
    PROVE  Promise(e) \in PromisedKinds /\ Promise(e).kind = e.kind
  <1>1. CASE e \in Told
    BY <1>1 DEF Told, Promise, PromisedKinds
  <1>2. CASE e \in SentEvent
    BY <1>2 DEF SentEvent, Promise, PromisedKinds
  <1> QED
    BY <1>1, <1>2 DEF AnyEvent

(***************************************************************************)
(* Handing an event over appends its promise to the abstract stream.       *)
(***************************************************************************)
LEMMA PromisedAppend ==
    ASSUME NEW d \in Seq(AnyEvent), NEW e \in AnyEvent
    PROVE  Promised(Append(d, e)) = Append(Promised(d), Promise(e))
  <1>a. Len(d) \in Nat /\ \A i \in 1..Len(d) : d[i] \in AnyEvent
    BY LenProperties, ElementOfSeq
  <1>1. /\ Append(d, e) \in Seq(AnyEvent)
        /\ Len(Append(d, e)) = Len(d) + 1
        /\ \A i \in 1..Len(d) : Append(d, e)[i] = d[i]
        /\ Append(d, e)[Len(d) + 1] = e
    BY AppendProperties
  <1>2. /\ Promised(d) \in Seq(PromisedKinds)
        /\ Len(Promised(d)) = Len(d)
        /\ \A i \in 1..Len(d) : Promised(d)[i] = Promise(d[i])
    BY <1>a, PromiseKeepsKind DEF Promised
  <1>3. /\ Promised(Append(d, e)) \in Seq(PromisedKinds)
        /\ Len(Promised(Append(d, e))) = Len(d) + 1
        /\ \A i \in 1..(Len(d) + 1) :
              Promised(Append(d, e))[i] = Promise(Append(d, e)[i])
    <2>1. \A i \in 1..(Len(d) + 1) : Append(d, e)[i] \in AnyEvent
      BY <1>a, <1>1
    <2> QED
      BY <1>a, <1>1, <2>1, PromiseKeepsKind DEF Promised
  <1>4. /\ Append(Promised(d), Promise(e)) \in Seq(PromisedKinds)
        /\ Len(Append(Promised(d), Promise(e))) = Len(d) + 1
        /\ \A i \in 1..Len(d) :
              Append(Promised(d), Promise(e))[i] = Promised(d)[i]
        /\ Append(Promised(d), Promise(e))[Len(d) + 1] = Promise(e)
    BY <1>2, PromiseKeepsKind, AppendProperties
  <1>5. \A i \in 1..(Len(d) + 1) :
           Promised(Append(d, e))[i] = Append(Promised(d), Promise(e))[i]
    BY <1>a, <1>1, <1>2, <1>3, <1>4
  <1> QED
    BY <1>3, <1>4, <1>5, SeqEqual

(***************************************************************************)
(* What an event in order says of the events before it.                    *)
(***************************************************************************)
LEMMA InOrderPrefix ==
    ASSUME NEW s \in Seq(AnyEvent), InOrder(s), NEW i \in 1..Len(s)
    PROVE  /\ s[i].kind \in EventKinds
           /\ s[i].kind = "layout_info" <=> i = 1
           /\ \A j \in 1..(i - 1) : ~Last(s[j])
           /\ s[i].kind \in {"record", "document"} =>
                 /\ s[i].n = i - 2
                 /\ \A j \in 1..(i - 1) : s[j].kind # "document"
                 /\ \A j \in 1..(i - 1) : s[j].kind = "record" <=> j # 1
           /\ s[i].kind = "document" => emit_document
           /\ s[i].kind = "status" /\ emit_document =>
                 /\ i > 2 /\ s[i].n = i - 3
                 /\ s[i - 1].kind = "document"
                 /\ \A j \in 1..(i - 1) :
                       s[j].kind = "record" <=> j # 1 /\ j # i - 1
           /\ s[i].kind = "status" /\ ~emit_document =>
                 /\ s[i].n = i - 2
                 /\ \A j \in 1..(i - 1) : s[j].kind = "record" <=> j # 1
  <1>a. Len(s) \in Nat /\ DOMAIN s = 1..Len(s)
    BY LenProperties
  <1>1. \A j \in 1..Len(s) :
           /\ s[j].kind \in EventKinds
           /\ s[j].kind = "layout_info" <=> j = 1
           /\ s[j].kind = "document" => emit_document
           /\ Last(s[j]) => j = Len(s)
    BY <1>a DEF InOrder
  <1>2. \A j \in 1..Len(s) :
           /\ s[j].kind = "record" => s[j].n = j - 2
           /\ s[j].kind = "document" => s[j].n = j - 2
           /\ s[j].kind = "status" =>
                 s[j].n = IF emit_document THEN j - 3 ELSE j - 2
    BY <1>a DEF InOrder
  <1>3. \A j \in 1..Len(s) :
           /\ s[j].kind = "document" /\ j < Len(s) => Last(s[j + 1])
           /\ s[j].kind = "status" /\ emit_document => s[j - 1].kind = "document"
    BY <1>a DEF InOrder
  <1>4. \A j \in 1..(i - 1) : j \in 1..Len(s) /\ j < Len(s)
    BY <1>a
  <1>5. ASSUME NEW j \in 1..(i - 1) PROVE ~Last(s[j])
    <2>0. Len(s) \in Nat
      BY LenProperties
    <2>1. j \in 1..Len(s) /\ j < Len(s)
      BY <1>4
    <2>2. j # Len(s)
      BY <2>0, <2>1
    <2> QED
      BY <1>1, <2>1, <2>2
  <1>6. ASSUME NEW j \in 1..(i - 1), s[j].kind = "document"
        PROVE  j = i - 1 /\ Last(s[i])
    <2>1. Last(s[j + 1]) /\ j + 1 \in 1..Len(s)
      BY <1>a, <1>3, <1>4, <1>6
    <2>2. j + 1 = Len(s)
      BY <1>1, <2>1
    <2>3. j + 1 = i
      BY <1>a, <2>2
    <2> QED
      BY <2>1, <2>3
  <1>7. \A j \in 1..(i - 1) :
           s[j].kind = "record" <=> j # 1 /\ s[j].kind # "document"
    <2>1. \A j \in 1..(i - 1) :
             s[j].kind \in {"layout_info", "record", "document"}
      BY <1>1, <1>4, <1>5 DEF EventKinds, Last
    <2> QED
      BY <1>1, <1>4, <2>1
  <1>8. ASSUME s[i].kind \in {"record", "document"}
        PROVE  \A j \in 1..(i - 1) : s[j].kind # "document"
    BY <1>6, <1>8 DEF Last
  <1>9. ASSUME s[i].kind = "status", emit_document
        PROVE  i > 2 /\ s[i - 1].kind = "document"
    <2>1. i # 1 /\ s[i - 1].kind = "document"
      BY <1>1, <1>3, <1>9
    <2>2. 1 \in 1..Len(s) /\ i - 1 \in 1..Len(s)
      BY <1>a, <2>1
    <2>3. s[1].kind = "layout_info"
      BY <1>1, <2>2
    <2>4. i - 1 # 1
      BY <2>1, <2>3
    <2> QED
      BY <2>1, <2>2, <2>4
  <1>10. ASSUME ~emit_document
         PROVE  \A j \in 1..(i - 1) : s[j].kind # "document"
    BY <1>1, <1>4, <1>10
  <1> QED
    BY <1>1, <1>2, <1>5, <1>6, <1>7, <1>8, <1>9, <1>10

(***************************************************************************)
(* How many rows there are before position i of a stream.                  *)
(***************************************************************************)
LEMMA IntervalCount ==
    ASSUME NEW i \in Nat, i >= 2
    PROVE  Cardinality(2..(i - 1)) = i - 2
  <1>1. i - 1 \in Int
    OBVIOUS
  <1>2. Cardinality(2..(i - 1)) = IF 2 > i - 1 THEN 0 ELSE (i - 1) - 2 + 1
    BY <1>1, FS_Interval
  <1> QED
    BY <1>2

(***************************************************************************)
(* The instance of EventStream counts as this module does.                 *)
(***************************************************************************)
LEMMA SameCardinality ==
    ASSUME NEW S
    PROVE  ES!Cardinality(S) = Cardinality(S)
  BY DEF ES!Cardinality, Cardinality

(***************************************************************************)
(* The abstract stream has a record for every row delivered.               *)
(***************************************************************************)
LEMMA RecordsDelivered ==
    ASSUME delivered \in Seq(AnyEvent)
    PROVE  ES!Records
              = Cardinality({i \in 1..Len(delivered) : delivered[i].kind = "record"})
  <1>1. \A i \in 1..Len(delivered) : Promise(delivered[i]).kind = delivered[i].kind
    BY PromiseKeepsKind, ElementOfSeq
  <1> DEFINE stream == [i \in 1..Len(delivered) |-> Promise(delivered[i])]
  <1>2. ES!Records
           = ES!Cardinality({i \in DOMAIN stream : stream[i].kind = "record"})
    BY DEF ES!Records
  <1>3. {i \in DOMAIN stream : stream[i].kind = "record"}
           = {i \in 1..Len(delivered) : delivered[i].kind = "record"}
    BY <1>1
  <1> HIDE DEF stream
  <1> QED
    BY <1>2, <1>3, SameCardinality

(***************************************************************************)
(* The event that comes next in order is one an EventStream may deliver.   *)
(***************************************************************************)
LEMMA DeliversNext ==
    ASSUME NEW s \in Seq(AnyEvent), InOrder(s),
           delivered \in Seq(AnyEvent), Len(delivered) + 1 \in 1..Len(s),
           \A j \in 1..Len(delivered) : delivered[j] = s[j],
           delivered' = Append(delivered, s[Len(delivered) + 1]),
           closed = "open", UNCHANGED <<emit_document, closed>>,
           emit_document \in BOOLEAN
    PROVE  ES!Next
  <1> DEFINE i == Len(delivered) + 1
             e == s[i]
             stream == [j \in 1..Len(delivered) |-> Promise(delivered[j])]
  <1>a. Len(s) \in Nat /\ Len(delivered) \in Nat /\ i \in 1..Len(s)
    BY LenProperties
  <1>b. /\ \A j \in 1..Len(delivered) : delivered[j] \in AnyEvent
        /\ e \in AnyEvent
    BY <1>a, ElementOfSeq
  <1>c. DOMAIN stream = 1..(i - 1)
    BY <1>a
  <1>d. \A j \in 1..(i - 1) : stream[j].kind = s[j].kind
    BY <1>a, <1>b, PromiseKeepsKind
  <1>1. stream' = Append(stream, Promise(e))
    <2>1. Promised(Append(delivered, e)) = Append(Promised(delivered), Promise(e))
      BY <1>b, PromisedAppend
    <2> QED
      BY <2>1 DEF Promised
  <1>2. ~ES!Over
    <2>1. \A j \in 1..(i - 1) : ~Last(s[j])
      BY <1>a, InOrderPrefix
    <2> QED
      BY <1>c, <1>d, <2>1 DEF ES!Over, ES!Has, Last
  <1>3. ASSUME NEW f, f = Promise(e)
        PROVE  ES!Deliver(f)
    BY <1>1, <1>2, <1>3 DEF ES!Deliver
  <1>4. CASE e.kind = "layout_info"
    <2>1. i = 1
      BY <1>4, <1>a, InOrderPrefix
    <2>2. stream = <<>>
      BY <1>a, <2>1
    <2>3. Promise(e) = [kind |-> "layout_info"]
      BY <1>4 DEF Promise
    <2> QED
      BY <1>3, <2>2, <2>3 DEF ES!LayoutInfo, ES!Next
  <1>5. CASE e.kind = "error"
    <2>1. i # 1
      BY <1>5, <1>a, InOrderPrefix
    <2>2. stream # <<>>
      BY <1>a, <1>c, <2>1
    <2>3. Promise(e) = [kind |-> "error"]
      BY <1>5 DEF Promise
    <2> QED
      BY <1>3, <2>2, <2>3 DEF ES!Error, ES!Next
  <1>6. ASSUME e.kind \in {"record", "document", "status"}
        PROVE  /\ i >= 2 /\ stream # <<>>
               /\ Promise(e) = [kind |-> e.kind, n |-> e.n]
    <2>1. i # 1
      BY <1>6, <1>a, InOrderPrefix
    <2> QED
      BY <1>a, <1>c, <1>6, <2>1 DEF Promise
  <1>7. ASSUME i >= 2, \A j \in 1..(i - 1) : s[j].kind = "record" <=> j # 1
        PROVE  ES!Records = i - 2
    <2>1. {j \in 1..Len(delivered) : delivered[j].kind = "record"} = 2..(i - 1)
      <3>1. ASSUME NEW j \in 1..(i - 1)
            PROVE  delivered[j].kind = "record" <=> j \in 2..(i - 1)
        <4>1. delivered[j] = s[j]
          BY <1>a
        <4> QED
          BY <1>a, <1>7, <4>1
      <3>2. 1..Len(delivered) = 1..(i - 1)
        BY <1>a
      <3>3. i \in Nat
        BY <1>a
      <3> HIDE DEF i
      <3> QED
        BY <3>1, <3>2, <3>3
    <2>2. Cardinality(2..(i - 1)) = i - 2
      <3>1. i \in Nat
        BY <1>a
      <3> HIDE DEF i
      <3> QED
        BY <1>7, <3>1, IntervalCount
    <2> QED
      BY <2>1, <2>2, RecordsDelivered
  <1>8. CASE e.kind \in {"record", "document"}
    <2>1. /\ e.n = i - 2
          /\ \A j \in 1..(i - 1) : s[j].kind # "document"
          /\ \A j \in 1..(i - 1) : s[j].kind = "record" <=> j # 1
          /\ e.kind = "document" => emit_document
      BY <1>8, <1>a, InOrderPrefix
    <2>2. ~ES!Has("document")
      BY <1>c, <1>d, <2>1 DEF ES!Has
    <2>3. ES!Records = e.n
      BY <1>6, <1>7, <1>8, <2>1
    <2>4. stream # <<>> /\ Promise(e) = [kind |-> e.kind, n |-> ES!Records]
      BY <1>6, <1>8, <2>3
    <2>5. ES!Deliver([kind |-> e.kind, n |-> ES!Records])
      BY <1>3, <2>4
    <2> QED
      BY <1>8, <2>1, <2>2, <2>4, <2>5 DEF ES!Record, ES!Document, ES!Next
  <1>9. CASE e.kind = "status" /\ ~emit_document
    <2>1. /\ e.n = i - 2
          /\ \A j \in 1..(i - 1) : s[j].kind = "record" <=> j # 1
      BY <1>9, <1>a, InOrderPrefix
    <2>2. ES!Records = e.n
      BY <1>6, <1>7, <1>9, <2>1
    <2>3. stream # <<>> /\ Promise(e) = [kind |-> e.kind, n |-> ES!Records]
      BY <1>6, <1>9, <2>2
    <2>4. ES!Deliver([kind |-> e.kind, n |-> ES!Records])
      BY <1>3, <2>3
    <2> QED
      BY <1>9, <2>3, <2>4 DEF ES!Status, ES!Next
  <1>10. CASE e.kind = "status" /\ emit_document
    <2>1. /\ i > 2 /\ e.n = i - 3 /\ s[i - 1].kind = "document"
          /\ \A j \in 1..(i - 1) :
                s[j].kind = "record" <=> j # 1 /\ j # i - 1
      BY <1>10, <1>a, InOrderPrefix
    <2>2. {j \in 1..Len(delivered) : delivered[j].kind = "record"} = 2..(i - 2)
      BY <1>a, <2>1
    <2>3. Cardinality(2..(i - 2)) = i - 3
      <3>1. i - 1 \in Nat /\ i - 1 >= 2 /\ (i - 1) - 1 = i - 2
            /\ (i - 1) - 2 = i - 3
        BY <1>a, <2>1
      <3>2. Cardinality(2..((i - 1) - 1)) = (i - 1) - 2
        BY <3>1, IntervalCount
      <3> QED
        BY <3>1, <3>2
    <2>4. ES!Records = e.n
      BY <2>1, <2>2, <2>3, RecordsDelivered
    <2>5. ES!Has("document")
      <3>1. i - 1 \in 1..(i - 1)
        BY <1>a, <2>1
      <3> QED
        BY <1>c, <1>d, <2>1, <3>1 DEF ES!Has
    <2>6. stream # <<>> /\ Promise(e) = [kind |-> e.kind, n |-> ES!Records]
      BY <1>6, <1>10, <2>4
    <2>7. ES!Deliver([kind |-> e.kind, n |-> ES!Records])
      BY <1>3, <2>6
    <2> QED
      BY <1>10, <2>5, <2>6, <2>7 DEF ES!Status, ES!Next
  <1>11. e.kind \in EventKinds
    BY <1>a, InOrderPrefix
  <1> QED
    BY <1>4, <1>5, <1>8, <1>9, <1>10, <1>11 DEF EventKinds

(***************************************************************************)
(* What the client of a call reads is an EventStream: the next event       *)
(* handed over, the end and the hanging up are steps of it, and everything *)
(* else stutters.                                                          *)
(***************************************************************************)
THEOREM SessionIsEventStream == Spec => IsEventStream
  <1>1. Init => ES!Init
    <2> SUFFICES ASSUME Init PROVE ES!Init
      OBVIOUS
    <2>1. emit_document \in BOOLEAN /\ delivered = <<>> /\ closed = "open"
      BY DEF Init
    <2>2. [i \in 1..Len(delivered) |-> Promise(delivered[i])] = <<>>
      BY <2>1
    <2> QED
      BY <2>1, <2>2 DEF ES!Init
  <1>2. ASSUME SInv, [Next]_vars
        PROVE  [ES!Next]_(ES!vars)
    <2>1. CASE UNCHANGED <<emit_document, delivered, closed>>
      BY <2>1 DEF ES!vars
    <2>2. CASE HandOver
      <3>a. /\ channel \in Seq(AnyEvent) /\ batch \in Seq(AnyEvent)
            /\ delivered \in Seq(AnyEvent) /\ emit_document \in BOOLEAN
        BY <1>2 DEF SInv, Typed
      <3>b. Out \in Seq(AnyEvent)
        BY <3>a, ThreeParts DEF Out
      <3>1. /\ batch # <<>> /\ closed = "open"
            /\ delivered' = Append(delivered, Head(batch))
            /\ UNCHANGED <<emit_document, closed>>
        BY <1>2, <2>2 DEF HandOver, Hand, ReceiverOpen, SInv, LastInBatch, request
      <3>2. /\ Len(Out) = Len(delivered) + Len(batch) + Len(channel)
            /\ \A i \in 1..Len(delivered) : Out[i] = delivered[i]
            /\ \A i \in 1..Len(batch) : Out[Len(delivered) + i] = batch[i]
        BY <1>2, OutParts DEF SInv
      <3>3. /\ Len(delivered) \in Nat /\ Len(batch) \in Nat /\ Len(batch) > 0
            /\ Len(channel) \in Nat /\ Head(batch) = batch[1]
        BY <3>a, <3>1
      <3>4. /\ Len(delivered) + 1 \in 1..Len(Out)
            /\ Out[Len(delivered) + 1] = Head(batch)
        BY <3>2, <3>3
      <3>5. InOrder(Out)
        <4>1. Out # <<>>
          BY <3>4
        <4> QED
          BY <1>2, <3>b, <4>1, OutShape, ShapeInOrder
      <3>6. /\ \A j \in 1..Len(delivered) : delivered[j] = Out[j]
            /\ delivered' = Append(delivered, Out[Len(delivered) + 1])
        BY <3>1, <3>2, <3>4
      <3>7. ES!Next
        BY <3>a, <3>b, <3>1, <3>4, <3>5, <3>6, DeliversNext
      <3> QED
        BY <3>7
    <2>3. CASE EndStream
      <3>1. /\ closed = "open" /\ closed' = "ended"
            /\ UNCHANGED <<emit_document, delivered>>
        BY <2>3 DEF EndStream, ReceiverOpen, request
      <3>2. delivered # <<>> /\ Last(delivered[Len(delivered)])
        BY <1>2, <2>3 DEF EndStream, SInv, LastInBatch
      <3>3. delivered \in Seq(AnyEvent)
        BY <1>2 DEF SInv, Typed
      <3>4. /\ Len(delivered) \in 1..Len(delivered)
            /\ delivered[Len(delivered)] \in AnyEvent
        BY <3>2, <3>3
      <3>5. Promise(delivered[Len(delivered)]).kind \in {"status", "error"}
        BY <3>2, <3>4, PromiseKeepsKind DEF Last
      <3>6. ES!Over
        BY <3>4, <3>5 DEF ES!Over, ES!Has
      <3> QED
        BY <3>1, <3>6 DEF ES!End, ES!Next
    <2>4. CASE HangUp
      <3>1. /\ closed = "open" /\ closed' = "abandoned"
            /\ UNCHANGED <<emit_document, delivered>>
        BY <2>4 DEF HangUp, ReceiverOpen, request
      <3> QED
        BY <3>1 DEF ES!Abandon, ES!Next
    <2>5. CASE Gather \/ GatherClosed \/ Release
      BY <2>1, <2>5 DEF Gather, Take, GatherClosed, Release, request
    <2>6. CASE Quiet \/ TaskStep
      BY <2>1, <2>6, TaskLeavesStream DEF Quiet, request, guard
    <2> QED
      BY <1>2, <2>2, <2>3, <2>4, <2>5, <2>6, StepCases DEF StreamStep
  <1> QED
    BY <1>1, <1>2, SessionInvariant, PTL DEF Spec, IsEventStream, ES!Spec
=============================================================================
