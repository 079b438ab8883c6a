---------------------------- MODULE DecodeProofs ----------------------------
(***************************************************************************)
(* What module Decode states of a field, for every width of accumulator,   *)
(* every code page and all bytes.                                          *)
(***************************************************************************)
EXTENDS Decode, Induction

Half == Power(2, AccBits - 1)
Quarter == Power(2, AccBits - 2)

(***************************************************************************)
(* The ends of the accumulator, and how far from them the widest digits    *)
(* and the longest prefixes stay.                                          *)
(***************************************************************************)
LEMMA Widths ==
    /\ AccBits \in Nat /\ AccBits >= 16
    /\ Quarter \in Nat /\ Quarter >= 1
    /\ Half = 2 * Quarter /\ Power(2, AccBits) = 2 * Half
    /\ MaxRecordBytes \in Nat /\ MaxRecordBytes < Quarter
    /\ MaxBinaryBytes \in Nat /\ MaxBinaryBytes >= 2
    /\ MaxBinaryBytes <= MaxRecordBytes
  <1>1. AccBits \in Nat /\ AccBits >= 16 /\ AccBits - 2 \in Nat /\ AccBits - 1 \in Nat
    BY WidthAssumption
  <1>2. /\ (AccBits - 2) + 1 = AccBits - 1 /\ (AccBits - 1) + 1 = AccBits
        /\ 2 \in Nat /\ 2 \in Nat \ {0}
    BY <1>1
  <1>3. /\ Half = Quarter * 2 /\ Power(2, AccBits) = Half * 2
        /\ Quarter \in Nat /\ Quarter >= 1 /\ Half \in Nat
    BY <1>1, <1>2, PowerNext, PowerGrows DEF Half, Quarter
  <1>4. MaxRecordBytes \in Nat /\ MaxRecordBytes + 0 < Quarter
    <2>1. MaxRecordBytes \in 0..(Power(2, SizeBits) - 1) /\ 0 \in TypeSizes
      BY WidthAssumption
    <2> QED
      BY <2>1, WidthAssumption DEF Quarter
  <1>5. MaxBinaryBytes \in 2..MaxRecordBytes
    BY WidthAssumption
  <1> QED
    BY <1>1, <1>3, <1>4, <1>5

(***************************************************************************)
(* What fits the accumulator is not wrapped; what is a little below it     *)
(* comes out too large for a record length.                                *)
(***************************************************************************)
LEMMA WrapIsExact ==
    ASSUME NEW x \in Int, Fits(x, AccBits)
    PROVE  Wrap(x) = x
  <1>1. Half \in Nat /\ Half >= 1 /\ Power(2, AccBits) = 2 * Half
    BY Widths
  <1>2. -Half <= x /\ x < Half
    BY DEF Fits, Half
  <1>3. CASE x >= 0
    <2>1. x % (2 * Half) = x
      BY <1>1, <1>2, <1>3
    <2> QED
      BY <1>1, <1>2, <2>1 DEF Wrap, Half
  <1>4. CASE x < 0
    <2>1. x % (2 * Half) = x + 2 * Half
      BY <1>1, <1>2, <1>4
    <2>2. ~(x + 2 * Half < Half) /\ (x + 2 * Half) - 2 * Half = x
      BY <1>1, <1>2
    <2> QED
      BY <1>1, <2>1, <2>2 DEF Wrap, Half
  <1> QED
    BY <1>3, <1>4

(***************************************************************************)
(* The same just below the accumulator: the difference is a large number.  *)
(***************************************************************************)
LEMMA WrapIsLarge ==
    ASSUME NEW x \in Int, x < -Half, x > -Half - Quarter
    PROVE  Wrap(x) \in Int /\ Wrap(x) > MaxRecordBytes
  <1>1. /\ Half \in Nat /\ Half >= 1 /\ Power(2, AccBits) = 2 * Half
        /\ Quarter \in Nat /\ Half = 2 * Quarter
        /\ MaxRecordBytes \in Nat /\ MaxRecordBytes < Quarter
    BY Widths
  <1>2. x % (2 * Half) = x + 2 * Half
    BY <1>1
  <1>3. x + 2 * Half < Half /\ x + 2 * Half > Quarter
    BY <1>1
  <1>4. Wrap(x) = x + 2 * Half
    BY <1>1, <1>2, <1>3 DEF Wrap, Half
  <1> QED
    BY <1>1, <1>3, <1>4

-----------------------------------------------------------------------------
(***************************************************************************)
(* t is what s says between its blanks.                                    *)
(***************************************************************************)
Seen == Characters \ Blank

TrimmedFrom(t, s) ==
    /\ t \in Seq(Characters)
    /\ t # <<>> => t[1] \notin Blank /\ t[Len(t)] \notin Blank
    /\ \E i \in 0..Len(s) : t = SubSeq(s, i + 1, i + Len(t))
    /\ Filter(t, Seen) = Filter(s, Seen)

(***************************************************************************)
(* The ends of a text that is not all blanks.                              *)
(***************************************************************************)
LEMMA TrimEnds ==
    ASSUME NEW s \in Seq(Characters), \E i \in 1..Len(s) : s[i] \notin Blank
    PROVE  \E a \in 1..Len(s), b \in 1..Len(s) :
              /\ a <= b /\ Trim(s) = SubSeq(s, a, b)
              /\ s[a] \notin Blank /\ s[b] \notin Blank
              /\ \A i \in 1..Len(s) : s[i] \notin Blank => a <= i /\ i <= b
  <1> DEFINE printing == {i \in DOMAIN s : s[i] \notin Blank}
             a == Min(printing)
             b == Max(printing)
  <1>1. /\ Len(s) \in Nat /\ DOMAIN s = 1..Len(s)
        /\ printing \in SUBSET (1..Len(s)) /\ printing # {}
    OBVIOUS
  <1>2. Trim(s) = SubSeq(s, a, b)
    BY <1>1 DEF Trim
  <1>3. \A i \in 1..Len(s) : s[i] \notin Blank => i \in printing
    BY <1>1
  <1>4. \A i \in printing : s[i] \notin Blank /\ i \in 1..Len(s)
    BY <1>1
  <1> HIDE DEF printing
  <1>5. a \in printing /\ \A y \in printing : a <= y
    <2>1. printing \in SUBSET Nat
      BY <1>1
    <2>2. \E x \in printing : \A y \in printing : x <= y
      BY <1>1, <2>1, LeastNatural
    <2> QED
      BY <2>2 DEF Min
  <1>6. b \in printing /\ \A y \in printing : b >= y
    <2>1. PICK x \in printing : \A y \in printing : y <= x
      BY <1>1, GreatestOf
    <2>2. \A y \in printing : x >= y
      <3>1. \A y \in printing : y \in Nat
        BY <1>4
      <3> QED
        BY <2>1, <3>1
    <2> QED
      BY <2>2 DEF Max
  <1> HIDE DEF a, b
  <1>7. a \in 1..Len(s) /\ b \in 1..Len(s) /\ a <= b
    BY <1>4, <1>5, <1>6
  <1>8. \A i \in 1..Len(s) : s[i] \notin Blank => a <= i /\ i <= b
    <2> SUFFICES ASSUME NEW i \in 1..Len(s), s[i] \notin Blank
                 PROVE  a <= i /\ i <= b
      OBVIOUS
    <2>1. i \in printing
      BY <1>3
    <2>2. a <= i /\ b >= i
      BY <1>5, <1>6, <2>1
    <2> QED
      BY <1>7, <2>2
  <1> QED
    BY <1>2, <1>4, <1>5, <1>6, <1>7, <1>8

(***************************************************************************)
(* What Trim leaves of a text.                                             *)
(***************************************************************************)
LEMMA TrimKeeps ==
    ASSUME NEW s \in Seq(Characters)
    PROVE  TrimmedFrom(Trim(s), s)
  <1>0. /\ Len(s) \in Nat /\ DOMAIN s = 1..Len(s)
        /\ \A i \in 1..Len(s) : s[i] \in Characters
    OBVIOUS
  <1>1. CASE \A i \in 1..Len(s) : s[i] \in Blank
    <2>1. Trim(s) = <<>>
      <3>1. {i \in DOMAIN s : s[i] \notin Blank} = {}
        BY <1>0, <1>1
      <3> QED
        BY <3>1 DEF Trim
    <2>2. /\ <<>> \in Seq(Characters) /\ Len(<<>>) = 0
          /\ 0 \in 0..Len(s) /\ SubSeq(s, 0 + 1, 0 + 0) = <<>>
      BY <1>0
    <2>3. Filter(s, Seen) = <<>>
      <3>1. \A i \in 1..Len(s) : s[i] \notin Seen
        BY <1>1 DEF Seen
      <3> QED
        BY <3>1, FilterNone
    <2>4. Filter(<<>>, Seen) = <<>>
      <3>1. \A i \in 1..Len(<<>>) : <<>>[i] \notin Seen
        BY <2>2
      <3> QED
        BY <2>2, <3>1, FilterNone
    <2>5. \E i \in 0..Len(s) : <<>> = SubSeq(s, i + 1, i + Len(<<>>))
      BY <2>2
    <2> QED
      BY <2>1, <2>2, <2>3, <2>4, <2>5 DEF TrimmedFrom
  <1>2. CASE \E i \in 1..Len(s) : s[i] \notin Blank
    <2>1. PICK a \in 1..Len(s), b \in 1..Len(s) :
             /\ a <= b /\ Trim(s) = SubSeq(s, a, b)
             /\ s[a] \notin Blank /\ s[b] \notin Blank
             /\ \A i \in 1..Len(s) : s[i] \notin Blank => a <= i /\ i <= b
      BY <1>2, TrimEnds
    <2> DEFINE t == SubSeq(s, a, b)
    <2>2. /\ t \in Seq(Characters) /\ Len(t) = b - a + 1
          /\ t[1] = s[a] /\ t[Len(t)] = s[b]
      <3>1. /\ SubSeq(s, a, b) \in Seq(Characters)
            /\ Len(SubSeq(s, a, b)) = b - a + 1
            /\ \A i \in 1..(b - a + 1) : SubSeq(s, a, b)[i] = s[a + i - 1]
        BY <1>0, <2>1
      <3>2. /\ 1 \in 1..(b - a + 1) /\ a + 1 - 1 = a
            /\ b - a + 1 \in 1..(b - a + 1) /\ a + (b - a + 1) - 1 = b
        BY <2>1
      <3> QED
        BY <3>1, <3>2
    <2>3. Filter(t, Seen) = Filter(s, Seen)
      <3>1. a \in 1..Len(s) /\ b \in a..Len(s)
        BY <2>1
      <3>2. \A i \in 1..Len(s) : i < a \/ i > b => s[i] \notin Seen
        BY <2>1 DEF Seen
      <3> QED
        BY <3>1, <3>2, FilterWithin
    <2>4. \E i \in 0..Len(s) : t = SubSeq(s, i + 1, i + Len(t))
      <3>1. a - 1 \in 0..Len(s) /\ (a - 1) + 1 = a /\ (a - 1) + Len(t) = b
        BY <1>0, <2>1, <2>2
      <3>2. t = SubSeq(s, (a - 1) + 1, (a - 1) + Len(t))
        BY <3>1
      <3> QED
        BY <3>1, <3>2
    <2> HIDE DEF t
    <2>5. TrimmedFrom(t, s)
      BY <2>1, <2>2, <2>3, <2>4 DEF TrimmedFrom
    <2> QED
      BY <2>1, <2>5 DEF t
  <1> QED
    BY <1>1, <1>2

(***************************************************************************)
(* A text without blanks at its ends is left as it is.                     *)
(***************************************************************************)
LEMMA TrimAgain ==
    ASSUME NEW s \in Seq(Characters),
           s # <<>> => s[1] \notin Blank /\ s[Len(s)] \notin Blank
    PROVE  Trim(s) = s
  <1>1. CASE s = <<>>
    <2>1. {i \in DOMAIN s : s[i] \notin Blank} = {}
      BY <1>1
    <2> QED
      BY <1>1, <2>1 DEF Trim
  <1>2. CASE s # <<>>
    <2>1. Len(s) \in Nat /\ Len(s) >= 1 /\ 1 \in 1..Len(s) /\ Len(s) \in 1..Len(s)
      BY <1>2
    <2>2. PICK a \in 1..Len(s), b \in 1..Len(s) :
             /\ a <= b /\ Trim(s) = SubSeq(s, a, b)
             /\ s[a] \notin Blank /\ s[b] \notin Blank
             /\ \A i \in 1..Len(s) : s[i] \notin Blank => a <= i /\ i <= b
      BY <1>2, <2>1, TrimEnds
    <2>3. a = 1 /\ b = Len(s)
      BY <1>2, <2>1, <2>2
    <2>4. SubSeq(s, 1, Len(s)) = s
      OBVIOUS
    <2> QED
      BY <2>2, <2>3, <2>4
  <1> QED
    BY <1>1, <1>2

(***************************************************************************)
(* The text of a field, when the code page has all its characters.         *)
(***************************************************************************)
LEMMA TextIsTrimmed ==
    ASSUME bytes \in Seq(0..255), Unassigned = {}
    PROVE  /\ Kept \in Seq(Characters)
           /\ TrimmedFrom(Clean(Translated), Kept)
  <1>1. Translated \in Seq(Characters)
    <2>1. Len(bytes) \in Nat /\ DOMAIN bytes = 1..Len(bytes)
      OBVIOUS
    <2>2. \A i \in DOMAIN bytes : CodePage[bytes[i]] \in Characters
      BY DEF Unassigned, Characters
    <2>3. Translated \in [1..Len(bytes) -> Characters]
      BY <2>1, <2>2 DEF Translated
    <2> QED
      BY <2>1, <2>3, IntervalIsSeq
  <1>2. Kept \in Seq(Characters)
    BY <1>1, FilterPicks DEF Kept
  <1>3. Strip(Translated) = Kept
    <2>1. CASE strip_control
      BY <2>1 DEF Strip, Kept
    <2>2. CASE ~strip_control
      <3>1. \A i \in 1..Len(Translated) : Translated[i] \in Characters \ {}
        BY <1>1
      <3>2. Filter(Translated, Characters \ {}) = Translated
        BY <1>1, <3>1, FilterEach
      <3> QED
        BY <2>2, <3>2 DEF Strip, Kept
    <2> QED
      BY <2>1, <2>2
  <1>4. TrimmedFrom(Trim(Kept), Kept)
    BY <1>2, TrimKeeps
  <1> QED
    BY <1>2, <1>3, <1>4 DEF Clean

(***************************************************************************)
(* A text that parses as a number is all sign and digits, so the number is *)
(* the one its digits spell.                                               *)
(***************************************************************************)
LEMMA ParsedIsTheNumber ==
    ASSUME NEW t, TrimmedFrom(t, Kept), IsNumber(t), Kept \in Seq(Characters)
    PROVE  Parsed(t) = TextNumber
  <1> DEFINE N == DOMAIN Numeral
             d == DigitsIn(t)
             printing == Filter(Kept, Seen)
             signed == t # <<>> /\ t[1] \in {"+", "-"}
  <1>1. /\ t \in Seq(Characters) /\ Len(t) \in Nat /\ DOMAIN t = 1..Len(t)
        /\ printing = Filter(t, Seen)
        /\ \A i \in 1..Len(t) : t[i] \in Characters
    BY DEF TrimmedFrom
  <1>2. d # <<>> /\ ToSet(d) \subseteq N
    BY DEF IsNumber
  <1>3. /\ N \cap Blank = {} /\ "+" \notin N /\ "-" \notin N
        /\ "+" \notin Blank /\ "-" \notin Blank
    BY WidthAssumption
  <1>4. /\ \A i \in 1..Len(t) : t[i] \notin Blank
        /\ Filter(t, N) = d
        /\ t # <<>>
        /\ (t[1] = "-") <=> (SignOf(t) = <<"-">>)
    <2>1. CASE signed
      <3>1. /\ SignOf(t) = SubSeq(t, 1, 1) /\ Len(t) >= 1
            /\ SubSeq(t, 1, 1) = <<t[1]>> /\ Len(<<t[1]>>) = 1
        <4>1. SignOf(t) = SubSeq(t, 1, 1)
          BY <2>1 DEF SignOf
        <4>2. Len(t) >= 1
          BY <1>1, <2>1
        <4>3. SubSeq(t, 1, 1) = <<t[1]>>
          BY <1>1, <4>2, FirstAlone
        <4>4. Len(<<t[1]>>) = 1
          OBVIOUS
        <4> QED
          BY <4>1, <4>2, <4>3, <4>4
      <3>2. d = SubSeq(t, 2, Len(t))
        BY <3>1 DEF DigitsIn
      <3>3. Len(t) >= 2
        <4>1. CASE Len(t) = 1
          <5>1. SubSeq(t, 2, Len(t)) = <<>>
            BY <1>1, <4>1
          <5> QED
            BY <1>2, <3>2, <5>1
        <4> QED
          BY <1>1, <3>1, <4>1
      <3>4. /\ d \in Seq(Characters) /\ Len(d) = Len(t) - 1
            /\ DOMAIN d = 1..Len(d)
            /\ \A i \in 1..Len(d) : d[i] = t[i + 1]
        BY <1>1, <3>2, <3>3
      <3> HIDE DEF d
      <3>5. \A i \in 1..Len(d) : d[i] \in N
        BY <1>2, <3>4 DEF ToSet
      <3>6. \A i \in 1..Len(t) : i > 1 => t[i] \in N
        <4>1. \A i \in 1..Len(t) : i > 1 => i - 1 \in 1..Len(d) /\ (i - 1) + 1 = i
          BY <1>1, <3>4
        <4> QED
          BY <3>4, <3>5, <4>1
      <3>7. \A i \in 1..Len(t) : t[i] \notin Blank
        <4>1. \A i \in 1..Len(t) : i > 1 \/ i = 1
          BY <1>1
        <4> QED
          BY <1>3, <2>1, <3>6, <4>1
      <3>8. Filter(t, N) = d
        <4>1. 2 \in 1..Len(t) /\ Len(t) \in 2..Len(t)
          BY <1>1, <3>3
        <4>2. \A i \in 1..Len(t) : i < 2 \/ i > Len(t) => t[i] \notin N
          BY <1>1, <1>3, <2>1
        <4>3. Filter(SubSeq(t, 2, Len(t)), N) = Filter(t, N)
          BY <1>1, <4>1, <4>2, FilterWithin
        <4>4. Filter(d, N) = d
          BY <3>4, <3>5, FilterEach
        <4> QED
          BY <3>2, <4>3, <4>4
      <3>9. (t[1] = "-") <=> (SignOf(t) = <<"-">>)
        <4>1. SignOf(t) = <<t[1]>>
          BY <3>1
        <4>2. \A x, y : <<x>> = <<y>> <=> x = y
          OBVIOUS
        <4> QED
          BY <4>1, <4>2
      <3> QED
        BY <2>1, <3>7, <3>8, <3>9
    <2>2. CASE ~signed
      <3>1. SignOf(t) = <<>> /\ Len(<<>>) = 0
        BY <2>2 DEF SignOf
      <3>2. d = t
        BY <1>1, <3>1 DEF DigitsIn
      <3>3. \A i \in 1..Len(t) : t[i] \in N
        BY <1>1, <1>2, <3>2 DEF ToSet
      <3>4. Filter(t, N) = d
        BY <1>1, <3>2, <3>3, FilterEach
      <3>5. t # <<>> /\ 1 \in 1..Len(t)
        BY <1>1, <1>2, <3>2
      <3>6. t[1] # "-"
        BY <1>3, <3>3, <3>5
      <3>7. SignOf(t) # <<"-">>
        BY <3>1
      <3> QED
        BY <1>3, <3>3, <3>4, <3>5, <3>6, <3>7
    <2> QED
      BY <2>1, <2>2
  <1>5. printing = t
    <2>1. \A i \in 1..Len(t) : t[i] \in Seen
      BY <1>1, <1>4 DEF Seen
    <2>2. Filter(t, Seen) = t
      BY <1>1, <2>1, FilterEach
    <2> QED
      BY <1>1, <2>2
  <1>6. Filter(printing, N) = d
    BY <1>4, <1>5
  <1> DEFINE n == Positional([i \in DOMAIN d |-> Numeral[d[i]]], 10)
  <1>7. Parsed(t) = IF SignOf(t) = <<"-">> THEN -n ELSE n
    BY DEF Parsed
  <1>8. TextNumber = IF printing[1] = "-" THEN -n ELSE n
    BY <1>6 DEF TextNumber, Seen
  <1> HIDE DEF n, d, printing
  <1> QED
    BY <1>4, <1>5, <1>7, <1>8

-----------------------------------------------------------------------------
(***************************************************************************)
(* The digits of a number: as many as it takes until nothing is left.      *)
(***************************************************************************)
LEMMA DigitCountIs ==
    ASSUME NEW n \in Nat
    PROVE  /\ DigitCount(n) \in Nat /\ DigitCount(n) >= 1
           /\ Shorter(n, 10, DigitCount(n)) = 0
           /\ DigitCount(n) > 1 => Shorter(n, 10, DigitCount(n) - 1) # 0
  <1>1. \E k \in 1..(n + 1) : /\ Shorter(n, 10, k) = 0
                              /\ k > 1 => Shorter(n, 10, k - 1) # 0
    BY ShorterEnds
  <1>2. /\ DigitCount(n) \in 1..(n + 1)
        /\ Shorter(n, 10, DigitCount(n)) = 0
        /\ DigitCount(n) > 1 => Shorter(n, 10, DigitCount(n) - 1) # 0
    BY <1>1 DEF DigitCount
  <1> QED
    BY <1>2

(***************************************************************************)
(* They read back as the number, and the first is not zero unless it is    *)
(* the only one.                                                           *)
(***************************************************************************)
LEMMA DigitSeqReads ==
    ASSUME NEW n \in Nat
    PROVE  /\ DigitSeq(n) \in Seq(0..9)
           /\ Len(DigitSeq(n)) >= 1
           /\ Positional(DigitSeq(n), 10) = n
           /\ DigitSeq(n)[1] = 0 => Len(DigitSeq(n)) = 1
  <1> DEFINE D == DigitCount(n)
             q(i) == Shorter(n, 10, i)
             s == DigitSeq(n)
  <1>1. /\ D \in Nat /\ D >= 1 /\ q(D) = 0
        /\ D > 1 => q(D - 1) # 0
    BY DigitCountIs
  <1>2. /\ q(0) = n
        /\ \A i \in Nat : q(i) \in Nat /\ q(i + 1) = q(i) \div 10
    <2>1. 10 \in Nat \ {0}
      OBVIOUS
    <2> QED
      BY <2>1, ShorterNext
  <1>3. s = [i \in 1..D |-> q(D - i) % 10]
    BY DEF DigitSeq
  <1> HIDE DEF D, q, s
  <1>4. \A i \in 1..D : s[i] = q(D - i) % 10 /\ s[i] \in 0..9
    <2> SUFFICES ASSUME NEW i \in 1..D
                 PROVE  s[i] = q(D - i) % 10 /\ s[i] \in 0..9
      OBVIOUS
    <2>1. D - i \in Nat
      BY <1>1
    <2>2. q(D - i) \in Nat
      BY <1>2, <2>1
    <2>3. q(D - i) % 10 \in 0..9
      BY <2>2
    <2> QED
      BY <1>3, <2>3
  <1>5. s \in Seq(0..9) /\ Len(s) = D
    <2>1. s \in [1..D -> 0..9]
      BY <1>3, <1>4
    <2> QED
      BY <1>1, <2>1, IntervalIsSeq
  <1>6. Positional(s, 10) = n
    <2>1. s \in Seq(Nat) /\ 10 \in Nat
      BY <1>5
    <2>2. PICK f : ReadsDigits(f, s, 10)
      BY <2>1, PositionalUnfold
    <2> DEFINE U == {j \in 0..D : f[j] = q(D - j)}
    <2>3. 0 \in U
      <3>1. 0 \in 0..D /\ D - 0 = D /\ f[0] = 0
        BY <1>1, <2>2 DEF ReadsDigits
      <3> QED
        BY <1>1, <3>1
    <2>4. ASSUME NEW j \in 1..D, j - 1 \in U
          PROVE  j \in U
      <3>1. /\ j \in 0..D /\ D - j \in Nat /\ (D - j) + 1 = D - (j - 1)
            /\ f[j - 1] = q(D - (j - 1))
        BY <1>1, <2>4
      <3>2. f[j] = f[j - 1] * 10 + s[j]
        BY <1>5, <2>2 DEF ReadsDigits
      <3>3. /\ q(D - j) \in Nat /\ q(D - (j - 1)) = q(D - j) \div 10
            /\ s[j] = q(D - j) % 10
        <4>1. q(D - j) \in Nat /\ q((D - j) + 1) = q(D - j) \div 10
          BY <1>2, <3>1
        <4> QED
          BY <1>4, <3>1, <4>1, Zenon
      <3>4. (q(D - j) \div 10) * 10 + (q(D - j) % 10) = q(D - j)
        <4>1. \A x \in Nat : (x \div 10) * 10 + (x % 10) = x
          OBVIOUS
        <4> QED
          BY <3>3, <4>1, Zenon
      <3>5. f[j] = q(D - j)
        BY <3>1, <3>2, <3>3, <3>4, Zenon
      <3> QED
        BY <3>1, <3>5
    <2> HIDE DEF U
    <2>5. D \in U
      <3>1. \A j \in 0..D : j \in U
        BY <1>1, <2>3, <2>4, IntervalInduction
      <3> QED
        BY <1>1, <3>1
    <2>6. f[D] = n
      <3>1. D - D = 0
        BY <1>1
      <3> QED
        BY <1>2, <2>5, <3>1 DEF U
    <2> QED
      BY <1>5, <2>2, <2>6 DEF ReadsDigits
  <1>7. s[1] = 0 => D = 1
    <2> SUFFICES ASSUME s[1] = 0, D > 1
                 PROVE  FALSE
      BY <1>1
    <2>1. 1 \in 1..D /\ D - 1 \in Nat /\ (D - 1) + 1 = D
      BY <1>1
    <2>2. /\ q(D - 1) \in Nat /\ q(D - 1) # 0
          /\ q(D - 1) \div 10 = 0 /\ q(D - 1) % 10 = 0
      BY <1>1, <1>2, <1>4, <2>1
    <2> QED
      BY <2>2
  <1> QED
    BY <1>1, <1>5, <1>6, <1>7 DEF s

(***************************************************************************)
(* t says n: what its digits read as, with its sign and its point.         *)
(***************************************************************************)
Says(t, n, scale) ==
    /\ n = IF t.negative THEN -Positional(t.whole \o t.fraction, 10)
                         ELSE Positional(t.whole \o t.fraction, 10)
    /\ t.negative => Positional(t.whole \o t.fraction, 10) > 0
    /\ Len(t.fraction) = scale
    /\ Len(t.whole) >= 1
    /\ t.whole[1] = 0 => Len(t.whole) = 1

(***************************************************************************)
(* Enough digits for the point: the same number, with no zero in front but *)
(* the one before the point.                                               *)
(***************************************************************************)
LEMMA PaddedReads ==
    ASSUME NEW s \in Seq(0..9), NEW scale \in Nat, Len(s) >= 1,
           s[1] = 0 => Len(s) = 1
    PROVE  /\ Padded(s, scale) \in Seq(0..9)
           /\ Len(Padded(s, scale)) >= scale + 1
           /\ Positional(Padded(s, scale), 10) = Positional(s, 10)
           /\ Padded(s, scale)[1] = 0 => Len(Padded(s, scale)) = scale + 1
  <1>1. Len(s) \in Nat /\ \A i \in 1..Len(s) : s[i] \in 0..9
    OBVIOUS
  <1>2. CASE Len(s) > scale
    <2>1. Padded(s, scale) = s
      <3>1. ~(Len(s) <= scale)
        BY <1>1, <1>2
      <3> QED
        BY <3>1, Zenon DEF Padded
    <2>2. ASSUME s[1] = 0
          PROVE  Len(s) = scale + 1
      <3>1. Len(s) = 1
        BY <2>2
      <3> QED
        BY <1>2, <3>1
    <2> QED
      BY <1>1, <1>2, <2>1, <2>2
  <1>3. CASE Len(s) <= scale
    <2> DEFINE z == scale + 1 - Len(s)
               o == Zeros(z)
               t == o \o s
    <2>1. z \in Nat /\ z >= 1 /\ z + Len(s) = scale + 1
      BY <1>1, <1>3
    <2> HIDE DEF z
    <2>2. o \in Seq(0..9) /\ Len(o) = z /\ \A i \in 1..z : o[i] = 0
      <3>1. o = [i \in 1..z |-> 0]
        BY DEF Zeros
      <3>2. o \in [1..z -> 0..9]
        BY <3>1
      <3>3. o \in Seq(0..9) /\ Len(o) = z
        BY <2>1, <3>2, IntervalIsSeq
      <3> QED
        BY <3>1, <3>3
    <2> HIDE DEF o
    <2>3. /\ t \in Seq(0..9) /\ Len(t) = Len(o) + Len(s)
          /\ \A i \in 1..(Len(o) + Len(s)) :
                t[i] = IF i <= Len(o) THEN o[i] ELSE s[i - Len(o)]
      BY <2>2, ConcatProperties, Zenon
    <2> HIDE DEF t
    <2>4. Len(t) = z + Len(s) /\ Len(t) = scale + 1
      BY <2>1, <2>2, <2>3
    <2>5. \A i \in 1..z : t[i] = 0
      <3>1. \A i \in 1..z : i \in 1..(z + Len(s)) /\ i <= z
        BY <1>1, <2>1
      <3> QED
        BY <2>2, <2>3, <3>1
    <2>6. \A i \in 1..Len(s) : t[z + i] = s[i]
      <3>1. \A i \in 1..Len(s) : z + i \in 1..(z + Len(s)) /\ ~(z + i <= z)
                                 /\ (z + i) - z = i
        BY <1>1, <2>1
      <3> QED
        BY <2>2, <2>3, <3>1
    <2>7. Positional(t, 10) = Positional(s, 10)
      <3>0. 0..9 \subseteq Nat /\ 10 \in Nat
        OBVIOUS
      <3>1. s \in Seq(Nat) /\ t \in Seq(Nat) /\ 10 \in Nat
        BY <2>3, <3>0, SeqWidens
      <3>2. z \in Nat /\ Len(t) = z + Len(s)
        BY <2>1, <2>4
      <3> QED
        BY <2>5, <2>6, <3>1, <3>2, PositionalPadded
    <2>8. Padded(s, scale) = t
      BY <1>3 DEF Padded, t, o, z
    <2> QED
      BY <2>3, <2>4, <2>7, <2>8
  <1> QED
    BY <1>1, <1>2, <1>3

(***************************************************************************)
(* A rendered number says the number (render_decimal).                     *)
(***************************************************************************)
LEMMA RenderSays ==
    ASSUME NEW n \in Int, NEW scale \in Nat
    PROVE  Says(Render(n, scale), n, scale)
  <1> DEFINE a == Abs(n)
             s == Padded(DigitSeq(a), scale)
             split == Len(s) - scale
             whole == SubSeq(s, 1, split)
             fraction == SubSeq(s, split + 1, Len(s))
             t == Render(n, scale)
  <1>1. a \in Nat /\ n = IF n < 0 THEN -a ELSE a
    BY DEF Abs
  <1>2. t.negative = (n < 0) /\ t.whole = whole /\ t.fraction = fraction
    BY DEF Render
  <1> HIDE DEF a, t
  <1>3. /\ s \in Seq(0..9) /\ Len(s) >= scale + 1
        /\ Positional(s, 10) = a
        /\ s[1] = 0 => Len(s) = scale + 1
    BY <1>1, DigitSeqReads, PaddedReads
  <1> HIDE DEF s
  <1>4. Len(s) \in Nat /\ split \in Nat /\ split >= 1 /\ split <= Len(s)
        /\ split \in 0..Len(s) /\ Len(s) - split = scale
    BY <1>3
  <1> HIDE DEF split
  <1>5. whole \o fraction = s
    BY <1>3, <1>4, SplitJoins
  <1>6. Len(whole) = split /\ whole[1] = s[1]
    BY <1>3, <1>4
  <1>7. Len(fraction) = scale
    BY <1>3, <1>4
  <1> HIDE DEF whole, fraction
  <1>8. whole[1] = 0 => split = 1
    BY <1>3, <1>4, <1>6
  <1>9. /\ Positional(t.whole \o t.fraction, 10) = a
        /\ Len(t.fraction) = scale /\ Len(t.whole) >= 1
        /\ t.whole[1] = 0 => Len(t.whole) = 1
    <2>1. t.whole \o t.fraction = s
      BY <1>2, <1>5, Zenon
    <2>2. Positional(t.whole \o t.fraction, 10) = a
      BY <1>3, <2>1, Zenon
    <2>3. Len(t.fraction) = scale /\ Len(t.whole) = split /\ t.whole[1] = whole[1]
      BY <1>2, <1>6, <1>7, Zenon
    <2>4. Len(t.whole) >= 1 /\ (t.whole[1] = 0 => Len(t.whole) = 1)
      BY <1>4, <1>8, <2>3, Zenon
    <2> QED
      BY <2>2, <2>3, <2>4
  <1>10. n < 0 => a > 0
    BY <1>1
  <1>11. /\ t.negative => a > 0
         /\ n = IF t.negative THEN -a ELSE a
    BY <1>1, <1>2, <1>10, Zenon
  <1> QED
    BY <1>9, <1>11 DEF Says, t

-----------------------------------------------------------------------------
(***************************************************************************)
(* The digits and the bytes folded in so far, and a field with a nibble    *)
(* that is no digit.                                                       *)
(***************************************************************************)
DigitsUpto(k) == [i \in 1..k |-> DigitAt(i - 1)]
BytesUpto(k) == [i \in 1..k |-> bytes[i]]
Corrupt == \E i \in DOMAIN DigitNibbles : DigitNibbles[i] > 9

ConfigOK ==
    /\ role \in {"cell", "record_type", "record_length"}
    /\ type_size \in TypeSizes
    /\ field \in [kind : Kinds, size : Sizes, scale : Scales]
    /\ bytes \in BytesOf([kind |-> field.kind, size |-> field.size])

(***************************************************************************)
(* What is read of a field does not change while it is decoded.            *)
(***************************************************************************)
LEMMA ConfigStays ==
    ASSUME config' = config
    PROVE  /\ ConfigOK' = ConfigOK /\ Declared' = Declared
           /\ DigitsOf' = DigitsOf /\ Corrupt' = Corrupt
           /\ TooWide' = TooWide /\ StartFrom' = StartFrom
           /\ Unassigned' = Unassigned /\ Clean(Translated)' = Clean(Translated)
           /\ Meaning' = Meaning /\ prefix_size' = prefix_size
           /\ \A k : /\ NotADigit(k)' = NotADigit(k)
                     /\ DigitsUpto(k)' = DigitsUpto(k)
                     /\ BytesUpto(k)' = BytesUpto(k)
  <1>1. /\ overflow_checks' = overflow_checks /\ role' = role
        /\ strip_control' = strip_control /\ type_size' = type_size
        /\ field' = field /\ bytes' = bytes
    BY DEF config
  <1>2. \A k : Nibble(k)' = Nibble(k)
    BY <1>1 DEF Nibble
  <1>3. \A k : DigitAt(k)' = DigitAt(k)
    BY <1>1, <1>2 DEF DigitAt
  <1>4. \A k : /\ NotADigit(k)' = NotADigit(k)
               /\ DigitsUpto(k)' = DigitsUpto(k)
               /\ BytesUpto(k)' = BytesUpto(k)
    BY <1>1, <1>3 DEF NotADigit, DigitsUpto, BytesUpto
  <1>5. ConfigOK' = ConfigOK /\ Declared' = Declared
    BY <1>1 DEF ConfigOK, Declared, WidthOK, ScaleOK, Limit, Digits
  <1>6. /\ DigitsOf' = DigitsOf /\ TooWide' = TooWide /\ StartFrom' = StartFrom
        /\ Unassigned' = Unassigned /\ prefix_size' = prefix_size
    BY <1>1 DEF DigitsOf, TooWide, StartFrom, Unassigned, prefix_size, TopBit
  <1>7. DigitNibbles' = DigitNibbles
    <2>1. Nibbles' = Nibbles
      BY <1>1, <1>2 DEF Nibbles
    <2> QED
      BY <1>1, <2>1 DEF DigitNibbles
  <1>8. Corrupt' = Corrupt
    BY <1>7 DEF Corrupt
  <1>9. Translated' = Translated
    BY <1>1 DEF Translated
  <1>10. Clean(Translated)' = Clean(Translated)
    BY <1>1, <1>9 DEF Clean, Strip
  <1>11. Kept' = Kept
    BY <1>1, <1>9 DEF Kept
  <1>12. TextNumber' = TextNumber
    BY <1>11 DEF TextNumber
  <1>13. Signed' = Signed
    BY <1>1 DEF Signed, SignByte
  <1>14. Meaning' = Meaning
    BY <1>1, <1>7, <1>12, <1>13 DEF Meaning, TopBit
  <1> QED
    BY <1>4, <1>5, <1>6, <1>8, <1>10, <1>14

(***************************************************************************)
(* The bytes of a field are bytes, as many as it declares.                 *)
(***************************************************************************)
LEMMA BytesAre ==
    ASSUME ConfigOK
    PROVE  /\ field.kind \in Kinds /\ field.size \in Nat /\ field.scale \in Nat
           /\ type_size \in Nat
           /\ bytes \in [1..field.size -> 0..255]
           /\ bytes \in Seq(0..255) /\ Len(bytes) = field.size
  <1>1. field.kind \in Kinds /\ field.size \in Sizes /\ field.scale \in Scales
    BY DEF ConfigOK
  <1>2. Sizes \subseteq Nat /\ Scales \subseteq Nat /\ TypeSizes \subseteq Nat
    BY WidthAssumption
  <1>3. BytesOf([kind |-> field.kind, size |-> field.size])
           \subseteq [1..field.size -> 0..255]
    BY <1>1, WidthAssumption
  <1>4. bytes \in [1..field.size -> 0..255] /\ type_size \in TypeSizes
    BY <1>3 DEF ConfigOK
  <1>5. field.size \in Nat
    BY <1>1, <1>2
  <1>6. bytes \in Seq(0..255) /\ Len(bytes) = field.size
    <2> DEFINE n == field.size
               S == 0..255
    <2>1. n \in Nat /\ bytes \in [1..n -> S]
      BY <1>4, <1>5
    <2> HIDE DEF n, S
    <2>2. bytes \in Seq(S) /\ Len(bytes) = n
      BY <2>1, IntervalIsSeq
    <2> QED
      BY <2>2 DEF n, S
  <1> QED
    BY <1>1, <1>2, <1>4, <1>5, <1>6

(***************************************************************************)
(* The kinds are told apart.                                               *)
(***************************************************************************)
LEMMA KindsDiffer ==
    /\ Packed \notin Binary /\ Zoned \notin Binary /\ Text \notin Binary
    /\ Packed # Zoned /\ Packed # Text /\ Zoned # Text /\ Integer # Unsigned
    /\ \A k \in Kinds : k \in {Packed, Zoned} \/ k = Text \/ k \in Binary
  BY DEF Packed, Zoned, Text, Binary, Integer, Unsigned, Kinds

(***************************************************************************)
(* The digits of a declared packed or zoned field: nibbles, of which the   *)
(* layout lets through no more than fit half of the accumulator.           *)
(***************************************************************************)
LEMMA DigitsAre ==
    ASSUME ConfigOK, Declared, field.kind \in {Packed, Zoned}
    PROVE  /\ DigitsOf \in Nat /\ DigitsOf >= 1
           /\ Power(10, DigitsOf) <= Quarter
           /\ \A i \in 0..(DigitsOf - 1) : DigitAt(i) \in 0..15
           /\ DigitNibbles = DigitsUpto(DigitsOf)
           /\ Corrupt <=> \E i \in 0..(DigitsOf - 1) : NotADigit(i)
  <1> DEFINE n == field.size
  <1>1. n \in Nat /\ n >= 1 /\ bytes \in [1..n -> 0..255]
    BY BytesAre DEF Declared, WidthOK
  <1>2. /\ {MaxPackedBytes, MaxZonedBytes} \subseteq Nat
        /\ Power(10, 2 * MaxPackedBytes - 1) <= Quarter
        /\ Power(10, MaxZonedBytes) <= Quarter
    BY WidthAssumption DEF Quarter
  <1>3. \A b \in 0..255 : High(b) \in 0..15 /\ Low(b) \in 0..15
    BY DEF High, Low
  <1>4. 10 \in Nat \ {0} /\ 10 \in Nat
    OBVIOUS
  <1>5. CASE field.kind = Packed
    <2>1. n <= MaxPackedBytes
      BY <1>5, KindsDiffer DEF Declared, WidthOK, Limit
    <2>2. DigitsOf = 2 * n - 1
      BY <1>5 DEF DigitsOf
    <2>3. /\ 2 * n - 1 \in Nat /\ 2 * n - 1 >= 1
          /\ 2 * MaxPackedBytes - 1 \in Nat
          /\ 2 * n - 1 <= 2 * MaxPackedBytes - 1
      BY <1>1, <1>2, <2>1
    <2>4. Power(10, 2 * n - 1) <= Quarter
      <3>1. Power(10, 2 * n - 1) <= Power(10, 2 * MaxPackedBytes - 1)
        BY <1>4, <2>3, PowerGrows
      <3>2. Power(10, 2 * n - 1) \in Nat /\ Power(10, 2 * MaxPackedBytes - 1) \in Nat
        BY <1>4, <2>3, PowerNext
      <3> QED
        BY <1>2, <3>1, <3>2, Widths
    <2>5. \A i \in 0..(2 * n - 1) : Nibble(i) \in 0..15
      <3> SUFFICES ASSUME NEW i \in 0..(2 * n - 1)
                   PROVE  Nibble(i) \in 0..15
        OBVIOUS
      <3>1. (i \div 2) + 1 \in 1..n
        BY <1>1
      <3>2. bytes[(i \div 2) + 1] \in 0..255
        BY <1>1, <3>1
      <3> QED
        BY <1>3, <3>2 DEF Nibble
    <2>6. \A i : DigitAt(i) = Nibble(i)
      BY <1>5 DEF DigitAt
    <2>7. DigitNibbles = DigitsUpto(DigitsOf)
      <3>1. Nibbles \in [1..(2 * n) -> 0..15]
        <4>1. \A i \in 1..(2 * n) : i - 1 \in 0..(2 * n - 1)
          BY <1>1
        <4> QED
          BY <2>5, <4>1 DEF Nibbles
      <3>2. Nibbles \in Seq(0..15) /\ Len(Nibbles) = 2 * n
        <4>1. 2 * n \in Nat
          BY <1>1
        <4> QED
          BY <3>1, <4>1, IntervalIsSeq
      <3>3. \A i \in 1..(2 * n - 1) : Nibbles[i] = Nibble(i - 1)
        BY <1>1 DEF Nibbles
      <3> DEFINE u == SubSeq(Nibbles, 1, 2 * n - 1)
      <3>4. /\ u \in Seq(0..15) /\ Len(u) = 2 * n - 1
            /\ \A i \in 1..(2 * n - 1) : u[i] = Nibbles[i]
        <4>1. 2 * n - 1 \in 0..Len(Nibbles)
          BY <2>3, <3>2
        <4> QED
          BY <3>2, <4>1, FrontIs
      <3>5. DigitNibbles = u
        BY <1>5 DEF DigitNibbles
      <3> HIDE DEF u, n
      <3> DEFINE m == 2 * n - 1
                 w == [i \in 1..m |-> Nibble(i - 1)]
      <3>6. m \in Nat /\ \A i \in 1..m : i - 1 \in 0..(2 * n - 1)
        BY <1>1
      <3>7. u \in Seq(0..15) /\ Len(u) = m /\ \A i \in 1..m : u[i] = Nibble(i - 1)
        BY <3>3, <3>4
      <3> HIDE DEF m
      <3>8. w \in [1..m -> 0..15]
        BY <2>5, <3>6
      <3>9. w \in Seq(0..15) /\ Len(w) = m
        BY <3>6, <3>8, IntervalIsSeq
      <3>10. \A i \in 1..m : w[i] = Nibble(i - 1)
        OBVIOUS
      <3> HIDE DEF w
      <3>11. Len(u) = Len(w) /\ \A i \in 1..Len(u) : u[i] = w[i]
        BY <3>7, <3>9, <3>10
      <3>12. u = w
        BY <3>7, <3>9, <3>11, SeqEqual
      <3>13. DigitsUpto(DigitsOf) = w
        BY <2>2, <2>6 DEF DigitsUpto, w, m
      <3> QED
        BY <3>5, <3>12, <3>13
    <2>8. DOMAIN DigitNibbles = 1..DigitsOf
          /\ \A i \in 1..DigitsOf : DigitNibbles[i] = DigitAt(i - 1)
      BY <2>7 DEF DigitsUpto
    <2>9. Corrupt <=> \E i \in 0..(DigitsOf - 1) : NotADigit(i)
      <3> HIDE DEF n
      <3>1. /\ \A i \in 1..DigitsOf : i - 1 \in 0..(DigitsOf - 1)
            /\ \A i \in 0..(DigitsOf - 1) : i + 1 \in 1..DigitsOf /\ (i + 1) - 1 = i
        BY <2>2, <2>3
      <3> QED
        BY <2>8, <3>1 DEF Corrupt, NotADigit
    <2>10. \A i \in 0..(DigitsOf - 1) : DigitAt(i) \in 0..15
      <3>1. \A i \in 0..(DigitsOf - 1) : i \in 0..(2 * n - 1)
        BY <2>2, <2>3
      <3> QED
        BY <2>5, <2>6, <3>1
    <2> QED
      BY <2>2, <2>3, <2>4, <2>7, <2>9, <2>10
  <1>6. CASE field.kind = Zoned
    <2>0. field.kind # Packed
      BY <1>6, KindsDiffer
    <2>1. n <= MaxZonedBytes
      BY <1>6, KindsDiffer DEF Declared, WidthOK, Limit
    <2>2. DigitsOf = n
      BY <2>0 DEF DigitsOf
    <2>3. Power(10, n) <= Quarter
      <3>1. MaxZonedBytes \in Nat
        BY <1>2
      <3>2. Power(10, n) <= Power(10, MaxZonedBytes)
        BY <1>1, <1>4, <2>1, <3>1, PowerGrows
      <3>3. Power(10, n) \in Nat /\ Power(10, MaxZonedBytes) \in Nat
        BY <1>1, <1>4, <3>1, PowerNext
      <3> QED
        BY <1>2, <3>2, <3>3, Widths
    <2>4. \A i : DigitAt(i) = Low(bytes[i + 1])
      BY <2>0 DEF DigitAt
    <2>5. \A i \in 0..(n - 1) : DigitAt(i) \in 0..15
      <3>1. \A i \in 0..(n - 1) : i + 1 \in 1..n
        BY <1>1
      <3> QED
        BY <1>1, <1>3, <2>4, <3>1
    <2>6. DigitNibbles = DigitsUpto(DigitsOf)
      <3>1. \A i \in 1..n : (i - 1) + 1 = i
        BY <1>1
      <3>2. \A i \in 1..n : Low(bytes[i]) = DigitAt(i - 1)
        BY <2>4, <3>1
      <3> QED
        BY <2>0, <2>2, <3>2 DEF DigitNibbles, DigitsUpto
    <2>7. Corrupt <=> \E i \in 0..(DigitsOf - 1) : NotADigit(i)
      <3>1. DOMAIN DigitNibbles = 1..DigitsOf
            /\ \A i \in 1..DigitsOf : DigitNibbles[i] = DigitAt(i - 1)
        BY <2>6 DEF DigitsUpto
      <3>2. /\ \A i \in 1..DigitsOf : i - 1 \in 0..(DigitsOf - 1)
            /\ \A i \in 0..(DigitsOf - 1) : i + 1 \in 1..DigitsOf /\ (i + 1) - 1 = i
        BY <1>1, <2>2
      <3> QED
        BY <3>1, <3>2 DEF Corrupt, NotADigit
    <2> QED
      BY <1>1, <2>2, <2>3, <2>5, <2>6, <2>7
  <1> QED
    BY <1>5, <1>6

(***************************************************************************)
(* What the digits read so far come to: one more digit shifts them, and    *)
(* they stay within half of the accumulator.                               *)
(***************************************************************************)
LEMMA DigitsRead ==
    ASSUME ConfigOK, Declared, field.kind \in {Packed, Zoned},
           NEW k \in 0..DigitsOf, \A i \in 0..(k - 1) : ~NotADigit(i)
    PROVE  /\ Positional(DigitsUpto(k), 10) \in Nat
           /\ Positional(DigitsUpto(k), 10) < Quarter
           /\ k = 0 => Positional(DigitsUpto(k), 10) = 0
           /\ k < DigitsOf =>
                 Positional(DigitsUpto(k + 1), 10) =
                     Positional(DigitsUpto(k), 10) * 10 + DigitAt(k)
  <1>1. /\ DigitsOf \in Nat /\ Power(10, DigitsOf) <= Quarter
        /\ \A i \in 0..(DigitsOf - 1) : DigitAt(i) \in 0..15
    BY DigitsAre
  <1>2. k \in Nat /\ k <= DigitsOf /\ 10 \in Nat /\ 10 \in Nat \ {0}
    BY <1>1
  <1> DEFINE s == DigitsUpto(k)
  <1>3. s \in Seq(0..9) /\ Len(s) = k /\ \A i \in 1..k : s[i] = DigitAt(i - 1)
    <2>1. s = [i \in 1..k |-> DigitAt(i - 1)]
      BY DEF DigitsUpto
    <2>2. ASSUME NEW i \in 1..k
          PROVE  DigitAt(i - 1) \in 0..9
      <3>1. i - 1 \in 0..(k - 1) /\ i - 1 \in 0..(DigitsOf - 1)
        BY <1>1, <1>2
      <3>2. DigitAt(i - 1) \in 0..15 /\ ~(DigitAt(i - 1) > 9)
        BY <1>1, <3>1 DEF NotADigit
      <3> QED
        BY <3>2
    <2> HIDE DEF s
    <2>3. s \in [1..k -> 0..9]
      BY <2>1, <2>2
    <2>4. s \in Seq(0..9) /\ Len(s) = k
      BY <1>2, <2>3, IntervalIsSeq
    <2> QED
      BY <2>1, <2>4
  <1> HIDE DEF s
  <1>4. Positional(s, 10) \in Nat /\ Positional(s, 10) < Quarter
    <2>1. s \in Seq(Nat) /\ s \in Seq(0..(10 - 1))
      BY <1>3
    <2>2. Positional(s, 10) \in Nat
      BY <1>2, <2>1, PositionalIsNat
    <2>3. Positional(s, 10) < Power(10, k)
      <3>1. Positional(s, 10) < Power(10, Len(s))
        BY <1>2, <2>1, PositionalBound
      <3> QED
        BY <1>3, <3>1
    <2>4. /\ Power(10, k) <= Power(10, DigitsOf)
          /\ Power(10, k) \in Nat /\ Power(10, DigitsOf) \in Nat
      BY <1>1, <1>2, PowerGrows, PowerNext
    <2> QED
      BY <1>1, <2>2, <2>3, <2>4, Widths
  <1>5. k = 0 => Positional(s, 10) = 0
    <2> SUFFICES ASSUME k = 0
                 PROVE  Positional(s, 10) = 0
      OBVIOUS
    <2>1. s = <<>>
      BY <1>3
    <2> QED
      BY <1>2, <2>1, PositionalEmpty
  <1>6. k < DigitsOf =>
           Positional(DigitsUpto(k + 1), 10) = Positional(s, 10) * 10 + DigitAt(k)
    <2> SUFFICES ASSUME k < DigitsOf
                 PROVE  Positional(DigitsUpto(k + 1), 10) =
                            Positional(s, 10) * 10 + DigitAt(k)
      OBVIOUS
    <2> DEFINE t == DigitsUpto(k + 1)
    <2>1. t = [i \in 1..(k + 1) |-> DigitAt(i - 1)]
      BY DEF DigitsUpto
    <2>2. k + 1 \in Nat /\ \A i \in 1..(k + 1) : i - 1 \in 0..(DigitsOf - 1)
      BY <1>1, <1>2
    <2> HIDE DEF t
    <2>3. t \in [1..(k + 1) -> 0..15]
      BY <1>1, <2>1, <2>2
    <2>4. t \in Seq(0..15) /\ Len(t) = k + 1
      <3> DEFINE m == k + 1
      <3>1. m \in Nat /\ t \in [1..m -> 0..15]
        BY <2>2, <2>3
      <3> HIDE DEF m
      <3>2. t \in Seq(0..15) /\ Len(t) = m
        BY <3>1, IntervalIsSeq
      <3> QED
        BY <3>2 DEF m
    <2>5. t \in Seq(Nat) /\ s \in Seq(Nat) /\ Len(t) = Len(s) + 1
      <3>1. t \in Seq(Nat)
        BY <2>4
      <3>2. s \in Seq(Nat)
        BY <1>3
      <3> QED
        BY <1>3, <2>4, <3>1, <3>2
    <2>6. \A i \in 1..Len(s) : t[i] = s[i]
      <3>1. \A i \in 1..k : i \in 1..(k + 1)
        BY <1>2
      <3> QED
        BY <1>3, <2>1, <3>1
    <2>7. Positional(t, 10) = Positional(s, 10) * 10 + t[Len(t)]
      BY <1>2, <2>5, <2>6, PositionalGrows
    <2>8. t[Len(t)] = DigitAt(k)
      <3>1. k + 1 \in 1..(k + 1) /\ (k + 1) - 1 = k
        BY <1>2
      <3> QED
        BY <2>1, <2>4, <3>1
    <2> QED
      BY <2>7, <2>8, Zenon DEF t
  <1> QED
    BY <1>4, <1>5, <1>6 DEF s

(***************************************************************************)
(* The number of a packed or zoned field, its digits all read.             *)
(***************************************************************************)
LEMMA DigitsMean ==
    ASSUME ConfigOK, Declared, field.kind \in {Packed, Zoned}
    PROVE  Meaning = IF Sign \in Negative
                     THEN -Positional(DigitsUpto(DigitsOf), 10)
                     ELSE Positional(DigitsUpto(DigitsOf), 10)
  <1>1. DigitNibbles = DigitsUpto(DigitsOf)
    BY DigitsAre
  <1>2. Signed <=> Sign \in Negative
    BY DEF Signed, Sign
  <1>3. /\ field.kind # Text /\ field.kind # Unsigned /\ field.kind # Integer
    BY KindsDiffer DEF Binary
  <1>4. Meaning = IF Signed THEN -Positional(DigitNibbles, 10)
                            ELSE Positional(DigitNibbles, 10)
    BY <1>3 DEF Meaning
  <1> QED
    BY <1>1, <1>2, <1>4

-----------------------------------------------------------------------------
(***************************************************************************)
(* The powers of a byte.                                                   *)
(***************************************************************************)
LEMMA BytePowers ==
    ASSUME NEW n \in Nat
    PROVE  /\ Power(256, n) \in Nat /\ Power(256, n) >= 1
           /\ Power(256, n + 1) = Power(256, n) * 256
  <1>1. 256 \in Nat /\ 256 \in Nat \ {0}
    OBVIOUS
  <1>2. Power(256, n) \in Nat /\ Power(256, n + 1) = Power(256, n) * 256
    BY <1>1, PowerNext
  <1>3. Power(256, n) >= 1
    BY <1>1, PowerGrows
  <1> QED
    BY <1>2, <1>3

(***************************************************************************)
(* The accumulator in bytes.                                               *)
(***************************************************************************)
LEMMA BytesOfWidth ==
    /\ MaxBinaryBytes - 1 \in Nat /\ MaxBinaryBytes - 2 \in Nat
    /\ Power(256, MaxBinaryBytes - 1) \in Nat
    /\ Power(256, MaxBinaryBytes - 2) \in Nat
    /\ Power(256, MaxBinaryBytes - 2) >= 1
    /\ Power(256, MaxBinaryBytes - 1) = Power(256, MaxBinaryBytes - 2) * 256
    /\ Half = 128 * Power(256, MaxBinaryBytes - 1)
    /\ Quarter = 64 * Power(256, MaxBinaryBytes - 1)
  <1> DEFINE M == MaxBinaryBytes
  <1>1. /\ M \in Nat /\ M - 1 \in Nat /\ M - 2 \in Nat
        /\ (M - 2) + 1 = M - 1 /\ (M - 1) + 1 = M
        /\ 256 \in Nat /\ 256 \in Nat \ {0}
    BY Widths
  <1> HIDE DEF M
  <1>2. /\ Power(256, M - 1) \in Nat /\ Power(256, M - 2) \in Nat
        /\ Power(256, M - 2) >= 1
        /\ Power(256, M - 1) = Power(256, M - 2) * 256
        /\ Power(256, M) = Power(256, M - 1) * 256
    <2> DEFINE k == M - 2
               l == M - 1
    <2>1. k \in Nat /\ l \in Nat /\ k + 1 = l /\ l + 1 = M
      BY <1>1
    <2> HIDE DEF k, l
    <2>2. /\ Power(256, k) \in Nat /\ Power(256, k) >= 1
          /\ Power(256, l) \in Nat
          /\ Power(256, k + 1) = Power(256, k) * 256
          /\ Power(256, l + 1) = Power(256, l) * 256
      BY <2>1, BytePowers
    <2>3. /\ Power(256, l) = Power(256, k) * 256
          /\ Power(256, M) = Power(256, l) * 256
      BY <2>1, <2>2, Zenon
    <2> QED
      BY <2>2, <2>3 DEF k, l
  <1>3. Power(256, M) = Power(2, AccBits)
    BY <1>1, PowerOfBytes, WidthAssumption DEF M
  <1>4. /\ Half = 128 * Power(256, M - 1)
        /\ Quarter = 64 * Power(256, M - 1)
    BY <1>2, <1>3, Widths
  <1> QED
    BY <1>1, <1>2, <1>4 DEF M

(***************************************************************************)
(* The bytes shifted in so far, and what they come to: less by the bits    *)
(* above them when they start from -1.                                     *)
(***************************************************************************)
Shifted(k) == Positional(BytesUpto(k), 256) + StartFrom * Power(256, k)

(***************************************************************************)
(* One more byte shifts them.                                              *)
(***************************************************************************)
LEMMA BytesShift ==
    ASSUME ConfigOK, NEW k \in 0..field.size
    PROVE  /\ BytesUpto(k) \in Seq(0..255) /\ Len(BytesUpto(k)) = k
           /\ Positional(BytesUpto(k), 256) \in Nat
           /\ Shifted(k) \in Int
           /\ k = 0 => Shifted(k) = StartFrom
           /\ k < field.size => Shifted(k + 1) = Shifted(k) * 256 + bytes[k + 1]
  <1> DEFINE n == field.size
             S == 0..255
             front(j) == BytesUpto(j)
  <1>1. n \in Nat /\ bytes \in [1..n -> S]
    BY BytesAre
  <1> HIDE DEF n
  <1>2. \A i \in 1..n : bytes[i] \in S /\ bytes[i] \in Nat
    <2>1. \A x \in S : x \in Nat
      OBVIOUS
    <2> HIDE DEF S
    <2> QED
      BY <1>1, <2>1
  <1>3. ASSUME NEW j \in 0..n
        PROVE  /\ front(j) \in Seq(S) /\ Len(front(j)) = j
               /\ front(j) \in Seq(Nat)
               /\ \A i \in 1..j : front(j)[i] = bytes[i]
    <2> DEFINE u == front(j)
    <2> HIDE DEF S
    <2>1. /\ u \in Seq(S) /\ Len(u) = j
          /\ \A i \in 1..j : u[i] = bytes[i]
      <3>1. u = [i \in 1..j |-> bytes[i]]
        BY DEF BytesUpto
      <3>2. /\ [i \in 1..j |-> bytes[i]] \in Seq(S)
            /\ Len([i \in 1..j |-> bytes[i]]) = j
            /\ \A i \in 1..j : [l \in 1..j |-> bytes[l]][i] = bytes[i]
        BY <1>1, PrefixIs
      <3> HIDE DEF u
      <3> QED
        BY <3>1, <3>2, Zenon
    <2> HIDE DEF u
    <2>2. u \in Seq(Nat)
      <3>1. S \subseteq Nat
        BY DEF S
      <3> QED
        BY <2>1, <3>1, SeqWidens
    <2>3. /\ u \in Seq(S) /\ Len(u) = j /\ u \in Seq(Nat)
          /\ \A i \in 1..j : u[i] = bytes[i]
      BY <2>1, <2>2
    <2> QED
      BY <2>3, Zenon DEF u
  <1>4. k \in 0..n /\ k \in Nat /\ 256 \in Nat
    BY <1>1 DEF n
  <1> HIDE DEF n, S, front
  <1>5. Positional(front(k), 256) \in Nat
    BY <1>3, <1>4, PositionalIsNat
  <1>6. StartFrom \in Int
    BY DEF StartFrom
  <1>7. Power(256, k) \in Nat
    BY <1>4, PowerNext
  <1>8. Shifted(k) \in Int
    BY <1>5, <1>6, <1>7 DEF Shifted, front
  <1>9. ASSUME k = 0
        PROVE  Shifted(k) = StartFrom
    <2>1. front(0) = <<>>
      <3>1. front(k) \in Seq(S) /\ Len(front(k)) = k
        BY <1>3, <1>4
      <3> DEFINE u == front(0)
      <3>2. u \in Seq(S) /\ Len(u) = 0
        BY <1>9, <3>1, Zenon
      <3> HIDE DEF u
      <3>3. u = <<>>
        BY <3>2
      <3> QED
        BY <3>3 DEF u
    <2>2. Positional(front(0), 256) = 0 /\ Power(256, 0) = 1
      <3>1. Positional(<<>>, 256) = 0 /\ Power(256, 0) = 1
        BY <1>4, PositionalEmpty, PowerNext
      <3> QED
        BY <2>1, <3>1, Zenon
    <2> QED
      BY <1>6, <1>9, <2>2 DEF Shifted, front
  <1>10. ASSUME k < n
         PROVE  Shifted(k + 1) = Shifted(k) * 256 + bytes[k + 1]
    <2>1. k + 1 \in 0..n /\ k + 1 \in 1..n /\ k + 1 \in 1..(k + 1)
          /\ \A i \in 1..k : i \in 1..(k + 1)
      BY <1>1, <1>4, <1>10
    <2>2. /\ Len(front(k + 1)) = Len(front(k)) + 1
          /\ \A i \in 1..Len(front(k)) : front(k + 1)[i] = front(k)[i]
          /\ front(k + 1)[Len(front(k + 1))] = bytes[k + 1]
          /\ front(k) \in Seq(Nat) /\ front(k + 1) \in Seq(Nat)
      BY <1>3, <1>4, <2>1
    <2>3. Positional(front(k + 1), 256) =
             Positional(front(k), 256) * 256 + front(k + 1)[Len(front(k + 1))]
      BY <1>4, <2>2, PositionalGrows
    <2>4. Power(256, k + 1) = Power(256, k) * 256
      BY <1>4, PowerNext
    <2> DEFINE p == Positional(front(k), 256)
               q == Power(256, k)
               s == StartFrom
               b == bytes[k + 1]
    <2>5. p \in Nat /\ q \in Nat /\ s \in Int /\ b \in Nat
      BY <1>2, <1>5, <1>6, <1>7, <2>1
    <2>6. Shifted(k) = p + s * q
      BY DEF Shifted, front
    <2>7. Shifted(k + 1) = (p * 256 + b) + s * (q * 256)
      BY <2>2, <2>3, <2>4 DEF Shifted, front
    <2> HIDE DEF p, q, s, b
    <2>8. (p * 256 + b) + s * (q * 256) = (p + s * q) * 256 + b
      BY <2>5
    <2>9. Shifted(k + 1) = Shifted(k) * 256 + b
      BY <2>6, <2>7, <2>8, Zenon
    <2> QED
      BY <2>9 DEF b
  <1> QED
    BY <1>3, <1>4, <1>5, <1>8, <1>9, <1>10 DEF front, S, n

(***************************************************************************)
(* The first byte bounds what the bytes come to: they never leave the      *)
(* width of as many bytes, and a field as wide as the accumulator that is  *)
(* not refused does not reach its top bit.                                 *)
(***************************************************************************)
LEMMA ShiftedRange ==
    ASSUME ConfigOK, Declared, field.kind \in Binary, ~TooWide,
           NEW k \in 1..field.size
    PROVE  /\ Power(256, k - 1) \in Nat
           /\ Shifted(k) >= -(128 * Power(256, k - 1))
           /\ Shifted(k) < 256 * Power(256, k - 1)
           /\ field.size = MaxBinaryBytes => Shifted(k) < 128 * Power(256, k - 1)
  <1> DEFINE s == BytesUpto(k)
             N == Positional(s, 256)
             p == Power(256, k - 1)
             b == bytes[1]
  <1>1. /\ k \in Nat /\ k - 1 \in Nat /\ (k - 1) + 1 = k /\ k \in 0..field.size
        /\ 1 \in 1..field.size /\ 1 \in 1..k /\ 256 \in Nat /\ 256 \in Nat \ {0}
    <2>1. field.size \in Nat
      BY BytesAre
    <2> QED
      BY <2>1
  <1>2. b \in 0..255
    <2>1. 1 \in 1..field.size /\ bytes \in [1..field.size -> 0..255]
      BY <1>1, BytesAre
    <2> QED
      BY <2>1
  <1>3. s \in Seq(0..255) /\ Len(s) = k /\ s[1] = b /\ N \in Nat
    <2>1. s[1] = b
      BY <1>1 DEF BytesUpto
    <2>2. k \in 0..field.size
      BY <1>1
    <2>3. /\ BytesUpto(k) \in Seq(0..255) /\ Len(BytesUpto(k)) = k
          /\ Positional(BytesUpto(k), 256) \in Nat
      BY <2>2, BytesShift
    <2> QED
      BY <2>1, <2>3
  <1>4. p \in Nat /\ Power(256, k) = p * 256
    <2> DEFINE j == k - 1
    <2>1. 256 \in Nat /\ j \in Nat /\ j + 1 = k
      BY <1>1
    <2> HIDE DEF j
    <2>2. Power(256, j) \in Nat /\ Power(256, j + 1) = Power(256, j) * 256
      BY <2>1, BytePowers
    <2> QED
      BY <2>1, <2>2, Zenon DEF j
  <1>5. Shifted(k) = N + StartFrom * Power(256, k)
    BY DEF Shifted
  <1>6. b * p <= N /\ N < (b + 1) * p
    <2>1. s \in Seq(0..(256 - 1)) /\ s # <<>>
      BY <1>1, <1>3
    <2>2. /\ s[1] * Power(256, Len(s) - 1) <= Positional(s, 256)
          /\ Positional(s, 256) < (s[1] + 1) * Power(256, Len(s) - 1)
      BY <1>1, <2>1, PositionalLeading
    <2> QED
      BY <1>3, <2>2, Zenon
  <1>7. (field.size = MaxBinaryBytes /\ StartFrom = 0) => b <= 127
    <2>1. field.kind = Integer \/ field.kind = Unsigned
      BY DEF Binary
    <2>2. ASSUME field.size = MaxBinaryBytes, StartFrom = 0
          PROVE  ~TopBit(b)
      BY <2>1, <2>2 DEF TooWide, StartFrom
    <2> QED
      BY <1>2, <2>2 DEF TopBit
  <1>8. StartFrom = 0 \/ (StartFrom = -1 /\ b >= 128)
    BY DEF StartFrom, TopBit
  <1> HIDE DEF s, N, p, b
  <1>9. b * p >= 0 /\ (b + 1) * p <= 256 * p /\ (b <= 127 => (b + 1) * p <= 128 * p)
        /\ (b >= 128 => b * p >= 128 * p)
    <2>1. \A x, y \in Nat : x <= y => x * p <= y * p
      <3> SUFFICES ASSUME NEW x \in Nat, NEW y \in Nat, x <= y
                   PROVE  x * p <= y * p
        OBVIOUS
      <3>1. (y - x) * p >= 0
        BY <1>4
      <3>2. (y - x) * p = y * p - x * p
        BY <1>4
      <3>3. x * p \in Int /\ y * p \in Int
        BY <1>4
      <3> QED
        BY <3>1, <3>2, <3>3
    <2>2. b \in Nat /\ b + 1 \in Nat /\ b + 1 <= 256 /\ 256 \in Nat /\ 128 \in Nat
          /\ 0 \in Nat /\ 0 <= b
      BY <1>2
    <2>3. 0 * p <= b * p /\ (b + 1) * p <= 256 * p
      BY <2>1, <2>2
    <2>4. b <= 127 => (b + 1) * p <= 128 * p
      BY <2>1, <2>2
    <2>5. b >= 128 => 128 * p <= b * p
      BY <2>1, <2>2
    <2>6. 0 * p = 0
      BY <1>4
    <2>7. b * p \in Int /\ 128 * p \in Int
      BY <1>4, <2>2
    <2> QED
      BY <2>3, <2>4, <2>5, <2>6, <2>7
  <1> DEFINE x == b * p
             y == (b + 1) * p
  <1>10. x \in Int /\ y \in Int
    BY <1>2, <1>4
  <1>11. x <= N /\ N < y
    BY <1>6
  <1>12. x >= 0 /\ y <= 256 * p /\ (b <= 127 => y <= 128 * p)
         /\ (b >= 128 => x >= 128 * p)
    BY <1>9
  <1> HIDE DEF x, y
  <1>13. CASE StartFrom = 0
    <2>1. Shifted(k) = N
      BY <1>3, <1>4, <1>5, <1>13
    <2> QED
      BY <1>3, <1>4, <1>7, <1>10, <1>11, <1>12, <1>13, <2>1 DEF p
  <1>14. CASE StartFrom = -1 /\ b >= 128
    <2>1. Shifted(k) = N - 256 * p
      BY <1>3, <1>4, <1>5, <1>14
    <2>2. N >= 128 * p /\ N < 256 * p
      BY <1>3, <1>4, <1>10, <1>11, <1>12, <1>14
    <2> QED
      BY <1>3, <1>4, <2>1, <2>2 DEF p
  <1> QED
    BY <1>8, <1>13, <1>14

(***************************************************************************)
(* So no shift loses a bit that is not a copy of the sign, and the last    *)
(* one leaves what the bytes mean.                                         *)
(***************************************************************************)
LEMMA ShiftFits ==
    ASSUME ConfigOK, Declared, field.kind \in Binary, ~TooWide,
           NEW k \in 0..field.size, k < field.size
    PROVE  Shifted(k) * 256 \in Int /\ Fits(Shifted(k) * 256, AccBits)
  <1> DEFINE v == Shifted(k)
             e == Power(256, MaxBinaryBytes - 1)
             f == Power(256, MaxBinaryBytes - 2)
             p == Power(256, k - 1)
  <1>1. /\ MaxBinaryBytes \in Nat /\ f \in Nat /\ f >= 1 /\ e = f * 256
        /\ Half = 128 * e
    BY BytesOfWidth, Widths
  <1>2. k \in Nat /\ field.size \in Nat /\ field.size <= MaxBinaryBytes
    BY BytesAre, Widths DEF TooWide
  <1>3. v \in Int
    BY BytesShift
  <1>4. -Half <= v * 256 /\ v * 256 < Half
    <2>1. CASE k = 0
      <3>1. v = 0 \/ v = -1
        BY <2>1, BytesShift DEF StartFrom
      <3> HIDE DEF v, e, f
      <3> QED
        BY <1>1, <3>1
    <2>2. CASE k > 0
      <3>1. k \in 1..field.size
        BY <1>2, <2>2
      <3>2. /\ p \in Nat /\ v >= -(128 * p) /\ v < 256 * p
            /\ field.size = MaxBinaryBytes => v < 128 * p
        BY <3>1, ShiftedRange
      <3>3. 256 \in Nat \ {0} /\ 256 \in Nat
            /\ MaxBinaryBytes - 2 \in Nat /\ k - 1 \in Nat /\ k - 1 <= MaxBinaryBytes - 2
        BY <1>2, <3>1, Widths
      <3>4. p <= f
        BY <3>3, PowerGrows
      <3>5. field.size # MaxBinaryBytes => p * 256 <= f
        <4> SUFFICES ASSUME field.size # MaxBinaryBytes
                     PROVE  p * 256 <= f
          OBVIOUS
        <4>1. k \in Nat /\ (k - 1) + 1 = k /\ k <= MaxBinaryBytes - 2
          BY <1>1, <1>2
        <4>2. Power(256, (k - 1) + 1) = p * 256
          BY <3>3, PowerNext
        <4>3. Power(256, k) = p * 256
          BY <4>1, <4>2, Zenon
        <4>4. Power(256, k) <= f
          BY <3>3, <4>1, PowerGrows
        <4> QED
          BY <4>3, <4>4, Zenon
      <3> HIDE DEF v, e, f, p
      <3>6. CASE field.size = MaxBinaryBytes
        BY <1>1, <1>3, <3>2, <3>4, <3>6
      <3>7. CASE field.size # MaxBinaryBytes
        BY <1>1, <1>3, <3>2, <3>4, <3>5, <3>7
      <3> QED
        BY <3>6, <3>7
    <2> QED
      BY <1>2, <2>1, <2>2
  <1>5. v * 256 \in Int
    BY <1>3
  <1> QED
    BY <1>4, <1>5 DEF Fits, Half

(***************************************************************************)
(* What all the bytes come to is the number they mean.                     *)
(***************************************************************************)
LEMMA BytesMean ==
    ASSUME ConfigOK, Declared, field.kind \in Binary, ~TooWide
    PROVE  /\ Shifted(field.size) = Meaning /\ Meaning \in Int
           /\ Fits(Meaning, AccBits)
           /\ field.size # MaxBinaryBytes => Meaning >= -Quarter
  <1> DEFINE n == field.size
             v == Shifted(n)
             e == Power(256, MaxBinaryBytes - 1)
             f == Power(256, MaxBinaryBytes - 2)
             p == Power(256, n - 1)
  <1>1. /\ MaxBinaryBytes \in Nat /\ f \in Nat /\ f >= 1 /\ e = f * 256
        /\ e \in Nat /\ Half = 128 * e /\ Quarter = 64 * e
    BY BytesOfWidth, Widths
  <1>2. n \in Nat /\ n >= 1 /\ n <= MaxBinaryBytes
    BY BytesAre, Widths DEF TooWide, Declared, WidthOK
  <1>3. n \in 0..n /\ n \in 1..n
    BY <1>2
  <1>4. v \in Int
    BY <1>3, BytesShift
  <1>5. v = Meaning
    <2>1. BytesUpto(n) = bytes
      <3>1. bytes \in [1..n -> 0..255]
        BY BytesAre
      <3> QED
        BY <3>1 DEF BytesUpto
    <2>2. v = Positional(bytes, 256) + StartFrom * Power(256, n)
      BY <2>1 DEF Shifted
    <2>3. Positional(bytes, 256) \in Nat
      BY <1>3, <2>1, BytesShift
    <2>4. Power(256, n) = Power(2, 8 * n) /\ Power(256, n) \in Nat
      <3>1. n \in Nat /\ 256 \in Nat
        BY <1>2
      <3> HIDE DEF n
      <3>2. Power(256, n) = Power(2, 8 * n)
        BY <3>1, PowerOfBytes
      <3>3. Power(256, n) \in Nat
        BY <3>1, PowerNext
      <3> QED
        BY <3>2, <3>3
    <2>5. CASE field.kind = Unsigned
      <3>1. Meaning = Positional(bytes, 256) /\ StartFrom = 0
        BY <2>5, KindsDiffer DEF Meaning, StartFrom, Binary
      <3> QED
        BY <2>2, <2>3, <2>4, <3>1
    <2>6. CASE field.kind = Integer
      <3>1. Meaning = Positional(bytes, 256) -
                         IF TopBit(bytes[1]) THEN Power(2, 8 * n) ELSE 0
        BY <2>6, KindsDiffer DEF Meaning, Binary
      <3>2. StartFrom = IF TopBit(bytes[1]) THEN -1 ELSE 0
        BY <2>6 DEF StartFrom
      <3> QED
        BY <2>2, <2>3, <2>4, <3>1, <3>2
    <2> QED
      BY <2>5, <2>6 DEF Binary
  <1>6. /\ p \in Nat /\ v >= -(128 * p) /\ v < 256 * p
        /\ n = MaxBinaryBytes => v < 128 * p
    BY <1>3, ShiftedRange
  <1>7. n = MaxBinaryBytes => p = e
    OBVIOUS
  <1>8. n # MaxBinaryBytes => p <= f
    <2> SUFFICES ASSUME n # MaxBinaryBytes
                 PROVE  p <= f
      OBVIOUS
    <2>1. 256 \in Nat \ {0} /\ n - 1 \in Nat /\ MaxBinaryBytes - 2 \in Nat
          /\ n - 1 <= MaxBinaryBytes - 2
      BY <1>1, <1>2, Widths
    <2> QED
      BY <2>1, PowerGrows
  <1> HIDE DEF n, v, e, f, p
  <1>9. CASE n = MaxBinaryBytes
    <2>1. -Half <= v /\ v < Half
      BY <1>1, <1>4, <1>6, <1>7, <1>9
    <2> QED
      BY <1>4, <1>5, <1>9, <2>1 DEF Fits, Half, v, n
  <1>10. CASE n # MaxBinaryBytes
    <2>1. -Quarter <= v /\ -Half <= v /\ v < Half
      BY <1>1, <1>4, <1>6, <1>8, <1>10
    <2>2. v >= -Quarter
      BY <1>1, <1>4, <2>1
    <2> QED
      BY <1>4, <1>5, <2>1, <2>2 DEF Fits, Half, v, n
  <1> QED
    BY <1>9, <1>10

(***************************************************************************)
(* A binary field is refused only for a number past the accumulator.       *)
(***************************************************************************)
LEMMA TooWideMeans ==
    ASSUME ConfigOK, Declared, field.kind \in Binary, TooWide
    PROVE  Meaning >= Half
  <1> DEFINE N == Positional(bytes, 256)
             b == bytes[1]
             e == Power(256, MaxBinaryBytes - 1)
  <1>1. field.size <= MaxBinaryBytes
    BY KindsDiffer DEF Declared, WidthOK, Limit, Binary
  <1>2. /\ field.kind = Unsigned /\ field.size = MaxBinaryBytes /\ b >= 128
    BY <1>1, BytesAre, Widths DEF TooWide, TopBit
  <1>3. Meaning = N
    BY <1>2, KindsDiffer DEF Meaning, Binary
  <1>4. /\ MaxBinaryBytes \in Nat /\ MaxBinaryBytes >= 2 /\ e \in Nat
        /\ Half = 128 * e
    BY BytesOfWidth, Widths
  <1>5. /\ bytes \in Seq(0..255) /\ Len(bytes) = MaxBinaryBytes /\ b \in 0..255
    <2>1. 1 \in 1..field.size
      BY <1>2, <1>4
    <2> QED
      BY <1>2, <2>1, BytesAre
  <1>6. b * e <= N
    <2>1. bytes \in Seq(0..(256 - 1)) /\ bytes # <<>> /\ 256 \in Nat \ {0}
      BY <1>4, <1>5
    <2>2. bytes[1] * Power(256, Len(bytes) - 1) <= Positional(bytes, 256)
      BY <2>1, PositionalLeading
    <2> QED
      BY <1>5, <2>2, Zenon
  <1>7. N \in Nat
    <2>1. 0..255 \subseteq Nat /\ 256 \in Nat /\ bytes \in Seq(0..255)
      BY <1>5
    <2>2. bytes \in Seq(Nat)
      BY <2>1, SeqWidens
    <2> QED
      BY <2>1, <2>2, PositionalIsNat
  <1> HIDE DEF N, b, e
  <1>8. 128 * e <= b * e
    <2>1. (b - 128) * e >= 0
      BY <1>2, <1>4, <1>5
    <2>2. (b - 128) * e = b * e - 128 * e /\ b * e \in Int
      BY <1>4, <1>5
    <2> QED
      BY <1>4, <2>1, <2>2
  <1>9. b * e \in Int
    BY <1>4, <1>5
  <1>10. 128 * e <= N
    BY <1>4, <1>6, <1>7, <1>8, <1>9
  <1> QED
    BY <1>3, <1>4, <1>7, <1>10

-----------------------------------------------------------------------------
(***************************************************************************)
(* RefusedForCause, with a name for what is wrong with the digits.         *)
(***************************************************************************)
ForCause ==
    /\ phase = "invalid" /\ role # "record_length" =>
          IF field.kind = Text THEN Unassigned # {}
          ELSE field.kind \notin Binary /\ Corrupt
    /\ phase \in {"decoded", "body", "done"} =>
          field.kind \in Binary \cup {Text} \/ ~Corrupt
    /\ phase = "unsupported" /\ role # "record_length" => Meaning >= Half
    /\ phase = "panicked" =>
          /\ role = "record_length"
          /\ field.kind = Text \/ field.size = MaxBinaryBytes
          /\ Meaning < prefix_size - Half

(***************************************************************************)
(* What holds while digits are folded in, while bytes are shifted in, of a *)
(* text, of a number and of the body length computed from it, and of the   *)
(* outcome.                                                                *)
(***************************************************************************)
InDigits ==
    phase = "digits" =>
        /\ field.kind \in {Packed, Zoned}
        /\ at \in 0..DigitsOf
        /\ \A i \in 0..(at - 1) : ~NotADigit(i)
        /\ value = Positional(DigitsUpto(at), 10)

InBytes ==
    phase = "shifting" =>
        /\ field.kind \in Binary /\ ~TooWide
        /\ at \in 0..field.size /\ at < field.size
        /\ value = Shifted(at)

InText ==
    phase = "text" =>
        /\ field.kind = Text /\ Unassigned = {}
        /\ text = Clean(Translated)

InNumber ==
    phase = "decoded" =>
        /\ value = Meaning /\ Fits(Meaning, AccBits)
        /\ \/ field.kind = Text
           \/ field.size = MaxBinaryBytes
           \/ Meaning >= -Quarter

InBody ==
    phase = "body" =>
        /\ role = "record_length" /\ Meaning \in Int
        /\ value = Meaning - prefix_size \/ value > MaxRecordBytes

InOutcome ==
    phase = "done" =>
        \/ /\ role = "record_length"
           /\ outcome = [kind |-> "body", n |-> Meaning - prefix_size]
           /\ Meaning - prefix_size \in 0..MaxRecordBytes
        \/ /\ role # "record_length" /\ field.kind = Text /\ Unassigned = {}
           /\ outcome = [kind |-> "text", text |-> Clean(Translated)]
        \/ /\ role = "cell" /\ Meaning \in Int
           /\ outcome = CellOf(Meaning, field.scale)
        \/ /\ role = "record_type" /\ Meaning \in Int
           /\ outcome = [kind |-> "decimal", unscaled |-> {},
                         text |-> Render(Meaning, field.scale)]

(***************************************************************************)
(* The inductive invariant: the accumulator is exact at every step, not    *)
(* only at the end.                                                        *)
(***************************************************************************)
EInv ==
    /\ ConfigOK
    /\ at \in Nat /\ value \in Int
    /\ phase = "declared" => at = 0 /\ value = 0
    /\ phase \notin {"declared", "refused"} => Declared
    /\ InDigits /\ InBytes /\ InText /\ InNumber /\ InBody /\ InOutcome
    /\ ForCause

LEMMA EInvInit == Init => EInv
  <1> SUFFICES ASSUME Init PROVE EInv
    OBVIOUS
  <1>1. /\ role \in {"cell", "record_type", "record_length"}
        /\ field \in [kind : Kinds, size : Sizes, scale : Scales]
        /\ bytes \in BytesOf([kind |-> field.kind, size |-> field.size])
        /\ phase = "declared" /\ at = 0 /\ value = 0
    BY DEF Init
  <1>2. type_size \in TypeSizes
    <2>1. type_size \in IF role = "record_length" THEN TypeSizes ELSE {0}
      BY DEF Init
    <2>2. 0 \in TypeSizes
      BY WidthAssumption
    <2> QED
      BY <2>1, <2>2
  <1>3. ConfigOK
    BY <1>1, <1>2 DEF ConfigOK
  <1>4. /\ phase # "digits" /\ phase # "shifting" /\ phase # "text"
        /\ phase # "invalid" /\ phase # "unsupported" /\ phase # "panicked"
        /\ phase \notin {"decoded", "body", "done"}
    BY <1>1
  <1> QED
    BY <1>1, <1>3, <1>4
    DEF EInv, InDigits, InBytes, InText, InNumber, InBody, InOutcome, ForCause

(***************************************************************************)
(* What has been read so far, after a step.                                *)
(***************************************************************************)
LEMMA ReadStays ==
    ASSUME config' = config
    PROVE  /\ DigitsUpto(at)' = [i \in 1..at' |-> DigitAt(i - 1)]
           /\ Shifted(at)' = Positional([i \in 1..at' |-> bytes[i]], 256)
                                 + StartFrom * Power(256, at')
  <1>1. field' = field /\ bytes' = bytes
    BY DEF config
  <1>2. \A k : DigitAt(k)' = DigitAt(k)
    BY <1>1 DEF DigitAt, Nibble
  <1>3. StartFrom' = StartFrom
    BY ConfigStays
  <1>4. DigitsUpto(at)' = [i \in 1..at' |-> DigitAt(i - 1)]
    BY <1>2 DEF DigitsUpto
  <1>5. BytesUpto(at)' = [i \in 1..at' |-> bytes[i]]
    BY <1>1 DEF BytesUpto
  <1>6. Shifted(at)' = Positional(BytesUpto(at)', 256) + StartFrom' * Power(256, at')
    BY DEF Shifted
  <1> QED
    BY <1>3, <1>4, <1>5, <1>6

(***************************************************************************)
(* A step that ends the decoding has only to have a cause.                 *)
(***************************************************************************)
LEMMA EndKeeps ==
    ASSUME EInv, config' = config, at' = at, value' = value,
           phase' \in {"refused", "invalid", "unsupported", "panicked"},
           phase' # "refused" => Declared, ForCause'
    PROVE  EInv'
  <1>1. ConfigOK' /\ Declared' = Declared
    BY ConfigStays DEF EInv
  <1>2. (at \in Nat /\ value \in Int)'
    BY DEF EInv
  <1>3. /\ phase' # "declared" /\ phase' # "digits" /\ phase' # "shifting"
        /\ phase' # "text" /\ phase' # "decoded" /\ phase' # "body"
        /\ phase' # "done"
    OBVIOUS
  <1> QED
    BY <1>1, <1>2, <1>3
    DEF EInv, InDigits, InBytes, InText, InNumber, InBody, InOutcome

(***************************************************************************)
(* A step that does not end it has to leave what its phase says, and       *)
(* nothing in the digits by the time there is a number.                    *)
(***************************************************************************)
LEMMA GoesOn ==
    ASSUME EInv, Declared, config' = config, at' \in Nat, value' \in Int,
           phase' \in {"digits", "shifting", "text", "decoded", "body", "done"},
           InDigits', InBytes', InText', InNumber', InBody', InOutcome',
           phase' \in {"decoded", "body", "done"} =>
               field.kind \in Binary \cup {Text} \/ ~Corrupt
    PROVE  EInv'
  <1>1. ConfigOK' /\ Declared' = Declared /\ Corrupt' = Corrupt
    BY ConfigStays DEF EInv
  <1>2. field' = field
    BY DEF config
  <1>3. phase' # "declared" /\ phase' # "refused" /\ phase' # "invalid"
        /\ phase' # "unsupported" /\ phase' # "panicked"
    OBVIOUS
  <1>4. (phase \in {"decoded", "body", "done"})' =>
            (field.kind \in Binary \cup {Text} \/ ~Corrupt)'
    <2>1. Binary' = Binary /\ Text' = Text
      BY DEF Binary, Text, Integer, Unsigned
    <2> QED
      BY <1>1, <1>2, <2>1
  <1>5. ForCause'
    BY <1>3, <1>4 DEF ForCause
  <1>6. (at \in Nat /\ value \in Int)'
    OBVIOUS
  <1> QED
    BY <1>1, <1>3, <1>5, <1>6 DEF EInv

-----------------------------------------------------------------------------
(***************************************************************************)
(* Every action keeps the invariant.  First those that refuse.             *)
(***************************************************************************)
LEMMA RefuseKeeps == EInv /\ Refuse => EInv'
  <1> SUFFICES ASSUME EInv, Refuse PROVE EInv'
    OBVIOUS
  <1>1. phase' = "refused" /\ config' = config /\ at' = at /\ value' = value
    BY DEF Refuse, End
  <1>2. ForCause'
    BY <1>1 DEF ForCause
  <1> QED
    BY <1>1, <1>2, EndKeeps

LEMMA RejectDigitKeeps == EInv /\ RejectDigit => EInv'
  <1> SUFFICES ASSUME EInv, RejectDigit PROVE EInv'
    OBVIOUS
  <1>1. /\ phase' = "invalid" /\ config' = config /\ at' = at /\ value' = value
        /\ phase = "digits" /\ at < DigitsOf /\ NotADigit(at) /\ Declared
    BY DEF RejectDigit, End, EInv
  <1>2. /\ ConfigOK /\ field.kind \in {Packed, Zoned} /\ at \in Nat
    BY <1>1 DEF EInv, InDigits
  <1>3. DigitsOf \in Nat /\ (Corrupt <=> \E i \in 0..(DigitsOf - 1) : NotADigit(i))
    BY <1>1, <1>2, DigitsAre
  <1>4. Corrupt
    <2>1. at \in 0..(DigitsOf - 1)
      BY <1>1, <1>2, <1>3
    <2> QED
      BY <1>1, <1>3, <2>1
  <1>5. Corrupt' /\ field' = field
    BY <1>1, <1>4, ConfigStays DEF config
  <1>6. field.kind # Text /\ field.kind \notin Binary
    BY <1>2, KindsDiffer
  <1>7. (IF field.kind = Text THEN Unassigned # {}
         ELSE field.kind \notin Binary /\ Corrupt)'
    <2>1. Binary' = Binary /\ Text' = Text
      BY DEF Binary, Text, Integer, Unsigned
    <2> QED
      BY <1>5, <1>6, <2>1
  <1>8. ForCause'
    BY <1>1, <1>7 DEF ForCause
  <1> QED
    BY <1>1, <1>8, EndKeeps

LEMMA RejectBinaryKeeps == EInv /\ RejectBinary => EInv'
  <1> SUFFICES ASSUME EInv, RejectBinary PROVE EInv'
    OBVIOUS
  <1>1. /\ phase' = "unsupported" /\ config' = config /\ at' = at /\ value' = value
        /\ Declared /\ field.kind \in Binary /\ TooWide /\ ConfigOK
    BY DEF RejectBinary, End, EInv
  <1>2. Meaning >= Half
    BY <1>1, TooWideMeans
  <1>3. (Meaning >= Half)'
    BY <1>1, <1>2, ConfigStays DEF Half
  <1>4. ForCause'
    BY <1>1, <1>3 DEF ForCause
  <1> QED
    BY <1>1, <1>4, EndKeeps

LEMMA RejectTextKeeps == EInv /\ RejectText => EInv'
  <1> SUFFICES ASSUME EInv, RejectText PROVE EInv'
    OBVIOUS
  <1>1. /\ phase' = "invalid" /\ config' = config /\ at' = at /\ value' = value
        /\ Declared /\ field.kind = Text /\ Unassigned # {}
    BY DEF RejectText, End
  <1>2. (IF field.kind = Text THEN Unassigned # {}
         ELSE field.kind \notin Binary /\ Corrupt)'
    <2>1. field' = field /\ Text' = Text /\ Unassigned' = Unassigned
      BY <1>1, ConfigStays DEF config, Text
    <2> QED
      BY <1>1, <2>1
  <1>3. ForCause'
    BY <1>1, <1>2 DEF ForCause
  <1> QED
    BY <1>1, <1>3, EndKeeps

LEMMA RejectLengthKeeps == EInv /\ (RejectLength \/ RefuseBody) => EInv'
  <1> SUFFICES ASSUME EInv, RejectLength \/ RefuseBody PROVE EInv'
    OBVIOUS
  <1>1. /\ phase' \in {"invalid", "unsupported"}
        /\ config' = config /\ at' = at /\ value' = value
        /\ phase \in {"text", "body"} /\ role = "record_length"
    BY DEF RejectLength, RefuseBody, End, EInv, InBody
  <1>2. Declared /\ role' = "record_length"
    BY <1>1 DEF EInv, config
  <1>3. ForCause'
    BY <1>1, <1>2 DEF ForCause
  <1> QED
    BY <1>1, <1>2, <1>3, EndKeeps

(***************************************************************************)
(* Then the digits, and their sign: none of it can leave the accumulator.  *)
(***************************************************************************)
LEMMA StartDigitsKeeps == EInv /\ StartDigits => EInv'
  <1> SUFFICES ASSUME EInv, StartDigits PROVE EInv'
    OBVIOUS
  <1>1. /\ phase' = "digits" /\ config' = config /\ at' = at /\ value' = value
        /\ at = 0 /\ value = 0 /\ Declared /\ ConfigOK
        /\ field.kind \in {Packed, Zoned}
    BY DEF StartDigits, EInv
  <1>2. DigitsOf \in Nat
    BY <1>1, DigitsAre
  <1>3. Positional(DigitsUpto(0), 10) = 0
    <2>1. 0 \in 0..DigitsOf /\ \A i \in 0..(0 - 1) : ~NotADigit(i)
      BY <1>2
    <2> QED
      BY <1>1, <2>1, DigitsRead
  <1>4. DigitsUpto(at)' = DigitsUpto(0)
    BY <1>1, ReadStays DEF DigitsUpto
  <1>5. /\ field' = field /\ {Packed, Zoned}' = {Packed, Zoned}
        /\ DigitsOf' = DigitsOf
    BY <1>1, ConfigStays DEF config, Packed, Zoned
  <1>6. InDigits'
    <2>1. (field.kind \in {Packed, Zoned})'
      BY <1>1, <1>5
    <2>2. (at \in 0..DigitsOf)'
      BY <1>1, <1>2, <1>5
    <2>3. (\A i \in 0..(at - 1) : ~NotADigit(i))'
      BY <1>1
    <2>4. (value = Positional(DigitsUpto(at), 10))'
      BY <1>1, <1>3, <1>4
    <2> QED
      BY <2>1, <2>2, <2>3, <2>4 DEF InDigits
  <1>7. InBytes' /\ InText' /\ InNumber' /\ InBody' /\ InOutcome'
    BY <1>1 DEF InBytes, InText, InNumber, InBody, InOutcome
  <1> QED
    BY <1>1, <1>6, <1>7, GoesOn

LEMMA FoldDigitKeeps == EInv /\ FoldDigit => EInv'
  <1> SUFFICES ASSUME EInv, FoldDigit PROVE EInv'
    OBVIOUS
  <1> DEFINE x == value * 10 + DigitAt(at)
             k == at
  <1>1. /\ phase = "digits" /\ at < DigitsOf /\ ~NotADigit(at)
        /\ Compute(x, "digits", at + 1)
        /\ Declared /\ ConfigOK /\ field.kind \in {Packed, Zoned}
        /\ at \in 0..DigitsOf
        /\ \A i \in 0..(at - 1) : ~NotADigit(i)
        /\ value = Positional(DigitsUpto(at), 10)
    BY DEF FoldDigit, EInv, InDigits
  <1>2. DigitsOf \in Nat /\ at \in Nat /\ at + 1 \in 0..DigitsOf
    BY <1>1, DigitsAre
  <1>3. x = Positional(DigitsUpto(at + 1), 10)
    <2>1. k \in 0..DigitsOf /\ k < DigitsOf /\ \A i \in 0..(k - 1) : ~NotADigit(i)
      BY <1>1
    <2> HIDE DEF k
    <2>2. Positional(DigitsUpto(k + 1), 10) =
              Positional(DigitsUpto(k), 10) * 10 + DigitAt(k)
      BY <1>1, <2>1, DigitsRead
    <2> QED
      BY <1>1, <2>2 DEF k
  <1>4. \A i \in 0..((at + 1) - 1) : ~NotADigit(i)
    <2> SUFFICES ASSUME NEW i \in 0..((at + 1) - 1) PROVE ~NotADigit(i)
      OBVIOUS
    <2>1. i \in 0..(at - 1) \/ i = at
      BY <1>2
    <2> QED
      BY <1>1, <2>1
  <1>5. x \in Nat /\ x < Quarter
    <2> DEFINE j == at + 1
    <2>1. j \in 0..DigitsOf /\ \A i \in 0..(j - 1) : ~NotADigit(i)
      BY <1>2, <1>4
    <2>2. x = Positional(DigitsUpto(j), 10)
      BY <1>3
    <2> HIDE DEF j, x
    <2> QED
      BY <1>1, <2>1, <2>2, DigitsRead
  <1> HIDE DEF x, k
  <1>6. x \in Int /\ Fits(x, AccBits)
    BY <1>5, Widths DEF Fits, Half
  <1>7. /\ value' = x /\ phase' = "digits" /\ at' = at + 1 /\ config' = config
    <2>1. ~Panics(x) /\ Wrap(x) = x
      BY <1>6, WrapIsExact DEF Panics
    <2> QED
      BY <1>1, <2>1 DEF Compute
  <1>8. /\ field' = field /\ {Packed, Zoned}' = {Packed, Zoned}
        /\ DigitsOf' = DigitsOf /\ \A i : NotADigit(i)' = NotADigit(i)
    BY <1>7, ConfigStays DEF config, Packed, Zoned
  <1>9. DigitsUpto(at)' = DigitsUpto(at + 1)
    BY <1>7, ReadStays DEF DigitsUpto
  <1>10. InDigits'
    <2>1. (field.kind \in {Packed, Zoned})'
      BY <1>1, <1>8
    <2>2. (at \in 0..DigitsOf)'
      BY <1>2, <1>7, <1>8
    <2>3. (\A i \in 0..(at - 1) : ~NotADigit(i))'
      BY <1>4, <1>7, <1>8
    <2>4. (value = Positional(DigitsUpto(at), 10))'
      BY <1>3, <1>7, <1>9
    <2> QED
      BY <2>1, <2>2, <2>3, <2>4 DEF InDigits
  <1>11. InBytes' /\ InText' /\ InNumber' /\ InBody' /\ InOutcome'
    BY <1>7 DEF InBytes, InText, InNumber, InBody, InOutcome
  <1>12. at' \in Nat /\ value' \in Int
    BY <1>2, <1>6, <1>7
  <1> QED
    BY <1>1, <1>7, <1>10, <1>11, <1>12, GoesOn

(***************************************************************************)
(* A number to be used: it is what the bytes mean.                         *)
(***************************************************************************)
LEMMA NumberKeeps ==
    ASSUME EInv, Declared, config' = config, at' \in Nat, phase' = "decoded",
           value' = Meaning, Meaning \in Int, Fits(Meaning, AccBits),
           \/ field.kind = Text
           \/ field.size = MaxBinaryBytes
           \/ Meaning >= -Quarter,
           field.kind \in Binary \cup {Text} \/ ~Corrupt
    PROVE  EInv'
  <1>1. Meaning' = Meaning /\ field' = field
    BY ConfigStays DEF config
  <1>2. Fits(Meaning, AccBits)' = Fits(Meaning, AccBits)
    BY <1>1 DEF Fits
  <1>3. (\/ field.kind = Text
         \/ field.size = MaxBinaryBytes
         \/ Meaning >= -Quarter)'
    BY <1>1 DEF Text, Quarter
  <1>4. InNumber'
    BY <1>1, <1>2, <1>3 DEF InNumber
  <1>5. InDigits' /\ InBytes' /\ InText' /\ InBody' /\ InOutcome'
    BY DEF InDigits, InBytes, InText, InBody, InOutcome
  <1> QED
    BY <1>4, <1>5, GoesOn

LEMMA ApplySignKeeps == EInv /\ ApplySign => EInv'
  <1> SUFFICES ASSUME EInv, ApplySign PROVE EInv'
    OBVIOUS
  <1> DEFINE x == IF Sign \in Negative THEN -value ELSE value
             k == at
  <1>1. /\ phase = "digits" /\ at = DigitsOf
        /\ Compute(x, "decoded", at)
        /\ Declared /\ ConfigOK /\ field.kind \in {Packed, Zoned}
        /\ at \in 0..DigitsOf
        /\ \A i \in 0..(at - 1) : ~NotADigit(i)
        /\ value = Positional(DigitsUpto(at), 10)
    BY DEF ApplySign, EInv, InDigits
  <1>2. DigitsOf \in Nat /\ at \in Nat
        /\ (Corrupt <=> \E i \in 0..(DigitsOf - 1) : NotADigit(i))
    BY <1>1, DigitsAre
  <1>3. ~Corrupt
    BY <1>1, <1>2
  <1>4. x = Meaning
    BY <1>1, DigitsMean
  <1>5. value \in Nat /\ value < Quarter
    <2>1. k \in 0..DigitsOf /\ \A i \in 0..(k - 1) : ~NotADigit(i)
          /\ value = Positional(DigitsUpto(k), 10)
      BY <1>1
    <2> HIDE DEF k
    <2> QED
      BY <1>1, <2>1, DigitsRead
  <1>6. x \in Int /\ -Quarter <= x /\ x < Quarter
    BY <1>5, Widths
  <1> HIDE DEF x
  <1>7. Fits(x, AccBits) /\ x >= -Quarter
    BY <1>6, Widths DEF Fits, Half
  <1>8. /\ value' = x /\ phase' = "decoded" /\ at' = at /\ config' = config
    <2>1. ~Panics(x) /\ Wrap(x) = x
      BY <1>6, <1>7, WrapIsExact DEF Panics
    <2> QED
      BY <1>1, <2>1 DEF Compute
  <1> QED
    BY <1>1, <1>2, <1>3, <1>4, <1>6, <1>7, <1>8, NumberKeeps

(***************************************************************************)
(* The bytes of a binary field, shifted in.                                *)
(***************************************************************************)
LEMMA StartBinaryKeeps == EInv /\ StartBinary => EInv'
  <1> SUFFICES ASSUME EInv, StartBinary PROVE EInv'
    OBVIOUS
  <1>1. /\ phase' = "shifting" /\ config' = config /\ at' = at
        /\ value' = StartFrom /\ at = 0 /\ Declared /\ ConfigOK
        /\ field.kind \in Binary /\ ~TooWide
    BY DEF StartBinary, EInv
  <1>2. field.size \in Nat /\ field.size >= 1
    BY <1>1, BytesAre DEF Declared, WidthOK
  <1>3. Shifted(0) = StartFrom
    <2>1. 0 \in 0..field.size
      BY <1>2
    <2> QED
      BY <1>1, <2>1, BytesShift
  <1>4. Shifted(at)' = Shifted(0)
    BY <1>1, ReadStays DEF Shifted, BytesUpto
  <1>5. /\ field' = field /\ Binary' = Binary /\ TooWide' = TooWide
    BY <1>1, ConfigStays DEF config, Binary, Integer, Unsigned
  <1>6. InBytes'
    <2>1. (field.kind \in Binary /\ ~TooWide)'
      BY <1>1, <1>5
    <2>2. (at \in 0..field.size /\ at < field.size)'
      BY <1>1, <1>2, <1>5
    <2>3. (value = Shifted(at))'
      BY <1>1, <1>3, <1>4
    <2> QED
      BY <2>1, <2>2, <2>3 DEF InBytes
  <1>7. InDigits' /\ InText' /\ InNumber' /\ InBody' /\ InOutcome'
    BY <1>1 DEF InDigits, InText, InNumber, InBody, InOutcome
  <1>8. at' \in Nat /\ value' \in Int
    BY <1>1 DEF StartFrom
  <1> QED
    BY <1>1, <1>6, <1>7, <1>8, GoesOn

LEMMA ShiftByteKeeps == EInv /\ ShiftByte => EInv'
  <1> SUFFICES ASSUME EInv, ShiftByte PROVE EInv'
    OBVIOUS
  <1> DEFINE k == at
  <1>1. /\ config' = config /\ at' = at + 1
        /\ value' = Wrap(value * 256) + bytes[at + 1]
        /\ phase' = IF at' = field.size THEN "decoded" ELSE "shifting"
        /\ Declared /\ ConfigOK /\ field.kind \in Binary /\ ~TooWide
        /\ at \in 0..field.size /\ at < field.size /\ value = Shifted(at)
    BY DEF ShiftByte, EInv, InBytes
  <1>2. field.size \in Nat /\ at \in Nat /\ at + 1 \in 0..field.size
    BY <1>1, BytesAre
  <1>3. /\ value * 256 \in Int /\ Fits(value * 256, AccBits)
        /\ Shifted(at + 1) = value * 256 + bytes[at + 1]
    <2>1. k \in 0..field.size /\ k < field.size /\ value = Shifted(k)
      BY <1>1
    <2> HIDE DEF k
    <2>2. /\ Shifted(k) * 256 \in Int /\ Fits(Shifted(k) * 256, AccBits)
          /\ Shifted(k + 1) = Shifted(k) * 256 + bytes[k + 1]
      BY <1>1, <2>1, ShiftFits, BytesShift
    <2> QED
      BY <2>1, <2>2 DEF k
  <1>4. value' = Shifted(at + 1)
    <2>1. Wrap(value * 256) = value * 256
      BY <1>3, WrapIsExact
    <2> QED
      BY <1>1, <1>3, <2>1
  <1>5. Shifted(at + 1) \in Int
    <2> DEFINE j == at + 1
    <2>1. j \in 0..field.size
      BY <1>2
    <2> HIDE DEF j
    <2>2. Shifted(j) \in Int
      BY <1>1, <2>1, BytesShift
    <2> QED
      BY <2>2 DEF j
  <1>6. at' \in Nat /\ value' \in Int
    BY <1>1, <1>2, <1>4, <1>5
  <1>7. CASE at' = field.size
    <2>1. phase' = "decoded" /\ value' = Shifted(field.size)
      BY <1>1, <1>4, <1>7
    <2>2. /\ Shifted(field.size) = Meaning /\ Meaning \in Int
          /\ Fits(Meaning, AccBits)
          /\ field.size # MaxBinaryBytes => Meaning >= -Quarter
      BY <1>1, BytesMean
    <2> QED
      BY <1>1, <1>6, <2>1, <2>2, NumberKeeps
  <1>8. CASE at' # field.size
    <2>1. phase' = "shifting"
      BY <1>1, <1>8
    <2>2. /\ field' = field /\ Binary' = Binary /\ TooWide' = TooWide
      BY <1>1, ConfigStays DEF config, Binary, Integer, Unsigned
    <2>3. Shifted(at)' = Shifted(at + 1)
      BY <1>1, ReadStays DEF Shifted, BytesUpto
    <2>4. InBytes'
      <3>1. (field.kind \in Binary /\ ~TooWide)'
        BY <1>1, <2>2
      <3>2. (at \in 0..field.size /\ at < field.size)'
        BY <1>1, <1>2, <1>8, <2>2
      <3>3. (value = Shifted(at))'
        BY <1>4, <2>3
      <3> QED
        BY <3>1, <3>2, <3>3 DEF InBytes
    <2>5. InDigits' /\ InText' /\ InNumber' /\ InBody' /\ InOutcome'
      BY <2>1 DEF InDigits, InText, InNumber, InBody, InOutcome
    <2> QED
      BY <1>1, <1>6, <2>1, <2>4, <2>5, GoesOn
  <1> QED
    BY <1>7, <1>8

(***************************************************************************)
(* Text, and the number in it.                                             *)
(***************************************************************************)
LEMMA DecodeTextKeeps == EInv /\ DecodeText => EInv'
  <1> SUFFICES ASSUME EInv, DecodeText PROVE EInv'
    OBVIOUS
  <1>1. /\ phase' = "text" /\ config' = config /\ at' = at /\ value' = value
        /\ Declared /\ field.kind = Text /\ Unassigned = {}
        /\ text' = Clean(Translated)
    BY DEF DecodeText
  <1>2. /\ field' = field /\ Text' = Text /\ Unassigned' = Unassigned
        /\ Clean(Translated)' = Clean(Translated)
    BY <1>1, ConfigStays DEF config, Text
  <1>3. InText'
    BY <1>1, <1>2 DEF InText
  <1>4. InDigits' /\ InBytes' /\ InNumber' /\ InBody' /\ InOutcome'
    BY <1>1 DEF InDigits, InBytes, InNumber, InBody, InOutcome
  <1>5. at' \in Nat /\ value' \in Int
    BY <1>1 DEF EInv
  <1> QED
    BY <1>1, <1>3, <1>4, <1>5, GoesOn

(***************************************************************************)
(* What is parsed is a number.                                             *)
(***************************************************************************)
LEMMA ParsedIsInt ==
    ASSUME NEW t \in Seq(Characters), IsNumber(t)
    PROVE  Parsed(t) \in Int
  <1> DEFINE d == DigitsIn(t)
             s == [i \in DOMAIN d |-> Numeral[d[i]]]
  <1>1. d \in Seq(Characters)
    <2> DEFINE a == Len(SignOf(t)) + 1
    <2>1. a \in Nat /\ a >= 1
      <3>1. CASE t # <<>> /\ t[1] \in {"+", "-"}
        <4>1. SignOf(t) = SubSeq(t, 1, 1) /\ SubSeq(t, 1, 1) \in Seq(Characters)
          BY <3>1 DEF SignOf
        <4> QED
          BY <4>1
      <3>2. CASE ~(t # <<>> /\ t[1] \in {"+", "-"})
        <4>1. SignOf(t) = <<>>
          BY <3>2 DEF SignOf
        <4> QED
          BY <4>1
      <3> QED
        BY <3>1, <3>2
    <2> HIDE DEF a
    <2>2. SubSeq(t, a, Len(t)) \in Seq(Characters)
      BY <2>1
    <2> QED
      BY <2>2 DEF a, DigitsIn
  <1>2. ToSet(d) \subseteq DOMAIN Numeral
    BY DEF IsNumber
  <1> HIDE DEF d
  <1>3. s \in Seq(Nat)
    <2>1. Len(d) \in Nat /\ DOMAIN d = 1..Len(d)
      BY <1>1
    <2>2. \A i \in DOMAIN d : Numeral[d[i]] \in Nat
      <3>1. \A c \in DOMAIN Numeral : Numeral[c] \in 0..9
        BY WidthAssumption
      <3> QED
        BY <1>2, <3>1 DEF ToSet
    <2>3. s \in [1..Len(d) -> Nat]
      BY <2>1, <2>2
    <2> QED
      BY <2>1, <2>3, IntervalIsSeq
  <1> HIDE DEF s
  <1>4. Positional(s, 10) \in Nat
    <2>1. 10 \in Nat
      OBVIOUS
    <2> QED
      BY <1>3, <2>1, PositionalIsNat
  <1>5. Parsed(t) = IF SignOf(t) = <<"-">> THEN -Positional(s, 10)
                                           ELSE Positional(s, 10)
    BY Zenon DEF Parsed, s, d
  <1> QED
    BY <1>4, <1>5

LEMMA ParseLengthKeeps == EInv /\ ParseLength => EInv'
  <1> SUFFICES ASSUME EInv, ParseLength PROVE EInv'
    OBVIOUS
  <1>1. /\ phase' = "decoded" /\ config' = config /\ at' = at
        /\ IsNumber(Trim(text)) /\ value' = Parsed(Trim(text))
        /\ Declared /\ ConfigOK /\ field.kind = Text /\ Unassigned = {}
        /\ text = Clean(Translated) /\ at \in Nat
    BY DEF ParseLength, EInv, InText
  <1>2. Kept \in Seq(Characters) /\ TrimmedFrom(text, Kept)
    <2>1. bytes \in Seq(0..255)
      BY <1>1, BytesAre
    <2> QED
      BY <1>1, <2>1, TextIsTrimmed
  <1>3. text \in Seq(Characters) /\ Trim(text) = text
    BY <1>2, TrimAgain DEF TrimmedFrom
  <1>4. IsNumber(text) /\ value' = Parsed(text)
    BY <1>1, <1>3
  <1>5. Parsed(text) = TextNumber
    BY <1>2, <1>4, ParsedIsTheNumber
  <1>6. Meaning = TextNumber
    BY <1>1, KindsDiffer DEF Meaning, Binary
  <1>7. Parsed(text) \in Int /\ Fits(Parsed(text), AccBits)
    BY <1>3, <1>4, ParsedIsInt DEF IsNumber
  <1>8. value' = Meaning /\ Meaning \in Int /\ Fits(Meaning, AccBits) /\ at' \in Nat
    BY <1>1, <1>4, <1>5, <1>6, <1>7
  <1>9. field.kind \in Binary \cup {Text} \/ ~Corrupt
    BY <1>1
  <1> QED
    BY <1>1, <1>8, <1>9, NumberKeeps

(***************************************************************************)
(* Then the cell, the selector, the text or the body length.               *)
(***************************************************************************)
LEMMA OutcomeKeeps ==
    ASSUME EInv, Declared, config' = config, at' = at, value' = value,
           phase' = "done", InOutcome',
           field.kind \in Binary \cup {Text} \/ ~Corrupt
    PROVE  EInv'
  <1>1. InDigits' /\ InBytes' /\ InText' /\ InNumber' /\ InBody'
    BY DEF InDigits, InBytes, InText, InNumber, InBody
  <1>2. at' \in Nat /\ value' \in Int
    BY DEF EInv
  <1> QED
    BY <1>1, <1>2, GoesOn

LEMMA MakeKeeps == EInv /\ (MakeCell \/ MakeSelector \/ MakeText) => EInv'
  <1> SUFFICES ASSUME EInv, MakeCell \/ MakeSelector \/ MakeText PROVE EInv'
    OBVIOUS
  <1>1. /\ phase' = "done" /\ config' = config /\ at' = at /\ value' = value
        /\ phase \in {"decoded", "text"} /\ Declared
    BY DEF MakeCell, MakeSelector, MakeText, EInv
  <1>2. /\ field' = field /\ role' = role /\ Text' = Text
        /\ Unassigned' = Unassigned /\ Meaning' = Meaning
        /\ Clean(Translated)' = Clean(Translated)
    BY <1>1, ConfigStays DEF config, Text
  <1>3. CASE MakeCell
    <2>1. /\ role = "cell" /\ phase = "decoded" /\ value = Meaning /\ Meaning \in Int
          /\ outcome' = CellOf(Meaning, field.scale)
      BY <1>3 DEF MakeCell, EInv, InNumber
    <2>2. CellOf(Meaning, field.scale)' = CellOf(Meaning, field.scale)
      BY <1>2
    <2>3. InOutcome'
      BY <1>2, <2>1, <2>2 DEF InOutcome
    <2>4. field.kind \in Binary \cup {Text} \/ ~Corrupt
      BY <2>1 DEF EInv, ForCause
    <2> QED
      BY <1>1, <2>3, <2>4, OutcomeKeeps
  <1>4. CASE MakeSelector
    <2>1. /\ role = "record_type" /\ phase = "decoded" /\ value = Meaning
          /\ Meaning \in Int
          /\ outcome' = [kind |-> "decimal", text |-> Render(Meaning, field.scale),
                         unscaled |-> {}]
      BY <1>4 DEF MakeSelector, EInv, InNumber
    <2>2. Render(Meaning, field.scale)' = Render(Meaning, field.scale)
      BY <1>2
    <2>3. InOutcome'
      BY <1>2, <2>1, <2>2 DEF InOutcome
    <2>4. field.kind \in Binary \cup {Text} \/ ~Corrupt
      BY <2>1 DEF EInv, ForCause
    <2> QED
      BY <1>1, <2>3, <2>4, OutcomeKeeps
  <1>5. CASE MakeText
    <2>1. /\ role # "record_length" /\ phase = "text" /\ field.kind = Text
          /\ Unassigned = {}
          /\ outcome' = [kind |-> "text", text |-> Clean(Translated)]
      BY <1>5 DEF MakeText, EInv, InText
    <2>2. InOutcome'
      BY <1>2, <2>1 DEF InOutcome
    <2>3. field.kind \in Binary \cup {Text} \/ ~Corrupt
      BY <2>1
    <2> QED
      BY <1>1, <2>2, <2>3, OutcomeKeeps
  <1> QED
    BY <1>3, <1>4, <1>5

LEMMA BodyLengthKeeps == EInv /\ BodyLength => EInv'
  <1> SUFFICES ASSUME EInv, BodyLength PROVE EInv'
    OBVIOUS
  <1> DEFINE p == prefix_size
             x == value - p
  <1>1. /\ phase = "decoded" /\ role = "record_length"
        /\ Compute(x, "body", at) /\ Declared /\ ConfigOK
        /\ value = Meaning /\ Meaning \in Int /\ Fits(Meaning, AccBits)
        /\ \/ field.kind = Text
           \/ field.size = MaxBinaryBytes
           \/ Meaning >= -Quarter
        /\ field.kind \in Binary \cup {Text} \/ ~Corrupt
        /\ at \in Nat
    BY DEF BodyLength, EInv, InNumber, ForCause
  <1>2. p \in Nat /\ p < Quarter
    <2>1. field.size \in Nat /\ type_size \in Nat /\ type_size \in TypeSizes
          /\ field.kind \in Kinds
      BY <1>1, BytesAre DEF ConfigOK
    <2>2. field.size <= Limit(field.kind)
      BY <1>1 DEF Declared, WidthOK
    <2>3. Limit(field.kind) \in Nat /\ Limit(field.kind) <= MaxRecordBytes
      <3>1. /\ MaxPackedBytes \in 1..MaxRecordBytes
            /\ MaxZonedBytes \in 1..MaxRecordBytes
            /\ MaxBinaryBytes \in 2..MaxRecordBytes
            /\ MaxRecordBytes \in Nat
        BY WidthAssumption, Widths
      <3>2. Limit(field.kind) \in {MaxPackedBytes, MaxZonedBytes, MaxRecordBytes,
                                   MaxBinaryBytes}
        BY DEF Limit
      <3> QED
        BY <3>1, <3>2
    <2>4. MaxRecordBytes + type_size < Quarter
      BY <2>1, WidthAssumption DEF Quarter
    <2>5. MaxRecordBytes \in Nat /\ Quarter \in Nat
      BY Widths
    <2> QED
      BY <2>1, <2>2, <2>3, <2>4, <2>5 DEF prefix_size
  <1>3. /\ Quarter \in Nat /\ Half = 2 * Quarter /\ Half \in Nat
        /\ MaxRecordBytes \in Nat
    BY Widths
  <1>4. -Half <= Meaning /\ Meaning < Half
    BY <1>1 DEF Fits, Half
  <1> HIDE DEF p
  <1>5. x \in Int /\ x = Meaning - p /\ x < Half /\ x > -Half - Quarter
    BY <1>1, <1>2, <1>3, <1>4
  <1> HIDE DEF x
  <1>6. Fits(x, AccBits) <=> -Half <= x
    BY <1>3, <1>5 DEF Fits, Half
  <1>7. /\ role' = role \/ config' # config
        /\ Meaning' = Meaning \/ config' # config
        /\ p' = p \/ config' # config
        /\ field' = field \/ config' # config
    BY ConfigStays DEF config, p
  <1>8. CASE Panics(x)
    <2>1. phase' = "panicked" /\ config' = config /\ at' = at /\ value' = value
      BY <1>1, <1>8 DEF Compute, End
    <2>2. x < -Half
      BY <1>3, <1>5, <1>6, <1>8 DEF Panics
    <2>3. Meaning < p - Half
      BY <1>1, <1>2, <1>3, <1>5, <2>2
    <2>4. field.kind = Text \/ field.size = MaxBinaryBytes
      BY <1>1, <1>2, <1>3, <2>3
    <2>5. (Meaning < prefix_size - Half)'
      BY <1>7, <2>1, <2>3 DEF Half, p
    <2>6. (field.kind = Text \/ field.size = MaxBinaryBytes)'
      BY <1>7, <2>1, <2>4 DEF Text
    <2>7. ForCause'
      BY <1>1, <1>7, <2>1, <2>5, <2>6 DEF ForCause
    <2> QED
      BY <1>1, <2>1, <2>7, EndKeeps
  <1>9. CASE ~Panics(x)
    <2>1. phase' = "body" /\ config' = config /\ at' = at /\ value' = Wrap(x)
      BY <1>1, <1>9 DEF Compute
    <2>2. value' \in Int /\ (value' = Meaning - p \/ value' > MaxRecordBytes)
      <3>1. CASE Fits(x, AccBits)
        <4>1. Wrap(x) = x
          BY <1>5, <3>1, WrapIsExact
        <4> QED
          BY <1>5, <2>1, <4>1
      <3>2. CASE ~Fits(x, AccBits)
        <4>1. x < -Half
          BY <1>3, <1>5, <1>6, <3>2
        <4>2. Wrap(x) \in Int /\ Wrap(x) > MaxRecordBytes
          BY <1>5, <4>1, WrapIsLarge
        <4> QED
          BY <2>1, <4>2
      <3> QED
        BY <3>1, <3>2
    <2>3. (value = Meaning - prefix_size \/ value > MaxRecordBytes)'
      BY <1>7, <2>1, <2>2 DEF p
    <2>4. InBody'
      BY <1>1, <1>7, <2>1, <2>3 DEF InBody
    <2>5. InDigits' /\ InBytes' /\ InText' /\ InNumber' /\ InOutcome'
      BY <2>1 DEF InDigits, InBytes, InText, InNumber, InOutcome
    <2> QED
      BY <1>1, <2>1, <2>2, <2>4, <2>5, GoesOn
  <1> QED
    BY <1>8, <1>9

LEMMA AcceptBodyKeeps == EInv /\ AcceptBody => EInv'
  <1> SUFFICES ASSUME EInv, AcceptBody PROVE EInv'
    OBVIOUS
  <1>1. /\ phase' = "done" /\ config' = config /\ at' = at /\ value' = value
        /\ phase = "body" /\ value >= 0 /\ value <= MaxRecordBytes
        /\ value \in Int /\ Declared /\ role = "record_length"
        /\ value = Meaning - prefix_size \/ value > MaxRecordBytes
        /\ outcome' = [kind |-> "body", n |-> value]
        /\ field.kind \in Binary \cup {Text} \/ ~Corrupt
    BY DEF AcceptBody, BodyOK, EInv, InBody, ForCause
  <1>2. value = Meaning - prefix_size /\ value \in 0..MaxRecordBytes
    BY <1>1, Widths
  <1>3. role' = role /\ Meaning' = Meaning /\ prefix_size' = prefix_size
    BY <1>1, ConfigStays DEF config
  <1>4. InOutcome'
    BY <1>1, <1>2, <1>3 DEF InOutcome
  <1> QED
    BY <1>1, <1>4, OutcomeKeeps

LEMMA StutterKeeps == EInv /\ UNCHANGED vars => EInv'
  <1> SUFFICES ASSUME EInv, UNCHANGED vars PROVE EInv'
    OBVIOUS
  <1>1. /\ config' = config /\ phase' = phase /\ at' = at /\ value' = value
        /\ text' = text /\ outcome' = outcome
        /\ field' = field /\ role' = role
    BY DEF vars, config
  <1>2. /\ ConfigOK' = ConfigOK /\ Declared' = Declared
        /\ DigitsOf' = DigitsOf /\ Corrupt' = Corrupt
        /\ TooWide' = TooWide /\ Unassigned' = Unassigned
        /\ Clean(Translated)' = Clean(Translated)
        /\ Meaning' = Meaning /\ prefix_size' = prefix_size
        /\ \A k : NotADigit(k)' = NotADigit(k)
    BY <1>1, ConfigStays
  <1>3. DigitsUpto(at)' = DigitsUpto(at) /\ Shifted(at)' = Shifted(at)
    BY <1>1, ReadStays DEF DigitsUpto, Shifted, BytesUpto
  <1>4. /\ {Packed, Zoned}' = {Packed, Zoned} /\ Text' = Text /\ Binary' = Binary
    BY DEF Packed, Zoned, Text, Binary, Integer, Unsigned
  <1>5. InDigits' /\ InBytes'
    BY <1>1, <1>2, <1>3, <1>4 DEF InDigits, InBytes, EInv
  <1>6. InText' /\ InBody'
    BY <1>1, <1>2, <1>4 DEF InText, InBody, EInv
  <1>7. InNumber'
    BY <1>1, <1>2, <1>4 DEF InNumber, EInv, Fits, Quarter
  <1>8. InOutcome'
    <2>1. CellOf(Meaning, field.scale)' = CellOf(Meaning, field.scale)
      BY <1>1, <1>2
    <2>2. Render(Meaning, field.scale)' = Render(Meaning, field.scale)
      BY <1>1, <1>2
    <2> QED
      BY <1>1, <1>2, <1>4, <2>1, <2>2 DEF InOutcome, EInv
  <1>9. ForCause'
    BY <1>1, <1>2, <1>4 DEF ForCause, EInv, Half
  <1> QED
    BY <1>1, <1>2, <1>5, <1>6, <1>7, <1>8, <1>9 DEF EInv

-----------------------------------------------------------------------------
(***************************************************************************)
(* The invariant holds at every step of every decoding: the accumulator is *)
(* exact from the first digit or byte to the outcome made of it.           *)
(***************************************************************************)
THEOREM AccumulatorIsExact == Spec => []EInv
  <1>1. EInv /\ [Next]_vars => EInv'
    <2> SUFFICES ASSUME EInv, [Next]_vars PROVE EInv'
      OBVIOUS
    <2>1. CASE Refuse
      BY <2>1, RefuseKeeps
    <2>2. CASE StartDigits
      BY <2>2, StartDigitsKeeps
    <2>3. CASE RejectDigit
      BY <2>3, RejectDigitKeeps
    <2>4. CASE FoldDigit
      BY <2>4, FoldDigitKeeps
    <2>5. CASE ApplySign
      BY <2>5, ApplySignKeeps
    <2>6. CASE RejectBinary
      BY <2>6, RejectBinaryKeeps
    <2>7. CASE StartBinary
      BY <2>7, StartBinaryKeeps
    <2>8. CASE ShiftByte
      BY <2>8, ShiftByteKeeps
    <2>9. CASE RejectText
      BY <2>9, RejectTextKeeps
    <2>10. CASE DecodeText
      BY <2>10, DecodeTextKeeps
    <2>11. CASE RejectLength \/ RefuseBody
      BY <2>11, RejectLengthKeeps
    <2>12. CASE ParseLength
      BY <2>12, ParseLengthKeeps
    <2>13. CASE MakeCell \/ MakeSelector \/ MakeText
      BY <2>13, MakeKeeps
    <2>14. CASE BodyLength
      BY <2>14, BodyLengthKeeps
    <2>15. CASE AcceptBody
      BY <2>15, AcceptBodyKeeps
    <2>16. CASE UNCHANGED vars
      BY <2>16, StutterKeeps
    <2> QED
      BY <2>1, <2>2, <2>3, <2>4, <2>5, <2>6, <2>7, <2>8, <2>9, <2>10, <2>11,
         <2>12, <2>13, <2>14, <2>15, <2>16 DEF Next
  <1> QED
    BY <1>1, EInvInit, PTL DEF Spec

(***************************************************************************)
(* A decoded number is what the bytes of the field mean (decode.rs).       *)
(***************************************************************************)
THEOREM NumbersAreExact == Spec => []ValueIsExact
  <1>1. EInv => ValueIsExact
    BY DEF EInv, InNumber, ValueIsExact
  <1> QED
    BY <1>1, AccumulatorIsExact, PTL

(***************************************************************************)
(* A field is refused for what is wrong with it, and neither build panics  *)
(* but on a record length below what the accumulator holds.                *)
(***************************************************************************)
THEOREM RefusalsHaveACause == Spec => []RefusedForCause
  <1>1. EInv => RefusedForCause
    BY DEF EInv, ForCause, RefusedForCause, Corrupt, Half
  <1> QED
    BY <1>1, AccumulatorIsExact, PTL

(***************************************************************************)
(* A decoded text is what its bytes say between the blanks (decode_text).  *)
(***************************************************************************)
THEOREM TextsAreExact == Spec => []TextIsExact
  <1>1. EInv => TextIsExact
    <2> SUFFICES ASSUME EInv, phase = "done", outcome.kind = "text"
                 PROVE  LET t == outcome.text
                            printing(s) == Filter(s, Characters \ Blank)
                        IN  /\ t # <<>> => t[1] \notin Blank /\ t[Len(t)] \notin Blank
                            /\ \E i \in 0..Len(Kept) :
                                  t = SubSeq(Kept, i + 1, i + Len(t))
                            /\ printing(t) = printing(Kept)
      BY DEF TextIsExact
    <2>1. ConfigOK /\ InOutcome
      BY DEF EInv
    <2>2. outcome.text = Clean(Translated) /\ Unassigned = {}
      <3>1. \A n, s : CellOf(n, s).kind \in {"integer", "decimal"}
        BY DEF CellOf
      <3>2. \A x : "body" # "text" /\ [kind |-> "body", n |-> x].kind = "body"
        OBVIOUS
      <3>3. outcome.kind \notin {"integer", "decimal", "body"}
        OBVIOUS
      <3> HIDE DEF InOutcome
      <3>4. CASE role = "record_length"
                 /\ outcome = [kind |-> "body", n |-> Meaning - prefix_size]
        BY <3>2, <3>3, <3>4
      <3>5. CASE role = "cell" /\ outcome = CellOf(Meaning, field.scale)
        BY <3>1, <3>3, <3>5
      <3>6. CASE outcome = [kind |-> "decimal", unscaled |-> {},
                            text |-> Render(Meaning, field.scale)]
        BY <3>3, <3>6
      <3>7. CASE /\ Unassigned = {}
                 /\ outcome = [kind |-> "text", text |-> Clean(Translated)]
        BY <3>7
      <3> QED
        BY <2>1, <3>4, <3>5, <3>6, <3>7 DEF InOutcome
    <2>3. TrimmedFrom(Clean(Translated), Kept)
      <3>1. bytes \in Seq(0..255)
        BY <2>1, BytesAre
      <3> QED
        BY <2>2, <3>1, TextIsTrimmed
    <2> QED
      BY <2>2, <2>3 DEF TrimmedFrom, Seen
  <1> QED
    BY <1>1, AccumulatorIsExact, PTL

(***************************************************************************)
(* What a cell or a selector shows reads back as the number                *)
(* (to_cell_value, to_display_string).                                     *)
(***************************************************************************)
THEOREM CellsAreExact == Spec => []CellIsExact
  <1> DEFINE R(t, u) ==
               LET n == Positional(t.whole \o t.fraction, 10)
               IN  /\ Meaning = IF t.negative THEN -n ELSE n
                   /\ t.negative => n > 0
                   /\ Len(t.fraction) = field.scale
                   /\ Len(t.whole) >= 1
                   /\ t.whole[1] = 0 => Len(t.whole) = 1
                   /\ u \subseteq {Meaning}
                   /\ role = "cell" /\ u = {} =>
                         field.scale = 0 \/ ~Fits(Meaning, IntegerBits)
  <1>1. EInv => CellIsExact
    <2> SUFFICES ASSUME EInv, phase = "done", field.kind # Text,
                        role # "record_length"
                 PROVE  CASE outcome.kind = "integer" ->
                               outcome.n = Meaning /\ field.scale = 0
                          [] outcome.kind = "decimal" ->
                               R(outcome.text, outcome.unscaled)
      BY DEF CellIsExact
    <2>1. field.scale \in Nat
      BY BytesAre DEF EInv
    <2>2. /\ Meaning \in Int
          /\ \/ role = "cell" /\ outcome = CellOf(Meaning, field.scale)
             \/ /\ role = "record_type"
                /\ outcome = [kind |-> "decimal", unscaled |-> {},
                              text |-> Render(Meaning, field.scale)]
      BY DEF EInv, InOutcome
    <2>3. Says(Render(Meaning, field.scale), Meaning, field.scale)
      <3> DEFINE s == field.scale
      <3>1. s \in Nat
        BY <2>1
      <3> HIDE DEF s
      <3>2. Says(Render(Meaning, s), Meaning, s)
        BY <2>2, <3>1, RenderSays
      <3> QED
        BY <3>2 DEF s
    <2> DEFINE t == Render(Meaning, field.scale)
    <2>4. \A u : /\ u \subseteq {Meaning}
                 /\ role = "cell" /\ u = {} =>
                       field.scale = 0 \/ ~Fits(Meaning, IntegerBits)
                 => R(t, u)
      BY <2>3 DEF Says
    <2> HIDE DEF t, R
    <2>5. CASE role = "cell" /\ field.scale = 0 /\ Fits(Meaning, IntegerBits)
      <3>1. outcome = [kind |-> "integer", n |-> Meaning]
        BY <2>2, <2>5, Zenon DEF CellOf
      <3> QED
        BY <2>5, <3>1
    <2>6. CASE role = "cell" /\ ~(field.scale = 0 /\ Fits(Meaning, IntegerBits))
      <3> DEFINE u == IF field.scale > 0 /\ Fits(Meaning, IntegerBits)
                      THEN {Meaning} ELSE {}
      <3>1. outcome = [kind |-> "decimal", text |-> t, unscaled |-> u]
        <4>1. "cell" # "record_type"
          OBVIOUS
        <4>2. outcome = CellOf(Meaning, field.scale)
          BY <2>2, <2>6, <4>1
        <4> QED
          BY <2>6, <4>2, Zenon DEF CellOf, t
      <3>2. u \subseteq {Meaning}
        OBVIOUS
      <3>3. u = {} => field.scale = 0 \/ ~Fits(Meaning, IntegerBits)
        BY <2>1
      <3> HIDE DEF u
      <3>4. R(t, u)
        BY <2>4, <3>2, <3>3
      <3>5. outcome.kind = "decimal" /\ outcome.text = t /\ outcome.unscaled = u
        BY <3>1
      <3> QED
        BY <3>4, <3>5
    <2>7. CASE role = "record_type"
      <3>1. outcome = [kind |-> "decimal", unscaled |-> {}, text |-> t]
        BY <2>2, <2>7 DEF t
      <3>2. R(t, {})
        BY <2>4, <2>7
      <3>3. outcome.kind = "decimal" /\ outcome.text = t /\ outcome.unscaled = {}
        BY <3>1
      <3> QED
        BY <3>2, <3>3
    <2> QED
      BY <2>2, <2>5, <2>6, <2>7
  <1> QED
    BY <1>1, AccumulatorIsExact, PTL

(***************************************************************************)
(* A body length is the declared length less the prefix, wrapped or not    *)
(* (read_prefix).                                                          *)
(***************************************************************************)
THEOREM BodiesAreExact == Spec => []BodyIsExact
  <1>1. EInv => BodyIsExact
    BY DEF EInv, InOutcome, BodyIsExact
  <1> QED
    BY <1>1, AccumulatorIsExact, PTL
=============================================================================
