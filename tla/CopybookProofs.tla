--------------------------- MODULE CopybookProofs ---------------------------
(***************************************************************************)
(* What module Copybook states of the compiler, for every source, every    *)
(* limit and every number of columns, in every state the resolution of a   *)
(* request reaches.                                                        *)
(***************************************************************************)
EXTENDS Resolve, Induction, FiniteSetTheorems

(***************************************************************************)
(* What a parsed item is.                                                  *)
(***************************************************************************)
Usage == {"Display", "Packed", "Binary"}
Level == 1..49 \cup {77}

Item ==
    [level : Level, name : Name, picture : Name, usage : Usage,
     occurs : 0..MaxOccurs, conditions : Seq(ConditionName)]

(***************************************************************************)
(* The limits are numbers, which CopybookAssumption and LimitAssumption    *)
(* say.                                                                    *)
(***************************************************************************)
LEMMA Limits ==
    /\ MaxOccurs \in Nat /\ MaxConditionValues \in Nat /\ MaxSymbols \in Nat
    /\ SequenceColumns \in Nat /\ Margin \in Nat
    /\ MaxRecordBytes \in Nat /\ MaxLayoutFields \in Nat
  BY CopybookAssumption, LimitAssumption

(***************************************************************************)
(* str::parse gives a number, or -1 for a token that is not one.           *)
(***************************************************************************)
LEMMA NumberIsInt ==
    ASSUME NEW token
    PROVE  Number(token) \in Int /\ Number(token) >= -1
  <1>1. Word(token) \in DOMAIN Numeral => Numeral[Word(token)] \in Nat
    BY CopybookAssumption
  <1> QED
    BY <1>1 DEF Number

(***************************************************************************)
(* usage_of knows three usages.                                            *)
(***************************************************************************)
LEMMA UsageIsKnown ==
    ASSUME NEW w \in DOMAIN UsageOf
    PROVE  UsageOf[w] \in Usage
  BY DEF UsageOf, Usage

-----------------------------------------------------------------------------
(***************************************************************************)
(* The clauses of an item leave its level, its name and its conditions.    *)
(***************************************************************************)
ClauseDue == {"clause", "picture is", "picture", "usage is", "usage", "count",
              "nothing"}
ClauseFault == {"none", "invalid", "unsupported"}

Qualified(item) ==
    {i \in Item : /\ i.level = item.level
                  /\ i.name = item.name
                  /\ i.conditions = item.conditions}

ClauseState(item) ==
    [item : Qualified(item), due : ClauseDue, fault : ClauseFault]

(***************************************************************************)
(* The parts of the state of the loop over the clauses.                    *)
(***************************************************************************)
LEMMA ClauseStateParts ==
    ASSUME NEW item \in Item, NEW s \in ClauseState(item)
    PROVE  /\ s.item \in Qualified(item) /\ s.item \in Item
           /\ s.due \in ClauseDue /\ s.fault \in ClauseFault
           /\ \A what \in ClauseDue : Due(s, what) \in ClauseState(item)
           /\ \A why \in ClauseFault : Fail(s, why) \in ClauseState(item)
           /\ \A i \in Qualified(item) : Take(s, i) \in ClauseState(item)
  <1>1. /\ s = [item |-> s.item, due |-> s.due, fault |-> s.fault]
        /\ s.item \in Qualified(item)
        /\ s.due \in ClauseDue /\ s.fault \in ClauseFault
    BY DEF ClauseState
  <1>2. s.item \in Item
    BY <1>1 DEF Qualified
  <1>3. "clause" \in ClauseDue
    BY DEF ClauseDue
  <1>4. ASSUME NEW what \in ClauseDue
        PROVE  Due(s, what) \in ClauseState(item)
    BY <1>1, <1>4 DEF ClauseState, Due
  <1>5. ASSUME NEW why \in ClauseFault
        PROVE  Fail(s, why) \in ClauseState(item)
    BY <1>1, <1>5 DEF ClauseState, Fail
  <1>6. ASSUME NEW i \in Qualified(item)
        PROVE  Take(s, i) \in ClauseState(item)
    BY <1>1, <1>3, <1>6 DEF ClauseState, Take
  <1> QED
    BY <1>1, <1>2, <1>4, <1>5, <1>6

(***************************************************************************)
(* A clause that changes the item leaves its level, name and conditions.   *)
(***************************************************************************)
LEMMA QualifiedTakes ==
    ASSUME NEW item \in Item, NEW i \in Qualified(item)
    PROVE  /\ \A u \in Usage : [i EXCEPT !.usage = u] \in Qualified(item)
           /\ \A p \in Name : [i EXCEPT !.picture = p] \in Qualified(item)
           /\ \A n \in 1..MaxOccurs : [i EXCEPT !.occurs = n] \in Qualified(item)
  <1>1. \A n \in 1..MaxOccurs : n \in 0..MaxOccurs
    BY Limits
  <1> QED
    BY <1>1 DEF Qualified, Item

(***************************************************************************)
(* A clause keyword keeps the state of the loop one (parse_item).          *)
(***************************************************************************)
LEMMA KeywordTyped ==
    ASSUME NEW item \in Item, NEW s \in ClauseState(item), NEW w
    PROVE  Keyword(s, w) \in ClauseState(item)
  <1>1. /\ {"picture is", "usage is", "count", "nothing"} \subseteq ClauseDue
        /\ {"invalid", "unsupported"} \subseteq ClauseFault
    BY DEF ClauseDue, ClauseFault
  <1>2. /\ \A what \in {"picture is", "usage is", "count", "nothing"} :
              Due(s, what) \in ClauseState(item)
        /\ \A why \in {"invalid", "unsupported"} :
              Fail(s, why) \in ClauseState(item)
    BY <1>1, ClauseStateParts
  <1>3. ASSUME w \in DOMAIN UsageOf
        PROVE  Take(s, [s.item EXCEPT !.usage = UsageOf[w]]) \in ClauseState(item)
    BY <1>3, ClauseStateParts, QualifiedTakes, UsageIsKnown
  <1> QED
    BY <1>2, <1>3 DEF Keyword

(***************************************************************************)
(* So does any token.                                                      *)
(***************************************************************************)
LEMMA ClauseTyped ==
    ASSUME NEW item \in Item, NEW s \in ClauseState(item), NEW token \in Token
    PROVE  Clause(s, token) \in ClauseState(item)
  <1> DEFINE w == Word(token)
             n == Number(token)
             is == w = "IS" /\ s.due \in {"picture is", "usage is"}
  <1>1. s.due \in ClauseDue /\ s.item \in Qualified(item)
    BY ClauseStateParts
  <1>2. /\ Due(s, "usage") \in ClauseState(item)
        /\ Due(s, "picture") \in ClauseState(item)
        /\ Fail(s, "unsupported") \in ClauseState(item)
        /\ Fail(s, "invalid") \in ClauseState(item)
    <2>1. "usage" \in ClauseDue /\ "picture" \in ClauseDue
      BY DEF ClauseDue
    <2>2. "unsupported" \in ClauseFault /\ "invalid" \in ClauseFault
      BY DEF ClauseFault
    <2> QED
      BY <2>1, <2>2, ClauseStateParts
  <1>3. Take(s, [s.item EXCEPT !.picture = token]) \in ClauseState(item)
    <2>1. token \in Name
      BY DEF Token, Name
    <2> QED
      BY <1>1, <2>1, ClauseStateParts, QualifiedTakes
  <1>4. w \in DOMAIN UsageOf =>
           Take(s, [s.item EXCEPT !.usage = UsageOf[w]]) \in ClauseState(item)
    BY <1>1, ClauseStateParts, QualifiedTakes, UsageIsKnown
  <1>5. n \in 1..MaxOccurs =>
           Take(s, [s.item EXCEPT !.occurs = n]) \in ClauseState(item)
    BY <1>1, ClauseStateParts, QualifiedTakes
  <1>6. Keyword(s, w) \in ClauseState(item)
    BY KeywordTyped
  <1>7. CASE s.fault # "none" \/ s.due = "nothing"
    <2>1. Clause(s, token) = s
      BY <1>7 DEF Clause
    <2> QED
      BY <2>1
  <1>8. CASE ~(s.fault # "none" \/ s.due = "nothing")
    <2>1. CASE is
      <3>1. Clause(s, token) = Due(s, IF s.due = "usage is" THEN "usage"
                                      ELSE "picture")
        BY <1>8, <2>1 DEF Clause
      <3> QED
        BY <1>2, <3>1
    <2>2. CASE ~is /\ s.due \in {"picture is", "picture"}
      <3>1. Clause(s, token) = Take(s, [s.item EXCEPT !.picture = token])
        BY <1>8, <2>2 DEF Clause
      <3> QED
        BY <1>3, <3>1
    <2>3. CASE ~is /\ s.due \in {"usage is", "usage"}
      <3>1. Clause(s, token) = IF w \in DOMAIN UsageOf
                               THEN Take(s, [s.item EXCEPT !.usage = UsageOf[w]])
                               ELSE Fail(s, "unsupported")
        BY <1>8, <2>3 DEF Clause
      <3> QED
        BY <1>2, <1>4, <3>1
    <2>4. CASE s.due = "count"
      <3>1. Clause(s, token) = IF n \in 1..MaxOccurs
                               THEN Take(s, [s.item EXCEPT !.occurs = n])
                               ELSE Fail(s, "invalid")
        BY <1>8, <2>4 DEF Clause
      <3> QED
        BY <1>2, <1>5, <3>1
    <2>5. CASE s.due = "clause"
      <3>1. Clause(s, token) = Keyword(s, w)
        BY <1>8, <2>5 DEF Clause
      <3> QED
        BY <1>6, <3>1
    <2> QED
      BY <1>1, <1>8, <2>1, <2>2, <2>3, <2>4, <2>5 DEF ClauseDue
  <1> QED
    BY <1>7, <1>8

(***************************************************************************)
(* The loop over the tokens of an item.                                    *)
(***************************************************************************)
LEMMA ClausesTyped ==
    ASSUME NEW item \in Item, NEW tokens \in Seq(Token)
    PROVE  Clauses(item, tokens) \in ClauseState(item)
  <1> DEFINE n == Len(tokens)
             S == ClauseState(item)
             start == [item |-> item, due |-> "clause", fault |-> "none"]
             step == [i \in 1..n |-> [s \in S |-> Clause(s, tokens[i])]]
  <1>1. n \in Nat /\ \A i \in 1..n : tokens[i] \in Token
    OBVIOUS
  <1>2. start \in S
    BY DEF ClauseState, ClauseDue, ClauseFault, Qualified
  <1> HIDE DEF n, S, start
  <1>3. \A i \in 1..n, s \in S : Clause(s, tokens[i]) \in S
    BY <1>1, ClauseTyped DEF S
  <1>4. step \in [1..n -> [S -> S]]
    BY <1>3
  <1>5. \A i \in 1..n, s \in S : step[i][s] = Clause(s, tokens[i])
    OBVIOUS
  <1> HIDE DEF step
  <1>6. PICK f : Iterates(f, n, S, start, step)
    BY <1>1, <1>2, <1>4, IterationExists
  <1> DEFINE body(g) == [i \in 0..n |-> IF i = 0 THEN start
                                        ELSE Clause(g[i - 1], tokens[i])]
             read == CHOOSE g : g = body(g)
  <1>7. f = body(f)
    <2>1. ASSUME NEW i \in 1..n
          PROVE  f[i] = Clause(f[i - 1], tokens[i])
      <3>1. f[i - 1] \in S
        BY <1>1, <1>6 DEF Iterates
      <3> QED
        BY <1>5, <1>6, <3>1 DEF Iterates
    <2>2. f[0] = start /\ f = [i \in 0..n |-> f[i]]
      BY <1>6 DEF Iterates
    <2>3. \A i \in 0..n : i # 0 => i \in 1..n
      BY <1>1
    <2>4. \A i \in 0..n : f[i] = IF i = 0 THEN start
                                 ELSE Clause(f[i - 1], tokens[i])
      BY <2>1, <2>2, <2>3
    <2> QED
      BY <2>2, <2>4, Zenon
  <1>8. read = body(read)
    BY <1>7
  <1>9. /\ read[n].fault = "none" /\ read[n].due \notin {"clause", "nothing"}
              => Clauses(item, tokens) = Fail(read[n], "invalid")
        /\ ~(read[n].fault = "none" /\ read[n].due \notin {"clause", "nothing"})
              => Clauses(item, tokens) = read[n]
    BY DEF Clauses, n, start
  <1> HIDE DEF read
  <1>10. /\ read[0] = start
         /\ \A i \in 1..n : read[i] = Clause(read[i - 1], tokens[i])
    <2>1. 0 \in 0..n /\ \A i \in 1..n : i \in 0..n /\ i # 0
      BY <1>1
    <2> QED
      BY <1>8, <2>1
  <1>11. \A i \in 0..n : read[i] \in S
    <2> DEFINE U == {i \in 0..n : read[i] \in S}
    <2>1. 0 \in U
      BY <1>1, <1>2, <1>10
    <2>2. ASSUME NEW i \in 1..n, i - 1 \in U
          PROVE  i \in U
      <3>1. i \in 0..n /\ read[i - 1] \in S
        BY <1>1, <2>2
      <3> QED
        BY <1>3, <1>10, <3>1
    <2> HIDE DEF U
    <2>3. \A i \in 0..n : i \in U
      BY <1>1, <2>1, <2>2, IntervalInduction
    <2> QED
      BY <2>3 DEF U
  <1>12. read[n] \in S
    BY <1>1, <1>11
  <1>13. Fail(read[n], "invalid") \in S
    BY <1>12, ClauseStateParts DEF S, ClauseFault
  <1> QED
    BY <1>9, <1>12, <1>13 DEF S

-----------------------------------------------------------------------------
(***************************************************************************)
(* The values of a condition name.                                         *)
(***************************************************************************)
ConditionValue == [low : Name, high : Optional(Name)]
ValueState == [values : Seq(ConditionValue), range : BOOLEAN, fault : BOOLEAN]

(***************************************************************************)
(* The tokens from one place on are tokens.                                *)
(***************************************************************************)
LEMMA PieceTyped ==
    ASSUME NEW S, NEW s \in Seq(S), NEW a \in Nat \ {0}, NEW b \in Nat,
           b <= Len(s)
    PROVE  SubSeq(s, a, b) \in Seq(S)
  <1>1. \A i \in a..b : s[i] \in S
    <2>1. \A i \in a..b : i \in 1..Len(s)
      OBVIOUS
    <2> QED
      BY <2>1
  <1> QED
    BY <1>1

(***************************************************************************)
(* A literal without its quotes is a token.                                *)
(***************************************************************************)
LEMMA UnquoteTyped ==
    ASSUME NEW token \in Token
    PROVE  Unquote(token) \in Name
  <1>1. token \in Name /\ Len(token) \in Nat
    BY DEF Token, Name
  <1>2. Len(token) >= 2 => SubSeq(token, 2, Len(token) - 1) \in Name
    <2> SUFFICES ASSUME Len(token) >= 2
                 PROVE  SubSeq(token, 2, Len(token) - 1) \in Name
      OBVIOUS
    <2>1. token \in Seq(STRING) /\ 2 \in Nat \ {0} /\ Len(token) - 1 \in Nat
          /\ Len(token) - 1 <= Len(token)
      BY <1>1 DEF Name
    <2> DEFINE b == Len(token) - 1
    <2>2. b \in Nat /\ b <= Len(token)
      BY <2>1
    <2> HIDE DEF b
    <2>3. SubSeq(token, 2, b) \in Seq(STRING)
      BY <2>1, <2>2, PieceTyped
    <2> QED
      BY <2>3 DEF b, Name
  <1> QED
    BY <1>1, <1>2 DEF Unquote

(***************************************************************************)
(* A token of a VALUE clause keeps the values well formed                  *)
(* (condition_name).                                                       *)
(***************************************************************************)
LEMMA ValueTyped ==
    ASSUME NEW s \in ValueState, NEW token \in Token
    PROVE  Value(s, token) \in ValueState
  <1>1. /\ s.values \in Seq(ConditionValue)
        /\ s.range \in BOOLEAN /\ s.fault \in BOOLEAN
        /\ s = [values |-> s.values, range |-> s.range, fault |-> s.fault]
    BY DEF ValueState
  <1>2. Unquote(token) \in Name /\ {} \in Optional(Name)
        /\ {Unquote(token)} \in Optional(Name)
    BY UnquoteTyped DEF Optional
  <1>3. CASE Word(token) \in {"IS", "ARE"}
    BY <1>3 DEF Value
  <1>4. CASE /\ Word(token) \notin {"IS", "ARE"}
             /\ Word(token) \in {"THRU", "THROUGH"}
    <2>1. Value(s, token) = [s EXCEPT !.range = TRUE,
                                      !.fault = @ \/ s.values = <<>>]
      BY <1>4 DEF Value
    <2> DEFINE fault == s.fault \/ s.values = <<>>
    <2>2. Value(s, token) = [values |-> s.values, range |-> TRUE,
                             fault |-> fault]
      BY <1>1, <2>1
    <2>3. fault \in BOOLEAN /\ TRUE \in BOOLEAN
      OBVIOUS
    <2> HIDE DEF fault
    <2> QED
      BY <1>1, <2>2, <2>3 DEF ValueState
  <1>5. CASE /\ Word(token) \notin {"IS", "ARE", "THRU", "THROUGH"}
             /\ s.range /\ s.values # <<>>
    <2> DEFINE k == Len(s.values)
               high == {Unquote(token)}
               new == [s.values EXCEPT ![k].high = high]
    <2>1. Value(s, token) = [s EXCEPT !.values[k].high = high, !.range = FALSE]
      BY <1>5 DEF Value
    <2>2. Value(s, token) = [values |-> new, range |-> FALSE, fault |-> s.fault]
      BY <1>1, <2>1
    <2>3. k \in 1..Len(s.values) /\ s.values[k] \in ConditionValue
      BY <1>1, <1>5
    <2>4. [s.values[k] EXCEPT !.high = high] \in ConditionValue
      BY <1>2, <2>3 DEF ConditionValue
    <2>5. new \in Seq(ConditionValue)
      BY <1>1, <2>3, <2>4
    <2> HIDE DEF new
    <2> QED
      BY <1>1, <2>2, <2>5 DEF ValueState
  <1>6. CASE /\ Word(token) \notin {"IS", "ARE", "THRU", "THROUGH"}
             /\ ~(s.range /\ s.values # <<>>)
    <2> DEFINE new == Append(s.values, [low |-> Unquote(token), high |-> {}])
    <2>1. Value(s, token) = [s EXCEPT !.values = new]
      BY <1>6 DEF Value
    <2>2. [low |-> Unquote(token), high |-> {}] \in ConditionValue
      BY <1>2 DEF ConditionValue
    <2>3. new \in Seq(ConditionValue)
      BY <1>1, <2>2
    <2> HIDE DEF new
    <2> QED
      BY <1>1, <2>1, <2>3 DEF ValueState
  <1> QED
    BY <1>3, <1>4, <1>5, <1>6

(***************************************************************************)
(* The loop over a VALUE clause ends with values, or with none.            *)
(***************************************************************************)
LEMMA ValuesTyped ==
    ASSUME NEW tokens \in Seq(Token)
    PROVE  Values(tokens) \in Seq(ConditionValue)
  <1> DEFINE n == Len(tokens)
             S == ValueState
             start == [values |-> <<>>, range |-> FALSE, fault |-> FALSE]
             step == [i \in 1..n |-> [s \in S |-> Value(s, tokens[i])]]
  <1>1. n \in Nat /\ \A i \in 1..n : tokens[i] \in Token
    OBVIOUS
  <1>2. start \in S
    <2>1. <<>> \in Seq(ConditionValue)
      OBVIOUS
    <2> QED
      BY <2>1 DEF ValueState
  <1> HIDE DEF n, S, start
  <1>3. \A i \in 1..n, s \in S : Value(s, tokens[i]) \in S
    BY <1>1, ValueTyped DEF S
  <1>4. step \in [1..n -> [S -> S]]
    BY <1>3
  <1>5. \A i \in 1..n, s \in S : step[i][s] = Value(s, tokens[i])
    OBVIOUS
  <1> HIDE DEF step
  <1>6. PICK f : Iterates(f, n, S, start, step)
    BY <1>1, <1>2, <1>4, IterationExists
  <1> DEFINE body(g) == [i \in 0..n |-> IF i = 0 THEN start
                                        ELSE Value(g[i - 1], tokens[i])]
             read == CHOOSE g : g = body(g)
  <1>7. f = body(f)
    <2>1. ASSUME NEW i \in 1..n
          PROVE  f[i] = Value(f[i - 1], tokens[i])
      <3>1. f[i - 1] \in S
        BY <1>1, <1>6 DEF Iterates
      <3> QED
        BY <1>5, <1>6, <3>1 DEF Iterates
    <2>2. f[0] = start /\ f = [i \in 0..n |-> f[i]]
      BY <1>6 DEF Iterates
    <2>3. \A i \in 0..n : i # 0 => i \in 1..n
      BY <1>1
    <2>4. \A i \in 0..n : f[i] = IF i = 0 THEN start
                                 ELSE Value(f[i - 1], tokens[i])
      BY <2>1, <2>2, <2>3
    <2> QED
      BY <2>2, <2>4, Zenon
  <1>8. read = body(read)
    BY <1>7
  <1>9. Values(tokens) \in {<<>>, read[n].values}
    BY DEF Values, n, start
  <1> HIDE DEF read
  <1>10. /\ read[0] = start
         /\ \A i \in 1..n : read[i] = Value(read[i - 1], tokens[i])
    <2>1. 0 \in 0..n /\ \A i \in 1..n : i \in 0..n /\ i # 0
      BY <1>1
    <2> QED
      BY <1>8, <2>1
  <1>11. \A i \in 0..n : read[i] \in S
    <2> DEFINE U == {i \in 0..n : read[i] \in S}
    <2>1. 0 \in U
      BY <1>1, <1>2, <1>10
    <2>2. ASSUME NEW i \in 1..n, i - 1 \in U
          PROVE  i \in U
      <3>1. i \in 0..n /\ read[i - 1] \in S
        BY <1>1, <2>2
      <3> QED
        BY <1>3, <1>10, <3>1
    <2> HIDE DEF U
    <2>3. \A i \in 0..n : i \in U
      BY <1>1, <2>1, <2>2, IntervalInduction
    <2> QED
      BY <2>3 DEF U
  <1>12. read[n].values \in Seq(ConditionValue)
    BY <1>1, <1>11 DEF S, ValueState
  <1>13. <<>> \in Seq(ConditionValue)
    OBVIOUS
  <1> QED
    BY <1>9, <1>12, <1>13

(***************************************************************************)
(* The clause a condition name takes its values from, and the name.        *)
(***************************************************************************)
LEMMA LeastIsIn ==
    ASSUME NEW T \in SUBSET Nat, T # {}
    PROVE  Min(T) \in T /\ \A m \in T : Min(T) <= m
  <1>1. \E x \in T : \A y \in T : x <= y
    BY LeastNatural
  <1> QED
    BY <1>1 DEF Min

(***************************************************************************)
(* The place of the VALUE keyword is a place in the statement.             *)
(***************************************************************************)
LEMMA ValueKeywordTyped ==
    ASSUME NEW tokens \in Seq(Token)
    PROVE  ValueKeyword(tokens) \in 0..Len(tokens)
  <1> DEFINE T == {i \in 1..Len(tokens) : Word(tokens[i]) \in {"VALUE", "VALUES"}}
  <1>1. ValueKeyword(tokens) = IF T # {} THEN Min(T) ELSE 0
    BY DEF ValueKeyword, SelectInSeq
  <1>2. T \in SUBSET Nat /\ T \subseteq 1..Len(tokens) /\ Len(tokens) \in Nat
    OBVIOUS
  <1> HIDE DEF T
  <1>3. T # {} => Min(T) \in T
    BY <1>2, LeastIsIn
  <1>4. CASE T = {}
    BY <1>1, <1>2, <1>4
  <1>5. CASE T # {}
    <2>1. Min(T) \in 1..Len(tokens) /\ ValueKeyword(tokens) = Min(T)
      BY <1>1, <1>2, <1>3, <1>5
    <2> QED
      BY <1>2, <2>1
  <1> QED
    BY <1>4, <1>5

(***************************************************************************)
(* A level-88 entry that is one gives a condition with its name.           *)
(***************************************************************************)
LEMMA ConditionTyped ==
    ASSUME NEW tokens \in Seq(Token), Len(tokens) >= 2
    PROVE  /\ Condition(tokens) \in ConditionName
           /\ Condition(tokens).name = tokens[2]
  <1> DEFINE a == ValueKeyword(tokens) + 1
             piece == SubSeq(tokens, a, Len(tokens))
  <1>1. tokens[2] \in Name
    <2>1. tokens[2] \in Token
      OBVIOUS
    <2> QED
      BY <2>1 DEF Token, Name
  <1>2. a \in Nat \ {0} /\ Len(tokens) \in Nat /\ Len(tokens) <= Len(tokens)
    BY ValueKeywordTyped
  <1>3. Condition(tokens) = [name |-> tokens[2], values |-> Values(piece)]
    BY DEF Condition
  <1> HIDE DEF a
  <1>4. piece \in Seq(Token)
    BY <1>2, PieceTyped
  <1> HIDE DEF piece
  <1>5. Values(piece) \in Seq(ConditionValue)
    BY <1>4, ValuesTyped
  <1> QED
    BY <1>1, <1>3, <1>5 DEF ConditionName, ConditionValue

-----------------------------------------------------------------------------
(***************************************************************************)
(* What one statement does to the items: it adds an item that has no       *)
(* condition yet, or it adds a condition to the last one.                  *)
(***************************************************************************)
Adds(new, tokens) ==
    /\ Number(tokens[1]) # 88
    /\ \E item \in Item : /\ item.conditions = <<>>
                          /\ new = Append(items, item)

Qualifies(new, tokens) ==
    /\ Number(tokens[1]) = 88
    /\ items # <<>>
    /\ \E c \in ConditionName :
          /\ c.name = tokens[2]
          /\ new = [items EXCEPT ![Len(items)].conditions = Append(@, c)]

(***************************************************************************)
(* The item of a statement with a level is an item, and has no condition   *)
(* yet.                                                                    *)
(***************************************************************************)
LEMMA ParsedItemTyped ==
    ASSUME NEW tokens \in Seq(Token), Number(tokens[1]) \in Level
    PROVE  /\ ParsedItem(tokens).item \in Item
           /\ ParsedItem(tokens).item.conditions = <<>>
  <1> DEFINE named == Len(tokens) >= 2 /\ Word(tokens[2]) \notin ClauseKeyword
             name == IF named /\ Word(tokens[2]) # "FILLER"
                     THEN tokens[2] ELSE <<>>
             item == [level |-> Number(tokens[1]), name |-> name,
                      picture |-> <<>>, usage |-> "Display", occurs |-> 0,
                      conditions |-> <<>>]
             a == IF named THEN 3 ELSE 2
             piece == SubSeq(tokens, a, Len(tokens))
  <1>1. ParsedItem(tokens) = Clauses(item, piece)
    BY DEF ParsedItem
  <1>2. name \in Name
    <2>1. <<>> \in Name
      BY DEF Name
    <2>2. Len(tokens) >= 2 => tokens[2] \in Token
      OBVIOUS
    <2> QED
      BY <2>1, <2>2 DEF Token, Name
  <1>3. a \in Nat \ {0} /\ Len(tokens) \in Nat /\ Len(tokens) <= Len(tokens)
    OBVIOUS
  <1> HIDE DEF name, a
  <1>4. item \in Item
    <2>1. <<>> \in Name /\ <<>> \in Seq(ConditionName)
      BY DEF Name
    <2>2. 0 \in 0..MaxOccurs /\ "Display" \in Usage
      BY Limits DEF Usage
    <2> QED
      BY <1>2, <2>1, <2>2 DEF Item
  <1>5. item.conditions = <<>>
    OBVIOUS
  <1>6. piece \in Seq(Token)
    BY <1>3, PieceTyped
  <1> HIDE DEF item, piece
  <1>7. Clauses(item, piece) \in ClauseState(item)
    BY <1>4, <1>6, ClausesTyped
  <1> QED
    BY <1>1, <1>4, <1>5, <1>7 DEF ClauseState, Qualified

(***************************************************************************)
(* A statement that is not refused adds an item or a condition.            *)
(***************************************************************************)
LEMMA ParsedTyped ==
    ASSUME items \in Seq(Item), NEW tokens \in Seq(Token),
           Parsed(tokens).fault = "none"
    PROVE  Adds(Parsed(tokens).items, tokens)
           \/ Qualifies(Parsed(tokens).items, tokens)
  <1> DEFINE level == Number(tokens[1])
             holds == IsCondition(tokens) /\ items # <<>>
  <1>1. level \in Int
    BY NumberIsInt
  <1>2. CASE level \in Level
    <2>1. level # 88 /\ level \in 1..49 \cup {77}
      <3> HIDE DEF level
      <3>1. level \in 1..49 \cup {77}
        BY <1>2 DEF Level
      <3> QED
        BY <3>1
    <2>2. Parsed(tokens) = [items |-> Append(items, ParsedItem(tokens).item),
                            fault |-> ParsedItem(tokens).fault]
      BY <2>1 DEF Parsed
    <2>3. /\ ParsedItem(tokens).item \in Item
          /\ ParsedItem(tokens).item.conditions = <<>>
      BY <1>2, ParsedItemTyped
    <2>4. Parsed(tokens).items = Append(items, ParsedItem(tokens).item)
      BY <2>2
    <2> QED
      BY <2>1, <2>3, <2>4 DEF Adds
  <1>3. CASE level = 88
    <2>0. level \notin 1..49 \cup {77}
      BY <1>3
    <2>1. CASE holds
      <3>1. Parsed(tokens) = [items |-> Attach(Condition(tokens)),
                              fault |-> "none"]
        BY <1>3, <2>0, <2>1 DEF Parsed
      <3>2. /\ Condition(tokens) \in ConditionName
            /\ Condition(tokens).name = tokens[2]
        BY <2>1, ConditionTyped DEF IsCondition
      <3>3. Attach(Condition(tokens)) =
               [items EXCEPT ![Len(items)].conditions =
                   Append(@, Condition(tokens))]
        BY DEF Attach
      <3>4. Parsed(tokens).items = Attach(Condition(tokens))
        BY <3>1
      <3> QED
        BY <1>3, <2>1, <3>2, <3>3, <3>4, Zenon DEF Qualifies
    <2>2. CASE ~holds
      <3>1. Parsed(tokens) = [items |-> items, fault |-> "invalid"]
        BY <1>3, <2>0, <2>2 DEF Parsed
      <3> QED
        BY <3>1
    <2> QED
      BY <2>1, <2>2
  <1>4. CASE level \notin Level \cup {88}
    <2>1. level \notin 1..49 \cup {77} /\ level # 88
      BY <1>4 DEF Level
    <2>2. Parsed(tokens) \in {[items |-> items, fault |-> "unsupported"],
                              [items |-> items, fault |-> "invalid"]}
      BY <2>1 DEF Parsed
    <2> QED
      BY <2>2
  <1> QED
    BY <1>2, <1>3, <1>4

(***************************************************************************)
(* Either way the items keep what they are.                                *)
(***************************************************************************)
LEMMA AddedItems ==
    ASSUME items \in Seq(Item), NEW tokens, NEW new, Adds(new, tokens)
    PROVE  /\ new \in Seq(Item)
           /\ Len(new) = Len(items) + 1
           /\ \A i \in 1..Len(items) : new[i] = items[i]
           /\ new[Len(items) + 1].conditions = <<>>
  <1>1. PICK item \in Item : item.conditions = <<>> /\ new = Append(items, item)
    BY DEF Adds
  <1> QED
    BY <1>1, AppendHolds

(***************************************************************************)
(* A condition changes the last item, and nothing else of it.              *)
(***************************************************************************)
LEMMA QualifiedItems ==
    ASSUME items \in Seq(Item), NEW tokens, NEW new, Qualifies(new, tokens)
    PROVE  /\ Len(items) >= 1 /\ new \in Seq(Item) /\ Len(new) = Len(items)
           /\ \A i \in 1..(Len(items) - 1) : new[i] = items[i]
           /\ \E c \in ConditionName :
                 /\ c.name = tokens[2]
                 /\ new[Len(items)].conditions =
                        Append(items[Len(items)].conditions, c)
  <1> DEFINE n == Len(items)
  <1>1. PICK c \in ConditionName :
           /\ c.name = tokens[2]
           /\ new = [items EXCEPT ![n].conditions = Append(@, c)]
    BY DEF Qualifies
  <1>2. n \in Nat /\ n >= 1
    BY DEF Qualifies
  <1>3. n \in 1..Len(items) /\ items[n] \in Item
    BY <1>2
  <1> HIDE DEF n
  <1>4. Append(items[n].conditions, c) \in Seq(ConditionName)
    BY <1>3 DEF Item
  <1> DEFINE conditions == Append(items[n].conditions, c)
             old == items[n]
             last == [level |-> old.level, name |-> old.name,
                      picture |-> old.picture, usage |-> old.usage,
                      occurs |-> old.occurs, conditions |-> conditions]
  <1>5. last \in Item /\ last.conditions = conditions
    BY <1>3, <1>4 DEF Item
  <1>6. new = [items EXCEPT ![n] = last]
    <2>1. new = [items EXCEPT ![n].conditions = conditions]
      BY <1>1
    <2>2. [old EXCEPT !.conditions = conditions] = last
      <3>1. old \in Item
        BY <1>3
      <3> HIDE DEF old, conditions
      <3>2. old = [level |-> old.level, name |-> old.name,
                   picture |-> old.picture, usage |-> old.usage,
                   occurs |-> old.occurs, conditions |-> old.conditions]
        BY <3>1 DEF Item
      <3> QED
        BY <3>2
    <2> HIDE DEF conditions
    <2>3. new = [items EXCEPT ![n] = [old EXCEPT !.conditions = conditions]]
      BY <2>1
    <2> QED
      BY <2>2, <2>3
  <1> HIDE DEF last
  <1>7. new \in Seq(Item) /\ Len(new) = Len(items) /\ new[n] = last
    BY <1>3, <1>5, <1>6
  <1>8. \A i \in 1..(n - 1) : new[i] = items[i]
    BY <1>2, <1>3, <1>6 DEF n
  <1> QED
    BY <1>1, <1>2, <1>5, <1>7, <1>8 DEF n

-----------------------------------------------------------------------------
(***************************************************************************)
(* The symbols of a picture.  A repeat has a symbol to repeat.             *)
(***************************************************************************)
ExpandRecord ==
    [out : Token, due : {"symbol", "repeat", "count"}, count : Token,
     fault : BOOLEAN]
ExpandState == {s \in ExpandRecord : s.due # "symbol" => s.out # <<>>}

(***************************************************************************)
(* A symbol of a picture keeps the state of the loop of expand one.        *)
(***************************************************************************)
LEMMA SymbolTyped ==
    ASSUME NEW s \in ExpandState, NEW c \in STRING
    PROVE  Symbol(s, c) \in ExpandState
  <1>1. /\ s.out \in Seq(STRING) /\ s.count \in Seq(STRING)
        /\ s.due \in {"symbol", "repeat", "count"} /\ s.fault \in BOOLEAN
        /\ s.due # "symbol" => s.out # <<>>
        /\ s = [out |-> s.out, due |-> s.due, count |-> s.count,
                fault |-> s.fault]
    BY DEF ExpandState, ExpandRecord, Token
  <1>2. CASE s.fault
    BY <1>2 DEF Symbol
  <1>3. CASE ~s.fault /\ s.due = "count" /\ c = ")"
    <2> DEFINE n == Number(s.count)
               more == [k \in 1..(n - 1) |-> Last(s.out)]
               out == s.out \o more
    <2>1. Symbol(s, c) = Repeat(s)
      BY <1>3 DEF Symbol
    <2>2. CASE n \in 1..MaxSymbols
      <3>1. Repeat(s) = [s EXCEPT !.due = "symbol", !.count = <<>>,
                                  !.out = out]
        BY <2>2 DEF Repeat
      <3>2. Last(s.out) \in STRING
        <4>1. Len(s.out) \in 1..Len(s.out)
          BY <1>1, <1>3
        <4> QED
          BY <1>1, <4>1 DEF Last
      <3>3. n - 1 \in Nat
        BY <2>2, Limits
      <3>4. more \in Seq(STRING)
        BY <3>2, <3>3
      <3>5. out \in Token
        <4> HIDE DEF more
        <4> QED
          BY <1>1, <3>4 DEF Token
      <3> HIDE DEF out
      <3>6. Repeat(s) = [out |-> out, due |-> "symbol", count |-> <<>>,
                         fault |-> s.fault]
        BY <1>1, <3>1
      <3>7. <<>> \in Token
        BY DEF Token
      <3> QED
        BY <1>1, <2>1, <3>5, <3>6, <3>7 DEF ExpandState, ExpandRecord
    <2>3. CASE n \notin 1..MaxSymbols
      <3>1. Repeat(s) = [s EXCEPT !.fault = TRUE]
        BY <2>3 DEF Repeat, Fail
      <3>2. Repeat(s) = [out |-> s.out, due |-> s.due, count |-> s.count,
                         fault |-> TRUE]
        BY <1>1, <3>1
      <3> QED
        BY <1>1, <2>1, <3>2 DEF ExpandState, ExpandRecord, Token
    <2> QED
      BY <2>2, <2>3
  <1>4. CASE ~s.fault /\ s.due = "count" /\ c # ")"
    <2>1. Symbol(s, c) = [s EXCEPT !.count = Append(@, c)]
      BY <1>4 DEF Symbol
    <2>2. Append(s.count, c) \in Token
      BY <1>1 DEF Token
    <2> QED
      BY <1>1, <2>1, <2>2 DEF ExpandState, ExpandRecord, Token
  <1>5. CASE ~s.fault /\ s.due # "count" /\ c = "("
    <2>1. Symbol(s, c) = IF s.due = "repeat" THEN [s EXCEPT !.due = "count"]
                         ELSE [s EXCEPT !.fault = TRUE]
      BY <1>5 DEF Symbol, Due, Fail
    <2>2. CASE s.due = "repeat"
      BY <1>1, <2>1, <2>2 DEF ExpandState, ExpandRecord, Token
    <2>3. CASE s.due # "repeat"
      <3>1. Symbol(s, c) = [out |-> s.out, due |-> s.due, count |-> s.count,
                            fault |-> TRUE]
        BY <1>1, <2>1, <2>3
      <3> QED
        BY <1>1, <3>1 DEF ExpandState, ExpandRecord, Token
    <2> QED
      BY <2>2, <2>3
  <1>6. CASE ~s.fault /\ s.due # "count" /\ c # "("
    <2> DEFINE out == Append(s.out, c)
    <2>1. Symbol(s, c) = [s EXCEPT !.out = out, !.due = "repeat"]
      BY <1>6 DEF Symbol
    <2>2. out \in Seq(STRING) /\ out # <<>>
      BY <1>1
    <2> HIDE DEF out
    <2>3. Symbol(s, c) = [out |-> out, due |-> "repeat", count |-> s.count,
                          fault |-> s.fault]
      BY <1>1, <2>1
    <2> QED
      BY <1>1, <2>2, <2>3 DEF ExpandState, ExpandRecord, Token
  <1> QED
    BY <1>2, <1>3, <1>4, <1>5, <1>6

(***************************************************************************)
(* What expand returns is a sequence of symbols.                           *)
(***************************************************************************)
LEMMA ExpandTyped ==
    ASSUME NEW picture \in Token
    PROVE  Expand(picture) \in Token
  <1> DEFINE n == Len(picture)
             S == ExpandState
             start == [out |-> <<>>, due |-> "symbol", count |-> <<>>,
                       fault |-> FALSE]
             step == [i \in 1..n |-> [s \in S |-> Symbol(s, picture[i])]]
  <1>1. n \in Nat /\ \A i \in 1..n : picture[i] \in STRING
    BY DEF Token
  <1>2. start \in S
    <2>1. <<>> \in Token
      BY DEF Token
    <2> QED
      BY <2>1 DEF ExpandState, ExpandRecord
  <1> HIDE DEF n, S, start
  <1>3. \A i \in 1..n, s \in S : Symbol(s, picture[i]) \in S
    BY <1>1, SymbolTyped DEF S
  <1>4. step \in [1..n -> [S -> S]]
    BY <1>3
  <1>5. \A i \in 1..n, s \in S : step[i][s] = Symbol(s, picture[i])
    OBVIOUS
  <1> HIDE DEF step
  <1>6. PICK f : Iterates(f, n, S, start, step)
    BY <1>1, <1>2, <1>4, IterationExists
  <1> DEFINE body(g) == [i \in 0..n |-> IF i = 0 THEN start
                                        ELSE Symbol(g[i - 1], picture[i])]
             read == CHOOSE g : g = body(g)
  <1>7. f = body(f)
    <2>1. ASSUME NEW i \in 1..n
          PROVE  f[i] = Symbol(f[i - 1], picture[i])
      <3>1. f[i - 1] \in S
        BY <1>1, <1>6 DEF Iterates
      <3> QED
        BY <1>5, <1>6, <3>1 DEF Iterates
    <2>2. f[0] = start /\ f = [i \in 0..n |-> f[i]]
      BY <1>6 DEF Iterates
    <2>3. \A i \in 0..n : i # 0 => i \in 1..n
      BY <1>1
    <2>4. \A i \in 0..n : f[i] = IF i = 0 THEN start
                                 ELSE Symbol(f[i - 1], picture[i])
      BY <2>1, <2>2, <2>3
    <2> QED
      BY <2>2, <2>4, Zenon
  <1>8. read = body(read)
    BY <1>7
  <1>9. Expand(picture) \in {<<>>, read[n].out}
    BY DEF Expand, n, start
  <1> HIDE DEF read
  <1>10. /\ read[0] = start
         /\ \A i \in 1..n : read[i] = Symbol(read[i - 1], picture[i])
    <2>1. 0 \in 0..n /\ \A i \in 1..n : i \in 0..n /\ i # 0
      BY <1>1
    <2> QED
      BY <1>8, <2>1
  <1>11. \A i \in 0..n : read[i] \in S
    <2> DEFINE U == {i \in 0..n : read[i] \in S}
    <2>1. 0 \in U
      BY <1>1, <1>2, <1>10
    <2>2. ASSUME NEW i \in 1..n, i - 1 \in U
          PROVE  i \in U
      <3>1. i \in 0..n /\ read[i - 1] \in S
        BY <1>1, <2>2
      <3> QED
        BY <1>3, <1>10, <3>1
    <2> HIDE DEF U
    <2>3. \A i \in 0..n : i \in U
      BY <1>1, <2>1, <2>2, IntervalInduction
    <2> QED
      BY <2>3 DEF U
  <1>12. read[n].out \in Token
    BY <1>1, <1>11 DEF S, ExpandState, ExpandRecord
  <1>13. <<>> \in Token
    BY DEF Token
  <1> QED
    BY <1>9, <1>12, <1>13

-----------------------------------------------------------------------------
(***************************************************************************)
(* What a picture and a usage describe.                                    *)
(***************************************************************************)
Digits(symbols) == Cardinality({c \in DOMAIN symbols : symbols[c] = "9"})
IsText(symbols) == ToSet(symbols) \cap {"X", "A"} # {}
HoldsDigits(bytes, digits) == (8 * bytes - 1) * 3 >= digits * 10

NumericWidth(usage, digits, size, scale) ==
    /\ digits \in Nat /\ scale \in Nat /\ scale <= digits
    /\ usage = "Display" => size = digits
    /\ usage = "Packed" => digits \in {2 * size - 1, 2 * size - 2}
    /\ usage = "Binary" => /\ size \in {2, 4, 8} /\ HoldsDigits(size, digits)
                           /\ size > 2 => ~HoldsDigits(size \div 2, digits)

(***************************************************************************)
(* The widths of binary fields hold their digits and are the shortest that *)
(* do.                                                                     *)
(***************************************************************************)
LEMMA BinaryWidth ==
    ASSUME NEW digits \in 1..18
    PROVE  /\ BinaryBytes(digits) \in {2, 4, 8}
           /\ HoldsDigits(BinaryBytes(digits), digits)
           /\ BinaryBytes(digits) > 2 =>
                 ~HoldsDigits(BinaryBytes(digits) \div 2, digits)
  <1>1. CASE digits \in 1..4
    <2>1. BinaryBytes(digits) = 2
      BY <1>1 DEF BinaryBytes
    <2> QED
      BY <1>1, <2>1 DEF HoldsDigits
  <1>2. CASE digits \in 5..9
    <2>1. BinaryBytes(digits) = 4 /\ 4 \div 2 = 2
      BY <1>2 DEF BinaryBytes
    <2> QED
      BY <1>2, <2>1 DEF HoldsDigits
  <1>3. CASE digits \in 10..18
    <2>1. BinaryBytes(digits) = 8 /\ 8 \div 2 = 4
      BY <1>3 DEF BinaryBytes
    <2> QED
      BY <1>3, <2>1 DEF HoldsDigits
  <1> QED
    BY <1>1, <1>2, <1>3

(***************************************************************************)
(* The places in a sequence are finitely many, and so are some of them.    *)
(***************************************************************************)
LEMMA PlacesAreFinite ==
    ASSUME NEW symbols \in Token, NEW T \in SUBSET (DOMAIN symbols),
           NEW U \in SUBSET T
    PROVE  /\ Cardinality(T) \in Nat /\ Cardinality(U) \in Nat
           /\ Cardinality(U) <= Cardinality(T)
  <1>1. DOMAIN symbols = 1..Len(symbols) /\ 1 \in Int /\ Len(symbols) \in Int
    BY DEF Token
  <1>2. IsFiniteSet(DOMAIN symbols)
    BY <1>1, FS_Interval
  <1>3. IsFiniteSet(T)
    BY <1>2, FS_Subset
  <1>4. IsFiniteSet(U) /\ Cardinality(U) <= Cardinality(T)
    BY <1>3, FS_Subset
  <1> QED
    BY <1>3, <1>4, FS_CardinalityType

(***************************************************************************)
(* describe_numeric without a fault gives the width of the digits.         *)
(***************************************************************************)
LEMMA NumericDescribed ==
    ASSUME NEW symbols \in Token, NEW usage \in Usage,
           DescribeNumeric(symbols, usage).fault = "none"
    PROVE  LET d == DescribeNumeric(symbols, usage)
           IN  /\ d.kind \in Kind \ {"Skip"} /\ d.size \in Nat
               /\ NumericWidth(usage, Digits(symbols), d.size, d.scale)
  <1> DEFINE points == {i \in DOMAIN symbols : symbols[i] = "V"}
             nines == {i \in DOMAIN symbols : symbols[i] = "9"}
             behind == {i \in nines : \E p \in points : p < i}
             bad == {i \in DOMAIN symbols :
                        \/ symbols[i] \notin {"S", "V", "9"}
                        \/ symbols[i] = "S" /\ i # 1
                        \/ symbols[i] = "V" /\ i # Min(points)}
             digits == Cardinality(nines)
             scale == Cardinality(behind)
             why == IF symbols[Min(bad)] \in {"S", "V"}
                    THEN "invalid" ELSE "unsupported"
             sign == symbols[1] = "S"
             d == DescribeNumeric(symbols, usage)
  <1>1. /\ digits = Digits(symbols)
        /\ digits \in Nat /\ scale \in Nat /\ scale <= digits
    <2>1. nines \in SUBSET (DOMAIN symbols) /\ behind \in SUBSET nines
      OBVIOUS
    <2>2. digits = Digits(symbols)
      BY DEF Digits
    <2> HIDE DEF nines, behind
    <2> QED
      BY <2>1, <2>2, PlacesAreFinite
  <1>2. d = IF bad # {} THEN Fault(why)
            ELSE IF digits = 0 THEN Fault("invalid")
            ELSE CASE usage = "Display" ->
                         Described("ZonedDecimal", digits, scale)
                   [] usage = "Packed"  ->
                         Described("PackedDecimal", PackedBytes(digits), scale)
                   [] usage = "Binary" /\ digits > 18 -> Fault("unsupported")
                   [] usage = "Binary" /\ digits <= 18 ->
                         Described(IF sign THEN "Integer" ELSE "UnsignedInteger",
                                   BinaryBytes(digits), scale)
    BY DEF DescribeNumeric
  <1>3. why # "none"
    OBVIOUS
  <1>4. d.fault = "none"
    OBVIOUS
  <1> HIDE DEF bad, digits, scale, why, sign, d
  <1>5. /\ \A w : Fault(w).fault = w
        /\ \A k, x, y : /\ Described(k, x, y).kind = k
                        /\ Described(k, x, y).size = x
                        /\ Described(k, x, y).scale = y
    BY DEF Fault, Described
  <1>6. bad = {} /\ digits # 0
    BY <1>2, <1>3, <1>4, <1>5
  <1>7. CASE usage = "Display"
    <2>1. d = Described("ZonedDecimal", digits, scale)
      BY <1>2, <1>6, <1>7
    <2>2. d.kind = "ZonedDecimal" /\ d.size = digits /\ d.scale = scale
      BY <1>5, <2>1
    <2> QED
      BY <1>1, <1>7, <2>2 DEF NumericWidth, Kind, d
  <1>8. CASE usage = "Packed"
    <2>1. d = Described("PackedDecimal", PackedBytes(digits), scale)
      BY <1>2, <1>6, <1>8
    <2>2. /\ d.kind = "PackedDecimal" /\ d.size = digits \div 2 + 1
          /\ d.scale = scale
      BY <1>5, <2>1 DEF PackedBytes
    <2>3. /\ d.size \in Nat
          /\ digits \in {2 * d.size - 1, 2 * d.size - 2}
      BY <1>1, <2>2
    <2> QED
      BY <1>1, <1>8, <2>2, <2>3 DEF NumericWidth, Kind, d
  <1>9. CASE usage = "Binary"
    <2>1. digits <= 18
      <3> SUFFICES ASSUME digits > 18
                   PROVE  FALSE
        BY <1>1
      <3>1. d = Fault("unsupported")
        BY <1>1, <1>2, <1>6, <1>9
      <3> QED
        BY <1>4, <1>5, <3>1
    <2> DEFINE k == IF sign THEN "Integer" ELSE "UnsignedInteger"
    <2>2. d = Described(k, BinaryBytes(digits), scale)
      BY <1>1, <1>2, <1>6, <1>9, <2>1
    <2>3. k \in Kind \ {"Skip"}
      BY DEF Kind
    <2> HIDE DEF k
    <2>4. d.kind = k /\ d.size = BinaryBytes(digits) /\ d.scale = scale
      BY <1>5, <2>2
    <2>5. digits \in 1..18
      BY <1>1, <1>6, <2>1
    <2>6. /\ d.size \in {2, 4, 8} /\ HoldsDigits(d.size, digits)
          /\ d.size > 2 => ~HoldsDigits(d.size \div 2, digits)
      BY <2>4, <2>5, BinaryWidth
    <2> QED
      BY <1>1, <1>9, <2>3, <2>4, <2>6 DEF NumericWidth, d
  <1> QED
    BY <1>7, <1>8, <1>9 DEF Usage

(***************************************************************************)
(* An item whose description has no fault has the width its picture says.  *)
(***************************************************************************)
Wide(item, size, scale) ==
    LET symbols == Expand(item.picture)
    IN  /\ IsText(symbols) => size = Len(symbols) /\ item.usage = "Display"
        /\ ~IsText(symbols) =>
              NumericWidth(item.usage, Digits(symbols), size, scale)

(***************************************************************************)
(* describe without a fault gives a kind that is not a filler's, and the   *)
(* width the picture says.                                                 *)
(***************************************************************************)
LEMMA ItemDescribed ==
    ASSUME NEW item \in Item, Describe(item).fault = "none"
    PROVE  LET d == Describe(item)
           IN  /\ d.kind \in Kind \ {"Skip"} /\ d.size \in Nat
               /\ d.scale \in Nat
               /\ Wide(item, d.size, d.scale)
  <1> DEFINE symbols == Expand(item.picture)
             d == Describe(item)
  <1>1. symbols \in Token /\ item.usage \in Usage
    <2>1. item.picture \in Token
      BY DEF Item, Token, Name
    <2> QED
      BY <2>1, ExpandTyped DEF Item
  <1>2. d = IF symbols = <<>> THEN Fault("invalid")
            ELSE IF IsText(symbols)
                 THEN DescribeCharacter(symbols, item.usage)
                 ELSE DescribeNumeric(symbols, item.usage)
    BY DEF Describe, IsText
  <1>3. Wide(item, d.size, d.scale) <=>
           /\ IsText(symbols) => d.size = Len(symbols) /\ item.usage = "Display"
           /\ ~IsText(symbols) =>
                 NumericWidth(item.usage, Digits(symbols), d.size, d.scale)
    BY DEF Wide
  <1> HIDE DEF symbols, d
  <1>4. /\ \A w : Fault(w).fault = w
        /\ \A k, x, y : /\ Described(k, x, y).kind = k
                        /\ Described(k, x, y).size = x
                        /\ Described(k, x, y).scale = y
    BY DEF Fault, Described
  <1>5. d.fault = "none"
    BY DEF d
  <1>6. symbols # <<>>
    BY <1>2, <1>4, <1>5
  <1>7. CASE IsText(symbols)
    <2>1. d = DescribeCharacter(symbols, item.usage)
      BY <1>2, <1>6, <1>7
    <2>2. d = Described("Text", Len(symbols), 0) /\ item.usage = "Display"
      BY <1>4, <1>5, <2>1 DEF DescribeCharacter
    <2>3. d.kind = "Text" /\ d.size = Len(symbols) /\ d.scale = 0
      BY <1>4, <2>2
    <2>4. Len(symbols) \in Nat
      BY <1>1 DEF Token
    <2> QED
      BY <1>3, <1>7, <2>2, <2>3, <2>4 DEF Kind, d
  <1>8. CASE ~IsText(symbols)
    <2>1. d = DescribeNumeric(symbols, item.usage)
      BY <1>2, <1>6, <1>8
    <2>2. /\ d.kind \in Kind \ {"Skip"} /\ d.size \in Nat
          /\ NumericWidth(item.usage, Digits(symbols), d.size, d.scale)
      BY <1>1, <1>5, <2>1, NumericDescribed
    <2> QED
      BY <1>3, <1>8, <2>2 DEF NumericWidth, d
  <1> QED
    BY <1>7, <1>8

-----------------------------------------------------------------------------
(***************************************************************************)
(* The fields an item becomes.                                             *)
(***************************************************************************)
Group == [level : Level, name : Name]

(***************************************************************************)
(* An item occurs once or as often as OCCURS says, and never 0 times.      *)
(***************************************************************************)
LEMMA Occurs ==
    ASSUME NEW item \in Item
    PROVE  /\ Occurrences(item) \in Nat \ {0}
           /\ item.occurs = 0 => Occurrences(item) = 1
           /\ item.occurs # 0 => /\ Occurrences(item) = item.occurs
                                 /\ Occurrences(item) <= MaxOccurs
  <1>1. item.occurs \in 0..MaxOccurs /\ MaxOccurs \in Nat
    BY Limits DEF Item
  <1> DEFINE n == item.occurs
  <1>2. Occurrences(item) = CHOOSE x \in {1, n} : \A y \in {1, n} : x >= y
    BY DEF Occurrences, Max
  <1> HIDE DEF n
  <1>3. n \in Nat
    BY <1>1 DEF n
  <1>4. \E x \in {1, n} : \A y \in {1, n} : x >= y
    BY <1>3
  <1>5. /\ Occurrences(item) \in {1, n}
        /\ Occurrences(item) >= 1 /\ Occurrences(item) >= n
    BY <1>2, <1>4
  <1>6. CASE n = 0
    BY <1>5, <1>6 DEF n
  <1>7. CASE n # 0
    <2>1. Occurrences(item) = n
      BY <1>3, <1>5, <1>7
    <2> QED
      BY <1>1, <1>3, <1>7, <2>1 DEF n
  <1> QED
    BY <1>6, <1>7

(***************************************************************************)
(* The groups that stay open are groups.                                   *)
(***************************************************************************)
LEMMA OpenTyped ==
    ASSUME NEW item, groups \in Seq(Group)
    PROVE  OpenGroups(item) \in Seq(Group)
  <1> DEFINE T == {g \in ToSet(groups) : g.level < item.level}
  <1>1. OpenGroups(item) = Filter(groups, T)
    BY DEF OpenGroups
  <1> HIDE DEF T
  <1> QED
    BY <1>1, FilterPicks

(***************************************************************************)
(* The name of an occurrence is a name.                                    *)
(***************************************************************************)
LEMMA LeafTyped ==
    ASSUME NEW item \in Item, NEW k \in 1..Occurrences(item)
    PROVE  Leaf(item, k) \in Name
  <1>1. item.name \in Name /\ item.occurs \in 0..MaxOccurs
    BY DEF Item
  <1>2. CASE item.name = <<>> \/ item.occurs = 0
    BY <1>1, <1>2 DEF Leaf
  <1>3. CASE ~(item.name = <<>> \/ item.occurs = 0)
    <2>1. Leaf(item, k) = item.name \o <<"(", Subscript[k], ")">>
      BY <1>3 DEF Leaf
    <2>2. k \in 1..MaxOccurs
      BY <1>3, Occurs, Limits
    <2>3. Subscript[k] \in STRING
      BY <2>2, CopybookAssumption
    <2> DEFINE place == <<"(", Subscript[k], ")">>
    <2>4. place \in Seq(STRING)
      BY <2>3, StringAssumption
    <2> HIDE DEF place
    <2>5. item.name \o place \in Seq(STRING)
      BY <1>1, <2>4 DEF Name
    <2> QED
      BY <2>1, <2>5 DEF place, Name
  <1> QED
    BY <1>2, <1>3

(***************************************************************************)
(* Names joined by points are a name.                                      *)
(***************************************************************************)
LEMMA JoinedTyped ==
    ASSUME NEW n \in Nat, NEW f \in [1..n -> Name]
    PROVE  /\ [g \in 1..n |-> f[g] \o <<".">>] \in Seq(Name)
           /\ FlattenSeq([g \in 1..n |-> f[g] \o <<".">>]) \in Name
  <1> DEFINE seqs == [g \in 1..n |-> f[g] \o <<".">>]
  <1>1. <<".">> \in Seq(STRING)
    BY StringAssumption
  <1>2. seqs \in [1..n -> Seq(STRING)]
    <2>1. ASSUME NEW g \in 1..n
          PROVE  f[g] \o <<".">> \in Seq(STRING)
      <3>1. f[g] \in Seq(STRING)
        BY DEF Name
      <3> QED
        BY <1>1, <3>1
    <2> QED
      BY <2>1
  <1> HIDE DEF seqs
  <1>3. seqs \in Seq(Seq(STRING))
    BY <1>2, IntervalIsSeq
  <1>4. PICK h : Flattens(h, seqs, STRING)
    BY <1>3, FlattenUnfold
  <1>5. Len(seqs) \in 0..Len(seqs)
    BY <1>3
  <1>6. FlattenSeq(seqs) \in Seq(STRING)
    BY <1>4, <1>5 DEF Flattens
  <1> QED
    BY <1>3, <1>6 DEF seqs, Name

(***************************************************************************)
(* The path of an occurrence is a name.                                    *)
(***************************************************************************)
LEMMA QualifyTyped ==
    ASSUME NEW item \in Item, NEW k \in 1..Occurrences(item),
           groups \in Seq(Group)
    PROVE  Qualify(item, k) \in Name
  <1> DEFINE open == OpenGroups(item)
             n == Len(open)
             f == [g \in 1..n |-> open[g].name]
             seqs == [g \in 1..n |-> f[g] \o <<".">>]
  <1>1. open \in Seq(Group)
    BY OpenTyped
  <1>2. n \in Nat /\ f \in [1..n -> Name] /\ DOMAIN open = 1..n
    <2> HIDE DEF open
    <2>1. \A g \in 1..n : open[g] \in Group
      BY <1>1
    <2>2. \A g \in 1..n : open[g].name \in Name
      BY <2>1 DEF Group
    <2> QED
      BY <1>1, <2>2
  <1>3. \A g \in 1..n : f[g] = open[g].name
    OBVIOUS
  <1>4. seqs = [g \in DOMAIN open |-> open[g].name \o <<".">>]
    BY <1>2, <1>3
  <1>5. Qualify(item, k) = IF item.name = <<>> THEN <<>>
                           ELSE FlattenSeq(seqs) \o Leaf(item, k)
    BY <1>4 DEF Qualify
  <1> HIDE DEF n, f
  <1>6. FlattenSeq(seqs) \in Name
    BY <1>2, JoinedTyped
  <1> HIDE DEF seqs
  <1>7. FlattenSeq(seqs) \o Leaf(item, k) \in Name
    <2>1. FlattenSeq(seqs) \in Seq(STRING) /\ Leaf(item, k) \in Seq(STRING)
      BY <1>6, LeafTyped DEF Name
    <2> QED
      BY <2>1 DEF Name
  <1>8. <<>> \in Name
    BY DEF Name
  <1> QED
    BY <1>5, <1>7, <1>8

FieldFrom(item, k) ==
    [name   |-> Leaf(item, k),
     size   |-> Describe(item).size,
     kind   |-> IF item.name = <<>> THEN "Skip" ELSE Describe(item).kind,
     scale  |-> Describe(item).scale,
     offset |-> {},
     declaration |->
        [level        |-> item.level,
         path         |-> Qualify(item, k),
         occurs_index |-> IF item.occurs = 0 THEN 0 ELSE k,
         occurs_group |-> IF item.occurs = 0 THEN <<>> ELSE item.name,
         conditions   |-> item.conditions]]

(***************************************************************************)
(* An item becomes one field per occurrence.                               *)
(***************************************************************************)
LEMMA RawFieldsTyped ==
    ASSUME NEW item \in Item, groups \in Seq(Group),
           Describe(item).fault = "none"
    PROVE  /\ RawFields(item) \in Seq(RawField)
           /\ Len(RawFields(item)) = Occurrences(item)
           /\ \A k \in 1..Occurrences(item) :
                 RawFields(item)[k] = FieldFrom(item, k)
  <1> DEFINE n == Occurrences(item)
             d == Describe(item)
  <1>1. n \in Nat \ {0} /\ n \in Nat
    BY Occurs
  <1>2. RawFields(item) = [k \in 1..n |-> FieldFrom(item, k)]
    BY DEF RawFields, FieldFrom
  <1>3. /\ d.kind \in Kind /\ d.size \in Nat /\ d.scale \in Nat
    BY ItemDescribed
  <1>4. /\ item.level \in Nat /\ item.name \in Name /\ <<>> \in Name
        /\ item.conditions \in Seq(ConditionName)
    <2>1. \A l \in Level : l \in Nat
      BY DEF Level
    <2> QED
      BY <2>1 DEF Item, Name
  <1>5. ASSUME NEW k \in 1..n
        PROVE  FieldFrom(item, k) \in RawField
    <2> DEFINE kind == IF item.name = <<>> THEN "Skip" ELSE d.kind
               index == IF item.occurs = 0 THEN 0 ELSE k
               group == IF item.occurs = 0 THEN <<>> ELSE item.name
               declaration ==
                  [level |-> item.level, path |-> Qualify(item, k),
                   occurs_index |-> index, occurs_group |-> group,
                   conditions |-> item.conditions]
    <2>1. kind \in Kind /\ index \in Nat /\ group \in Name
      BY <1>1, <1>3, <1>4 DEF Kind
    <2>2. Qualify(item, k) \in Name /\ Leaf(item, k) \in Name
      BY QualifyTyped, LeafTyped
    <2> HIDE DEF kind, index, group
    <2>3. declaration \in Declaration
      BY <1>4, <2>1, <2>2 DEF Declaration
    <2>4. {} \in Optional(Nat)
      BY DEF Optional
    <2>5. FieldFrom(item, k) =
            [name |-> Leaf(item, k), size |-> d.size, kind |-> kind,
             scale |-> d.scale, offset |-> {}, declaration |-> declaration]
      BY DEF FieldFrom, kind, index, group
    <2> HIDE DEF declaration, d
    <2> QED
      BY <1>3, <2>1, <2>2, <2>3, <2>4, <2>5 DEF RawField
  <1> HIDE DEF n
  <1>6. [k \in 1..n |-> FieldFrom(item, k)] \in [1..n -> RawField]
    BY <1>5
  <1>7. RawFields(item) \in Seq(RawField) /\ Len(RawFields(item)) = n
    BY <1>1, <1>2, <1>6, IntervalIsSeq
  <1>8. \A k \in 1..n : RawFields(item)[k] = FieldFrom(item, k)
    BY <1>2
  <1> QED
    BY <1>7, <1>8 DEF n

-----------------------------------------------------------------------------
(***************************************************************************)
(* The loop over the symbols of a line.                                    *)
(***************************************************************************)
LexState ==
    [statements : Seq(Seq(Token)), current : Seq(Token), token : Token,
     quote : {"none"} \cup Quotes]

Lexes(f, code) ==
    /\ f \in [0..Len(code) -> LexState]
    /\ f[0] = LineStart
    /\ \A i \in 1..Len(code) : f[i] = LexSymbol(code, f[i - 1], i)
    /\ Lex(code) = EndToken(f[Len(code)])

(***************************************************************************)
(* The parts of the state of the loop over the symbols of a line.          *)
(***************************************************************************)
LEMMA LexStateParts ==
    ASSUME NEW s \in LexState
    PROVE  /\ s.statements \in Seq(Seq(Token)) /\ s.current \in Seq(Token)
           /\ s.token \in Token /\ s.quote \in {"none"} \cup Quotes
           /\ s = [statements |-> s.statements, current |-> s.current,
                   token |-> s.token, quote |-> s.quote]
  BY DEF LexState

(***************************************************************************)
(* Ending a token keeps the state one, and leaves no token.                *)
(***************************************************************************)
LEMMA EndTokenIs ==
    ASSUME NEW s \in LexState
    PROVE  /\ EndToken(s) \in LexState
           /\ EndToken(s) =
                 [statements |-> s.statements,
                  current |-> IF s.token = <<>> THEN s.current
                              ELSE Append(s.current, s.token),
                  token |-> <<>>, quote |-> s.quote]
  <1>1. /\ s.statements \in Seq(Seq(Token)) /\ s.current \in Seq(Token)
        /\ s.token \in Token /\ s.quote \in {"none"} \cup Quotes
        /\ s = [statements |-> s.statements, current |-> s.current,
                token |-> s.token, quote |-> s.quote]
    BY LexStateParts
  <1>2. CASE s.token = <<>>
    <2>1. EndToken(s) = s
      BY <1>2 DEF EndToken
    <2> QED
      BY <1>1, <1>2, <2>1
  <1>3. CASE s.token # <<>>
    <2> DEFINE longer == Append(s.current, s.token)
    <2>1. longer \in Seq(Token) /\ <<>> \in Token
      BY <1>1 DEF Token
    <2>2. EndToken(s) = [s EXCEPT !.current = longer, !.token = <<>>]
      BY <1>3 DEF EndToken
    <2> HIDE DEF longer
    <2>3. EndToken(s) = [statements |-> s.statements, current |-> longer,
                         token |-> <<>>, quote |-> s.quote]
      BY <1>1, <2>2
    <2> QED
      BY <1>1, <1>3, <2>1, <2>3 DEF LexState, longer
  <1> QED
    BY <1>2, <1>3

(***************************************************************************)
(* Ending a statement keeps the state one, and leaves no token of it.      *)
(***************************************************************************)
LEMMA EndStatementIs ==
    ASSUME NEW s \in LexState
    PROVE  /\ EndStatement(s) \in LexState
           /\ EndStatement(s) =
                 [statements |-> IF s.current = <<>> THEN s.statements
                                 ELSE Append(s.statements, s.current),
                  current |-> <<>>, token |-> s.token, quote |-> s.quote]
  <1>1. /\ s.statements \in Seq(Seq(Token)) /\ s.current \in Seq(Token)
        /\ s.token \in Token /\ s.quote \in {"none"} \cup Quotes
        /\ s = [statements |-> s.statements, current |-> s.current,
                token |-> s.token, quote |-> s.quote]
    BY LexStateParts
  <1>2. CASE s.current = <<>>
    <2>1. EndStatement(s) = s
      BY <1>2 DEF EndStatement
    <2> QED
      BY <1>1, <1>2, <2>1
  <1>3. CASE s.current # <<>>
    <2> DEFINE longer == Append(s.statements, s.current)
    <2>1. longer \in Seq(Seq(Token)) /\ <<>> \in Seq(Token)
      BY <1>1
    <2>2. EndStatement(s) = [s EXCEPT !.statements = longer, !.current = <<>>]
      BY <1>3 DEF EndStatement
    <2> HIDE DEF longer
    <2>3. EndStatement(s) = [statements |-> longer, current |-> <<>>,
                             token |-> s.token, quote |-> s.quote]
      BY <1>1, <2>2
    <2> QED
      BY <1>1, <1>3, <2>1, <2>3 DEF LexState, longer
  <1> QED
    BY <1>2, <1>3

(***************************************************************************)
(* One more symbol of a token keeps the state one.                         *)
(***************************************************************************)
LEMMA ExtendIs ==
    ASSUME NEW s \in LexState, NEW c \in STRING, NEW q \in {"none"} \cup Quotes
    PROVE  /\ Extend(s, c) \in LexState
           /\ [Extend(s, c) EXCEPT !.quote = q] \in LexState
           /\ [Extend(s, c) EXCEPT !.quote = q] =
                 [statements |-> s.statements, current |-> s.current,
                  token |-> Append(s.token, c), quote |-> q]
           /\ Extend(s, c) =
                 [statements |-> s.statements, current |-> s.current,
                  token |-> Append(s.token, c), quote |-> s.quote]
  <1>1. /\ s.statements \in Seq(Seq(Token)) /\ s.current \in Seq(Token)
        /\ s.token \in Token /\ s.quote \in {"none"} \cup Quotes
        /\ s = [statements |-> s.statements, current |-> s.current,
                token |-> s.token, quote |-> s.quote]
    BY LexStateParts
  <1> DEFINE longer == Append(s.token, c)
  <1>2. longer \in Token
    BY <1>1 DEF Token
  <1>3. Extend(s, c) = [s EXCEPT !.token = longer]
    BY DEF Extend
  <1> HIDE DEF longer
  <1>4. Extend(s, c) = [statements |-> s.statements, current |-> s.current,
                        token |-> longer, quote |-> s.quote]
    BY <1>1, <1>3
  <1>5. [Extend(s, c) EXCEPT !.quote = q] =
           [statements |-> s.statements, current |-> s.current,
            token |-> longer, quote |-> q]
    BY <1>4
  <1>6. /\ Extend(s, c) \in LexState
        /\ [Extend(s, c) EXCEPT !.quote = q] \in LexState
    BY <1>1, <1>2, <1>4, <1>5 DEF LexState
  <1> QED
    BY <1>4, <1>5, <1>6 DEF longer

(***************************************************************************)
(* Any symbol keeps the state one (the match in `statements`).             *)
(***************************************************************************)
LEMMA LexSymbolTyped ==
    ASSUME NEW code \in Token, NEW i \in 1..Len(code), NEW s \in LexState
    PROVE  LexSymbol(code, s, i) \in LexState
  <1> DEFINE c == code[i]
             q == IF c = s.quote THEN "none" ELSE s.quote
  <1>1. c \in STRING
    BY DEF Token
  <1>2. q \in {"none"} \cup Quotes
    BY LexStateParts
  <1>3. CASE s.quote # "none"
    <2>3. LexSymbol(code, s, i) = [Extend(s, c) EXCEPT !.quote = q]
      BY <1>3 DEF LexSymbol
    <2> HIDE DEF c, q
    <2>4. [Extend(s, c) EXCEPT !.quote = q] \in LexState
      BY <1>1, <1>2, ExtendIs
    <2> QED
      BY <2>3, <2>4
  <1>4. CASE s.quote = "none" /\ c \in Quotes
    <2>1. LexSymbol(code, s, i) = [Extend(s, c) EXCEPT !.quote = c]
      BY <1>4 DEF LexSymbol
    <2>2. c \in {"none"} \cup Quotes
      BY <1>4
    <2> HIDE DEF c
    <2>3. [Extend(s, c) EXCEPT !.quote = c] \in LexState
      BY <1>1, <2>2, ExtendIs
    <2> QED
      BY <2>1, <2>3
  <1>5. CASE s.quote = "none" /\ c \notin Quotes
    <2>1. LexSymbol(code, s, i) \in
             {EndStatement(EndToken(s)), EndToken(s), Extend(s, c)}
      BY <1>5 DEF LexSymbol
    <2>2. EndToken(s) \in LexState
      BY EndTokenIs
    <2>3. EndStatement(EndToken(s)) \in LexState
      BY <2>2, EndStatementIs
    <2> HIDE DEF c
    <2>4. Extend(s, c) \in LexState
      BY <1>1, <1>2, ExtendIs
    <2> QED
      BY <2>1, <2>2, <2>3, <2>4
  <1> QED
    BY <1>3, <1>4, <1>5

(***************************************************************************)
(* The loop over the symbols of a line exists as a function, and ends in   *)
(* such a state.                                                           *)
(***************************************************************************)
LEMMA LexUnfold ==
    ASSUME NEW code \in Token,
           statements \in Seq(Seq(Token)), current \in Seq(Token)
    PROVE  \E f : Lexes(f, code)
  <1> DEFINE n == Len(code)
             S == LexState
             step == [i \in 1..n |-> [s \in S |-> LexSymbol(code, s, i)]]
  <1>1. n \in Nat
    BY DEF Token
  <1>2. LineStart \in S
    <2>1. <<>> \in Token
      BY DEF Token
    <2> QED
      BY <2>1 DEF LineStart, LexState
  <1>3. \A i \in 1..n, s \in S : LexSymbol(code, s, i) \in S
    BY LexSymbolTyped
  <1> HIDE DEF n, S
  <1>4. step \in [1..n -> [S -> S]]
    BY <1>3
  <1>5. \A i \in 1..n, s \in S : step[i][s] = LexSymbol(code, s, i)
    OBVIOUS
  <1> HIDE DEF step
  <1>6. PICK f : Iterates(f, n, S, LineStart, step)
    BY <1>1, <1>2, <1>4, IterationExists
  <1> DEFINE body(g) == [i \in 0..n |-> IF i = 0 THEN LineStart
                                        ELSE LexSymbol(code, g[i - 1], i)]
             lexed == CHOOSE g : g = body(g)
  <1>7. f = body(f)
    <2>1. ASSUME NEW i \in 1..n
          PROVE  f[i] = LexSymbol(code, f[i - 1], i)
      <3>1. f[i - 1] \in S
        BY <1>1, <1>6 DEF Iterates
      <3> QED
        BY <1>5, <1>6, <3>1 DEF Iterates
    <2>2. f[0] = LineStart /\ f = [i \in 0..n |-> f[i]]
      BY <1>6 DEF Iterates
    <2>3. \A i \in 0..n : i # 0 => i \in 1..n
      BY <1>1
    <2>4. \A i \in 0..n : f[i] = IF i = 0 THEN LineStart
                                 ELSE LexSymbol(code, f[i - 1], i)
      BY <2>1, <2>2, <2>3
    <2> QED
      BY <2>2, <2>4, Zenon
  <1>8. lexed = body(lexed)
    BY <1>7
  <1>9. Lex(code) = EndToken(lexed[n])
    BY DEF Lex, n
  <1> HIDE DEF lexed
  <1>10. /\ lexed[0] = LineStart
         /\ \A i \in 1..n : lexed[i] = LexSymbol(code, lexed[i - 1], i)
    <2>1. 0 \in 0..n /\ \A i \in 1..n : i \in 0..n /\ i # 0
      BY <1>1
    <2> QED
      BY <1>8, <2>1
  <1>11. \A i \in 0..n : lexed[i] \in S
    <2> DEFINE U == {i \in 0..n : lexed[i] \in S}
    <2>1. 0 \in U
      BY <1>1, <1>2, <1>10
    <2>2. ASSUME NEW i \in 1..n, i - 1 \in U
          PROVE  i \in U
      <3>1. i \in 0..n /\ lexed[i - 1] \in S
        BY <1>1, <2>2
      <3> QED
        BY <1>3, <1>10, <3>1
    <2> HIDE DEF U
    <2>3. \A i \in 0..n : i \in U
      BY <1>1, <2>1, <2>2, IntervalInduction
    <2> QED
      BY <2>3 DEF U
  <1>12. lexed \in [0..n -> S]
    BY <1>8, <1>11
  <1>13. Lexes(lexed, code)
    BY <1>9, <1>10, <1>12 DEF Lexes, n, S
  <1> QED
    BY <1>13

(***************************************************************************)
(* The code of a line is a sequence of symbols (strip_card_columns).       *)
(***************************************************************************)
LEMMA CodeTyped ==
    ASSUME NEW l \in Token
    PROVE  Code(l) \in Token
  <1> DEFINE b == Min({Margin, Len(l)})
             a == SequenceColumns + 1
  <1>1. l \in Seq(STRING) /\ Len(l) \in Nat /\ <<>> \in Token
    BY DEF Token
  <1>2. Code(l) \in {<<>>, l, SubSeq(l, a, b)}
    BY DEF Code
  <1>3. b \in Nat /\ b <= Len(l)
    <2> DEFINE T == {Margin, Len(l)}
    <2>1. T \in SUBSET Nat /\ T # {} /\ Len(l) \in T
      BY <1>1, Limits
    <2> HIDE DEF T
    <2>2. Min(T) \in T /\ \A m \in T : Min(T) <= m
      BY <2>1, LeastIsIn
    <2> QED
      BY <2>1, <2>2 DEF T
  <1>4. a \in Nat \ {0}
    BY Limits
  <1> HIDE DEF a, b
  <1>5. SubSeq(l, a, b) \in Seq(STRING)
    BY <1>1, <1>3, <1>4, PieceTyped
  <1> QED
    BY <1>1, <1>2, <1>5 DEF Token

-----------------------------------------------------------------------------
(***************************************************************************)
(* The state of the compiler, whichever step it is at.                     *)
(***************************************************************************)
CTyped ==
    /\ options \in Options
    /\ source \in Source
    /\ line \in Nat \ {0} /\ at \in Nat \ {0}
    /\ current \in Seq(Token) /\ statements \in Seq(Seq(Token))
    /\ items \in Seq(Item) /\ groups \in Seq(Group)
    /\ record_bytes \in Nat /\ condition_values \in Nat
    /\ fields \in Seq(RawField)

(***************************************************************************)
(* Only ResolveCopybook and Compiling touch the compiler.                  *)
(***************************************************************************)
LEMMA CopybookSteps ==
    ASSUME [ResolveNext]_resolveVars
    PROVE  /\ options' = options
           /\ \/ UNCHANGED copybook
              \/ options.form = "copybook" /\ Compile(options.lines)
              \/ CompileStep
  <1>1. CASE UNCHANGED resolveVars
    BY <1>1 DEF resolveVars
  <1>2. CASE ResolveNone \/ ResolveProto \/ ResolveJson
    BY <1>2 DEF ResolveNone, ResolveProto, ResolveJson
  <1>3. CASE ResolveCopybook
    BY <1>3 DEF ResolveCopybook
  <1>4. CASE Compiling
    BY <1>4 DEF Compiling
  <1>5. CASE Compiled
    BY <1>5 DEF Compiled
  <1>6. CASE Validating
    BY <1>6 DEF Validating
  <1> QED
    BY <1>1, <1>2, <1>3, <1>4, <1>5, <1>6 DEF ResolveNext

(***************************************************************************)
(* A line that is lexed leaves a well-formed state.                        *)
(***************************************************************************)
LEMMA LineTyped ==
    ASSUME CTyped, NEW code \in Token
    PROVE  Lex(code) \in LexState
  <1>1. PICK f : Lexes(f, code)
    BY LexUnfold DEF CTyped
  <1>2. Len(code) \in 0..Len(code)
    BY DEF Token
  <1>3. f[Len(code)] \in LexState
    BY <1>1, <1>2 DEF Lexes
  <1> QED
    BY <1>1, <1>3, EndTokenIs DEF Lexes

(***************************************************************************)
(* A line read keeps the state of the compiler one.                        *)
(***************************************************************************)
LEMMA ReadLineTyped == CTyped /\ ReadLine /\ options' = options => CTyped'
  <1> SUFFICES ASSUME CTyped, ReadLine, options' = options
               PROVE  CTyped'
    OBVIOUS
  <1> DEFINE s == Lex(Code(source[line]))
  <1>1. /\ UNCHANGED <<source, items, at, flattening>>
        /\ \/ UNCHANGED lexing
           \/ /\ statements' = s.statements
              /\ current' = s.current
              /\ line' = line + 1
    BY DEF ReadLine
  <1>2. s \in LexState
    <2>1. line \in 1..Len(source)
      BY DEF ReadLine, CTyped, Source
    <2>2. source[line] \in Token
      BY <2>1 DEF CTyped, Source, Token
    <2> QED
      BY <2>2, CodeTyped, LineTyped
  <1> HIDE DEF s
  <1>3. s.statements \in Seq(Seq(Token)) /\ s.current \in Seq(Token)
    BY <1>2, LexStateParts
  <1>4. line' \in Nat \ {0} /\ current' \in Seq(Token)
        /\ statements' \in Seq(Seq(Token))
    BY <1>1, <1>3 DEF CTyped, lexing
  <1> QED
    BY <1>1, <1>4 DEF CTyped, flattening

(***************************************************************************)
(* A statement parsed keeps the state of the compiler one.                 *)
(***************************************************************************)
LEMMA ParseStatementTyped ==
    CTyped /\ ParseStatement /\ options' = options => CTyped'
  <1> SUFFICES ASSUME CTyped, ParseStatement, options' = options
               PROVE  CTyped'
    OBVIOUS
  <1> DEFINE parsed == Parsed(statements[at])
  <1>1. /\ UNCHANGED <<source, lexing, flattening>>
        /\ \/ UNCHANGED <<items, at>>
           \/ /\ parsed.fault = "none"
              /\ items' = parsed.items
              /\ at' = at + 1
    BY DEF ParseStatement
  <1>2. statements[at] \in Seq(Token)
    BY DEF ParseStatement, CTyped
  <1>3. parsed.fault = "none" => parsed.items \in Seq(Item)
    BY <1>2, ParsedTyped, AddedItems, QualifiedItems DEF CTyped
  <1> HIDE DEF parsed
  <1>4. items' \in Seq(Item) /\ at' \in Nat \ {0}
    BY <1>1, <1>3 DEF CTyped
  <1> QED
    BY <1>1, <1>4 DEF CTyped, lexing, flattening

(***************************************************************************)
(* What a step of flatten that goes on does.                               *)
(***************************************************************************)
Opens(i) ==
    /\ IsGroup(i)
    /\ groups' = Append(OpenGroups(items[i]),
                    [level |-> items[i].level,
                     name  |-> IF items[i].name = <<>>
                               THEN <<"FILLER">> ELSE items[i].name])
    /\ UNCHANGED <<record_bytes, condition_values, fields>>

Emits(i) ==
    /\ ~IsGroup(i)
    /\ Describe(items[i]).fault = "none"
    /\ BytesWith(items[i]) <= MaxRecordBytes
    /\ Len(fields) + Occurrences(items[i]) <= MaxLayoutFields
    /\ ConditionsWith(items[i]) <= MaxConditionValues
    /\ groups' = OpenGroups(items[i])
    /\ record_bytes' = BytesWith(items[i])
    /\ condition_values' = ConditionsWith(items[i])
    /\ fields' = fields \o RawFields(items[i])

(***************************************************************************)
(* The copies of conditions are counted in natural numbers.                *)
(***************************************************************************)
LEMMA CopiesAreNat ==
    ASSUME NEW conditions \in Seq(ConditionName)
    PROVE  ConditionCopies(conditions) \in Nat
  <1> DEFINE n == Len(conditions)
             t == [c \in 1..n |-> 1 + Len(conditions[c].values)]
  <1>1. n \in Nat /\ DOMAIN conditions = 1..n
    OBVIOUS
  <1>2. \A c \in 1..n : 1 + Len(conditions[c].values) \in Nat
    <2>1. \A c \in 1..n : conditions[c] \in ConditionName
      OBVIOUS
    <2>2. \A x \in ConditionName : 1 + Len(x.values) \in Nat
      BY DEF ConditionName
    <2> QED
      BY <2>1, <2>2
  <1>3. ConditionCopies(conditions) = Total(t)
    BY <1>1 DEF ConditionCopies
  <1> HIDE DEF n
  <1>4. t \in [1..n -> Nat]
    BY <1>2
  <1> HIDE DEF t
  <1>5. t \in Seq(Nat)
    BY <1>1, <1>4, IntervalIsSeq
  <1> QED
    BY <1>3, <1>5, TotalIsNat

(***************************************************************************)
(* What flatten adds up for one more item are natural numbers.             *)
(***************************************************************************)
LEMMA SizesWithAreNat ==
    ASSUME CTyped, NEW item \in Item, Describe(item).fault = "none"
    PROVE  /\ BytesWith(item) \in Nat /\ ConditionsWith(item) \in Nat
           /\ Occurrences(item) \in Nat /\ Len(fields) \in Nat
           /\ Describe(item).size \in Nat
           /\ ConditionCopies(item.conditions) \in Nat
  <1>1. \A x, y, z \in Nat : x + y * z \in Nat
    OBVIOUS
  <1>2. Occurrences(item) \in Nat /\ Describe(item).size \in Nat
    BY Occurs, ItemDescribed
  <1>3. ConditionCopies(item.conditions) \in Nat
    <2>1. item.conditions \in Seq(ConditionName)
      BY DEF Item
    <2> QED
      BY <2>1, CopiesAreNat
  <1>4. BytesWith(item) \in Nat
    <2>1. record_bytes + Describe(item).size * Occurrences(item) \in Nat
      BY <1>1, <1>2, Zenon DEF CTyped
    <2> QED
      BY <2>1 DEF BytesWith
  <1>5. ConditionsWith(item) \in Nat
    <2>1. condition_values
             + ConditionCopies(item.conditions) * Occurrences(item) \in Nat
      BY <1>1, <1>2, <1>3, Zenon DEF CTyped
    <2> QED
      BY <2>1 DEF ConditionsWith
  <1> QED
    BY <1>2, <1>3, <1>4, <1>5 DEF CTyped

(***************************************************************************)
(* A step of flatten refuses, opens a group or makes fields within the     *)
(* limits.                                                                 *)
(***************************************************************************)
LEMMA FlattenSteps ==
    ASSUME CTyped, FlattenItem
    PROVE  /\ stage = "flatten" /\ at \in 1..Len(items) /\ items[at] \in Item
           /\ UNCHANGED <<source, lexing, items>>
           /\ \/ stage' = "refused" /\ UNCHANGED <<at, flattening>>
              \/ at' = at + 1 /\ stage' = stage /\ Opens(at)
              \/ at' = at + 1 /\ stage' = stage /\ Emits(at)
  <1> DEFINE item == items[at]
             fault == ItemFault(item, IsGroup(at))
             group == IsGroup(at)
  <1>1. stage = "flatten" /\ at \in 1..Len(items) /\ items[at] \in Item
    <2>1. at \in 1..Len(items) /\ stage = "flatten"
      BY DEF FlattenItem, CTyped
    <2> QED
      BY <2>1 DEF CTyped
  <1>2. UNCHANGED <<source, lexing, items>>
    BY DEF FlattenItem
  <1>3. CASE fault # "none"
    <2>1. stage' = "refused" /\ UNCHANGED <<at, flattening>>
      BY <1>3 DEF FlattenItem, Refuse
    <2> QED
      BY <1>1, <1>2, <2>1
  <1>4. CASE fault = "none" /\ group
    <2>1. at' = at + 1 /\ stage' = stage /\ Opens(at)
      BY <1>4 DEF FlattenItem, Opens
    <2> QED
      BY <1>1, <1>2, <2>1
  <1>5. CASE fault = "none" /\ ~group
    <2>1. /\ at' = at + 1 /\ stage' = stage
          /\ groups' = OpenGroups(item)
          /\ record_bytes' = BytesWith(item)
          /\ condition_values' = ConditionsWith(item)
          /\ fields' = fields \o RawFields(item)
      BY <1>5 DEF FlattenItem
    <2>2. item.picture # <<>>
      BY <1>5 DEF ItemFault
    <2>3. fault = IF Describe(item).fault # "none" THEN Describe(item).fault
                  ELSE IF \/ BytesWith(item) > MaxRecordBytes
                          \/ Len(fields) + Occurrences(item) > MaxLayoutFields
                          \/ ConditionsWith(item) > MaxConditionValues
                       THEN "unsupported"
                  ELSE "none"
      BY <1>5, <2>2 DEF ItemFault
    <2>4. /\ Describe(item).fault = "none"
          /\ ~(BytesWith(item) > MaxRecordBytes)
          /\ ~(Len(fields) + Occurrences(item) > MaxLayoutFields)
          /\ ~(ConditionsWith(item) > MaxConditionValues)
      <3> HIDE DEF item, fault
      <3> QED
        BY <1>5, <2>3
    <2>5. /\ BytesWith(item) \in Nat /\ ConditionsWith(item) \in Nat
          /\ Occurrences(item) \in Nat /\ Len(fields) \in Nat
      BY <1>1, <2>4, SizesWithAreNat
    <2>6. Emits(at)
      <3>1. /\ BytesWith(item) <= MaxRecordBytes
            /\ Len(fields) + Occurrences(item) <= MaxLayoutFields
            /\ ConditionsWith(item) <= MaxConditionValues
        BY <2>4, <2>5, Limits
      <3> QED
        BY <1>5, <2>1, <2>4, <3>1 DEF Emits
    <2> QED
      BY <1>1, <1>2, <2>1, <2>6
  <1> QED
    BY <1>3, <1>4, <1>5

(***************************************************************************)
(* The fields of an elementary item come after the ones before it.         *)
(***************************************************************************)
LEMMA EmitTyped ==
    ASSUME CTyped, at \in 1..Len(items), Emits(at)
    PROVE  /\ record_bytes' \in Nat /\ condition_values' \in Nat
           /\ fields' \in Seq(RawField) /\ groups' \in Seq(Group)
           /\ Len(fields') = Len(fields) + Occurrences(items[at])
           /\ \A n \in 1..Len(fields) : fields'[n] = fields[n]
           /\ \A k \in 1..Occurrences(items[at]) :
                 fields'[Len(fields) + k] = FieldFrom(items[at], k)
  <1> DEFINE item == items[at]
             more == RawFields(item)
             n == Occurrences(item)
  <1>1. item \in Item /\ groups \in Seq(Group) /\ fields \in Seq(RawField)
    BY DEF CTyped
  <1>2. /\ more \in Seq(RawField) /\ Len(more) = n
        /\ \A k \in 1..n : more[k] = FieldFrom(item, k)
    BY <1>1, RawFieldsTyped DEF Emits
  <1>3. groups' \in Seq(Group)
    BY <1>1, OpenTyped DEF Emits
  <1>4. record_bytes' \in Nat /\ condition_values' \in Nat
    BY <1>1, SizesWithAreNat DEF Emits
  <1>5. fields' = fields \o more
    BY DEF Emits
  <1>6. n \in Nat
    BY <1>1, Occurs
  <1> HIDE DEF more, n
  <1>7. /\ fields' \in Seq(RawField)
        /\ Len(fields') = Len(fields) + n
        /\ \A k \in 1..Len(fields) : fields'[k] = fields[k]
        /\ \A k \in 1..n : fields'[Len(fields) + k] = more[k]
    <2>1. fields \in Seq(RawField) /\ more \in Seq(RawField)
      BY <1>1, <1>2
    <2>2. /\ fields \o more \in Seq(RawField)
          /\ Len(fields \o more) = Len(fields) + Len(more)
          /\ \A k \in 1..(Len(fields) + Len(more)) :
                (fields \o more)[k] = IF k <= Len(fields) THEN fields[k]
                                      ELSE more[k - Len(fields)]
      BY <2>1, ConcatProperties, Zenon
    <2>3. Len(fields) \in Nat /\ Len(more) = n
      BY <1>2, <2>1
    <2> QED
      BY <1>5, <1>6, <2>2, <2>3
  <1> QED
    BY <1>2, <1>3, <1>4, <1>7 DEF n

(***************************************************************************)
(* A step of flatten keeps the state of the compiler one.                  *)
(***************************************************************************)
LEMMA FlattenItemTyped ==
    CTyped /\ FlattenItem /\ options' = options => CTyped'
  <1> SUFFICES ASSUME CTyped, FlattenItem, options' = options
               PROVE  CTyped'
    OBVIOUS
  <1>1. /\ at \in 1..Len(items) /\ items[at] \in Item
        /\ UNCHANGED <<source, lexing, items>>
        /\ \/ UNCHANGED <<at, flattening>>
           \/ at' = at + 1 /\ Opens(at)
           \/ at' = at + 1 /\ Emits(at)
    BY FlattenSteps
  <1>2. at' \in Nat \ {0}
    BY <1>1 DEF CTyped
  <1>3. /\ groups' \in Seq(Group) /\ record_bytes' \in Nat
        /\ condition_values' \in Nat /\ fields' \in Seq(RawField)
    <2>1. CASE UNCHANGED flattening
      BY <2>1 DEF flattening, CTyped
    <2>2. CASE Opens(at)
      <3> DEFINE name == IF items[at].name = <<>> THEN <<"FILLER">>
                         ELSE items[at].name
                 group == [level |-> items[at].level, name |-> name]
      <3>1. name \in Name
        <4>1. <<"FILLER">> \in Seq(STRING)
          BY StringAssumption
        <4> QED
          BY <1>1, <4>1 DEF Item, Name
      <3>2. group \in Group
        <4> HIDE DEF name
        <4> QED
          BY <1>1, <3>1 DEF Item, Group
      <3>3. groups' = Append(OpenGroups(items[at]), group)
        BY <2>2 DEF Opens
      <3>4. OpenGroups(items[at]) \in Seq(Group)
        BY OpenTyped DEF CTyped
      <3> HIDE DEF group
      <3>5. groups' \in Seq(Group)
        BY <3>2, <3>3, <3>4
      <3> QED
        BY <2>2, <3>5 DEF Opens, CTyped
    <2>3. CASE Emits(at)
      BY <1>1, <2>3, EmitTyped
    <2> QED
      BY <1>1, <2>1, <2>2, <2>3
  <1> QED
    BY <1>1, <1>2, <1>3 DEF CTyped, lexing

(***************************************************************************)
(* Before the request is resolved the compiler's state is typed.           *)
(***************************************************************************)
THEOREM CTypedInit == ResolveInit => CTyped
  BY DEF ResolveInit, Idle, CTyped, Source

(***************************************************************************)
(* Every step of the resolution keeps it typed.                            *)
(***************************************************************************)
THEOREM CTypedInductive == CTyped /\ [ResolveNext]_resolveVars => CTyped'
  <1> SUFFICES ASSUME CTyped, [ResolveNext]_resolveVars
               PROVE  CTyped'
    OBVIOUS
  <1>1. options' = options
    BY CopybookSteps
  <1>2. CASE UNCHANGED copybook
    BY <1>1, <1>2 DEF CTyped, copybook, lexing, flattening
  <1>3. CASE options.form = "copybook" /\ Compile(options.lines)
    <2>1. source' \in Source
      BY <1>3, OptionsAssumption DEF Compile, CTyped
    <2> QED
      BY <1>1, <1>3, <2>1 DEF Compile, CTyped, lexing, flattening
  <1>4. CASE ReadLine
    BY <1>1, <1>4, ReadLineTyped
  <1>5. CASE EndSource
    BY <1>1, <1>5 DEF EndSource, CTyped, lexing, flattening
  <1>6. CASE ParseStatement
    BY <1>1, <1>6, ParseStatementTyped
  <1>7. CASE CheckItems
    <2>1. at' \in Nat \ {0}
      BY <1>7 DEF CheckItems, CTyped
    <2> QED
      BY <1>1, <1>7, <2>1 DEF CheckItems, CTyped, lexing, flattening
  <1>8. CASE FlattenItem
    BY <1>1, <1>8, FlattenItemTyped
  <1>9. CASE EndCompile
    BY <1>1, <1>9 DEF EndCompile, CTyped, lexing, flattening
  <1> QED
    BY <1>2, <1>3, <1>4, <1>5, <1>6, <1>7, <1>8, <1>9, CopybookSteps
       DEF CompileStep

(***************************************************************************)
(* The state of the compiler is typed in every reachable state: its items  *)
(* have levels of COBOL, its sizes are natural numbers, and its fields are *)
(* what validate expects.                                                  *)
(***************************************************************************)
THEOREM CompilerIsTyped == ResolveSpec => []CTyped
  BY CTypedInit, CTypedInductive, PTL DEF ResolveSpec

-----------------------------------------------------------------------------
(***************************************************************************)
(* The sums that flatten carries are those of the fields it holds.         *)
(***************************************************************************)
Sizes(fs) == [n \in DOMAIN fs |-> fs[n].size]
Copies(fs) ==
    [n \in DOMAIN fs |-> ConditionCopies(fs[n].declaration.conditions)]

LimitPart ==
    /\ Len(fields) <= MaxLayoutFields
    /\ Total(Sizes(fields)) = record_bytes
    /\ record_bytes <= MaxRecordBytes
    /\ Total(Copies(fields)) = condition_values
    /\ condition_values <= MaxConditionValues

(***************************************************************************)
(* The sums of the fields and what they are made of.                       *)
(***************************************************************************)
LEMMA FieldSums ==
    ASSUME NEW fs \in Seq(RawField)
    PROVE  /\ Sizes(fs) \in Seq(Nat) /\ Len(Sizes(fs)) = Len(fs)
           /\ \A n \in 1..Len(fs) : Sizes(fs)[n] = fs[n].size
           /\ Copies(fs) \in Seq(Nat) /\ Len(Copies(fs)) = Len(fs)
           /\ \A n \in 1..Len(fs) :
                 Copies(fs)[n] = ConditionCopies(fs[n].declaration.conditions)
  <1>1. /\ DOMAIN fs = 1..Len(fs) /\ Len(fs) \in Nat
        /\ \A n \in 1..Len(fs) : fs[n] \in RawField
    OBVIOUS
  <1>2. ASSUME NEW n \in 1..Len(fs)
        PROVE  /\ fs[n].size \in Nat
               /\ ConditionCopies(fs[n].declaration.conditions) \in Nat
    <2>1. /\ fs[n].size \in Nat
          /\ fs[n].declaration.conditions \in Seq(ConditionName)
      BY <1>1 DEF RawField, Declaration
    <2> QED
      BY <2>1, CopiesAreNat
  <1>3. /\ Sizes(fs) \in [1..Len(fs) -> Nat]
        /\ Copies(fs) \in [1..Len(fs) -> Nat]
        /\ \A n \in 1..Len(fs) :
              /\ Sizes(fs)[n] = fs[n].size
              /\ Copies(fs)[n] = ConditionCopies(fs[n].declaration.conditions)
    BY <1>1, <1>2 DEF Sizes, Copies
  <1> QED
    BY <1>1, <1>3, IntervalIsSeq

(***************************************************************************)
(* Only a step of flatten changes the sums or the fields.                  *)
(***************************************************************************)
LEMMA FieldSteps ==
    ASSUME CTyped, [ResolveNext]_resolveVars
    PROVE  \/ UNCHANGED <<record_bytes, condition_values, fields>>
           \/ /\ stage = "flatten" /\ stage' = stage
              /\ at \in 1..Len(items) /\ items[at] \in Item
              /\ at' = at + 1 /\ items' = items
              /\ Emits(at)
  <1>1. CASE UNCHANGED copybook
    BY <1>1 DEF copybook, flattening
  <1>2. CASE Compile(options.lines)
    BY <1>2 DEF Compile, flattening
  <1>3. CASE ReadLine \/ EndSource \/ ParseStatement \/ CheckItems \/ EndCompile
    BY <1>3 DEF ReadLine, EndSource, ParseStatement, CheckItems, EndCompile,
                flattening
  <1>4. CASE FlattenItem
    <2>1. /\ stage = "flatten" /\ at \in 1..Len(items) /\ items[at] \in Item
          /\ UNCHANGED <<source, lexing, items>>
          /\ \/ stage' = "refused" /\ UNCHANGED <<at, flattening>>
             \/ at' = at + 1 /\ stage' = stage /\ Opens(at)
             \/ at' = at + 1 /\ stage' = stage /\ Emits(at)
      BY <1>4, FlattenSteps
    <2>2. CASE UNCHANGED flattening
      BY <2>2 DEF flattening
    <2>3. CASE Opens(at)
      BY <2>3 DEF Opens
    <2> QED
      BY <2>1, <2>2, <2>3
  <1> QED
    BY <1>1, <1>2, <1>3, <1>4, CopybookSteps DEF CompileStep

(***************************************************************************)
(* A step that makes fields keeps the sums those of the fields, and within *)
(* the limits: flatten checks before it expands.                           *)
(***************************************************************************)
LEMMA EmitWithinLimits ==
    ASSUME CTyped, CTyped', LimitPart,
           at \in 1..Len(items), items[at] \in Item, Emits(at)
    PROVE  LimitPart'
  <1> DEFINE item == items[at]
             n == Occurrences(item)
             d == Describe(item)
             m == Len(fields)
  <1>1. /\ n \in Nat /\ d.size \in Nat /\ m \in Nat
        /\ ConditionCopies(item.conditions) \in Nat
    BY SizesWithAreNat DEF Emits
  <1>2. /\ Len(fields') = m + n
        /\ \A i \in 1..m : fields'[i] = fields[i]
        /\ \A k \in 1..n : fields'[m + k] = FieldFrom(item, k)
    BY EmitTyped
  <1>3. Len(fields') <= MaxLayoutFields
    BY <1>2 DEF Emits
  <1>4. /\ record_bytes' = record_bytes + d.size * n
        /\ condition_values' = condition_values
                                 + ConditionCopies(item.conditions) * n
        /\ record_bytes' <= MaxRecordBytes
        /\ condition_values' <= MaxConditionValues
    BY DEF Emits, BytesWith, ConditionsWith
  <1> DEFINE s == Sizes(fields)
             t == Sizes(fields')
             u == Copies(fields)
             v == Copies(fields')
             size == d.size
             copies == ConditionCopies(item.conditions)
  <1>5. /\ s \in Seq(Nat) /\ Len(s) = m
        /\ \A i \in 1..m : s[i] = fields[i].size
        /\ u \in Seq(Nat) /\ Len(u) = m
        /\ \A i \in 1..m :
              u[i] = ConditionCopies(fields[i].declaration.conditions)
    BY FieldSums DEF CTyped
  <1>6. /\ t \in Seq(Nat) /\ Len(t) = m + n
        /\ \A i \in 1..(m + n) : t[i] = fields'[i].size
        /\ v \in Seq(Nat) /\ Len(v) = m + n
        /\ \A i \in 1..(m + n) :
              v[i] = ConditionCopies(fields'[i].declaration.conditions)
    <2>1. fields' \in Seq(RawField)
      BY DEF CTyped
    <2> HIDE DEF m, n
    <2> QED
      BY <1>2, <2>1, FieldSums
  <1>7. \A k \in 1..n : /\ FieldFrom(item, k).size = size
                        /\ FieldFrom(item, k).declaration.conditions
                              = item.conditions
    BY DEF FieldFrom
  <1> HIDE DEF m, n, s, t, u, v, size, copies
  <1>8. /\ \A i \in 1..m : t[i] = s[i]
        /\ \A k \in 1..n : t[m + k] = size
        /\ \A i \in 1..m : v[i] = u[i]
        /\ \A k \in 1..n : v[m + k] = copies
    <2>1. \A i \in 1..m : i \in 1..(m + n)
      BY <1>1
    <2>2. \A k \in 1..n : m + k \in 1..(m + n)
      BY <1>1
    <2> QED
      BY <1>2, <1>5, <1>6, <1>7, <2>1, <2>2 DEF copies
  <1>9. size \in Nat /\ copies \in Nat
    BY <1>1 DEF size, copies
  <1>10. Total(t) = Total(s) + size * n
    <2>1. /\ Len(t) = Len(s) + n /\ \A i \in 1..Len(s) : t[i] = s[i]
          /\ \A i \in 1..n : t[Len(s) + i] = size
      BY <1>5, <1>6, <1>8
    <2>2. s \in Seq(Nat) /\ t \in Seq(Nat) /\ n \in Nat /\ size \in Nat
      BY <1>1, <1>5, <1>6, <1>9
    <2> QED
      BY ONLY <2>1, <2>2, TotalRepeats
  <1>11. Total(v) = Total(u) + copies * n
    <2>1. /\ Len(v) = Len(u) + n /\ \A i \in 1..Len(u) : v[i] = u[i]
          /\ \A i \in 1..n : v[Len(u) + i] = copies
      BY <1>5, <1>6, <1>8
    <2>2. u \in Seq(Nat) /\ v \in Seq(Nat) /\ n \in Nat /\ copies \in Nat
      BY <1>1, <1>5, <1>6, <1>9
    <2> QED
      BY ONLY <2>1, <2>2, TotalRepeats
  <1>12. Total(s) = record_bytes /\ Total(u) = condition_values
    BY DEF LimitPart, s, u
  <1>13. Total(t) = record_bytes' /\ Total(v) = condition_values'
    BY <1>4, <1>10, <1>11, <1>12 DEF size, copies
  <1>14. /\ Total(Sizes(fields)) ' = record_bytes'
         /\ Total(Copies(fields)) ' = condition_values'
    BY <1>13 DEF t, v, Sizes, Copies, ConditionCopies
  <1> QED
    BY <1>3, <1>4, <1>14 DEF LimitPart

(***************************************************************************)
(* The limits hold at every step of the compiler.                          *)
(***************************************************************************)
LEMMA LimitPartImplies == LimitPart => LimitsHoldAsItGrows
  BY DEF LimitPart, LimitsHoldAsItGrows, Sizes, Copies

(***************************************************************************)
(* A short copybook of OCCURS items never makes the compiler hold more     *)
(* fields, bytes or condition copies than the limits allow, at no step     *)
(* (flatten).                                                              *)
(***************************************************************************)
THEOREM LimitsHold == ResolveSpec => []LimitsHoldAsItGrows
  <1>1. ResolveInit => LimitPart
    <2> SUFFICES ASSUME ResolveInit
                 PROVE  LimitPart
      OBVIOUS
    <2>1. fields = <<>> /\ record_bytes = 0 /\ condition_values = 0
      BY DEF ResolveInit, Idle
    <2>2. Sizes(<<>>) = <<>> /\ Copies(<<>>) = <<>> /\ Len(<<>>) = 0
      BY DEF Sizes, Copies
    <2> QED
      BY <2>1, <2>2, TotalEmpty, Limits DEF LimitPart
  <1>2. CTyped /\ CTyped' /\ LimitPart /\ [ResolveNext]_resolveVars => LimitPart'
    <2> SUFFICES ASSUME CTyped, CTyped', LimitPart, [ResolveNext]_resolveVars
                 PROVE  LimitPart'
      OBVIOUS
    <2>1. CASE UNCHANGED <<record_bytes, condition_values, fields>>
      BY <2>1 DEF LimitPart, Sizes, Copies, ConditionCopies
    <2>2. CASE at \in 1..Len(items) /\ items[at] \in Item /\ Emits(at)
      BY <2>2, EmitWithinLimits
    <2> QED
      BY <2>1, <2>2, FieldSteps
  <1> QED
    BY <1>1, <1>2, CompilerIsTyped, LimitPartImplies, PTL DEF ResolveSpec

-----------------------------------------------------------------------------
(***************************************************************************)
(* The groups flatten holds open are those of the tree.  Chain(m) are the  *)
(* groups among the first m items that none of these has closed.           *)
(***************************************************************************)
LabelOf ==
    [j \in DOMAIN items |->
        [level |-> items[j].level,
         name  |-> IF items[j].name = <<>> THEN <<"FILLER">>
                   ELSE items[j].name]]

Chain(m) ==
    {j \in 1..m : /\ IsGroup(j)
                  /\ \A k \in (j + 1)..m : items[k].level > items[j].level}

Index == [j \in DOMAIN items |-> j]
Above(i) == Filter(Index, Enclosing(i))

(***************************************************************************)
(* Every item has a level that is a natural number, and a label.           *)
(***************************************************************************)
LEMMA ItemsHaveLabels ==
    ASSUME CTyped
    PROVE  /\ DOMAIN items = 1..Len(items) /\ Len(items) \in Nat
           /\ \A j \in 1..Len(items) : /\ items[j] \in Item
                                       /\ items[j].level \in Nat
                                       /\ items[j].level \in Level
           /\ LabelOf \in [1..Len(items) -> Group]
  <1>1. /\ DOMAIN items = 1..Len(items) /\ Len(items) \in Nat
        /\ \A j \in 1..Len(items) : items[j] \in Item
    BY DEF CTyped
  <1>2. \A x \in Item : x.level \in Level /\ x.name \in Name
    BY DEF Item
  <1>3. \A l \in Level : l \in Nat
    BY DEF Level
  <1>4. <<"FILLER">> \in Name
    <2>1. <<"FILLER">> \in Seq(STRING)
      BY StringAssumption
    <2> QED
      BY <2>1 DEF Name
  <1>5. ASSUME NEW j \in 1..Len(items)
        PROVE  [level |-> items[j].level,
                name  |-> IF items[j].name = <<>> THEN <<"FILLER">>
                          ELSE items[j].name] \in Group
    <2> DEFINE name == IF items[j].name = <<>> THEN <<"FILLER">>
                       ELSE items[j].name
    <2>1. items[j].level \in Level /\ name \in Name
      BY <1>1, <1>2, <1>4
    <2> HIDE DEF name
    <2>2. [level |-> items[j].level, name |-> name] \in Group
      BY <2>1 DEF Group
    <2> QED
      BY <2>2 DEF name
  <1>6. LabelOf \in [1..Len(items) -> Group]
    BY <1>1, <1>5 DEF LabelOf
  <1> QED
    BY <1>1, <1>2, <1>3, <1>6

(***************************************************************************)
(* A group is an item with something under it.                             *)
(***************************************************************************)
LEMMA GroupIs ==
    ASSUME CTyped, NEW i \in 1..Len(items)
    PROVE  /\ IsGroup(i) <=> /\ i < Len(items)
                             /\ items[i + 1].level > items[i].level
           /\ i \in Elementary <=> ~IsGroup(i)
  <1>1. /\ DOMAIN items = 1..Len(items) /\ Len(items) \in Nat
        /\ \A j \in 1..Len(items) : items[j].level \in 1..49 \cup {77}
    BY ItemsHaveLabels DEF Level
  <1>2. IsGroup(i) <=> /\ i < Len(items)
                       /\ items[i + 1].level > items[i].level
    <2>1. ASSUME i < Len(items), items[i + 1].level > items[i].level
          PROVE  items[i].level # 77
      <3>1. i + 1 \in 1..Len(items)
        BY <1>1, <2>1
      <3> DEFINE x == items[i].level
                 y == items[i + 1].level
      <3>2. y \in 1..49 \cup {77} /\ x \in 1..49 \cup {77} /\ y > x
        BY <1>1, <2>1, <3>1
      <3> HIDE DEF x, y
      <3>3. x # 77
        BY <3>2
      <3> QED
        BY <3>3 DEF x
    <2> QED
      BY <2>1 DEF IsGroup
  <1>3. ASSUME IsGroup(i)
        PROVE  i \notin Elementary
    <2>1. i + 1 \in 1..Len(items) /\ i \in 1..((i + 1) - 1)
          /\ \A k \in (i + 1)..(i + 1) : k = i + 1
      BY <1>1, <1>2, <1>3
    <2>2. i \in Enclosing(i + 1)
      BY <1>2, <1>3, <2>1 DEF Enclosing
    <2> QED
      BY <1>1, <2>1, <2>2 DEF Elementary
  <1>4. ASSUME i \notin Elementary
        PROVE  IsGroup(i)
    <2>1. PICK j \in 1..Len(items) : i \in Enclosing(j)
      BY <1>1, <1>4 DEF Elementary
    <2>2. i \in 1..(j - 1)
          /\ \A k \in (i + 1)..j : items[k].level > items[i].level
      BY <2>1 DEF Enclosing
    <2>3. i + 1 \in (i + 1)..j /\ i < Len(items)
      BY <1>1, <2>1, <2>2
    <2> QED
      BY <1>2, <2>2, <2>3
  <1> QED
    BY <1>2, <1>3, <1>4

(***************************************************************************)
(* What an item closes, and what it adds.                                  *)
(***************************************************************************)
LEMMA ChainNext ==
    ASSUME CTyped, NEW a \in 1..Len(items)
    PROVE  /\ Chain(a - 1) \cap {j \in 1..Len(items) :
                                    items[j].level < items[a].level}
                 = Enclosing(a)
           /\ Chain(a) = IF IsGroup(a) THEN Enclosing(a) \cup {a}
                         ELSE Enclosing(a)
           /\ Enclosing(a) \in SUBSET (1..(a - 1))
  <1>1. /\ Len(items) \in Nat
        /\ \A j \in 1..Len(items) : items[j].level \in Nat
        /\ a \in Nat /\ a <= Len(items)
    BY ItemsHaveLabels
  <1>2. \A j \in Enclosing(a) :
           /\ j \in 1..(a - 1) /\ j \in 1..Len(items) /\ j \in 1..a
           /\ \A k \in (j + 1)..a : items[k].level > items[j].level
    BY <1>1 DEF Enclosing
  <1>3. ASSUME NEW j \in Enclosing(a)
        PROVE  IsGroup(j)
    <2>1. j + 1 \in (j + 1)..a /\ j < Len(items)
      BY <1>1, <1>2
    <2>2. items[j + 1].level > items[j].level
      BY <1>2, <2>1
    <2> QED
      BY <1>2, <2>1, <2>2, GroupIs
  <1>4. ASSUME NEW j \in Enclosing(a)
        PROVE  /\ j \in Chain(a - 1) /\ j \in Chain(a)
               /\ items[j].level < items[a].level
    <2>1. \A k \in (j + 1)..(a - 1) : k \in (j + 1)..a
      BY <1>1, <1>2
    <2>2. a \in (j + 1)..a
      BY <1>1, <1>2
    <2>3. items[a].level > items[j].level
      BY <1>2, <2>2
    <2> QED
      BY <1>1, <1>2, <1>3, <2>1, <2>3 DEF Chain
  <1>5. ASSUME NEW j \in Chain(a - 1), items[j].level < items[a].level
        PROVE  j \in Enclosing(a)
    <2>1. j \in 1..(a - 1)
          /\ \A k \in (j + 1)..(a - 1) : items[k].level > items[j].level
      BY DEF Chain
    <2>2. ASSUME NEW k \in (j + 1)..a
          PROVE  items[k].level > items[j].level
      <3>1. CASE k = a
        <4>1. items[j].level \in Nat
          BY <1>1, <2>1
        <4> QED
          BY <1>1, <1>5, <3>1, <4>1
      <3>2. CASE k # a
        <4>1. k \in (j + 1)..(a - 1)
          BY <1>1, <2>1, <3>2
        <4> QED
          BY <2>1, <4>1
      <3> QED
        BY <3>1, <3>2
    <2> QED
      BY <2>1, <2>2 DEF Enclosing
  <1>6. ASSUME NEW j \in Chain(a), j # a
        PROVE  j \in Enclosing(a)
    <2>1. j \in 1..a
          /\ \A k \in (j + 1)..a : items[k].level > items[j].level
      BY DEF Chain
    <2>2. j \in 1..(a - 1)
      BY <1>1, <1>6, <2>1
    <2> QED
      BY <2>1, <2>2 DEF Enclosing
  <1>7. a \in Chain(a) <=> IsGroup(a)
    <2>1. a \in 1..a /\ \A k \in (a + 1)..a : FALSE
      BY <1>1
    <2> QED
      BY <2>1 DEF Chain
  <1>8. Chain(a - 1) \cap {j \in 1..Len(items) :
                              items[j].level < items[a].level} = Enclosing(a)
    BY <1>2, <1>4, <1>5
  <1>9. Chain(a) = IF IsGroup(a) THEN Enclosing(a) \cup {a} ELSE Enclosing(a)
    <2>1. a \notin Enclosing(a)
      BY <1>1, <1>2
    <2> QED
      BY <1>4, <1>6, <1>7, <2>1
  <1> QED
    BY <1>2, <1>8, <1>9

(***************************************************************************)
(* The groups flatten keeps open under an item are the ones above it, and  *)
(* one that opens is added to them.                                        *)
(***************************************************************************)
LEMMA GroupsAbove ==
    ASSUME CTyped, NEW a \in 1..Len(items),
           groups = Images(LabelOf, Filter(Index, Chain(a - 1)))
    PROVE  /\ OpenGroups(items[a]) = Images(LabelOf, Above(a))
           /\ IF IsGroup(a)
              THEN Images(LabelOf, Filter(Index, Chain(a)))
                      = Append(OpenGroups(items[a]), LabelOf[a])
              ELSE Images(LabelOf, Filter(Index, Chain(a)))
                      = OpenGroups(items[a])
           /\ Above(a) \in Seq(1..Len(items))
  <1> DEFINE n == Len(items)
             I == 1..n
             low == {g \in ToSet(groups) : g.level < items[a].level}
             below == {j \in I : items[j].level < items[a].level}
             s == Filter(Index, Chain(a - 1))
  <1>1. /\ n \in Nat /\ a \in I /\ LabelOf \in [I -> Group]
        /\ \A j \in I : LabelOf[j].level = items[j].level
        /\ Index = [j \in 1..n |-> j]
    <2>1. n \in Nat /\ LabelOf \in [I -> Group] /\ DOMAIN items = I
      BY ItemsHaveLabels
    <2>2. \A j \in I : LabelOf[j].level = items[j].level
      BY <2>1 DEF LabelOf
    <2>3. Index = [j \in 1..n |-> j]
      BY <2>1 DEF Index
    <2> QED
      BY <2>1, <2>2, <2>3
  <1>2. Index \in Seq(I) /\ Index \in [1..n -> I]
    <2> HIDE DEF n
    <2>1. Index \in [1..n -> I]
      BY <1>1
    <2> QED
      BY <1>1, <2>1, IntervalIsSeq
  <1>3. s \in Seq(I)
    BY <1>2, FilterPicks
  <1>4. Len(groups) = Len(s) /\ groups \in Seq(Group)
        /\ \A i \in 1..Len(s) : groups[i] = LabelOf[s[i]]
    <2>1. groups = Images(LabelOf, s)
      OBVIOUS
    <2>2. Images(LabelOf, s) = [i \in 1..Len(s) |-> LabelOf[s[i]]]
      BY DEF Images
    <2>3. \A i \in 1..Len(s) : LabelOf[s[i]] \in Group
      <3> HIDE DEF s, I
      <3>1. \A i \in 1..Len(s) : s[i] \in I
        BY <1>3
      <3> QED
        BY <1>1, <3>1
    <2>4. Len(s) \in Nat
      BY <1>3
    <2> HIDE DEF s
    <2> QED
      BY <2>1, <2>2, <2>3, <2>4
  <1>5. \A i \in 1..Len(s) : groups[i] = LabelOf[s[i]]
                             /\ (groups[i] \in low <=> s[i] \in below)
    <2> SUFFICES ASSUME NEW i \in 1..Len(s)
                 PROVE  groups[i] \in low <=> s[i] \in below
      BY <1>4
    <2>1. s[i] \in I
      <3> HIDE DEF I, s
      <3> QED
        BY <1>3
    <2>2. groups[i] = LabelOf[s[i]] /\ LabelOf[s[i]].level = items[s[i]].level
      BY <1>1, <1>4, <2>1
    <2>3. groups[i] \in ToSet(groups)
      <3>1. i \in DOMAIN groups
        BY <1>4
      <3> QED
        BY <3>1 DEF ToSet
    <2> QED
      BY <2>1, <2>2, <2>3
  <1> HIDE DEF s, low, below, I
  <1>6. Filter(groups, low) = Images(LabelOf, Filter(s, below))
    <2>1. /\ s \in Seq(I) /\ groups \in Seq(Group) /\ LabelOf \in [I -> Group]
          /\ Len(groups) = Len(s)
          /\ \A i \in 1..Len(s) : groups[i] = LabelOf[s[i]]
                                   /\ (groups[i] \in low <=> s[i] \in below)
      BY <1>1, <1>3, <1>4, <1>5
    <2> QED
      BY ONLY <2>1, FilterOfImages
  <1>7. Filter(s, below) = Above(a)
    <2>1. Filter(s, below) = Filter(Index, Chain(a - 1) \cap below)
      BY <1>2, FilterTwice DEF s
    <2>2. Chain(a - 1) \cap below = Enclosing(a)
      BY <1>1, ChainNext DEF below, I
    <2> QED
      BY <2>1, <2>2 DEF Above
  <1>8. OpenGroups(items[a]) = Images(LabelOf, Above(a))
    BY <1>6, <1>7 DEF OpenGroups, low
  <1>9. Above(a) \in Seq(I)
    BY <1>2, FilterPicks DEF Above
  <1>10. CASE IsGroup(a)
    <2>1. Chain(a) = Enclosing(a) \cup {a}
          /\ Enclosing(a) \in SUBSET (1..(a - 1))
      BY <1>1, <1>10, ChainNext DEF I
    <2>2. Filter(Index, Enclosing(a) \cup {a}) = Append(Above(a), a)
      <3>1. n \in Nat /\ a \in 1..n /\ Enclosing(a) \in SUBSET (1..(a - 1))
        BY <1>1, <2>1 DEF I
      <3>2. Filter([j \in 1..n |-> j], Enclosing(a) \cup {a})
               = Append(Filter([j \in 1..n |-> j], Enclosing(a)), a)
        BY ONLY <3>1, FilterLast
      <3> QED
        BY <1>1, <3>2, Zenon DEF Above
    <2>3. Images(LabelOf, Append(Above(a), a))
             = Append(Images(LabelOf, Above(a)), LabelOf[a])
      <3>1. Above(a) \in Seq(I) /\ a \in I /\ LabelOf \in [I -> Group]
        BY <1>1, <1>9
      <3>2. Images(LabelOf, Above(a)) \in Seq(Group)
        BY ONLY <3>1, ImagesGrow
      <3> QED
        BY ONLY <3>1, <3>2, ImagesGrow
    <2> QED
      BY <1>8, <1>9, <1>10, <2>1, <2>2, <2>3 DEF I
  <1>11. CASE ~IsGroup(a)
    <2>1. Chain(a) = Enclosing(a)
      BY <1>1, <1>11, ChainNext DEF I
    <2> QED
      BY <1>8, <1>9, <1>11, <2>1 DEF Above, I
  <1> QED
    BY <1>10, <1>11

(***************************************************************************)
(* Where the fields come from: the run of Owner over the items.            *)
(***************************************************************************)
Place == [item : 1..Len(items), occurrence : Nat \ {0}]
PlacesOf(i) ==
    [k \in 1..Occurrences(items[i]) |-> [item |-> i, occurrence |-> k]]

Owns(owned) ==
    /\ owned \in [0..Len(items) -> Seq(Place)]
    /\ owned[0] = <<>>
    /\ \A i \in 1..Len(items) :
          owned[i] = IF i \in Elementary THEN owned[i - 1] \o PlacesOf(i)
                     ELSE owned[i - 1]
    /\ Owner = owned[Len(items)]

(***************************************************************************)
(* One place for every occurrence of an item.                              *)
(***************************************************************************)
LEMMA PlacesTyped ==
    ASSUME CTyped, NEW i \in 1..Len(items)
    PROVE  /\ PlacesOf(i) \in Seq(Place)
           /\ Len(PlacesOf(i)) = Occurrences(items[i])
           /\ \A k \in 1..Occurrences(items[i]) :
                 PlacesOf(i)[k] = [item |-> i, occurrence |-> k]
  <1> DEFINE n == Occurrences(items[i])
  <1>1. n \in Nat
    BY ItemsHaveLabels, Occurs
  <1> HIDE DEF n
  <1>2. PlacesOf(i) = [k \in 1..n |-> [item |-> i, occurrence |-> k]]
    BY DEF PlacesOf, n
  <1>3. \A k \in 1..n : [item |-> i, occurrence |-> k] \in Place
    BY <1>1 DEF Place
  <1>4. PlacesOf(i) \in [1..n -> Place]
    BY <1>2, <1>3
  <1>5. PlacesOf(i) \in Seq(Place) /\ Len(PlacesOf(i)) = n
    BY <1>1, <1>4, IntervalIsSeq
  <1> QED
    BY <1>2, <1>5 DEF n

(***************************************************************************)
(* Such a run exists.                                                      *)
(***************************************************************************)
LEMMA OwnerUnfold ==
    ASSUME CTyped
    PROVE  \E owned : Owns(owned)
  <1> DEFINE n == Len(items)
             step == [i \in 1..n |-> [s \in Seq(Place) |->
                         IF i \in Elementary THEN s \o PlacesOf(i) ELSE s]]
  <1>1. n \in Nat /\ \A i \in 1..n : PlacesOf(i) \in Seq(Place)
    BY ItemsHaveLabels, PlacesTyped
  <1> HIDE DEF n
  <1>2. step \in [1..n -> [Seq(Place) -> Seq(Place)]]
    BY <1>1
  <1>3. \A i \in 1..n, s \in Seq(Place) :
           step[i][s] = IF i \in Elementary THEN s \o PlacesOf(i) ELSE s
    OBVIOUS
  <1> HIDE DEF step
  <1>4. PICK f : Iterates(f, n, Seq(Place), <<>>, step)
    <2>1. <<>> \in Seq(Place)
      OBVIOUS
    <2> QED
      BY <1>1, <1>2, <2>1, IterationExists
  <1> DEFINE body(g) == [i \in 0..n |-> IF i = 0 THEN <<>>
                                        ELSE IF i \in Elementary
                                        THEN g[i - 1] \o PlacesOf(i)
                                        ELSE g[i - 1]]
             owned == CHOOSE g : g = body(g)
  <1>5. f = body(f)
    <2>1. ASSUME NEW i \in 1..n
          PROVE  f[i] = IF i \in Elementary THEN f[i - 1] \o PlacesOf(i)
                        ELSE f[i - 1]
      <3>1. f[i - 1] \in Seq(Place)
        BY <1>1, <1>4 DEF Iterates
      <3> QED
        BY <1>3, <1>4, <3>1 DEF Iterates
    <2>2. f[0] = <<>> /\ f = [i \in 0..n |-> f[i]]
      BY <1>4 DEF Iterates
    <2>3. \A i \in 0..n : i # 0 => i \in 1..n
      BY <1>1
    <2>4. \A i \in 0..n : f[i] = IF i = 0 THEN <<>>
                                 ELSE IF i \in Elementary
                                 THEN f[i - 1] \o PlacesOf(i)
                                 ELSE f[i - 1]
      BY <2>1, <2>2, <2>3
    <2> QED
      BY <2>2, <2>4, Zenon
  <1>6. owned = body(owned)
    BY <1>5
  <1>7. Owner = owned[n]
    BY DEF Owner, PlacesOf, n
  <1> HIDE DEF owned
  <1>8. /\ owned[0] = <<>>
        /\ \A i \in 1..n : owned[i] = IF i \in Elementary
                                      THEN owned[i - 1] \o PlacesOf(i)
                                      ELSE owned[i - 1]
    <2>1. 0 \in 0..n /\ \A i \in 1..n : i \in 0..n /\ i # 0
      BY <1>1
    <2> QED
      BY <1>6, <2>1
  <1>9. \A i \in 0..n : owned[i] \in Seq(Place)
    <2> DEFINE U == {i \in 0..n : owned[i] \in Seq(Place)}
    <2>1. 0 \in U
      <3>1. 0 \in 0..n /\ <<>> \in Seq(Place)
        BY <1>1
      <3> QED
        BY <1>8, <3>1
    <2>2. ASSUME NEW i \in 1..n, i - 1 \in U
          PROVE  i \in U
      <3>1. i \in 0..n /\ owned[i - 1] \in Seq(Place)
            /\ PlacesOf(i) \in Seq(Place)
        BY <1>1, <2>2
      <3>2. owned[i - 1] \o PlacesOf(i) \in Seq(Place)
        BY <3>1
      <3> QED
        BY <1>8, <3>1, <3>2
    <2> HIDE DEF U
    <2>3. \A i \in 0..n : i \in U
      BY <1>1, <2>1, <2>2, IntervalInduction
    <2> QED
      BY <2>3 DEF U
  <1>10. owned \in [0..n -> Seq(Place)]
    BY <1>6, <1>9
  <1>11. Owns(owned)
    BY <1>7, <1>8, <1>10 DEF n, Owns
  <1> QED
    BY <1>11

(***************************************************************************)
(* The field that item i and occurrence k have to become, with the path of *)
(* the tree; and what flatten has after the first m items.                 *)
(***************************************************************************)
PathOf(i, k) ==
    IF items[i].name = <<>> THEN <<>>
    ELSE FlattenSeq([g \in DOMAIN Above(i) |->
                        LabelOf[Above(i)[g]].name \o <<".">>])
         \o Leaf(items[i], k)

Placed(field, i, k) ==
    /\ Describe(items[i]).fault = "none"
    /\ k \in 1..Occurrences(items[i])
    /\ field.name = Leaf(items[i], k)
    /\ field.size = Describe(items[i]).size
    /\ field.scale = Describe(items[i]).scale
    /\ field.kind = IF items[i].name = <<>> THEN "Skip"
                    ELSE Describe(items[i]).kind
    /\ field.declaration.level = items[i].level
    /\ field.declaration.path = PathOf(i, k)
    /\ field.declaration.occurs_index = IF items[i].occurs = 0 THEN 0 ELSE k
    /\ field.declaration.conditions = items[i].conditions

FieldsAt(m, fs) ==
    \A owned : Owns(owned) =>
       /\ Len(fs) = Len(owned[m])
       /\ \A n \in 1..Len(fs) :
             Placed(fs[n], owned[m][n].item, owned[m][n].occurrence)

GroupsAt(m, gs) == gs = Images(LabelOf, Filter(Index, Chain(m)))

(***************************************************************************)
(* A field made while the groups of the tree are open is the right one.    *)
(***************************************************************************)
LEMMA FieldIsPlaced ==
    ASSUME CTyped, NEW a \in 1..Len(items), GroupsAt(a - 1, groups),
           Describe(items[a]).fault = "none",
           NEW k \in 1..Occurrences(items[a])
    PROVE  Placed(FieldFrom(items[a], k), a, k)
  <1>1. OpenGroups(items[a]) = Images(LabelOf, Above(a))
        /\ Above(a) \in Seq(1..Len(items))
    BY GroupsAbove DEF GroupsAt
  <1> DEFINE open == OpenGroups(items[a])
             path == [g \in DOMAIN open |-> open[g].name \o <<".">>]
             above == [g \in DOMAIN Above(a) |->
                          LabelOf[Above(a)[g]].name \o <<".">>]
  <1>2. /\ DOMAIN open = DOMAIN Above(a)
        /\ \A g \in DOMAIN open : open[g] = LabelOf[Above(a)[g]]
    <2>1. DOMAIN Above(a) = 1..Len(Above(a))
      BY <1>1
    <2>2. open = [g \in 1..Len(Above(a)) |-> LabelOf[Above(a)[g]]]
      BY <1>1 DEF Images
    <2> HIDE DEF open
    <2> QED
      BY <2>1, <2>2
  <1>3. path = above
    <2> HIDE DEF open
    <2> QED
      BY <1>2
  <1>4. Qualify(items[a], k) = IF items[a].name = <<>> THEN <<>>
                               ELSE FlattenSeq(path) \o Leaf(items[a], k)
    BY DEF Qualify
  <1>5. PathOf(a, k) = IF items[a].name = <<>> THEN <<>>
                       ELSE FlattenSeq(above) \o Leaf(items[a], k)
    BY DEF PathOf
  <1>6. Qualify(items[a], k) = PathOf(a, k)
    BY <1>3, <1>4, <1>5, Zenon
  <1> QED
    BY <1>6 DEF FieldFrom, Placed

(***************************************************************************)
(* A step of flatten over a group opens it, and makes no field.            *)
(***************************************************************************)
LEMMA OpensFlat ==
    ASSUME CTyped, at \in 1..Len(items), Opens(at),
           GroupsAt(at - 1, groups), FieldsAt(at - 1, fields)
    PROVE  GroupsAt(at, groups') /\ FieldsAt(at, fields')
  <1>1. /\ IsGroup(at) /\ fields' = fields
        /\ groups' = Append(OpenGroups(items[at]), LabelOf[at])
    <2>1. LabelOf[at] = [level |-> items[at].level,
                         name  |-> IF items[at].name = <<>>
                                   THEN <<"FILLER">> ELSE items[at].name]
      <3>1. at \in DOMAIN items
        BY ItemsHaveLabels
      <3> QED
        BY <3>1 DEF LabelOf
    <2> QED
      BY <2>1 DEF Opens
  <1>2. groups = Images(LabelOf, Filter(Index, Chain(at - 1)))
    BY DEF GroupsAt
  <1>3. GroupsAt(at, groups')
    BY <1>1, <1>2, GroupsAbove DEF GroupsAt
  <1>4. ASSUME NEW owned, Owns(owned)
        PROVE  owned[at] = owned[at - 1]
    BY <1>1, <1>4, GroupIs DEF Owns
  <1>5. FieldsAt(at, fields)
    BY <1>4 DEF FieldsAt
  <1> QED
    BY <1>1, <1>3, <1>5

(***************************************************************************)
(* A step of flatten over an elementary item makes the fields of its       *)
(* places, in order.                                                       *)
(***************************************************************************)
LEMMA EmitsFlat ==
    ASSUME CTyped, at \in 1..Len(items), Emits(at),
           GroupsAt(at - 1, groups), FieldsAt(at - 1, fields)
    PROVE  GroupsAt(at, groups') /\ FieldsAt(at, fields')
  <1> DEFINE n == Occurrences(items[at])
  <1>1. /\ ~IsGroup(at) /\ groups' = OpenGroups(items[at])
        /\ Describe(items[at]).fault = "none"
    BY DEF Emits
  <1>2. GroupsAt(at, groups')
    <2>1. groups = Images(LabelOf, Filter(Index, Chain(at - 1)))
      BY DEF GroupsAt
    <2> QED
      BY <1>1, <2>1, GroupsAbove DEF GroupsAt
  <1>3. /\ Len(fields') = Len(fields) + n
        /\ \A c \in 1..Len(fields) : fields'[c] = fields[c]
        /\ \A k \in 1..n : fields'[Len(fields) + k] = FieldFrom(items[at], k)
    BY EmitTyped
  <1>4. n \in Nat /\ Len(fields) \in Nat
    BY ItemsHaveLabels, Occurs DEF CTyped
  <1>5. \A k \in 1..n : Placed(FieldFrom(items[at], k), at, k)
    BY <1>1, FieldIsPlaced
  <1>6. ASSUME NEW owned, Owns(owned)
        PROVE  /\ Len(fields') = Len(owned[at])
               /\ \A c \in 1..Len(fields') :
                     Placed(fields'[c], owned[at][c].item,
                            owned[at][c].occurrence)
    <2> DEFINE before == owned[at - 1]
               after == owned[at]
               m == Len(fields)
    <2>1. after = before \o PlacesOf(at)
      BY <1>1, <1>6, GroupIs DEF Owns
    <2>2. before \in Seq(Place) /\ PlacesOf(at) \in Seq(Place)
          /\ Len(PlacesOf(at)) = n
          /\ \A k \in 1..n : PlacesOf(at)[k] = [item |-> at, occurrence |-> k]
      <3>1. at - 1 \in 0..Len(items)
        BY ItemsHaveLabels
      <3> QED
        BY <1>6, <3>1, PlacesTyped DEF Owns
    <2>3. /\ Len(before) = m
          /\ \A c \in 1..m : Placed(fields[c], before[c].item,
                                    before[c].occurrence)
      BY <1>6 DEF FieldsAt
    <2> HIDE DEF before, after, n
    <2>4. /\ Len(before \o PlacesOf(at)) = Len(before) + Len(PlacesOf(at))
          /\ \A k \in 1..(Len(before) + Len(PlacesOf(at))) :
                (before \o PlacesOf(at))[k]
                   = IF k <= Len(before) THEN before[k]
                     ELSE PlacesOf(at)[k - Len(before)]
      BY <2>2, ConcatProperties, Zenon
    <2>5. m \in Nat /\ n \in Nat
      BY <1>4
    <2> HIDE DEF m
    <2>6. /\ Len(after) = m + n
          /\ \A c \in 1..m : after[c] = before[c]
          /\ \A k \in 1..n : after[m + k] = [item |-> at, occurrence |-> k]
      <3>1. Len(after) = m + n
        BY <2>1, <2>2, <2>3, <2>4
      <3>2. \A c \in 1..m : c \in 1..(m + n) /\ c <= m
        BY <2>5
      <3>3. \A k \in 1..n : /\ m + k \in 1..(m + n) /\ ~(m + k <= m)
                            /\ (m + k) - m = k
        BY <2>5
      <3>4. \A k \in 1..(m + n) :
               after[k] = IF k <= m THEN before[k] ELSE PlacesOf(at)[k - m]
        BY <2>1, <2>2, <2>3, <2>4
      <3> QED
        BY <2>2, <3>1, <3>2, <3>3, <3>4
    <2>7. Len(fields') = m + n
      BY <1>3 DEF m, n
    <2>8. ASSUME NEW c \in 1..m
          PROVE  Placed(fields'[c], after[c].item, after[c].occurrence)
      <3>1. fields'[c] = fields[c]
        BY <1>3 DEF m
      <3> QED
        BY <2>3, <2>6, <3>1
    <2>9. ASSUME NEW k \in 1..n
          PROVE  Placed(fields'[m + k], after[m + k].item,
                        after[m + k].occurrence)
      <3>1. fields'[m + k] = FieldFrom(items[at], k)
        BY <1>3 DEF m, n
      <3>2. Placed(FieldFrom(items[at], k), at, k)
        BY <1>5 DEF n
      <3>3. after[m + k].item = at /\ after[m + k].occurrence = k
        <4>1. after[m + k] = [item |-> at, occurrence |-> k]
          BY <2>6
        <4> QED
          BY ONLY <4>1
      <3> QED
        BY <3>1, <3>2, <3>3
    <2>10. \A c \in 1..(m + n) : c \in 1..m \/ \E k \in 1..n : c = m + k
      <3>1. \A c \in 1..(m + n) : c \in 1..m
                                  \/ (c - m \in 1..n /\ c = m + (c - m))
        BY <2>5
      <3> QED
        BY <3>1
    <2> QED
      BY <2>6, <2>7, <2>8, <2>9, <2>10 DEF after
  <1> QED
    BY <1>2, <1>6 DEF FieldsAt

(***************************************************************************)
(* The inductive invariant: nothing is flat before flatten, and from then  *)
(* on what it has is the tree of the items it went through.                *)
(***************************************************************************)
FlatPart ==
    /\ stage \in {"idle", "lines", "items"} => groups = <<>> /\ fields = <<>>
    /\ stage = "flatten" => /\ at - 1 \in 0..Len(items)
                            /\ GroupsAt(at - 1, groups)
                            /\ FieldsAt(at - 1, fields)
    /\ stage = "compiled" => FieldsAt(Len(items), fields)

(***************************************************************************)
(* Flatten starts with no group open and no field.                         *)
(***************************************************************************)
LEMMA FlatStarts ==
    ASSUME CTyped
    PROVE  GroupsAt(0, <<>>) /\ FieldsAt(0, <<>>)
  <1>1. /\ Index \in Seq(1..Len(items)) /\ Chain(0) = {}
    <2>1. Len(items) \in Nat /\ DOMAIN items = 1..Len(items)
      BY ItemsHaveLabels
    <2>2. Index \in [1..Len(items) -> 1..Len(items)]
      BY <2>1 DEF Index
    <2>3. Chain(0) = {}
      BY DEF Chain
    <2> QED
      BY <2>1, <2>2, <2>3, IntervalIsSeq
  <1>2. Filter(Index, {}) = <<>>
    BY <1>1, FilterNone
  <1>3. Images(LabelOf, <<>>) = <<>>
    BY DEF Images
  <1>4. GroupsAt(0, <<>>)
    BY <1>1, <1>2, <1>3 DEF GroupsAt
  <1>5. FieldsAt(0, <<>>)
    BY DEF FieldsAt, Owns
  <1> QED
    BY <1>4, <1>5

(***************************************************************************)
(* What is flat depends on the items alone.                                *)
(***************************************************************************)
LEMMA FlatStays ==
    ASSUME items' = items
    PROVE  /\ GroupsAt(at' - 1, groups') => GroupsAt(at - 1, groups)'
           /\ FieldsAt(at' - 1, fields') => FieldsAt(at - 1, fields)'
           /\ FieldsAt(Len(items), fields') => FieldsAt(Len(items), fields)'
  <1>1. GroupsAt(at' - 1, groups') <=> GroupsAt(at - 1, groups)'
    BY DEF GroupsAt, LabelOf, Index, Chain, IsGroup
  <1>2. Elementary' = Elementary /\ Place' = Place /\ Owner' = Owner
        /\ LabelOf' = LabelOf
    BY DEF Elementary, Enclosing, Place, Owner, LabelOf
  <1>3. \A i : Above(i)' = Above(i) /\ PlacesOf(i)' = PlacesOf(i)
    BY DEF Above, Index, Enclosing, PlacesOf
  <1>4. \A owned : Owns(owned)' <=> Owns(owned)
    BY <1>2, <1>3 DEF Owns
  <1>5. \A i, k : PathOf(i, k)' = PathOf(i, k)
    BY <1>2, <1>3 DEF PathOf
  <1>6. \A field, i, k : Placed(field, i, k)' <=> Placed(field, i, k)
    BY <1>5 DEF Placed
  <1>7. /\ FieldsAt(at' - 1, fields') <=> FieldsAt(at - 1, fields)'
        /\ FieldsAt(Len(items), fields') <=> FieldsAt(Len(items), fields)'
    BY <1>4, <1>6 DEF FieldsAt
  <1> QED
    BY <1>1, <1>7

(***************************************************************************)
(* Every step of the resolution keeps what flatten has the tree of the     *)
(* items.                                                                  *)
(***************************************************************************)
THEOREM FlatInductive ==
    CTyped /\ CTyped' /\ FlatPart /\ [ResolveNext]_resolveVars => FlatPart'
  <1> SUFFICES ASSUME CTyped, CTyped', FlatPart, [ResolveNext]_resolveVars
               PROVE  FlatPart'
    OBVIOUS
  <1>1. CASE UNCHANGED copybook
    <2>1. /\ stage' = stage /\ items' = items /\ at' = at
          /\ groups' = groups /\ fields' = fields
      BY <1>1 DEF copybook, lexing, flattening
    <2> QED
      BY <2>1, FlatStays DEF FlatPart
  <1>2. CASE Compile(options.lines) \/ ReadLine \/ EndSource \/ ParseStatement
    <2>1. /\ stage \in {"idle", "lines", "items"}
          /\ stage' \in {"lines", "items", "refused"}
          /\ groups' = groups /\ fields' = fields
      BY <1>2 DEF Compile, ReadLine, EndSource, ParseStatement, Refuse,
                  flattening
    <2> QED
      BY <2>1 DEF FlatPart
  <1>3. CASE CheckItems
    <2>1. CASE stage' = "flatten"
      <3>1. /\ stage = "items" /\ items' = items /\ at' = 1
            /\ groups' = groups /\ fields' = fields
        BY <1>3, <2>1 DEF CheckItems, Refuse, flattening
      <3>2. groups = <<>> /\ fields = <<>>
        BY <3>1 DEF FlatPart
      <3>3. GroupsAt(0, groups') /\ FieldsAt(0, fields')
        BY <3>1, <3>2, FlatStarts
      <3>4. at' - 1 = 0 /\ 0 \in 0..Len(items)
        BY <3>1, ItemsHaveLabels
      <3> QED
        BY <2>1, <3>1, <3>3, <3>4, FlatStays DEF FlatPart
    <2>2. CASE stage' # "flatten"
      <3>1. stage' = "refused"
        BY <1>3, <2>2 DEF CheckItems, Refuse
      <3> QED
        BY <3>1 DEF FlatPart
    <2> QED
      BY <2>1, <2>2
  <1>4. CASE FlattenItem
    <2>1. /\ stage = "flatten" /\ at \in 1..Len(items) /\ items' = items
          /\ \/ stage' = "refused"
             \/ at' = at + 1 /\ stage' = "flatten" /\ Opens(at)
             \/ at' = at + 1 /\ stage' = "flatten" /\ Emits(at)
      BY <1>4, FlattenSteps
    <2>2. GroupsAt(at - 1, groups) /\ FieldsAt(at - 1, fields)
      BY <2>1 DEF FlatPart
    <2>3. CASE stage' = "refused"
      BY <2>3 DEF FlatPart
    <2>4. CASE /\ at' = at + 1 /\ stage' = "flatten"
               /\ Opens(at) \/ Emits(at)
      <3>1. GroupsAt(at, groups') /\ FieldsAt(at, fields')
        BY <2>1, <2>2, <2>4, OpensFlat, EmitsFlat
      <3>2. at' - 1 = at /\ at' - 1 \in 0..Len(items)
        BY <2>1, <2>4
      <3> QED
        BY <2>1, <2>4, <3>1, <3>2, FlatStays DEF FlatPart
    <2> QED
      BY <2>1, <2>3, <2>4
  <1>5. CASE EndCompile
    <2>1. /\ stage = "flatten" /\ stage' = "compiled" /\ at > Len(items)
          /\ items' = items /\ at' = at /\ fields' = fields
      BY <1>5 DEF EndCompile, flattening
    <2>2. at - 1 \in 0..Len(items) /\ FieldsAt(at - 1, fields)
      BY <2>1 DEF FlatPart
    <2>3. at - 1 = Len(items)
      <3>1. at \in Nat /\ Len(items) \in Nat
        BY ItemsHaveLabels DEF CTyped
      <3> QED
        BY <2>1, <2>2, <3>1
    <2> QED
      BY <2>1, <2>2, <2>3, FlatStays DEF FlatPart
  <1> QED
    BY <1>1, <1>2, <1>3, <1>4, <1>5, CopybookSteps DEF CompileStep

(***************************************************************************)
(* Of a field that is in its place, FieldsAreTheTree and                   *)
(* WidthsHoldTheDigits ask nothing more.                                   *)
(***************************************************************************)
LEMMA CompiledFields ==
    ASSUME CTyped, FieldsAt(Len(items), fields)
    PROVE  /\ Len(fields) = Len(Owner)
           /\ \A n \in DOMAIN fields :
                 /\ Owner[n] \in Place
                 /\ Placed(fields[n], Owner[n].item, Owner[n].occurrence)
  <1>1. PICK owned : Owns(owned)
    BY OwnerUnfold
  <1>2. Owner = owned[Len(items)] /\ Owner \in Seq(Place)
    <2>1. Len(items) \in 0..Len(items)
      BY ItemsHaveLabels
    <2> QED
      BY <1>1, <2>1 DEF Owns
  <1>3. /\ Len(fields) = Len(Owner)
        /\ \A n \in 1..Len(fields) :
              Placed(fields[n], Owner[n].item, Owner[n].occurrence)
    BY <1>1, <1>2 DEF FieldsAt
  <1>4. DOMAIN fields = 1..Len(fields)
    BY DEF CTyped
  <1>5. \A n \in 1..Len(fields) : Owner[n] \in Place
    <2> HIDE DEF Owner
    <2> QED
      BY <1>2, <1>3
  <1> QED
    BY <1>3, <1>4, <1>5

(***************************************************************************)
(* Then the fields of a compiled record are the tree.                      *)
(***************************************************************************)
LEMMA FlatIsTheTree == CTyped /\ FlatPart => FieldsAreTheTree
  <1> SUFFICES ASSUME CTyped, FlatPart, stage = "compiled"
               PROVE  FieldsAreTheTree
    BY DEF FieldsAreTheTree
  <1>1. /\ Len(fields) = Len(Owner)
        /\ \A n \in DOMAIN fields :
              /\ Owner[n] \in Place
              /\ Placed(fields[n], Owner[n].item, Owner[n].occurrence)
    BY CompiledFields DEF FlatPart
  <1> SUFFICES ASSUME NEW n \in DOMAIN fields
      PROVE  LET i == Owner[n].item
                 k == Owner[n].occurrence
                 above == Filter([j \in DOMAIN items |-> j], Enclosing(i))
                 label(j) == IF items[j].name = <<>>
                             THEN <<"FILLER">> ELSE items[j].name
                 declared == fields[n].declaration
             IN  /\ declared.level = items[i].level
                 /\ (fields[n].kind = "Skip") <=> (items[i].name = <<>>)
                 /\ fields[n].kind # "Skip" =>
                       declared.path =
                          FlattenSeq([j \in DOMAIN above |->
                                         label(above[j]) \o <<".">>])
                          \o fields[n].name
                 /\ items[i].occurs > 0 => declared.occurs_index = k
    BY <1>1 DEF FieldsAreTheTree
  <1> DEFINE i == Owner[n].item
             k == Owner[n].occurrence
             label(j) == IF items[j].name = <<>>
                         THEN <<"FILLER">> ELSE items[j].name
  <1>2. /\ i \in 1..Len(items)
        /\ Placed(fields[n], i, k)
    BY <1>1 DEF Place
  <1> HIDE DEF i, k
  <1>3. items[i] \in Item /\ DOMAIN items = 1..Len(items) /\ Len(items) \in Nat
    BY <1>2, ItemsHaveLabels
  <1>4. fields[n].kind = "Skip" <=> items[i].name = <<>>
    <2>1. Describe(items[i]).kind # "Skip"
      BY <1>2, <1>3, ItemDescribed DEF Placed
    <2> QED
      BY <1>2, <2>1 DEF Placed
  <1>5. Above(i) = Filter([j \in DOMAIN items |-> j], Enclosing(i))
    BY DEF Above, Index
  <1>6. ASSUME items[i].name # <<>>
        PROVE  fields[n].declaration.path
                  = FlattenSeq([j \in DOMAIN Above(i) |->
                                   label(Above(i)[j]) \o <<".">>])
                    \o fields[n].name
    <2>1. Above(i) \in Seq(1..Len(items))
      <3>1. Index \in [1..Len(items) -> 1..Len(items)]
        BY <1>3 DEF Index
      <3>2. Index \in Seq(1..Len(items))
        BY <1>3, <3>1, IntervalIsSeq
      <3> QED
        BY <3>2, FilterPicks DEF Above
    <2>2. \A j \in DOMAIN Above(i) :
             LabelOf[Above(i)[j]].name = label(Above(i)[j])
      <3>1. \A j \in DOMAIN Above(i) : Above(i)[j] \in DOMAIN items
        BY <1>3, <2>1
      <3>2. \A x \in DOMAIN items : LabelOf[x].name = label(x)
        BY DEF LabelOf
      <3> QED
        BY <3>1, <3>2
    <2> HIDE DEF label
    <2>3. [j \in DOMAIN Above(i) |-> LabelOf[Above(i)[j]].name \o <<".">>]
             = [j \in DOMAIN Above(i) |-> label(Above(i)[j]) \o <<".">>]
      BY <2>2
    <2>4. fields[n].declaration.path
             = FlattenSeq([j \in DOMAIN Above(i) |->
                              LabelOf[Above(i)[j]].name \o <<".">>])
               \o Leaf(items[i], k)
      BY <1>2, <1>6 DEF Placed, PathOf
    <2>5. fields[n].name = Leaf(items[i], k)
      BY <1>2 DEF Placed
    <2> QED
      BY <2>3, <2>4, <2>5, Zenon
  <1>7. /\ fields[n].declaration.level = items[i].level
        /\ items[i].occurs > 0 => fields[n].declaration.occurs_index = k
    <2>1. items[i].occurs \in Nat
      BY <1>3, Limits DEF Item
    <2>2. items[i].occurs > 0 => items[i].occurs # 0
      BY <2>1
    <2> QED
      BY <1>2, <2>2 DEF Placed
  <1> QED
    BY <1>4, <1>5, <1>6, <1>7, Zenon DEF i, k, label

(***************************************************************************)
(* What flatten has is the tree, in every reachable state.                 *)
(***************************************************************************)
THEOREM FlatPartHolds == ResolveSpec => []FlatPart
  <1>1. ResolveInit => FlatPart
    BY DEF ResolveInit, Idle, FlatPart
  <1> QED
    BY <1>1, FlatInductive, CompilerIsTyped, PTL DEF ResolveSpec

(***************************************************************************)
(* The flat fields of a compiled copybook are the level tree: one field    *)
(* per elementary item and occurrence, in source order, under exactly the  *)
(* groups above it (flatten).                                              *)
(***************************************************************************)
THEOREM FieldsAreTheTreeHolds == ResolveSpec => []FieldsAreTheTree
  BY FlatPartHolds, FlatIsTheTree, CompilerIsTyped, PTL

(***************************************************************************)
(* Every field of the record has the width its item's picture says.        *)
(***************************************************************************)
LEMMA PlacedIsWide ==
    ASSUME CTyped, FlatPart, stage = "compiled"
    PROVE  WidthsHoldTheDigits
  <1>1. \A n \in DOMAIN fields :
           /\ Owner[n] \in Place
           /\ Placed(fields[n], Owner[n].item, Owner[n].occurrence)
    BY CompiledFields DEF FlatPart
  <1> DEFINE width(item, size, scale) ==
          LET symbols == Expand(item.picture)
              digits == Cardinality({c \in DOMAIN symbols : symbols[c] = "9"})
              Holds(bytes) == (8 * bytes - 1) * 3 >= digits * 10
          IN  CASE ToSet(symbols) \cap {"X", "A"} # {} ->
                      size = Len(symbols)
                [] item.usage = "Display" /\ ToSet(symbols) \cap {"X", "A"} = {} ->
                      size = digits /\ scale <= digits
                [] item.usage = "Packed" ->
                      /\ digits \in {2 * size - 1, 2 * size - 2}
                      /\ scale <= digits
                [] item.usage = "Binary" ->
                      /\ size \in {2, 4, 8} /\ Holds(size)
                      /\ size > 2 => ~Holds(size \div 2)
                      /\ scale <= digits
  <1>2. ASSUME NEW item \in Item, NEW size, NEW scale, Wide(item, size, scale)
        PROVE  width(item, size, scale)
    <2> DEFINE symbols == Expand(item.picture)
               digits == Digits(symbols)
               usage == item.usage
               Holds(bytes) == HoldsDigits(bytes, digits)
    <2>1. usage \in Usage
      BY DEF Item
    <2>2. width(item, size, scale) =
             CASE IsText(symbols) -> size = Len(symbols)
               [] usage = "Display" /\ ~IsText(symbols) ->
                     size = digits /\ scale <= digits
               [] usage = "Packed" ->
                     /\ digits \in {2 * size - 1, 2 * size - 2}
                     /\ scale <= digits
               [] usage = "Binary" ->
                     /\ size \in {2, 4, 8} /\ Holds(size)
                     /\ size > 2 => ~Holds(size \div 2)
                     /\ scale <= digits
      BY DEF IsText, Digits, HoldsDigits
    <2>3. /\ IsText(symbols) => size = Len(symbols) /\ usage = "Display"
          /\ ~IsText(symbols) => NumericWidth(usage, digits, size, scale)
      BY <1>2 DEF Wide
    <2> HIDE DEF width, symbols, digits, usage
    <2>4. CASE IsText(symbols)
      BY <2>2, <2>3, <2>4
    <2>5. CASE ~IsText(symbols)
      BY <2>1, <2>2, <2>3, <2>5 DEF NumericWidth, Usage
    <2> QED
      BY <2>4, <2>5
  <1>3. ASSUME NEW n \in DOMAIN fields
        PROVE  width(items[Owner[n].item], fields[n].size, fields[n].scale)
    <2> DEFINE item == items[Owner[n].item]
    <2>1. item \in Item
      <3>1. Owner[n].item \in 1..Len(items)
        BY <1>1 DEF Place
      <3> QED
        BY <3>1, ItemsHaveLabels
    <2>2. Describe(item).fault = "none" /\ fields[n].size = Describe(item).size
          /\ fields[n].scale = Describe(item).scale
      BY <1>1 DEF Placed
    <2> HIDE DEF item, width
    <2>3. Wide(item, Describe(item).size, Describe(item).scale)
      BY <2>1, <2>2, ItemDescribed
    <2>4. width(item, Describe(item).size, Describe(item).scale)
      BY <1>2, <2>1, <2>3
    <2> QED
      BY <2>2, <2>4 DEF item
  <1> QED
    BY <1>3, Zenon DEF WidthsHoldTheDigits

(***************************************************************************)
(* A compiled field is as wide as its picture says (describe_numeric).     *)
(***************************************************************************)
THEOREM WidthsHold == ResolveSpec => []WidthsHoldTheDigits
  <1>1. CTyped /\ FlatPart => WidthsHoldTheDigits
    BY PlacedIsWide DEF WidthsHoldTheDigits
  <1> QED
    BY <1>1, FlatPartHolds, CompilerIsTyped, PTL

-----------------------------------------------------------------------------
(***************************************************************************)
(* The statements among the first m that are items, and what the items     *)
(* have of the conditions after them.                                      *)
(***************************************************************************)
Heads(m) ==
    Filter([n \in DOMAIN statements |-> n],
           {n \in 1..m : Number(statements[n][1]) # 88})

To(m, its, i) == IF i = Len(its) THEN m ELSE Heads(m)[i + 1] - 1

KeptOf(m, its, i) ==
    /\ Len(its[i].conditions) = To(m, its, i) - Heads(m)[i]
    /\ \A c \in 1..Len(its[i].conditions) :
          its[i].conditions[c].name = statements[Heads(m)[i] + c][2]

KeptTo(m, its) ==
    /\ Len(Heads(m)) = Len(its)
    /\ \A i \in 1..Len(its) : KeptOf(m, its, i)

(***************************************************************************)
(* The heads are statements, and one more statement is one or is not.      *)
(***************************************************************************)
LEMMA HeadsNext ==
    ASSUME CTyped
    PROVE  /\ \A m \in 0..Len(statements) :
                 /\ Heads(m) \in Seq(Nat)
                 /\ \A i \in 1..Len(Heads(m)) : Heads(m)[i] \in 1..m
           /\ \A a \in 1..Len(statements) :
                 Heads(a) = IF Number(statements[a][1]) # 88
                            THEN Append(Heads(a - 1), a) ELSE Heads(a - 1)
           /\ Heads(0) = <<>>
           /\ Heads(Len(statements)) = ItemStatements
  <1> DEFINE n == Len(statements)
             s == [i \in 1..n |-> i]
             head(m) == {i \in 1..m : Number(statements[i][1]) # 88}
  <1>1. n \in Nat /\ DOMAIN statements = 1..n
    BY DEF CTyped
  <1>2. \A m : Heads(m) = Filter(s, head(m))
    BY <1>1 DEF Heads
  <1>3. Heads(n) = ItemStatements
    BY <1>1 DEF Heads, ItemStatements
  <1>4. \A m : head(m) \in SUBSET (1..m)
    OBVIOUS
  <1>5. \A a \in 1..n : head(a) = IF Number(statements[a][1]) # 88
                                  THEN head(a - 1) \cup {a} ELSE head(a - 1)
    <2> SUFFICES ASSUME NEW a \in 1..n
                 PROVE  head(a) = IF Number(statements[a][1]) # 88
                                  THEN head(a - 1) \cup {a} ELSE head(a - 1)
      OBVIOUS
    <2>1. \A i : i \in 1..a <=> (i \in 1..(a - 1) \/ i = a)
      BY <1>1
    <2> QED
      BY <2>1
  <1>6. head(0) = {}
    OBVIOUS
  <1> HIDE DEF n, head
  <1>7. s \in Seq(Nat) /\ Len(s) = n
    <2>1. s \in [1..n -> Nat]
      OBVIOUS
    <2> HIDE DEF s
    <2> QED
      BY <1>1, <2>1, IntervalIsSeq
  <1>8. ASSUME NEW m \in 0..n
        PROVE  /\ Heads(m) \in Seq(Nat)
               /\ \A i \in 1..Len(Heads(m)) : Heads(m)[i] \in 1..m
    <2> DEFINE u == Filter(s, head(m))
    <2>1. u \in Seq(Nat) /\ \E at0 : Picks(u, at0, s, Len(s), head(m))
      <3> HIDE DEF s
      <3> QED
        BY <1>7, FilterPicks
    <2> HIDE DEF u
    <2>2. \A c \in 1..Len(u) : u[c] \in head(m)
      BY <2>1 DEF Picks
    <2>3. \A c \in 1..Len(u) : u[c] \in 1..m
      BY <1>4, <2>2
    <2>4. Heads(m) = u
      BY <1>2 DEF u
    <2> QED
      BY <2>1, <2>3, <2>4
  <1>9. ASSUME NEW a \in 1..n
        PROVE  Heads(a) = IF Number(statements[a][1]) # 88
                          THEN Append(Heads(a - 1), a) ELSE Heads(a - 1)
    <2>1. Filter(s, head(a - 1) \cup {a}) = Append(Filter(s, head(a - 1)), a)
      <3>1. n \in Nat /\ a \in 1..n /\ head(a - 1) \in SUBSET (1..(a - 1))
        BY <1>1, <1>4
      <3>2. Filter([i \in 1..n |-> i], head(a - 1) \cup {a})
               = Append(Filter([i \in 1..n |-> i], head(a - 1)), a)
        BY ONLY <3>1, FilterLast
      <3> QED
        BY <3>2
    <2> HIDE DEF s
    <2> QED
      BY <1>2, <1>5, <2>1
  <1>10. Heads(0) = <<>>
    <2>1. Filter(s, {}) = <<>>
      <3> HIDE DEF s
      <3> QED
        BY <1>7, FilterNone
    <2> HIDE DEF s
    <2> QED
      BY <1>2, <1>6, <2>1
  <1> QED
    BY <1>3, <1>8, <1>9, <1>10 DEF n

(***************************************************************************)
(* An item ends the conditions of the one before it.                       *)
(***************************************************************************)
LEMMA AddsKeeps ==
    ASSUME CTyped, at \in 1..Len(statements), KeptTo(at - 1, items),
           NEW new, Adds(new, statements[at])
    PROVE  KeptTo(at, new)
  <1> DEFINE h == Heads(at - 1)
             g == Heads(at)
             n == Len(items)
  <1>1. /\ new \in Seq(Item) /\ Len(new) = n + 1 /\ n \in Nat
        /\ \A i \in 1..n : new[i] = items[i]
        /\ new[n + 1].conditions = <<>>
    BY AddedItems DEF CTyped
  <1>2. at - 1 \in 0..Len(statements) /\ at \in Nat
    BY DEF CTyped
  <1>3. g = Append(h, at) /\ h \in Seq(Nat) /\ Len(h) = n
    <2>1. Number(statements[at][1]) # 88
      BY DEF Adds
    <2> QED
      BY <1>2, <2>1, HeadsNext DEF KeptTo
  <1>4. \A i \in 1..n : KeptOf(at - 1, items, i)
    BY DEF KeptTo
  <1> HIDE DEF h, g, n
  <1>5. /\ Len(g) = n + 1 /\ g[n + 1] = at
        /\ \A i \in 1..n : g[i] = h[i]
    BY <1>2, <1>3, AppendHolds
  <1>6. ASSUME NEW i \in 1..n
        PROVE  KeptOf(at, new, i)
    <2>1. To(at, new, i) = To(at - 1, items, i)
      <3>1. i # Len(new)
        BY <1>1
      <3>2. To(at, new, i) = g[i + 1] - 1
        BY <3>1 DEF To, g
      <3>3. To(at - 1, items, i) = IF i = n THEN at - 1 ELSE h[i + 1] - 1
        BY DEF To, h, n
      <3>4. CASE i = n
        BY <1>5, <3>2, <3>3, <3>4
      <3>5. CASE i # n
        <4>1. i + 1 \in 1..n
          BY <1>1, <3>5
        <4> QED
          BY <1>5, <3>2, <3>3, <3>5, <4>1
      <3> QED
        BY <3>4, <3>5
    <2>2. new[i] = items[i] /\ g[i] = h[i] /\ KeptOf(at - 1, items, i)
      BY <1>1, <1>4, <1>5
    <2> QED
      BY <2>1, <2>2 DEF KeptOf, g, h
  <1>7. KeptOf(at, new, n + 1)
    <2>1. To(at, new, n + 1) = at
      BY <1>1 DEF To
    <2>2. Len(<<>>) = 0 /\ 1..0 = {} /\ at - at = 0
      BY <1>2
    <2> QED
      BY <1>1, <1>5, <2>1, <2>2 DEF KeptOf, g
  <1>8. \A i \in 1..(n + 1) : i \in 1..n \/ i = n + 1
    BY <1>1
  <1> QED
    BY <1>1, <1>5, <1>6, <1>7, <1>8 DEF KeptTo, g

(***************************************************************************)
(* A condition is the next of the last item.                               *)
(***************************************************************************)
LEMMA QualifiesKeeps ==
    ASSUME CTyped, at \in 1..Len(statements), KeptTo(at - 1, items),
           NEW new, Qualifies(new, statements[at])
    PROVE  KeptTo(at, new)
  <1> DEFINE h == Heads(at - 1)
             n == Len(items)
  <1>1. /\ n >= 1 /\ new \in Seq(Item) /\ Len(new) = n /\ n \in Nat
        /\ \A i \in 1..(n - 1) : new[i] = items[i]
    BY QualifiedItems DEF CTyped
  <1>2. PICK c \in ConditionName :
           /\ c.name = statements[at][2]
           /\ new[n].conditions = Append(items[n].conditions, c)
    <2>1. items \in Seq(Item)
      BY DEF CTyped
    <2>2. \E c \in ConditionName :
             /\ c.name = statements[at][2]
             /\ new[Len(items)].conditions =
                    Append(items[Len(items)].conditions, c)
      BY ONLY <2>1, Qualifies(new, statements[at]), QualifiedItems
    <2> QED
      BY <2>2
  <1>3. at - 1 \in 0..Len(statements) /\ at \in Nat
    BY DEF CTyped
  <1>4. /\ Heads(at) = h /\ h \in Seq(Nat) /\ Len(h) = n
        /\ \A i \in 1..n : h[i] \in Nat
    <2>1. Number(statements[at][1]) = 88
      BY DEF Qualifies
    <2>2. Heads(at) = h /\ h \in Seq(Nat) /\ Len(h) = n
      BY <1>3, <2>1, HeadsNext DEF KeptTo
    <2> HIDE DEF h
    <2> QED
      BY <2>2
  <1>5. \A i \in 1..n : KeptOf(at - 1, items, i)
    BY DEF KeptTo
  <1>6. items[n].conditions \in Seq(ConditionName)
    <2>1. items[n] \in Item
      BY <1>1 DEF CTyped
    <2> QED
      BY <2>1 DEF Item
  <1> HIDE DEF h, n
  <1>7. ASSUME NEW i \in 1..(n - 1)
        PROVE  KeptOf(at, new, i)
    <2>1. i \in 1..n /\ i # n
      BY <1>1
    <2>2. To(at, new, i) = To(at - 1, items, i)
      BY <1>1, <1>4, <2>1 DEF To, h, n
    <2>3. new[i] = items[i] /\ Heads(at) = h /\ KeptOf(at - 1, items, i)
      BY <1>1, <1>4, <1>5, <2>1
    <2> QED
      BY <2>2, <2>3, Zenon DEF KeptOf, h
  <1>8. KeptOf(at, new, n)
    <2> DEFINE old == items[n].conditions
               k == Len(old)
    <2>1. n \in 1..n /\ h[n] \in Nat
      BY <1>1, <1>4
    <2>2. To(at, new, n) = at /\ To(at - 1, items, n) = at - 1
      BY <1>1 DEF To, n
    <2>3. /\ k = (at - 1) - h[n]
          /\ \A d \in 1..k : old[d].name = statements[h[n] + d][2]
      BY <1>5, <2>1, <2>2 DEF KeptOf, h
    <2>4. old \in Seq(ConditionName) /\ k \in Nat
      BY <1>6
    <2> HIDE DEF old
    <2>5. /\ Len(Append(old, c)) = k + 1 /\ Append(old, c)[k + 1] = c
          /\ \A d \in 1..k : Append(old, c)[d] = old[d]
      BY <2>4, AppendHolds
    <2> HIDE DEF k
    <2>6. k + 1 = at - h[n] /\ h[n] + (k + 1) = at
      <3> DEFINE head == h[n]
      <3>1. at \in Nat /\ head \in Nat /\ k \in Nat /\ k = (at - 1) - head
        BY <1>3, <2>1, <2>3, <2>4
      <3> HIDE DEF head
      <3>2. k + 1 = at - head /\ head + (k + 1) = at
        BY ONLY <3>1
      <3> QED
        BY ONLY <3>2 DEF head
    <2>7. new[n].conditions = Append(old, c)
      BY <1>2 DEF old
    <2> DEFINE more == Append(old, c)
    <2>8. \A d \in 1..(k + 1) : more[d].name = statements[h[n] + d][2]
      <3>1. \A d \in 1..(k + 1) : d \in 1..k \/ d = k + 1
        BY <2>4
      <3>2. more[k + 1].name = statements[h[n] + (k + 1)][2]
        BY <1>2, <2>5, <2>6
      <3>3. \A d \in 1..k : more[d].name = statements[h[n] + d][2]
        BY <2>3, <2>5
      <3> HIDE DEF more
      <3> QED
        BY <3>1, <3>2, <3>3
    <2>9. Len(more) = k + 1
      BY <2>5
    <2> HIDE DEF more
    <2>10. /\ new[n].conditions = more /\ Heads(at)[n] = h[n]
           /\ Len(more) = To(at, new, n) - h[n]
      BY <1>4, <2>2, <2>6, <2>7, <2>9 DEF more
    <2> QED
      BY <2>8, <2>9, <2>10 DEF KeptOf
  <1>9. \A i \in 1..n : i \in 1..(n - 1) \/ i = n
    BY <1>1
  <1> QED
    BY <1>1, <1>4, <1>7, <1>8, <1>9 DEF KeptTo

(***************************************************************************)
(* The inductive invariant: every item has the conditions that follow it   *)
(* among the statements read so far.                                       *)
(***************************************************************************)
ItemsPart ==
    /\ stage \in {"idle", "lines"} => items = <<>> /\ at = 1
    /\ stage = "items" => /\ at - 1 \in 0..Len(statements)
                          /\ KeptTo(at - 1, items)
    /\ stage \in {"flatten", "compiled"} => KeptTo(Len(statements), items)

(***************************************************************************)
(* What is kept depends on the statements and the items alone.             *)
(***************************************************************************)
LEMMA KeptStays ==
    ASSUME statements' = statements
    PROVE  /\ KeptTo(at' - 1, items') => KeptTo(at - 1, items)'
           /\ KeptTo(Len(statements), items') => KeptTo(Len(statements), items)'
  <1>1. /\ Heads(at - 1)' = Heads(at' - 1)
        /\ Heads(Len(statements))' = Heads(Len(statements))
    BY DEF Heads
  <1>2. \A i : /\ To(at - 1, items, i)' = To(at' - 1, items', i)
               /\ To(Len(statements), items, i)'
                     = To(Len(statements), items', i)
    BY <1>1 DEF To
  <1>3. \A i : /\ KeptOf(at - 1, items, i)' <=> KeptOf(at' - 1, items', i)
               /\ KeptOf(Len(statements), items, i)'
                     <=> KeptOf(Len(statements), items', i)
    BY <1>1, <1>2 DEF KeptOf
  <1> QED
    BY <1>1, <1>3 DEF KeptTo

(***************************************************************************)
(* Every step of the resolution keeps the conditions with their items.     *)
(***************************************************************************)
THEOREM ItemsInductive ==
    CTyped /\ CTyped' /\ ItemsPart /\ [ResolveNext]_resolveVars => ItemsPart'
  <1> SUFFICES ASSUME CTyped, CTyped', ItemsPart, [ResolveNext]_resolveVars
               PROVE  ItemsPart'
    OBVIOUS
  <1>1. CASE UNCHANGED copybook
    <2>1. /\ stage' = stage /\ statements' = statements /\ items' = items
          /\ at' = at
      BY <1>1 DEF copybook, lexing
    <2> QED
      BY <2>1, KeptStays DEF ItemsPart
  <1>2. CASE Compile(options.lines) \/ ReadLine
    <2>1. /\ stage \in {"idle", "lines"} /\ stage' \in {"lines", "refused"}
          /\ items' = items /\ at' = at
      BY <1>2 DEF Compile, ReadLine, Refuse
    <2> QED
      BY <2>1 DEF ItemsPart
  <1>3. CASE EndSource
    <2>1. CASE stage' = "items"
      <3>1. /\ stage = "lines" /\ statements' = statements /\ items' = items
            /\ at' = at
        BY <1>3, <2>1 DEF EndSource, lexing
      <3>2. items = <<>> /\ at = 1
        BY <3>1 DEF ItemsPart
      <3>3. KeptTo(0, <<>>)
        <4>1. Heads(0) = <<>> /\ Len(<<>>) = 0 /\ 1..0 = {}
          BY HeadsNext
        <4> QED
          BY <4>1 DEF KeptTo
      <3>4. at' - 1 = 0 /\ 0 \in 0..Len(statements)
        BY <3>1, <3>2 DEF CTyped
      <3> QED
        BY <2>1, <3>1, <3>2, <3>3, <3>4, KeptStays DEF ItemsPart
    <2>2. CASE stage' # "items"
      <3>1. stage' = "refused"
        BY <1>3, <2>2 DEF EndSource, Refuse
      <3> QED
        BY <3>1 DEF ItemsPart
    <2> QED
      BY <2>1, <2>2
  <1>4. CASE ParseStatement
    <2> DEFINE parsed == Parsed(statements[at])
    <2>1. /\ stage = "items" /\ statements' = statements
          /\ at \in 1..Len(statements)
          /\ \/ stage' = "refused"
             \/ /\ parsed.fault = "none" /\ items' = parsed.items
                /\ at' = at + 1 /\ stage' = stage
      BY <1>4 DEF ParseStatement, Refuse, lexing, CTyped
    <2>2. CASE stage' = "refused"
      BY <2>2 DEF ItemsPart
    <2>3. CASE /\ parsed.fault = "none" /\ items' = parsed.items
               /\ at' = at + 1 /\ stage' = stage
      <3>1. items \in Seq(Item) /\ statements[at] \in Seq(Token)
        BY <2>1 DEF CTyped
      <3>2. Adds(items', statements[at]) \/ Qualifies(items', statements[at])
        <4>1. \/ Adds(Parsed(statements[at]).items, statements[at])
              \/ Qualifies(Parsed(statements[at]).items, statements[at])
          BY <2>3, <3>1, ParsedTyped
        <4> QED
          BY <2>3, <4>1
      <3> HIDE DEF parsed
      <3>3. KeptTo(at - 1, items)
        BY <2>1 DEF ItemsPart
      <3>4. KeptTo(at, items')
        BY <2>1, <3>2, <3>3, AddsKeeps, QualifiesKeeps
      <3>5. at' - 1 = at /\ at' - 1 \in 0..Len(statements)
        BY <2>1, <2>3
      <3> QED
        BY <2>1, <2>3, <3>4, <3>5, KeptStays DEF ItemsPart
    <2> QED
      BY <2>1, <2>2, <2>3
  <1>5. CASE CheckItems
    <2>1. CASE stage' = "flatten"
      <3>1. /\ stage = "items" /\ statements' = statements /\ items' = items
            /\ at > Len(statements)
        BY <1>5, <2>1 DEF CheckItems, Refuse, lexing
      <3>2. at - 1 \in 0..Len(statements) /\ KeptTo(at - 1, items)
        BY <3>1 DEF ItemsPart
      <3>3. at - 1 = Len(statements)
        <4>1. at \in Nat /\ Len(statements) \in Nat
          BY DEF CTyped
        <4> QED
          BY <3>1, <3>2, <4>1
      <3> QED
        BY <2>1, <3>1, <3>2, <3>3, KeptStays DEF ItemsPart
    <2>2. CASE stage' # "flatten"
      <3>1. stage' = "refused"
        BY <1>5, <2>2 DEF CheckItems, Refuse
      <3> QED
        BY <3>1 DEF ItemsPart
    <2> QED
      BY <2>1, <2>2
  <1>6. CASE FlattenItem \/ EndCompile
    <2>1. /\ stage = "flatten" /\ statements' = statements /\ items' = items
          /\ stage' \in {"flatten", "compiled", "refused"}
      <3>1. CASE FlattenItem
        BY <3>1 DEF FlattenItem, Refuse, lexing
      <3>2. CASE EndCompile
        BY <3>2 DEF EndCompile, lexing
      <3> QED
        BY <1>6, <3>1, <3>2
    <2> QED
      BY <2>1, KeptStays DEF ItemsPart
  <1> QED
    BY <1>1, <1>2, <1>3, <1>4, <1>5, <1>6, CopybookSteps DEF CompileStep

(***************************************************************************)
(* The fields copy what the items have.                                    *)
(***************************************************************************)
LEMMA CopiesAreKept ==
    CTyped /\ FlatPart /\ ItemsPart => ConditionsKept
  <1> SUFFICES ASSUME CTyped, FlatPart, ItemsPart, stage = "compiled"
               PROVE  ConditionsKept
    BY DEF ConditionsKept
  <1>1. \A n \in DOMAIN fields :
           /\ Owner[n] \in Place
           /\ Placed(fields[n], Owner[n].item, Owner[n].occurrence)
    BY CompiledFields DEF FlatPart
  <1>2. KeptTo(Len(statements), items)
        /\ Heads(Len(statements)) = ItemStatements
    BY HeadsNext DEF ItemsPart
  <1> SUFFICES ASSUME NEW n \in DOMAIN fields
      PROVE  LET i == Owner[n].item
                 from == ItemStatements[i]
                 to == IF i = Len(items) THEN Len(statements)
                       ELSE ItemStatements[i + 1] - 1
                 kept == fields[n].declaration.conditions
             IN  /\ Len(kept) = to - from
                 /\ \A c \in DOMAIN kept :
                       kept[c].name = statements[from + c][2]
    BY DEF ConditionsKept
  <1> DEFINE i == Owner[n].item
             kept == fields[n].declaration.conditions
  <1>3. i \in 1..Len(items) /\ kept = items[i].conditions
    BY <1>1 DEF Place, Placed
  <1> HIDE DEF i, kept
  <1>4. DOMAIN kept = 1..Len(items[i].conditions)
    <2>1. items[i] \in Item
      BY <1>3, ItemsHaveLabels
    <2>2. items[i].conditions \in Seq(ConditionName)
      BY <2>1 DEF Item
    <2> QED
      BY <1>3, <2>2
  <1>5. KeptOf(Len(statements), items, i)
    BY <1>2, <1>3 DEF KeptTo
  <1>6. /\ Len(kept) = (IF i = Len(items) THEN Len(statements)
                        ELSE ItemStatements[i + 1] - 1) - ItemStatements[i]
        /\ \A c \in DOMAIN kept :
              kept[c].name = statements[ItemStatements[i] + c][2]
    BY <1>2, <1>3, <1>4, <1>5, Zenon DEF KeptOf, To
  <1> QED
    BY <1>6, Zenon DEF i, kept

(***************************************************************************)
(* A level-88 entry qualifies the item it follows and nothing else.        *)
(***************************************************************************)
THEOREM ItemsPartHolds == ResolveSpec => []ItemsPart
  <1>1. ResolveInit => ItemsPart
    BY DEF ResolveInit, Idle, ItemsPart
  <1> QED
    BY <1>1, ItemsInductive, CompilerIsTyped, PTL DEF ResolveSpec

(***************************************************************************)
(* A level-88 entry qualifies the item it follows and nothing else, and    *)
(* every occurrence of it carries the copies (compile, flatten).           *)
(***************************************************************************)
THEOREM ConditionsAreKept == ResolveSpec => []ConditionsKept
  BY ItemsPartHolds, FlatPartHolds, CopiesAreKept, CompilerIsTyped, PTL

-----------------------------------------------------------------------------
(***************************************************************************)
(* The quote that is open after each symbol (the quote of `statements`).   *)
(***************************************************************************)
QuotesOpen(open, text) ==
    /\ \A i \in 0..Len(text) : open[i] \in {"none"} \cup Quotes
    /\ open[0] = "none"
    /\ \A i \in 1..Len(text) :
          open[i] = IF open[i - 1] = "none"
                    THEN IF text[i] \in Quotes THEN text[i] ELSE "none"
                    ELSE IF open[i - 1] = text[i] THEN "none"
                    ELSE open[i - 1]

(***************************************************************************)
(* OpenQuote says which, for every text.                                   *)
(***************************************************************************)
LEMMA OpenUnfold ==
    ASSUME NEW text \in Token
    PROVE  QuotesOpen(OpenQuote(text), text)
  <1> DEFINE n == Len(text)
             S == {"none"} \cup Quotes
             after(i, q) == IF q = "none"
                            THEN IF text[i] \in Quotes THEN text[i] ELSE "none"
                            ELSE IF q = text[i] THEN "none" ELSE q
             step == [i \in 1..n |-> [q \in S |-> after(i, q)]]
  <1>1. n \in Nat
    BY DEF Token
  <1>2. \A i \in 1..n, q \in S : after(i, q) \in S
    OBVIOUS
  <1>3. "none" \in S
    OBVIOUS
  <1> HIDE DEF n, S, after
  <1>4. step \in [1..n -> [S -> S]]
    BY <1>2
  <1>5. \A i \in 1..n, q \in S : step[i][q] = after(i, q)
    OBVIOUS
  <1> HIDE DEF step
  <1>6. PICK f : Iterates(f, n, S, "none", step)
    BY <1>1, <1>3, <1>4, IterationExists
  <1> DEFINE body(g) == [i \in 0..n |-> IF i = 0 THEN "none"
                                        ELSE after(i, g[i - 1])]
             open == CHOOSE g : g = body(g)
  <1>7. f = body(f)
    <2>1. ASSUME NEW i \in 1..n
          PROVE  f[i] = after(i, f[i - 1])
      <3>1. f[i - 1] \in S
        BY <1>1, <1>6 DEF Iterates
      <3> QED
        BY <1>5, <1>6, <3>1 DEF Iterates
    <2>2. f[0] = "none" /\ f = [i \in 0..n |-> f[i]]
      BY <1>6 DEF Iterates
    <2>3. \A i \in 0..n : i # 0 => i \in 1..n
      BY <1>1
    <2>4. \A i \in 0..n : f[i] = IF i = 0 THEN "none" ELSE after(i, f[i - 1])
      BY <2>1, <2>2, <2>3
    <2> QED
      BY <2>2, <2>4, Zenon
  <1>8. open = body(open)
    BY <1>7
  <1>9. OpenQuote(text) = open
    BY DEF OpenQuote, n, after
  <1> HIDE DEF open
  <1>10. /\ open[0] = "none"
         /\ \A i \in 1..n : open[i] = after(i, open[i - 1])
    <2>1. 0 \in 0..n /\ \A i \in 1..n : i \in 0..n /\ i # 0
      BY <1>1
    <2> QED
      BY <1>8, <2>1
  <1>11. \A i \in 0..n : open[i] \in S
    <2> DEFINE U == {i \in 0..n : open[i] \in S}
    <2>1. 0 \in U
      BY <1>1, <1>3, <1>10
    <2>2. ASSUME NEW i \in 1..n, i - 1 \in U
          PROVE  i \in U
      <3>1. i \in 0..n /\ open[i - 1] \in S
        BY <1>1, <2>2
      <3> QED
        BY <1>2, <1>10, <3>1
    <2> HIDE DEF U
    <2>3. \A i \in 0..n : i \in U
      BY <1>1, <2>1, <2>2, IntervalInduction
    <2> QED
      BY <2>3 DEF U
  <1>12. QuotesOpen(open, text)
    BY <1>10, <1>11 DEF QuotesOpen, n, S, after
  <1> QED
    BY <1>9, <1>12, Zenon

(***************************************************************************)
(* The symbols of a text that are in a token, the periods that end a       *)
(* statement, and the former up to each symbol.                            *)
(***************************************************************************)
Words(text) == TokenSymbols(text, OpenQuote(text))
Periods(text) == Sentences(text, OpenQuote(text))
TextIndex(text) == [i \in DOMAIN text |-> i]
KeptIn(text) == CHOOSE k : Filters(k, TextIndex(text), 1..Len(text), Words(text))

(***************************************************************************)
(* One symbol more, and it is kept when it is in a token.                  *)
(***************************************************************************)
LEMMA KeptNext ==
    ASSUME NEW text \in Token
    PROVE  /\ Len(text) \in Nat /\ DOMAIN text = 1..Len(text)
           /\ text \in [1..Len(text) -> STRING]
           /\ KeptIn(text)[0] = <<>>
           /\ \A i \in 0..Len(text) : KeptIn(text)[i] \in Seq(1..Len(text))
           /\ \A i \in 1..Len(text) :
                 KeptIn(text)[i] = IF i \in Words(text)
                                   THEN Append(KeptIn(text)[i - 1], i)
                                   ELSE KeptIn(text)[i - 1]
           /\ Filter(TextIndex(text), Words(text)) = KeptIn(text)[Len(text)]
  <1> DEFINE n == Len(text)
             s == TextIndex(text)
             k == KeptIn(text)
  <1>1. n \in Nat /\ DOMAIN text = 1..n /\ text \in [1..n -> STRING]
    BY DEF Token
  <1>2. s \in Seq(1..n) /\ Len(s) = n /\ \A i \in 1..n : s[i] = i
    BY <1>1 DEF TextIndex
  <1>3. \E f : Filters(f, s, 1..n, Words(text))
    <2> HIDE DEF s
    <2> QED
      BY <1>2, FilterUnfold
  <1>4. Filters(k, s, 1..n, Words(text))
    BY <1>3, Zenon DEF KeptIn
  <1> HIDE DEF k, s, n
  <1>5. /\ \A i \in 0..n : k[i] \in Seq(1..n)
        /\ k[0] = <<>>
        /\ \A i \in 1..n : k[i] = IF i \in Words(text) THEN Append(k[i - 1], i)
                                  ELSE k[i - 1]
        /\ Filter(s, Words(text)) = k[n]
    BY <1>2, <1>4 DEF Filters
  <1> QED
    BY <1>1, <1>5 DEF k, s, n

(***************************************************************************)
(* As many symbols are kept as come before the next one.                   *)
(***************************************************************************)
LEMMA KeptCount ==
    ASSUME NEW text \in Token, NEW p \in 1..Len(text)
    PROVE  Cardinality({s \in Words(text) : s < p}) = Len(KeptIn(text)[p - 1])
  <1> DEFINE n == Len(text)
             k == KeptIn(text)
             before(i) == {s \in Words(text) : s <= i}
             U == {i \in 0..n : /\ IsFiniteSet(before(i))
                                /\ Cardinality(before(i)) = Len(k[i])}
  <1>1. /\ n \in Nat /\ k[0] = <<>>
        /\ \A i \in 0..n : k[i] \in Seq(1..n)
        /\ \A i \in 1..n : k[i] = IF i \in Words(text) THEN Append(k[i - 1], i)
                                  ELSE k[i - 1]
    BY KeptNext
  <1>2. \A s \in Words(text) : s \in 1..n
    BY KeptNext DEF Words, TokenSymbols
  <1> HIDE DEF n, k
  <1>3. 0 \in U
    <2>1. before(0) = {} /\ Len(k[0]) = 0
      BY <1>1, <1>2
    <2>2. IsFiniteSet(before(0)) /\ Cardinality(before(0)) = 0
      BY ONLY <2>1, FS_EmptySet
    <2>3. 0 \in 0..n
      BY <1>1
    <2> HIDE DEF before
    <2> QED
      BY <2>1, <2>2, <2>3
  <1>4. ASSUME NEW i \in 1..n, i - 1 \in U
        PROVE  i \in U
    <2>1. /\ i \in 0..n /\ k[i - 1] \in Seq(1..n) /\ i \in 1..n
          /\ IsFiniteSet(before(i - 1))
          /\ Cardinality(before(i - 1)) = Len(k[i - 1])
      BY <1>1, <1>4
    <2>2. CASE i \in Words(text)
      <3>1. before(i) = before(i - 1) \cup {i} /\ i \notin before(i - 1)
        <4>1. i \in Nat /\ ~(i <= i - 1)
          BY <1>1
        <4>2. \A s \in Words(text) : s <= i <=> s <= i - 1 \/ s = i
          BY <1>1, <1>2, <4>1
        <4>3. i <= i
          BY <4>1
        <4> QED
          BY <2>2, <4>1, <4>2, <4>3, Zenon
      <3>2. Len(k[i]) = Len(k[i - 1]) + 1
        <4>1. Len(Append(k[i - 1], i)) = Len(k[i - 1]) + 1
          BY <2>1, AppendHolds
        <4> QED
          BY <1>1, <2>2, <4>1
      <3> HIDE DEF before
      <3>3. /\ IsFiniteSet(before(i - 1) \cup {i})
            /\ Cardinality(before(i - 1) \cup {i}) = Cardinality(before(i - 1)) + 1
        BY <2>1, <3>1, FS_AddElement
      <3> QED
        BY <2>1, <3>1, <3>2, <3>3
    <2>3. CASE i \notin Words(text)
      <3>1. before(i) = before(i - 1)
        BY <1>2, <2>3
      <3>2. k[i] = k[i - 1]
        BY <1>1, <2>3
      <3> HIDE DEF before
      <3> QED
        BY <2>1, <3>1, <3>2
    <2> QED
      BY <2>2, <2>3
  <1> HIDE DEF U
  <1>5. \A i \in 0..n : i \in U
    BY <1>1, <1>3, <1>4, IntervalInduction
  <1>6. p - 1 \in U
    BY <1>1, <1>5 DEF n
  <1>7. before(p - 1) = {s \in Words(text) : s < p}
    BY <1>2
  <1> QED
    BY <1>6, <1>7 DEF U, k

-----------------------------------------------------------------------------
(***************************************************************************)
(* The state of the loop over the symbols holds the part of the text that  *)
(* is behind it: the quote is the one open there, the statements, the one  *)
(* begun and its last token are the symbols kept so far, and the statements*)
(* end where the sentences so far do.                                      *)
(***************************************************************************)
Joined(ended) == [n \in DOMAIN ended |-> FlattenSeq(ended[n])]
Bounds(texts) == {Len(FlattenSeq(SubSeq(texts, 1, n))) : n \in DOMAIN texts}
Cuts(text, p) ==
    {Len(KeptIn(text)[i - 1]) : i \in Periods(text) \cap 1..p} \ {0}

Written(s) ==
    (FlattenSeq(Joined(s.statements)) \o FlattenSeq(s.current)) \o s.token

Splits(s, text, p) ==
    /\ s.quote = OpenQuote(text)[p]
    /\ Written(s) = Images(text, KeptIn(text)[p])
    /\ Bounds(Joined(s.statements)) = Cuts(text, p)
    /\ s.current # <<>> => FlattenSeq(s.current) # <<>>

(***************************************************************************)
(* One statement more is joined.                                           *)
(***************************************************************************)
LEMMA JoinedGrows ==
    ASSUME NEW ended \in Seq(Seq(Token))
    PROVE  /\ Joined(ended) \in Seq(Token) /\ Len(Joined(ended)) = Len(ended)
           /\ \A x \in Seq(Token) :
                 Joined(Append(ended, x)) = Append(Joined(ended), FlattenSeq(x))
  <1>1. \A x \in Seq(Token) : FlattenSeq(x) \in Token
    <2>1. ASSUME NEW x \in Seq(Seq(STRING))
          PROVE  FlattenSeq(x) \in Seq(STRING)
      <3>1. <<>> \in Seq(STRING)
        OBVIOUS
      <3> QED
        BY <3>1, FlattenGrows
    <2> QED
      BY <2>1 DEF Token
  <1>2. /\ Len(ended) \in Nat /\ DOMAIN ended = 1..Len(ended)
        /\ \A i \in 1..Len(ended) : ended[i] \in Seq(Token)
    OBVIOUS
  <1>3. /\ Joined(ended) \in Seq(Token) /\ Len(Joined(ended)) = Len(ended)
        /\ \A i \in 1..Len(ended) : Joined(ended)[i] = FlattenSeq(ended[i])
    <2>1. Joined(ended) \in [1..Len(ended) -> Token]
      BY <1>1, <1>2 DEF Joined
    <2>2. Joined(ended) \in Seq(Token) /\ Len(Joined(ended)) = Len(ended)
      BY <1>2, <2>1, IntervalIsSeq
    <2> QED
      BY <1>2, <2>2 DEF Joined
  <1>4. ASSUME NEW x \in Seq(Token)
        PROVE  Joined(Append(ended, x)) = Append(Joined(ended), FlattenSeq(x))
    <2> DEFINE n == Len(ended)
               t == Append(ended, x)
               u == Append(Joined(ended), FlattenSeq(x))
    <2>1. /\ Len(t) = n + 1 /\ DOMAIN t = 1..(n + 1) /\ t[n + 1] = x
          /\ \A i \in 1..n : t[i] = ended[i]
      BY <1>2
    <2>2. FlattenSeq(x) \in Token
      BY <1>1
    <2>3. /\ u \in Seq(Token) /\ Len(u) = Len(Joined(ended)) + 1
          /\ \A i \in 1..Len(Joined(ended)) : u[i] = Joined(ended)[i]
          /\ u[Len(Joined(ended)) + 1] = FlattenSeq(x)
      BY <1>3, <2>2, AppendHolds
    <2> HIDE DEF t, u, n
    <2>4. Joined(t) = [i \in 1..(n + 1) |-> FlattenSeq(t[i])]
      BY <2>1 DEF Joined
    <2>5. u = [i \in 1..(n + 1) |-> u[i]]
      <3>1. Len(u) = n + 1
        BY <1>3, <2>3 DEF n
      <3> QED
        BY <2>3, <3>1
    <2>6. \A i \in 1..(n + 1) : u[i] = FlattenSeq(t[i])
      <3>1. ASSUME NEW i \in 1..(n + 1)
            PROVE  u[i] = FlattenSeq(t[i])
        <4>1. CASE i \in 1..n
          BY <1>3, <2>1, <2>3, <4>1 DEF n
        <4>2. CASE i = n + 1
          BY <1>3, <2>1, <2>3, <4>2 DEF n
        <4> QED
          BY <1>2, <4>1, <4>2 DEF n
      <3> QED
        BY <3>1
    <2>7. Joined(t) = u
      BY <2>4, <2>5, <2>6, Zenon
    <2> QED
      BY <2>7 DEF t, u
  <1> QED
    BY <1>3, <1>4

(***************************************************************************)
(* One more statement ends after all the symbols of it and of the ones     *)
(* before it.                                                              *)
(***************************************************************************)
LEMMA BoundsGrow ==
    ASSUME NEW texts \in Seq(Token)
    PROVE  /\ FlattenSeq(texts) \in Token
           /\ texts # <<>> => Len(FlattenSeq(texts)) \in Bounds(texts)
           /\ texts = <<>> => Bounds(texts) = {}
           /\ \A x \in Token :
                 /\ FlattenSeq(Append(texts, x)) = FlattenSeq(texts) \o x
                 /\ Bounds(Append(texts, x))
                       = Bounds(texts) \cup {Len(FlattenSeq(texts) \o x)}
  <1> DEFINE n == Len(texts)
  <1>1. /\ n \in Nat /\ DOMAIN texts = 1..n
        /\ SubSeq(texts, 1, n) = texts /\ <<>> \in Token
    BY DEF Token
  <1>2. \A x \in Token : /\ FlattenSeq(texts) \in Token
                         /\ FlattenSeq(Append(texts, x)) = FlattenSeq(texts) \o x
    <2>1. texts \in Seq(Seq(STRING))
      BY DEF Token
    <2> QED
      BY <2>1, FlattenGrows DEF Token
  <1>3. texts # <<>> => n \in 1..n
    BY <1>1
  <1>4. texts # <<>> => Len(FlattenSeq(texts)) \in Bounds(texts)
    BY <1>1, <1>3, Zenon DEF Bounds
  <1>5. texts = <<>> => Bounds(texts) = {}
    BY DEF Bounds
  <1>6. ASSUME NEW x \in Token
        PROVE  Bounds(Append(texts, x))
                  = Bounds(texts) \cup {Len(FlattenSeq(texts) \o x)}
    <2> DEFINE t == Append(texts, x)
    <2>1. /\ DOMAIN t = 1..(n + 1)
          /\ SubSeq(t, 1, n + 1) = t
          /\ \A i \in 1..n : SubSeq(t, 1, i) = SubSeq(texts, 1, i)
      <3>1. DOMAIN t = 1..(n + 1) /\ SubSeq(t, 1, n + 1) = t
        BY <1>1
      <3>2. ASSUME NEW i \in 1..n
            PROVE  SubSeq(t, 1, i) = SubSeq(texts, 1, i)
        BY <1>1
      <3> QED
        BY <3>1, <3>2
    <2> DEFINE w == FlattenSeq(texts) \o x
    <2>2. FlattenSeq(t) = w
      BY <1>2
    <2> HIDE DEF t, n, w
    <2>3. \A i \in 1..(n + 1) : i \in 1..n \/ i = n + 1
      BY <1>1
    <2>4. /\ n + 1 \in 1..(n + 1)
          /\ \A i \in 1..n : i \in 1..(n + 1)
      BY <1>1
    <2>5. Bounds(t) = {Len(FlattenSeq(SubSeq(t, 1, i))) : i \in 1..(n + 1)}
          /\ Bounds(texts) = {Len(FlattenSeq(SubSeq(texts, 1, i))) : i \in 1..n}
      BY <1>1, <2>1, Zenon DEF Bounds
    <2>6. Bounds(t) = Bounds(texts) \cup {Len(w)}
      BY <2>1, <2>2, <2>3, <2>4, <2>5
    <2> QED
      BY <2>6 DEF t, w
  <1> QED
    BY <1>1, <1>2, <1>4, <1>5, <1>6

(***************************************************************************)
(* One more symbol that ends a sentence, or does not.                      *)
(***************************************************************************)
LEMMA CutsGrow ==
    ASSUME NEW text \in Token, NEW p \in 1..Len(text)
    PROVE  Cuts(text, p) =
              IF p \in Periods(text)
              THEN Cuts(text, p - 1) \cup ({Len(KeptIn(text)[p - 1])} \ {0})
              ELSE Cuts(text, p - 1)
  <1> DEFINE cut(i) == Len(KeptIn(text)[i - 1])
             E == Periods(text)
  <1>1. p \in Nat /\ \A i : i \in 1..p <=> i \in 1..(p - 1) \/ i = p
    BY KeptNext
  <1>2. /\ Cuts(text, p) = {cut(i) : i \in E \cap 1..p} \ {0}
        /\ Cuts(text, p - 1) = {cut(i) : i \in E \cap 1..(p - 1)} \ {0}
    BY Zenon DEF Cuts
  <1> HIDE DEF E, cut
  <1>3. CASE p \in E
    BY <1>1, <1>2, <1>3, Zenon DEF E, cut
  <1>4. CASE p \notin E
    BY <1>1, <1>2, <1>4, Zenon DEF E, cut
  <1> QED
    BY <1>3, <1>4

(***************************************************************************)
(* What is written is a sequence of symbols, and the images of what is     *)
(* kept of the text.                                                       *)
(***************************************************************************)
LEMMA SplitParts ==
    ASSUME NEW s \in LexState
    PROVE  /\ Joined(s.statements) \in Seq(Token)
           /\ FlattenSeq(Joined(s.statements)) \in Seq(STRING)
           /\ FlattenSeq(s.current) \in Seq(STRING)
           /\ s.token \in Seq(STRING) /\ s.current \in Seq(Seq(STRING))
           /\ s.statements \in Seq(Seq(Token))
           /\ s.current = <<>> => FlattenSeq(s.current) = <<>>
  <1>1. /\ s.statements \in Seq(Seq(Token)) /\ s.current \in Seq(Seq(STRING))
        /\ s.token \in Seq(STRING)
    BY LexStateParts DEF Token
  <1>2. Joined(s.statements) \in Seq(Token)
    BY <1>1, JoinedGrows
  <1>3. FlattenSeq(Joined(s.statements)) \in Seq(STRING)
    BY <1>2, BoundsGrow DEF Token
  <1>4. FlattenSeq(s.current) \in Seq(STRING)
    <2>1. <<>> \in Seq(STRING)
      OBVIOUS
    <2> QED
      BY <1>1, <2>1, FlattenGrows
  <1> QED
    BY <1>1, <1>2, <1>3, <1>4, FlattenEmpty

(***************************************************************************)
(* A symbol of a token extends what is written, and what is kept.          *)
(***************************************************************************)
LEMMA ExtendSplits ==
    ASSUME NEW s \in LexState, NEW text \in Token, NEW p \in 1..Len(text),
           Splits(s, text, p - 1), p \in Words(text), p \notin Periods(text)
    PROVE  Splits([statements |-> s.statements, current |-> s.current,
                   token |-> Append(s.token, text[p]),
                   quote |-> OpenQuote(text)[p]], text, p)
  <1> DEFINE t == [statements |-> s.statements, current |-> s.current,
                   token |-> Append(s.token, text[p]),
                   quote |-> OpenQuote(text)[p]]
             front == FlattenSeq(Joined(s.statements)) \o FlattenSeq(s.current)
             k == KeptIn(text)
             c == text[p]
             n == Len(text)
  <1>1. /\ front \in Seq(STRING) /\ s.token \in Seq(STRING)
        /\ t.statements = s.statements /\ t.current = s.current
        /\ t.token = Append(s.token, c) /\ t.quote = OpenQuote(text)[p]
    <2>1. FlattenSeq(Joined(s.statements)) \in Seq(STRING)
          /\ FlattenSeq(s.current) \in Seq(STRING) /\ s.token \in Seq(STRING)
      BY SplitParts
    <2> QED
      BY <2>1, ConcatProperties
  <1>2. /\ n \in Nat /\ text \in [1..n -> STRING] /\ c \in STRING /\ p \in 1..n
        /\ k[p - 1] \in Seq(1..n) /\ k[p] = Append(k[p - 1], p)
    <2>1. p - 1 \in 0..n
      BY KeptNext
    <2> QED
      BY <2>1, KeptNext
  <1>3. /\ Written(s) = front \o s.token
        /\ Written(t) = front \o Append(s.token, c)
    <2> HIDE DEF t, c
    <2> QED
      BY <1>1, Zenon DEF Written, front
  <1>4. front \o Append(s.token, c) = Append(front \o s.token, c)
    <2> HIDE DEF front, c
    <2> DEFINE a == s.token
               R == STRING
    <2>1. a \in Seq(R)
      BY <1>1
    <2>2. front \in Seq(R) /\ c \in R
      BY <1>1, <1>2
    <2> HIDE DEF a, R
    <2>3. AppendsInside(front, a, c)
      BY ONLY <2>1, <2>2, AppendJoins
    <2>4. Append(front \o a, c) = front \o Append(a, c)
      BY <2>3, Zenon DEF AppendsInside
    <2> QED
      BY <2>4 DEF a
  <1>5. Images(text, k[p]) = Append(Images(text, k[p - 1]), c)
    <2> HIDE DEF k, n
    <2> DEFINE u == k[p - 1]
               D == 1..n
               R == STRING
    <2>1. u \in Seq(D) /\ k[p] = Append(u, p)
      BY <1>2
    <2>2. text \in [D -> R] /\ p \in D
      BY <1>2
    <2> HIDE DEF u, D, R
    <2>3. Images(text, u) \in Seq(R)
      BY ONLY <2>1, <2>2, ImagesGrow
    <2>4. Images(text, Append(u, p)) = Append(Images(text, u), text[p])
      BY ONLY <2>1, <2>2, <2>3, ImagesGrow
    <2> QED
      BY <2>1, <2>4 DEF u
  <1>6. Written(t) = Images(text, k[p])
    BY <1>3, <1>4, <1>5, Zenon DEF Splits
  <1>7. Bounds(Joined(t.statements)) = Cuts(text, p)
    BY <1>1, CutsGrow DEF Splits
  <1>8. t.current # <<>> => FlattenSeq(t.current) # <<>>
    BY <1>1 DEF Splits
  <1> HIDE DEF t
  <1>9. Splits(t, text, p)
    BY <1>1, <1>6, <1>7, <1>8 DEF Splits
  <1> QED
    BY <1>9 DEF t

(***************************************************************************)
(* A token ended belongs to the statement begun.                           *)
(***************************************************************************)
LEMMA TokenSplits ==
    ASSUME NEW s \in LexState, NEW text \in Token, NEW p, Splits(s, text, p)
    PROVE  Splits(EndToken(s), text, p)
  <1> DEFINE t == EndToken(s)
             a == FlattenSeq(Joined(s.statements))
             b == FlattenSeq(s.current)
             c == s.token
  <1>1. /\ t.statements = s.statements /\ t.quote = s.quote /\ t.token = <<>>
        /\ t.current = IF c = <<>> THEN s.current ELSE Append(s.current, c)
    <2> HIDE DEF t, c
    <2>1. t = [statements |-> s.statements,
               current |-> IF c = <<>> THEN s.current ELSE Append(s.current, c),
               token |-> <<>>, quote |-> s.quote]
      BY EndTokenIs, Zenon DEF t, c
    <2> QED
      BY <2>1
  <1>2. /\ a \in Seq(STRING) /\ b \in Seq(STRING) /\ c \in Seq(STRING)
        /\ s.current \in Seq(Seq(STRING))
    BY SplitParts
  <1> HIDE DEF t, a, b, c
  <1>3. Written(s) = (a \o b) \o c
    BY DEF Written, a, b, c
  <1>4. CASE c = <<>>
    <2>1. t.current = s.current
      BY <1>1, <1>4
    <2>2. Written(t) = (a \o b) \o <<>>
      BY <1>1, <2>1, Zenon DEF Written, a, b
    <2>3. Written(t) = Written(s)
      BY <1>3, <1>4, <2>2, Zenon
    <2>4. Splits(t, text, p)
      BY <1>1, <2>1, <2>3, Zenon DEF Splits
    <2> QED
      BY <2>4 DEF t
  <1>5. CASE c # <<>>
    <2>1. t.current = Append(s.current, c)
      BY <1>1, <1>5
    <2>2. FlattenSeq(t.current) = b \o c
      BY <1>2, <2>1, FlattenGrows DEF b
    <2>3. /\ b \o c # <<>> /\ b \o c \in Seq(STRING)
          /\ (a \o b) \o c = (a \o (b \o c)) \o <<>>
      <3>1. b \o c \in Seq(STRING) /\ Len(b \o c) = Len(b) + Len(c)
            /\ Len(b) \in Nat /\ Len(c) \in Nat
        BY <1>2, JoinHolds
      <3>2. Len(c) # 0
        BY <1>2, <1>5
      <3>3. b \o c # <<>>
        BY <3>1, <3>2
      <3>4. (a \o b) \o c = a \o (b \o c)
        <4>1. Associates(STRING)
          BY JoinsAssociate, Zenon
        <4> QED
          BY <1>2, <4>1, Zenon DEF Associates
      <3> DEFINE w == b \o c
      <3>5. w \in Seq(STRING)
        BY <3>1
      <3> HIDE DEF w
      <3>6. a \o w \in Seq(STRING)
        BY <1>2, <3>5, JoinHolds
      <3>7. (a \o w) \o <<>> = a \o w
        BY <3>6
      <3> QED
        BY <3>1, <3>3, <3>4, <3>7 DEF w
    <2>4. Written(t) = (a \o (b \o c)) \o <<>>
      BY <1>1, <2>2, Zenon DEF Written, a
    <2>5. Written(t) = Written(s)
      BY <1>3, <2>3, <2>4, Zenon
    <2>6. Splits(t, text, p)
      BY <1>1, <2>2, <2>3, <2>5, Zenon DEF Splits
    <2> QED
      BY <2>6 DEF t
  <1> QED
    BY <1>4, <1>5

(***************************************************************************)
(* A blank between tokens is not kept and ends no sentence.                *)
(***************************************************************************)
LEMMA GapSplits ==
    ASSUME NEW s, NEW text \in Token, NEW p \in 1..Len(text),
           Splits(s, text, p - 1),
           p \notin Words(text), p \notin Periods(text),
           OpenQuote(text)[p] = OpenQuote(text)[p - 1]
    PROVE  Splits(s, text, p)
  <1>1. KeptIn(text)[p] = KeptIn(text)[p - 1]
    BY KeptNext
  <1>2. Cuts(text, p) = Cuts(text, p - 1)
    BY CutsGrow
  <1> QED
    BY <1>1, <1>2, Zenon DEF Splits

(***************************************************************************)
(* A sentence ended is a statement ended, if there is one.                 *)
(***************************************************************************)
LEMMA SentenceSplits ==
    ASSUME NEW s \in LexState, NEW text \in Token, NEW p \in 1..Len(text),
           Splits(s, text, p - 1), s.token = <<>>,
           p \notin Words(text), p \in Periods(text),
           OpenQuote(text)[p] = OpenQuote(text)[p - 1]
    PROVE  Splits(EndStatement(s), text, p)
  <1> DEFINE t == EndStatement(s)
             texts == Joined(s.statements)
             a == FlattenSeq(texts)
             b == FlattenSeq(s.current)
             l == Len(KeptIn(text)[p - 1])
             k == KeptIn(text)
  <1>1. /\ t.quote = s.quote /\ t.token = <<>> /\ t.current = <<>>
        /\ t.statements = IF s.current = <<>> THEN s.statements
                          ELSE Append(s.statements, s.current)
    <2> HIDE DEF t
    <2>1. t = [statements |-> IF s.current = <<>> THEN s.statements
                              ELSE Append(s.statements, s.current),
               current |-> <<>>, token |-> s.token, quote |-> s.quote]
      BY EndStatementIs, Zenon DEF t
    <2> QED
      BY <2>1
  <1>2. /\ texts \in Seq(Token) /\ a \in Seq(STRING) /\ b \in Seq(STRING)
        /\ a \o b \in Seq(STRING) /\ Len(a \o b) = Len(a) + Len(b)
        /\ Len(a) \in Nat /\ Len(b) \in Nat
        /\ s.current \in Seq(Token) /\ s.statements \in Seq(Seq(Token))
    <2>1. /\ texts \in Seq(Token) /\ a \in Seq(STRING) /\ b \in Seq(STRING)
          /\ s.current \in Seq(Token) /\ s.statements \in Seq(Seq(Token))
      BY SplitParts DEF Token
    <2> HIDE DEF a, b
    <2> QED
      BY <2>1, JoinHolds
  <1>3. (a \o b) \o <<>> = a \o b /\ b \o <<>> = b /\ a \o <<>> = a
    <2> DEFINE w == a \o b
    <2>1. w \in Seq(STRING)
      BY <1>2
    <2> HIDE DEF a, b, w
    <2>2. w \o <<>> = w
      BY <2>1
    <2>3. b \o <<>> = b /\ a \o <<>> = a
      BY <1>2
    <2> QED
      BY <2>2, <2>3 DEF w
  <1>4. a \o b = Images(text, k[p - 1])
    BY <1>3, Zenon DEF Splits, Written
  <1>5. Len(a \o b) = l /\ k[p] = k[p - 1]
    <2>1. p - 1 \in 0..Len(text) /\ text \in [1..Len(text) -> STRING]
      BY KeptNext
    <2>2. k[p - 1] \in Seq(1..Len(text)) /\ k[p] = k[p - 1]
      BY <2>1, KeptNext
    <2> DEFINE D == 1..Len(text)
               R == STRING
               u == k[p - 1]
    <2>3. u \in Seq(D) /\ text \in [D -> R]
      BY <2>1, <2>2
    <2> HIDE DEF D, R, u, k
    <2>4. Len(Images(text, u)) = Len(u)
      BY DEF Images
    <2> QED
      BY <1>4, <2>2, <2>4, Zenon DEF u, k
  <1>6. FlattenSeq(t.current) = <<>>
    BY <1>1, FlattenEmpty
  <1> HIDE DEF t, texts, a, b, l, k
  <1>7. CASE s.current = <<>>
    <2>1. b = <<>> /\ t.statements = s.statements
      BY <1>1, <1>7, FlattenEmpty DEF b
    <2>2. l = Len(a)
      BY <1>2, <1>5, <2>1
    <2>3. {l} \ {0} \subseteq Cuts(text, p - 1)
      <3>1. Bounds(texts) = Cuts(text, p - 1)
        BY DEF Splits, texts
      <3>2. texts # <<>> => l \in Bounds(texts)
        BY <1>2, <2>2, BoundsGrow DEF a
      <3>3. texts = <<>> => l = 0
        BY <2>2, FlattenEmpty DEF a
      <3> QED
        BY <3>1, <3>2, <3>3
    <2>4. Cuts(text, p) = Cuts(text, p - 1)
      BY <2>3, CutsGrow DEF l, k
    <2>5. Bounds(Joined(t.statements)) = Cuts(text, p)
      BY <2>1, <2>4, Zenon DEF Splits
    <2>6. Written(t) = (a \o <<>>) \o <<>>
      BY <1>1, <1>6, <2>1, Zenon DEF Written, a, texts
    <2>7. Written(t) = Images(text, k[p])
      BY <1>3, <1>4, <1>5, <2>1, <2>6, Zenon
    <2> QED
      BY <1>1, <1>6, <2>5, <2>7, Zenon DEF Splits, k, t
  <1>8. CASE s.current # <<>>
    <2>1. t.statements = Append(s.statements, s.current)
      BY <1>1, <1>8
    <2>2. Joined(t.statements) = Append(texts, b)
      BY <1>2, <2>1, JoinedGrows DEF texts, b
    <2>3. b \in Token /\ b # <<>>
      BY <1>2, <1>8 DEF Token, Splits, b
    <2>4. /\ FlattenSeq(Append(texts, b)) = a \o b
          /\ Bounds(Append(texts, b)) = Bounds(texts) \cup {Len(a \o b)}
      BY <1>2, <2>3, BoundsGrow DEF a
    <2>5. l # 0
      <3>1. Len(b) # 0
        BY <1>2, <2>3
      <3> QED
        BY <1>2, <1>5, <3>1
    <2>6. Cuts(text, p) = Cuts(text, p - 1) \cup {l}
      BY <2>5, CutsGrow DEF l, k
    <2>7. Bounds(Joined(t.statements)) = Cuts(text, p)
      BY <1>5, <2>2, <2>4, <2>6, Zenon DEF Splits, texts
    <2>8. Written(t) = ((a \o b) \o <<>>) \o <<>>
      BY <1>1, <1>6, <2>2, <2>4, Zenon DEF Written
    <2>9. Written(t) = Images(text, k[p])
      BY <1>3, <1>4, <1>5, <2>8, Zenon
    <2> QED
      BY <1>1, <1>6, <2>7, <2>9, Zenon DEF Splits, k, t
  <1> QED
    BY <1>7, <1>8

(***************************************************************************)
(* A symbol of the text is one of the code of a line, and so is the next   *)
(* one, or it is the blank that ends the line.                             *)
(***************************************************************************)
SymbolAt(text, p, code, i) ==
    /\ text[p] = code[i]
    /\ text[p + 1] = IF i = Len(code) THEN " " ELSE code[i + 1]

(***************************************************************************)
(* Any symbol of the text that the loop reads (the match in `statements`). *)
(***************************************************************************)
LEMMA SymbolSplits ==
    ASSUME NEW s \in LexState, NEW code \in Token, NEW i \in 1..Len(code),
           NEW text \in Token, NEW p \in 1..Len(text),
           SymbolAt(text, p, code, i), Splits(s, text, p - 1)
    PROVE  Splits(LexSymbol(code, s, i), text, p)
  <1> DEFINE c == code[i]
             open == OpenQuote(text)
             q == IF c = s.quote THEN "none" ELSE s.quote
  <1>1. /\ c \in STRING /\ s.quote = open[p - 1] /\ text[p] = c
        /\ s.quote \in {"none"} \cup Quotes
        /\ p - 1 \in 0..Len(text)
    <2>1. c \in STRING
      BY DEF Token
    <2>2. s.quote = open[p - 1] /\ text[p] = c
      BY DEF Splits, SymbolAt
    <2>3. Len(text) \in Nat
      BY KeptNext
    <2> HIDE DEF c, open
    <2>4. s.quote \in {"none"} \cup Quotes
      BY LexStateParts
    <2>5. p - 1 \in 0..Len(text)
      BY <2>3
    <2> QED
      BY <2>1, <2>2, <2>4, <2>5, Zenon DEF c
  <1>2. open[p] = IF s.quote = "none" THEN IF c \in Quotes THEN c ELSE "none"
                  ELSE IF s.quote = c THEN "none" ELSE s.quote
    <2>1. QuotesOpen(open, text)
      BY OpenUnfold
    <2> HIDE DEF open
    <2> QED
      BY <1>1, <2>1 DEF QuotesOpen
  <1>3. /\ p \in Periods(text) <=> s.quote = "none" /\ EndsSentence(code, i)
        /\ p \in Words(text) <=> \/ s.quote # "none"
                                 \/ c # " " /\ p \notin Periods(text)
    <2>1. p \in DOMAIN text
      BY KeptNext
    <2>2. /\ p \in Periods(text) <=> /\ open[p - 1] = "none"
                                  /\ text[p] = "." /\ text[p + 1] = " "
          /\ p \in Words(text) <=> \/ open[p - 1] # "none"
                                   \/ text[p] # " " /\ p \notin Periods(text)
      BY <2>1, Zenon DEF Periods, Words, Sentences, TokenSymbols
    <2>3. EndsSentence(code, i) <=> c = "." /\ text[p + 1] = " "
      BY Zenon DEF EndsSentence, SymbolAt
    <2> QED
      BY <1>1, <2>2, <2>3, Zenon
  <1> HIDE DEF c, open
  <1>4. CASE s.quote # "none"
    <2>1. LexSymbol(code, s, i) = [Extend(s, c) EXCEPT !.quote = q]
      BY <1>4 DEF LexSymbol, c
    <2>2. q \in {"none"} \cup Quotes
      BY <1>1
    <2> HIDE DEF q
    <2>3. [Extend(s, c) EXCEPT !.quote = q] =
             [statements |-> s.statements, current |-> s.current,
              token |-> Append(s.token, c), quote |-> q]
      BY <1>1, <2>2, ExtendIs
    <2>4. q = open[p] /\ p \in Words(text) /\ p \notin Periods(text)
      BY <1>2, <1>3, <1>4 DEF q
    <2>5. Splits([statements |-> s.statements, current |-> s.current,
                  token |-> Append(s.token, text[p]),
                  quote |-> OpenQuote(text)[p]], text, p)
      BY <2>4, ExtendSplits
    <2> QED
      BY <1>1, <2>1, <2>3, <2>4, <2>5, Zenon DEF open
  <1>5. CASE s.quote = "none" /\ c \in Quotes
    <2>1. LexSymbol(code, s, i) = [Extend(s, c) EXCEPT !.quote = c]
      BY <1>5 DEF LexSymbol, c
    <2>2. c \in {"none"} \cup Quotes
      BY <1>5
    <2>3. [Extend(s, c) EXCEPT !.quote = c] =
             [statements |-> s.statements, current |-> s.current,
              token |-> Append(s.token, c), quote |-> c]
      BY <1>1, <2>2, ExtendIs
    <2>4. c = open[p] /\ p \in Words(text) /\ p \notin Periods(text)
      BY <1>2, <1>3, <1>5 DEF Quotes, EndsSentence, c
    <2>5. Splits([statements |-> s.statements, current |-> s.current,
                  token |-> Append(s.token, text[p]),
                  quote |-> OpenQuote(text)[p]], text, p)
      BY <2>4, ExtendSplits
    <2> QED
      BY <1>1, <2>1, <2>3, <2>4, <2>5, Zenon DEF open
  <1>6. CASE s.quote = "none" /\ EndsSentence(code, i)
    <2>1. c \notin Quotes /\ c # " "
      BY <1>6 DEF Quotes, EndsSentence, c
    <2>2. LexSymbol(code, s, i) = EndStatement(EndToken(s))
      BY <1>6, <2>1 DEF LexSymbol, c
    <2>3. /\ p \in Periods(text) /\ p \notin Words(text)
          /\ open[p] = open[p - 1]
      BY <1>1, <1>2, <1>3, <1>6, <2>1
    <2> DEFINE w == IF s.token = <<>> THEN s.current
                    ELSE Append(s.current, s.token)
    <2>4. /\ EndToken(s) \in LexState
          /\ EndToken(s) = [statements |-> s.statements, current |-> w,
                            token |-> <<>>, quote |-> s.quote]
      BY EndTokenIs
    <2> HIDE DEF w
    <2>5. EndToken(s).token = <<>>
      <3> DEFINE t == EndToken(s)
      <3>1. t = [statements |-> s.statements, current |-> w,
                 token |-> <<>>, quote |-> s.quote]
        BY <2>4
      <3> HIDE DEF t
      <3>2. t.token = <<>>
        BY <3>1
      <3> QED
        BY <3>2 DEF t
    <2>6. Splits(EndToken(s), text, p - 1)
      BY TokenSplits
    <2> QED
      BY <2>2, <2>3, <2>4, <2>5, <2>6, SentenceSplits DEF open
  <1>7. CASE s.quote = "none" /\ ~EndsSentence(code, i) /\ c = " "
    <2>1. c \notin Quotes
      BY <1>7 DEF Quotes
    <2>2. LexSymbol(code, s, i) = EndToken(s)
      BY <1>7, <2>1 DEF LexSymbol, c
    <2>3. /\ p \notin Periods(text) /\ p \notin Words(text)
          /\ open[p] = open[p - 1]
      BY <1>1, <1>2, <1>3, <1>7, <2>1
    <2>4. Splits(EndToken(s), text, p - 1)
      BY TokenSplits
    <2>5. Splits(EndToken(s), text, p)
      BY <2>3, <2>4, GapSplits DEF open
    <2> QED
      BY <2>2, <2>5
  <1>8. CASE /\ s.quote = "none" /\ c \notin Quotes
             /\ ~EndsSentence(code, i) /\ c # " "
    <2>1. LexSymbol(code, s, i) = Extend(s, c)
      BY <1>8 DEF LexSymbol, c
    <2>2. Extend(s, c) =
             [statements |-> s.statements, current |-> s.current,
              token |-> Append(s.token, c), quote |-> s.quote]
      BY <1>1, ExtendIs
    <2>3. s.quote = open[p] /\ p \in Words(text) /\ p \notin Periods(text)
      BY <1>2, <1>3, <1>8
    <2>4. Splits([statements |-> s.statements, current |-> s.current,
                  token |-> Append(s.token, text[p]),
                  quote |-> OpenQuote(text)[p]], text, p)
      BY <2>3, ExtendSplits
    <2> QED
      BY <1>1, <2>1, <2>2, <2>3, <2>4, Zenon DEF open
  <1> QED
    BY <1>4, <1>5, <1>6, <1>7, <1>8

(***************************************************************************)
(* The code of a line, and the blank that ends it, as a piece of the text. *)
(***************************************************************************)
PieceAt(text, b, code) ==
    /\ b + Len(code) + 1 <= Len(text)
    /\ \A i \in 1..Len(code) : text[b + i] = code[i]
    /\ text[b + Len(code) + 1] = " "

(***************************************************************************)
(* A line read to its end, and the blank after it.                         *)
(***************************************************************************)
LEMMA LineSplits ==
    ASSUME NEW code \in Token, NEW text \in Token, NEW b \in Nat,
           statements \in Seq(Seq(Token)), current \in Seq(Token),
           PieceAt(text, b, code),
           Splits(LineStart, text, b), Lex(code).quote = "none"
    PROVE  Splits(Lex(code), text, b + Len(code) + 1)
  <1> DEFINE n == Len(code)
  <1>1. n \in Nat /\ Len(text) \in Nat /\ b + n + 1 <= Len(text)
    <2>1. n \in Nat /\ Len(text) \in Nat
      BY DEF Token
    <2> QED
      BY <2>1, Zenon DEF PieceAt
  <1> HIDE DEF n
  <1>2. PICK f : Lexes(f, code)
    BY LexUnfold
  <1>3. /\ f[0] = LineStart /\ Lex(code) = EndToken(f[n])
        /\ \A i \in 0..n : f[i] \in LexState
        /\ \A i \in 1..n : f[i] = LexSymbol(code, f[i - 1], i)
    BY <1>2 DEF Lexes, n
  <1> DEFINE U == {i \in 0..n : Splits(f[i], text, b + i)}
  <1>4. 0 \in U
    <2>1. 0 \in 0..n /\ b + 0 = b
      BY <1>1
    <2> QED
      BY <1>3, <2>1
  <1>5. ASSUME NEW i \in 1..n, i - 1 \in U
        PROVE  i \in U
    <2> DEFINE p == b + i
               s == f[i - 1]
    <2>1. /\ p \in 1..Len(text) /\ p - 1 = b + (i - 1) /\ i \in 0..n
          /\ p + 1 = b + (i + 1) /\ i - 1 \in 0..n
      BY <1>1
    <2>0. i \in 1..Len(code)
      BY DEF n
    <2>2. s \in LexState /\ Splits(s, text, p - 1)
      BY <1>3, <1>5, <2>1
    <2>3. text[p] = code[i]
      BY <2>0, Zenon DEF PieceAt
    <2>4. text[p + 1] = IF i = n THEN " " ELSE code[i + 1]
      <3>1. CASE i = n
        <4>1. p + 1 = b + n + 1
          BY <1>1, <3>1
        <4>2. text[b + n + 1] = " "
          BY Zenon DEF PieceAt, n
        <4> QED
          BY <3>1, <4>1, <4>2, Zenon
      <3>2. CASE i # n
        <4>1. i + 1 \in 1..n
          BY <1>1, <3>2
        <4>2. text[b + (i + 1)] = code[i + 1]
          BY <4>1, Zenon DEF PieceAt, n
        <4> HIDE DEF p
        <4> QED
          BY <2>1, <3>2, <4>2, Zenon
      <3> QED
        BY <3>1, <3>2
    <2>6. SymbolAt(text, p, code, i)
      BY <2>3, <2>4, Zenon DEF SymbolAt, n
    <2> HIDE DEF s, p
    <2>5. Splits(LexSymbol(code, s, i), text, p)
      BY <2>0, <2>1, <2>2, <2>6, SymbolSplits
    <2> QED
      BY <1>3, <2>1, <2>5 DEF s, p
  <1> HIDE DEF U
  <1>6. \A i \in 0..n : i \in U
    BY <1>1, <1>4, <1>5, IntervalInduction
  <1>7. n \in 0..n /\ Splits(f[n], text, b + n)
    <2>1. n \in 0..n
      BY <1>1
    <2> QED
      BY <1>6, <2>1 DEF U
  <1> DEFINE p == b + n + 1
             open == OpenQuote(text)
             s == EndToken(f[n])
  <1>8. p \in 1..Len(text) /\ p - 1 = b + n /\ text[p] = " "
    <2>1. p \in 1..Len(text) /\ p - 1 = b + n
      BY <1>1
    <2>2. text[p] = " "
      BY Zenon DEF PieceAt, n
    <2> QED
      BY <2>1, <2>2
  <1> HIDE DEF p
  <1>9. Splits(s, text, p - 1)
    BY <1>3, <1>7, <1>8, TokenSplits
  <1>10. s.quote = "none" /\ open[p - 1] = "none"
    BY <1>3, <1>9 DEF Splits
  <1> HIDE DEF s, open
  <1>11. open[p] = open[p - 1]
    <2>1. QuotesOpen(open, text)
      BY OpenUnfold DEF open
    <2> QED
      BY <1>8, <1>10, <2>1 DEF QuotesOpen, Quotes
  <1>12. p \notin Periods(text) /\ p \notin Words(text)
    BY <1>8, <1>10, Zenon DEF Periods, Words, Sentences, TokenSymbols, open
  <1>13. Splits(s, text, p)
    BY <1>8, <1>9, <1>11, <1>12, GapSplits DEF open
  <1> QED
    BY <1>3, <1>13 DEF s, p, n

-----------------------------------------------------------------------------
(***************************************************************************)
(* The lines of a source as pieces of its text, and the pieces joined up   *)
(* to each of them.                                                        *)
(***************************************************************************)
Pieces(lines) == [l \in DOMAIN lines |-> Code(lines[l]) \o <<" ">>]
UpTo(lines) == CHOOSE f : Flattens(f, Pieces(lines), STRING)
Behind(lines, l) == Len(UpTo(lines)[l])

(***************************************************************************)
(* The code of each line is where the ones before it end.                  *)
(***************************************************************************)
LEMMA TextPlaces ==
    ASSUME NEW lines \in Source
    PROVE  LET text == FlattenSeq(Pieces(lines))
           IN  /\ text \in Token /\ Len(lines) \in Nat
               /\ Behind(lines, 0) = 0
               /\ Behind(lines, Len(lines)) = Len(text)
               /\ \A l \in 1..Len(lines) :
                     /\ Code(lines[l]) \in Token
                     /\ Behind(lines, l - 1) \in Nat
                     /\ Behind(lines, l)
                           = Behind(lines, l - 1) + Len(Code(lines[l])) + 1
                     /\ PieceAt(text, Behind(lines, l - 1), Code(lines[l]))
  <1> DEFINE n == Len(lines)
             seqs == Pieces(lines)
             text == FlattenSeq(seqs)
             f == UpTo(lines)
  <1>1. /\ n \in Nat /\ DOMAIN lines = 1..n
        /\ \A l \in 1..n : Code(lines[l]) \in Seq(STRING)
    <2>1. /\ n \in Nat /\ DOMAIN lines = 1..n
          /\ \A l \in 1..n : lines[l] \in Token
      BY DEF Source, Token
    <2> HIDE DEF n
    <2> QED
      BY <2>1, CodeTyped DEF Token
  <1>2. " " \in STRING
    BY BlankAssumption
  <1> DEFINE blank == <<" ">>
             piece(l) == Code(lines[l]) \o blank
  <1>3. \A l \in 1..n : piece(l) \in Seq(STRING)
    <2> DEFINE R == STRING
               x == " "
    <2>1. (\A l \in 1..n : Code(lines[l]) \in Seq(R)) /\ x \in R
      BY <1>1, <1>2
    <2> HIDE DEF n, R, x
    <2>2. \A l \in 1..n : Code(lines[l]) \o <<x>> \in Seq(R)
      BY <2>1, JoinOne
    <2> QED
      BY <2>2 DEF R, x
  <1>4. /\ seqs \in Seq(Seq(STRING)) /\ Len(seqs) = n
        /\ \A l \in 1..n : seqs[l] = piece(l)
    <2>1. seqs = [l \in 1..n |-> piece(l)]
      BY <1>1, Zenon DEF Pieces
    <2> HIDE DEF seqs, piece, n
    <2>2. seqs \in [1..n -> Seq(STRING)]
      BY <1>3, <2>1
    <2>3. \A l \in 1..n : seqs[l] = piece(l)
      BY <2>1
    <2> QED
      BY <1>1, <2>2, <2>3, IntervalIsSeq
  <1> HIDE DEF n, seqs
  <1>5. Flattens(f, seqs, STRING)
    <2>1. \E g : Flattens(g, seqs, STRING)
      BY <1>4, FlattenUnfold
    <2> QED
      BY <2>1, Zenon DEF UpTo, seqs
  <1>6. text \in Token
    <2>1. <<>> \in Seq(STRING)
      OBVIOUS
    <2> QED
      BY <1>4, <2>1, FlattenGrows DEF Token
  <1> DEFINE L == [l \in 0..n |-> Len(f[l])]
  <1> HIDE DEF f
  <1>7. /\ f[0] = <<>> /\ Len(f[n]) = Len(text)
        /\ \A l \in 1..n :
              /\ Len(f[l - 1]) \in Nat /\ Len(f[l]) \in Nat
              /\ Len(f[l]) = Len(f[l - 1]) + Len(seqs[l])
              /\ Len(f[l]) <= Len(text)
              /\ \A j \in 1..Len(seqs[l]) :
                    text[Len(f[l - 1]) + j] = seqs[l][j]
    <2> DEFINE R == STRING
    <2>1. seqs \in Seq(Seq(R)) /\ Flattens(f, seqs, R)
      BY <1>4, <1>5
    <2> HIDE DEF text, R
    <2>2. PiecesLie(f, seqs)
      BY ONLY <2>1, FlattenPlaces
    <2> QED
      BY <1>4, <2>2, Zenon DEF text, PiecesLie
  <1> HIDE DEF text, blank
  <1>8. ASSUME NEW l \in 1..n
        PROVE  /\ Len(f[l]) = Len(f[l - 1]) + Len(Code(lines[l])) + 1
               /\ PieceAt(text, Len(f[l - 1]), Code(lines[l]))
    <2> DEFINE code == Code(lines[l])
               b == Len(f[l - 1])
               m == Len(code)
    <2>1. /\ Len(piece(l)) = m + 1 /\ m \in Nat
          /\ \A i \in 1..m : piece(l)[i] = code[i]
          /\ piece(l)[m + 1] = " "
      <3> DEFINE R == STRING
                 x == " "
                 w == code \o <<x>>
      <3>1. code \in Seq(R) /\ x \in R
        BY <1>1, <1>2
      <3> HIDE DEF code, R, x, m, piece
      <3>2. /\ Len(w) = Len(code) + 1 /\ Len(code) \in Nat
            /\ \A i \in 1..Len(code) : w[i] = code[i]
            /\ w[Len(code) + 1] = x
        BY ONLY <3>1, JoinOne
      <3>3. piece(l) = w
        BY Zenon DEF code, piece, blank, x
      <3> HIDE DEF w
      <3>4. /\ Len(w) = m + 1 /\ m \in Nat
            /\ \A i \in 1..m : w[i] = code[i]
            /\ w[m + 1] = x
        BY <3>2 DEF m
      <3> QED
        BY <3>3, <3>4, Zenon DEF x
    <2> DEFINE w == piece(l)
    <2>2. b \in Nat /\ Len(f[l]) = b + Len(w) /\ Len(f[l]) <= Len(text)
      BY <1>4, <1>7
    <2>3. \A j \in 1..Len(w) : text[b + j] = w[j]
      BY <1>4, <1>7
    <2>4. Len(w) = m + 1 /\ m \in Nat
      BY <2>1
    <2>5. w[m + 1] = " " /\ \A i \in 1..m : w[i] = code[i]
      BY <2>1
    <2> HIDE DEF code, b, m, w
    <2>6. /\ Len(f[l]) = b + m + 1 /\ b + m + 1 <= Len(text)
          /\ m + 1 \in 1..Len(w) /\ b + (m + 1) = b + m + 1
          /\ \A i \in 1..m : i \in 1..Len(w)
      BY <2>2, <2>4
    <2>7. \A i \in 1..m : text[b + i] = code[i]
      BY <2>3, <2>5, <2>6, Zenon
    <2>8. text[b + m + 1] = " "
      BY <2>3, <2>5, <2>6, Zenon
    <2> QED
      BY <2>6, <2>7, <2>8, Zenon DEF PieceAt, code, b, m
  <1>9. \A l : Behind(lines, l) = Len(f[l])
    BY Zenon DEF Behind, f
  <1>10. Behind(lines, 0) = 0 /\ Behind(lines, n) = Len(text)
    BY <1>7, <1>9
  <1>11. \A l \in 1..n :
            /\ Code(lines[l]) \in Token
            /\ Behind(lines, l - 1) \in Nat
            /\ Behind(lines, l)
                  = Behind(lines, l - 1) + Len(Code(lines[l])) + 1
            /\ PieceAt(text, Behind(lines, l - 1), Code(lines[l]))
    <2>1. ASSUME NEW l \in 1..n
          PROVE  /\ Code(lines[l]) \in Token
                 /\ Len(f[l - 1]) \in Nat
                 /\ Len(f[l]) = Len(f[l - 1]) + Len(Code(lines[l])) + 1
                 /\ PieceAt(text, Len(f[l - 1]), Code(lines[l]))
      BY <1>1, <1>7, <1>8, Zenon DEF Token
    <2> QED
      BY <1>9, <2>1, Zenon
  <1> QED
    BY <1>1, <1>6, <1>10, <1>11, Zenon DEF text, seqs, n

(***************************************************************************)
(* The statements split off hold the lines read, and at the end of the     *)
(* source the whole of it.                                                 *)
(***************************************************************************)
WordsPart ==
    /\ stage = "idle" => line = 1 /\ current = <<>> /\ statements = <<>>
    /\ stage = "lines" =>
          /\ line - 1 \in 0..Len(source)
          /\ Splits(LineStart, Text, Behind(source, line - 1))
    /\ stage = "items" /\ at = 1 =>
          current = <<>> /\ Splits(LineStart, Text, Len(Text))

(***************************************************************************)
(* Before the first line nothing is split off (Vec::new in `statements`).  *)
(***************************************************************************)
LEMMA NothingSplit ==
    ASSUME NEW text \in Token, NEW s, s.statements = <<>>, s.current = <<>>,
           s.token = <<>>, s.quote = "none"
    PROVE  Splits(s, text, 0)
  <1>1. OpenQuote(text)[0] = "none"
    BY OpenUnfold DEF QuotesOpen
  <1>2. KeptIn(text)[0] = <<>>
    BY KeptNext
  <1>3. Written(s) = Images(text, KeptIn(text)[0])
    <2>1. Joined(<<>>) = <<>>
      BY DEF Joined
    <2>2. Written(s) = (<<>> \o <<>>) \o <<>>
      BY <2>1, FlattenEmpty, Zenon DEF Written
    <2>3. (<<>> \o <<>>) \o <<>> = <<>> /\ Images(text, <<>>) = <<>>
      BY DEF Images
    <2> QED
      BY <1>2, <2>2, <2>3, Zenon
  <1>4. Bounds(Joined(s.statements)) = {}
    BY DEF Joined, Bounds
  <1>5. Cuts(text, 0) = {}
    BY DEF Cuts
  <1> QED
    BY <1>1, <1>3, <1>4, <1>5, Zenon DEF Splits

(***************************************************************************)
(* Reading a line, and ending the source, keep it so.                      *)
(***************************************************************************)
THEOREM WordsInductive ==
    CTyped /\ WordsPart /\ [ResolveNext]_resolveVars => WordsPart'
  <1> SUFFICES ASSUME CTyped, WordsPart, [ResolveNext]_resolveVars
               PROVE  WordsPart'
    OBVIOUS
  <1>1. CASE UNCHANGED copybook
    BY <1>1 DEF WordsPart, copybook, lexing, LineStart, Text
  <1>2. CASE options.form = "copybook" /\ Compile(options.lines)
    <2>1. /\ stage' = "lines" /\ source' = options.lines
          /\ line' = 1 /\ statements' = <<>> /\ current' = <<>>
      BY <1>2 DEF Compile, WordsPart, lexing
    <2>2. source' \in Source
      BY <1>2, <2>1, OptionsAssumption DEF CTyped
    <2>3. /\ Text' \in Token /\ Len(source') \in Nat /\ Behind(source', 0) = 0
      BY <2>2, TextPlaces DEF Text, Pieces
    <2>4. Splits(LineStart', Text', 0)
      <3> DEFINE s == LineStart'
                 text == Text'
      <3>1. /\ s.statements = <<>> /\ s.current = <<>> /\ s.token = <<>>
            /\ s.quote = "none"
        BY <2>1 DEF LineStart
      <3>2. text \in Token
        BY <2>3
      <3> HIDE DEF s, text
      <3>3. Splits(s, text, 0)
        BY <3>1, <3>2, NothingSplit
      <3> QED
        BY <3>3 DEF s, text
    <2>5. line' - 1 = 0 /\ 0 \in 0..Len(source')
      BY <2>1, <2>3
    <2> QED
      BY <2>1, <2>3, <2>4, <2>5 DEF WordsPart
  <1>3. CASE ReadLine
    <2>1. CASE stage' = "refused"
      BY <2>1 DEF WordsPart
    <2>2. CASE stage' # "refused"
      <3> DEFINE code == Code(source[line])
                 s == Lex(code)
                 b == Behind(source, line - 1)
                 text == Text
      <3>1. /\ stage = "lines" /\ stage' = "lines" /\ source' = source
            /\ line <= Len(source) /\ line' = line + 1
            /\ s.quote = "none"
            /\ statements' = s.statements /\ current' = s.current
        BY <1>3, <2>2 DEF ReadLine, Refuse
      <3>2. /\ text \in Token /\ Len(source) \in Nat
            /\ \A l \in 1..Len(source) :
                  /\ Code(source[l]) \in Token
                  /\ Behind(source, l - 1) \in Nat
                  /\ Behind(source, l)
                        = Behind(source, l - 1) + Len(Code(source[l])) + 1
                  /\ PieceAt(text, Behind(source, l - 1), Code(source[l]))
        BY TextPlaces DEF CTyped, Text, Pieces
      <3>3. /\ line \in 1..Len(source) /\ line \in 0..Len(source)
            /\ line' - 1 = line
        BY <3>1, <3>2 DEF CTyped
      <3>4. /\ code \in Token /\ b \in Nat /\ PieceAt(text, b, code)
            /\ Behind(source, line) = b + Len(code) + 1
        BY <3>2, <3>3
      <3>5. Splits(LineStart, text, b)
        BY <3>1 DEF WordsPart
      <3>6. s \in LexState
        BY <3>4, LineTyped
      <3>7. s.token = <<>>
        <4>1. PICK f : Lexes(f, code)
          BY <3>4, LexUnfold DEF CTyped
        <4>2. s = EndToken(f[Len(code)]) /\ f[Len(code)] \in LexState
          <5>1. Len(code) \in 0..Len(code)
            BY <3>4 DEF Token
          <5> QED
            BY <4>1, <5>1 DEF Lexes
        <4> DEFINE z == f[Len(code)]
                   w == IF z.token = <<>> THEN z.current
                        ELSE Append(z.current, z.token)
        <4>3. z \in LexState
          BY <4>2
        <4> HIDE DEF s, z, w
        <4>4. EndToken(z) = [statements |-> z.statements, current |-> w,
                             token |-> <<>>, quote |-> z.quote]
          BY <4>3, EndTokenIs DEF w
        <4> QED
          BY <4>2, <4>4 DEF z
      <3> HIDE DEF code, b, text
      <3>8. Splits(s, text, b + Len(code) + 1)
        BY <3>1, <3>2, <3>4, <3>5, LineSplits DEF CTyped
      <3> HIDE DEF s
      <3>9. LineStart' = s
        <4>1. s = [statements |-> s.statements, current |-> s.current,
                   token |-> s.token, quote |-> s.quote]
          BY <3>6, LexStateParts
        <4>2. LineStart' = [statements |-> statements', current |-> current',
                            token |-> <<>>, quote |-> "none"]
          BY DEF LineStart
        <4> QED
          BY <3>1, <3>7, <4>1, <4>2, Zenon
      <3>10. Text' = text /\ Behind(source', line' - 1) = b + Len(code) + 1
        BY <3>1, <3>3, <3>4, Zenon DEF Text, text
      <3>11. Splits(LineStart', Text', Behind(source', line' - 1))
        BY <3>8, <3>9, <3>10, Zenon
      <3> QED
        BY <3>1, <3>3, <3>11 DEF WordsPart
    <2> QED
      BY <2>1, <2>2
  <1>4. CASE EndSource
    <2>1. CASE stage' = "items"
      <3>1. /\ stage = "lines" /\ line > Len(source) /\ current = <<>>
            /\ source' = source /\ statements' = statements
            /\ current' = current
        BY <1>4, <2>1 DEF EndSource, Refuse, lexing
      <3>2. line - 1 = Len(source)
        <4>1. line \in Nat /\ Len(source) \in Nat
          BY DEF CTyped, Source
        <4> QED
          BY <3>1, <4>1 DEF WordsPart
      <3>3. Behind(source, Len(source)) = Len(Text)
        BY TextPlaces DEF CTyped, Text, Pieces
      <3>4. Splits(LineStart, Text, Len(Text))
        BY <3>1, <3>2, <3>3 DEF WordsPart
      <3>5. LineStart' = LineStart /\ Text' = Text
        BY <3>1, Zenon DEF LineStart, Text
      <3> QED
        BY <2>1, <3>1, <3>4, <3>5, Zenon DEF WordsPart
    <2>2. CASE stage' # "items"
      <3>1. stage' = "refused"
        BY <1>4, <2>2 DEF EndSource, Refuse
      <3> QED
        BY <3>1 DEF WordsPart
    <2> QED
      BY <2>1, <2>2
  <1>5. CASE ParseStatement
    <2>1. \/ stage' = "refused"
          \/ at' = at + 1 /\ stage' = "items"
      BY <1>5 DEF ParseStatement, Refuse
    <2>2. at' = at + 1 => at' # 1
      BY DEF CTyped
    <2> QED
      BY <2>1, <2>2 DEF WordsPart
  <1>6. CASE CheckItems \/ FlattenItem \/ EndCompile
    <2>1. stage' \in {"flatten", "compiled", "refused"}
      <3>1. CASE CheckItems
        BY <3>1 DEF CheckItems, Refuse
      <3>2. CASE FlattenItem
        BY <3>2 DEF FlattenItem, Refuse
      <3>3. CASE EndCompile
        BY <3>3 DEF EndCompile
      <3> QED
        BY <1>6, <3>1, <3>2, <3>3
    <2> QED
      BY <2>1 DEF WordsPart
  <1> QED
    BY <1>1, <1>2, <1>3, <1>4, <1>5, <1>6, CopybookSteps DEF CompileStep

(***************************************************************************)
(* Statements that hold the whole text are the source cut at its           *)
(* sentences.                                                              *)
(***************************************************************************)
LEMMA WordsAreTheSource == CTyped /\ WordsPart => StatementsAreTheSource
  <1> SUFFICES ASSUME CTyped, WordsPart, stage = "items", at = 1
               PROVE  StatementsAreTheSource
    BY DEF StatementsAreTheSource
  <1> DEFINE text == Text
             n == Len(text)
             k == KeptIn(text)
             texts == Joined(statements)
             kept == Filter(TextIndex(text), Words(text))
  <1>1. text \in Token
    BY TextPlaces DEF CTyped, Text, Pieces
  <1>2. current = <<>> /\ Splits(LineStart, text, n)
    BY DEF WordsPart
  <1> HIDE DEF text
  <1>3. n \in Nat /\ DOMAIN text = 1..n /\ k[n] \in Seq(1..n) /\ kept = k[n]
    <2>1. n \in Nat /\ n \in 0..n
      BY <1>1, KeptNext
    <2> QED
      BY <1>1, <2>1, KeptNext
  <1>4. LineStart.statements = statements /\ LineStart.current = <<>>
        /\ LineStart.token = <<>>
    BY <1>2 DEF LineStart
  <1>5. FlattenSeq(texts) = Images(text, kept)
    <2>1. Written(LineStart) = (FlattenSeq(texts) \o <<>>) \o <<>>
      BY <1>4, FlattenEmpty, Zenon DEF Written
    <2>2. FlattenSeq(texts) \in Seq(STRING)
      <3>1. statements \in Seq(Seq(Token))
        BY DEF CTyped
      <3> QED
        BY <3>1, JoinedGrows, BoundsGrow DEF Token
    <2> DEFINE w == FlattenSeq(texts)
    <2> HIDE DEF texts, w, k, n, kept
    <2>3. (w \o <<>>) \o <<>> = w
      <3>1. w \in Seq(STRING)
        BY <2>2 DEF w
      <3>2. w \o <<>> = w
        BY <3>1
      <3> QED
        BY <3>2
    <2> QED
      BY <1>2, <1>3, <2>1, <2>3, Zenon DEF Splits, w, k
  <1>6. Images(text, kept) = [m \in DOMAIN kept |-> text[kept[m]]]
    <2>1. DOMAIN kept = 1..Len(kept)
      BY <1>3
    <2> QED
      BY <2>1, Zenon DEF Images
  <1>7. Bounds(texts) = Cuts(text, n)
    BY <1>2, <1>4, Zenon DEF Splits
  <1>8. Cuts(text, n)
           = {Cardinality({s \in Words(text) : s < i}) : i \in Periods(text)}
                \ {0}
    <2>1. \A i \in Periods(text) : i \in 1..n
      BY <1>3, Zenon DEF Periods, Sentences
    <2>2. \A i \in 1..n :
             Cardinality({s \in Words(text) : s < i}) = Len(k[i - 1])
      BY <1>1, KeptCount
    <2> DEFINE cut(i) == Len(k[i - 1])
               before(i) == Cardinality({s \in Words(text) : s < i})
    <2>3. Cuts(text, n) = {cut(i) : i \in Periods(text) \cap 1..n} \ {0}
      BY Zenon DEF Cuts
    <2>4. \A i \in 1..n : before(i) = cut(i)
      BY <2>2
    <2> HIDE DEF cut, before, n
    <2>5. {cut(i) : i \in Periods(text) \cap 1..n}
             = {before(i) : i \in Periods(text)}
      BY <2>1, <2>4
    <2> QED
      BY <2>3, <2>5, Zenon DEF before
  <1>9. texts = [m \in DOMAIN statements |-> FlattenSeq(statements[m])]
    BY Zenon DEF Joined
  <1>10. /\ FlattenSeq(texts) = [m \in DOMAIN kept |-> text[kept[m]]]
         /\ {Len(FlattenSeq(SubSeq(texts, 1, m))) : m \in DOMAIN texts}
               = {Cardinality({s \in Words(text) : s < i}) : i \in Periods(text)}
                    \ {0}
    BY <1>5, <1>6, <1>7, <1>8, Zenon DEF Bounds
  <1> HIDE DEF texts, kept
  <1> QED
    BY <1>9, <1>10, Zenon
       DEF StatementsAreTheSource, Words, Periods, kept, TextIndex, text

(***************************************************************************)
(* The statements hold the lines read (`statements`).                      *)
(***************************************************************************)
THEOREM WordsPartHolds == ResolveSpec => []WordsPart
  <1>1. ResolveInit => WordsPart
    BY DEF ResolveInit, Idle, WordsPart
  <1> QED
    BY <1>1, WordsInductive, CompilerIsTyped, PTL DEF ResolveSpec

(***************************************************************************)
(* The statements are the source cut at its sentences: no symbol outside   *)
(* comments, card columns and blanks is lost, moved or put into another    *)
(* statement (`statements`).                                               *)
(***************************************************************************)
THEOREM StatementsAreTheSourceHolds == ResolveSpec => []StatementsAreTheSource
  BY WordsPartHolds, WordsAreTheSource, CompilerIsTyped, PTL
=============================================================================
