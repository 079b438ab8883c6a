------------------------------ MODULE Copybook ------------------------------
(***************************************************************************)
(* The copybook compiler (src/copybook.rs, compile): source lines become   *)
(* period-terminated statements, statements become items, items become     *)
(* the fields of one raw record.                                           *)
(*                                                                         *)
(* A line is a sequence of symbols, one per column.  A word, a number or a *)
(* keyword is one symbol, so the card columns are scaled down              *)
(* (SequenceColumns, Margin), and a symbol stands for both cases of its    *)
(* letters; a picture and a literal are spelled out.  A token is a         *)
(* sequence of adjacent symbols.  An absent name, picture or value bound   *)
(* is <<>>, an absent OCCURS is 0.                                         *)
(***************************************************************************)
EXTENDS Integers, Sequences, SequencesExt, Loops, LayoutLimits

CONSTANTS
    SequenceColumns,     \* columns of the sequence area, 6 in the code
    Margin,              \* last column that is code, 72 in the code
    MaxOccurs,           \* MAX_OCCURS
    MaxConditionValues,  \* MAX_CONDITION_VALUES
    MaxSymbols,          \* MAX_RECORD_SYMBOLS
    Numeral,             \* what the number symbols denote
    Subscript            \* 1..MaxOccurs -> number symbols, without zeros

ASSUME CopybookAssumption ==
    /\ {SequenceColumns, Margin, MaxOccurs, MaxConditionValues, MaxSymbols}
          \subseteq Nat
    /\ \A s \in DOMAIN Numeral : Numeral[s] \in Nat
    /\ Subscript \in [1..MaxOccurs -> STRING]

(***************************************************************************)
(* What the compiler writes into the names of the source, and the blank    *)
(* that stands for the end of a line.  True of every string; they have     *)
(* names because the proofs need to cite them.                             *)
(***************************************************************************)
ASSUME StringAssumption == {"(", ")", ".", "FILLER", "record"} \subseteq STRING
ASSUME BlankAssumption == " " \in STRING

(***************************************************************************)
(* A token, and the source.                                                *)
(***************************************************************************)
Token == Seq(STRING)
Source == Seq(Seq(STRING))

VARIABLES
    source,            \* the lines handed to compile
    stage,             \* where compile is, "idle" before it is called
    line,              \* the line `statements` reads next
    current,           \* the tokens of the statement not yet ended
    statements,        \* the statements split off
    items,             \* the items parsed, in order
    at,                \* the statement, then the item, that is next
    groups,            \* flatten: the group items now open
    record_bytes,      \* flatten: bytes of the record so far
    condition_values,  \* flatten: condition values copied so far
    fields,            \* flatten: the fields so far
    refusal            \* why compile failed, "none" if it has not

lexing == <<line, current, statements>>
flattening == <<groups, record_bytes, condition_values, fields>>
copybook == <<source, stage, lexing, items, at, flattening, refusal>>

Refuse(why) ==
    /\ stage' = "refused"
    /\ refusal' = why

-----------------------------------------------------------------------------
(***************************************************************************)
(* Vocabulary: usage_of, refused, ignorable, is_clause_keyword.            *)
(***************************************************************************)
BinaryWord ==
    {"COMP", "COMPUTATIONAL", "COMP-4", "COMPUTATIONAL-4", "BINARY"}
PackedWord == {"COMP-3", "COMPUTATIONAL-3", "PACKED-DECIMAL"}

UsageOf ==
    [w \in BinaryWord \cup PackedWord \cup {"DISPLAY"} |->
        IF w \in BinaryWord THEN "Binary"
        ELSE IF w \in PackedWord THEN "Packed"
        ELSE "Display"]

Refused ==
    {"REDEFINES", "RENAMES", "COMP-1", "COMPUTATIONAL-1", "COMP-2",
     "COMPUTATIONAL-2", "COMP-5", "COMPUTATIONAL-5", "SYNCHRONIZED", "SYNC",
     "SIGN", "DEPENDING", "POINTER", "INDEX", "PROCEDURE-POINTER",
     "FUNCTION-POINTER"}

Ignorable ==
    {"VALUE", "VALUES", "JUSTIFIED", "JUST", "RIGHT", "LEFT", "GLOBAL",
     "EXTERNAL", "BLANK", "WHEN", "ZERO", "ZEROS", "ZEROES", "IS", "ARE",
     "TIMES", "CHARACTERS"}

ClauseKeyword ==
    {"PIC", "PICTURE", "USAGE", "OCCURS"}
        \cup Refused \cup Ignorable \cup DOMAIN UsageOf

\* The keyword a token is, "" for a token that cannot be one.
Word(token) == IF Len(token) = 1 THEN token[1] ELSE ""
\* str::parse of a token: -1 for one that is not a number.
Number(token) ==
    IF Word(token) \in DOMAIN Numeral THEN Numeral[Word(token)] ELSE -1

-----------------------------------------------------------------------------
(***************************************************************************)
(* strip_card_columns: a comment has no code; a line that looks like a     *)
(* card loses its sequence area and what is past the margin, and keeps its *)
(* indicator column.                                                       *)
(***************************************************************************)
IsFixedFormat(l) ==
    /\ Len(l) > SequenceColumns
    /\ \A i \in 1..SequenceColumns : l[i] \in DOMAIN Numeral \cup {" "}
    /\ l[SequenceColumns + 1] \in {" ", "-", "*", "/", "D"}

IsComment(l) ==
    \/ \E i \in DOMAIN l : /\ l[i] \in {"*", "/"}
                           /\ \A j \in 1..(i - 1) : l[j] = " "
    \/ IsFixedFormat(l) /\ l[SequenceColumns + 1] \in {"*", "/"}

Code(l) ==
    IF IsComment(l) THEN <<>>
    ELSE IF IsFixedFormat(l)
         THEN SubSeq(l, SequenceColumns + 1, Min({Margin, Len(l)}))
         ELSE l

(***************************************************************************)
(* The loop of `statements` over one line.  A literal is part of one       *)
(* token; a period ends a statement only before a blank or at the end of   *)
(* the line.                                                               *)
(***************************************************************************)
Quotes == {"'", "\""}

EndToken(s) ==
    IF s.token = <<>> THEN s
    ELSE [s EXCEPT !.current = Append(@, s.token), !.token = <<>>]

EndStatement(s) ==
    IF s.current = <<>> THEN s
    ELSE [s EXCEPT !.statements = Append(@, s.current), !.current = <<>>]

\* Mutant: a period always ends the statement.
EndsAtAnyPeriod(code, i) == code[i] = "."

EndsSentence(code, i) ==
    code[i] = "." /\ (i = Len(code) \/ code[i + 1] = " ")

Extend(s, c) == [s EXCEPT !.token = Append(@, c)]

LexSymbol(code, s, i) ==
    LET c == code[i]
    IN  IF s.quote # "none"
        THEN [Extend(s, c) EXCEPT
                  !.quote = IF c = s.quote THEN "none" ELSE s.quote]
        ELSE IF c \in Quotes THEN [Extend(s, c) EXCEPT !.quote = c]
        ELSE IF EndsSentence(code, i) THEN EndStatement(EndToken(s))
        ELSE IF c = " " THEN EndToken(s)
        ELSE Extend(s, c)

LineStart == [statements |-> statements, current |-> current,
              token |-> <<>>, quote |-> "none"]

Lex(code) ==
    LET lexed[i \in 0..Len(code)] ==
            IF i = 0 THEN LineStart ELSE LexSymbol(code, lexed[i - 1], i)
    IN  EndToken(lexed[Len(code)])

ReadLine ==
    /\ stage = "lines"
    /\ line <= Len(source)
    /\ LET s == Lex(Code(source[line]))
       IN  \/ /\ s.quote # "none"
              /\ Refuse("invalid")
              /\ UNCHANGED lexing
           \/ /\ s.quote = "none"
              /\ statements' = s.statements
              /\ current' = s.current
              /\ line' = line + 1
              /\ UNCHANGED <<stage, refusal>>
    /\ UNCHANGED <<source, items, at, flattening>>

EndSource ==
    /\ stage = "lines"
    /\ line > Len(source)
    /\ \/ /\ current # <<>> \/ statements = <<>>
          /\ Refuse("invalid")
       \/ /\ current = <<>> /\ statements # <<>>
          /\ stage' = "items"
          /\ UNCHANGED refusal
    /\ UNCHANGED <<source, lexing, items, at, flattening>>

-----------------------------------------------------------------------------
(***************************************************************************)
(* The clauses of parse_item.  `due` is what the next token has to be: a   *)
(* clause, the string of a PICTURE or USAGE clause (with or without the IS *)
(* still allowed), the count of OCCURS, or nothing after a VALUE.          *)
(***************************************************************************)
Fail(s, why) == [s EXCEPT !.fault = why]
Due(s, what) == [s EXCEPT !.due = what]
Take(s, item) == [s EXCEPT !.item = item, !.due = "clause"]

Keyword(s, w) ==
    CASE w \in Refused             -> Fail(s, "unsupported")
      [] w \in {"PIC", "PICTURE"}  -> Due(s, "picture is")
      [] w = "USAGE"               -> Due(s, "usage is")
      [] w = "OCCURS"              -> Due(s, "count")
      [] w \in DOMAIN UsageOf      -> Take(s, [s.item EXCEPT !.usage = UsageOf[w]])
      [] w \in {"VALUE", "VALUES"} -> Due(s, "nothing")
      [] w \in Ignorable \ {"VALUE", "VALUES"} -> s
      [] OTHER                     -> Fail(s, "invalid")

Clause(s, token) ==
    LET w == Word(token)
        n == Number(token)
        is == w = "IS" /\ s.due \in {"picture is", "usage is"}
    IN  IF s.fault # "none" \/ s.due = "nothing" THEN s
        ELSE CASE is -> Due(s, IF s.due = "usage is" THEN "usage" ELSE "picture")
               [] ~is /\ s.due \in {"picture is", "picture"} ->
                     Take(s, [s.item EXCEPT !.picture = token])
               [] ~is /\ s.due \in {"usage is", "usage"} ->
                     IF w \in DOMAIN UsageOf
                     THEN Take(s, [s.item EXCEPT !.usage = UsageOf[w]])
                     ELSE Fail(s, "unsupported")
               [] s.due = "count" ->
                     IF n \in 1..MaxOccurs
                     THEN Take(s, [s.item EXCEPT !.occurs = n])
                     ELSE Fail(s, "invalid")
               [] s.due = "clause" -> Keyword(s, w)

Clauses(item, tokens) ==
    LET read[i \in 0..Len(tokens)] ==
            IF i = 0 THEN [item |-> item, due |-> "clause", fault |-> "none"]
            ELSE Clause(read[i - 1], tokens[i])
        end == read[Len(tokens)]
    IN  IF end.fault = "none" /\ end.due \notin {"clause", "nothing"}
        THEN Fail(end, "invalid")
        ELSE end

(***************************************************************************)
(* condition_name: the literals of the VALUE clause of a level-88 entry,   *)
(* without their quotes; THRU makes the next one the high bound of the     *)
(* last.                                                                   *)
(***************************************************************************)
Unquote(token) ==
    IF Len(token) >= 2 /\ Head(token) \in Quotes /\ Last(token) = Head(token)
    THEN SubSeq(token, 2, Len(token) - 1)
    ELSE token

Value(s, token) ==
    IF Word(token) \in {"IS", "ARE"} THEN s
    ELSE IF Word(token) \in {"THRU", "THROUGH"}
    THEN [s EXCEPT !.range = TRUE, !.fault = @ \/ s.values = <<>>]
    ELSE IF s.range /\ s.values # <<>>
    THEN [s EXCEPT !.values[Len(s.values)].high = {Unquote(token)},
                   !.range = FALSE]
    ELSE [s EXCEPT !.values =
             Append(@, [low |-> Unquote(token), high |-> {}])]

Values(tokens) ==
    LET read[i \in 0..Len(tokens)] ==
            IF i = 0 THEN [values |-> <<>>, range |-> FALSE, fault |-> FALSE]
            ELSE Value(read[i - 1], tokens[i])
        end == read[Len(tokens)]
    IN  IF end.fault \/ end.range THEN <<>> ELSE end.values

ValueKeyword(tokens) ==
    SelectInSeq(tokens, LAMBDA t : Word(t) \in {"VALUE", "VALUES"})

Condition(tokens) ==
    [name   |-> tokens[2],
     values |-> Values(SubSeq(tokens, ValueKeyword(tokens) + 1, Len(tokens)))]

IsCondition(tokens) ==
    /\ Len(tokens) >= 2
    /\ Word(tokens[2]) \notin ClauseKeyword
    /\ ValueKeyword(tokens) > 0
    /\ Condition(tokens).values # <<>>

(***************************************************************************)
(* parse_item: the level, the name unless a clause stands in its place,    *)
(* the clauses.                                                            *)
(***************************************************************************)
ParsedItem(tokens) ==
    LET named == Len(tokens) >= 2 /\ Word(tokens[2]) \notin ClauseKeyword
        item == [level |-> Number(tokens[1]),
                 name  |-> IF named /\ Word(tokens[2]) # "FILLER"
                           THEN tokens[2] ELSE <<>>,
                 picture |-> <<>>, usage |-> "Display", occurs |-> 0,
                 conditions |-> <<>>]
    IN  Clauses(item, SubSeq(tokens, IF named THEN 3 ELSE 2, Len(tokens)))

\* Mutant: a condition goes to the first item.
AttachToFirst(condition) ==
    [items EXCEPT ![1].conditions = Append(@, condition)]

\* An 88 qualifies the item before it.
Attach(condition) ==
    [items EXCEPT ![Len(items)].conditions = Append(@, condition)]

Parsed(tokens) ==
    LET level == Number(tokens[1])
        item == ParsedItem(tokens)
        Result(new, why) == [items |-> new, fault |-> why]
    IN  CASE level \in 1..49 \cup {77} ->
                Result(Append(items, item.item), item.fault)
          [] level = 88 /\ IsCondition(tokens) /\ items # <<>> ->
                Result(Attach(Condition(tokens)), "none")
          [] level = 88 /\ ~(IsCondition(tokens) /\ items # <<>>) ->
                Result(items, "invalid")
          [] level = 66 -> Result(items, "unsupported")
          [] OTHER      -> Result(items, "invalid")

ParseStatement ==
    /\ stage = "items"
    /\ at <= Len(statements)
    /\ LET parsed == Parsed(statements[at])
       IN  \/ /\ parsed.fault # "none"
              /\ Refuse(parsed.fault)
              /\ UNCHANGED <<items, at>>
           \/ /\ parsed.fault = "none"
              /\ items' = parsed.items
              /\ at' = at + 1
              /\ UNCHANGED <<stage, refusal>>
    /\ UNCHANGED <<source, lexing, flattening>>

(***************************************************************************)
(* compile, between the two loops: exactly one item of level 1 or 77, and  *)
(* it comes first.                                                         *)
(***************************************************************************)
Roots == {i \in DOMAIN items : items[i].level \in {1, 77}}

CheckItems ==
    /\ stage = "items"
    /\ at > Len(statements)
    /\ \/ /\ Cardinality(Roots) > 1
          /\ Refuse("unsupported")
          /\ UNCHANGED at
       \/ /\ Cardinality(Roots) <= 1 /\ 1 \notin Roots
          /\ Refuse("invalid")
          /\ UNCHANGED at
       \/ /\ Roots = {1}
          /\ stage' = "flatten"
          /\ at' = 1
          /\ UNCHANGED refusal
    /\ UNCHANGED <<source, lexing, items, flattening>>

-----------------------------------------------------------------------------
(***************************************************************************)
(* expand: the symbols of a picture with its (n) repeats resolved, <<>>    *)
(* for one it refuses (an empty picture is refused as well).               *)
(***************************************************************************)
Repeat(s) ==
    LET n == Number(s.count)
    IN  IF n \in 1..MaxSymbols
        THEN [s EXCEPT !.due = "symbol", !.count = <<>>,
                       !.out = @ \o [k \in 1..(n - 1) |-> Last(@)]]
        ELSE Fail(s, TRUE)

Symbol(s, c) ==
    CASE s.fault -> s
      [] ~s.fault /\ s.due = "count" ->
            IF c = ")" THEN Repeat(s) ELSE [s EXCEPT !.count = Append(@, c)]
      [] ~s.fault /\ s.due # "count" /\ c = "(" ->
            IF s.due = "repeat" THEN Due(s, "count") ELSE Fail(s, TRUE)
      [] OTHER -> [s EXCEPT !.out = Append(@, c), !.due = "repeat"]

Expand(picture) ==
    LET read[i \in 0..Len(picture)] ==
            IF i = 0 THEN [out |-> <<>>, due |-> "symbol", count |-> <<>>,
                           fault |-> FALSE]
            ELSE Symbol(read[i - 1], picture[i])
        end == read[Len(picture)]
    IN  IF end.fault \/ end.due = "count" \/ Len(end.out) > MaxSymbols
        THEN <<>>
        ELSE end.out

Fault(why) == [kind |-> "none", size |-> 0, scale |-> 0, fault |-> why]
Described(kind, size, scale) ==
    [kind |-> kind, size |-> size, scale |-> scale, fault |-> "none"]

DescribeCharacter(symbols, usage) ==
    IF ToSet(symbols) \cap {"S", "V", "P"} # {} THEN Fault("invalid")
    ELSE IF ~(ToSet(symbols) \subseteq {"X", "A", "9"})
         THEN Fault("unsupported")
    ELSE IF usage # "Display" THEN Fault("invalid")
    ELSE Described("Text", Len(symbols), 0)

(***************************************************************************)
(* describe_numeric: S only in front, one V, otherwise 9s.                 *)
(***************************************************************************)
BinaryBytes(digits) ==
    CASE digits \in 1..4   -> 2
      [] digits \in 5..9   -> 4
      [] digits \in 10..18 -> 8
      [] OTHER             -> 0

\* Mutant: a sign nibble is forgotten.
PackedWithoutSign(digits) == (digits + 1) \div 2
PackedBytes(digits) == digits \div 2 + 1

DescribeNumeric(symbols, usage) ==
    LET points == {i \in DOMAIN symbols : symbols[i] = "V"}
        nines == {i \in DOMAIN symbols : symbols[i] = "9"}
        bad == {i \in DOMAIN symbols :
                   \/ symbols[i] \notin {"S", "V", "9"}
                   \/ symbols[i] = "S" /\ i # 1
                   \/ symbols[i] = "V" /\ i # Min(points)}
        digits == Cardinality(nines)
        scale == Cardinality({i \in nines : \E p \in points : p < i})
    IN  IF bad # {}
        THEN Fault(IF symbols[Min(bad)] \in {"S", "V"}
                   THEN "invalid" ELSE "unsupported")
        ELSE IF digits = 0 THEN Fault("invalid")
        ELSE CASE usage = "Display" -> Described("ZonedDecimal", digits, scale)
               [] usage = "Packed"  ->
                     Described("PackedDecimal", PackedBytes(digits), scale)
               [] usage = "Binary" /\ digits > 18 -> Fault("unsupported")
               [] usage = "Binary" /\ digits <= 18 ->
                     Described(IF symbols[1] = "S"
                               THEN "Integer" ELSE "UnsignedInteger",
                               BinaryBytes(digits), scale)

Describe(item) ==
    LET symbols == Expand(item.picture)
    IN  IF symbols = <<>> THEN Fault("invalid")
        ELSE IF ToSet(symbols) \cap {"X", "A"} # {}
             THEN DescribeCharacter(symbols, item.usage)
             ELSE DescribeNumeric(symbols, item.usage)

-----------------------------------------------------------------------------
(***************************************************************************)
(* One step of flatten: the groups at or below the item's level close; a   *)
(* group opens; an elementary item becomes its fields, once the sizes of   *)
(* the whole record with it are within the limits.                         *)
(***************************************************************************)
IsGroup(i) ==
    /\ i < Len(items)
    /\ items[i + 1].level > items[i].level
    /\ items[i].level # 77

\* Mutant: a sibling group stays open.
ClosesBelow(item) ==
    Filter(groups, {g \in ToSet(groups) : g.level <= item.level})

OpenGroups(item) ==
    Filter(groups, {g \in ToSet(groups) : g.level < item.level})

Occurrences(item) == Max({1, item.occurs})

Leaf(item, k) ==
    IF item.name = <<>> \/ item.occurs = 0 THEN item.name
    ELSE item.name \o <<"(", Subscript[k], ")">>

Qualify(item, k) ==
    IF item.name = <<>> THEN <<>>
    ELSE FlattenSeq([g \in DOMAIN OpenGroups(item) |->
                        OpenGroups(item)[g].name \o <<".">>])
         \o Leaf(item, k)

RawFields(item) ==
    LET d == Describe(item)
    IN  [k \in 1..Occurrences(item) |->
            [name   |-> Leaf(item, k),
             size   |-> d.size,
             kind   |-> IF item.name = <<>> THEN "Skip" ELSE d.kind,
             scale  |-> d.scale,
             offset |-> {},
             declaration |->
                [level        |-> item.level,
                 path         |-> Qualify(item, k),
                 occurs_index |-> IF item.occurs = 0 THEN 0 ELSE k,
                 occurs_group |-> IF item.occurs = 0 THEN <<>> ELSE item.name,
                 conditions   |-> item.conditions]]]

\* Mutant: only one occurrence is counted.
OneOccurrenceBytes(item) == record_bytes + Describe(item).size
BytesWith(item) == record_bytes + Describe(item).size * Occurrences(item)

ConditionCopies(conditions) ==
    Total([c \in DOMAIN conditions |-> 1 + Len(conditions[c].values)])
ConditionsWith(item) ==
    condition_values + ConditionCopies(item.conditions) * Occurrences(item)

ItemFault(item, isGroup) ==
    CASE isGroup /\ item.picture # <<>>  -> "invalid"
      [] isGroup /\ item.picture = <<>>  ->
            IF item.occurs > 0 THEN "unsupported" ELSE "none"
      [] ~isGroup /\ item.picture = <<>> -> "invalid"
      [] ~isGroup /\ item.picture # <<>> ->
            IF Describe(item).fault # "none" THEN Describe(item).fault
            ELSE IF \/ BytesWith(item) > MaxRecordBytes
                    \/ Len(fields) + Occurrences(item) > MaxLayoutFields
                    \/ ConditionsWith(item) > MaxConditionValues
                 THEN "unsupported"
            ELSE "none"

FlattenItem ==
    /\ stage = "flatten"
    /\ at <= Len(items)
    /\ LET item == items[at]
           fault == ItemFault(item, IsGroup(at))
       IN  \/ /\ fault # "none"
              /\ Refuse(fault)
              /\ UNCHANGED <<at, flattening>>
           \/ /\ fault = "none" /\ IsGroup(at)
              /\ groups' = Append(OpenGroups(item),
                              [level |-> item.level,
                               name  |-> IF item.name = <<>>
                                         THEN <<"FILLER">> ELSE item.name])
              /\ at' = at + 1
              /\ UNCHANGED <<stage, refusal, record_bytes, condition_values,
                             fields>>
           \/ /\ fault = "none" /\ ~IsGroup(at)
              /\ groups' = OpenGroups(item)
              /\ record_bytes' = BytesWith(item)
              /\ condition_values' = ConditionsWith(item)
              /\ fields' = fields \o RawFields(item)
              /\ at' = at + 1
              /\ UNCHANGED <<stage, refusal>>
    /\ UNCHANGED <<source, lexing, items>>

(***************************************************************************)
(* The end of compile.  The last item is never a group, so a record that   *)
(* was flattened has a field.                                              *)
(***************************************************************************)
EndCompile ==
    /\ stage = "flatten"
    /\ at > Len(items)
    /\ stage' = "compiled"
    /\ UNCHANGED <<source, lexing, items, at, flattening, refusal>>

RecordName == IF items[1].name = <<>> THEN <<"record">> ELSE items[1].name

Idle ==
    /\ source = <<>>
    /\ stage = "idle"
    /\ line = 1
    /\ current = <<>>
    /\ statements = <<>>
    /\ items = <<>>
    /\ at = 1
    /\ groups = <<>>
    /\ record_bytes = 0
    /\ condition_values = 0
    /\ fields = <<>>
    /\ refusal = "none"

Compile(lines) ==
    /\ stage = "idle"
    /\ source' = lines
    /\ stage' = "lines"
    /\ UNCHANGED <<lexing, items, at, flattening, refusal>>

CompileStep ==
    \/ ReadLine \/ EndSource
    \/ ParseStatement \/ CheckItems
    \/ FlattenItem \/ EndCompile

-----------------------------------------------------------------------------
(***************************************************************************)
(* The source as one text, for the property below: which quote is open     *)
(* after each symbol, the periods that end a sentence, and the symbols     *)
(* that belong to a token.                                                 *)
(***************************************************************************)
Text == FlattenSeq([l \in DOMAIN source |-> Code(source[l]) \o <<" ">>])

OpenQuote(text) ==
    LET open[i \in 0..Len(text)] ==
            IF i = 0 THEN "none"
            ELSE IF open[i - 1] = "none"
            THEN IF text[i] \in Quotes THEN text[i] ELSE "none"
            ELSE IF open[i - 1] = text[i] THEN "none" ELSE open[i - 1]
    IN  open

Sentences(text, open) ==
    {i \in DOMAIN text : /\ open[i - 1] = "none"
                         /\ text[i] = "." /\ text[i + 1] = " "}
TokenSymbols(text, open) ==
    {i \in DOMAIN text : \/ open[i - 1] # "none"
                         \/ text[i] # " " /\ i \notin Sentences(text, open)}

(***************************************************************************)
(* The statements are the source cut at its sentences (the lexer of        *)
(* `statements`): every symbol outside comments, card columns and blanks   *)
(* is in a token, in order, and a statement ends exactly where a sentence  *)
(* does, however literals, pictures with a point and line ends fall.       *)
(***************************************************************************)
StatementsAreTheSource ==
    stage = "items" /\ at = 1 =>
       LET texts == [n \in DOMAIN statements |-> FlattenSeq(statements[n])]
           text == Text
           open == OpenQuote(text)
           symbols == TokenSymbols(text, open)
           sentences == Sentences(text, open)
           kept == Filter([i \in DOMAIN text |-> i], symbols)
       IN  /\ FlattenSeq(texts) = [n \in DOMAIN kept |-> text[kept[n]]]
           /\ {Len(FlattenSeq(SubSeq(texts, 1, n))) : n \in DOMAIN texts}
                 = {Cardinality({s \in symbols : s < i}) : i \in sentences}
                      \ {0}

(***************************************************************************)
(* The level tree as COBOL defines it: an item is under the ones before it *)
(* that no item in between, and not the item itself, has closed.  `Owner`  *)
(* is the item and the occurrence each field has to come from.             *)
(***************************************************************************)
Enclosing(i) ==
    {j \in 1..(i - 1) :
        \A k \in (j + 1)..i : items[k].level > items[j].level}

Elementary == {i \in DOMAIN items : \A j \in DOMAIN items : i \notin Enclosing(j)}

Owner ==
    LET owned[i \in 0..Len(items)] ==
            IF i = 0 THEN <<>>
            ELSE IF i \in Elementary
            THEN owned[i - 1] \o [k \in 1..Occurrences(items[i]) |->
                                     [item |-> i, occurrence |-> k]]
            ELSE owned[i - 1]
    IN  owned[Len(items)]

(***************************************************************************)
(* The flat fields are the tree (flatten, design.md: nothing about the     *)
(* tree is thrown away): one field per elementary item and occurrence, in  *)
(* source order; a named one keeps its level and the names of exactly the  *)
(* groups above it, and a filler is skipped.                               *)
(***************************************************************************)
FieldsAreTheTree ==
    stage = "compiled" =>
       LET owner == Owner IN
       /\ Len(fields) = Len(owner)
       /\ \A n \in DOMAIN fields :
             LET i == owner[n].item
                 k == owner[n].occurrence
                 above == Filter([j \in DOMAIN items |-> j], Enclosing(i))
                 label(j) == IF items[j].name = <<>>
                             THEN <<"FILLER">> ELSE items[j].name
                 declared == fields[n].declaration
             IN  /\ declared.level = items[i].level
                 /\ (fields[n].kind = "Skip") <=> (items[i].name = <<>>)
                 /\ fields[n].kind # "Skip" =>
                       declared.path =
                          FlattenSeq([j \in DOMAIN above |->
                                         label(above[j]) \o <<".">>])
                          \o fields[n].name
                 /\ items[i].occurs > 0 => declared.occurs_index = k

(***************************************************************************)
(* A level-88 entry qualifies the item it follows and nothing else         *)
(* (compile and the copies in flatten): every occurrence carries, in       *)
(* order, the names declared between its item and the next.                *)
(***************************************************************************)
ItemStatements ==
    Filter([n \in DOMAIN statements |-> n],
           {n \in DOMAIN statements : Number(statements[n][1]) # 88})

ConditionsKept ==
    stage = "compiled" =>
       LET owner == Owner
           places == ItemStatements
       IN
       \A n \in DOMAIN fields :
          LET i == owner[n].item
              from == places[i]
              to == IF i = Len(items) THEN Len(statements)
                    ELSE places[i + 1] - 1
              kept == fields[n].declaration.conditions
          IN  /\ Len(kept) = to - from
              /\ \A c \in DOMAIN kept :
                    kept[c].name = statements[from + c][2]

(***************************************************************************)
(* A compiled field is as wide as its picture says (describe_numeric): a   *)
(* packed field is the shortest that holds its digits and the sign, a      *)
(* binary one the shortest of 2, 4 and 8 bytes that holds them signed (10  *)
(* bits for 3 digits), and the scale is never more than the digits, which  *)
(* is what layout.rs check_scale will ask.                                 *)
(***************************************************************************)
WidthsHoldTheDigits ==
    stage = "compiled" =>
       LET owner == Owner IN
       \A n \in DOMAIN fields :
          LET item == items[owner[n].item]
              symbols == Expand(item.picture)
              digits == Cardinality({c \in DOMAIN symbols : symbols[c] = "9"})
              Holds(bytes) == (8 * bytes - 1) * 3 >= digits * 10
              size == fields[n].size
          IN  CASE ToSet(symbols) \cap {"X", "A"} # {} ->
                      size = Len(symbols)
                [] item.usage = "Display" /\ ToSet(symbols) \cap {"X", "A"} = {} ->
                      size = digits /\ fields[n].scale <= digits
                [] item.usage = "Packed" ->
                      /\ digits \in {2 * size - 1, 2 * size - 2}
                      /\ fields[n].scale <= digits
                [] item.usage = "Binary" ->
                      /\ size \in {2, 4, 8} /\ Holds(size)
                      /\ size > 2 => ~Holds(size \div 2)
                      /\ fields[n].scale <= digits

(***************************************************************************)
(* The limits hold at every step, not only at the end (flatten checks      *)
(* before it expands): a short copybook of OCCURS items never makes the    *)
(* compiler hold more fields, bytes or condition copies than they allow.   *)
(***************************************************************************)
LimitsHoldAsItGrows ==
    /\ Len(fields) <= MaxLayoutFields
    /\ Total([n \in DOMAIN fields |-> fields[n].size]) <= MaxRecordBytes
    /\ Total([n \in DOMAIN fields |->
                 ConditionCopies(fields[n].declaration.conditions)])
          <= MaxConditionValues

(***************************************************************************)
(* What the comment of strip_card_columns says: a free-format line falls   *)
(* through untouched.  A line indented into the sequence area carries no   *)
(* sequence number, so it is free-format.                                  *)
(***************************************************************************)
FreeFormatUntouched ==
    \A l \in DOMAIN source :
       LET indent == SelectInSeq(source[l], LAMBDA c : c # " ")
       IN  indent \in 2..SequenceColumns /\ ~IsComment(source[l])
              => Code(source[l]) = source[l]

(***************************************************************************)
(* What the head of copybook.rs says of clauses: one that changes the      *)
(* bytes is honoured or refused, never ignored.  A usage word in a         *)
(* statement, or in that of a group above, decides how the numeric fields  *)
(* under it are stored.                                                    *)
(***************************************************************************)
UsageReachesTheField ==
    stage = "compiled" =>
       \A n \in DOMAIN fields :
          LET i == Owner[n].item
              said == UNION {{UsageOf[Word(t)] :
                                 t \in {u \in ToSet(statements[ItemStatements[j]]) :
                                           Word(u) \in DOMAIN UsageOf}} :
                             j \in {i} \cup Enclosing(i)}
          IN  \A usage \in said : items[i].usage = usage
=============================================================================
