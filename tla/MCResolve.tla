----------------------------- MODULE MCResolve -----------------------------
(***************************************************************************)
(* Resolve on copybooks made of a pool of statements, set in several       *)
(* formats, on every short line of a six-symbol alphabet, and on raw       *)
(* layouts in the two flat forms.                                          *)
(***************************************************************************)
EXTENDS Resolve

MCNumeral ==
    [s \in {"0", "1", "2", "3", "9", "12", "19", "20", "01", "05", "10",
            "50", "66", "77", "88"} |->
        CASE s = "0" -> 0   [] s = "1" -> 1   [] s = "2" -> 2
          [] s = "3" -> 3   [] s = "9" -> 9   [] s = "12" -> 12
          [] s = "19" -> 19 [] s = "20" -> 20 [] s = "01" -> 1
          [] s = "05" -> 5  [] s = "10" -> 10 [] s = "50" -> 50
          [] s = "66" -> 66 [] s = "77" -> 77 [] s = "88" -> 88]
MCSubscript == <<"1", "2", "3">>

-----------------------------------------------------------------------------
(***************************************************************************)
(* Statements, as sequences of words; W makes a token of a keyword, a name *)
(* or a number, N repeats a picture symbol.                                *)
(***************************************************************************)
W(w) == <<w>>
N(c, n) == <<c, "(", n, ")">>
Decl(level, name, clauses) == <<W(level), W(name)>> \o clauses
Pic(p) == <<W("PIC"), p>>
Occurs(n) == <<W("OCCURS"), W(n), W("TIMES")>>
Lit(s) == <<"'">> \o s \o <<"'">>

Root == <<W("01"), W("R")>>

Body ==
    {Decl("05", "A", Pic(<<"X">>)),
     Decl("05", "B", Pic(N("9", "3")) \o <<W("COMP-3")>>),
     Decl("05", "G", <<>>),
     Decl("05", "FILLER", <<>>),
     Decl("10", "C", Pic(<<"S", "9", "V", "9">>) \o Occurs("2")),
     Decl("10", "FILLER", Pic(N("X", "2"))),
     Decl("10", "A", <<W("PICTURE"), W("IS"), <<"9">>, W("USAGE"), W("IS"),
                       W("COMP")>>),
     Decl("50", "L", Pic(<<"X">>)),
     Decl("88", "ON", <<W("VALUE"), Lit(<<"Y">>), W("THRU"), Lit(<<"Z">>)>>),
     Decl("88", "OFF", <<W("VALUES"), W("ARE"), W("1"), W("2")>>),
     Decl("77", "N", Pic(N("9", "12")) \o <<W("COMP")>>)}

Odd ==
    {Decl("05", "A", <<W("REDEFINES"), W("B")>>),
     Decl("05", "D", Pic(<<"Z", "9", ".", "9">>)),
     Decl("05", "E", Pic(<<"X">>) \o <<W("VALUE"), Lit(<<".", " ">>)>>),
     Decl("05", "T", Occurs("2")),
     Decl("05", "P", <<W("PIC")>>),
     Decl("05", "U", Pic(<<"9">>) \o <<W("USAGE"), W("IS")>>),
     Decl("05", "U", Pic(<<"9">>) \o <<W("USAGE"), W("INDEX")>>),
     Decl("05", "U", Pic(<<"9">>) \o <<W("USAGE"), W("DISPLAY"), W("SYNC")>>),
     Decl("05", "O", Pic(<<"X">>) \o Occurs("0")),
     Decl("05", "O", Pic(<<"X">>) \o Occurs("9")),
     Decl("05", "O", Pic(<<"9">>) \o <<W("JUST"), W("RIGHT"), W("GLOBAL")>>),
     Decl("05", "O", Pic(<<"9">>) \o <<W("TO")>>),
     Decl("05", "O", Pic(N("X", "9")) \o Occurs("2")),
     <<W("05"), W("PIC"), <<"9">>>>,
     <<W("05")>>, <<W("88")>>, <<W("L"), W("A")>>,
     Decl("66", "A", <<W("RENAMES"), W("B")>>),
     Decl("88", "A", <<>>),
     Decl("88", "PIC", <<W("VALUE"), W("1")>>),
     Decl("88", "A", <<W("VALUE"), W("THRU"), W("1")>>),
     Decl("88", "A", <<W("VALUE"), W("1"), W("THRU")>>),
     Decl("05", "V", <<W("COMP-3")>>),
     Decl("05", "F", Pic(<<"9">>) \o <<W("VALUE"), W("1"), W("COMP-3")>>)}
    \cup {Decl("05", "D", Pic(p) \o u) :
             p \in {<<"(", "2", ")">>, <<"9", "(">>, <<"9", "(", ")">>,
                    N("9", "V"), N("9", "0"), N("9", "2") \o <<"(", "2", ")">>,
                    <<"9", "S">>, <<"V", "9", "V">>, <<"S">>, <<"X", "V">>,
                    <<"X", "Z">>, <<"X", "9">>, N("9", "20") \o <<"9">>,
                    <<"V">> \o N("9", "3"), <<"S">> \o N("9", "19"),
                    <<"S">> \o N("9", "9"), N("9", "12")},
             u \in {<<>>, <<W("COMP-3")>>, <<W("BINARY")>>}}

Copybooks ==
    {<<Root, s, t, u>> : s, t, u \in Body}
        \cup {<<Root, s>> : s \in Body \cup Odd} \cup {<<s>> : s \in Body \cup Odd}
        \cup {<<Root, Decl("05", "A", Pic(<<"X">>)), s>> : s \in Odd}
        \cup {<<Root, s, Decl("10", "Z", Pic(<<"9">>))>> : s \in Odd}
        \cup {<<s, Root, Decl("10", "Z", Pic(<<"9">>))>> : s \in Body}

(***************************************************************************)
(* The formats: one statement to a line, free; on cards with sequence      *)
(* numbers, with a comment in front and an identification area behind;     *)
(* everything on one line; one word to a line; free and indented.          *)
(***************************************************************************)
Join(words) == FlattenSeq([w \in DOMAIN words |->
                              IF w = 1 THEN words[1] ELSE <<" ">> \o words[w]])
Free(book) == [s \in DOMAIN book |-> Join(book[s]) \o <<".">>]
Pad(l, n) == l \o [k \in 1..(n - Len(l)) |-> " "]
Card(book) ==
    <<<<"1", "2", "*", "A", "'">>>>
    \o [s \in DOMAIN book |->
           Pad(<<"1", "2", " ">> \o Join(book[s]) \o <<".">>, 24) \o <<"'">>]
OneLine(book) == <<Join(Free(book))>>
Split(book) == FlattenSeq([s \in DOMAIN book |->
                              Append([w \in DOMAIN book[s] |-> book[s][w]],
                                     <<".">>)])

Indented(book) == [s \in DOMAIN book |-> <<" ">> \o Free(book)[s]]

Alphabet == {" ", ".", "'", "\"", "A", "05"}
Lines(n) == UNION {[1..k -> Alphabet] : k \in 0..n}

MCSources ==
    {Free(book) : book \in Copybooks}
        \cup {OneLine(book) : book \in {b \in Copybooks : Len(b) = 3}}
        \cup {Card(book) : book \in {b \in Copybooks : Len(b) = 2}}
        \cup {Indented(book) : book \in {b \in Copybooks : Len(b) = 2}}
        \cup {Split(book) : book \in {b \in Copybooks : Len(b) = 2}}
        \cup {<<l>> : l \in Lines(4)} \cup {<<l, m>> : l, m \in Lines(2)}

-----------------------------------------------------------------------------
(***************************************************************************)
(* Raw layouts.                                                            *)
(***************************************************************************)
MCProtoType ==
    [t \in {"UNSPECIFIED", "STRING"} |-> "Text"]
        @@ [t \in {"INTEGER"} |-> "Integer"]
        @@ [t \in {"PACKED_DECIMAL"} |-> "PackedDecimal"]
        @@ [t \in {"ZONED_DECIMAL"} |-> "ZonedDecimal"]
        @@ [t \in {"SKIP"} |-> "Skip"]
MCJsonType ==
    [t \in {"absent", "string"} |-> "Text"]
        @@ [t \in {"unsigned_integer"} |-> "UnsignedInteger"]
        @@ [t \in {"skip"} |-> "Skip"]

F(name, type, size, offset, scale) ==
    [name |-> name, type |-> type, size |-> size, offset |-> offset,
     scale |-> scale]
A == <<"A">>
B == <<"B">>

Single ==
    {F(n, t, s, {}, c) :
        n \in {A, <<>>}, s \in {0, 1, 3, 5, 13}, c \in {0, 1, 5, 9},
        t \in {"STRING", "INTEGER", "PACKED_DECIMAL", "ZONED_DECIMAL", "SKIP",
               "UNKNOWN"}}
Placed ==
    {F(n, t, s, o, 0) :
        n \in {A, B}, t \in {"STRING", "SKIP"}, s \in {1, 2, 9},
        o \in {{}, {0}, {2}, {12}, {31}}}
Small ==
    {F(n, t, s, o, 0) :
        n \in {A, B}, t \in {"STRING", "SKIP"}, s \in {1}, o \in {{}, {2}, {31}}}

R(name, selector, fs) == [name |-> name, selector |-> selector, fields |-> fs]
L(footer, length, type, rs) ==
    [header_size |-> 1, footer_size |-> footer, record_length_field |-> length,
     record_type_field |-> type, records |-> rs]
One == <<F(A, "STRING", 1, {}, 0)>>

MCLayouts ==
    {L(0, {}, {}, <<R(<<>>, {}, fs)>>) :
        fs \in {<<>>} \cup {<<f>> : f \in Single \cup Placed}
                 \cup {<<f, g>> : f, g \in Placed}
                 \cup {<<f, g, h>> : f, g, h \in Small}}
    \cup {L(footer, l, t, <<R(<<>>, {"a"}, One)>>) :
             footer \in {2, 3}, l \in {{}} \cup {{f} : f \in Single},
             t \in {{}} \cup {{F(<<>>, "STRING", s, {}, 0)} : s \in {0, 2, 13}}}
    \cup {L(0, {}, t, rs) :
             t \in {{}, {F(<<>>, "STRING", 1, {}, 0)}, {F(A, "SKIP", 1, {}, 0)},
                    {F(A, "UNKNOWN", 1, {}, 0)},
                    {F(A, "ZONED_DECIMAL", 2, {}, 5)}},
             rs \in {<<>>} \cup
                    {<<R(n, s, One), R(m, u, One)>> :
                        n, m \in {A, <<>>, DefaultRecordName},
                        s, u \in {{}, {"a"}, {"b"}}}}
    \cup {L(0, {}, {F(<<>>, "STRING", 1, {}, 0)},
            <<R(A, {"a"}, One \o One), R(B, {"b"}, fs)>>) :
             fs \in {<<f, g>> : f, g \in Small}
                      \cup {<<f, g, h>> : f, g, h \in Small}}

JsonOf(l) ==
    LET type == [t \in {"STRING", "INTEGER", "PACKED_DECIMAL", "ZONED_DECIMAL",
                        "SKIP", "UNKNOWN"} |->
                    CASE t = "STRING" -> "absent"
                      [] t = "INTEGER" -> "unsigned_integer"
                      [] t = "SKIP" -> "skip"
                      [] OTHER -> "number"]
        Field2(f) == [f EXCEPT !.type = type[@]]
    IN  [l EXCEPT !.records =
            [k \in DOMAIN @ |->
                [@[k] EXCEPT !.fields = [i \in DOMAIN @ |-> Field2(@[i])]]],
            !.record_length_field = {Field2(f) : f \in @},
            !.record_type_field = {Field2(f) : f \in @}]

MCOptions ==
    {[form |-> "none"]}
        \cup {[form |-> "copybook", lines |-> s] : s \in MCSources}
        \cup {[form |-> "proto", layout |-> l] : l \in MCLayouts}
        \cup {[form |-> "json", layout |-> JsonOf(l)] :
                 l \in {m \in MCLayouts : Len(m.records) <= 1}}
MCRawLayouts ==
    {LiftLayout(l, MCProtoType) :
        l \in {m \in MCLayouts : DeclaredTypes(m) \subseteq DOMAIN MCProtoType}}
=============================================================================
