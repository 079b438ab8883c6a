--------------------------- MODULE MCDocumentFold ---------------------------
(***************************************************************************)
(* DocumentFold on layouts of one to three schemas.  The costs are such    *)
(* that both caps bite, in either order, and a smaller row can follow a    *)
(* refused one.                                                            *)
(***************************************************************************)
EXTENDS DocumentFold

MCSchema(header_cost, fields) ==
    [header_cost |-> header_cost, fields |-> fields,
     record_length |-> 2 * Len(fields)]
F(name, offset, kind) ==
    [name |-> name, offset |-> offset, size |-> 2, kind |-> kind]

Fill == F("", 0, "Skip")
Plain == F("a", 0, "Text")

MCLayouts ==
    {<<MCSchema(2, <<Fill, F("a", 2, "Integer"), F("", 4, "Skip"), F("b", 6, "Text")>>)>>,
     <<MCSchema(1, <<Plain>>), MCSchema(2, <<Plain, F("", 2, "Skip"), F("b", 4, "Integer")>>)>>,
     <<MCSchema(1, <<Fill>>), MCSchema(1, <<Plain>>), MCSchema(4, <<Plain, F("b", 2, "Text")>>)>>}

MCCosts == {1, 3}
MCLengths == {1, 2}
=============================================================================
