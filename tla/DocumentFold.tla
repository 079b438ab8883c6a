---------------------------- MODULE DocumentFold ----------------------------
(***************************************************************************)
(* The fold from parse events to one Document (src/document_fold.rs):      *)
(* `begin` opens a table per record schema, `row` appends a record to its  *)
(* table or counts it as dropped, `truncation_warnings` and `take` close   *)
(* the fold and write the document with its links.                         *)
(*                                                                         *)
(* A record is known by its place among the records of the walk; its       *)
(* offset and length are as RecordStream gives them, one record after the  *)
(* other.  `cost` is the estimated encoded size of its row.  A decoded     *)
(* cell is known by the byte of the input its field starts at and by       *)
(* whether it is a number.                                                 *)
(***************************************************************************)
EXTENDS Integers, Sequences, FiniteSets, SequencesExt, LayoutShape, Loops

CONSTANTS
    Layouts,    \* sequences of schemas: [fields, record_length, header_cost]
    Prefix,     \* prefix_size of the layout
    Costs,      \* estimated costs of a row's cells
    Lengths,    \* record lengths in bytes
    RowCap,     \* row_cap
    ByteCap,    \* byte_cap
    MaxBytes    \* bound: bytes of input folded

VARIABLES
    described,    \* the layout has a description
    layout,       \* the schemas of layout_info
    phase,        \* "begin", "fold", "finish", "taken"
    tables,       \* TableState per schema
    bytes,        \* estimated bytes folded so far
    budget_spent, \* a row was refused for the byte budget
    seen,         \* history: per schema, its records, folded or dropped
    input,        \* history: where the next record starts
    warnings,     \* truncation_warnings
    document      \* the Document once taken

vars == <<described, layout, phase, tables, bytes, budget_spent, seen,
          input, warnings, document>>

(***************************************************************************)
(* The schemas a layout declares are those validation let through: fields  *)
(* of at least a byte that share none, and named apart unless fillers.     *)
(***************************************************************************)
SchemaField == [name : STRING, offset : Nat, size : Nat \ {0}, kind : Kind]
Schema ==
    {s \in [fields : Seq(SchemaField), record_length : Nat, header_cost : Nat] :
        \A i, j \in DOMAIN s.fields :
           LET f == s.fields[i]
               g == s.fields[j]
           IN  i < j =>
                  /\ f.offset + f.size <= g.offset
                  /\ f.kind # "Skip" /\ g.kind # "Skip" => f.name # g.name}

ASSUME FoldAssumption ==
    /\ Layouts \subseteq Seq(Schema)
    /\ Costs \subseteq Nat /\ Lengths \subseteq Nat
    /\ {Prefix, RowCap, ByteCap, MaxBytes} \subseteq Nat

(***************************************************************************)
(* DocumentFold::new: the two roots of a document, with nothing under them.*)
(***************************************************************************)
Body == <<"body">>
Furniture == <<"furniture">>
EmptyDocument ==
    [texts |-> <<>>, tables |-> <<>>, body |-> <<>>, furniture |-> <<>>]

Init ==
    /\ described \in BOOLEAN
    /\ layout \in Layouts
    /\ phase = "begin"
    /\ tables = <<>>
    /\ bytes = 0
    /\ budget_spent = FALSE
    /\ seen = [k \in 1..Len(layout) |-> <<>>]
    /\ input = 0
    /\ warnings = <<>>
    /\ document = EmptyDocument

-----------------------------------------------------------------------------
(***************************************************************************)
(* begin: one empty table state per schema, in layout order.  Fillers are  *)
(* not columns; every other field declares where in the body it is, and    *)
(* cells are placed under it by its name.                                  *)
(***************************************************************************)
\* Mutant: a column is declared from the field in its place.
ColumnsInPlace(schema) ==
    SubSeq(schema.fields, 1,
           Len(Filter(schema.fields, {f \in ToSet(schema.fields) : f.kind # "Skip"})))

Columns(schema) ==
    Filter(schema.fields, {f \in ToSet(schema.fields) : f.kind # "Skip"})

Column(schema, name) ==
    SelectLastInSeq(Columns(schema), LAMBDA c : c.name = name)

\* A header row stands nowhere in the input.
NoExtent == [schema |-> 0, start |-> 0, size |-> 0]

EmptyTable ==
    [rows |-> 0, dropped |-> 0, first_dropped_offset |-> 0,
     grid |-> <<>>, row_prov |-> <<>>]

Begin ==
    /\ phase = "begin"
    /\ phase' = "fold"
    /\ tables' = [k \in 1..Len(layout) |-> EmptyTable]
    /\ UNCHANGED <<described, layout, bytes, budget_spent, seen, input,
                   warnings, document>>

(***************************************************************************)
(* row: past the row cap of its schema, or once any row was refused for    *)
(* the budget, a record is only counted.                                   *)
(***************************************************************************)
\* Mutant: the offset of the last dropped record.
DroppedLast(state, offset) ==
    [state EXCEPT !.first_dropped_offset = offset, !.dropped = @ + 1]

Dropped(state, offset) ==
    [state EXCEPT !.first_dropped_offset = IF state.dropped = 0 THEN offset
                                                                 ELSE @,
                  !.dropped = @ + 1]

(***************************************************************************)
(* What decode_cells made of a record: a named cell per field that is not  *)
(* a filler.  values is what `row` makes of them, one per column, empty    *)
(* where no cell has its name; a text cell has no number beside it.        *)
(***************************************************************************)
Decoded(schema, record) ==
    {[name |-> f.name, numeric |-> f.kind # "Text",
      at |-> record.start + Prefix + f.offset] :
        f \in {g \in ToSet(schema.fields) : g.kind # "Skip"}}

NoValue == [text |-> <<>>, number |-> FALSE]

Values(schema, cells) ==
    [c \in DOMAIN Columns(schema) |->
        LET under == {cell \in cells : Column(schema, cell.name) = c}
        IN  IF under = {} THEN NoValue
            ELSE LET cell == CHOOSE cell \in under : TRUE
                 IN  [text |-> <<cell.at>>, number |-> cell.numeric]]

TableCell(value, row, column, header) ==
    [text |-> value.text, number |-> value.number, header |-> header,
     row |-> row, column |-> column]

Cells(values, row) ==
    [c \in DOMAIN values |-> TableCell(values[c], row, c - 1, FALSE)]

Header(schema) ==
    [c \in DOMAIN Columns(schema) |->
        TableCell([text |-> <<Columns(schema)[c].name>>, number |-> FALSE],
                  0, c - 1, TRUE)]

Folded(state, schema, record) ==
    [state EXCEPT !.rows = @ + 1,
                  !.grid = Append(@, Cells(Values(schema, Decoded(schema, record)),
                                           state.rows + 1)),
                  !.row_prov = Append(@, record)]

\* Mutant: a refusal closes the budget for its own schema only.
PastCapOfSchema(state) ==
    state.rows >= RowCap \/ (budget_spent /\ state.dropped > 0)

PastCap(state) == state.rows >= RowCap \/ budget_spent

Cost(k, cost) ==
    cost + IF tables[k].rows = 0 THEN layout[k].header_cost ELSE 0

Record(k, size) == [schema |-> k, start |-> input, size |-> size]

RowCounted(k, size) ==
    /\ PastCap(tables[k])
    /\ tables' = [tables EXCEPT ![k] = Dropped(@, input)]
    /\ UNCHANGED <<bytes, budget_spent>>

\* Mutant: a refused row does not close the budget.
RowRefusedAlone(k, cost) ==
    /\ ~PastCap(tables[k])
    /\ bytes + Cost(k, cost) > ByteCap
    /\ tables' = [tables EXCEPT ![k] = Dropped(@, input)]
    /\ UNCHANGED <<bytes, budget_spent>>

RowRefused(k, cost) ==
    /\ ~PastCap(tables[k])
    /\ bytes + Cost(k, cost) > ByteCap
    /\ budget_spent' = TRUE
    /\ tables' = [tables EXCEPT ![k] = Dropped(@, input)]
    /\ UNCHANGED bytes

RowFolded(k, size, cost) ==
    /\ ~PastCap(tables[k])
    /\ bytes + Cost(k, cost) <= ByteCap
    /\ bytes' = bytes + Cost(k, cost)
    /\ tables' = [tables EXCEPT
                    ![k] = Folded(@, layout[k], Record(k, size))]
    /\ UNCHANGED budget_spent

Row(k, size, cost) ==
    /\ phase = "fold"
    /\ input + size <= MaxBytes
    /\ RowCounted(k, size) \/ RowRefused(k, cost) \/ RowFolded(k, size, cost)
    /\ seen' = [seen EXCEPT ![k] = Append(@, [start |-> input, cost |-> cost])]
    /\ input' = input + size
    /\ UNCHANGED <<described, layout, phase, warnings, document>>

-----------------------------------------------------------------------------
(***************************************************************************)
(* truncation_warnings, in schema order, for every table that lost rows.   *)
(***************************************************************************)
Warnings ==
    LET cut == Filter([k \in 1..Len(tables) |-> k],
                      {k \in 1..Len(tables) : tables[k].dropped > 0})
    IN  [i \in 1..Len(cut) |->
            [schema |-> cut[i],
             byte_offset |-> tables[cut[i]].first_dropped_offset]]

Warn ==
    /\ phase = "fold"
    /\ phase' = "finish"
    /\ warnings' = Warnings
    /\ UNCHANGED <<described, layout, tables, bytes, budget_spent, seen,
                   input, document>>

(***************************************************************************)
(* take: the description, then for each schema that occurred a heading, if *)
(* the layout declares several schemas, and its table.  Each item gets the *)
(* next free ref of its arena and is listed by the body.                   *)
(***************************************************************************)
TextItem(label, ref) == [self_ref |-> ref, parent |-> Body, label |-> label]

AddText(doc, label) ==
    LET ref == <<"texts", Len(doc.texts)>>
    IN  [doc EXCEPT !.texts = Append(@, TextItem(label, ref)),
                    !.body = Append(@, ref)]

(***************************************************************************)
(* table_custom_fields: the older home of what the typed table says; the   *)
(* number of dropped rows is there only when rows were dropped.            *)
(***************************************************************************)
TableCustomFields(k, state) ==
    [schema |-> k, record_length |-> layout[k].record_length,
     rows |-> state.rows,
     rows_truncated |-> IF state.dropped > 0 THEN {state.dropped} ELSE {}]

TableItem(k, ref) ==
    LET state == tables[k]
        header == Header(layout[k])
    IN  [self_ref       |-> ref,
         parent         |-> Body,
         schema         |-> k,
         num_rows       |-> state.rows + 1,
         grid           |-> <<header>> \o state.grid,
         table_cells    |-> header \o FlattenSeq(state.grid),
         row_prov       |-> <<NoExtent>> \o state.row_prov,
         columns        |-> Columns(layout[k]),
         record_length  |-> layout[k].record_length,
         rows_truncated |-> state.dropped,
         custom_fields  |-> TableCustomFields(k, state)]

AddTable(doc, k) ==
    LET ref == <<"tables", Len(doc.tables)>>
    IN  [doc EXCEPT !.tables = Append(@, TableItem(k, ref)),
                    !.body = Append(@, ref)]

\* Mutant: a table all of whose rows were dropped is left out.
OccursIfFolded(k) == tables[k].rows > 0

Occurs(k) == tables[k].rows > 0 \/ tables[k].dropped > 0

AddSchema(doc, k) ==
    IF ~Occurs(k) THEN doc
    ELSE IF Len(tables) > 1 THEN AddTable(AddText(doc, k), k)
    ELSE AddTable(doc, k)

Written(doc) ==
    LET after[k \in 0..Len(tables)] ==
            IF k > 0 THEN AddSchema(after[k - 1], k)
            ELSE IF described THEN AddText(doc, 0)
            ELSE doc
    IN  after[Len(tables)]

Take ==
    /\ phase = "finish"
    /\ phase' = "taken"
    /\ document' = Written(document)
    /\ UNCHANGED <<described, layout, tables, bytes, budget_spent, seen,
                   input, warnings>>

Next ==
    \/ Begin
    \/ \E k \in 1..Len(layout), size \in Lengths, cost \in Costs :
          Row(k, size, cost)
    \/ Warn
    \/ Take

Spec == Init /\ [][Next]_vars

-----------------------------------------------------------------------------
(***************************************************************************)
(* integrity_errors (with Links): every self ref once, every child and     *)
(* every parent resolves, and a parent lists the item that claims it.      *)
(***************************************************************************)
Items(doc) == doc.texts \o doc.tables

Refs(doc) ==
    {Body, Furniture} \cup {Items(doc)[i].self_ref : i \in DOMAIN Items(doc)}

Listed(doc, ref) ==
    CASE ref = Body      -> ToSet(doc.body)
      [] ref = Furniture -> ToSet(doc.furniture)
      [] OTHER           -> {}

Repeated(doc) ==
    {i \in DOMAIN Items(doc) :
        \/ Items(doc)[i].self_ref \in {Body, Furniture}
        \/ \E j \in 1..(i - 1) : Items(doc)[j].self_ref = Items(doc)[i].self_ref}

Dangling(doc) == (Listed(doc, Body) \cup Listed(doc, Furniture)) \ Refs(doc)

\* Mutant: a child that its parent does not list goes unnoticed.
ClaimsOnlyResolved(doc) ==
    {i \in DOMAIN Items(doc) : Items(doc)[i].parent \notin Refs(doc)}

BadClaims(doc) ==
    {i \in DOMAIN Items(doc) :
        \/ Items(doc)[i].parent \notin Refs(doc)
        \/ Items(doc)[i].self_ref \notin Listed(doc, Items(doc)[i].parent)}

Sound(doc) ==
    Repeated(doc) = {} /\ Dangling(doc) = {} /\ BadClaims(doc) = {}

-----------------------------------------------------------------------------
(***************************************************************************)
(* "Each table stays a prefix of its rows" (budget_spent), whichever of    *)
(* the two caps cut it and whatever the other schemas did, and what is not *)
(* in the table is counted.                                                *)
(***************************************************************************)
TablesArePrefixes ==
    \A k \in DOMAIN tables :
        /\ tables[k].rows + tables[k].dropped = Len(seen[k])
        /\ \A i \in 1..tables[k].rows :
              tables[k].row_prov[i].start = seen[k][i].start

(***************************************************************************)
(* There is one budget (byte_cap, budget_spent).  The estimate is what was *)
(* folded: the rows in the tables, and a header row for each table that    *)
(* has any, and it never passes the cap.  Once a row was refused for it    *)
(* "every later row is too": when a table was cut short of the row cap, no *)
(* table holds a record from behind the one it was cut at, however small.  *)
(***************************************************************************)
CostsOf(s, n) == [i \in 1..n |-> s[i].cost]

RowsCost(k) ==
    Total(CostsOf(seen[k], tables[k].rows))
        + IF tables[k].rows > 0 THEN layout[k].header_cost ELSE 0

Charged ==
    /\ bytes = Total([k \in 1..Len(tables) |-> RowsCost(k)])
    /\ bytes <= ByteCap

ClosedForAll ==
    \A k, j \in DOMAIN tables :
        tables[k].rows < RowCap /\ tables[k].dropped > 0 =>
            \A i \in 1..tables[j].rows :
                seen[j][i].start <= seen[k][tables[k].rows + 1].start

BudgetHeld == Charged /\ ClosedForAll

(***************************************************************************)
(* A table that was cut is reported, once, at the first record that is not *)
(* in it; a table that was not is not; and the reports are in layout order *)
(* (truncation_warnings).                                                  *)
(***************************************************************************)
WarningsTell ==
    phase \in {"finish", "taken"} =>
        /\ \A k \in DOMAIN tables :
              tables[k].rows < Len(seen[k]) <=>
                 \E w \in ToSet(warnings) : w.schema = k
        /\ \A w \in ToSet(warnings) :
              w.byte_offset = seen[w.schema][tables[w.schema].rows + 1].start
        /\ \A i, j \in DOMAIN warnings :
              i < j => warnings[i].schema < warnings[j].schema

Unlinked(doc, i) == [doc EXCEPT !.body = RemoveAt(@, i)]
WithoutText(doc, i) == [doc EXCEPT !.texts = RemoveAt(@, i)]
WithoutTable(doc, i) == [doc EXCEPT !.tables = RemoveAt(@, i)]
Renamed(doc, i, ref) == [doc EXCEPT !.tables[i].self_ref = ref]

(***************************************************************************)
(* The check is worth ending with (integrity_errors: a link written in one *)
(* direction only is a fragment that silently loses items): of a document  *)
(* of the fold, one with a child taken off the body, an item lost from its *)
(* arena, or an item with the ref of another is not sound.                 *)
(***************************************************************************)
CheckFindsBrokenLinks ==
    phase = "taken" =>
        LET texts == DOMAIN document.texts
            tables_ == DOMAIN document.tables
        IN  /\ \A i \in DOMAIN document.body : ~Sound(Unlinked(document, i))
            /\ \A i \in texts : ~Sound(WithoutText(document, i))
            /\ \A i \in tables_ : ~Sound(WithoutTable(document, i))
            /\ \A i \in tables_ :
                  \A ref \in Refs(document) \ {document.tables[i].self_ref} :
                     ~Sound(Renamed(document, i, ref))

(***************************************************************************)
(* What the body reads, by following its refs.                             *)
(***************************************************************************)
Reads ==
    LET items == Items(document)
        at(ref) == CHOOSE i \in DOMAIN items : items[i].self_ref = ref
        Item(ref) == IF ref[1] = "texts" THEN <<"text", items[at(ref)].label>>
                                         ELSE <<"table", items[at(ref)].schema>>
    IN  [i \in DOMAIN document.body |-> Item(document.body[i])]

(***************************************************************************)
(* The document is safe to merge (integrity_errors finds nothing, which is *)
(* what every fold test ends with), its body lists every item once, and    *)
(* reads: the description, then the schemas that occurred in layout order, *)
(* each heading right before its table; no other schema has one, not even  *)
(* for a table that the caps left empty.                                   *)
(***************************************************************************)
LinksHold ==
    phase = "taken" =>
        LET Section(k) == IF seen[k] = <<>> THEN <<>>
                          ELSE IF Len(layout) > 1
                          THEN <<<<"text", k>>, <<"table", k>>>>
                          ELSE <<<<"table", k>>>>
        IN  /\ Sound(document)
            /\ Len(document.body) = Len(Items(document))
            /\ Reads = (IF described THEN <<<<"text", 0>>>> ELSE <<>>)
                         \o FlattenSeq([k \in 1..Len(layout) |-> Section(k)])

(***************************************************************************)
(* The two arenas of a table agree, and both with the provenance and the   *)
(* custom fields: cell, grid row and row_prov entry r are about the r-th   *)
(* record of the schema, with the header at zero.                          *)
(***************************************************************************)
Aligned ==
    \A i \in DOMAIN document.tables :
        LET t == document.tables[i]
        IN  /\ Len(t.grid) = t.num_rows
            /\ Len(t.row_prov) = t.num_rows
            /\ \A r \in DOMAIN t.grid :
                  /\ Len(t.grid[r]) = Len(t.columns)
                  /\ \A c \in DOMAIN t.grid[r] :
                        <<t.grid[r][c].row, t.grid[r][c].column>> = <<r - 1, c - 1>>
            /\ t.table_cells = FlattenSeq(t.grid)
            /\ \A r \in 1..(t.num_rows - 1) :
                  t.row_prov[r + 1].start = seen[t.schema][r].start
            /\ t.rows_truncated = Len(seen[t.schema]) + 1 - t.num_rows
            /\ t.custom_fields.rows = t.num_rows - 1
            /\ t.custom_fields.rows_truncated
                  = IF t.rows_truncated = 0 THEN {} ELSE {t.rows_truncated}

(***************************************************************************)
(* A cell can be traced to its bytes (column, row_prov): it is in the row  *)
(* of its record, whose extent, past the prefix, at the offset its column  *)
(* declares, is where its value was decoded, and a field of the schema is  *)
(* a filler exactly when no column covers it (bytes that no field declares *)
(* are in no column either).                                               *)
(***************************************************************************)
CellsAreLocated ==
  /\ Aligned
  /\ \A i \in DOMAIN document.tables :
        LET t == document.tables[i]
            covered(c) == t.columns[c].offset
                             ..(t.columns[c].offset + t.columns[c].size - 1)
        IN  /\ \A r \in 2..t.num_rows, c \in DOMAIN t.columns :
                  t.grid[r][c].text
                     = <<t.row_prov[r].start + Prefix + t.columns[c].offset>>
            /\ \A f \in ToSet(layout[t.schema].fields) :
                  f.kind = "Skip" <=>
                     \A c \in DOMAIN t.columns : f.offset \notin covered(c)

=============================================================================
