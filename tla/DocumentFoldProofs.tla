------------------------- MODULE DocumentFoldProofs -------------------------
(***************************************************************************)
(* For every layout, every caps and every sequence of records: what the    *)
(* tables of a document hold, what is said about what they do not hold,    *)
(* and that its links are sound.                                           *)
(***************************************************************************)
EXTENDS DocumentFold, Induction, TLAPS

SeenRecord == [start : Nat, cost : Nat]
Extent == [schema : Nat, start : Nat, size : Nat]
GridCell ==
    [text : Seq(Nat \cup STRING), number : BOOLEAN, header : BOOLEAN,
     row : Nat, column : Nat]
TableState ==
    [rows : Nat, dropped : Nat, first_dropped_offset : Nat,
     grid : Seq(Seq(GridCell)), row_prov : Seq(Extent)]

(***************************************************************************)
(* The inductive invariant.  A table that lost a record has met a cap that *)
(* no later record gets past; what it holds is the first of its records,   *)
(* a grid row made of each.                                                *)
(***************************************************************************)
Typed ==
    /\ described \in BOOLEAN
    /\ layout \in Seq(Schema)
    /\ phase \in {"begin", "fold", "finish", "taken"}
    /\ tables \in Seq(TableState)
    /\ Len(tables) = IF phase = "begin" THEN 0 ELSE Len(layout)
    /\ seen \in [1..Len(layout) -> Seq(SeenRecord)]
    /\ input \in Nat
    /\ bytes \in Nat
    /\ budget_spent \in BOOLEAN

Unstarted ==
    phase = "begin" =>
        /\ bytes = 0
        /\ \A k \in 1..Len(layout) : seen[k] = <<>>

RowOf(k, i, extent, row) ==
    /\ extent.schema = k
    /\ extent.start = seen[k][i].start
    /\ row = Cells(Values(layout[k], Decoded(layout[k], extent)), i)

TableKept(k) ==
    LET state == tables[k]
    IN  /\ state.rows + state.dropped = Len(seen[k])
        /\ Len(state.grid) = state.rows
        /\ Len(state.row_prov) = state.rows
        /\ \A i \in 1..state.rows :
              RowOf(k, i, state.row_prov[i], state.grid[i])
        /\ state.dropped > 0 =>
              /\ PastCap(state)
              /\ state.first_dropped_offset = seen[k][state.rows + 1].start

TablesKept == \A k \in DOMAIN tables : TableKept(k)

WarningsKept == phase \in {"finish", "taken"} => warnings = Warnings

DocumentKept ==
    document = IF phase = "taken" THEN Written(EmptyDocument)
               ELSE EmptyDocument

DInv ==
    /\ Typed
    /\ Unstarted
    /\ TablesKept
    /\ Charged
    /\ WarningsKept
    /\ DocumentKept

-----------------------------------------------------------------------------
(***************************************************************************)
(* The columns of a schema are its fields that are not fillers, in order.  *)
(***************************************************************************)
LEMMA ColumnsPick ==
    ASSUME NEW schema \in Schema
    PROVE  /\ schema.fields \in Seq(SchemaField)
           /\ Columns(schema) \in Seq(SchemaField)
           /\ \E at : Picks(Columns(schema), at, schema.fields,
                            Len(schema.fields),
                            {f \in ToSet(schema.fields) : f.kind # "Skip"})
  <1>1. schema.fields \in Seq(SchemaField)
    BY DEF Schema
  <1> QED
    BY <1>1, FilterPicks DEF Columns

(***************************************************************************)
(* A row of decoded cells is a row of grid cells, one per column.          *)
(***************************************************************************)
LEMMA CellsTyped ==
    ASSUME Typed, NEW k \in 1..Len(layout), NEW extent \in Extent,
           extent.schema = k, NEW i \in Nat
    PROVE  /\ Cells(Values(layout[k], Decoded(layout[k], extent)), i) \in Seq(GridCell)
           /\ Len(Cells(Values(layout[k], Decoded(layout[k], extent)), i))
                 = Len(Columns(layout[k]))
  <1> DEFINE columns == Columns(layout[k])
             values == Values(layout[k], Decoded(layout[k], extent))
             Value == [text : Seq(Nat \cup STRING), number : BOOLEAN]
  <1>1. layout[k] \in Schema
    BY DEF Typed
  <1>2. columns \in Seq(SchemaField) /\ layout[k].fields \in Seq(SchemaField)
    BY <1>1, ColumnsPick
  <1>3. ASSUME NEW cell \in Decoded(layout[k], extent)
        PROVE  cell.at \in Nat /\ cell.numeric \in BOOLEAN
    <2>1. PICK f \in ToSet(layout[k].fields) :
             cell = [name |-> f.name, numeric |-> f.kind # "Text",
                     at |-> extent.start + Prefix + f.offset]
      BY <1>3 DEF Decoded
    <2>2. f \in SchemaField
      BY <1>2, <2>1 DEF ToSet
    <2>3. extent.start \in Nat /\ Prefix \in Nat /\ f.offset \in Nat
      BY <2>2, FoldAssumption DEF Extent, SchemaField
    <2> QED
      BY <2>1, <2>3
  <1>4. ASSUME NEW c \in DOMAIN columns
        PROVE  values[c] \in Value
    <2> DEFINE under == {cell \in Decoded(layout[k], extent) :
                           Column(layout[k], cell.name) = c}
    <2>1. values[c] = IF under = {} THEN NoValue
                      ELSE LET cell == CHOOSE cell \in under : TRUE
                           IN  [text |-> <<cell.at>>, number |-> cell.numeric]
      BY <1>4 DEF Values, columns
    <2>2. CASE under = {}
      BY <2>1, <2>2 DEF NoValue
    <2>3. CASE under # {}
      <3>1. PICK cell \in Decoded(layout[k], extent) :
               values[c] = [text |-> <<cell.at>>, number |-> cell.numeric]
        BY <2>1, <2>3
      <3> QED
        BY <1>3, <3>1
    <2> QED
      BY <2>2, <2>3
  <1>5. DOMAIN values = 1..Len(columns) /\ DOMAIN columns = 1..Len(columns)
        /\ Len(columns) \in Nat
    BY <1>2 DEF Values, columns
  <1> HIDE DEF values, columns
  <1> DEFINE cells == Cells(values, i)
  <1>6. cells = [c \in 1..Len(columns) |-> TableCell(values[c], i, c - 1, FALSE)]
    BY <1>5 DEF Cells
  <1>7. \A c \in 1..Len(columns) :
           TableCell(values[c], i, c - 1, FALSE) \in GridCell
    BY <1>4, <1>5 DEF TableCell, GridCell
  <1> HIDE DEF cells
  <1>8. cells \in Seq(GridCell) /\ Len(cells) = Len(columns)
    <2>1. cells \in [1..Len(columns) -> GridCell]
      BY <1>6, <1>7
    <2> QED
      BY <1>5, <2>1
  <1> QED
    BY <1>8 DEF cells, values, columns

-----------------------------------------------------------------------------
(***************************************************************************)
(* A fold that has not seen the layout.                                    *)
(***************************************************************************)
LEMMA DInvInit == Init => DInv
  <1> SUFFICES ASSUME Init PROVE DInv
    OBVIOUS
  <1>1. /\ layout \in Seq(Schema) /\ tables = <<>> /\ phase = "begin"
        /\ bytes = 0 /\ ByteCap \in Nat
    BY FoldAssumption DEF Init
  <1>2. Typed
    <2>1. <<>> \in Seq(SeenRecord) /\ <<>> \in Seq(TableState) /\ Len(<<>>) = 0
      OBVIOUS
    <2>2. seen \in [1..Len(layout) -> Seq(SeenRecord)]
      BY <2>1 DEF Init
    <2>3. described \in BOOLEAN /\ budget_spent \in BOOLEAN
      BY DEF Init
    <2>4. /\ tables \in Seq(TableState) /\ Len(tables) = 0
          /\ input \in Nat /\ bytes \in Nat
      BY <1>1, <2>1 DEF Init
    <2> QED
      BY <1>1, <2>2, <2>3, <2>4 DEF Typed
  <1>3. Unstarted
    BY DEF Init, Unstarted
  <1>4. TablesKept
    BY <1>1 DEF TablesKept
  <1>5. Charged
    <2>1. [k \in 1..Len(tables) |-> RowsCost(k)] = <<>>
      BY <1>1
    <2> QED
      BY <1>1, <2>1, TotalEmpty DEF Charged
  <1> QED
    BY <1>1, <1>2, <1>3, <1>4, <1>5 DEF DInv, WarningsKept, DocumentKept, Init

(***************************************************************************)
(* What a document would be written from: the tables and the layout.       *)
(***************************************************************************)
LEMMA WrittenStays ==
    ASSUME UNCHANGED <<described, layout, tables>>
    PROVE  Written(EmptyDocument)' = Written(EmptyDocument)
  BY DEF Written, AddSchema, AddText, AddTable, TableItem, TableCustomFields,
         Occurs, Header, TextItem, EmptyDocument

(***************************************************************************)
(* A step that leaves the tables and the records alone.                    *)
(***************************************************************************)
LEMMA TablesStay ==
    ASSUME DInv, UNCHANGED <<layout, tables, bytes, budget_spent, seen>>
    PROVE  TablesKept' /\ Charged' /\ Warnings' = Warnings
  <1>1. TablesKept'
    <2>1. ASSUME NEW k \in DOMAIN tables, TableKept(k) PROVE TableKept(k)'
      BY <2>1 DEF TableKept, RowOf, PastCap
    <2> QED
      BY <2>1 DEF DInv, TablesKept
  <1>2. Charged'
    BY DEF DInv, Charged, RowsCost
  <1>3. Warnings' = Warnings
    BY DEF Warnings
  <1> QED
    BY <1>1, <1>2, <1>3

(***************************************************************************)
(* begin: an empty table per schema costs nothing and lacks nothing.       *)
(***************************************************************************)
LEMMA BeginStep ==
    ASSUME DInv, Begin
    PROVE  DInv'
  <1> DEFINE n == Len(layout)
  <1>1. /\ phase = "begin" /\ phase' = "fold"
        /\ tables' = [k \in 1..n |-> EmptyTable]
        /\ UNCHANGED <<described, layout, bytes, budget_spent, seen, input,
                       warnings, document>>
    BY DEF Begin
  <1>2. n \in Nat /\ bytes = 0 /\ \A k \in 1..n : seen[k] = <<>>
    BY <1>1 DEF DInv, Typed, Unstarted
  <1>3. EmptyTable \in TableState
    <2>1. <<>> \in Seq(Seq(GridCell)) /\ <<>> \in Seq(Extent) /\ 0 \in Nat
      OBVIOUS
    <2> QED
      BY <2>1 DEF EmptyTable, TableState
  <1>4. tables' \in Seq(TableState) /\ Len(tables') = n /\ DOMAIN tables' = 1..n
    BY <1>1, <1>2, <1>3
  <1>5. Typed'
    BY <1>1, <1>4 DEF DInv, Typed
  <1>6. TablesKept'
    <2>1. ASSUME NEW k \in 1..n PROVE TableKept(k)'
      <3>1. tables'[k] = EmptyTable /\ seen'[k] = <<>>
        BY <1>1, <1>2
      <3> QED
        BY <3>1 DEF TableKept, EmptyTable
    <2> QED
      BY <1>4, <2>1 DEF TablesKept
  <1>7. Charged'
    <2> DEFINE costs == [k \in 1..n |-> 0]
    <2>1. \A k \in 1..n : RowsCost(k)' = 0
      <3>1. ASSUME NEW k \in 1..n PROVE RowsCost(k)' = 0
        <4>1. tables'[k].rows = 0
          BY <1>1 DEF EmptyTable
        <4>2. CostsOf(seen'[k], tables'[k].rows) = <<>>
          BY <4>1 DEF CostsOf
        <4> QED
          BY <4>1, <4>2, TotalEmpty DEF RowsCost
      <3> QED
        BY <3>1
    <2>2. [k \in 1..Len(tables') |-> RowsCost(k)'] = costs
      BY <1>4, <2>1
    <2>3. Total(costs) = 0
      BY <1>2, TotalZero
    <2>4. bytes' = 0 /\ ByteCap \in Nat
      BY <1>1, <1>2, FoldAssumption
    <2> QED
      BY <2>2, <2>3, <2>4 DEF Charged
  <1> QED
    BY <1>1, <1>5, <1>6, <1>7
       DEF DInv, Unstarted, WarningsKept, DocumentKept

-----------------------------------------------------------------------------
(***************************************************************************)
(* Records that agree cost the same.                                       *)
(***************************************************************************)
LEMMA CostsAgree ==
    ASSUME NEW n \in Nat, NEW s, NEW t, \A i \in 1..n : s[i] = t[i]
    PROVE  CostsOf(s, n) = CostsOf(t, n)
  BY DEF CostsOf

(***************************************************************************)
(* The records of a schema that its table holds, and what they cost.       *)
(***************************************************************************)
LEMMA RowsPaid ==
    ASSUME DInv, NEW k \in DOMAIN tables
    PROVE  /\ k \in 1..Len(layout) /\ Len(tables) = Len(layout)
           /\ tables[k] \in TableState /\ layout[k] \in Schema
           /\ seen[k] \in Seq(SeenRecord)
           /\ tables[k].rows \in 0..Len(seen[k])
           /\ CostsOf(seen[k], tables[k].rows) \in Seq(Nat)
           /\ RowsCost(k) \in Nat
  <1> DEFINE state == tables[k]
             costs == CostsOf(seen[k], tables[k].rows)
  <1>1. Typed /\ TablesKept
    BY DEF DInv
  <1>2. k \in 1..Len(layout) /\ Len(tables) = Len(layout) /\ state \in TableState
    BY <1>1 DEF Typed
  <1>3. layout[k] \in Schema /\ seen[k] \in Seq(SeenRecord)
    BY <1>1, <1>2 DEF Typed
  <1>4. state.rows \in Nat /\ state.dropped \in Nat
    BY <1>2 DEF TableState
  <1>5. state.rows + state.dropped = Len(seen[k]) /\ Len(seen[k]) \in Nat
    BY <1>1, <1>3 DEF TablesKept, TableKept
  <1>6. state.rows \in 0..Len(seen[k])
    BY <1>4, <1>5
  <1>7. costs \in Seq(Nat)
    <2>1. \A i \in 1..state.rows : seen[k][i] \in SeenRecord
      BY <1>3, <1>5, <1>6
    <2>2. costs \in [1..state.rows -> Nat]
      BY <2>1 DEF SeenRecord, CostsOf
    <2> QED
      BY <1>4, <2>2
  <1>8. RowsCost(k) \in Nat
    <2>1. layout[k].header_cost \in Nat
      BY <1>3 DEF Schema
    <2>2. Total(costs) \in Nat
      BY <1>7, TotalIsNat
    <2> HIDE DEF costs
    <2>3. RowsCost(k) = Total(costs) + IF state.rows > 0
                                       THEN layout[k].header_cost ELSE 0
      BY DEF RowsCost, costs
    <2> QED
      BY <2>1, <2>2, <2>3
  <1> QED
    BY <1>2, <1>3, <1>6, <1>7, <1>8

(***************************************************************************)
(* What a record of one schema leaves of the others, and what it appends.  *)
(***************************************************************************)
LEMMA SeenGrows ==
    ASSUME DInv, NEW k \in DOMAIN tables, NEW r \in SeenRecord,
           seen' = [seen EXCEPT ![k] = Append(@, r)]
    PROVE  /\ seen' \in [1..Len(layout) -> Seq(SeenRecord)]
           /\ \A j \in 1..Len(layout) : j # k => seen'[j] = seen[j]
           /\ Len(seen'[k]) = Len(seen[k]) + 1 /\ Len(seen[k]) \in Nat
           /\ \A i \in 1..Len(seen[k]) : seen'[k][i] = seen[k][i]
           /\ seen'[k][Len(seen[k]) + 1] = r
  <1>1. /\ seen \in [1..Len(layout) -> Seq(SeenRecord)]
        /\ k \in 1..Len(layout) /\ seen[k] \in Seq(SeenRecord)
    BY RowsPaid DEF DInv, Typed
  <1>2. seen'[k] = Append(seen[k], r) /\ Append(seen[k], r) \in Seq(SeenRecord)
    BY <1>1
  <1> QED
    BY <1>1, <1>2

(***************************************************************************)
(* A table whose records and own state are as before is kept.              *)
(***************************************************************************)
LEMMA OtherTableKept ==
    ASSUME NEW j, TableKept(j), tables'[j] = tables[j], seen'[j] = seen[j],
           UNCHANGED layout, budget_spent => budget_spent'
    PROVE  TableKept(j)'
  BY DEF TableKept, RowOf, PastCap

(***************************************************************************)
(* Counting a record changes the count, and where the first one was.       *)
(***************************************************************************)
LEMMA DroppedState ==
    ASSUME NEW state \in TableState, NEW offset \in Nat
    PROVE  LET after == Dropped(state, offset)
           IN  /\ after \in TableState
               /\ after.rows = state.rows
               /\ after.dropped = state.dropped + 1
               /\ after.grid = state.grid
               /\ after.row_prov = state.row_prov
               /\ after.first_dropped_offset = IF state.dropped = 0 THEN offset
                                               ELSE state.first_dropped_offset
  <1>1. /\ (IF state.dropped = 0 THEN offset ELSE state.first_dropped_offset)
              \in Nat
        /\ state.dropped + 1 \in Nat
    BY DEF TableState
  <1>2. Dropped(state, offset) \in TableState
    BY <1>1 DEF Dropped, TableState
  <1>3. /\ Dropped(state, offset).rows = state.rows
        /\ Dropped(state, offset).dropped = state.dropped + 1
        /\ Dropped(state, offset).grid = state.grid
        /\ Dropped(state, offset).row_prov = state.row_prov
    BY DEF Dropped, TableState
  <1>4. Dropped(state, offset).first_dropped_offset
           = IF state.dropped = 0 THEN offset ELSE state.first_dropped_offset
    BY DEF Dropped, TableState
  <1> QED
    BY <1>2, <1>3, <1>4

(***************************************************************************)
(* A record that is only counted, for either cap: the table has met one    *)
(* that the records after it do not get past.                              *)
(***************************************************************************)
LEMMA RecordDropped ==
    ASSUME DInv, NEW k \in DOMAIN tables, NEW r \in SeenRecord, r.start = input,
           seen' = [seen EXCEPT ![k] = Append(@, r)],
           tables' = [tables EXCEPT ![k] = Dropped(@, input)],
           UNCHANGED <<layout, bytes>>,
           budget_spent => budget_spent',
           tables[k].rows >= RowCap \/ budget_spent'
    PROVE  TablesKept' /\ Charged' /\ tables' \in [1..Len(layout) -> TableState]
  <1> DEFINE n == Len(layout)
             state == tables[k]
             m == Len(seen[k])
  <1>1. /\ k \in 1..n /\ Len(tables) = n /\ state \in TableState /\ n \in Nat
        /\ state.rows \in 0..m /\ m \in Nat
    <2>1. n \in Nat
      BY DEF DInv, Typed
    <2> QED
      BY <2>1, RowsPaid, SeenGrows
  <1>2. /\ \A j \in 1..n : j # k => seen'[j] = seen[j]
        /\ Len(seen'[k]) = m + 1
        /\ \A i \in 1..m : seen'[k][i] = seen[k][i]
        /\ seen'[k][m + 1] = r
    BY SeenGrows
  <1>3. tables \in [1..n -> TableState] /\ DOMAIN tables = 1..n
    BY <1>1 DEF DInv, Typed
  <1>4. /\ \A j \in 1..n : j # k => tables'[j] = tables[j]
        /\ tables'[k] = Dropped(state, input)
        /\ DOMAIN tables' = 1..n
    BY <1>1, <1>3
  <1>5. /\ state.rows \in Nat /\ state.dropped \in Nat /\ input \in Nat
        /\ state.first_dropped_offset \in Nat
        /\ state.rows + state.dropped = m
    BY <1>1, <1>3 DEF TableState, DInv, Typed, TablesKept, TableKept
  <1>6. /\ tables'[k].rows = state.rows
        /\ tables'[k].dropped = state.dropped + 1
        /\ tables'[k].grid = state.grid
        /\ tables'[k].row_prov = state.row_prov
        /\ tables'[k].first_dropped_offset = IF state.dropped = 0 THEN input
                                             ELSE state.first_dropped_offset
        /\ tables'[k] \in TableState
    <2>1. state \in TableState /\ input \in Nat /\ tables'[k] = Dropped(state, input)
      BY <1>1, <1>4, <1>5
    <2> HIDE DEF state
    <2> QED
      BY <2>1, DroppedState
  <1>7. TableKept(k)'
    <2>1. /\ Len(state.grid) = state.rows
          /\ Len(state.row_prov) = state.rows
          /\ \A i \in 1..state.rows :
                RowOf(k, i, state.row_prov[i], state.grid[i])
          /\ state.dropped > 0 =>
                state.first_dropped_offset = seen[k][state.rows + 1].start
      BY <1>3 DEF DInv, TablesKept, TableKept
    <2>2. \A i \in 1..state.rows : seen'[k][i] = seen[k][i]
      BY <1>1, <1>2
    <2>3. \A i \in 1..state.rows :
             RowOf(k, i, tables[k].row_prov[i], tables[k].grid[i])'
      BY <1>6, <2>1, <2>2 DEF RowOf
    <2>4. tables'[k].first_dropped_offset = seen'[k][state.rows + 1].start
      <3>1. CASE state.dropped = 0
        <4>1. state.rows = m
          BY <1>5, <3>1
        <4> QED
          BY <1>2, <1>6, <3>1, <4>1
      <3>2. CASE state.dropped # 0
        <4>1. state.dropped > 0 /\ state.rows + 1 \in 1..m
          BY <1>5, <3>2
        <4> QED
          BY <1>2, <1>6, <2>1, <3>2, <4>1
      <3> QED
        BY <3>1, <3>2
    <2>5. PastCap(tables[k])'
      BY <1>6 DEF PastCap
    <2>6. tables'[k].rows + tables'[k].dropped = Len(seen'[k])
      BY <1>2, <1>5, <1>6
    <2> QED
      BY <1>6, <2>1, <2>3, <2>4, <2>5, <2>6 DEF TableKept
  <1>8. TablesKept'
    <2>1. ASSUME NEW j \in 1..n, j # k PROVE TableKept(j)'
      <3>1. TableKept(j)
        BY <1>3 DEF DInv, TablesKept
      <3> QED
        BY <1>2, <1>4, <2>1, <3>1, OtherTableKept
    <2> QED
      BY <1>4, <1>7, <2>1 DEF TablesKept
  <1>9. Charged'
    <2>1. ASSUME NEW j \in 1..n PROVE RowsCost(j)' = RowsCost(j)
      <3>1. CASE j = k
        <4>1. \A i \in 1..state.rows : seen'[k][i] = seen[k][i]
          BY <1>1, <1>2
        <4>2. CostsOf(seen'[k], state.rows) = CostsOf(seen[k], state.rows)
          BY <1>5, <4>1, CostsAgree
        <4>3. RowsCost(k)' = Total(CostsOf(seen'[k], state.rows))
                               + IF state.rows > 0 THEN layout[k].header_cost
                                                   ELSE 0
          BY <1>6 DEF RowsCost
        <4> QED
          BY <3>1, <4>2, <4>3 DEF RowsCost
      <3>2. CASE j # k
        BY <1>2, <1>4, <3>2 DEF RowsCost
      <3> QED
        BY <3>1, <3>2
    <2>2. Len(tables') = n
      BY <1>1, <1>3
    <2>3. [j \in 1..Len(tables') |-> RowsCost(j)']
             = [j \in 1..Len(tables) |-> RowsCost(j)]
      BY <1>1, <2>1, <2>2
    <2> QED
      BY <2>3 DEF DInv, Charged
  <1>10. tables' \in [1..n -> TableState]
    BY <1>3, <1>4, <1>6
  <1> QED
    BY <1>8, <1>9, <1>10

(***************************************************************************)
(* Folding a record appends a row and where it came from.                  *)
(***************************************************************************)
LEMMA FoldedState ==
    ASSUME NEW state \in TableState, NEW schema, NEW e \in Extent,
           Cells(Values(schema, Decoded(schema, e)), state.rows + 1) \in Seq(GridCell)
    PROVE  LET after == Folded(state, schema, e)
               row == Cells(Values(schema, Decoded(schema, e)), state.rows + 1)
           IN  /\ after \in TableState
               /\ after.rows = state.rows + 1
               /\ after.dropped = state.dropped
               /\ after.grid = Append(state.grid, row)
               /\ after.row_prov = Append(state.row_prov, e)
               /\ after.first_dropped_offset = state.first_dropped_offset
  <1> DEFINE row == Cells(Values(schema, Decoded(schema, e)), state.rows + 1)
  <1>1. /\ state.rows + 1 \in Nat
        /\ Append(state.grid, row) \in Seq(Seq(GridCell))
        /\ Append(state.row_prov, e) \in Seq(Extent)
    <2> HIDE DEF row
    <2>1. state.grid \in Seq(Seq(GridCell)) /\ state.row_prov \in Seq(Extent)
          /\ state.rows \in Nat
      BY DEF TableState
    <2> QED
      BY <2>1 DEF row
  <1>2. Folded(state, schema, e) =
           [state EXCEPT !.rows = state.rows + 1,
                         !.grid = Append(state.grid, row),
                         !.row_prov = Append(state.row_prov, e)]
    BY DEF Folded
  <1> HIDE DEF row
  <1>3. Folded(state, schema, e) \in TableState
    BY <1>1, <1>2 DEF TableState
  <1>4. /\ Folded(state, schema, e).rows = state.rows + 1
        /\ Folded(state, schema, e).dropped = state.dropped
        /\ Folded(state, schema, e).grid = Append(state.grid, row)
    BY <1>2 DEF TableState
  <1>5. /\ Folded(state, schema, e).row_prov = Append(state.row_prov, e)
        /\ Folded(state, schema, e).first_dropped_offset
              = state.first_dropped_offset
    BY <1>2 DEF TableState
  <1> QED
    BY <1>3, <1>4, <1>5 DEF row

(***************************************************************************)
(* A record that is folded: its table has lost none so far, so that its    *)
(* row is the next of its records, and the budget pays for it.             *)
(***************************************************************************)
LEMMA RecordFolded ==
    ASSUME DInv, NEW k \in DOMAIN tables, NEW size \in Nat, NEW cost \in Nat,
           seen' = [seen EXCEPT ![k] = Append(@, [start |-> input, cost |-> cost])],
           tables' = [tables EXCEPT ![k] = Folded(@, layout[k], Record(k, size))],
           ~PastCap(tables[k]),
           bytes' = bytes + Cost(k, cost), bytes' <= ByteCap,
           UNCHANGED <<layout, budget_spent>>
    PROVE  /\ TablesKept' /\ Charged' /\ bytes' \in Nat
           /\ tables' \in [1..Len(layout) -> TableState]
  <1> DEFINE n == Len(layout)
             state == tables[k]
             m == Len(seen[k])
             r == [start |-> input, cost |-> cost]
             e == Record(k, size)
             row == Cells(Values(layout[k], Decoded(layout[k], e)), state.rows + 1)
  <1>1. /\ k \in 1..n /\ Len(tables) = n /\ state \in TableState /\ n \in Nat
        /\ layout[k] \in Schema /\ input \in Nat /\ m \in Nat
        /\ seen[k] \in Seq(SeenRecord) /\ Typed
    <2>1. n \in Nat /\ input \in Nat /\ Typed
      BY DEF DInv, Typed
    <2>2. k \in 1..n /\ Len(tables) = n /\ state \in TableState
          /\ layout[k] \in Schema /\ seen[k] \in Seq(SeenRecord)
      BY RowsPaid
    <2> QED
      BY <2>1, <2>2
  <1>2. r \in SeenRecord /\ e \in Extent
    BY <1>1 DEF SeenRecord, Record, Extent
  <1>3. /\ \A j \in 1..n : j # k => seen'[j] = seen[j]
        /\ Len(seen'[k]) = m + 1
        /\ \A i \in 1..m : seen'[k][i] = seen[k][i]
        /\ seen'[k][m + 1] = r
        /\ seen'[k] \in Seq(SeenRecord)
    <2> HIDE DEF r
    <2> QED
      BY <1>1, <1>2, SeenGrows DEF r
  <1>4. tables \in [1..n -> TableState] /\ DOMAIN tables = 1..n
    BY <1>1 DEF Typed
  <1>5. /\ \A j \in 1..n : j # k => tables'[j] = tables[j]
        /\ tables'[k] = Folded(state, layout[k], e)
        /\ DOMAIN tables' = 1..n
    BY <1>1, <1>4
  <1>6. /\ state.rows = m /\ state.dropped = 0 /\ state.rows \in Nat
        /\ Len(state.grid) = m /\ Len(state.row_prov) = m
        /\ \A i \in 1..m : RowOf(k, i, state.row_prov[i], state.grid[i])
    <2>1. state.rows \in Nat /\ state.dropped \in Nat
      BY <1>1 DEF TableState
    <2>2. TableKept(k)
      BY DEF DInv, TablesKept
    <2>3. state.dropped = 0
      BY <2>1, <2>2 DEF TableKept
    <2> QED
      BY <1>1, <2>1, <2>2, <2>3 DEF TableKept
  <1>7. row \in Seq(GridCell) /\ e.schema = k /\ e.start = input
    <2>1. e.schema = k /\ e.start = input
      BY DEF Record
    <2>2. state.rows + 1 \in Nat
      BY <1>6
    <2> HIDE DEF e
    <2> QED
      BY <1>1, <1>2, <2>1, <2>2, CellsTyped
  <1>8. /\ tables'[k] \in TableState
        /\ tables'[k].rows = m + 1
        /\ tables'[k].dropped = 0
        /\ tables'[k].grid = Append(state.grid, row)
        /\ tables'[k].row_prov = Append(state.row_prov, e)
    <2> DEFINE after == Folded(state, layout[k], e)
    <2>1. state.rows + 1 \in Nat /\ state.rows + 1 = m + 1
      BY <1>6
    <2> HIDE DEF e
    <2>2. /\ after \in TableState
          /\ after.rows = state.rows + 1
          /\ after.dropped = state.dropped
          /\ after.grid = Append(state.grid, row)
          /\ after.row_prov = Append(state.row_prov, e)
      <3> DEFINE schema == layout[k]
      <3>1. /\ state \in TableState /\ e \in Extent
            /\ Cells(Values(schema, Decoded(schema, e)), state.rows + 1)
                  \in Seq(GridCell)
        BY <1>1, <1>2, <1>7
      <3> HIDE DEF state, schema
      <3> QED
        BY <3>1, FoldedState DEF schema
    <2> HIDE DEF after, row
    <2> QED
      BY <1>5, <1>6, <2>1, <2>2 DEF after
  <1>9. state.grid \in Seq(Seq(GridCell)) /\ state.row_prov \in Seq(Extent)
    BY <1>1 DEF TableState
  <1> HIDE DEF e, r, row
  <1>10. TableKept(k)'
    <2>1. /\ Len(tables'[k].grid) = m + 1
          /\ Len(tables'[k].row_prov) = m + 1
          /\ \A i \in 1..m : /\ tables'[k].grid[i] = state.grid[i]
                             /\ tables'[k].row_prov[i] = state.row_prov[i]
          /\ tables'[k].grid[m + 1] = row
          /\ tables'[k].row_prov[m + 1] = e
      <3> HIDE DEF m, state
      <3>1. /\ Len(tables'[k].grid) = m + 1
            /\ \A i \in 1..m : tables'[k].grid[i] = state.grid[i]
            /\ tables'[k].grid[m + 1] = row
        BY <1>6, <1>7, <1>8, <1>9, AppendHolds
      <3>2. /\ Len(tables'[k].row_prov) = m + 1
            /\ \A i \in 1..m : tables'[k].row_prov[i] = state.row_prov[i]
            /\ tables'[k].row_prov[m + 1] = e
        BY <1>2, <1>6, <1>8, <1>9, AppendHolds
      <3> QED
        BY <3>1, <3>2
    <2>2. \A i \in 1..m : RowOf(k, i, tables[k].row_prov[i], tables[k].grid[i])'
      BY <1>3, <1>6, <2>1 DEF RowOf
    <2>3. /\ seen'[k][m + 1].start = input
          /\ row = Cells(Values(layout[k], Decoded(layout[k], e)), m + 1)
      BY <1>3, <1>6 DEF r, row
    <2>4. ASSUME NEW i \in 1..(m + 1)
          PROVE  RowOf(k, i, tables[k].row_prov[i], tables[k].grid[i])'
      <3>1. CASE i \in 1..m
        BY <2>2, <3>1
      <3>2. CASE i = m + 1
        BY <1>7, <2>1, <2>3, <3>2 DEF RowOf
      <3> QED
        BY <1>1, <3>1, <3>2
    <2>5. tables'[k].rows + tables'[k].dropped = Len(seen'[k])
      BY <1>1, <1>3, <1>8
    <2>6. ~(tables'[k].dropped > 0)
      BY <1>8
    <2> QED
      BY <1>8, <2>1, <2>4, <2>5, <2>6 DEF TableKept
  <1>11. TablesKept'
    <2>1. ASSUME NEW j \in 1..n, j # k PROVE TableKept(j)'
      <3>1. TableKept(j)
        BY <1>4 DEF DInv, TablesKept
      <3> QED
        BY <1>3, <1>5, <2>1, <3>1, OtherTableKept
    <2> QED
      BY <1>5, <1>10, <2>1 DEF TablesKept
  <1>12. /\ layout[k].header_cost \in Nat /\ bytes \in Nat
         /\ Cost(k, cost) = cost + (IF m = 0 THEN layout[k].header_cost ELSE 0)
         /\ Cost(k, cost) \in Nat
    <2>1. layout[k].header_cost \in Nat /\ bytes \in Nat
      BY <1>1 DEF Schema, Typed
    <2>2. Cost(k, cost) = cost + (IF m = 0 THEN layout[k].header_cost ELSE 0)
      BY <1>6 DEF Cost
    <2> QED
      BY <2>1, <2>2
  <1>13. RowsCost(k)' = RowsCost(k) + Cost(k, cost)
    <2> DEFINE s == CostsOf(seen[k], m)
               t == CostsOf(seen'[k], m + 1)
    <2>1. s \in Seq(Nat) /\ Total(s) \in Nat
      BY <1>6, RowsPaid, TotalIsNat
    <2>2. /\ t \in Seq(Nat) /\ Len(t) = m + 1 /\ Len(s) = m
          /\ \A i \in 1..m : t[i] = s[i]
          /\ t[m + 1] = cost
      <3>1. \A i \in 1..(m + 1) : seen'[k][i].cost \in Nat
        <4>1. \A i \in 1..(m + 1) : seen'[k][i] \in SeenRecord
          BY <1>3
        <4> QED
          BY <4>1 DEF SeenRecord
      <3>2. t \in [1..(m + 1) -> Nat]
        <4>1. t = [i \in 1..(m + 1) |-> seen'[k][i].cost]
          BY DEF CostsOf
        <4> HIDE DEF t
        <4> QED
          BY <3>1, <4>1
      <3>3. t \in Seq(Nat) /\ Len(t) = m + 1 /\ m + 1 \in 1..(m + 1)
        <4>1. m + 1 \in Nat /\ m + 1 \in 1..(m + 1)
          BY <1>1
        <4> HIDE DEF t, m
        <4> QED
          BY <3>2, <4>1, IntervalIsSeq
      <3>4. Len(s) = m
        BY <1>1, <2>1 DEF CostsOf
      <3>5. \A i \in 1..m : t[i] = seen'[k][i].cost /\ s[i] = seen[k][i].cost
        BY <1>1 DEF CostsOf
      <3>6. t[m + 1] = seen'[k][m + 1].cost
        BY <3>3 DEF CostsOf
      <3> QED
        BY <1>3, <3>3, <3>4, <3>5, <3>6 DEF r
    <2> HIDE DEF s, t
    <2>3. Total(t) = Total(s) + cost
      <3>1. Total(t) = Total(s) + t[Len(t)]
        <4>1. /\ t \in Seq(Nat) /\ s \in Seq(Nat) /\ Len(t) = Len(s) + 1
              /\ \A i \in 1..Len(s) : t[i] = s[i]
          BY <2>1, <2>2
        <4> QED
          BY <4>1, TotalGrows
      <3>2. t[Len(t)] = cost
        BY <2>2
      <3> QED
        BY <3>1, <3>2
    <2>4. RowsCost(k)' = Total(t) + layout[k].header_cost
      <3>1. RowsCost(k)' = Total(CostsOf(seen'[k], m + 1))
                             + IF m + 1 > 0 THEN layout[k].header_cost ELSE 0
        BY <1>8 DEF RowsCost
      <3>2. m + 1 > 0
        BY <1>1
      <3> QED
        BY <3>1, <3>2 DEF t
    <2>5. RowsCost(k) = Total(s) + IF m > 0 THEN layout[k].header_cost ELSE 0
      BY <1>6 DEF RowsCost, s
    <2>6. CASE m = 0
      BY <1>12, <2>1, <2>3, <2>4, <2>5, <2>6
    <2>7. CASE m # 0
      <3>1. m > 0
        BY <1>1, <2>7
      <3> QED
        BY <1>12, <2>1, <2>3, <2>4, <2>5, <2>7, <3>1
    <2> QED
      BY <2>6, <2>7
  <1>14. \A j \in 1..n : j # k => RowsCost(j)' = RowsCost(j)
    BY <1>3, <1>5 DEF RowsCost
  <1>15. Charged'
    <2> DEFINE s == [j \in 1..n |-> RowsCost(j)]
               t == [j \in 1..n |-> RowsCost(j)']
    <2>1. \A j \in 1..n : RowsCost(j) \in Nat
      BY <1>4, RowsPaid
    <2>2. \A j \in 1..n : RowsCost(j)' \in Nat
      <3>1. ASSUME NEW j \in 1..n PROVE RowsCost(j)' \in Nat
        <4>1. CASE j = k
          <5>1. RowsCost(k) \in Nat /\ Cost(k, cost) \in Nat
            BY <1>1, <1>12, <2>1
          <5>2. RowsCost(k) + Cost(k, cost) \in Nat
            BY <5>1
          <5> QED
            BY <1>13, <4>1, <5>2
        <4>2. CASE j # k
          BY <1>14, <2>1, <4>2
        <4> QED
          BY <4>1, <4>2
      <3> QED
        BY <3>1
    <2>3. s \in Seq(Nat) /\ Len(s) = n /\ \A j \in 1..n : s[j] = RowsCost(j)
      BY <1>1, <2>1
    <2>4. t \in Seq(Nat) /\ Len(t) = n /\ \A j \in 1..n : t[j] = RowsCost(j)'
      BY <1>1, <2>2
    <2>5. bytes = Total(s)
      BY <1>1 DEF DInv, Charged
    <2>6. Len(tables') = n
      BY <1>1, <1>4
    <2>7. [j \in 1..Len(tables') |-> RowsCost(j)'] = t
      BY <2>6
    <2> HIDE DEF s, t
    <2>8. Total(t) = Total(s) + Cost(k, cost)
      <3>1. /\ Len(t) = Len(s) /\ k \in 1..Len(s)
            /\ t[k] = s[k] + Cost(k, cost)
            /\ \A i \in 1..Len(s) : i # k => t[i] = s[i]
        BY <1>1, <1>13, <1>14, <2>3, <2>4
      <3> QED
        BY <1>12, <2>3, <2>4, <3>1, TotalChanges
    <2> QED
      BY <2>5, <2>7, <2>8 DEF Charged
  <1>16. tables' \in [1..n -> TableState]
    <2>1. ASSUME NEW j \in 1..n PROVE tables'[j] \in TableState
      <3>1. CASE j = k
        BY <1>8, <3>1
      <3>2. CASE j # k
        BY <1>4, <1>5, <3>2
      <3> QED
        BY <3>1, <3>2
    <2>2. tables' = [j \in 1..n |-> tables'[j]]
      BY <1>4, <1>5
    <2> QED
      BY <2>1, <2>2
  <1>17. bytes' \in Nat
    BY <1>12
  <1> QED
    BY <1>11, <1>15, <1>16, <1>17, Zenon DEF n

-----------------------------------------------------------------------------
(***************************************************************************)
(* row: whichever way a record goes, while no document is written and      *)
(* nothing is said about what was dropped.                                 *)
(***************************************************************************)
LEMMA RowStep ==
    ASSUME DInv, NEW k \in 1..Len(layout), NEW size \in Lengths,
           NEW cost \in Costs, Row(k, size, cost)
    PROVE  DInv'
  <1> DEFINE n == Len(layout)
             r == [start |-> input, cost |-> cost]
             state == tables[k]
  <1>1. /\ phase = "fold" /\ input' = input + size
        /\ seen' = [seen EXCEPT ![k] = Append(@, r)]
        /\ UNCHANGED <<described, layout, phase, warnings, document>>
    BY DEF Row
  <1>2. size \in Nat /\ cost \in Nat
    BY FoldAssumption
  <1>3. Typed /\ k \in DOMAIN tables /\ n \in Nat /\ bytes \in Nat
        /\ input \in Nat /\ state \in TableState /\ ByteCap \in Nat
    BY <1>1, FoldAssumption DEF DInv, Typed
  <1>4. r \in SeenRecord
    BY <1>2, <1>3 DEF SeenRecord
  <1>5. seen' \in [1..n -> Seq(SeenRecord)]
    <2> HIDE DEF r
    <2> QED
      BY <1>1, <1>3, <1>4, SeenGrows
  <1>6. /\ TablesKept' /\ Charged'
        /\ tables' \in [1..n -> TableState]
        /\ bytes' \in Nat /\ budget_spent' \in BOOLEAN
    <2>1. r.start = input
      OBVIOUS
    <2>2. CASE RowCounted(k, size)
      <3>1. /\ tables' = [tables EXCEPT ![k] = Dropped(@, input)]
            /\ UNCHANGED <<bytes, budget_spent>>
            /\ tables[k].rows >= RowCap \/ budget_spent'
        BY <2>2 DEF RowCounted, PastCap
      <3>2. bytes' \in Nat /\ budget_spent' \in BOOLEAN
        BY <1>3, <3>1 DEF Typed
      <3> HIDE DEF r
      <3> QED
        BY <1>1, <1>3, <1>4, <2>1, <3>1, <3>2, RecordDropped
    <2>3. CASE RowRefused(k, cost)
      <3>1. /\ tables' = [tables EXCEPT ![k] = Dropped(@, input)]
            /\ UNCHANGED bytes /\ budget_spent' = TRUE
        BY <2>3 DEF RowRefused
      <3> HIDE DEF r
      <3> QED
        BY <1>1, <1>3, <1>4, <2>1, <3>1, RecordDropped
    <2>4. CASE RowFolded(k, size, cost)
      <3>1. /\ ~PastCap(tables[k])
            /\ bytes' = bytes + Cost(k, cost)
            /\ bytes + Cost(k, cost) <= ByteCap
            /\ tables' = [tables EXCEPT
                            ![k] = Folded(@, layout[k], Record(k, size))]
            /\ UNCHANGED budget_spent
        BY <2>4 DEF RowFolded
      <3>2. budget_spent' \in BOOLEAN
        BY <1>3, <3>1 DEF Typed
      <3>3. bytes' <= ByteCap
        BY <3>1
      <3>4. UNCHANGED <<layout, budget_spent>>
        BY <1>1, <3>1
      <3> QED
        BY <1>1, <1>2, <1>3, <3>1, <3>2, <3>3, <3>4, RecordFolded
    <2> QED
      BY <2>2, <2>3, <2>4 DEF Row
  <1>7. Typed'
    <2>1. tables' \in Seq(TableState) /\ Len(tables') = n
      BY <1>3, <1>6, IntervalIsSeq
    <2>2. input' \in Nat
      BY <1>1, <1>2, <1>3
    <2> QED
      BY <1>1, <1>3, <1>5, <1>6, <2>1, <2>2 DEF Typed
  <1> QED
    BY <1>1, <1>6, <1>7 DEF DInv, Unstarted, WarningsKept, DocumentKept

(***************************************************************************)
(* truncation_warnings says it once, of the tables as they are left.       *)
(***************************************************************************)
LEMMA WarnStep ==
    ASSUME DInv, Warn
    PROVE  DInv'
  <1>1. /\ phase = "fold" /\ phase' = "finish" /\ warnings' = Warnings
        /\ UNCHANGED <<described, layout, tables, bytes, budget_spent, seen,
                       input, document>>
    BY DEF Warn
  <1>2. TablesKept' /\ Charged' /\ Warnings' = Warnings
    BY <1>1, TablesStay
  <1>3. Typed'
    BY <1>1 DEF DInv, Typed
  <1> QED
    BY <1>1, <1>2, <1>3 DEF DInv, Unstarted, WarningsKept, DocumentKept

(***************************************************************************)
(* take writes the document, which was empty until then.                   *)
(***************************************************************************)
LEMMA TakeStep ==
    ASSUME DInv, Take
    PROVE  DInv'
  <1>1. /\ phase = "finish" /\ phase' = "taken"
        /\ document' = Written(document)
        /\ UNCHANGED <<described, layout, tables, bytes, budget_spent, seen,
                       input, warnings>>
    BY DEF Take
  <1>2. TablesKept' /\ Charged' /\ Warnings' = Warnings
    BY <1>1, TablesStay
  <1>3. document = EmptyDocument
    BY <1>1 DEF DInv, DocumentKept
  <1>4. document' = Written(EmptyDocument)'
    BY <1>1, <1>3, WrittenStays
  <1>5. Typed'
    BY <1>1 DEF DInv, Typed
  <1> QED
    BY <1>1, <1>2, <1>4, <1>5 DEF DInv, Unstarted, WarningsKept, DocumentKept

(***************************************************************************)
(* Nothing changes when nothing is done.                                   *)
(***************************************************************************)
LEMMA StutterStep ==
    ASSUME DInv, UNCHANGED vars
    PROVE  DInv'
  <1>1. UNCHANGED <<described, layout, tables, bytes, budget_spent, seen,
                    input, phase, warnings, document>>
    BY DEF vars
  <1>2. TablesKept' /\ Charged' /\ Warnings' = Warnings
    BY <1>1, TablesStay
  <1>3. Written(EmptyDocument)' = Written(EmptyDocument)
    BY <1>1, WrittenStays
  <1>4. Typed'
    BY <1>1 DEF DInv, Typed
  <1> QED
    BY <1>1, <1>2, <1>3, <1>4
       DEF DInv, Unstarted, WarningsKept, DocumentKept

(***************************************************************************)
(* The invariant of the fold holds from begin to take.                     *)
(***************************************************************************)
THEOREM DInvInductive == Spec => []DInv
  <1>1. ASSUME DInv, [Next]_vars PROVE DInv'
    <2>1. CASE Begin
      BY <1>1, <2>1, BeginStep
    <2>2. ASSUME NEW k \in 1..Len(layout), NEW size \in Lengths,
                 NEW cost \in Costs, Row(k, size, cost)
          PROVE  DInv'
      BY <1>1, <2>2, RowStep
    <2>3. CASE Warn
      BY <1>1, <2>3, WarnStep
    <2>4. CASE Take
      BY <1>1, <2>4, TakeStep
    <2>5. CASE UNCHANGED vars
      BY <1>1, <2>5, StutterStep
    <2> QED
      BY <1>1, <2>1, <2>2, <2>3, <2>4, <2>5 DEF Next
  <1> QED
    BY <1>1, DInvInit, PTL DEF Spec

(***************************************************************************)
(* Whichever cap cuts it, and whatever the other schemas do, a table holds *)
(* a prefix of its records and counts the rest (row, budget_spent).        *)
(***************************************************************************)
THEOREM PrefixesKept == Spec => []TablesArePrefixes
  <1>1. DInv => TablesArePrefixes
    BY DEF DInv, TablesKept, TableKept, RowOf, TablesArePrefixes
  <1> QED
    BY <1>1, DInvInductive, PTL

(***************************************************************************)
(* What ClosedForAll takes by induction beside DInv: no record is    *)
(* from behind the next one.                                               *)
(***************************************************************************)
SeenBehind ==
    \A j \in 1..Len(layout) :
        \A i \in 1..Len(seen[j]) : seen[j][i].start <= input

CloseInv == SeenBehind /\ ClosedForAll

(***************************************************************************)
(* A record is behind none of those before it.                             *)
(***************************************************************************)
LEMMA RecordBehind ==
    ASSUME DInv, SeenBehind, NEW k \in 1..Len(layout), NEW size \in Lengths,
           NEW cost \in Costs, Row(k, size, cost)
    PROVE  /\ SeenBehind'
           /\ [start |-> input, cost |-> cost] \in SeenRecord
           /\ k \in DOMAIN tables
  <1> DEFINE r == [start |-> input, cost |-> cost]
             m == Len(seen[k])
  <1>1. /\ seen' = [seen EXCEPT ![k] = Append(@, r)] /\ input' = input + size
        /\ layout' = layout /\ phase = "fold"
    BY DEF Row
  <1>2. size \in Nat /\ cost \in Nat /\ input \in Nat
        /\ k \in DOMAIN tables
    BY <1>1, FoldAssumption DEF DInv, Typed
  <1>3. r \in SeenRecord /\ r.start = input
    BY <1>2 DEF SeenRecord
  <1> HIDE DEF r
  <1>4. /\ seen' \in [1..Len(layout) -> Seq(SeenRecord)]
        /\ \A j \in 1..Len(layout) : j # k => seen'[j] = seen[j]
        /\ Len(seen'[k]) = m + 1 /\ m \in Nat
        /\ \A i \in 1..m : seen'[k][i] = seen[k][i]
        /\ seen'[k][m + 1] = r
    BY <1>1, <1>2, <1>3, SeenGrows
  <1>5. ASSUME NEW j \in 1..Len(layout), NEW i \in 1..Len(seen'[j])
        PROVE  seen'[j][i].start <= input + size
    <2>1. seen[j] \in Seq(SeenRecord)
      BY DEF DInv, Typed
    <2>2. CASE j = k /\ i = m + 1
      BY <1>2, <1>3, <1>4, <2>2
    <2>3. CASE ~(j = k /\ i = m + 1)
      <3>1. i \in 1..Len(seen[j]) /\ seen'[j][i] = seen[j][i]
        BY <1>4, <2>3
      <3>2. seen[j][i].start \in Nat
        <4>1. seen[j][i] \in SeenRecord
          BY <2>1, <3>1
        <4> QED
          BY <4>1 DEF SeenRecord
      <3>3. seen[j][i].start <= input
        BY <3>1 DEF SeenBehind
      <3> QED
        BY <1>2, <3>1, <3>2, <3>3
    <2> QED
      BY <2>2, <2>3
  <1> QED
    BY <1>1, <1>2, <1>3, <1>5 DEF SeenBehind, r

(***************************************************************************)
(* A record that is dropped: the table it is the first lost of has no      *)
(* record in another table behind it.                                      *)
(***************************************************************************)
LEMMA DropClosesForAll ==
    ASSUME DInv, CloseInv, NEW k \in DOMAIN tables, NEW r \in SeenRecord,
           r.start = input,
           seen' = [seen EXCEPT ![k] = Append(@, r)],
           tables' = [tables EXCEPT ![k] = Dropped(@, input)]
    PROVE  ClosedForAll'
  <1> DEFINE n == Len(layout)
             m == Len(seen[k])
  <1>1. /\ k \in 1..n /\ n \in Nat /\ DOMAIN tables = 1..n
        /\ tables \in [1..n -> TableState] /\ input \in Nat
    <2>1. n \in Nat /\ input \in Nat /\ tables \in Seq(TableState)
      BY DEF DInv, Typed
    <2> QED
      BY <2>1, RowsPaid
  <1>2. /\ \A j \in 1..n : j # k => seen'[j] = seen[j]
        /\ m \in Nat
        /\ \A i \in 1..m : seen'[k][i] = seen[k][i]
        /\ seen'[k][m + 1] = r
    BY SeenGrows
  <1>3. /\ DOMAIN tables' = 1..n
        /\ \A j \in 1..n : tables'[j].rows = tables[j].rows
        /\ \A j \in 1..n : j # k => tables'[j] = tables[j]
    <2>1. tables'[k] = Dropped(tables[k], input) /\ tables[k] \in TableState
      BY <1>1
    <2>2. tables'[k].rows = tables[k].rows
      BY <1>1, <2>1, DroppedState
    <2> QED
      BY <1>1, <2>2
  <1>4. ASSUME NEW j \in 1..n
        PROVE  /\ tables[j].rows \in Nat /\ tables[j].dropped \in Nat
               /\ tables[j].rows + tables[j].dropped = Len(seen[j])
               /\ seen[j] \in Seq(SeenRecord)
    BY <1>1 DEF TableState, DInv, Typed, TablesKept, TableKept
  <1>5. ASSUME NEW j \in 1..n, NEW i \in 1..Len(seen[j])
        PROVE  seen'[j][i] = seen[j][i]
    BY <1>2
  <1>6. ASSUME NEW a \in 1..n, NEW b \in 1..n, tables'[a].rows < RowCap,
               tables'[a].dropped > 0, NEW i \in 1..tables'[b].rows
        PROVE  seen'[b][i].start <= seen'[a][tables'[a].rows + 1].start
    <2> DEFINE q == tables[a].rows
    <2>1. /\ i \in 1..tables[b].rows /\ i \in 1..Len(seen[b])
          /\ q \in Nat /\ tables'[a].rows = q
      <3>1. /\ tables[b].rows \in Nat /\ tables[b].dropped \in Nat
            /\ tables[b].rows + tables[b].dropped = Len(seen[b])
            /\ q \in Nat
        BY <1>4
      <3>2. i \in 1..tables[b].rows /\ tables'[a].rows = q
        BY <1>3
      <3> QED
        BY <3>1, <3>2
    <2>2. seen'[b][i] = seen[b][i]
      BY <1>5, <2>1
    <2>3. CASE tables[a].dropped > 0
      <3>1. q + 1 \in 1..Len(seen[a])
        BY <1>4, <2>3
      <3>2. seen'[a][q + 1] = seen[a][q + 1]
        BY <1>5, <3>1
      <3>3. seen[b][i].start <= seen[a][q + 1].start
        BY <1>1, <1>6, <2>1, <2>3 DEF CloseInv, ClosedForAll
      <3> QED
        BY <2>1, <2>2, <3>2, <3>3
    <2>4. CASE ~(tables[a].dropped > 0)
      <3>1. a = k
        BY <1>3, <1>6, <2>4
      <3>2. q = m
        BY <1>4, <2>4, <3>1
      <3>3. seen'[a][q + 1].start = input
        BY <1>2, <3>1, <3>2
      <3>4. seen[b][i].start <= input
        BY <2>1 DEF CloseInv, SeenBehind
      <3> QED
        BY <2>1, <2>2, <3>3, <3>4
    <2> QED
      BY <2>3, <2>4
  <1>7. ASSUME NEW a \in DOMAIN tables', NEW b \in DOMAIN tables',
               tables'[a].rows < RowCap /\ tables'[a].dropped > 0
        PROVE  \A i \in 1..tables'[b].rows :
                  seen'[b][i].start <= seen'[a][tables'[a].rows + 1].start
    <2>1. a \in 1..n /\ b \in 1..n
      BY <1>3
    <2> HIDE DEF n
    <2> QED
      BY <1>6, <1>7, <2>1, Zenon
  <1> QED
    BY <1>7, Zenon DEF ClosedForAll

(***************************************************************************)
(* While no row was refused for the budget, only the row cap has cut       *)
(* tables, so folding one more record passes nothing over.                 *)
(***************************************************************************)
LEMMA CloseStep ==
    ASSUME DInv, DInv', CloseInv, [Next]_vars
    PROVE  CloseInv'
  <1>1. CASE Begin
    <2>1. /\ tables' = [k \in 1..Len(layout) |-> EmptyTable]
          /\ UNCHANGED <<layout, seen, input>>
      BY <1>1 DEF Begin
    <2>2. SeenBehind'
      BY <2>1 DEF CloseInv, SeenBehind
    <2>3. ASSUME NEW k \in DOMAIN tables' PROVE ~(tables'[k].dropped > 0)
      <3>1. tables'[k] = EmptyTable
        BY <2>1
      <3> QED
        BY <3>1 DEF EmptyTable
    <2> QED
      BY <2>2, <2>3 DEF CloseInv, ClosedForAll
  <1>2. ASSUME NEW k \in 1..Len(layout), NEW size \in Lengths,
               NEW cost \in Costs, Row(k, size, cost)
        PROVE  CloseInv'
    <2> DEFINE r == [start |-> input, cost |-> cost]
    <2>1. SeenBehind' /\ r \in SeenRecord /\ k \in DOMAIN tables
      BY <1>2, RecordBehind DEF CloseInv
    <2>2. seen' = [seen EXCEPT ![k] = Append(@, r)] /\ r.start = input
      BY <1>2 DEF Row
    <2>3. CASE \/ RowCounted(k, size)
               \/ RowRefused(k, cost)
      <3>1. tables' = [tables EXCEPT ![k] = Dropped(@, input)]
        BY <2>3 DEF RowCounted, RowRefused
      <3> HIDE DEF r
      <3> QED
        BY <2>1, <2>2, <3>1, DropClosesForAll DEF CloseInv
    <2>4. CASE RowFolded(k, size, cost)
      <3>1. ~budget_spent'
        BY <2>4 DEF RowFolded, PastCap
      <3>2. ASSUME NEW a \in DOMAIN tables', tables'[a].dropped > 0
            PROVE  tables'[a].rows >= RowCap
        BY <3>1, <3>2 DEF DInv, TablesKept, TableKept, PastCap
      <3>3. ASSUME NEW a \in DOMAIN tables'
            PROVE  tables'[a].rows \in Nat /\ RowCap \in Nat
        <4>1. tables' \in Seq(TableState)
          BY DEF DInv, Typed
        <4>2. tables'[a] \in TableState
          BY <4>1
        <4> QED
          BY <4>2, FoldAssumption DEF TableState
      <3> QED
        BY <2>1, <3>2, <3>3 DEF CloseInv, ClosedForAll
    <2> QED
      BY <1>2, <2>3, <2>4 DEF Row
  <1>3. CASE Warn \/ Take \/ UNCHANGED vars
    <2>1. UNCHANGED <<layout, tables, seen, input>>
      BY <1>3 DEF Warn, Take, vars
    <2> QED
      BY <2>1 DEF CloseInv, SeenBehind, ClosedForAll
  <1> QED
    BY <1>1, <1>2, <1>3 DEF Next

(***************************************************************************)
(* The byte budget is one for all schemas: the estimate is the sum of what *)
(* the tables hold, with one header row for each that holds any, and stays *)
(* within the cap; and no table holds a record behind the one at which the *)
(* budget cut another (row, budget_spent).                                 *)
(***************************************************************************)
THEOREM BudgetKept == Spec => []BudgetHeld
  <1>1. Init => CloseInv
    <2> SUFFICES ASSUME Init PROVE CloseInv
      OBVIOUS
    <2>1. tables = <<>> /\ \A j \in 1..Len(layout) : Len(seen[j]) = 0
      BY DEF Init
    <2> QED
      BY <2>1 DEF CloseInv, SeenBehind, ClosedForAll
  <1>2. DInv /\ CloseInv => BudgetHeld
    BY DEF DInv, CloseInv, BudgetHeld
  <1> QED
    BY <1>1, <1>2, CloseStep, DInvInductive, PTL DEF Spec

(***************************************************************************)
(* What truncation_warnings makes of tables that are kept.                 *)
(***************************************************************************)
LEMMA WarningsOfTables ==
    ASSUME DInv, phase # "begin"
    PROVE  /\ \A k \in DOMAIN tables :
                 tables[k].rows < Len(seen[k]) <=>
                    \E w \in ToSet(Warnings) : w.schema = k
           /\ \A w \in ToSet(Warnings) :
                 w.byte_offset = seen[w.schema][tables[w.schema].rows + 1].start
           /\ \A i, j \in DOMAIN Warnings :
                 i < j => Warnings[i].schema < Warnings[j].schema
  <1> DEFINE n == Len(tables)
             s == [k \in 1..n |-> k]
             T == {k \in 1..n : tables[k].dropped > 0}
             cut == Filter(s, T)
  <1>1. n \in Nat /\ DOMAIN tables = 1..n
    BY DEF DInv, Typed
  <1>2. s \in Seq(1..n) /\ Len(s) = n
    BY <1>1
  <1>3. \A k \in 1..n : /\ tables[k].rows < Len(seen[k]) <=> tables[k].dropped > 0
                        /\ tables[k].dropped > 0 =>
                              tables[k].first_dropped_offset
                                 = seen[k][tables[k].rows + 1].start
    <2>1. ASSUME NEW k \in 1..n
          PROVE  tables[k].rows < Len(seen[k]) <=> tables[k].dropped > 0
      <3>1. tables[k].rows \in Nat /\ tables[k].dropped \in Nat
        BY <1>1, RowsPaid DEF TableState
      <3>2. tables[k].rows + tables[k].dropped = Len(seen[k])
        BY <1>1 DEF DInv, TablesKept, TableKept
      <3> QED
        BY <3>1, <3>2
    <2>2. \A k \in 1..n : tables[k].dropped > 0 =>
                              tables[k].first_dropped_offset
                                 = seen[k][tables[k].rows + 1].start
      BY <1>1 DEF DInv, TablesKept, TableKept
    <2> QED
      BY <2>1, <2>2
  <1>4. PICK at : /\ cut \in Seq(1..n)
                  /\ Picks(cut, at, s, n, T)
    <2> HIDE DEF s, T
    <2> QED
      BY <1>2, FilterPicks
  <1>5. Warnings = [i \in 1..Len(cut) |->
                      [schema |-> cut[i],
                       byte_offset |-> tables[cut[i]].first_dropped_offset]]
    BY DEF Warnings
  <1> HIDE DEF cut
  <1>6. /\ Len(cut) \in Nat
        /\ \A c \in 1..Len(cut) : at[c] \in 1..n /\ cut[c] = at[c] /\ cut[c] \in T
        /\ \A c, d \in 1..Len(cut) : c < d => cut[c] < cut[d]
        /\ \A i \in T : \E c \in 1..Len(cut) : cut[c] = i
    <2>1. Len(cut) \in Nat
      BY <1>4
    <2>2. /\ at \in [1..Len(cut) -> 1..n]
          /\ \A c \in 1..Len(cut) : cut[c] = s[at[c]] /\ s[at[c]] \in T
          /\ \A c, d \in 1..Len(cut) : c < d => at[c] < at[d]
          /\ \A i \in 1..n : s[i] \in T => \E c \in 1..Len(cut) : at[c] = i
      BY <1>4 DEF Picks
    <2>3. \A i \in 1..n : s[i] = i
      OBVIOUS
    <2> HIDE DEF s
    <2>4. \A c \in 1..Len(cut) : at[c] \in 1..n /\ cut[c] = at[c] /\ cut[c] \in T
      BY <2>2, <2>3
    <2>5. \A i \in T : i \in 1..n
      OBVIOUS
    <2> HIDE DEF T
    <2>6. ASSUME NEW c \in 1..Len(cut), NEW d \in 1..Len(cut), c < d
          PROVE  cut[c] < cut[d]
      <3>1. at[c] < at[d]
        BY <2>2, <2>6
      <3>2. cut[c] = at[c] /\ cut[d] = at[d]
        BY <2>4
      <3> QED
        BY <3>1, <3>2, Zenon
    <2>7. ASSUME NEW i \in T PROVE \E c \in 1..Len(cut) : cut[c] = i
      <3>1. i \in 1..n /\ s[i] \in T
        BY <2>3, <2>5, Zenon
      <3>2. PICK c \in 1..Len(cut) : at[c] = i
        BY <2>2, <3>1, Zenon
      <3>3. cut[c] = i
        BY <2>4, <3>2, Zenon
      <3> QED
        BY <3>3
    <2> QED
      BY <2>1, <2>4, <2>6, <2>7
  <1> HIDE DEF s, n
  <1>7. /\ DOMAIN Warnings = 1..Len(cut)
        /\ \A i \in 1..Len(cut) :
              /\ Warnings[i].schema = cut[i]
              /\ Warnings[i].byte_offset = tables[cut[i]].first_dropped_offset
        /\ Len(Warnings) = Len(cut)
    BY <1>5, <1>6
  <1>8. ToSet(Warnings) = {Warnings[i] : i \in 1..Len(cut)}
    BY <1>7 DEF ToSet
  <1>9. ASSUME NEW k \in 1..n
        PROVE  tables[k].rows < Len(seen[k]) <=>
                  \E w \in ToSet(Warnings) : w.schema = k
    <2>1. k \in T <=> tables[k].rows < Len(seen[k])
      BY <1>3
    <2> HIDE DEF T
    <2>2. k \in T <=> \E c \in 1..Len(cut) : cut[c] = k
      BY <1>6
    <2> QED
      BY <1>7, <1>8, <2>1, <2>2
  <1>10. ASSUME NEW w \in ToSet(Warnings)
         PROVE  w.byte_offset = seen[w.schema][tables[w.schema].rows + 1].start
    <2>1. PICK i \in 1..Len(cut) : w = Warnings[i]
      BY <1>8
    <2>2. cut[i] \in 1..n /\ tables[cut[i]].dropped > 0
      BY <1>6
    <2> QED
      BY <1>3, <1>7, <2>1, <2>2
  <1>11. \A i, j \in DOMAIN Warnings :
            i < j => Warnings[i].schema < Warnings[j].schema
    BY <1>6, <1>7
  <1> QED
    BY <1>1, <1>9, <1>10, <1>11

(***************************************************************************)
(* A table is reported exactly when the caps cut it, once, in layout       *)
(* order, at the first record it does not hold (truncation_warnings).      *)
(***************************************************************************)
THEOREM WarningsAreTrue == Spec => []WarningsTell
  <1>1. DInv => WarningsTell
    <2> SUFFICES ASSUME DInv, phase \in {"finish", "taken"}
                 PROVE  WarningsTell
      BY DEF WarningsTell
    <2>1. warnings = Warnings /\ phase # "begin"
      BY DEF DInv, WarningsKept
    <2> QED
      BY <2>1, WarningsOfTables DEF WarningsTell
  <1> QED
    BY <1>1, DInvInductive, PTL

-----------------------------------------------------------------------------
(***************************************************************************)
(* The documents take builds: arenas of items, and the refs of a body.     *)
(***************************************************************************)
Ref == {"texts", "tables"} \X Nat
TextItems == {TextItem(label, ref) : label \in Nat, ref \in Ref}
TableItems == {TableItem(k, ref) : k \in 1..Len(tables), ref \in Ref}
Documents ==
    [texts : Seq(TextItems), tables : Seq(TableItems), body : Seq(Ref),
     furniture : {<<>>}]

Arena(doc, a) == IF a = "texts" THEN doc.texts ELSE doc.tables

Given(doc) == {ref \in Ref : ref[2] < Len(Arena(doc, ref[1]))}

(***************************************************************************)
(* An item's ref is its place in its arena, and the body lists each ref    *)
(* that was given once.                                                    *)
(***************************************************************************)
Linked(doc) ==
    /\ \A ref \in Given(doc) : Arena(doc, ref[1])[ref[2] + 1].self_ref = ref
    /\ Len(doc.body) = Len(doc.texts) + Len(doc.tables)
    /\ \A i \in 1..Len(doc.body) : doc.body[i] \in Given(doc)
    /\ \A i, j \in 1..Len(doc.body) : doc.body[i] = doc.body[j] => i = j
    /\ \A ref \in Given(doc) : \E i \in 1..Len(doc.body) : doc.body[i] = ref

Entry == {"text", "table"} \X Nat

EntryOf(doc, ref) ==
    IF ref[1] = "texts" THEN <<"text", doc.texts[ref[2] + 1].label>>
    ELSE <<"table", doc.tables[ref[2] + 1].schema>>

Reading(doc) == [i \in 1..Len(doc.body) |-> EntryOf(doc, doc.body[i])]

(***************************************************************************)
(* A ref is its arena and its place there; it is neither root.             *)
(***************************************************************************)
LEMMA RefParts ==
    ASSUME NEW ref \in Ref
    PROVE  /\ ref[1] \in {"texts", "tables"} /\ ref[2] \in Nat
           /\ ref = <<ref[1], ref[2]>>
           /\ ref # Body /\ ref # Furniture
  <1>1. ref[1] \in {"texts", "tables"} /\ ref[2] \in Nat /\ ref = <<ref[1], ref[2]>>
    BY DEF Ref
  <1>2. ref # Body /\ ref # Furniture
    <2>1. Len(ref) = 2
      BY <1>1
    <2>2. Len(Body) = 1 /\ Len(Furniture) = 1
      BY DEF Body, Furniture
    <2> QED
      BY <2>1, <2>2
  <1> QED
    BY <1>1, <1>2

(***************************************************************************)
(* What the items of either arena have in common.                          *)
(***************************************************************************)
LEMMA ItemParts ==
    /\ \A item \in TextItems : /\ item.self_ref \in Ref /\ item.parent = Body
                               /\ item.label \in Nat
    /\ \A item \in TableItems : /\ item.self_ref \in Ref /\ item.parent = Body
                                /\ item.schema \in 1..Len(tables)
                                /\ item = TableItem(item.schema, item.self_ref)
  <1>1. ASSUME NEW item \in TextItems
        PROVE  /\ item.self_ref \in Ref /\ item.parent = Body /\ item.label \in Nat
    BY DEF TextItems, TextItem
  <1>2. ASSUME NEW item \in TableItems
        PROVE  /\ item.self_ref \in Ref /\ item.parent = Body
               /\ item.schema \in 1..Len(tables)
               /\ item = TableItem(item.schema, item.self_ref)
    <2>1. PICK k \in 1..Len(tables), ref \in Ref : item = TableItem(k, ref)
      BY DEF TableItems
    <2>2. item.self_ref = ref /\ item.parent = Body /\ item.schema = k
      BY <2>1 DEF TableItem
    <2> QED
      BY <2>1, <2>2
  <1> QED
    BY <1>1, <1>2

(***************************************************************************)
(* An item that gets the next free ref of its arena and is listed by the   *)
(* body leaves the document linked, and is read last.                      *)
(***************************************************************************)
LEMMA ItemAdded ==
    ASSUME NEW doc \in Documents, Linked(doc), NEW a \in {"texts", "tables"},
           NEW item, NEW after \in Documents,
           item.self_ref = <<a, Len(Arena(doc, a))>>,
           after.texts = IF a = "texts" THEN Append(doc.texts, item) ELSE doc.texts,
           after.tables = IF a = "texts" THEN doc.tables ELSE Append(doc.tables, item),
           after.body = Append(doc.body, <<a, Len(Arena(doc, a))>>)
    PROVE  /\ Linked(after)
           /\ Reading(after) = Append(Reading(doc),
                                      IF a = "texts" THEN <<"text", item.label>>
                                      ELSE <<"table", item.schema>>)
  <1> DEFINE m == Len(Arena(doc, a))
             new == <<a, m>>
             b == Len(doc.body)
  <1>1. /\ doc.texts \in Seq(TextItems) /\ doc.tables \in Seq(TableItems)
        /\ doc.body \in Seq(Ref) /\ after.body \in Seq(Ref)
        /\ after.texts \in Seq(TextItems) /\ after.tables \in Seq(TableItems)
    BY DEF Documents
  <1>2. m \in Nat /\ b \in Nat /\ new \in Ref /\ new[1] = a /\ new[2] = m
    <2>1. m \in Nat /\ b \in Nat
      BY <1>1 DEF Arena
    <2> HIDE DEF m
    <2> QED
      BY <2>1 DEF Ref
  <1>3. /\ Len(Arena(after, a)) = m + 1
        /\ Arena(after, a)[m + 1] = item
        /\ \A i \in 1..m : Arena(after, a)[i] = Arena(doc, a)[i]
        /\ \A c \in {"texts", "tables"} : c # a => Arena(after, c) = Arena(doc, c)
    <2>1. Arena(after, a) = Append(Arena(doc, a), item)
      BY DEF Arena
    <2>2. \A c \in {"texts", "tables"} : c # a => Arena(after, c) = Arena(doc, c)
      BY DEF Arena
    <2>3. \E S : Arena(doc, a) \in Seq(S)
      BY <1>1 DEF Arena
    <2>4. /\ Len(Append(Arena(doc, a), item)) = m + 1
          /\ Append(Arena(doc, a), item)[m + 1] = item
          /\ \A i \in 1..m : Append(Arena(doc, a), item)[i] = Arena(doc, a)[i]
      BY <2>3
    <2> QED
      BY <2>1, <2>2, <2>4
  <1>4. /\ Len(after.body) = b + 1 /\ after.body[b + 1] = new
        /\ \A i \in 1..b : after.body[i] = doc.body[i]
    <2> HIDE DEF new
    <2> QED
      BY <1>1, <1>2, AppendHolds DEF new
  <1> HIDE DEF m, new
  <1>5. \A ref \in Ref : ref \in Given(after) <=> ref \in Given(doc) \/ ref = new
    <2>1. ASSUME NEW ref \in Ref
          PROVE  ref \in Given(after) <=> ref \in Given(doc) \/ ref = new
      <3>1. ref[1] \in {"texts", "tables"} /\ ref[2] \in Nat
            /\ ref = <<ref[1], ref[2]>>
        BY RefParts
      <3>2. CASE ref[1] = a
        <4>1. ref \in Given(after) <=> ref[2] < m + 1
          BY <1>3, <3>2 DEF Given
        <4>2. ref \in Given(doc) <=> ref[2] < m
          BY <3>2 DEF Given, m
        <4>3. ref = new <=> ref[2] = m
          BY <1>2, <3>1, <3>2 DEF new
        <4> QED
          BY <1>2, <3>1, <4>1, <4>2, <4>3
      <3>3. CASE ref[1] # a
        <4>1. ref # new
          BY <1>2, <3>3
        <4>2. Arena(after, ref[1]) = Arena(doc, ref[1])
          BY <1>3, <3>1, <3>3
        <4> QED
          BY <4>1, <4>2 DEF Given
      <3> QED
        BY <3>2, <3>3
    <2> QED
      BY <2>1
  <1>6. new \notin Given(doc)
    BY <1>2 DEF Given, m
  <1>7. \A ref \in Given(doc) :
           Arena(after, ref[1])[ref[2] + 1] = Arena(doc, ref[1])[ref[2] + 1]
    <2>1. ASSUME NEW ref \in Given(doc)
          PROVE  Arena(after, ref[1])[ref[2] + 1] = Arena(doc, ref[1])[ref[2] + 1]
      <3>1. ref \in Ref /\ ref[2] < Len(Arena(doc, ref[1]))
        BY DEF Given
      <3>2. ref[1] \in {"texts", "tables"} /\ ref[2] \in Nat
        BY <3>1, RefParts
      <3>3. CASE ref[1] = a
        <4>1. ref[2] + 1 \in 1..m
          BY <1>2, <3>1, <3>2, <3>3 DEF m
        <4> QED
          BY <1>3, <3>3, <4>1
      <3>4. CASE ref[1] # a
        BY <1>3, <3>2, <3>4
      <3> QED
        BY <3>3, <3>4
    <2> QED
      BY <2>1
  <1>8. Linked(after)
    <2>1. ASSUME NEW ref \in Given(after)
          PROVE  Arena(after, ref[1])[ref[2] + 1].self_ref = ref
      <3>1. ref \in Ref
        BY DEF Given
      <3>2. CASE ref \in Given(doc)
        BY <1>7, <3>2 DEF Linked
      <3>3. CASE ref = new
        BY <1>2, <1>3, <3>3 DEF new, m
      <3> QED
        BY <1>5, <3>1, <3>2, <3>3
    <2>2. Len(after.body) = Len(after.texts) + Len(after.tables)
      <3>0. \A x, y \in Nat : /\ (x + y) + 1 = (x + 1) + y
                              /\ (x + y) + 1 = x + (y + 1)
        OBVIOUS
      <3>1. Len(doc.texts) \in Nat /\ Len(doc.tables) \in Nat
        BY <1>1
      <3>2. b = Len(doc.texts) + Len(doc.tables)
        BY DEF Linked
      <3>3. CASE a = "texts"
        <4>1. Len(after.texts) = Len(doc.texts) + 1
              /\ Len(after.tables) = Len(doc.tables)
          BY <1>3, <3>3 DEF Arena, m
        <4> QED
          BY <1>4, <3>0, <3>1, <3>2, <4>1, Zenon
      <3>4. CASE a = "tables"
        <4>1. Len(after.tables) = Len(doc.tables) + 1
              /\ Len(after.texts) = Len(doc.texts)
          BY <1>3, <3>4 DEF Arena, m
        <4> QED
          BY <1>4, <3>0, <3>1, <3>2, <4>1, Zenon
      <3> QED
        BY <3>3, <3>4
    <2>3. 1..(b + 1) = 1..b \cup {b + 1} /\ b + 1 \in 1..(b + 1)
      BY <1>2
    <2>4. \A i \in 1..b : doc.body[i] \in Given(doc)
      BY DEF Linked
    <2> HIDE DEF b
    <2>5. \A i \in 1..(b + 1) : after.body[i] \in Given(after)
      <3>1. \A i \in 1..b : after.body[i] \in Given(after)
        BY <1>4, <1>5, <2>4 DEF Given
      <3>2. after.body[b + 1] \in Given(after)
        BY <1>2, <1>4, <1>5
      <3> QED
        BY <2>3, <3>1, <3>2
    <2>6. ASSUME NEW i \in 1..(b + 1), NEW j \in 1..(b + 1),
                 after.body[i] = after.body[j]
          PROVE  i = j
      <3>1. CASE i \in 1..b /\ j \in 1..b
        BY <1>4, <2>6, <3>1 DEF Linked, b
      <3>2. CASE i \in 1..b /\ j = b + 1
        BY <1>4, <1>6, <2>4, <2>6, <3>2
      <3>3. CASE i = b + 1 /\ j \in 1..b
        BY <1>4, <1>6, <2>4, <2>6, <3>3
      <3> QED
        BY <2>3, <3>1, <3>2, <3>3
    <2>7. ASSUME NEW ref \in Given(after)
          PROVE  \E i \in 1..(b + 1) : after.body[i] = ref
      <3>1. ref \in Ref
        BY DEF Given
      <3>2. CASE ref \in Given(doc)
        <4>1. PICK i \in 1..b : doc.body[i] = ref
          BY <3>2 DEF Linked, b
        <4> QED
          BY <1>4, <2>3, <4>1
      <3>3. CASE ref = new
        BY <1>4, <2>3, <3>3
      <3> QED
        BY <1>5, <3>1, <3>2, <3>3
    <2> QED
      BY <1>4, <2>1, <2>2, <2>5, <2>6, <2>7 DEF Linked
  <1>9. Reading(after) = Append(Reading(doc),
                                IF a = "texts" THEN <<"text", item.label>>
                                ELSE <<"table", item.schema>>)
    <2> DEFINE e == IF a = "texts" THEN <<"text", item.label>>
                    ELSE <<"table", item.schema>>
               r == Reading(doc)
    <2>1. \A i \in 1..b : EntryOf(after, after.body[i]) = EntryOf(doc, doc.body[i])
      <3>1. ASSUME NEW i \in 1..b
            PROVE  EntryOf(after, doc.body[i]) = EntryOf(doc, doc.body[i])
        <4> DEFINE ref == doc.body[i]
        <4>1. ref \in Given(doc) /\ ref \in Ref
          BY DEF Linked, Given
        <4>2. ref[1] \in {"texts", "tables"}
          BY <4>1, RefParts
        <4>3. Arena(after, ref[1])[ref[2] + 1] = Arena(doc, ref[1])[ref[2] + 1]
          BY <1>7, <4>1
        <4> HIDE DEF ref
        <4>4. EntryOf(after, ref) = EntryOf(doc, ref)
          BY <4>2, <4>3 DEF EntryOf, Arena
        <4> QED
          BY <4>4 DEF ref
      <3> QED
        BY <1>4, <3>1
    <2>2. EntryOf(after, after.body[b + 1]) = e
      <3>1. CASE a = "texts"
        BY <1>2, <1>3, <1>4, <3>1 DEF EntryOf, Arena
      <3>2. CASE a = "tables"
        BY <1>2, <1>3, <1>4, <3>2 DEF EntryOf, Arena
      <3> QED
        BY <3>1, <3>2
    <2> HIDE DEF b, e
    <2>3. Reading(after) = [i \in 1..(b + 1) |-> EntryOf(after, after.body[i])]
      BY <1>4 DEF Reading
    <2>4. r = [i \in 1..b |-> EntryOf(doc, doc.body[i])]
      BY DEF Reading, b
    <2>6. ASSUME NEW i \in 1..(b + 1)
          PROVE  EntryOf(after, after.body[i]) = IF i = b + 1 THEN e ELSE r[i]
      <3>1. CASE i = b + 1
        BY <2>2, <3>1
      <3>2. CASE i # b + 1
        <4>1. i \in 1..b
          BY <1>2, <3>2
        <4> QED
          BY <2>1, <2>4, <3>2, <4>1
      <3> QED
        BY <3>1, <3>2
    <2>7. Reading(after) = Append(r, e)
      <3> DEFINE S == {r[i] : i \in 1..b} \cup {e}
                 t == Reading(after)
      <3>1. r \in Seq(S) /\ Len(r) = b /\ e \in S
        <4>1. r \in [1..b -> S]
          BY <2>4
        <4> HIDE DEF r
        <4> QED
          BY <1>2, <4>1, IntervalIsSeq
      <3>2. \A i \in 1..(b + 1) : t[i] = IF i = b + 1 THEN e ELSE r[i]
        BY <2>3, <2>6
      <3>3. /\ b + 1 \in Nat
            /\ \A i \in 1..(b + 1) : i # b + 1 => i \in 1..b
            /\ b + 1 \in 1..(b + 1)
        BY <1>2
      <3> HIDE DEF r
      <3>4. t \in Seq(S) /\ Len(t) = b + 1
        <4>1. t \in [1..(b + 1) -> S]
          BY <2>3, <2>6, <3>3
        <4> HIDE DEF t, S
        <4> QED
          BY <3>3, <4>1, IntervalIsSeq
      <3> HIDE DEF t, S
      <3>5. /\ Append(r, e) \in Seq(S) /\ Len(Append(r, e)) = b + 1
            /\ \A i \in 1..b : Append(r, e)[i] = r[i]
            /\ Append(r, e)[b + 1] = e
        BY <3>1, AppendHolds
      <3>6. \A i \in 1..(b + 1) : t[i] = Append(r, e)[i]
        BY <3>2, <3>3, <3>5
      <3>7. t = Append(r, e)
        BY <3>4, <3>5, <3>6, SeqEqual
      <3> QED
        BY <3>7 DEF t
    <2> QED
      BY <2>7 DEF r, e
  <1> QED
    BY <1>8, <1>9

(***************************************************************************)
(* What add_text and add_table make of a document.                         *)
(***************************************************************************)
LEMMA TextAdded ==
    ASSUME NEW doc \in Documents, NEW label \in Nat
    PROVE  LET after == AddText(doc, label)
               ref == <<"texts", Len(doc.texts)>>
           IN  /\ after \in Documents
               /\ after.texts = Append(doc.texts, TextItem(label, ref))
               /\ after.tables = doc.tables
               /\ after.body = Append(doc.body, ref)
               /\ Linked(doc) =>
                     /\ Linked(after)
                     /\ Reading(after) = Append(Reading(doc), <<"text", label>>)
  <1> DEFINE after == AddText(doc, label)
             ref == <<"texts", Len(doc.texts)>>
             item == TextItem(label, ref)
  <1>1. /\ doc.texts \in Seq(TextItems) /\ doc.body \in Seq(Ref)
        /\ Len(doc.texts) \in Nat
    BY DEF Documents
  <1>2. ref \in Ref
    BY <1>1 DEF Ref
  <1>3. item \in TextItems
    <2> HIDE DEF ref
    <2> QED
      BY <1>2 DEF TextItems
  <1>4. item.self_ref = ref /\ item.label = label
    BY DEF TextItem
  <1>5. after = [doc EXCEPT !.texts = Append(doc.texts, item),
                            !.body = Append(doc.body, ref)]
    BY DEF AddText
  <1> HIDE DEF item, ref, after
  <1>6. Append(doc.texts, item) \in Seq(TextItems) /\ Append(doc.body, ref) \in Seq(Ref)
    BY <1>1, <1>2, <1>3
  <1>7. after \in Documents
    BY <1>5, <1>6 DEF Documents
  <1>8. /\ after.texts = Append(doc.texts, item)
        /\ after.tables = doc.tables
        /\ after.body = Append(doc.body, ref)
    BY <1>5 DEF Documents
  <1>9. ASSUME Linked(doc)
        PROVE  /\ Linked(after)
               /\ Reading(after) = Append(Reading(doc), <<"text", label>>)
    <2> DEFINE a == "texts"
    <2>1. a \in {"texts", "tables"} /\ Len(Arena(doc, a)) = Len(doc.texts)
      BY DEF Arena
    <2>2. /\ item.self_ref = <<a, Len(Arena(doc, a))>>
          /\ after.texts = IF a = "texts" THEN Append(doc.texts, item) ELSE doc.texts
          /\ after.tables = IF a = "texts" THEN doc.tables
                                           ELSE Append(doc.tables, item)
          /\ after.body = Append(doc.body, <<a, Len(Arena(doc, a))>>)
      BY <1>4, <1>8, <2>1 DEF ref
    <2>3. (IF a = "texts" THEN <<"text", item.label>> ELSE <<"table", item.schema>>)
             = <<"text", label>>
      BY <1>4
    <2> HIDE DEF a
    <2>4. /\ Linked(after)
          /\ Reading(after) = Append(Reading(doc),
                                     IF a = "texts" THEN <<"text", item.label>>
                                     ELSE <<"table", item.schema>>)
      BY <1>7, <1>9, <2>1, <2>2, ItemAdded
    <2> QED
      BY <2>3, <2>4
  <1> QED
    BY <1>7, <1>8, <1>9 DEF after, item, ref

(***************************************************************************)
(* The same of a table.                                                    *)
(***************************************************************************)
LEMMA TableAdded ==
    ASSUME NEW doc \in Documents, NEW k \in 1..Len(tables)
    PROVE  LET after == AddTable(doc, k)
               ref == <<"tables", Len(doc.tables)>>
           IN  /\ after \in Documents
               /\ after.texts = doc.texts
               /\ after.tables = Append(doc.tables, TableItem(k, ref))
               /\ after.body = Append(doc.body, ref)
               /\ Linked(doc) =>
                     /\ Linked(after)
                     /\ Reading(after) = Append(Reading(doc), <<"table", k>>)
  <1> DEFINE after == AddTable(doc, k)
             ref == <<"tables", Len(doc.tables)>>
             item == TableItem(k, ref)
  <1>1. /\ doc.tables \in Seq(TableItems) /\ doc.body \in Seq(Ref)
        /\ Len(doc.tables) \in Nat
    BY DEF Documents
  <1>2. ref \in Ref
    BY <1>1 DEF Ref
  <1>3. item \in TableItems
    <2> HIDE DEF ref
    <2> QED
      BY <1>2 DEF TableItems
  <1>4. item.self_ref = ref /\ item.schema = k
    BY DEF TableItem
  <1>5. after = [doc EXCEPT !.tables = Append(doc.tables, item),
                            !.body = Append(doc.body, ref)]
    BY DEF AddTable
  <1> HIDE DEF item, ref, after
  <1>6. Append(doc.tables, item) \in Seq(TableItems) /\ Append(doc.body, ref) \in Seq(Ref)
    BY <1>1, <1>2, <1>3
  <1>7. after \in Documents
    BY <1>5, <1>6 DEF Documents
  <1>8. /\ after.tables = Append(doc.tables, item)
        /\ after.texts = doc.texts
        /\ after.body = Append(doc.body, ref)
    BY <1>5 DEF Documents
  <1>9. ASSUME Linked(doc)
        PROVE  /\ Linked(after)
               /\ Reading(after) = Append(Reading(doc), <<"table", k>>)
    <2> DEFINE a == "tables"
    <2>1. a \in {"texts", "tables"} /\ Len(Arena(doc, a)) = Len(doc.tables)
      BY DEF Arena
    <2>2. /\ item.self_ref = <<a, Len(Arena(doc, a))>>
          /\ after.texts = IF a = "texts" THEN Append(doc.texts, item) ELSE doc.texts
          /\ after.tables = IF a = "texts" THEN doc.tables
                                           ELSE Append(doc.tables, item)
          /\ after.body = Append(doc.body, <<a, Len(Arena(doc, a))>>)
      BY <1>4, <1>8, <2>1 DEF ref
    <2>3. (IF a = "texts" THEN <<"text", item.label>> ELSE <<"table", item.schema>>)
             = <<"table", k>>
      BY <1>4
    <2> HIDE DEF a
    <2>4. /\ Linked(after)
          /\ Reading(after) = Append(Reading(doc),
                                     IF a = "texts" THEN <<"text", item.label>>
                                     ELSE <<"table", item.schema>>)
      BY <1>7, <1>9, <2>1, <2>2, ItemAdded
    <2> QED
      BY <2>3, <2>4
  <1> QED
    BY <1>7, <1>8, <1>9 DEF after, item, ref

(***************************************************************************)
(* What a schema adds to what the body reads.                              *)
(***************************************************************************)
SectionOf(k) ==
    IF ~Occurs(k) THEN <<>>
    ELSE IF Len(tables) > 1 THEN <<<<"text", k>>, <<"table", k>>>>
    ELSE <<<<"table", k>>>>

(***************************************************************************)
(* A linked document reads as a sequence of entries.                       *)
(***************************************************************************)
LEMMA ReadingTyped ==
    ASSUME NEW doc \in Documents, Linked(doc), Len(tables) \in Nat
    PROVE  Reading(doc) \in Seq(Entry)
  <1>1. doc.body \in Seq(Ref) /\ Len(doc.body) \in Nat
    BY DEF Documents
  <1>2. ASSUME NEW i \in 1..Len(doc.body)
        PROVE  EntryOf(doc, doc.body[i]) \in Entry
    <2> DEFINE ref == doc.body[i]
    <2>1. /\ ref \in Ref /\ ref[2] < Len(Arena(doc, ref[1]))
          /\ ref[1] \in {"texts", "tables"} /\ ref[2] \in Nat
      BY RefParts DEF Linked, Given
    <2> HIDE DEF ref
    <2>2. doc.texts \in Seq(TextItems) /\ doc.tables \in Seq(TableItems)
      BY DEF Documents
    <2>3. CASE ref[1] = "texts"
      <3>1. ref[2] + 1 \in 1..Len(doc.texts)
        BY <2>1, <2>2, <2>3 DEF Arena
      <3>2. doc.texts[ref[2] + 1].label \in Nat
        BY <2>2, <3>1, ItemParts
      <3> QED
        BY <2>3, <3>2 DEF EntryOf, Entry, ref
    <2>4. CASE ref[1] = "tables"
      <3>1. ref[2] + 1 \in 1..Len(doc.tables)
        BY <2>1, <2>2, <2>4 DEF Arena
      <3>2. doc.tables[ref[2] + 1].schema \in 1..Len(tables)
        BY <2>2, <3>1, ItemParts
      <3>3. doc.tables[ref[2] + 1].schema \in Nat
        BY <3>2
      <3> QED
        BY <2>4, <3>3 DEF EntryOf, Entry, ref
    <2> QED
      BY <2>1, <2>3, <2>4
  <1>3. Reading(doc) \in [1..Len(doc.body) -> Entry]
    BY <1>2 DEF Reading
  <1> QED
    BY <1>1, <1>3, IntervalIsSeq

(***************************************************************************)
(* One element appended, or two, is a sequence appended.                   *)
(***************************************************************************)
LEMMA AppendsAreConcat ==
    ASSUME NEW S, NEW s \in Seq(S), NEW x \in S, NEW y \in S
    PROVE  /\ Append(s, x) = s \o <<x>>
           /\ Append(Append(s, x), y) = s \o <<x, y>>
  <1>1. <<x>> \in Seq(S) /\ <<y>> \in Seq(S)
    OBVIOUS
  <1>2. Append(s, x) = s \o <<x>>
    BY AppendIsConcat, Zenon
  <1>3. Append(Append(s, x), y) = Append(s, x) \o <<y>>
    <2> DEFINE t == Append(s, x)
    <2>1. t \in Seq(S)
      BY AppendProperties, Zenon
    <2> HIDE DEF t
    <2>2. Append(t, y) = t \o <<y>>
      BY <2>1, AppendIsConcat, Zenon
    <2> QED
      BY <2>2, Zenon DEF t
  <1>4. <<x>> \o <<y>> = <<x, y>>
    <2> DEFINE u == <<x>>
               v == <<y>>
               w == <<x, y>>
               t == u \o v
    <2>1. /\ u \in Seq(S) /\ v \in Seq(S) /\ Len(u) = 1 /\ Len(v) = 1
          /\ u[1] = x /\ v[1] = y
      BY <1>1
    <2>2. w \in Seq(S) /\ Len(w) = 2 /\ w[1] = x /\ w[2] = y
      OBVIOUS
    <2> HIDE DEF u, v, w
    <2>3. /\ t \in Seq(S) /\ Len(t) = Len(u) + Len(v)
          /\ \A i \in 1..(Len(u) + Len(v)) :
                t[i] = IF i <= Len(u) THEN u[i] ELSE v[i - Len(u)]
      BY <2>1, ConcatProperties, Zenon
    <2> HIDE DEF t
    <2>4. Len(t) = 2 /\ t[1] = x /\ t[2] = y
      BY <2>1, <2>3
    <2>5. \A i \in 1..2 : t[i] = w[i]
      BY <2>2, <2>4
    <2>6. t = w
      BY <2>2, <2>3, <2>4, <2>5, SeqEqual
    <2> QED
      BY <2>6 DEF t, u, v, w
  <1>5. Associates(S)
    BY JoinsAssociate, Zenon
  <1>6. (s \o <<x>>) \o <<y>> = s \o (<<x>> \o <<y>>)
    BY <1>1, <1>5, Zenon DEF Associates
  <1> QED
    BY <1>2, <1>3, <1>4, <1>6, Zenon

(***************************************************************************)
(* take, one schema at a time.                                             *)
(***************************************************************************)
LEMMA SchemaAdded ==
    ASSUME NEW doc \in Documents, NEW k \in 1..Len(tables), Len(tables) \in Nat
    PROVE  /\ AddSchema(doc, k) \in Documents
           /\ SectionOf(k) \in Seq(Entry)
           /\ Linked(doc) =>
                 /\ Linked(AddSchema(doc, k))
                 /\ Reading(AddSchema(doc, k)) = Reading(doc) \o SectionOf(k)
  <1> DEFINE x == <<"text", k>>
             y == <<"table", k>>
             headed == AddText(doc, k)
  <1>1. k \in Nat /\ x \in Entry /\ y \in Entry
    BY DEF Entry
  <1>2. /\ headed \in Documents
        /\ Linked(doc) => /\ Linked(headed)
                          /\ Reading(headed) = Append(Reading(doc), x)
    BY <1>1, TextAdded
  <1> HIDE DEF headed, x, y
  <1>3. CASE ~Occurs(k)
    <2>1. AddSchema(doc, k) = doc /\ SectionOf(k) = <<>> /\ <<>> \in Seq(Entry)
      BY <1>3 DEF AddSchema, SectionOf
    <2> QED
      BY <2>1, ReadingTyped, ConcatEmptySeq
  <1>4. CASE Occurs(k) /\ Len(tables) > 1
    <2>1. AddSchema(doc, k) = AddTable(headed, k) /\ SectionOf(k) = <<x, y>>
      BY <1>4 DEF AddSchema, SectionOf, headed, x, y
    <2>2. /\ AddTable(headed, k) \in Documents
          /\ Linked(headed) =>
                /\ Linked(AddTable(headed, k))
                /\ Reading(AddTable(headed, k)) = Append(Reading(headed), y)
      BY <1>2, TableAdded DEF y
    <2>3. <<x, y>> \in Seq(Entry)
      BY <1>1
    <2>4. ASSUME Linked(doc)
          PROVE  Reading(AddTable(headed, k)) = Reading(doc) \o <<x, y>>
      <3>1. Reading(doc) \in Seq(Entry)
        BY <2>4, ReadingTyped
      <3>2. Reading(AddTable(headed, k)) = Append(Append(Reading(doc), x), y)
        BY <1>2, <2>2, <2>4
      <3> DEFINE read == Reading(doc)
      <3>3. read \in Seq(Entry) /\ x \in Entry /\ y \in Entry
        BY <1>1, <3>1
      <3> HIDE DEF read, x, y
      <3>4. Append(Append(read, x), y) = read \o <<x, y>>
        BY <3>3, AppendsAreConcat
      <3> QED
        BY <3>2, <3>4, Zenon DEF read, x, y
    <2> QED
      BY <1>2, <2>1, <2>2, <2>3, <2>4
  <1>5. CASE Occurs(k) /\ ~(Len(tables) > 1)
    <2>1. AddSchema(doc, k) = AddTable(doc, k) /\ SectionOf(k) = <<y>>
      BY <1>5 DEF AddSchema, SectionOf, y
    <2>2. /\ AddTable(doc, k) \in Documents
          /\ Linked(doc) =>
                /\ Linked(AddTable(doc, k))
                /\ Reading(AddTable(doc, k)) = Append(Reading(doc), y)
      BY TableAdded DEF y
    <2>3. <<y>> \in Seq(Entry)
      BY <1>1
    <2>4. ASSUME Linked(doc)
          PROVE  Reading(AddTable(doc, k)) = Reading(doc) \o <<y>>
      BY <1>1, <2>2, <2>4, ReadingTyped, AppendsAreConcat
    <2> QED
      BY <2>1, <2>2, <2>3, <2>4
  <1> QED
    BY <1>3, <1>4, <1>5

(***************************************************************************)
(* take satisfies its equations: after is the document as it grows, one    *)
(* schema at a time.                                                       *)
(***************************************************************************)
Opened == IF described THEN AddText(EmptyDocument, 0) ELSE EmptyDocument

Writes(after) ==
    /\ after \in [0..Len(tables) -> Documents]
    /\ after[0] = Opened
    /\ \A k \in 1..Len(tables) : after[k] = AddSchema(after[k - 1], k)
    /\ Written(EmptyDocument) = after[Len(tables)]

OpeningRead == IF described THEN <<<<"text", 0>>>> ELSE <<>>

(***************************************************************************)
(* Before the first schema the document has nothing in it, or the          *)
(* description: it is linked, and reads so.                                *)
(***************************************************************************)
LEMMA OpenedLinked ==
    /\ EmptyDocument \in Documents
    /\ Opened \in Documents /\ Linked(Opened)
    /\ OpeningRead \in Seq(Entry) /\ Reading(Opened) = OpeningRead
  <1>1. EmptyDocument \in Documents
    <2>1. <<>> \in Seq(TextItems) /\ <<>> \in Seq(TableItems) /\ <<>> \in Seq(Ref)
      OBVIOUS
    <2> QED
      BY <2>1 DEF EmptyDocument, Documents
  <1>2. Linked(EmptyDocument) /\ Reading(EmptyDocument) = <<>>
    <2>1. /\ EmptyDocument.body = <<>> /\ EmptyDocument.texts = <<>>
          /\ EmptyDocument.tables = <<>> /\ Len(<<>>) = 0
      BY DEF EmptyDocument
    <2>2. Given(EmptyDocument) = {}
      <3>1. ASSUME NEW ref \in Ref PROVE ~(ref[2] < Len(Arena(EmptyDocument, ref[1])))
        <4>1. Len(Arena(EmptyDocument, ref[1])) = 0
          BY <2>1 DEF Arena
        <4> QED
          BY <4>1, RefParts
      <3> QED
        BY <3>1 DEF Given
    <2> QED
      BY <2>1, <2>2 DEF Linked, Reading
  <1>3. CASE described
    <2>1. /\ Opened \in Documents /\ Linked(Opened)
          /\ Reading(Opened) = Append(<<>>, <<"text", 0>>)
      BY <1>1, <1>2, <1>3, TextAdded DEF Opened
    <2>2. Append(<<>>, <<"text", 0>>) = OpeningRead /\ OpeningRead \in Seq(Entry)
      <3>1. <<"text", 0>> \in Entry
        BY DEF Entry
      <3> QED
        BY <1>3, <3>1 DEF OpeningRead
    <2> QED
      BY <1>1, <2>1, <2>2
  <1>4. CASE ~described
    <2>1. OpeningRead = <<>> /\ <<>> \in Seq(Entry)
      BY <1>4 DEF OpeningRead
    <2> QED
      BY <1>1, <1>2, <1>4, <2>1 DEF Opened
  <1> QED
    BY <1>3, <1>4

(***************************************************************************)
(* take can be run to its end.                                             *)
(***************************************************************************)
LEMMA WrittenUnfold ==
    ASSUME Len(tables) \in Nat
    PROVE  \E after : Writes(after)
  <1> DEFINE n == Len(tables)
             step == [k \in 1..n |-> [d \in Documents |-> AddSchema(d, k)]]
  <1>1. \A k \in 1..n, d \in Documents : AddSchema(d, k) \in Documents
    BY SchemaAdded
  <1>2. step \in [1..n -> [Documents -> Documents]]
    BY <1>1
  <1>3. \A k \in 1..n, d \in Documents : step[k][d] = AddSchema(d, k)
    OBVIOUS
  <1>4. n \in Nat /\ Opened \in Documents
    BY OpenedLinked
  <1> HIDE DEF step, n
  <1>5. PICK f : Iterates(f, n, Documents, Opened, step)
    BY <1>2, <1>4, IterationExists
  <1>6. /\ f \in [0..n -> Documents] /\ f[0] = Opened
        /\ \A k \in 1..n : f[k] = AddSchema(f[k - 1], k)
    <2>1. \A k \in 1..n : f[k - 1] \in Documents
      BY <1>4, <1>5 DEF Iterates
    <2> QED
      BY <1>3, <1>5, <2>1 DEF Iterates
  <1> DEFINE body(g) == [k \in 0..n |->
                           IF k > 0 THEN AddSchema(g[k - 1], k)
                           ELSE IF described THEN AddText(EmptyDocument, 0)
                           ELSE EmptyDocument]
             after == CHOOSE g : g = body(g)
  <1>7. f = body(f)
    <2>1. f = [k \in 0..n |-> f[k]]
      BY <1>6
    <2>2. \A k \in 0..n : f[k] = IF k > 0 THEN AddSchema(f[k - 1], k)
                                 ELSE IF described
                                 THEN AddText(EmptyDocument, 0)
                                 ELSE EmptyDocument
      <3>1. ASSUME NEW k \in 0..n, k > 0 PROVE f[k] = AddSchema(f[k - 1], k)
        <4>1. k \in 1..n
          BY <1>4, <3>1
        <4> QED
          BY <1>6, <4>1
      <3>2. ASSUME NEW k \in 0..n, ~(k > 0) PROVE f[k] = Opened
        <4>1. k = 0
          BY <1>4, <3>2
        <4> QED
          BY <1>6, <4>1
      <3> QED
        BY <3>1, <3>2 DEF Opened
    <2> QED
      BY <2>1, <2>2, Zenon
  <1>8. after = body(after)
    BY <1>7
  <1>9. Written(EmptyDocument) = after[n]
    BY DEF Written, n
  <1> HIDE DEF after
  <1>10. after[0] = Opened
    <2>1. 0 \in 0..n /\ ~(0 > 0)
      BY <1>4
    <2> QED
      BY <1>8, <2>1 DEF Opened
  <1>11. \A k \in 1..n : after[k] = AddSchema(after[k - 1], k)
    <2>1. \A k \in 1..n : k \in 0..n /\ k > 0
      BY <1>4
    <2> QED
      BY <1>8, <2>1
  <1>12. \A k \in 0..n : after[k] \in Documents
    <2> DEFINE U == {k \in 0..n : after[k] \in Documents}
    <2>1. 0 \in U
      BY <1>4, <1>10
    <2>2. ASSUME NEW k \in 1..n, k - 1 \in U PROVE k \in U
      BY <1>1, <1>4, <1>11, <2>2 DEF n
    <2> HIDE DEF U
    <2>3. \A k \in 0..n : k \in U
      BY <1>4, <2>1, <2>2, IntervalInduction
    <2> QED
      BY <2>3 DEF U
  <1>13. after \in [0..n -> Documents]
    BY <1>8, <1>12
  <1>14. Writes(after)
    BY <1>9, <1>10, <1>11, <1>13 DEF Writes, n
  <1> QED
    BY <1>14

(***************************************************************************)
(* What take writes is linked, and reads: the description, then what each  *)
(* schema adds, in layout order.                                           *)
(***************************************************************************)
LEMMA WrittenLinked ==
    ASSUME Len(tables) \in Nat
    PROVE  /\ Written(EmptyDocument) \in Documents
           /\ Linked(Written(EmptyDocument))
           /\ Reading(Written(EmptyDocument))
                 = OpeningRead
                      \o FlattenSeq([k \in 1..Len(tables) |-> SectionOf(k)])
  <1> DEFINE n == Len(tables)
             sections == [k \in 1..n |-> SectionOf(k)]
  <1>1. PICK after : Writes(after)
    BY WrittenUnfold
  <1>2. /\ after \in [0..n -> Documents] /\ after[0] = Opened
        /\ \A k \in 1..n : after[k] = AddSchema(after[k - 1], k)
        /\ Written(EmptyDocument) = after[n]
        /\ n \in Nat
    BY <1>1 DEF Writes
  <1>3. sections \in Seq(Seq(Entry)) /\ Len(sections) = n
        /\ \A k \in 1..n : sections[k] = SectionOf(k) /\ SectionOf(k) \in Seq(Entry)
    <2>1. \A k \in 1..n : SectionOf(k) \in Seq(Entry)
      BY OpenedLinked, SchemaAdded
    <2>2. sections \in [1..n -> Seq(Entry)]
      BY <2>1
    <2>3. \A k \in 1..n : sections[k] = SectionOf(k)
      OBVIOUS
    <2> HIDE DEF sections
    <2>4. sections \in Seq(Seq(Entry)) /\ Len(sections) = n
      BY <1>2, <2>2, IntervalIsSeq
    <2> QED
      BY <2>1, <2>3, <2>4
  <1>4. PICK f : Flattens(f, sections, Entry)
    <2> HIDE DEF sections
    <2> QED
      BY <1>3, FlattenUnfold
  <1>5. /\ f \in [0..n -> Seq(Entry)] /\ f[0] = <<>>
        /\ \A k \in 1..n : f[k] = f[k - 1] \o SectionOf(k)
        /\ FlattenSeq(sections) = f[n]
    <2> HIDE DEF sections
    <2> QED
      BY <1>3, <1>4 DEF Flattens
  <1> DEFINE U == {k \in 0..n : /\ Linked(after[k])
                                /\ Reading(after[k]) = OpeningRead \o f[k]}
  <1>6. 0 \in U
    <2>1. OpeningRead \o <<>> = OpeningRead
      BY OpenedLinked, ConcatEmptySeq
    <2>2. 0 \in 0..n
      BY <1>2
    <2> QED
      BY <1>2, <1>5, <2>1, <2>2, OpenedLinked
  <1>7. ASSUME NEW k \in 1..n, k - 1 \in U PROVE k \in U
    <2> DEFINE doc == after[k - 1]
               read == f[k - 1]
    <2>1. /\ doc \in Documents /\ Linked(doc)
          /\ Reading(doc) = OpeningRead \o read
          /\ read \in Seq(Entry) /\ k \in 0..n
      <3>1. k \in 0..n /\ k - 1 \in 0..n
        BY <1>2
      <3>2. Linked(after[k - 1]) /\ Reading(after[k - 1]) = OpeningRead \o f[k - 1]
        BY <1>7
      <3> HIDE DEF n, U
      <3>3. after[k - 1] \in Documents /\ f[k - 1] \in Seq(Entry)
        BY <1>2, <1>5, <3>1
      <3> QED
        BY <3>1, <3>2, <3>3
    <2>2. /\ Linked(AddSchema(doc, k))
          /\ Reading(AddSchema(doc, k)) = Reading(doc) \o SectionOf(k)
      <3> HIDE DEF doc
      <3> QED
        BY <1>2, <2>1, SchemaAdded
    <2>3. after[k] = AddSchema(doc, k) /\ f[k] = read \o SectionOf(k)
      BY <1>2, <1>5
    <2> HIDE DEF doc, read
    <2>4. (OpeningRead \o read) \o SectionOf(k) = OpeningRead \o (read \o SectionOf(k))
      <3>1. OpeningRead \in Seq(Entry) /\ read \in Seq(Entry)
            /\ SectionOf(k) \in Seq(Entry)
        BY <1>3, <2>1, OpenedLinked
      <3>2. Associates(Entry)
        BY JoinsAssociate, Zenon
      <3> QED
        BY <3>1, <3>2, Zenon DEF Associates
    <2> QED
      BY <2>1, <2>2, <2>3, <2>4
  <1> HIDE DEF U
  <1>8. \A k \in 0..n : k \in U
    BY <1>2, <1>6, <1>7, IntervalInduction
  <1>9. n \in U /\ after[n] \in Documents
    BY <1>2, <1>8
  <1> QED
    BY <1>2, <1>5, <1>9 DEF U

-----------------------------------------------------------------------------
(***************************************************************************)
(* The items of a document are its m texts, then its n tables, each with   *)
(* the body for its parent and a ref of its own.                           *)
(***************************************************************************)
LaidOut(doc, m, n) ==
    /\ m \in Nat /\ n \in Nat
    /\ Len(Items(doc)) = m + n /\ DOMAIN Items(doc) = 1..(m + n)
    /\ \A i \in 1..m : /\ Items(doc)[i] = doc.texts[i]
                       /\ doc.texts[i].self_ref = <<"texts", i - 1>>
    /\ \A i \in 1..n : /\ Items(doc)[m + i] = doc.tables[i]
                       /\ doc.tables[i].self_ref = <<"tables", i - 1>>
    /\ \A i \in 1..(m + n) : /\ Items(doc)[i].parent = Body
                             /\ Items(doc)[i].self_ref \in Given(doc)
    /\ \A i, j \in 1..(m + n) :
          Items(doc)[i].self_ref = Items(doc)[j].self_ref => i = j
    /\ \A ref \in Given(doc) :
          \E i \in 1..(m + n) : Items(doc)[i].self_ref = ref

(***************************************************************************)
(* So are those of a linked document.                                      *)
(***************************************************************************)
LEMMA ItemRefs ==
    ASSUME NEW doc \in Documents, Linked(doc)
    PROVE  LaidOut(doc, Len(doc.texts), Len(doc.tables))
  <1> DEFINE t == Len(doc.texts)
             u == Len(doc.tables)
             all == Items(doc)
             S == TextItems \cup TableItems
  <1>1. /\ doc.texts \in Seq(TextItems) /\ doc.tables \in Seq(TableItems)
        /\ doc.texts \in Seq(S) /\ doc.tables \in Seq(S)
        /\ t \in Nat /\ u \in Nat
    BY DEF Documents
  <1> HIDE DEF t, u
  <1>2. /\ all \in Seq(S) /\ Len(all) = t + u
        /\ \A i \in 1..(t + u) : all[i] = IF i <= t THEN doc.texts[i]
                                          ELSE doc.tables[i - t]
    <2> HIDE DEF S
    <2> QED
      BY <1>1, ConcatProperties DEF Items, t, u
  <1>3. ASSUME NEW i \in 1..t
        PROVE  /\ i \in 1..(t + u) /\ all[i] = doc.texts[i]
               /\ doc.texts[i].self_ref = <<"texts", i - 1>>
               /\ <<"texts", i - 1>> \in Given(doc)
               /\ doc.texts[i].parent = Body
    <2> DEFINE ref == <<"texts", i - 1>>
    <2>1. i \in 1..(t + u) /\ i <= t /\ i - 1 \in Nat /\ i - 1 < t /\ (i - 1) + 1 = i
      BY <1>1
    <2>2. ref \in Ref /\ ref[1] = "texts" /\ ref[2] = i - 1
      BY <2>1 DEF Ref
    <2>3. Arena(doc, ref[1]) = doc.texts
      BY <2>2 DEF Arena
    <2> HIDE DEF ref, all
    <2>4. ref \in Given(doc)
      BY <2>1, <2>2, <2>3 DEF Given, t
    <2>5. doc.texts[i].self_ref = ref
      BY <2>1, <2>2, <2>3, <2>4 DEF Linked
    <2>6. doc.texts[i].parent = Body
      BY <1>1, ItemParts DEF t
    <2> QED
      BY <1>2, <2>1, <2>4, <2>5, <2>6 DEF ref
  <1>4. ASSUME NEW i \in 1..u
        PROVE  /\ t + i \in 1..(t + u) /\ all[t + i] = doc.tables[i]
               /\ doc.tables[i].self_ref = <<"tables", i - 1>>
               /\ <<"tables", i - 1>> \in Given(doc)
               /\ doc.tables[i].parent = Body
    <2> DEFINE ref == <<"tables", i - 1>>
    <2>1. /\ t + i \in 1..(t + u) /\ ~(t + i <= t) /\ (t + i) - t = i
          /\ i - 1 \in Nat /\ i - 1 < u /\ (i - 1) + 1 = i
      BY <1>1
    <2>2. ref \in Ref /\ ref[1] = "tables" /\ ref[2] = i - 1
      BY <2>1 DEF Ref
    <2>3. Arena(doc, ref[1]) = doc.tables
      BY <2>2 DEF Arena
    <2> HIDE DEF ref, all
    <2>4. ref \in Given(doc)
      BY <2>1, <2>2, <2>3 DEF Given, u
    <2>5. doc.tables[i].self_ref = ref
      BY <2>1, <2>2, <2>3, <2>4 DEF Linked
    <2>6. doc.tables[i].parent = Body
      BY <1>1, ItemParts DEF u
    <2> QED
      BY <1>2, <2>1, <2>4, <2>5, <2>6 DEF ref
  <1> HIDE DEF all
  <1>5. \A i \in 1..(t + u) : i \in 1..t \/ \E j \in 1..u : i = t + j
    <2>1. ASSUME NEW i \in 1..(t + u)
          PROVE  i \in 1..t \/ \E j \in 1..u : i = t + j
      <3>1. CASE i \notin 1..t
        <4>1. i - t \in 1..u /\ i = t + (i - t)
          BY <1>1, <3>1
        <4> QED
          BY <4>1
      <3> QED
        BY <3>1
    <2> QED
      BY <2>1
  <1>6. \A i \in 1..(t + u) : all[i].parent = Body /\ all[i].self_ref \in Given(doc)
    <2>1. ASSUME NEW i \in 1..(t + u)
          PROVE  all[i].parent = Body /\ all[i].self_ref \in Given(doc)
      <3>1. CASE i \in 1..t
        BY <1>3, <3>1
      <3>2. ASSUME NEW j \in 1..u, i = t + j
            PROVE  all[i].parent = Body /\ all[i].self_ref \in Given(doc)
        BY <1>4, <3>2
      <3> QED
        BY <1>5, <3>1, <3>2
    <2> QED
      BY <2>1
  <1>7. ASSUME NEW i \in 1..(t + u), NEW j \in 1..(t + u),
               all[i].self_ref = all[j].self_ref
        PROVE  i = j
    <2>1. CASE i \in 1..t /\ j \in 1..t
      <3>1. <<"texts", i - 1>> = <<"texts", j - 1>>
        BY <1>3, <1>7, <2>1
      <3>2. i - 1 = j - 1
        BY <3>1
      <3> QED
        BY <2>1, <3>2
    <2>2. ASSUME NEW d \in 1..t, NEW e \in 1..u
          PROVE  all[d].self_ref # all[t + e].self_ref
      <3>1. all[d].self_ref = <<"texts", d - 1>>
            /\ all[t + e].self_ref = <<"tables", e - 1>>
        BY <1>3, <1>4
      <3> QED
        BY <3>1
    <2>3. ASSUME NEW d \in 1..u, NEW e \in 1..u,
                 all[t + d].self_ref = all[t + e].self_ref
          PROVE  d = e
      <3>1. <<"tables", d - 1>> = <<"tables", e - 1>>
        BY <1>4, <2>3
      <3>2. d - 1 = e - 1
        BY <3>1
      <3> QED
        BY <3>2
    <2> QED
      BY <1>5, <1>7, <2>1, <2>2, <2>3
  <1>8. ASSUME NEW ref \in Given(doc)
        PROVE  \E i \in 1..(t + u) : all[i].self_ref = ref
    <2>1. /\ ref[1] \in {"texts", "tables"} /\ ref[2] \in Nat
          /\ ref = <<ref[1], ref[2]>> /\ ref[2] < Len(Arena(doc, ref[1]))
      BY RefParts DEF Given
    <2>2. CASE ref[1] = "texts"
      <3>1. ref[2] + 1 \in 1..t /\ (ref[2] + 1) - 1 = ref[2]
        BY <2>1, <2>2, <1>1 DEF Arena, t
      <3> QED
        BY <1>3, <2>1, <2>2, <3>1
    <2>3. CASE ref[1] = "tables"
      <3>1. ref[2] + 1 \in 1..u /\ (ref[2] + 1) - 1 = ref[2]
        BY <2>1, <2>3, <1>1 DEF Arena, u
      <3> DEFINE j == ref[2] + 1
      <3>2. ref = <<"tables", j - 1>>
        BY <2>1, <2>3, <3>1
      <3> HIDE DEF j
      <3>3. j \in 1..u
        BY <3>1 DEF j
      <3>4. all[t + j].self_ref = ref /\ t + j \in 1..(t + u)
        BY <1>4, <3>2, <3>3
      <3> QED
        BY <3>4
    <2> QED
      BY <2>1, <2>2, <2>3
  <1>9. DOMAIN all = 1..(t + u)
    BY <1>2
  <1> QED
    BY <1>1, <1>2, <1>3, <1>4, <1>6, <1>7, <1>8, <1>9 DEF LaidOut, all, t, u

(***************************************************************************)
(* What the links of a document resolve to.                                *)
(***************************************************************************)
LEMMA RefsOfLinked ==
    ASSUME NEW doc \in Documents, Linked(doc)
    PROVE  /\ Refs(doc) = {Body, Furniture} \cup Given(doc)
           /\ Listed(doc, Body) = Given(doc)
           /\ Listed(doc, Furniture) = {}
           /\ \A ref \in Given(doc) : ref # Body /\ ref # Furniture
  <1>1. \A ref \in Given(doc) : ref # Body /\ ref # Furniture
    BY RefParts DEF Given
  <1>2. Refs(doc) = {Body, Furniture} \cup Given(doc)
    <2> DEFINE refs == {Items(doc)[i].self_ref : i \in DOMAIN Items(doc)}
               m == Len(doc.texts)
               n == Len(doc.tables)
    <2>0. LaidOut(doc, m, n)
      BY ItemRefs
    <2> HIDE DEF m, n
    <2>1. ASSUME NEW ref \in Given(doc) PROVE ref \in refs
      <3>1. PICK i \in 1..(m + n) : Items(doc)[i].self_ref = ref
        BY <2>0 DEF LaidOut
      <3>2. i \in DOMAIN Items(doc)
        BY <2>0 DEF LaidOut
      <3> QED
        BY <3>1, <3>2
    <2>2. \A ref \in refs : ref \in Given(doc)
      BY <2>0 DEF LaidOut
    <2>3. Refs(doc) = {Body, Furniture} \cup refs
      BY DEF Refs
    <2> HIDE DEF refs
    <2> QED
      BY <2>1, <2>2, <2>3
  <1>3. doc.body \in Seq(Ref) /\ doc.furniture = <<>> /\ Furniture # Body
    BY DEF Documents, Furniture, Body
  <1>4. Listed(doc, Body) = Given(doc)
    <2>1. \A ref : ref \in ToSet(doc.body) <=>
                      \E i \in 1..Len(doc.body) : ref = doc.body[i]
      <3>1. DOMAIN doc.body = 1..Len(doc.body)
        BY <1>3
      <3>2. ToSet(doc.body) = {doc.body[i] : i \in DOMAIN doc.body}
        BY DEF ToSet
      <3>3. \A ref : ref \in ToSet(doc.body) <=>
                        \E i \in DOMAIN doc.body : ref = doc.body[i]
        BY <3>2
      <3> QED
        BY <3>1, <3>3
    <2>2. Listed(doc, Body) = ToSet(doc.body)
      BY <1>3 DEF Listed
    <2>3. /\ \A i \in 1..Len(doc.body) : doc.body[i] \in Given(doc)
          /\ \A ref \in Given(doc) : \E i \in 1..Len(doc.body) : doc.body[i] = ref
      BY DEF Linked
    <2> QED
      BY <2>1, <2>2, <2>3
  <1>5. Listed(doc, Furniture) = {}
    BY <1>3 DEF Listed, ToSet
  <1> QED
    BY <1>1, <1>2, <1>4, <1>5

(***************************************************************************)
(* integrity_errors finds nothing in a linked document.                    *)
(***************************************************************************)
LEMMA LinkedIsSound ==
    ASSUME NEW doc \in Documents, Linked(doc)
    PROVE  Sound(doc) /\ Len(doc.body) = Len(Items(doc))
  <1> DEFINE t == Len(doc.texts)
             u == Len(doc.tables)
             n == t + u
  <1>0. LaidOut(doc, t, u)
    BY ItemRefs
  <1>2. Len(doc.body) = n
    BY DEF Linked
  <1> HIDE DEF t, u
  <1>1. /\ Len(Items(doc)) = n /\ DOMAIN Items(doc) = 1..n /\ n \in Nat
        /\ \A i \in 1..n : /\ Items(doc)[i].parent = Body
                           /\ Items(doc)[i].self_ref \in Given(doc)
        /\ \A i, j \in 1..n :
              Items(doc)[i].self_ref = Items(doc)[j].self_ref => i = j
    <2>1. n \in Nat
      BY <1>0 DEF LaidOut
    <2> QED
      BY <1>0, <2>1 DEF LaidOut
  <1> HIDE DEF n
  <1>3. Repeated(doc) = {}
    <2>1. ASSUME NEW i \in 1..n PROVE i \notin Repeated(doc)
      <3>1. Items(doc)[i].self_ref \notin {Body, Furniture}
        BY <1>1, RefsOfLinked
      <3>2. \A j \in 1..(i - 1) : Items(doc)[j].self_ref # Items(doc)[i].self_ref
        <4>1. \A j \in 1..(i - 1) : j \in 1..n /\ j # i
          BY <1>1
        <4> QED
          BY <1>1, <4>1
      <3> QED
        BY <3>1, <3>2 DEF Repeated
    <2> QED
      BY <1>1, <2>1 DEF Repeated
  <1>4. Dangling(doc) = {}
    BY RefsOfLinked DEF Dangling
  <1>5. BadClaims(doc) = {}
    <2>1. ASSUME NEW i \in 1..n PROVE i \notin BadClaims(doc)
      BY <1>1, RefsOfLinked DEF BadClaims
    <2> QED
      BY <1>1, <2>1 DEF BadClaims
  <1> QED
    BY <1>1, <1>2, <1>3, <1>4, <1>5 DEF Sound

(***************************************************************************)
(* Following the refs of a linked body finds the items it lists.           *)
(***************************************************************************)
LEMMA ReadsAreReading ==
    ASSUME document \in Documents, Linked(document)
    PROVE  Reads = Reading(document)
  <1> DEFINE items == Items(document)
             at(ref) == CHOOSE i \in DOMAIN items : items[i].self_ref = ref
             t == Len(document.texts)
             u == Len(document.tables)
  <1>0. LaidOut(document, t, u)
    BY ItemRefs
  <1>1. document.body \in Seq(Ref) /\ DOMAIN document.body = 1..Len(document.body)
    BY DEF Documents
  <1> HIDE DEF t, u
  <1>2. ASSUME NEW ref \in Given(document)
        PROVE  EntryOf(document, ref) =
                  IF ref[1] = "texts" THEN <<"text", items[at(ref)].label>>
                  ELSE <<"table", items[at(ref)].schema>>
    <2>1. /\ ref[1] \in {"texts", "tables"} /\ ref[2] \in Nat
          /\ ref = <<ref[1], ref[2]>> /\ ref[2] < Len(Arena(document, ref[1]))
      BY RefParts DEF Given
    <2>2. t \in Nat /\ u \in Nat
      BY <1>0 DEF LaidOut
    <2>3. ASSUME NEW i \in DOMAIN items, items[i].self_ref = ref
          PROVE  at(ref) = i
      <3>1. at(ref) \in DOMAIN items /\ items[at(ref)].self_ref = ref
        BY <2>3
      <3> HIDE DEF at
      <3> QED
        BY <2>3, <3>1, <1>0 DEF LaidOut
    <2>4. CASE ref[1] = "texts"
      <3> DEFINE i == ref[2] + 1
      <3>1. i \in 1..t /\ i - 1 = ref[2] /\ i \in 1..(t + u)
        <4>1. ref[2] < t
          BY <2>1, <2>4 DEF Arena, t
        <4> QED
          BY <2>1, <2>2, <4>1
      <3> HIDE DEF i
      <3>2. items[i] = document.texts[i] /\ items[i].self_ref = ref
        <4>1. /\ items[i] = document.texts[i]
              /\ document.texts[i].self_ref = <<"texts", i - 1>>
          BY <1>0, <3>1 DEF LaidOut
        <4>2. ref = <<"texts", i - 1>>
          BY <2>1, <2>4, <3>1
        <4> QED
          BY <4>1, <4>2
      <3>3. i \in DOMAIN items
        BY <3>1, <1>0 DEF LaidOut
      <3>4. at(ref) = i
        BY <2>3, <3>2, <3>3
      <3> HIDE DEF at, items
      <3> QED
        BY <2>4, <3>2, <3>4 DEF EntryOf, i
    <2>5. CASE ref[1] = "tables"
      <3> DEFINE i == ref[2] + 1
      <3>1. i \in 1..u /\ i - 1 = ref[2] /\ t + i \in 1..(t + u)
        <4>1. ref[2] < u
          BY <2>1, <2>5 DEF Arena, u
        <4> QED
          BY <2>1, <2>2, <4>1
      <3> HIDE DEF i
      <3>2. items[t + i] = document.tables[i] /\ items[t + i].self_ref = ref
        <4>1. /\ items[t + i] = document.tables[i]
              /\ document.tables[i].self_ref = <<"tables", i - 1>>
          BY <1>0, <3>1 DEF LaidOut
        <4>2. ref = <<"tables", i - 1>>
          BY <2>1, <2>5, <3>1
        <4> QED
          BY <4>1, <4>2
      <3>3. t + i \in DOMAIN items
        BY <3>1, <1>0 DEF LaidOut
      <3>4. at(ref) = t + i
        BY <2>3, <3>2, <3>3
      <3> HIDE DEF at, items
      <3> QED
        BY <2>1, <2>5, <3>2, <3>4 DEF EntryOf, i
    <2> QED
      BY <2>1, <2>4, <2>5
  <1>3. Reads = [i \in DOMAIN document.body |->
                   IF document.body[i][1] = "texts"
                   THEN <<"text", items[at(document.body[i])].label>>
                   ELSE <<"table", items[at(document.body[i])].schema>>]
    BY DEF Reads
  <1>4. Reading(document) = [i \in 1..Len(document.body) |->
                               EntryOf(document, document.body[i])]
    BY DEF Reading
  <1> HIDE DEF at, items
  <1>5. \A i \in 1..Len(document.body) :
           EntryOf(document, document.body[i]) =
              IF document.body[i][1] = "texts"
              THEN <<"text", items[at(document.body[i])].label>>
              ELSE <<"table", items[at(document.body[i])].schema>>
    BY <1>2 DEF Linked
  <1> QED
    BY <1>1, <1>3, <1>4, <1>5

(***************************************************************************)
(* What is known of a document that was taken.                             *)
(***************************************************************************)
LEMMA TakenDocument ==
    ASSUME DInv, phase = "taken"
    PROVE  /\ Len(tables) = Len(layout) /\ Len(layout) \in Nat
           /\ document = Written(EmptyDocument)
           /\ document \in Documents /\ Linked(document)
           /\ \A k \in 1..Len(layout) : Occurs(k) <=> seen[k] # <<>>
  <1>1. /\ Len(tables) = Len(layout) /\ Len(layout) \in Nat
        /\ document = Written(EmptyDocument) /\ DOMAIN tables = 1..Len(layout)
    BY DEF DInv, Typed, DocumentKept
  <1>2. ASSUME NEW k \in 1..Len(layout) PROVE Occurs(k) <=> seen[k] # <<>>
    <2>1. /\ tables[k].rows \in Nat /\ tables[k].dropped \in Nat
          /\ seen[k] \in Seq(SeenRecord)
      BY <1>1, RowsPaid DEF TableState
    <2>2. tables[k].rows + tables[k].dropped = Len(seen[k])
      BY <1>1 DEF DInv, TablesKept, TableKept
    <2>3. Occurs(k) <=> Len(seen[k]) # 0
      BY <2>1, <2>2 DEF Occurs
    <2> QED
      BY <2>1, <2>3
  <1> QED
    BY <1>1, <1>2, WrittenLinked

(***************************************************************************)
(* Every document taken is safe to merge, lists each of its items once,    *)
(* and reads as the layout says (take, integrity_errors).                  *)
(***************************************************************************)
THEOREM DocumentLinked == Spec => []LinksHold
  <1>1. DInv => LinksHold
    <2> SUFFICES ASSUME DInv, phase = "taken"
                 PROVE  LinksHold
      BY DEF LinksHold
    <2> DEFINE Section(k) == IF seen[k] = <<>> THEN <<>>
                             ELSE IF Len(layout) > 1
                             THEN <<<<"text", k>>, <<"table", k>>>>
                             ELSE <<<<"table", k>>>>
    <2>1. [k \in 1..Len(layout) |-> Section(k)]
             = [k \in 1..Len(tables) |-> SectionOf(k)]
      BY TakenDocument DEF SectionOf
    <2>2. Sound(document) /\ Len(document.body) = Len(Items(document))
      BY TakenDocument, LinkedIsSound
    <2>3. Reads = OpeningRead
                     \o FlattenSeq([k \in 1..Len(tables) |-> SectionOf(k)])
      BY TakenDocument, ReadsAreReading, WrittenLinked
    <2> QED
      BY <2>1, <2>2, <2>3 DEF LinksHold, OpeningRead
  <1> QED
    BY <1>1, DInvInductive, PTL

-----------------------------------------------------------------------------
(***************************************************************************)
(* A column is declared under a name that no other has, so that a cell is  *)
(* placed under the column of its own field.                               *)
(***************************************************************************)
LEMMA ColumnsFound ==
    ASSUME NEW schema \in Schema, NEW f \in ToSet(schema.fields),
           f.kind # "Skip"
    PROVE  /\ \E c \in 1..Len(Columns(schema)) : Columns(schema)[c] = f
           /\ \A c \in 1..Len(Columns(schema)) :
                 Columns(schema)[c] = f => Column(schema, f.name) = c
  <1> DEFINE columns == Columns(schema)
             fields == schema.fields
             n == Len(schema.fields)
             T == {g \in ToSet(schema.fields) : g.kind # "Skip"}
  <1>1. PICK at : Picks(columns, at, fields, n, T)
    BY ColumnsPick
  <1>2. fields \in Seq(SchemaField) /\ columns \in Seq(SchemaField)
        /\ n \in Nat /\ DOMAIN fields = 1..n
    BY ColumnsPick
  <1>3. /\ at \in [1..Len(columns) -> 1..n]
        /\ \A c \in 1..Len(columns) : columns[c] = fields[at[c]] /\ fields[at[c]] \in T
        /\ \A c, d \in 1..Len(columns) : c < d => at[c] < at[d]
        /\ \A i \in 1..n : fields[i] \in T => \E c \in 1..Len(columns) : at[c] = i
    BY <1>1 DEF Picks
  <1>4. \A i, j \in 1..n :
           i < j /\ fields[i].kind # "Skip" /\ fields[j].kind # "Skip" =>
              fields[i].name # fields[j].name
    BY <1>2 DEF Schema
  <1>5. PICK i \in 1..n : fields[i] = f
    BY <1>2 DEF ToSet
  <1>6. fields[i] \in T
    BY <1>5
  <1> HIDE DEF columns, fields, n, T
  <1>7. PICK b \in 1..Len(columns) : columns[b] = f
    BY <1>3, <1>5, <1>6
  <1>8. ASSUME NEW c \in 1..Len(columns), NEW d \in 1..Len(columns), c < d
        PROVE  columns[c].name # columns[d].name
    <2>1. /\ at[c] \in 1..n /\ at[d] \in 1..n /\ at[c] < at[d]
          /\ columns[c] = fields[at[c]] /\ columns[d] = fields[at[d]]
      BY <1>3, <1>8
    <2>2. columns[c].kind # "Skip" /\ columns[d].kind # "Skip"
      BY <1>3 DEF T
    <2> QED
      BY <1>4, <2>1, <2>2
  <1>9. ASSUME NEW c \in 1..Len(columns), NEW d \in 1..Len(columns),
               columns[c].name = columns[d].name
        PROVE  c = d
    <2>1. c \in Int /\ d \in Int
      OBVIOUS
    <2>2. ~(c < d) /\ ~(d < c)
      BY <1>8, <1>9
    <2> QED
      BY <2>1, <2>2
  <1>10. ASSUME NEW c \in 1..Len(columns), columns[c] = f
         PROVE  Column(schema, f.name) = c
    <2> DEFINE I == {d \in 1..Len(columns) : columns[d].name = f.name}
    <2>1. I = {c}
      BY <1>9, <1>10
    <2>2. Column(schema, f.name) = IF I # {} THEN Max(I) ELSE 0
      BY DEF Column, SelectLastInSeq, columns
    <2>3. Max({c}) = c
      BY DEF Max
    <2> HIDE DEF I
    <2> QED
      BY <2>1, <2>2, <2>3
  <1> QED
    BY <1>7, <1>10 DEF columns

(***************************************************************************)
(* The value of a column is the decoded cell of its field.                 *)
(***************************************************************************)
LEMMA ValuesLocated ==
    ASSUME NEW schema \in Schema, NEW e \in Extent,
           NEW c \in 1..Len(Columns(schema))
    PROVE  Values(schema, Decoded(schema, e))[c].text
              = <<e.start + Prefix + Columns(schema)[c].offset>>
  <1> DEFINE columns == Columns(schema)
             f == columns[c]
             place == [name |-> f.name, numeric |-> f.kind # "Text",
                       at |-> e.start + Prefix + f.offset]
             under == {cell \in Decoded(schema, e) : Column(schema, cell.name) = c}
  <1>1. columns \in Seq(SchemaField) /\ DOMAIN columns = 1..Len(columns)
    BY ColumnsPick
  <1>2. f \in ToSet(schema.fields) /\ f.kind # "Skip"
    <2>1. PICK at : Picks(columns, at, schema.fields, Len(schema.fields),
                          {g \in ToSet(schema.fields) : g.kind # "Skip"})
      BY ColumnsPick
    <2> QED
      BY <2>1 DEF Picks
  <1>3. place \in under
    <2>1. place \in Decoded(schema, e)
      BY <1>2 DEF Decoded
    <2>2. Column(schema, f.name) = c
      BY <1>2, ColumnsFound
    <2> QED
      BY <2>1, <2>2
  <1>4. ASSUME NEW cell \in under PROVE cell = place
    <2>1. PICK g \in ToSet(schema.fields) :
             /\ g.kind # "Skip"
             /\ cell = [name |-> g.name, numeric |-> g.kind # "Text",
                        at |-> e.start + Prefix + g.offset]
      BY <1>4 DEF Decoded
    <2>2. PICK d \in 1..Len(columns) : columns[d] = g
      BY <2>1, ColumnsFound
    <2>3. Column(schema, g.name) = d
      BY <2>1, <2>2, ColumnsFound
    <2>4. Column(schema, cell.name) = c /\ cell.name = g.name
      BY <1>4, <2>1
    <2>5. g = f
      BY <2>2, <2>3, <2>4
    <2> QED
      BY <2>1, <2>5
  <1>5. Values(schema, Decoded(schema, e))[c] =
           IF under = {} THEN NoValue
           ELSE LET cell == CHOOSE cell \in under : TRUE
                IN  [text |-> <<cell.at>>, number |-> cell.numeric]
    BY <1>1 DEF Values
  <1> HIDE DEF under
  <1> DEFINE chosen == CHOOSE cell \in under : TRUE
  <1>6. under # {} /\ chosen = place
    BY <1>3, <1>4
  <1>7. Values(schema, Decoded(schema, e))[c]
           = [text |-> <<chosen.at>>, number |-> chosen.numeric]
    BY <1>5, <1>6
  <1> HIDE DEF place, chosen
  <1>8. Values(schema, Decoded(schema, e))[c].text = <<place.at>>
    BY <1>6, <1>7
  <1> QED
    BY <1>8 DEF place

(***************************************************************************)
(* The fields of a schema share no byte, so that a field's first byte is   *)
(* in a column only if the column is that field's.                         *)
(***************************************************************************)
LEMMA FillersUncovered ==
    ASSUME NEW schema \in Schema, NEW f \in ToSet(schema.fields)
    PROVE  f.kind = "Skip" <=>
              \A c \in 1..Len(Columns(schema)) :
                 f.offset \notin Columns(schema)[c].offset
                                   ..(Columns(schema)[c].offset
                                        + Columns(schema)[c].size - 1)
  <1> DEFINE columns == Columns(schema)
             fields == schema.fields
             n == Len(schema.fields)
             T == {g \in ToSet(schema.fields) : g.kind # "Skip"}
             covered(c) == columns[c].offset
                             ..(columns[c].offset + columns[c].size - 1)
  <1>1. PICK at : Picks(columns, at, fields, n, T)
    BY ColumnsPick
  <1>2. fields \in Seq(SchemaField) /\ columns \in Seq(SchemaField)
        /\ n \in Nat /\ DOMAIN fields = 1..n
    BY ColumnsPick
  <1>3. PICK i \in 1..n : fields[i] = f
    BY <1>2 DEF ToSet
  <1>4. \A j \in 1..n : /\ fields[j].offset \in Nat
                        /\ fields[j].size \in Nat /\ fields[j].size > 0
    <2>1. \A j \in 1..n : fields[j] \in SchemaField
      BY <1>2
    <2> QED
      BY <2>1 DEF SchemaField
  <1>5. ASSUME f.kind = "Skip", NEW c \in 1..Len(columns)
        PROVE  f.offset \notin covered(c)
    <2>1. /\ at[c] \in 1..n /\ columns[c] = fields[at[c]]
          /\ columns[c].kind # "Skip"
      BY <1>1 DEF Picks
    <2> DEFINE j == at[c]
               g == fields[j]
    <2>2. j # i
      BY <1>3, <1>5, <2>1
    <2>3. \/ i < j /\ f.offset + f.size <= g.offset
          \/ j < i /\ g.offset + g.size <= f.offset
      <3>1. i < j \/ j < i
        BY <2>1, <2>2
      <3>2. \A d, e \in 1..n :
               d < e => fields[d].offset + fields[d].size <= fields[e].offset
        BY <1>2 DEF Schema
      <3> QED
        BY <1>3, <2>1, <3>1, <3>2
    <2>4. /\ f.offset \in Nat /\ f.size \in Nat /\ f.size > 0
          /\ g.offset \in Nat /\ g.size \in Nat /\ g.size > 0
      BY <1>3, <1>4, <2>1
    <2>5. columns[c] = g
      BY <2>1
    <2> HIDE DEF g, j
    <2>6. f.offset \notin g.offset..(g.offset + g.size - 1)
      <3>1. \A a, b, c_, d \in Nat :
               b > 0 /\ (a + b <= c_ \/ c_ + d <= a) => a \notin c_..(c_ + d - 1)
        OBVIOUS
      <3> QED
        BY <2>3, <2>4, <3>1
    <2> QED
      BY <2>5, <2>6
  <1>6. ASSUME f.kind # "Skip"
        PROVE  \E c \in 1..Len(columns) : f.offset \in covered(c)
    <2>1. PICK c \in 1..Len(columns) : columns[c] = f
      BY <1>6, ColumnsFound
    <2>2. f.offset \in Nat /\ f.size \in Nat /\ f.size > 0
      BY <1>3, <1>4
    <2>3. f.offset \in f.offset..(f.offset + f.size - 1)
      BY <2>2
    <2> QED
      BY <2>1, <2>3
  <1> QED
    BY <1>5, <1>6

-----------------------------------------------------------------------------
(***************************************************************************)
(* A row of a table: a cell per column, numbered, with the value found     *)
(* where the record and the column say.                                    *)
(***************************************************************************)
RowPlaced(k, q, row, e) ==
    /\ DOMAIN row = 1..Len(Columns(layout[k]))
    /\ Len(row) = Len(Columns(layout[k]))
    /\ \A c \in 1..Len(Columns(layout[k])) :
          /\ row[c].row = q /\ row[c].column = c - 1
          /\ row[c].text = <<e.start + Prefix + Columns(layout[k])[c].offset>>
    /\ e.start = seen[k][q].start

(***************************************************************************)
(* So is every row of a table that is kept.                                *)
(***************************************************************************)
LEMMA RowsArePlaced ==
    ASSUME DInv, NEW k \in DOMAIN tables, NEW q \in 1..tables[k].rows
    PROVE  RowPlaced(k, q, tables[k].grid[q], tables[k].row_prov[q])
  <1> DEFINE e == tables[k].row_prov[q]
             row == tables[k].grid[q]
             columns == Columns(layout[k])
             values == Values(layout[k], Decoded(layout[k], e))
  <1>1. /\ k \in 1..Len(layout) /\ tables[k] \in TableState
        /\ layout[k] \in Schema
    BY RowsPaid
  <1>2. RowOf(k, q, e, row) /\ Len(tables[k].row_prov) = tables[k].rows
    BY DEF DInv, TablesKept, TableKept
  <1>3. e \in Extent /\ q \in Nat
    <2>1. tables[k].row_prov \in Seq(Extent) /\ tables[k].rows \in Nat
      BY <1>1 DEF TableState
    <2> QED
      BY <1>2, <2>1
  <1>4. e.schema = k /\ e.start = seen[k][q].start /\ row = Cells(values, q)
    BY <1>2 DEF RowOf
  <1>5. row \in Seq(GridCell) /\ Len(row) = Len(columns)
    <2> HIDE DEF e
    <2>1. Typed
      BY DEF DInv
    <2>2. /\ Cells(values, q) \in Seq(GridCell)
          /\ Len(Cells(values, q)) = Len(columns)
      BY <1>1, <1>3, <1>4, <2>1, CellsTyped
    <2> QED
      BY <1>4, <2>2
  <1>6. columns \in Seq(SchemaField) /\ DOMAIN columns = 1..Len(columns)
    BY <1>1, ColumnsPick
  <1>7. DOMAIN values = 1..Len(columns)
    BY <1>6 DEF Values
  <1> HIDE DEF e, row, values
  <1>8. DOMAIN row = 1..Len(columns)
    BY <1>5
  <1>9. ASSUME NEW c \in 1..Len(columns)
        PROVE  /\ row[c].row = q /\ row[c].column = c - 1
               /\ row[c].text = <<e.start + Prefix + columns[c].offset>>
    <2>1. row[c] = TableCell(values[c], q, c - 1, FALSE)
      BY <1>4, <1>7 DEF Cells
    <2>2. values[c].text = <<e.start + Prefix + columns[c].offset>>
      BY <1>1, <1>3, ValuesLocated DEF values
    <2> QED
      BY <2>1, <2>2 DEF TableCell
  <1> QED
    BY <1>4, <1>5, <1>8, <1>9 DEF RowPlaced, e, row

(***************************************************************************)
(* The header of a table is a row of grid cells, numbered zero.            *)
(***************************************************************************)
LEMMA HeaderPlaced ==
    ASSUME NEW schema \in Schema
    PROVE  /\ Header(schema) \in Seq(GridCell)
           /\ DOMAIN Header(schema) = 1..Len(Columns(schema))
           /\ Len(Header(schema)) = Len(Columns(schema))
           /\ \A c \in 1..Len(Columns(schema)) :
                 Header(schema)[c].row = 0 /\ Header(schema)[c].column = c - 1
  <1> DEFINE columns == Columns(schema)
             header == Header(schema)
             w == Len(columns)
  <1>1. columns \in Seq(SchemaField) /\ DOMAIN columns = 1..w /\ w \in Nat
    BY ColumnsPick
  <1>2. header = [c \in DOMAIN columns |->
                    TableCell([text |-> <<columns[c].name>>, number |-> FALSE],
                              0, c - 1, TRUE)]
    BY DEF Header
  <1>3. \A c \in 1..w : columns[c].name \in STRING
    <2>1. \A c \in 1..w : columns[c] \in SchemaField
      BY <1>1
    <2> QED
      BY <2>1 DEF SchemaField
  <1> HIDE DEF columns, header, w
  <1>4. ASSUME NEW c \in 1..w
        PROVE  /\ header[c] \in GridCell
               /\ header[c].row = 0 /\ header[c].column = c - 1
    <2>1. header[c] = TableCell([text |-> <<columns[c].name>>, number |-> FALSE],
                                0, c - 1, TRUE)
      BY <1>1, <1>2
    <2>2. <<columns[c].name>> \in Seq(Nat \cup STRING) /\ c - 1 \in Nat
      <3>1. columns[c].name \in Nat \cup STRING
        BY <1>3
      <3> QED
        BY <1>1, <3>1
    <2> QED
      BY <2>1, <2>2 DEF TableCell, GridCell
  <1>5. header \in [1..w -> GridCell]
    BY <1>1, <1>2, <1>4
  <1>6. header \in Seq(GridCell) /\ DOMAIN header = 1..w /\ Len(header) = w
    BY <1>1, <1>5, IntervalIsSeq
  <1> QED
    BY <1>4, <1>6 DEF columns, header, w

(***************************************************************************)
(* What Aligned and CellsAreLocated ask of a table, of the table that      *)
(* add_table makes of the state of a schema.                               *)
(***************************************************************************)
TableAligned(t) ==
    /\ Len(t.grid) = t.num_rows
    /\ Len(t.row_prov) = t.num_rows
    /\ \A r \in DOMAIN t.grid :
          /\ Len(t.grid[r]) = Len(t.columns)
          /\ \A c \in DOMAIN t.grid[r] :
                <<t.grid[r][c].row, t.grid[r][c].column>> = <<r - 1, c - 1>>
    /\ t.table_cells = FlattenSeq(t.grid)
    /\ \A r \in 1..(t.num_rows - 1) :
          t.row_prov[r + 1].start = seen[t.schema][r].start
    /\ t.rows_truncated = Len(seen[t.schema]) + 1 - t.num_rows
    /\ t.custom_fields.rows = t.num_rows - 1
    /\ t.custom_fields.rows_truncated
          = IF t.rows_truncated = 0 THEN {} ELSE {t.rows_truncated}

CellsPlaced(t) ==
    \A r \in 2..t.num_rows, c \in DOMAIN t.columns :
       t.grid[r][c].text
          = <<t.row_prov[r].start + Prefix + t.columns[c].offset>>

(***************************************************************************)
(* The table item of a schema is aligned and its cells can be traced.      *)
(***************************************************************************)
LEMMA TableItemLocated ==
    ASSUME DInv, NEW k \in DOMAIN tables, NEW ref
    PROVE  TableAligned(TableItem(k, ref)) /\ CellsPlaced(TableItem(k, ref))
  <1> DEFINE t == TableItem(k, ref)
             state == tables[k]
             columns == Columns(layout[k])
             header == Header(layout[k])
             grid == <<header>> \o state.grid
             prov == <<NoExtent>> \o state.row_prov
             m == state.rows
             w == Len(columns)
  <1>1. /\ state \in TableState /\ layout[k] \in Schema
        /\ state.grid \in Seq(Seq(GridCell)) /\ state.row_prov \in Seq(Extent)
        /\ m \in Nat /\ state.dropped \in Nat
        /\ Len(state.grid) = m /\ Len(state.row_prov) = m
        /\ m + state.dropped = Len(seen[k])
    <2>1. state \in TableState /\ layout[k] \in Schema
      BY RowsPaid
    <2>2. TableKept(k)
      BY DEF DInv, TablesKept
    <2> QED
      BY <2>1, <2>2 DEF TableState, TableKept
  <1>2. /\ header \in Seq(GridCell) /\ DOMAIN header = 1..w /\ Len(header) = w
        /\ \A c \in 1..w : header[c].row = 0 /\ header[c].column = c - 1
    BY <1>1, HeaderPlaced
  <1>3. /\ t.schema = k /\ t.num_rows = m + 1 /\ t.grid = grid
        /\ t.table_cells = header \o FlattenSeq(state.grid)
        /\ t.row_prov = prov /\ t.columns = columns
        /\ t.rows_truncated = state.dropped
        /\ t.custom_fields = TableCustomFields(k, state)
    BY DEF TableItem
  <1>4. \A q \in 1..m : RowPlaced(k, q, state.grid[q], state.row_prov[q])
    BY RowsArePlaced
  <1>5. columns \in Seq(SchemaField) /\ DOMAIN columns = 1..w
    BY <1>1, ColumnsPick
  <1> HIDE DEF t, header, state, columns
  <1>6. /\ Len(grid) = m + 1 /\ DOMAIN grid = 1..(m + 1) /\ grid[1] = header
        /\ \A q \in 1..m : grid[q + 1] = state.grid[q]
    <2>1. /\ Len(grid) = Len(state.grid) + 1
          /\ DOMAIN grid = 1..(Len(state.grid) + 1) /\ grid[1] = header
          /\ \A q \in 1..Len(state.grid) : grid[q + 1] = state.grid[q]
      <3> DEFINE rows == state.grid
                 S == Seq(GridCell)
      <3>1. header \in S /\ rows \in Seq(S)
        BY <1>1, <1>2
      <3> HIDE DEF rows, S
      <3>2. /\ Len(<<header>> \o rows) = Len(rows) + 1
            /\ DOMAIN (<<header>> \o rows) = 1..(Len(rows) + 1)
            /\ (<<header>> \o rows)[1] = header
            /\ \A q \in 1..Len(rows) : (<<header>> \o rows)[q + 1] = rows[q]
        BY <3>1, ConsHolds
      <3> QED
        BY <3>2 DEF rows
    <2> HIDE DEF grid, m
    <2> QED
      BY <1>1, <2>1
  <1>7. /\ Len(prov) = m + 1
        /\ \A q \in 1..m : prov[q + 1] = state.row_prov[q]
    <2>1. NoExtent \in Extent
      BY DEF NoExtent, Extent
    <2> QED
      BY <1>1, <2>1, ConsHolds
  <1>8. t.table_cells = FlattenSeq(grid)
    BY <1>1, <1>2, <1>3, FlattenFirst
  <1>9. \A q \in 1..m : /\ DOMAIN grid[q + 1] = 1..w /\ Len(grid[q + 1]) = w
                        /\ \A c \in 1..w :
                              /\ grid[q + 1][c].row = q
                              /\ grid[q + 1][c].column = c - 1
                              /\ grid[q + 1][c].text
                                    = <<prov[q + 1].start + Prefix
                                          + columns[c].offset>>
                        /\ prov[q + 1].start = seen[k][q].start
    <2>1. ASSUME NEW q \in 1..m
          PROVE  /\ DOMAIN grid[q + 1] = 1..w /\ Len(grid[q + 1]) = w
                 /\ \A c \in 1..w :
                       /\ grid[q + 1][c].row = q
                       /\ grid[q + 1][c].column = c - 1
                       /\ grid[q + 1][c].text
                             = <<prov[q + 1].start + Prefix + columns[c].offset>>
                 /\ prov[q + 1].start = seen[k][q].start
      <3> HIDE DEF grid, prov
      <3>1. RowPlaced(k, q, grid[q + 1], prov[q + 1])
        BY <1>4, <1>6, <1>7
      <3> QED
        BY <3>1 DEF RowPlaced, columns
    <2> HIDE DEF grid, prov, m, w
    <2> QED
      BY <2>1
  <1> HIDE DEF grid, prov, m, w
  <1>10. \A r \in 1..(m + 1) : r = 1 \/ (r # 1 /\ r - 1 \in 1..m /\ (r - 1) + 1 = r)
    BY <1>1
  <1>11. ASSUME NEW r \in 1..(m + 1)
         PROVE  /\ Len(grid[r]) = w /\ DOMAIN grid[r] = 1..w
                /\ \A c \in 1..w : grid[r][c].row = r - 1 /\ grid[r][c].column = c - 1
    <2>1. CASE r = 1
      BY <1>2, <1>6, <2>1
    <2>2. CASE r # 1
      <3>1. r - 1 \in 1..m /\ (r - 1) + 1 = r
        BY <1>10, <2>2
      <3> QED
        BY <1>9, <3>1
    <2> QED
      BY <2>1, <2>2
  <1>12. TableAligned(t)
    <2>1. \A r \in DOMAIN t.grid :
             /\ Len(t.grid[r]) = Len(t.columns)
             /\ \A c \in DOMAIN t.grid[r] :
                   <<t.grid[r][c].row, t.grid[r][c].column>> = <<r - 1, c - 1>>
      <3>1. ASSUME NEW r \in DOMAIN grid
            PROVE  /\ Len(grid[r]) = w
                   /\ \A c \in DOMAIN grid[r] :
                         <<grid[r][c].row, grid[r][c].column>> = <<r - 1, c - 1>>
        <4>1. r \in 1..(m + 1)
          BY <1>6
        <4> QED
          BY <1>11, <4>1
      <3> QED
        BY <1>3, <3>1 DEF w
    <2>2. \A r \in 1..(t.num_rows - 1) :
             t.row_prov[r + 1].start = seen[t.schema][r].start
      <3>1. t.num_rows - 1 = m
        BY <1>1, <1>3
      <3> QED
        BY <1>3, <1>9, <3>1
    <2>3. /\ t.rows_truncated = Len(seen[t.schema]) + 1 - t.num_rows
          /\ t.num_rows - 1 = m
      <3>1. (m + state.dropped) + 1 - (m + 1) = state.dropped /\ (m + 1) - 1 = m
        BY <1>1
      <3> QED
        BY <1>1, <1>3, <3>1
    <2>4. /\ t.custom_fields.rows = m
          /\ t.custom_fields.rows_truncated
                = IF t.rows_truncated = 0 THEN {} ELSE {t.rows_truncated}
      <3>1. state.dropped > 0 <=> ~(state.dropped = 0)
        BY <1>1
      <3> QED
        BY <1>3, <3>1 DEF TableCustomFields, m
    <2> QED
      BY <1>3, <1>6, <1>7, <1>8, <2>1, <2>2, <2>3, <2>4 DEF TableAligned
  <1>13. CellsPlaced(t)
    <2>1. ASSUME NEW r \in 2..(m + 1), NEW c \in 1..w
          PROVE  grid[r][c].text = <<prov[r].start + Prefix + columns[c].offset>>
      <3>1. r - 1 \in 1..m /\ (r - 1) + 1 = r
        BY <1>1
      <3> QED
        BY <1>9, <3>1
    <2> QED
      BY <1>3, <1>5, <2>1 DEF CellsPlaced
  <1> QED
    BY <1>12, <1>13 DEF t

(***************************************************************************)
(* In every document taken, the two arenas of a table agree, and a cell is *)
(* in the row of the record and under the column of the field it was       *)
(* decoded from (add_table, column, row_prov).                             *)
(***************************************************************************)
THEOREM CellsTraced == Spec => []CellsAreLocated
  <1>1. DInv => CellsAreLocated
    <2> SUFFICES ASSUME DInv PROVE CellsAreLocated
      OBVIOUS
    <2>1. ASSUME NEW i \in DOMAIN document.tables
          PROVE  \E k \in DOMAIN tables :
                    \E ref : document.tables[i] = TableItem(k, ref)
      <3>1. CASE phase = "taken"
        <4>1. document \in Documents
          BY <3>1, TakenDocument
        <4>2. document.tables \in Seq(TableItems)
          BY <4>1 DEF Documents
        <4>3. document.tables[i] \in TableItems
          BY <4>2
        <4>4. DOMAIN tables = 1..Len(tables)
          BY DEF DInv, Typed
        <4> QED
          BY <4>3, <4>4 DEF TableItems
      <3>2. CASE phase # "taken"
        <4>1. document.tables = <<>>
          BY <3>2 DEF DInv, DocumentKept, EmptyDocument
        <4> QED
          BY <4>1
      <3> QED
        BY <3>1, <3>2
    <2>2. ASSUME NEW i \in DOMAIN document.tables
          PROVE  /\ TableAligned(document.tables[i])
                 /\ CellsPlaced(document.tables[i])
                 /\ \A f \in ToSet(layout[document.tables[i].schema].fields) :
                       f.kind = "Skip" <=>
                          \A c \in DOMAIN document.tables[i].columns :
                             f.offset \notin
                                document.tables[i].columns[c].offset
                                   ..(document.tables[i].columns[c].offset
                                        + document.tables[i].columns[c].size - 1)
      <3>1. PICK k \in DOMAIN tables :
                \E ref : document.tables[i] = TableItem(k, ref)
        BY <2>1
      <3>2. PICK ref : document.tables[i] = TableItem(k, ref)
        BY <3>1
      <3>3. layout[k] \in Schema
        BY RowsPaid
      <3>4. /\ document.tables[i].schema = k
            /\ document.tables[i].columns = Columns(layout[k])
        BY <3>2 DEF TableItem
      <3>5. DOMAIN Columns(layout[k]) = 1..Len(Columns(layout[k]))
        BY <3>3, ColumnsPick
      <3>6. \A f \in ToSet(layout[k].fields) :
               f.kind = "Skip" <=>
                  \A c \in DOMAIN Columns(layout[k]) :
                     f.offset \notin Columns(layout[k])[c].offset
                                       ..(Columns(layout[k])[c].offset
                                            + Columns(layout[k])[c].size - 1)
        BY <3>3, <3>5, FillersUncovered
      <3> QED
        BY <3>2, <3>4, <3>6, TableItemLocated
    <2>3. Aligned
      BY <2>2 DEF Aligned, TableAligned
    <2> QED
      BY <2>2, <2>3 DEF CellsAreLocated, CellsPlaced
  <1> QED
    BY <1>1, DInvInductive, PTL

-----------------------------------------------------------------------------
(***************************************************************************)
(* A child taken off the body: its item claims a parent that does not list *)
(* it.                                                                     *)
(***************************************************************************)
LEMMA UnlinkedFound ==
    ASSUME NEW doc \in Documents, Linked(doc), NEW i \in DOMAIN doc.body
    PROVE  ~Sound(Unlinked(doc, i))
  <1> DEFINE ref == doc.body[i]
             after == Unlinked(doc, i)
             n == Len(doc.texts) + Len(doc.tables)
  <1>1. doc.body \in Seq(Ref) /\ i \in 1..Len(doc.body)
    BY DEF Documents
  <1>2. ref \in Given(doc)
    BY <1>1 DEF Linked
  <1>3. PICK j \in 1..n : Items(doc)[j].self_ref = ref
    BY <1>2, ItemRefs DEF LaidOut
  <1>4. Items(doc)[j].parent = Body /\ j \in DOMAIN Items(doc)
    BY ItemRefs DEF LaidOut
  <1>5. /\ after.body = RemoveAt(doc.body, i)
        /\ after.texts = doc.texts /\ after.tables = doc.tables
    BY DEF Unlinked, Documents
  <1>6. Items(after) = Items(doc)
    BY <1>5 DEF Items
  <1>7. ref \notin ToSet(after.body)
    <2> DEFINE left == RemoveAt(doc.body, i)
    <2>1. /\ left \in Seq(Ref)
          /\ \A d \in 1..Len(left) :
                \E l \in 1..Len(doc.body) : l # i /\ left[d] = doc.body[l]
      BY <1>1, RemoveAtKeeps
    <2>2. \A l \in 1..Len(doc.body) : l # i => doc.body[l] # ref
      BY <1>1 DEF Linked
    <2> HIDE DEF left, ref
    <2>3. DOMAIN left = 1..Len(left)
      BY <2>1
    <2>4. \A d \in DOMAIN left : left[d] # ref
      BY <2>1, <2>2, <2>3
    <2> QED
      BY <1>5, <2>4 DEF ToSet, left
  <1> HIDE DEF after, ref
  <1>8. Listed(after, Body) = ToSet(after.body)
    <2>1. Body # Furniture
      BY DEF Body, Furniture
    <2> QED
      BY <2>1 DEF Listed
  <1>9. j \in BadClaims(after)
    BY <1>3, <1>4, <1>6, <1>7, <1>8 DEF BadClaims
  <1> QED
    BY <1>9 DEF Sound, after

(***************************************************************************)
(* An item whose ref no other has, lost from its arena: the body still     *)
(* lists it.                                                               *)
(***************************************************************************)
LEMMA LostItemFound ==
    ASSUME NEW doc \in Documents, Linked(doc), NEW after,
           after.body = doc.body, NEW ref \in Given(doc),
           \A j \in DOMAIN Items(after) : Items(after)[j].self_ref # ref
    PROVE  ~Sound(after)
  <1>1. Listed(after, Body) = Listed(doc, Body)
    BY DEF Listed
  <1>2. ref \in Listed(after, Body)
    BY <1>1, RefsOfLinked
  <1>3. ref \notin Refs(after)
    <2>1. ref # Body /\ ref # Furniture
      BY RefsOfLinked
    <2> QED
      BY <2>1 DEF Refs
  <1>4. ref \in Dangling(after)
    BY <1>2, <1>3 DEF Dangling
  <1> QED
    BY <1>4 DEF Sound

(***************************************************************************)
(* So of a text, and of a table.                                           *)
(***************************************************************************)
LEMMA LostTextFound ==
    ASSUME NEW doc \in Documents, Linked(doc), NEW i \in DOMAIN doc.texts
    PROVE  ~Sound(WithoutText(doc, i))
  <1> DEFINE t == Len(doc.texts)
             u == Len(doc.tables)
             after == WithoutText(doc, i)
             left == RemoveAt(doc.texts, i)
             S == TextItems \cup TableItems
             ref == doc.texts[i].self_ref
  <1>1. /\ doc.texts \in Seq(TextItems) /\ doc.texts \in Seq(S)
        /\ doc.tables \in Seq(S) /\ i \in 1..t
    BY DEF Documents
  <1>2. /\ after.texts = left /\ after.tables = doc.tables
        /\ after.body = doc.body
    BY DEF WithoutText, Documents
  <1>3. Items(after) = left \o doc.tables
    BY <1>2 DEF Items
  <1>4. LaidOut(doc, t, u)
    BY ItemRefs
  <1>5. /\ left \in Seq(S)
        /\ \A j \in 1..Len(left) : \E l \in 1..t : l # i /\ left[j] = doc.texts[l]
    <2> HIDE DEF S
    <2>1. doc.texts \in Seq(S) /\ i \in 1..Len(doc.texts)
      BY <1>1
    <2>2. ASSUME NEW s \in Seq(S), NEW d \in 1..Len(s)
          PROVE  /\ RemoveAt(s, d) \in Seq(S)
                 /\ \A j \in 1..Len(RemoveAt(s, d)) :
                       \E l \in 1..Len(s) : l # d /\ RemoveAt(s, d)[j] = s[l]
      BY RemoveAtKeeps
    <2> QED
      BY <2>1, <2>2, Zenon
  <1> HIDE DEF t, u, S, left, after, ref
  <1>6. /\ ref \in Given(doc) /\ t \in Nat /\ u \in Nat
        /\ \A l \in 1..t : l # i => doc.texts[l].self_ref # ref
        /\ \A l \in 1..u : doc.tables[l].self_ref # ref
    <2>1. i \in 1..(t + u) /\ t \in Nat /\ u \in Nat
      BY <1>1, <1>4 DEF LaidOut
    <2>2. Items(doc)[i].self_ref = ref /\ ref \in Given(doc)
      BY <1>1, <1>4, <2>1 DEF LaidOut, ref
    <2>3. ASSUME NEW l \in 1..t, l # i PROVE doc.texts[l].self_ref # ref
      <3>1. l \in 1..(t + u)
        BY <2>1
      <3> QED
        BY <1>4, <2>1, <2>2, <2>3, <3>1 DEF LaidOut
    <2>4. ASSUME NEW l \in 1..u PROVE doc.tables[l].self_ref # ref
      <3>1. t + l \in 1..(t + u) /\ t + l # i
        BY <1>1, <2>1
      <3> QED
        BY <1>4, <2>1, <2>2, <3>1 DEF LaidOut
    <2> QED
      BY <2>1, <2>2, <2>3, <2>4
  <1>7. ASSUME NEW j \in DOMAIN Items(after)
        PROVE  Items(after)[j].self_ref # ref
    <2>1. left \o doc.tables \in Seq(S)
      BY <1>1, <1>5, ConcatProperties
    <2>2. j \in 1..Len(left \o doc.tables)
      BY <1>3, <2>1
    <2>3. \/ \E l \in 1..Len(left) : (left \o doc.tables)[j] = left[l]
          \/ \E l \in 1..Len(doc.tables) :
                (left \o doc.tables)[j] = doc.tables[l]
      <3>1. left \in Seq(S) /\ doc.tables \in Seq(S)
        BY <1>1, <1>5
      <3> DEFINE v == Len(left)
                 w == Len(doc.tables)
      <3>2. /\ v \in Nat /\ w \in Nat /\ Len(left \o doc.tables) = v + w
            /\ \A l \in 1..(v + w) : (left \o doc.tables)[l] =
                  IF l <= v THEN left[l] ELSE doc.tables[l - v]
        BY <3>1, ConcatProperties
      <3> HIDE DEF v, w
      <3>3. j \in 1..(v + w)
        BY <2>2, <3>2
      <3>4. j \in 1..v \/ (~(j <= v) /\ j - v \in 1..w)
        BY <3>2, <3>3
      <3> QED
        BY <3>2, <3>3, <3>4 DEF v, w
    <2>4. \/ \E l \in 1..Len(left) : Items(after)[j] = left[l]
          \/ \E l \in 1..u : Items(after)[j] = doc.tables[l]
      BY <1>3, <2>3 DEF u
    <2> QED
      BY <1>5, <1>6, <2>4
  <1> QED
    BY <1>2, <1>6, <1>7, LostItemFound DEF after

(***************************************************************************)
(* The same of a table.                                                    *)
(***************************************************************************)
LEMMA LostTableFound ==
    ASSUME NEW doc \in Documents, Linked(doc), NEW i \in DOMAIN doc.tables
    PROVE  ~Sound(WithoutTable(doc, i))
  <1> DEFINE t == Len(doc.texts)
             u == Len(doc.tables)
             after == WithoutTable(doc, i)
             left == RemoveAt(doc.tables, i)
             S == TextItems \cup TableItems
             ref == doc.tables[i].self_ref
  <1>1. /\ doc.tables \in Seq(TableItems) /\ doc.texts \in Seq(S)
        /\ doc.tables \in Seq(S) /\ i \in 1..u
    BY DEF Documents
  <1>2. /\ after.texts = doc.texts /\ after.tables = left
        /\ after.body = doc.body
    BY DEF WithoutTable, Documents
  <1>3. Items(after) = doc.texts \o left
    BY <1>2 DEF Items
  <1>4. LaidOut(doc, t, u)
    BY ItemRefs
  <1>5. /\ left \in Seq(S)
        /\ \A j \in 1..Len(left) : \E l \in 1..u : l # i /\ left[j] = doc.tables[l]
    <2> HIDE DEF S
    <2>1. doc.tables \in Seq(S) /\ i \in 1..Len(doc.tables)
      BY <1>1
    <2>2. ASSUME NEW s \in Seq(S), NEW d \in 1..Len(s)
          PROVE  /\ RemoveAt(s, d) \in Seq(S)
                 /\ \A j \in 1..Len(RemoveAt(s, d)) :
                       \E l \in 1..Len(s) : l # d /\ RemoveAt(s, d)[j] = s[l]
      BY RemoveAtKeeps
    <2> QED
      BY <2>1, <2>2, Zenon
  <1> HIDE DEF t, u, S, left, after, ref
  <1>6. /\ ref \in Given(doc) /\ t \in Nat /\ u \in Nat
        /\ \A l \in 1..u : l # i => doc.tables[l].self_ref # ref
        /\ \A l \in 1..t : doc.texts[l].self_ref # ref
    <2>1. t + i \in 1..(t + u) /\ t \in Nat /\ u \in Nat
      BY <1>1, <1>4 DEF LaidOut
    <2>2. Items(doc)[t + i].self_ref = ref /\ ref \in Given(doc)
      BY <1>1, <1>4, <2>1 DEF LaidOut, ref
    <2>3. ASSUME NEW l \in 1..u, l # i PROVE doc.tables[l].self_ref # ref
      <3>1. t + l \in 1..(t + u) /\ t + l # t + i
        BY <1>1, <2>1, <2>3
      <3> QED
        BY <1>4, <2>1, <2>2, <2>3, <3>1 DEF LaidOut
    <2>4. ASSUME NEW l \in 1..t PROVE doc.texts[l].self_ref # ref
      <3>1. l \in 1..(t + u) /\ l # t + i
        BY <1>1, <2>1
      <3> QED
        BY <1>4, <2>1, <2>2, <3>1 DEF LaidOut
    <2> QED
      BY <2>1, <2>2, <2>3, <2>4
  <1>7. ASSUME NEW j \in DOMAIN Items(after)
        PROVE  Items(after)[j].self_ref # ref
    <2>1. doc.texts \o left \in Seq(S)
      BY <1>1, <1>5, ConcatProperties
    <2>2. j \in 1..Len(doc.texts \o left)
      BY <1>3, <2>1
    <2>3. \/ \E l \in 1..Len(doc.texts) :
                (doc.texts \o left)[j] = doc.texts[l]
          \/ \E l \in 1..Len(left) : (doc.texts \o left)[j] = left[l]
      <3>1. left \in Seq(S) /\ doc.texts \in Seq(S)
        BY <1>1, <1>5
      <3> DEFINE v == Len(doc.texts)
                 w == Len(left)
      <3>2. /\ v \in Nat /\ w \in Nat /\ Len(doc.texts \o left) = v + w
            /\ \A l \in 1..(v + w) : (doc.texts \o left)[l] =
                  IF l <= v THEN doc.texts[l] ELSE left[l - v]
        BY <3>1, ConcatProperties
      <3> HIDE DEF v, w
      <3>3. j \in 1..(v + w)
        BY <2>2, <3>2
      <3>4. j \in 1..v \/ (~(j <= v) /\ j - v \in 1..w)
        BY <3>2, <3>3
      <3> QED
        BY <3>2, <3>3, <3>4 DEF v, w
    <2>4. \/ \E l \in 1..t : Items(after)[j] = doc.texts[l]
          \/ \E l \in 1..Len(left) : Items(after)[j] = left[l]
      BY <1>3, <2>3 DEF t
    <2> QED
      BY <1>5, <1>6, <2>4
  <1> QED
    BY <1>2, <1>6, <1>7, LostItemFound DEF after

(***************************************************************************)
(* A table given the ref of another: the items agree but for its own ref,  *)
(* and two of them, or one and a root, have the same.                      *)
(***************************************************************************)
LEMMA RenamedFound ==
    ASSUME NEW doc \in Documents, Linked(doc), NEW i \in DOMAIN doc.tables,
           NEW ref \in Refs(doc) \ {doc.tables[i].self_ref}
    PROVE  ~Sound(Renamed(doc, i, ref))
  <1> DEFINE t == Len(doc.texts)
             u == Len(doc.tables)
             after == Renamed(doc, i, ref)
             renamed == [doc.tables EXCEPT ![i].self_ref = ref]
             S == TextItems \cup TableItems \cup {renamed[i]}
  <1>1. /\ doc.texts \in Seq(TextItems) /\ doc.tables \in Seq(TableItems)
        /\ i \in 1..u /\ DOMAIN doc.tables = 1..u
    BY DEF Documents
  <1>2. LaidOut(doc, t, u)
    BY ItemRefs
  <1>3. after.texts = doc.texts /\ after.tables = renamed
    BY DEF Renamed, Documents
  <1>4. Items(after) = doc.texts \o renamed
    BY <1>3 DEF Items
  <1>5. /\ DOMAIN renamed = 1..u
        /\ \A l \in 1..u : l # i => renamed[l] = doc.tables[l]
        /\ renamed[i] = [doc.tables[i] EXCEPT !.self_ref = ref]
    BY <1>1
  <1>6. renamed[i].self_ref = ref
    <2>1. doc.tables[i] \in TableItems
      BY <1>1
    <2>2. PICK k \in 1..Len(tables), r \in Ref : doc.tables[i] = TableItem(k, r)
      BY <2>1 DEF TableItems
    <2>3. "self_ref" \in DOMAIN doc.tables[i]
      BY <2>2 DEF TableItem
    <2> QED
      BY <1>5, <2>3
  <1>7. t \in Nat /\ u \in Nat
    BY <1>2 DEF LaidOut
  <1> HIDE DEF after
  <1>8. /\ DOMAIN Items(after) = 1..(t + u)
        /\ Items(after)[t + i].self_ref = ref
        /\ \A j \in 1..(t + u) : j # t + i =>
              Items(after)[j].self_ref = Items(doc)[j].self_ref
    <2>1. doc.texts \in Seq(S) /\ Len(doc.texts) = t
      BY <1>1
    <2>2. renamed \in Seq(S) /\ Len(renamed) = u
      <3>0. renamed = [l \in DOMAIN renamed |-> renamed[l]]
        BY <1>1
      <3> HIDE DEF u, renamed
      <3>1. \A l \in 1..u : renamed[l] \in S
        <4>1. \A l \in 1..u : doc.tables[l] \in TableItems
          BY <1>1 DEF u
        <4>2. ASSUME NEW l \in 1..u PROVE renamed[l] \in S
          <5>1. CASE l = i
            BY <5>1
          <5>2. CASE l # i
            BY <5>2, <4>1, <1>5
          <5> QED
            BY <5>1, <5>2
        <4> QED
          BY <4>2
      <3> HIDE DEF S
      <3>2. renamed = [l \in 1..u |-> renamed[l]]
        BY <1>5, <3>0, Zenon
      <3>3. renamed \in [1..u -> S]
        BY <3>1, <3>2
      <3> QED
        BY <3>3, <1>5, <1>7
    <2> HIDE DEF t, u, S, renamed
    <2>3. /\ Len(doc.texts \o renamed) = t + u
          /\ doc.texts \o renamed \in Seq(S)
          /\ \A j \in 1..(t + u) : (doc.texts \o renamed)[j] =
                IF j <= t THEN doc.texts[j] ELSE renamed[j - t]
      <3> DEFINE x == doc.texts
      <3>1. x \in Seq(S) /\ renamed \in Seq(S) /\ Len(x) = t /\ Len(renamed) = u
        BY <2>1, <2>2
      <3> HIDE DEF x
      <3>2. /\ x \o renamed \in Seq(S)
            /\ Len(x \o renamed) = Len(x) + Len(renamed)
            /\ \A j \in 1..(Len(x) + Len(renamed)) : (x \o renamed)[j] =
                  IF j <= Len(x) THEN x[j] ELSE renamed[j - Len(x)]
        BY <3>1, ConcatProperties, Zenon
      <3> QED
        BY <3>1, <3>2, Zenon DEF x
    <2>4. DOMAIN Items(after) = 1..(t + u)
      BY <1>4, <2>3
    <2>5. Items(after)[t + i].self_ref = ref
      <3>1. t + i \in 1..(t + u) /\ ~(t + i <= t) /\ (t + i) - t = i
        BY <1>1, <1>7
      <3> QED
        BY <1>4, <1>6, <2>3, <3>1
    <2>6. ASSUME NEW j \in 1..(t + u), j # t + i
          PROVE  Items(after)[j].self_ref = Items(doc)[j].self_ref
      <3>1. CASE j <= t
        <4>1. j \in 1..t
          BY <3>1, <1>7
        <4> QED
          BY <1>2, <1>4, <2>3, <3>1, <4>1 DEF LaidOut
      <3>2. CASE ~(j <= t)
        <4>1. j - t \in 1..u /\ j - t # i /\ t + (j - t) = j
          BY <3>2, <2>6, <1>7, <1>1
        <4>2. Items(doc)[t + (j - t)] = doc.tables[j - t]
          BY <1>2, <4>1 DEF LaidOut
        <4>3. Items(after)[j] = renamed[j - t]
          BY <1>4, <2>3, <3>2
        <4> QED
          BY <1>5, <4>1, <4>2, <4>3
      <3> QED
        BY <3>1, <3>2
    <2> QED
      BY <2>4, <2>5, <2>6
  <1> HIDE DEF t, u, renamed, S
  <1>9. t + i \in 1..(t + u) /\ t + i \in Int
    BY <1>1, <1>7
  <1>10. Items(doc)[t + i] = doc.tables[i]
    BY <1>1, <1>2 DEF LaidOut
  <1>11. Repeated(after) # {}
    <2>1. CASE ref \in {Body, Furniture}
      BY <1>8, <1>9, <2>1 DEF Repeated
    <2>2. CASE ref \in Given(doc)
      <3>1. PICK j \in 1..(t + u) : Items(doc)[j].self_ref = ref
        BY <1>2, <2>2 DEF LaidOut
      <3>2. j # t + i
        BY <1>10, <3>1
      <3>3. Items(after)[j].self_ref = ref
        BY <1>8, <3>1, <3>2
      <3>4. CASE j < t + i
        <4>1. j \in 1..((t + i) - 1)
          BY <3>4, <1>9
        <4> QED
          BY <1>8, <1>9, <3>3, <4>1 DEF Repeated
      <3>5. CASE t + i < j
        <4>1. t + i \in 1..(j - 1)
          BY <3>5, <1>9
        <4> QED
          BY <1>8, <1>9, <3>3, <4>1 DEF Repeated
      <3>6. j < t + i \/ t + i < j
        BY <3>2, <1>9
      <3> QED
        BY <3>4, <3>5, <3>6
    <2>3. Refs(doc) = {Body, Furniture} \cup Given(doc)
      BY RefsOfLinked
    <2> QED
      BY <2>1, <2>2, <2>3
  <1> QED
    BY <1>11 DEF Sound, after

(***************************************************************************)
(* CheckFindsBrokenLinks holds of the fold: the check its tests end with   *)
(* accepts its document and refuses every one of those breakings of it, of *)
(* every layout and every walk.                                            *)
(***************************************************************************)
THEOREM BrokenLinksFound == Spec => []CheckFindsBrokenLinks
  <1>1. DInv => CheckFindsBrokenLinks
    <2> SUFFICES ASSUME DInv, phase = "taken"
                 PROVE  CheckFindsBrokenLinks
      BY DEF CheckFindsBrokenLinks
    <2>1. document \in Documents /\ Linked(document)
      BY TakenDocument
    <2> QED
      BY <2>1, UnlinkedFound, LostTextFound, LostTableFound, RenamedFound
      DEF CheckFindsBrokenLinks
  <1> QED
    BY <1>1, DInvInductive, PTL
=============================================================================
